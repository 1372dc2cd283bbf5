---------------------- MODULE OutboundFederationProofs ----------------------
(***************************************************************************)
(* For every set of users and followers: the state of the federation is    *)
(* well typed, every federated user has exactly one live poller, and a     *)
(* scan stops a user only when that is earned.                             *)
(*                                                                         *)
(* The last one is not inductive.  It needs that the count in the map      *)
(* emptyScans never runs ahead of the empty reads: they are equal, except  *)
(* for the user whose answer has been read and is not acted on yet; and    *)
(* that empty reads without a genuine one are all wrong answers, which the *)
(* number of faults counts.                                                *)
(***************************************************************************)
EXTENDS OutboundFederation, TLAPS

Pollers ==
    /\ started \subseteq User
    /\ live \in [User -> Nat] /\ dying \in [User -> Nat]
    /\ OnePollerPerUser

-----------------------------------------------------------------------------
(* What start does to the pollers. *)
LEMMA StartInv ==
    ASSUME Pollers, NEW u \in User, start(u)
    PROVE  Pollers' /\ UNCHANGED history
<1>1. CASE u \in started
  BY <1>1 DEF Pollers, OnePollerPerUser, start, history
<1>2. CASE u \notin started
  BY <1>2, SMT DEF Pollers, OnePollerPerUser, start, history
<1> QED
  BY <1>1, <1>2

(* What stop does to them. *)
LEMMA StopInv ==
    ASSUME Pollers, hastyStop \subseteq User, NEW u \in User, stop(u)
    PROVE  Pollers' /\ hastyStop' \subseteq User /\ UNCHANGED <<emptyReads, genuine>>
<1>1. CASE u \notin started
  BY <1>1 DEF Pollers, OnePollerPerUser, stop, history
<1>2. CASE u \in started
  <2>1. live[u] = 1
    BY <1>2 DEF Pollers, OnePollerPerUser
  <2>2. /\ started' = started \ {u}
        /\ live' = [live EXCEPT ![u] = @ - 1]
        /\ dying' = [dying EXCEPT ![u] = @ + 1]
        /\ UNCHANGED <<emptyReads, genuine>>
    BY <1>2 DEF stop
  <2>3. hastyStop' \subseteq User
    BY <1>2 DEF stop
  <2> QED
    BY <2>1, <2>2, <2>3, SMT DEF Pollers, OnePollerPerUser
<1> QED
  BY <1>1, <1>2

-----------------------------------------------------------------------------
(* The other variables have their types; no theorem needs the type of      *)
(* accepting, graph or the scanner's todo.                                 *)
Counters ==
    /\ emptyScans \in [User -> 0..EmptyScansToStop]
    /\ emptyReads \in [User -> 0..EmptyScansToStop]
    /\ genuine \in [User -> BOOLEAN]
    /\ faults \in 0..MaxFaults
    /\ hastyStop \subseteq User

Scanner ==
    /\ todo \subseteq User
    /\ reading \in (User \ todo) \cup {NoUser}
    /\ answer \in {"error", "empty", "some"}

(* The count kept for u agrees with its empty reads, but for an answer the *)
(* scan has not acted on.                                                  *)
CountAgrees(u) ==
    CASE reading = u /\ answer = "some"  -> emptyReads[u] = 0
      [] reading = u /\ answer = "empty" ->
            emptyReads[u] = IF emptyScans[u] < EmptyScansToStop THEN emptyScans[u] + 1
                            ELSE emptyScans[u]
      [] OTHER -> emptyReads[u] = emptyScans[u]

(* Empty reads of which none was genuine are faults. *)
WrongReads(u) == genuine[u] \/ emptyReads[u] <= faults

Rest ==
    /\ graph \in [User -> SUBSET Follower]
    /\ accepting \in [User -> [Follower -> {"no", "accepted", "added"}]]
    /\ events \in 0..MaxEvents /\ restarts \in 0..MaxRestarts

IndInv ==
    /\ Pollers /\ Counters /\ Scanner /\ Rest
    /\ \A u \in User : CountAgrees(u) /\ WrongReads(u)
    /\ StopIsEarned

(* The gateway starts with nobody federated and nothing counted. *)
LEMMA InitInv == Init => IndInv
<1> SUFFICES ASSUME Init PROVE IndInv
  OBVIOUS
<1>1. Pollers
  BY SMT DEF Init, Pollers, OnePollerPerUser
<1>2. Counters /\ Scanner /\ Rest
  BY FederationAssumption, SMT DEF Init, Counters, Scanner, Rest
<1>3. ASSUME NEW u \in User PROVE CountAgrees(u) /\ WrongReads(u)
  BY FederationAssumption, SMT DEF Init, CountAgrees, WrongReads
<1>4. StopIsEarned
  BY DEF Init, StopIsEarned
<1> QED
  BY <1>1, <1>2, <1>3, <1>4 DEF IndInv

(* A step that changes neither the counts nor the scanner keeps what is    *)
(* known about them; faults may grow.                                      *)
LEMMA CountsKept ==
    ASSUME IndInv, UNCHANGED <<emptyScans, scanner, history>>,
           faults' \in 0..MaxFaults, faults' >= faults
    PROVE  /\ Counters' /\ Scanner' /\ StopIsEarned'
           /\ \A u \in User : CountAgrees(u)' /\ WrongReads(u)'
<1> USE DEF scanner, history
<1>1. Counters' /\ Scanner' /\ StopIsEarned'
  BY DEF IndInv, Counters, Scanner, StopIsEarned
<1>2. ASSUME NEW u \in User PROVE CountAgrees(u)'
  BY DEF IndInv, CountAgrees
<1>3. ASSUME NEW u \in User PROVE WrongReads(u)'
  <2>1. emptyReads[u] \in Nat /\ faults \in Nat /\ faults' \in Nat
    BY FederationAssumption, SMT DEF IndInv, Counters
  <2> QED
    BY <2>1, SMT DEF IndInv, WrongReads
<1> QED
  BY <1>1, <1>2, <1>3

(* A step that leaves the pollers alone. *)
LEMMA PollersKept ==
    ASSUME Pollers, UNCHANGED <<started, live, dying>>
    PROVE  Pollers'
  BY DEF Pollers, OnePollerPerUser

(* The goroutines of a cancelled poller return. *)
LEMMA PollerExitsInv ==
    ASSUME IndInv, NEW u \in User, PollerExits(u)
    PROVE  IndInv'
<1>1. Pollers'
  BY SMT DEF IndInv, PollerExits, Pollers, OnePollerPerUser
<1>2. Rest'
  BY DEF IndInv, PollerExits, Rest
<1>3. faults' \in 0..MaxFaults /\ faults' >= faults
  BY FederationAssumption, SMT DEF IndInv, PollerExits, Counters
<1>4. UNCHANGED <<emptyScans, scanner, history>>
  BY DEF PollerExits
<1> QED
  BY <1>1, <1>2, <1>3, <1>4, CountsKept DEF IndInv

(* Follows, unfollows and followers.Add happen outside the scanner. *)
LEMMA EnvironmentInv ==
    ASSUME IndInv, NEW u \in User, NEW f \in Follower,
           FollowAccepted(u, f) \/ Unfollow(u, f) \/ AddFollower(u, f)
    PROVE  IndInv'
<1>1. UNCHANGED <<emptyScans, scanner, history>> /\ UNCHANGED <<started, live, dying>>
  BY DEF FollowAccepted, Unfollow, AddFollower
<1>2. faults' \in 0..MaxFaults /\ faults' >= faults
  BY FederationAssumption, SMT DEF IndInv, Counters, FollowAccepted, Unfollow, AddFollower
<1>3. Rest'
  <2>1. CASE FollowAccepted(u, f)
    BY <2>1, FederationAssumption, SMT DEF IndInv, Rest, FollowAccepted
  <2>2. CASE Unfollow(u, f)
    BY <2>2, FederationAssumption, SMT DEF IndInv, Rest, Unfollow
  <2>3. CASE AddFollower(u, f)
    BY <2>3, FederationAssumption, SMT DEF IndInv, Rest, AddFollower
  <2> QED
    BY <2>1, <2>2, <2>3
<1>4. Pollers'
  BY <1>1, PollersKept DEF IndInv
<1> QED
  BY <1>1, <1>2, <1>3, <1>4, CountsKept DEF IndInv

(* An accepted Follow starts federation at once. *)
LEMMA OnFollowedInv ==
    ASSUME IndInv, NEW u \in User, NEW f \in Follower, OnFollowed(u, f)
    PROVE  IndInv'
<1>1. Pollers' /\ UNCHANGED history
  BY StartInv DEF IndInv, OnFollowed
<1>2. UNCHANGED <<emptyScans, scanner>>
  BY DEF OnFollowed
<1>3. faults' \in 0..MaxFaults /\ faults' >= faults
  BY FederationAssumption, SMT DEF IndInv, OnFollowed, Counters
<1>4. Rest'
  BY SMT DEF IndInv, Rest, OnFollowed
<1> QED
  BY <1>1, <1>2, <1>3, <1>4, CountsKept DEF IndInv

-----------------------------------------------------------------------------
(* A scan begins, or ends early. *)
LEMMA ScanPagesInv ==
    ASSUME IndInv, ScanBegins \/ ScanAborts
    PROVE  IndInv'
<1>1. /\ UNCHANGED <<emptyScans, reading, answer, emptyReads, genuine, hastyStop>>
      /\ UNCHANGED <<started, live, dying>>
      /\ UNCHANGED <<graph, accepting, events, restarts>>
  BY DEF ScanBegins, ScanAborts, history
<1>2. reading = NoUser /\ todo' \subseteq User
  BY DEF ScanBegins, ScanAborts
<1>3. faults \in Nat /\ faults' \in 0..MaxFaults /\ faults' >= faults
  BY FederationAssumption, SMT DEF IndInv, Counters, ScanBegins, ScanAborts
<1>4. Pollers'
  BY <1>1, PollersKept DEF IndInv
<1>5. Counters' /\ Scanner' /\ Rest' /\ StopIsEarned'
  BY <1>1, <1>2, <1>3 DEF IndInv, Counters, Scanner, Rest, StopIsEarned
<1>6. ASSUME NEW u \in User PROVE CountAgrees(u)'
  BY <1>1, <1>6 DEF IndInv, CountAgrees
<1>7. ASSUME NEW u \in User PROVE WrongReads(u)'
  <2>1. emptyReads[u] \in Nat
    BY FederationAssumption, <1>7, SMT DEF IndInv, Counters
  <2> QED
    BY <1>1, <1>3, <1>7, <2>1, SMT DEF IndInv, WrongReads
<1> QED
  BY <1>4, <1>5, <1>6, <1>7 DEF IndInv

(* The scan reads the followers of u. *)
LEMMA ScanReadsInv ==
    ASSUME IndInv, NEW u \in User, ScanReads(u)
    PROVE  IndInv'
<1>1. /\ UNCHANGED <<emptyScans, hastyStop>>
      /\ UNCHANGED <<started, live, dying>>
      /\ UNCHANGED <<graph, accepting, events, restarts>>
  BY DEF ScanReads
<1>2. /\ reading = NoUser /\ u \in todo
      /\ todo' = todo \ {u} /\ reading' = u
      /\ answer' \in {"error", "empty", "some"}
  BY DEF ScanReads
<1>3. \/ faults' = faults /\ (answer' = "empty" => graph[u] = {})
      \/ faults' = faults + 1 /\ faults < MaxFaults
  BY DEF ScanReads
<1>4. /\ faults \in Nat /\ faults' \in 0..MaxFaults
      /\ faults' \in Nat /\ faults' >= faults
  BY <1>3, FederationAssumption, SMT DEF IndInv, Counters
<1>5. /\ emptyReads' = [emptyReads EXCEPT ![u] =
            CASE answer' = "empty" -> IF @ < EmptyScansToStop THEN @ + 1 ELSE @
              [] answer' = "some"  -> 0
              [] answer' = "error" -> @]
      /\ genuine' = [genuine EXCEPT ![u] =
            answer' # "some" /\ (@ \/ (answer' = "empty" /\ graph[u] = {}))]
  BY DEF ScanReads
<1>6. /\ emptyReads \in [User -> 0..EmptyScansToStop] /\ EmptyScansToStop \in Nat \ {0}
      /\ emptyScans \in [User -> 0..EmptyScansToStop]
      /\ genuine \in [User -> BOOLEAN]
  BY FederationAssumption DEF IndInv, Counters
<1>7. emptyReads' \in [User -> 0..EmptyScansToStop]
  <2>1. CASE answer' = "empty"
    BY <1>5, <1>6, <2>1, SMT
  <2>2. CASE answer' = "some"
    BY <1>5, <1>6, <2>2, SMT
  <2>3. CASE answer' = "error"
    BY <1>5, <1>6, <2>3, SMT
  <2> QED
    BY <1>2, <2>1, <2>2, <2>3
<1>8. genuine' \in [User -> BOOLEAN]
  BY <1>5, <1>6
<1>9. Pollers'
  BY <1>1, PollersKept DEF IndInv
<1>10. Counters' /\ Rest' /\ StopIsEarned'
  BY <1>1, <1>4, <1>7, <1>8 DEF IndInv, Counters, Rest, StopIsEarned
<1>11. Scanner'
  BY <1>2 DEF IndInv, Scanner
<1>12. emptyReads[u] = emptyScans[u]
  <2>1. reading # u
    BY <1>2, FederationAssumption
  <2> QED
    BY <2>1 DEF IndInv, CountAgrees
<1>13. ASSUME NEW v \in User PROVE CountAgrees(v)' /\ WrongReads(v)'
  <2>1. CASE v # u
    <3>1. emptyReads'[v] = emptyReads[v] /\ genuine'[v] = genuine[v]
      BY <1>5, <1>6, <2>1
    <3>2. reading # v /\ reading' # v /\ emptyScans'[v] = emptyScans[v]
      BY <1>1, <1>2, <2>1, FederationAssumption
    <3>3. CountAgrees(v)'
      BY <3>1, <3>2, SMT DEF IndInv, CountAgrees
    <3>4. WrongReads(v)'
      BY <1>4, <1>6, <3>1, SMT DEF IndInv, WrongReads
    <3> QED
      BY <3>3, <3>4
  <2>2. CASE v = u /\ answer' = "empty"
    <3>1. emptyReads'[u] = IF emptyReads[u] < EmptyScansToStop THEN emptyReads[u] + 1
                           ELSE emptyReads[u]
      BY <1>5, <1>6, <2>2
    <3>2. CountAgrees(v)'
      BY <1>1, <1>2, <1>12, <2>2, <3>1 DEF CountAgrees
    <3>3. genuine'[u] \/ faults' = faults + 1
      BY <1>3, <1>5, <1>6, <2>2
    <3>4. genuine[u] => genuine'[u]
      BY <1>5, <1>6, <2>2
    <3>5. WrongReads(v)'
      <4>1. CASE genuine'[u]
        BY <2>2, <4>1 DEF WrongReads
      <4>2. CASE ~genuine'[u]
        <5>1. emptyReads[u] <= faults /\ faults' = faults + 1
          BY <3>3, <3>4, <4>2 DEF IndInv, WrongReads
        <5> QED
          BY <1>4, <1>6, <2>2, <3>1, <5>1, SMT DEF WrongReads
      <4> QED
        BY <4>1, <4>2
    <3> QED
      BY <3>2, <3>5
  <2>3. CASE v = u /\ answer' = "some"
    <3>1. emptyReads'[u] = 0
      BY <1>5, <1>6, <2>3, SMT
    <3> QED
      BY <1>2, <1>4, <2>3, <3>1, SMT DEF CountAgrees, WrongReads
  <2>4. CASE v = u /\ answer' = "error"
    <3>1. emptyReads'[u] = emptyReads[u] /\ (genuine[u] => genuine'[u])
      BY <1>5, <1>6, <2>4
    <3>2. CountAgrees(v)'
      BY <1>1, <1>2, <1>12, <2>4, <3>1 DEF CountAgrees
    <3>3. WrongReads(v)'
      BY <1>4, <1>6, <2>4, <3>1, SMT DEF IndInv, WrongReads
    <3> QED
      BY <3>2, <3>3
  <2> QED
    BY <1>2, <2>1, <2>2, <2>3, <2>4
<1> QED
  BY <1>9, <1>10, <1>11, <1>13 DEF IndInv

(* The scan acts on an answer: whatever it does with the pollers, the      *)
(* count is then that of the empty reads, and a stop was earned.           *)
LEMMA ScanActsInv ==
    ASSUME IndInv, ScanActs
    PROVE  IndInv'
<1> DEFINE u == reading
<1>1. /\ u \in User /\ u # NoUser /\ reading' = NoUser /\ answer' = "error"
      /\ answer \in {"error", "empty", "some"}
      /\ UNCHANGED <<graph, accepting, todo, faults, events, restarts>>
  BY DEF IndInv, Scanner, ScanActs
<1>2. /\ emptyScans \in [User -> 0..EmptyScansToStop]
      /\ emptyReads \in [User -> 0..EmptyScansToStop]
      /\ EmptyScansToStop \in Nat \ {0} /\ faults \in Nat
      /\ hastyStop = {} /\ hastyStop \subseteq User
  BY FederationAssumption, SMT DEF IndInv, Counters, StopIsEarned
<1>3. \A v \in User \ {u} : emptyReads[v] = emptyScans[v]
  BY DEF IndInv, CountAgrees
<1>4. SUFFICES /\ Pollers' /\ UNCHANGED history
               /\ emptyScans' \in [User -> 0..EmptyScansToStop]
               /\ \A v \in User : emptyReads[v] = emptyScans'[v]
  <2> SUFFICES ASSUME Pollers' /\ UNCHANGED history,
                      emptyScans' \in [User -> 0..EmptyScansToStop],
                      \A v \in User : emptyReads[v] = emptyScans'[v]
               PROVE  IndInv'
    OBVIOUS
  <2>1. Counters' /\ Scanner' /\ Rest' /\ StopIsEarned'
    BY <1>1 DEF IndInv, Counters, Scanner, Rest, StopIsEarned, history
  <2>2. ASSUME NEW v \in User PROVE CountAgrees(v)'
    <3>1. reading' # v /\ emptyReads'[v] = emptyScans'[v]
      BY <1>1, <2>2, FederationAssumption DEF history
    <3> QED
      BY <3>1 DEF CountAgrees
  <2>3. ASSUME NEW v \in User PROVE WrongReads(v)'
    BY <1>1, <2>3 DEF IndInv, WrongReads, history
  <2> QED
    BY <2>1, <2>2, <2>3 DEF IndInv
<1>5. CASE answer = "error"
  <2>1. UNCHANGED <<emptyScans, started, live, dying, history>>
    BY <1>5 DEF ScanActs
  <2>2. emptyReads[u] = emptyScans[u]
    BY <1>1, <1>5 DEF IndInv, CountAgrees
  <2> QED
    BY <1>2, <1>3, <2>1, <2>2, PollersKept DEF IndInv
<1>6. CASE answer = "some"
  <2>1. emptyScans' = [emptyScans EXCEPT ![u] = 0] /\ start(u)
    BY <1>6, SMT DEF ScanActs
  <2>2. emptyReads[u] = 0
    BY <1>1, <1>6 DEF IndInv, CountAgrees
  <2>3. Pollers' /\ UNCHANGED history
    BY <1>1, <2>1, StartInv DEF IndInv
  <2> QED
    BY <1>1, <1>2, <1>3, <2>1, <2>2, <2>3, SMT
<1>7. CASE answer = "empty"
  <2>1. /\ emptyScans' = [emptyScans EXCEPT ![u] =
                           IF @ < EmptyScansToStop THEN @ + 1 ELSE @]
        /\ IF emptyScans'[u] >= EmptyScansToStop
             THEN stop(u)
             ELSE UNCHANGED <<started, live, dying, history>>
    BY <1>7, SMT DEF ScanActs
  <2>2. emptyReads[u] = IF emptyScans[u] < EmptyScansToStop THEN emptyScans[u] + 1
                        ELSE emptyScans[u]
    BY <1>1, <1>7, SMT DEF IndInv, CountAgrees
  <2>3. /\ emptyScans' \in [User -> 0..EmptyScansToStop]
        /\ \A v \in User : emptyReads[v] = emptyScans'[v]
    BY <1>1, <1>2, <1>3, <2>1, <2>2, SMT
  <2>4. CASE emptyScans'[u] >= EmptyScansToStop
    <3>1. stop(u)
      BY <2>1, <2>4
    <3>2. Pollers' /\ UNCHANGED <<emptyReads, genuine>>
      BY <1>1, <1>2, <3>1, StopInv DEF IndInv
    <3>3. ~(emptyReads[u] < EmptyScansToStop)
      BY <1>1, <1>2, <2>3, <2>4, SMT
    <3>4. ~(faults < EmptyScansToStop /\ ~genuine[u])
      <4>1. genuine[u] \/ emptyReads[u] <= faults
        BY <1>1 DEF IndInv, WrongReads
      <4>2. emptyReads[u] <= faults => ~(faults < EmptyScansToStop)
        BY <1>1, <1>2, <3>3, SMT
      <4> QED
        BY <4>1, <4>2
    <3>5. hastyStop' = hastyStop
      <4>1. CASE u \in started
        BY <3>1, <3>3, <3>4, <4>1 DEF stop
      <4>2. CASE u \notin started
        BY <3>1, <4>2 DEF stop, history
      <4> QED
        BY <4>1, <4>2
    <3> QED
      BY <2>3, <3>2, <3>5 DEF history
  <2>5. CASE ~(emptyScans'[u] >= EmptyScansToStop)
    BY <2>1, <2>3, <2>5, PollersKept DEF IndInv
  <2> QED
    BY <2>4, <2>5
<1> QED
  BY <1>1, <1>5, <1>6, <1>7

(* A restart forgets counts, history and pollers together. *)
LEMMA RestartInv ==
    ASSUME IndInv, Restart
    PROVE  IndInv'
<1>1. Pollers'
  BY SMT DEF Restart, Pollers, OnePollerPerUser
<1>2. Counters' /\ Scanner' /\ StopIsEarned'
  BY FederationAssumption, SMT DEF IndInv, Restart, Counters, Scanner, StopIsEarned
<1>3. Rest'
  BY FederationAssumption, SMT DEF IndInv, Restart, Rest
<1>4. ASSUME NEW u \in User PROVE CountAgrees(u)'
  BY <1>4, FederationAssumption, SMT DEF Restart, CountAgrees
<1>5. ASSUME NEW u \in User PROVE WrongReads(u)'
  BY <1>5, FederationAssumption, SMT DEF IndInv, Restart, WrongReads, Counters
<1> QED
  BY <1>1, <1>2, <1>3, <1>4, <1>5 DEF IndInv

(* Nothing happens to the federation. *)
LEMMA StutterInv ==
    ASSUME IndInv, UNCHANGED vars
    PROVE  IndInv'
<1>1. UNCHANGED <<emptyScans, scanner, history>> /\ UNCHANGED <<started, live, dying>>
  BY DEF vars
<1>2. faults' \in 0..MaxFaults /\ faults' >= faults
  BY FederationAssumption, SMT DEF IndInv, Counters, vars
<1>3. Rest'
  BY DEF IndInv, Rest, vars
<1>4. Pollers'
  BY <1>1, PollersKept DEF IndInv
<1> QED
  BY <1>1, <1>2, <1>3, <1>4, CountsKept DEF IndInv

-----------------------------------------------------------------------------
(* The inductive invariant holds in every behaviour of the scanner, the    *)
(* accepting goroutines and the pollers.                                   *)
THEOREM Inductive == Spec => []IndInv
<1>1. ASSUME IndInv, [Next]_vars PROVE IndInv'
  <2>1. CASE \E u \in User : PollerExits(u) \/ ScanReads(u)
    BY <1>1, <2>1, PollerExitsInv, ScanReadsInv
  <2>2. CASE \E u \in User, f \in Follower :
               FollowAccepted(u, f) \/ Unfollow(u, f) \/ AddFollower(u, f) \/ OnFollowed(u, f)
    BY <1>1, <2>2, EnvironmentInv, OnFollowedInv
  <2>3. CASE ScanBegins \/ ScanAborts
    BY <1>1, <2>3, ScanPagesInv
  <2>4. CASE ScanActs
    BY <1>1, <2>4, ScanActsInv
  <2>5. CASE Restart
    BY <1>1, <2>5, RestartInv
  <2>6. CASE UNCHANGED vars
    BY <1>1, <2>6, StutterInv
  <2> QED
    BY <1>1, <2>1, <2>2, <2>3, <2>4, <2>5, <2>6 DEF Next
<1> QED
  BY <1>1, InitInv, PTL DEF Spec

(* The maps, counters and the scanner's position keep their types, for     *)
(* every set of users and every bound.                                     *)
THEOREM TypeCorrect == Spec => []TypeOK
<1>1. IndInv => TypeOK
  BY DEF IndInv, Pollers, Counters, Scanner, Rest, TypeOK
<1> QED
  BY <1>1, Inductive, PTL

(* start and stop, called by the scanner and by any number of accepting    *)
(* goroutines, never give a user a second live poller nor lose one.        *)
THEOREM OnePoller == Spec => []OnePollerPerUser
<1>1. IndInv => OnePollerPerUser
  BY DEF IndInv, Pollers
<1> QED
  BY <1>1, Inductive, PTL

(* A scan stops a user only after EmptyScansToStop empty reads in a row,   *)
(* and fewer wrong answers than that never stop a user with followers.     *)
THEOREM StopEarned == Spec => []StopIsEarned
<1>1. IndInv => StopIsEarned
  BY DEF IndInv
<1> QED
  BY <1>1, Inductive, PTL
=============================================================================
