------------------------- MODULE OutboundFederation -------------------------
(***************************************************************************)
(* Which users the gateway federates (outbound.go): the scanner goroutine  *)
(* reconciles the running pollers with the follower graph kept by the      *)
(* owners' nodes, while accepted inbound Follows start pollers at once.    *)
(*                                                                         *)
(* A scan reads one user's followers, waiting for the network, and only    *)
(* then acts on what it read: anything may happen in between.  A read of   *)
(* nodeFollowerStore.List gives                                            *)
(*   error  the node could not be asked or answered with an error;         *)
(*   empty  no follower: there is none, or the owner's node was            *)
(*          unreachable and another node answered, or no follower's        *)
(*          handle could be resolved to an actor url;                      *)
(*   some   at least one follower.                                         *)
(* start and stop hold the mutex for their whole body.  Pollers are        *)
(* counted: live ones, and dying ones whose context is cancelled but whose *)
(* goroutines have not returned yet.                                       *)
(***************************************************************************)
EXTENDS Integers, FiniteSets

CONSTANTS User,              \* local Warpnet users
          Follower,          \* Fediverse actors
          EmptyScansToStop,  \* emptyScansToStop
          MaxFaults,         \* bound: reads and writes that go wrong
          MaxEvents,         \* bound: Follow and Unfollow events
          MaxRestarts        \* bound: restarts of the gateway

NoUser == "none"

ASSUME FederationAssumption ==
    /\ IsFiniteSet(User) /\ IsFiniteSet(Follower) /\ NoUser \notin User
    /\ EmptyScansToStop \in Nat \ {0}
    /\ MaxFaults \in Nat /\ MaxEvents \in Nat /\ MaxRestarts \in Nat

VARIABLES
    graph,       \* graph[u]: u's Fediverse followers, kept by u's own node
    accepting,   \* accepting[u][f]: no, accepted (the Accept was delivered),
                 \* added (followers.Add has returned)
    started,     \* the users in the started map
    live,        \* live[u]: u's pollers whose context is not cancelled
    dying,       \* dying[u]: u's cancelled pollers still running
    emptyScans,  \* emptyScans[u], counted up to EmptyScansToStop
    todo,        \* users the current scan has not reached
    reading,     \* the user whose followers were read, or NoUser
    answer,      \* what List returned: error, empty or some
    faults, events, restarts,   \* how often the environment interfered
    emptyReads,  \* history: empty reads of u since one showed a follower
    genuine,     \* history: was the graph itself empty at one of them?
    hastyStop    \* history: users stopped although the empty reads were
                 \* fewer than the limit, or none was genuine and no more
                 \* than one answer in the whole run was wrong

scanner == <<todo, reading, answer>>
history == <<emptyReads, genuine, hastyStop>>
vars == <<graph, accepting, started, live, dying, emptyScans, scanner,
          faults, events, restarts, history>>

Init ==
    /\ graph \in [User -> SUBSET Follower]
    /\ accepting = [u \in User |-> [f \in Follower |-> "no"]]
    /\ started = {}
    /\ live = [u \in User |-> 0]
    /\ dying = [u \in User |-> 0]
    /\ emptyScans = [u \in User |-> 0]
    /\ todo = User /\ reading = NoUser /\ answer = "error"
    /\ faults = 0 /\ events = 0 /\ restarts = 0
    /\ emptyReads = [u \in User |-> 0]
    /\ genuine = [u \in User |-> FALSE]
    /\ hastyStop = {}

-----------------------------------------------------------------------------
(* Faulty variants of start, stop and the scan. *)

(* Not idempotent: every call spawns pollers. *)
startAgain(u) ==
    /\ started' = started \cup {u}
    /\ live' = [live EXCEPT ![u] = @ + 1]
    /\ UNCHANGED <<dying, history>>

-----------------------------------------------------------------------------
(* start: idempotent; spawns the pollers of u under a context of its own.  *)
start(u) ==
    IF u \in started
      THEN UNCHANGED <<started, live, dying, history>>
      ELSE /\ started' = started \cup {u}
           /\ live' = [live EXCEPT ![u] = @ + 1]
           /\ UNCHANGED <<dying, history>>

(* stop: cancels the context that the map holds for u. *)
stop(u) ==
    IF u \notin started
      THEN UNCHANGED <<started, live, dying, history>>
      ELSE /\ started' = started \ {u}
           /\ live' = [live EXCEPT ![u] = @ - 1]
           /\ dying' = [dying EXCEPT ![u] = @ + 1]
           /\ hastyStop' = IF \/ emptyReads[u] < EmptyScansToStop
                              \/ faults < EmptyScansToStop /\ ~genuine[u]
                             THEN hastyStop \cup {u} ELSE hastyStop
           /\ UNCHANGED <<emptyReads, genuine>>

(* The poller goroutines of a cancelled context return. *)
PollerExits(u) ==
    /\ dying[u] > 0
    /\ dying' = [dying EXCEPT ![u] = @ - 1]
    /\ UNCHANGED <<graph, accepting, started, live, emptyScans, scanner, faults,
                   events, restarts, history>>

-----------------------------------------------------------------------------
(* The environment: inbound Follows whose Accept was delivered, and        *)
(* unfollows that reach the owner's node.                                  *)
FollowAccepted(u, f) ==
    /\ events < MaxEvents
    /\ events' = events + 1
    /\ accepting[u][f] = "no"
    /\ accepting' = [accepting EXCEPT ![u][f] = "accepted"]
    /\ UNCHANGED <<graph, started, live, dying, emptyScans, scanner, faults,
                   restarts, history>>

Unfollow(u, f) ==
    /\ events < MaxEvents
    /\ events' = events + 1
    /\ f \in graph[u]
    /\ graph' = [graph EXCEPT ![u] = @ \ {f}]
    /\ UNCHANGED <<accepting, started, live, dying, emptyScans, scanner, faults,
                   restarts, history>>

(* followers.Add at the end of acceptFollow: it reaches the owner's node,  *)
(* or fails (which is only logged), or another node takes it in vain.      *)
AddFollower(u, f) ==
    /\ accepting[u][f] = "accepted"
    /\ accepting' = [accepting EXCEPT ![u][f] = "added"]
    /\ \/ /\ graph' = [graph EXCEPT ![u] = @ \cup {f}]
          /\ UNCHANGED faults
       \/ /\ faults < MaxFaults
          /\ faults' = faults + 1
          /\ UNCHANGED graph
    /\ UNCHANGED <<started, live, dying, emptyScans, scanner, events, restarts,
                   history>>

(* The last call of acceptFollow, whether or not Add succeeded: onFollowed *)
(* is outboundFederation.start.                                            *)
OnFollowed(u, f) ==
    /\ accepting[u][f] = "added"
    /\ accepting' = [accepting EXCEPT ![u][f] = "no"]
    /\ start(u)
    /\ UNCHANGED <<graph, emptyScans, scanner, faults, events, restarts>>

-----------------------------------------------------------------------------
(* runScanner: the next scan lists the local users. *)
ScanBegins ==
    /\ reading = NoUser /\ todo = {}
    /\ todo' = User
    /\ UNCHANGED <<graph, accepting, started, live, dying, emptyScans, reading,
                   answer, faults, events, restarts, history>>

(* A page of users cannot be fetched: the scan ends early. *)
ScanAborts ==
    /\ reading = NoUser /\ todo # {}
    /\ faults < MaxFaults
    /\ faults' = faults + 1
    /\ todo' = {}
    /\ UNCHANGED <<graph, accepting, started, live, dying, emptyScans, reading,
                   answer, events, restarts, history>>

(* List returns for the next user; reads that go wrong are counted. *)
ScanReads(u) ==
    /\ reading = NoUser /\ u \in todo
    /\ todo' = todo \ {u}
    /\ reading' = u
    /\ \/ /\ answer' = IF graph[u] = {} THEN "empty" ELSE "some"
          /\ UNCHANGED faults
       \/ /\ faults < MaxFaults
          /\ faults' = faults + 1
          /\ \/ answer' = "error"
             \/ answer' = "empty"
    /\ emptyReads' = [emptyReads EXCEPT ![u] =
                        CASE answer' = "empty" -> IF @ < EmptyScansToStop THEN @ + 1 ELSE @
                          [] answer' = "some"  -> 0
                          [] answer' = "error" -> @]
    /\ genuine' = [genuine EXCEPT ![u] =
                     answer' # "some" /\ (@ \/ (answer' = "empty" /\ graph[u] = {}))]
    /\ UNCHANGED <<graph, accepting, started, live, dying, emptyScans, events,
                   restarts, hastyStop>>

(* The count is compared with = after it was raised past the limit. *)
ScanActsEqual ==
    LET u == reading IN
    /\ reading # NoUser
    /\ reading' = NoUser
    /\ answer' = "error"
    /\ CASE answer = "error" -> UNCHANGED <<emptyScans, started, live, dying, history>>
         [] answer = "some"  -> /\ emptyScans' = [emptyScans EXCEPT ![u] = 0]
                                /\ start(u)
         [] answer = "empty" ->
              /\ emptyScans' = [emptyScans EXCEPT ![u] =
                                  IF @ <= EmptyScansToStop THEN @ + 1 ELSE @]
              /\ IF emptyScans[u] + 1 = EmptyScansToStop
                   THEN stop(u)
                   ELSE UNCHANGED <<started, live, dying, history>>
    /\ UNCHANGED <<graph, accepting, todo, faults, events, restarts>>

(* Users that were stopped once are left to the next inbound Follow. *)
ScanActsNoRestart ==
    LET u == reading IN
    /\ reading # NoUser
    /\ reading' = NoUser
    /\ answer' = "error"
    /\ CASE answer = "error" -> UNCHANGED <<emptyScans, started, live, dying, history>>
         [] answer = "some"  -> IF emptyScans[u] < EmptyScansToStop
                                  THEN start(u) /\ emptyScans' = [emptyScans EXCEPT ![u] = 0]
                                  ELSE UNCHANGED <<emptyScans, started, live, dying, history>>
         [] answer = "empty" ->
              /\ emptyScans' = [emptyScans EXCEPT ![u] =
                                  IF @ < EmptyScansToStop THEN @ + 1 ELSE @]
              /\ IF emptyScans'[u] >= EmptyScansToStop
                   THEN stop(u)
                   ELSE UNCHANGED <<started, live, dying, history>>
    /\ UNCHANGED <<graph, accepting, todo, faults, events, restarts>>

(* A follower starts the user but leaves the count, a faulty variant. *)
ScanActsKeepsCount ==
    LET u == reading IN
    /\ reading # NoUser
    /\ reading' = NoUser
    /\ answer' = "error"
    /\ CASE answer = "error" -> UNCHANGED <<emptyScans, started, live, dying, history>>
         [] answer = "some"  -> start(u) /\ UNCHANGED emptyScans
         [] answer = "empty" ->
              /\ emptyScans' = [emptyScans EXCEPT ![u] =
                                  IF @ < EmptyScansToStop THEN @ + 1 ELSE @]
              /\ IF emptyScans'[u] >= EmptyScansToStop
                   THEN stop(u)
                   ELSE UNCHANGED <<started, live, dying, history>>
    /\ UNCHANGED <<graph, accepting, todo, faults, events, restarts>>

(* The scan acts on what it read: an error leaves the user untouched, a    *)
(* follower clears the count and starts, an empty list raises the count    *)
(* and stops the user once it has reached the limit.                       *)
ScanActs ==
    LET u == reading IN
    /\ reading # NoUser
    /\ reading' = NoUser
    /\ answer' = "error"
    /\ CASE answer = "error" -> UNCHANGED <<emptyScans, started, live, dying, history>>
         [] answer = "some"  -> /\ emptyScans' = [emptyScans EXCEPT ![u] = 0]
                                /\ start(u)
         [] answer = "empty" ->
              /\ emptyScans' = [emptyScans EXCEPT ![u] =
                                  IF @ < EmptyScansToStop THEN @ + 1 ELSE @]
              /\ IF emptyScans'[u] >= EmptyScansToStop
                   THEN stop(u)
                   ELSE UNCHANGED <<started, live, dying, history>>
    /\ UNCHANGED <<graph, accepting, todo, faults, events, restarts>>

(* The gateway restarts: nothing of its own is persisted, goroutines that  *)
(* were accepting a Follow are gone, and the first scan begins.            *)
Restart ==
    /\ restarts < MaxRestarts
    /\ restarts' = restarts + 1
    /\ accepting' = [u \in User |-> [f \in Follower |-> "no"]]
    /\ started' = {}
    /\ live' = [u \in User |-> 0]
    /\ dying' = [u \in User |-> 0]
    /\ emptyScans' = [u \in User |-> 0]
    /\ todo' = User /\ reading' = NoUser /\ answer' = "error"
    /\ emptyReads' = [u \in User |-> 0]
    /\ genuine' = [u \in User |-> FALSE]
    /\ UNCHANGED <<graph, faults, events, hastyStop>>

Next == \/ \E u \in User : PollerExits(u) \/ ScanReads(u)
        \/ \E u \in User, f \in Follower :
              FollowAccepted(u, f) \/ Unfollow(u, f) \/ AddFollower(u, f) \/ OnFollowed(u, f)
        \/ ScanBegins \/ ScanAborts \/ ScanActs
        \/ Restart

(* The scanner goroutine, cancelled pollers and accepting goroutines run;  *)
(* nothing obliges anyone to follow, to fail or to restart.                *)
Fairness ==
    /\ WF_vars(ScanBegins) /\ WF_vars(ScanActs)
    /\ \A u \in User : WF_vars(ScanReads(u)) /\ WF_vars(PollerExits(u))
    /\ \A u \in User, f \in Follower : WF_vars(AddFollower(u, f)) /\ WF_vars(OnFollowed(u, f))

Spec == Init /\ [][Next]_vars

FairSpec == Spec /\ Fairness

-----------------------------------------------------------------------------
TypeOK ==
    /\ graph \in [User -> SUBSET Follower]
    /\ accepting \in [User -> [Follower -> {"no", "accepted", "added"}]]
    /\ started \subseteq User
    /\ live \in [User -> Nat] /\ dying \in [User -> Nat]
    /\ emptyScans \in [User -> 0..EmptyScansToStop]
    /\ todo \subseteq User
    /\ reading \in (User \ todo) \cup {NoUser}
    /\ answer \in {"error", "empty", "some"}
    /\ faults \in 0..MaxFaults /\ events \in 0..MaxEvents
    /\ restarts \in 0..MaxRestarts
    /\ emptyReads \in [User -> 0..EmptyScansToStop] /\ genuine \in [User -> BOOLEAN]
    /\ hastyStop \subseteq User

(* "repeated follows don't spawn duplicate pollers": however scans, accepts *)
(* and stops interleave, a user in the map has exactly one live poller and  *)
(* a user that is not in it has none, so no post is polled twice and no     *)
(* poller is beyond the reach of stop.                                      *)
OnePollerPerUser == \A u \in User : live[u] = IF u \in started THEN 1 ELSE 0

(* A user that keeps a Fediverse follower ends up federated for good,       *)
(* whatever stale reads, blips and restarts came before.                    *)
FollowedIsFederated ==
    \A u \in User : <>[](graph[u] # {}) => <>[](u \in started)

(* A user whose last follower is gone ends up stopped for good, with all    *)
(* of its pollers' goroutines gone.                                         *)
UnfollowedIsStopped ==
    \A u \in User : <>[](graph[u] = {}) => <>[](u \notin started /\ dying[u] = 0)

(* "Stopping on that kills federation every time the owner node blips, so   *)
(* require it twice": a scan stops a user only after EmptyScansToStop empty *)
(* reads since one showed a follower, and a single wrong answer (another    *)
(* node's, unresolved handles, an error) is not enough to stop a user that  *)
(* had followers at all of these reads.                                     *)
StopIsEarned == hastyStop = {}
=============================================================================
