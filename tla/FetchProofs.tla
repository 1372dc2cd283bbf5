---------------------------- MODULE FetchProofs ----------------------------
(***************************************************************************)
(* What the gateway fetches from the Fediverse.                            *)
(*                                                                         *)
(* One document (SignedGet), for any number of callers, attempts and       *)
(* versions, and all times: only final answers are cached and handed out,  *)
(* while one is cached no request for the document is under way, and no    *)
(* caller gets an answer older than CacheTTL and HTTPTimeout together.     *)
(* The invariant also says what a flight carries at each of its steps; the *)
(* bound on the age rests on a second one, about the time an answer has    *)
(* left and the versions still young enough to be given.                   *)
(*                                                                         *)
(* A timeline, a follow list or a thread (Timeline), of any length, with   *)
(* pages and pools of any size: what a walk shows is newest first, without *)
(* repetition, and complete when it ends.  The filters are recursive, so   *)
(* what they keep is proved first; then what a page holds down to its      *)
(* cursor; the invariant says that what the client has, and what the       *)
(* handler has in hand, are stretches of the timeline from the place where *)
(* the walk is, with all that is wanted of it.                             *)
(***************************************************************************)
EXTENDS SignedGet, Timeline, SequenceTheorems, FiniteSetTheorems, WellFoundedInduction, TLAPS

-----------------------------------------------------------------------------
(* The signed GET. *)

(* A flight that has not sent anything has made no attempt; an answer that *)
(* is to be cached is final; a flight that lands has a result.             *)
FlightInv ==
    /\ flight.step = "none" => flight = Grounded
    /\ flight.step = "check" => flight.attempt = 0
    /\ flight.step = "transit" => flight.v \in Version \cup {Busy, Lost, TooLarge}
    /\ flight.step = "add" => flight.v \in Version
    /\ flight.step = "land" => flight.v \in Version \cup {Err}

GInv == TypeOK /\ FlightInv /\ BurstCollapses

(* It holds at the start. *)
LEMMA InitInv == Init => GInv
  BY GetAssumption DEF Init, GInv, TypeOK, FlightInv, BurstCollapses, Version, Grounded,
     Idle, None, Err, Busy, Lost, TooLarge

(* The retrier's next step: another attempt, or the end with an error. *)
LEMMA RetriedInv ==
    ASSUME GInv, flight.step \in {"send", "transit"}, flight' = Retried,
           UNCHANGED <<doc, cache, call>>
    PROVE  GInv'
<1> USE GetAssumption DEF GInv, TypeOK, FlightInv, BurstCollapses
<1>1. CASE flight.attempt < MaxAttempts
  BY <1>1 DEF Retried, Attempt
<1>2. CASE ~(flight.attempt < MaxAttempts)
  BY <1>2 DEF Retried, Landing
<1> QED
  BY <1>1, <1>2

(* The steps of the flight. *)
LEMMA CheckInv == ASSUME GInv, Check PROVE GInv'
<1> USE GetAssumption DEF GInv, TypeOK, FlightInv, BurstCollapses
<1>1. CASE cache.v # None
  BY <1>1 DEF Check, Landing
<1>2. CASE cache.v = None
  BY <1>2 DEF Check, Attempt
<1> QED
  BY <1>1, <1>2

LEMMA ServeInv == ASSUME GInv, Serve PROVE GInv'
<1>1. PICK a \in {doc, Busy, Lost, TooLarge} :
        flight' = [flight EXCEPT !.step = "transit", !.v = a]
  BY DEF Serve
<1>2. flight.step = "send" /\ UNCHANGED <<doc, cache, call>>
  BY DEF Serve
<1> QED
  BY <1>1, <1>2 DEF GInv, TypeOK, FlightInv, BurstCollapses

LEMMA ReceiveInv == ASSUME GInv, Receive PROVE GInv'
<1>1. CASE flight.v \in {Busy, Lost}
  <2>1. /\ flight.step \in {"send", "transit"} /\ flight' = Retried
        /\ UNCHANGED <<doc, cache, call>>
    BY <1>1 DEF Receive, Busy, Lost, TooLarge
  <2> QED
    BY <2>1, RetriedInv
<1>2. CASE flight.v \notin {Busy, Lost}
  <2>1. /\ flight.step = "transit"
        /\ \/ flight' = Landing(Err)
           \/ flight' = [flight EXCEPT !.step = "add"] /\ flight.v # TooLarge
        /\ UNCHANGED <<doc, cache, call>>
    BY <1>2 DEF Receive
  <2>2. CASE flight' = Landing(Err)
    BY <2>1, <2>2 DEF GInv, TypeOK, FlightInv, BurstCollapses, Landing
  <2>3. CASE flight' = [flight EXCEPT !.step = "add"] /\ flight.v # TooLarge
    <3>1. flight.v \in Version
      BY <1>2, <2>1, <2>3 DEF GInv, FlightInv
    <3> QED
      BY <2>1, <2>3, <3>1 DEF GInv, TypeOK, FlightInv, BurstCollapses
  <2> QED
    BY <2>1, <2>2, <2>3
<1> QED
  BY <1>1, <1>2

LEMMA TimeOutInv == ASSUME GInv, TimeOut PROVE GInv'
  BY RetriedInv DEF TimeOut

LEMMA CancelInv == ASSUME GInv, Cancel PROVE GInv'
  BY DEF GInv, TypeOK, FlightInv, BurstCollapses, Cancel, Landing

LEMMA AddToCacheInv == ASSUME GInv, AddToCache PROVE GInv'
  BY GetAssumption DEF GInv, TypeOK, FlightInv, BurstCollapses, AddToCache

LEMMA LandInv == ASSUME GInv, Land PROVE GInv'
  BY GetAssumption DEF GInv, TypeOK, FlightInv, BurstCollapses, Land, Grounded

(* The steps of a caller. *)
LEMMA CallerInv ==
    ASSUME GInv, NEW k \in Caller, Begin(k) \/ Join(k) \/ Return(k)
    PROVE  GInv'
<1> USE GetAssumption DEF GInv, TypeOK, FlightInv, BurstCollapses
<1>1. CASE Begin(k)
  BY <1>1 DEF Begin
<1>2. CASE Join(k)
  BY <1>2 DEF Join, Grounded
<1>3. CASE Return(k)
  BY <1>3 DEF Return, Idle
<1> QED
  BY <1>1, <1>2, <1>3

(* Time, and the document's server. *)
LEMMA TickInv == ASSUME GInv, Tick PROVE GInv'
<1> USE GetAssumption DEF GInv, TypeOK, FlightInv, BurstCollapses, Tick
<1>1. cache' \in [v : Version \cup {None}, left : 0..CacheTTL]
  OBVIOUS
<1>2. cache'.v # None => cache.v # None
  OBVIOUS
<1>3. CASE flight = Grounded
  BY <1>1, <1>2, <1>3
<1>4. CASE flight # Grounded
  BY <1>1, <1>2, <1>4
<1> QED
  BY <1>3, <1>4

LEMMA WriteInv == ASSUME GInv, Write PROVE GInv'
  BY GetAssumption DEF GInv, TypeOK, FlightInv, BurstCollapses, Write, Version

(* Every step keeps the invariant. *)
LEMMA StepInv == GInv /\ [Next]_vars => GInv'
<1> SUFFICES ASSUME GInv, [Next]_vars PROVE GInv'
  OBVIOUS
<1>1. CASE Next
  BY <1>1, CheckInv, ServeInv, ReceiveInv, TimeOutInv, CancelInv, AddToCacheInv,
     LandInv, CallerInv, TickInv, WriteInv DEF Next
<1>2. CASE UNCHANGED vars
  BY <1>2 DEF vars, GInv, TypeOK, FlightInv, BurstCollapses
<1> QED
  BY <1>1, <1>2

(* What is cached and handed out is final, and the retrier keeps to its    *)
(* limit (signedGet, sendRetry).                                           *)
THEOREM OnlyFinalAnswers == Spec => []TypeOK
<1>1. GInv => TypeOK
  BY DEF GInv
<1> QED
  BY <1>1, InitInv, StepInv, PTL DEF Spec

(* While an answer is cached no request is under way: the second look at   *)
(* the cache closes the gap between a caller's miss and its flight.        *)
THEOREM BurstsCollapse == Spec => []BurstCollapses
<1>1. GInv => BurstCollapses
  BY DEF GInv
<1> QED
  BY <1>1, InitInv, StepInv, PTL DEF Spec

-----------------------------------------------------------------------------
(* The order of the natural numbers as a relation. *)
Less == {p \in Nat \X Nat : p[1] < p[2]}

(* It is well founded, so that a set of versions has a least one. *)
LEMMA LessWF == IsWellFoundedOn(Less, Nat)
  BY NatLessThanWellFounded, Zenon DEF OpToRel, Less

(* Min of a set of versions or times is its least element. *)
LEMMA MinIsLeast ==
    ASSUME NEW S \in SUBSET Nat, S # {}
    PROVE  Min(S) \in S /\ \A y \in S : Min(S) <= y
<1>1. \E x \in S : \A y \in S : ~(<<y, x>> \in Less)
  BY LessWF, WFMin, Zenon
<1>2. \A x, y \in S : <<y, x>> \in Less <=> y < x
  BY DEF Less
<1>3. \A x, y \in S : ~(y < x) => x <= y
  OBVIOUS
<1>4. \E x \in S : \A y \in S : x <= y
  BY <1>1, <1>2, <1>3, Zenon
<1> QED
  BY <1>4, Zenon DEF Min

(* The document's current version has not been superseded. *)
AgeInv ==
    /\ old \in [Version -> 0..Overdue]
    /\ \A v \in Version : v >= doc => old[v] = 0

(* What is cached has time left, and that and its age stay within the       *)
(* bound; so do the age of an answer on its way and the time left for it.   *)
FreshInv ==
    /\ cache.v # None =>
          cache.v <= doc /\ cache.left > 0 /\ old[cache.v] + cache.left <= Overdue
    /\ flight.step = "transit" /\ flight.v \in Version =>
          flight.v <= doc /\ old[flight.v] + flight.timer <= HTTPTimeout
    /\ flight.step = "add" => flight.v <= doc /\ old[flight.v] <= HTTPTimeout
    /\ flight.step = "land" /\ flight.v # Err => flight.v <= doc /\ old[flight.v] < Overdue

(* Every version that is young enough now is one that every caller may be  *)
(* given, whenever it began.                                               *)
FloorInv ==
    /\ floor \in [Caller -> Version]
    /\ \A k \in Caller : \A v \in 0..doc : old[v] < Overdue => floor[k] <= v

SInv == GInv /\ AgeInv /\ FreshInv /\ FloorInv /\ BoundedStaleness

(* It holds at the start. *)
LEMMA InitStale == Init => SInv
<1> SUFFICES ASSUME Init PROVE SInv
  OBVIOUS
<1>1. GInv
  BY InitInv
<1>2. AgeInv /\ FreshInv /\ FloorInv /\ BoundedStaleness
  BY GetAssumption DEF Init, AgeInv, FreshInv, FloorInv, BoundedStaleness, Version, Grounded,
     Idle, None, Overdue
<1> QED
  BY <1>1, <1>2 DEF SInv

(* The callers keep what they were promised as long as the ages do not     *)
(* change and nobody is answered.                                          *)
LEMMA KeptStale ==
    ASSUME SInv, UNCHANGED <<doc, old, call, floor>>
    PROVE  AgeInv' /\ FloorInv' /\ BoundedStaleness'
  BY DEF SInv, AgeInv, FloorInv, BoundedStaleness, Version

(* The retrier throws the answer of a failed attempt away. *)
LEMMA RetriedStale ==
    ASSUME SInv, flight' = Retried, flight.step \in {"send", "transit"},
           UNCHANGED <<doc, old, cache>>
    PROVE  FreshInv'
<1> USE GetAssumption DEF SInv, GInv, TypeOK, FreshInv
<1>1. CASE flight.attempt < MaxAttempts
  BY <1>1 DEF Retried, Attempt
<1>2. CASE ~(flight.attempt < MaxAttempts)
  BY <1>2 DEF Retried, Landing
<1> QED
  BY <1>1, <1>2

(* The steps of the flight keep the promise: an answer is young when it is *)
(* served, and what is cached or lands is as young as it was.              *)
LEMMA FlightStale ==
    ASSUME SInv, Check \/ Serve \/ Receive \/ TimeOut \/ Cancel \/ AddToCache
    PROVE  FreshInv'
<1> USE GetAssumption DEF SInv, GInv, TypeOK
<1>1. CASE Check
  <2>1. CASE cache.v # None
    <3>1. /\ flight' = Landing(cache.v) /\ UNCHANGED <<doc, old, cache>>
          /\ flight'.step = "land" /\ flight'.v = cache.v
      BY <1>1, <2>1 DEF Check, Landing
    <3>2. old[cache.v] \in Nat /\ old[cache.v] < Overdue
      BY <2>1 DEF FreshInv, AgeInv, Overdue
    <3> QED
      BY <2>1, <3>1, <3>2 DEF FreshInv
  <2>2. CASE cache.v = None
    BY <1>1, <2>2 DEF Check, Attempt, FreshInv
  <2> QED
    BY <2>1, <2>2
<1>2. CASE Serve
  <2>1. PICK a \in {doc, Busy, Lost, TooLarge} :
          flight' = [flight EXCEPT !.step = "transit", !.v = a]
    BY <1>2 DEF Serve
  <2>2. UNCHANGED <<doc, old, cache>>
    BY <1>2 DEF Serve
  <2>3. CASE a = doc
    <3>1. flight'.step = "transit" /\ flight'.v = doc /\ flight'.timer = flight.timer
      BY <2>1, <2>3
    <3>2. old[doc] = 0 /\ doc <= doc
      BY DEF AgeInv, Version
    <3> QED
      BY <2>2, <3>1, <3>2 DEF FreshInv
  <2>4. CASE a # doc
    <3>1. a \notin Version
      BY <2>1, <2>4 DEF Version, Busy, Lost, TooLarge
    <3> QED
      BY <2>1, <2>2, <3>1 DEF FreshInv, Version
  <2> QED
    BY <2>3, <2>4
<1>3. CASE Receive
  <2>1. CASE flight.v \in {Busy, Lost}
    <3>1. /\ flight.step \in {"send", "transit"} /\ flight' = Retried
          /\ UNCHANGED <<doc, old, cache>>
      BY <1>3, <2>1 DEF Receive, Busy, Lost, TooLarge
    <3> QED
      BY <3>1, RetriedStale
  <2>2. CASE flight.v = TooLarge
    <3>1. flight' = Landing(Err) /\ UNCHANGED <<doc, old, cache>>
      BY <1>3, <2>2 DEF Receive, Busy, Lost, TooLarge
    <3> QED
      BY <3>1 DEF FreshInv, Landing
  <2>3. CASE flight.v \notin {Busy, Lost, TooLarge}
    <3>1. /\ flight.step = "transit" /\ flight' = [flight EXCEPT !.step = "add"]
          /\ UNCHANGED <<doc, old, cache>>
      BY <1>3, <2>3 DEF Receive
    <3>2. flight.v \in Version
      BY <2>3, <3>1 DEF FlightInv
    <3> QED
      BY <3>1, <3>2 DEF FreshInv, AgeInv, Version
  <2> QED
    BY <2>1, <2>2, <2>3
<1>4. CASE TimeOut
  BY <1>4, RetriedStale DEF TimeOut
<1>5. CASE Cancel
  BY <1>5 DEF Cancel, Landing, FreshInv
<1>6. CASE AddToCache
  <2>1. flight.v \in Version /\ flight.v <= doc /\ old[flight.v] <= HTTPTimeout
    BY <1>6 DEF AddToCache, FreshInv, FlightInv
  <2>2. old[flight.v] \in Nat
    BY <2>1 DEF AgeInv, Overdue
  <2> QED
    BY <1>6, <2>1, <2>2 DEF AddToCache, FreshInv, Overdue
<1> QED
  BY <1>1, <1>2, <1>3, <1>4, <1>5, <1>6

(* A landing answer is young enough for everybody who waits for it, also   *)
(* for a caller that began after it was served.                            *)
LEMMA LandStale ==
    ASSUME SInv, Land
    PROVE  AgeInv' /\ FreshInv' /\ FloorInv' /\ BoundedStaleness'
<1> USE DEF SInv, GInv
<1>1. AgeInv' /\ FloorInv'
  BY DEF Land, AgeInv, FloorInv, Version
<1>2. FreshInv'
  BY DEF Land, Grounded, FreshInv
<1>3. \A k \in Caller : flight.v # Err => flight.v >= floor[k]
  <2>1. flight.v # Err => flight.v \in 0..doc /\ old[flight.v] < Overdue
    BY DEF Land, FreshInv, FlightInv, Version
  <2> QED
    BY <2>1 DEF FloorInv, Version
<1>4. BoundedStaleness'
  BY <1>3 DEF Land, BoundedStaleness
<1> QED
  BY <1>1, <1>2, <1>4

(* A caller that begins may be given the least version that is still young *)
(* enough, and a cached one is young enough.                               *)
LEMMA BeginStale ==
    ASSUME SInv, NEW k \in Caller, Begin(k)
    PROVE  AgeInv' /\ FreshInv' /\ FloorInv' /\ BoundedStaleness'
<1> DEFINE Young == {v \in 0..doc : old[v] < Overdue}
<1> USE DEF SInv, GInv, TypeOK
<1>1. doc \in Young
  BY GetAssumption DEF AgeInv, Version, Overdue
<1>2. Young \in SUBSET Nat
  BY DEF Version
<1>3. Oldest \in Young /\ \A v \in Young : Oldest <= v
  BY <1>1, <1>2, MinIsLeast DEF Oldest
<1>4. AgeInv' /\ FreshInv'
  BY DEF Begin, AgeInv, FreshInv
<1>5. FloorInv'
  BY <1>3, GetAssumption DEF Begin, FloorInv, Version
<1>6. cache.v # None => cache.v \in Young
  BY GetAssumption DEF FreshInv, AgeInv, Version, Overdue
<1>7. BoundedStaleness'
  <2>1. floor'[k] = Oldest /\ call'[k].step \in {"missed", "done"}
    BY DEF Begin, FloorInv
  <2>2. call'[k].step = "done" => call'[k].v \in Young
    BY <1>6 DEF Begin
  <2>3. \A c \in Caller \ {k} : call'[c] = call[c] /\ floor'[c] = floor[c]
    BY DEF Begin, FloorInv
  <2> HIDE DEF Young
  <2> QED
    BY <1>2, <1>3, <2>1, <2>2, <2>3 DEF BoundedStaleness
<1> QED
  BY <1>4, <1>5, <1>7

(* Joining a flight and returning change nothing that was promised. *)
LEMMA CallerStale ==
    ASSUME SInv, NEW k \in Caller, Join(k) \/ Return(k)
    PROVE  AgeInv' /\ FreshInv' /\ FloorInv' /\ BoundedStaleness'
<1> USE DEF SInv, GInv, TypeOK
<1>1. AgeInv' /\ FloorInv'
  BY DEF Join, Return, AgeInv, FloorInv, Version
<1>2. FreshInv'
  BY DEF Join, Return, FreshInv, Grounded
<1>3. BoundedStaleness'
  BY DEF Join, Return, BoundedStaleness, Idle
<1> QED
  BY <1>1, <1>2, <1>3

(* A tick makes a superseded version one unit older, up to the cap. *)
LEMMA TickAges ==
    ASSUME SInv, Tick, NEW v \in Version
    PROVE  /\ old'[v] \in 0..Overdue
           /\ v >= doc => old'[v] = 0
           /\ old'[v] <= old[v] + 1
           /\ old'[v] < Overdue /\ v <= doc => old[v] < Overdue
<1> USE DEF SInv, AgeInv
<1>1. old[v] \in Nat /\ old[v] <= Overdue /\ Overdue \in Nat \ {0}
  BY GetAssumption DEF Overdue
<1>2. doc \in Nat /\ v \in Nat
  BY DEF GInv, TypeOK, Version
<1>3. old'[v] = IF v < doc THEN Min({old[v] + 1, Overdue}) ELSE 0
  BY DEF Tick
<1>4. Min({old[v] + 1, Overdue}) \in {old[v] + 1, Overdue} /\
      Min({old[v] + 1, Overdue}) <= old[v] + 1 /\ Min({old[v] + 1, Overdue}) <= Overdue
  BY <1>1, MinIsLeast, {old[v] + 1, Overdue} \in SUBSET Nat
<1> QED
  BY <1>1, <1>2, <1>3, <1>4

(* Time passes: what ages by one has one less left. *)
LEMMA TickStale ==
    ASSUME SInv, Tick
    PROVE  AgeInv' /\ FreshInv' /\ FloorInv' /\ BoundedStaleness'
<1> USE GetAssumption DEF SInv, GInv, TypeOK
<1>1. AgeInv'
  <2>1. old' = [v \in Version |-> old'[v]] /\ doc' = doc
    BY DEF Tick
  <2> QED
    BY <2>1, TickAges DEF AgeInv, Version, Overdue
<1>2. FloorInv'
  <2>1. \A v \in 0..doc : v \in Version
    BY DEF Version
  <2>2. \A v \in 0..doc : old'[v] < Overdue => old[v] < Overdue
    BY <2>1, TickAges DEF Version
  <2> QED
    BY <2>2 DEF Tick, FloorInv, Overdue
<1>3. BoundedStaleness'
  BY DEF Tick, BoundedStaleness
<1>4. \A v \in Version : old[v] \in Nat /\ old'[v] \in Nat /\ old'[v] <= old[v] + 1
  BY TickAges DEF AgeInv, Overdue
<1>5. cache'.v # None =>
          cache'.v <= doc' /\ cache'.left > 0 /\ old'[cache'.v] + cache'.left <= Overdue
  BY <1>4 DEF Tick, FreshInv, Overdue
<1>6. FreshInv'
  <2>1. CASE flight = Grounded
    <3>1. flight'.step = "none"
      BY <2>1 DEF Tick, Grounded
    <3> QED
      BY <1>5, <3>1 DEF FreshInv
  <2>2. CASE flight # Grounded
    <3>1. /\ flight.step \in {"send", "transit"} /\ flight.timer > 0
          /\ flight' = [flight EXCEPT !.timer = @ - 1] /\ doc' = doc
      BY <2>2 DEF Tick
    <3>2. flight'.step = flight.step /\ flight'.v = flight.v /\ flight'.timer = flight.timer - 1
      BY <3>1
    <3>3. flight.step = "transit" /\ flight.v \in Version =>
            flight.v <= doc /\ old'[flight.v] + (flight.timer - 1) <= HTTPTimeout
      BY <1>4, <3>1 DEF FreshInv
    <3> QED
      BY <1>5, <3>1, <3>2, <3>3 DEF FreshInv
  <2> QED
    BY <2>1, <2>2
<1> QED
  BY <1>1, <1>2, <1>3, <1>6

(* A new version is young. *)
LEMMA WriteStale ==
    ASSUME SInv, Write
    PROVE  AgeInv' /\ FreshInv' /\ FloorInv' /\ BoundedStaleness'
<1> USE GetAssumption DEF SInv, GInv, TypeOK
<1>1. AgeInv'
  BY DEF Write, AgeInv, Version
<1>2. FreshInv'
  <2>1. doc \in Nat /\ doc' = doc + 1 /\ UNCHANGED <<old, cache, flight>>
    BY DEF Write, Version
  <2>2. \A v \in Version : v <= doc => v <= doc'
    BY <2>1 DEF Version
  <2> QED
    BY <2>1, <2>2 DEF FreshInv, FlightInv
<1>3. FloorInv'
  <2>1. old[doc] < Overdue /\ doc \in 0..doc
    BY DEF AgeInv, Version, Overdue
  <2>2. \A k \in Caller : floor[k] <= doc
    BY <2>1 DEF FloorInv
  <2> QED
    BY <2>2 DEF Write, FloorInv, Version
<1>4. BoundedStaleness'
  BY DEF Write, BoundedStaleness
<1> QED
  BY <1>1, <1>2, <1>3, <1>4

(* Every step keeps it. *)
LEMMA StepStale == SInv /\ [Next]_vars => SInv'
<1> SUFFICES ASSUME SInv, [Next]_vars PROVE SInv'
  OBVIOUS
<1>1. GInv'
  BY StepInv DEF SInv
<1>2. CASE Check \/ Serve \/ Receive \/ TimeOut \/ Cancel \/ AddToCache
  <2>1. UNCHANGED <<doc, old, call, floor>>
    BY <1>2 DEF Check, Serve, Receive, TimeOut, Cancel, AddToCache
  <2> QED
    BY <1>1, <1>2, <2>1, FlightStale, KeptStale DEF SInv
<1>3. CASE Land \/ Tick \/ Write
  BY <1>1, <1>3, LandStale, TickStale, WriteStale DEF SInv
<1>4. CASE \E k \in Caller : Begin(k) \/ Join(k) \/ Return(k)
  BY <1>1, <1>4, BeginStale, CallerStale DEF SInv
<1>5. CASE UNCHANGED vars
  <2>1. FreshInv'
    BY <1>5 DEF vars, SInv, FreshInv
  <2> QED
    BY <1>1, <1>5, <2>1, KeptStale DEF vars, SInv
<1> QED
  BY <1>2, <1>3, <1>4, <1>5 DEF Next

(* signedGet never returns a version that had been superseded for longer   *)
(* than getCacheTTL and the client's timeout together when the caller      *)
(* began, however many callers share the cache and the flight.             *)
THEOREM StalenessIsBounded == Spec => []BoundedStaleness
<1>1. SInv => BoundedStaleness
  BY DEF SInv
<1> QED
  BY <1>1, InitStale, StepStale, PTL DEF Spec

-----------------------------------------------------------------------------
(* The walks: what the filters of a page do. *)

(* Induction up to n, for a set: what holds 0 and with every number the    *)
(* next one holds them all.                                                *)
LEMMA UpTo ==
    ASSUME NEW n \in Nat, NEW S, 0 \in S, \A i \in 0..(n - 1) : i \in S => i + 1 \in S
    PROVE  0..n \subseteq S
<1> SUFFICES ASSUME (0..n) \ S # {} PROVE FALSE
  OBVIOUS
<1> DEFINE T == (0..n) \ S
<1>1. T \in SUBSET Nat /\ T # {}
  OBVIOUS
<1>2. \E x \in T : \A y \in T : ~(<<y, x>> \in Less)
  <2> HIDE DEF T
  <2> QED
    BY <1>1, LessWF, WFMin, Zenon
<1>3. PICK x \in T : \A y \in T : ~(<<y, x>> \in Less)
  BY <1>2
<1>4. x # 0 /\ x - 1 \in 0..(n - 1) /\ x = (x - 1) + 1 /\ x \notin S
  OBVIOUS
<1>5. x - 1 \notin S
  BY <1>4
<1>6. x - 1 \in T /\ <<x - 1, x>> \in Less
  BY <1>4, <1>5 DEF Less
<1> QED
  BY <1>3, <1>6

(* The recursion in Kept, for the first k elements of s. *)
Keeps(u, s, S, k) ==
    u = [n \in 0..k |-> IF n = 0 THEN << >>
                        ELSE IF s[n] \in S THEN Append(u[n - 1], s[n]) ELSE u[n - 1]]

(* It defines a function. *)
LEMMA KeepsExist ==
    ASSUME NEW s, NEW S, NEW m \in Nat
    PROVE  \E u : Keeps(u, s, S, m)
<1> DEFINE T == {k \in 0..m : \E u : Keeps(u, s, S, k)}
           Step(p, n) == IF s[n] \in S THEN Append(p, s[n]) ELSE p
<1>1. 0 \in T
  <2>1. Keeps([n \in 0..0 |-> << >>], s, S, 0)
    BY DEF Keeps
  <2> QED
    BY <2>1
<1>2. ASSUME NEW k \in 0..(m - 1), k \in T PROVE k + 1 \in T
  <2>1. PICK u : Keeps(u, s, S, k)
    BY <1>2
  <2> DEFINE v == [n \in 0..(k + 1) |-> IF n = k + 1 THEN Step(u[k], n) ELSE u[n]]
  <2>2. \A n \in 0..k : u[n] = IF n = 0 THEN << >> ELSE Step(u[n - 1], n)
    BY <2>1 DEF Keeps
  <2>3. ASSUME NEW n \in 0..(k + 1)
        PROVE  v[n] = IF n = 0 THEN << >> ELSE Step(v[n - 1], n)
    <3>1. CASE n = k + 1
      <4>1. n # 0 /\ n - 1 = k /\ k \in 0..(k + 1) /\ k # k + 1
        BY <3>1
      <4> HIDE DEF Step
      <4>2. v[n] = Step(u[k], n) /\ v[k] = u[k]
        BY <3>1, <4>1
      <4> QED
        BY <4>1, <4>2
    <3>2. CASE n # k + 1
      <4>1. n \in 0..k
        BY <3>2
      <4>2. n # 0 => n - 1 \in 0..(k + 1) /\ n - 1 # k + 1
        BY <4>1
      <4> HIDE DEF Step
      <4>3. v[n] = u[n] /\ (n # 0 => v[n - 1] = u[n - 1])
        BY <3>2, <4>2
      <4> HIDE DEF v
      <4> QED
        BY <2>2, <4>1, <4>3
    <3> QED
      BY <3>1, <3>2
  <2>4. Keeps(v, s, S, k + 1)
    <3>1. v = [n \in 0..(k + 1) |-> v[n]]
      OBVIOUS
    <3> HIDE DEF v
    <3> QED
      BY <2>3, <3>1, Zenon DEF Keeps
  <2>5. k + 1 \in 0..m
    OBVIOUS
  <2> QED
    BY <2>4, <2>5, Zenon
<1>3. 0..m \subseteq T
  <2> HIDE DEF T
  <2> QED
    BY <1>1, <1>2, UpTo
<1> QED
  BY <1>3

(* Kept(s, S) is the last of the filtered prefixes of s. *)
LEMMA KeptIsLast ==
    ASSUME NEW s \in Seq(Nat), NEW S
    PROVE  \E u : /\ u[0] = << >>
                  /\ \A n \in 1..Len(s) :
                        u[n] = IF s[n] \in S THEN Append(u[n - 1], s[n]) ELSE u[n - 1]
                  /\ Kept(s, S) = u[Len(s)]
<1>0. Len(s) \in Nat
  OBVIOUS
<1> DEFINE u == CHOOSE v : Keeps(v, s, S, Len(s))
<1>1. Keeps(u, s, S, Len(s))
  BY <1>0, KeepsExist, Zenon
<1>2. Kept(s, S) = u[Len(s)]
  BY DEF Kept, Keeps
<1> HIDE DEF u
<1>3. \A n \in 0..Len(s) : u[n] = IF n = 0 THEN << >>
                  ELSE IF s[n] \in S THEN Append(u[n - 1], s[n]) ELSE u[n - 1]
  BY <1>1 DEF Keeps
<1>4. 0 \in 0..Len(s) /\ \A n \in 1..Len(s) : n \in 0..Len(s) /\ n # 0
  BY <1>0
<1>5. u[0] = << >> /\ \A n \in 1..Len(s) :
                        u[n] = IF s[n] \in S THEN Append(u[n - 1], s[n]) ELSE u[n - 1]
  BY <1>3, <1>4
<1> QED
  BY <1>2, <1>5

(* t has exactly the elements of s that are in S, newest first if those    *)
(* are that in s.                                                          *)
Filters(t, s, S) ==
    /\ t \in Seq(Nat) /\ Len(t) <= Len(s)
    /\ \A i \in 1..Len(t) : t[i] \in S /\ \E n \in 1..Len(s) : s[n] = t[i]
    /\ \A n \in 1..Len(s) : s[n] \in S => \E i \in 1..Len(t) : t[i] = s[n]
    /\ (\A i, j \in 1..Len(s) : i < j /\ s[i] \in S /\ s[j] \in S => s[i] > s[j])
          => \A i, j \in 1..Len(t) : i < j => t[i] > t[j]

(* This is what Kept does. *)
LEMMA KeptFacts ==
    ASSUME NEW s \in Seq(Nat), NEW S
    PROVE  Filters(Kept(s, S), s, S)
<1>1. PICK u : /\ u[0] = << >>
               /\ \A n \in 1..Len(s) :
                     u[n] = IF s[n] \in S THEN Append(u[n - 1], s[n]) ELSE u[n - 1]
               /\ Kept(s, S) = u[Len(s)]
  BY KeptIsLast
<1>0. Len(s) \in Nat /\ \A n \in 1..Len(s) : s[n] \in Nat
  OBVIOUS
<1> DEFINE down == \A i, j \in 1..Len(s) : i < j /\ s[i] \in S /\ s[j] \in S => s[i] > s[j]
           Good(k) == /\ u[k] \in Seq(Nat) /\ Len(u[k]) <= k
                      /\ \A i \in 1..Len(u[k]) : u[k][i] \in S /\ \E n \in 1..k : s[n] = u[k][i]
                      /\ \A n \in 1..k : s[n] \in S => \E i \in 1..Len(u[k]) : u[k][i] = s[n]
                      /\ down => \A i, j \in 1..Len(u[k]) : i < j => u[k][i] > u[k][j]
           T == {k \in 0..Len(s) : Good(k)}
<1>2. 0 \in T
  <2>1. u[0] \in Seq(Nat) /\ Len(u[0]) = 0
    BY <1>1
  <2> QED
    BY <1>0, <2>1
<1>3. ASSUME NEW k \in 0..(Len(s) - 1), k \in T PROVE k + 1 \in T
  <2>0. Good(k)
    <3> HIDE DEF Good
    <3> QED
      BY <1>3
  <2>1. /\ k + 1 \in 1..Len(s) /\ (k + 1) - 1 = k /\ k + 1 \in 0..Len(s)
        /\ Good(k) /\ s[k + 1] \in Nat
    <3> HIDE DEF Good, T
    <3> QED
      BY <1>0, <2>0
  <2>2. CASE s[k + 1] \notin S
    <3>1. u[k + 1] = u[k]
      BY <1>1, <2>1, <2>2
    <3>2. \A n \in 1..k : n \in 1..(k + 1)
      BY <2>1
    <3>3. \A n \in 1..(k + 1) : s[n] \in S => n \in 1..k
      BY <2>1, <2>2
    <3>4. Len(u[k]) <= k + 1
      BY <2>1
    <3> HIDE DEF down
    <3>5. Good(k + 1)
      BY <2>1, <3>1, <3>2, <3>3, <3>4, Zenon
    <3> HIDE DEF Good
    <3> QED
      BY <2>1, <3>5
  <2>3. CASE s[k + 1] \in S
    <3> DEFINE l == Len(u[k])
               e == s[k + 1]
    <3>1. u[k + 1] = Append(u[k], e)
      BY <1>1, <2>1, <2>3
    <3>2. l \in Nat /\ u[k] \in Seq(Nat)
      BY <2>1
    <3>3. /\ u[k + 1] \in Seq(Nat) /\ Len(u[k + 1]) = l + 1
          /\ \A i \in 1..l : u[k + 1][i] = u[k][i]
          /\ u[k + 1][l + 1] = e
      BY <2>1, <3>1, <3>2, AppendProperties
    <3> HIDE DEF l
    <3>4. \A i \in 1..(l + 1) : i \in 1..l \/ i = l + 1
      BY <3>2
    <3>5. \A n \in 1..(k + 1) : n \in 1..k \/ n = k + 1
      OBVIOUS
    <3>6. /\ \A i \in 1..l : u[k][i] \in S /\ \E n \in 1..k : s[n] = u[k][i]
          /\ \A n \in 1..k : s[n] \in S => \E i \in 1..l : u[k][i] = s[n]
          /\ down => \A i, j \in 1..l : i < j => u[k][i] > u[k][j]
          /\ l <= k
      BY <2>1 DEF l
    <3>7. \A i \in 1..(l + 1) : u[k + 1][i] \in S /\ \E n \in 1..(k + 1) : s[n] = u[k + 1][i]
      <4>1. (\A n \in 1..k : n \in 1..(k + 1)) /\ k + 1 \in 1..(k + 1)
        OBVIOUS
      <4> QED
        BY <2>3, <3>3, <3>4, <3>6, <4>1, Zenon
    <3>8. \A n \in 1..(k + 1) : s[n] \in S => \E i \in 1..(l + 1) : u[k + 1][i] = s[n]
      <4>1. (\A i \in 1..l : i \in 1..(l + 1)) /\ l + 1 \in 1..(l + 1)
        BY <3>2
      <4> QED
        BY <3>3, <3>5, <3>6, <4>1, Zenon
    <3>9. ASSUME down, NEW i \in 1..(l + 1), NEW j \in 1..(l + 1), i < j
          PROVE  u[k + 1][i] > u[k + 1][j]
      <4>1. i \in 1..l
        BY <3>2, <3>9
      <4>2. CASE j \in 1..l
        BY <3>3, <3>6, <3>9, <4>1, <4>2
      <4>3. CASE j = l + 1
        <5>1. PICK n \in 1..k : s[n] = u[k][i]
          BY <3>6, <4>1
        <5>2. n \in 1..Len(s) /\ n < k + 1 /\ s[n] \in S
          BY <2>1, <3>6, <4>1, <5>1
        <5>3. s[n] > s[k + 1]
          BY <2>1, <2>3, <3>9, <5>2
        <5> QED
          BY <3>3, <4>1, <4>3, <5>1, <5>3
      <4> QED
        BY <3>4, <4>2, <4>3
    <3> HIDE DEF down, e
    <3>10. Good(k + 1)
      <4>1. Len(u[k + 1]) <= k + 1
        BY <3>2, <3>3, <3>6
      <4> QED
        BY <3>3, <3>7, <3>8, <3>9, <4>1, Zenon
    <3> HIDE DEF Good
    <3> QED
      BY <2>1, <3>10
  <2> QED
    BY <2>2, <2>3
<1>4. 0..Len(s) \subseteq T
  <2> HIDE DEF T
  <2> QED
    BY <1>0, <1>2, <1>3, UpTo
<1>5. Len(s) \in T
  <2> HIDE DEF T
  <2> QED
    BY <1>0, <1>4
<1>6. Good(Len(s))
  <2> HIDE DEF Good
  <2> QED
    BY <1>5
<1>7. Filters(u[Len(s)], s, S)
  <2> HIDE DEF T
  <2> QED
    BY <1>6, Zenon DEF Filters
<1> QED
  BY <1>1, <1>7, Zenon
(* The first n of a sequence. *)
LEMMA UptoFacts ==
    ASSUME NEW s \in Seq(Nat), NEW n \in Nat
    PROVE  /\ Upto(s, n) \in Seq(Nat)
           /\ Len(Upto(s, n)) = IF Len(s) < n THEN Len(s) ELSE n
           /\ \A i \in 1..Len(Upto(s, n)) : Upto(s, n)[i] = s[i]
<1> DEFINE m == IF Len(s) < n THEN Len(s) ELSE n
<1>1. m \in Nat /\ m <= Len(s)
  OBVIOUS
<1>2. Upto(s, n) = SubSeq(s, 1, m)
  BY DEF Upto
<1> HIDE DEF m
<1>3. 1 \in Int /\ m \in Int /\ \A i \in 1..m : s[i] \in Nat
  BY <1>1
<1>4. /\ SubSeq(s, 1, m) \in Seq(Nat)
      /\ Len(SubSeq(s, 1, m)) = IF 1 <= m THEN m - 1 + 1 ELSE 0
      /\ \A i \in 1..(m - 1 + 1) : SubSeq(s, 1, m)[i] = s[1 + i - 1]
  BY <1>3, SubSeqProperties
<1>5. Len(SubSeq(s, 1, m)) = m
  BY <1>1, <1>4
<1>6. \A i \in 1..m : SubSeq(s, 1, m)[i] = s[i]
  <2> TAKE i \in 1..m
  <2>1. i \in 1..(m - 1 + 1) /\ 1 + i - 1 = i
    BY <1>1
  <2> QED
    BY <1>4, <2>1
<1> QED
  BY <1>2, <1>4, <1>5, <1>6 DEF m

(* A stretch of a timeline: items from lo to below hi, newest first. *)
Stretch(s, lo, hi) ==
    /\ s \in Seq(Nat)
    /\ \A n \in 1..Len(s) : lo <= s[n] /\ s[n] < hi
    /\ \A i, j \in 1..Len(s) : i < j => s[i] > s[j]

(* All items of S from lo to below hi are in s. *)
Holds(s, S, lo, hi) == \A i \in S : lo <= i /\ i < hi => i \in ToSet(s)

(* The elements of a sequence, by its length. *)
LEMMA ToSetFacts ==
    ASSUME NEW s \in Seq(Nat)
    PROVE  /\ \A n \in 1..Len(s) : s[n] \in ToSet(s)
           /\ \A x \in ToSet(s) : \E n \in 1..Len(s) : x = s[n]
           /\ ToSet(s) \subseteq Nat
  BY DEF ToSet

(* A filter makes a stretch of a stretch, with the elements that are in S. *)
LEMMA StretchKept ==
    ASSUME NEW lo \in Nat, NEW hi \in Nat, NEW s, Stretch(s, lo, hi), NEW S
    PROVE  /\ Stretch(Kept(s, S), lo, hi)
           /\ ToSet(Kept(s, S)) = ToSet(s) \cap S
           /\ Len(Kept(s, S)) <= Len(s)
<1> DEFINE t == Kept(s, S)
<1>0. s \in Seq(Nat)
  BY DEF Stretch
<1>1. /\ t \in Seq(Nat) /\ Len(t) <= Len(s)
      /\ \A i \in 1..Len(t) : t[i] \in S /\ \E n \in 1..Len(s) : s[n] = t[i]
      /\ \A n \in 1..Len(s) : s[n] \in S => \E i \in 1..Len(t) : t[i] = s[n]
      /\ (\A i, j \in 1..Len(s) : i < j /\ s[i] \in S /\ s[j] \in S => s[i] > s[j])
            => \A i, j \in 1..Len(t) : i < j => t[i] > t[j]
  <2>1. Filters(t, s, S)
    BY <1>0, KeptFacts, Zenon
  <2> HIDE DEF t
  <2> QED
    BY <2>1, Zenon DEF Filters
<1> HIDE DEF t
<1>2. \A i, j \in 1..Len(t) : i < j => t[i] > t[j]
  BY <1>1, Zenon DEF Stretch
<1>3. \A n \in 1..Len(t) : lo <= t[n] /\ t[n] < hi
  BY <1>1 DEF Stretch
<1>4. Stretch(t, lo, hi)
  BY <1>1, <1>2, <1>3 DEF Stretch
<1>5. ToSet(t) = ToSet(s) \cap S
  <2>1. /\ \A x \in ToSet(s) : \E n \in 1..Len(s) : x = s[n]
        /\ \A n \in 1..Len(s) : s[n] \in ToSet(s)
    BY <1>0, ToSetFacts
  <2>2. /\ \A x \in ToSet(t) : \E n \in 1..Len(t) : x = t[n]
        /\ \A n \in 1..Len(t) : t[n] \in ToSet(t)
    BY <1>1, ToSetFacts
  <2>3. ToSet(t) \subseteq ToSet(s) \cap S
    BY <1>1, <2>1, <2>2
  <2>4. ASSUME NEW x \in ToSet(s), x \in S PROVE x \in ToSet(t)
    <3>1. PICK n \in 1..Len(s) : x = s[n]
      BY <2>1
    <3>2. PICK i \in 1..Len(t) : t[i] = s[n]
      BY <1>1, <2>4, <3>1
    <3> QED
      BY <2>2, <3>1, <3>2
  <2> QED
    BY <2>3, <2>4
<1> QED
  BY <1>1, <1>4, <1>5 DEF t

(* So does cutting it off; and unless something is cut off nothing changes. *)
LEMMA StretchUpto ==
    ASSUME NEW lo \in Nat, NEW hi \in Nat, NEW s, Stretch(s, lo, hi), NEW m \in Nat
    PROVE  /\ Stretch(Upto(s, m), lo, hi)
           /\ ToSet(Upto(s, m)) \subseteq ToSet(s)
           /\ Len(Upto(s, m)) <= m
           /\ Len(Upto(s, m)) = m \/ ToSet(Upto(s, m)) = ToSet(s)
<1> DEFINE t == Upto(s, m)
<1>0. s \in Seq(Nat)
  BY DEF Stretch
<1>1. /\ t \in Seq(Nat)
      /\ Len(t) = IF Len(s) < m THEN Len(s) ELSE m
      /\ \A i \in 1..Len(t) : t[i] = s[i]
  BY <1>0, UptoFacts
<1> HIDE DEF t
<1>2. \A i \in 1..Len(t) : i \in 1..Len(s)
  BY <1>0, <1>1
<1>3. Stretch(t, lo, hi)
  <2>1. \A i, j \in 1..Len(t) : i < j => t[i] > t[j]
    BY <1>1, <1>2, Zenon DEF Stretch
  <2>2. \A i \in 1..Len(t) : lo <= t[i] /\ t[i] < hi
    BY <1>1, <1>2, Zenon DEF Stretch
  <2> QED
    BY <1>1, <2>1, <2>2 DEF Stretch
<1>4. ToSet(t) \subseteq ToSet(s)
  <2>1. /\ \A x \in ToSet(s) : \E n \in 1..Len(s) : x = s[n]
        /\ \A n \in 1..Len(s) : s[n] \in ToSet(s)
    BY <1>0, ToSetFacts
  <2>2. /\ \A x \in ToSet(t) : \E n \in 1..Len(t) : x = t[n]
        /\ \A n \in 1..Len(t) : t[n] \in ToSet(t)
    BY <1>1, ToSetFacts
  <2> QED
    BY <1>1, <1>2, <2>1, <2>2
<1>5. Len(t) <= m
  BY <1>0, <1>1
<1>6. Len(t) # m => Len(t) = Len(s)
  BY <1>0, <1>1
<1>7. Len(t) = m \/ ToSet(t) = ToSet(s)
  <2>1. /\ \A x \in ToSet(s) : \E n \in 1..Len(s) : x = s[n]
        /\ \A n \in 1..Len(s) : s[n] \in ToSet(s)
    BY <1>0, ToSetFacts
  <2>2. /\ \A x \in ToSet(t) : \E n \in 1..Len(t) : x = t[n]
        /\ \A n \in 1..Len(t) : t[n] \in ToSet(t)
    BY <1>1, ToSetFacts
  <2>3. ASSUME Len(t) = Len(s), NEW x \in ToSet(s) PROVE x \in ToSet(t)
    <3>1. PICK n \in 1..Len(s) : x = s[n]
      BY <2>1
    <3>2. x = t[n] /\ n \in 1..Len(t)
      BY <1>1, <2>3, <3>1
    <3> QED
      BY <2>2, <3>2
  <2> QED
    BY <1>4, <1>6, <2>3
<1> QED
  BY <1>3, <1>4, <1>5, <1>7 DEF t

(* A sequence ahead of another. *)
LEMMA ConcatFacts ==
    ASSUME NEW s \in Seq(Nat), NEW t \in Seq(Nat)
    PROVE  /\ s \o t \in Seq(Nat) /\ Len(s \o t) = Len(s) + Len(t)
           /\ \A i \in 1..Len(s) : i \in 1..Len(s \o t) /\ (s \o t)[i] = s[i]
           /\ \A i \in 1..Len(t) :
                 Len(s) + i \in 1..Len(s \o t) /\ (s \o t)[Len(s) + i] = t[i]
           /\ \A i \in 1..Len(s \o t) : i \in 1..Len(s) \/ i - Len(s) \in 1..Len(t)
           /\ ToSet(s \o t) = ToSet(s) \cup ToSet(t)
<1> DEFINE k == Len(s)
           l == Len(t)
           u == s \o t
<1>1. /\ u \in Seq(Nat) /\ Len(u) = k + l /\ k \in Nat /\ l \in Nat
      /\ \A i \in 1..(k + l) : u[i] = IF i <= k THEN s[i] ELSE t[i - k]
  BY ConcatProperties
<1> HIDE DEF k, l, u
<1>2. \A i \in 1..k : i \in 1..Len(u) /\ u[i] = s[i]
  BY <1>1
<1>3. \A i \in 1..l : k + i \in 1..Len(u) /\ u[k + i] = t[i]
  <2> TAKE i \in 1..l
  <2>1. k + i \in 1..(k + l) /\ ~(k + i <= k) /\ (k + i) - k = i
    BY <1>1
  <2> QED
    BY <1>1, <2>1
<1>4. \A i \in 1..Len(u) : i \in 1..k \/ (i - k \in 1..l /\ k + (i - k) = i)
  BY <1>1
<1>5. ToSet(u) = ToSet(s) \cup ToSet(t)
  <2>1. ASSUME NEW x \in ToSet(u) PROVE x \in ToSet(s) \cup ToSet(t)
    <3>1. PICK i \in 1..Len(u) : x = u[i]
      BY <1>1, ToSetFacts
    <3>2. CASE i \in 1..k
      BY <1>2, <3>1, <3>2, ToSetFacts DEF k
    <3>3. CASE i - k \in 1..l /\ k + (i - k) = i
      <4>1. x = t[i - k]
        BY <1>3, <3>1, <3>3
      <4> QED
        BY <3>3, <4>1, ToSetFacts DEF l
    <3> QED
      BY <1>4, <3>2, <3>3
  <2>2. \A i \in 1..k : s[i] \in ToSet(u)
    BY <1>1, <1>2, ToSetFacts
  <2>3. \A i \in 1..l : t[i] \in ToSet(u)
    BY <1>1, <1>3, ToSetFacts
  <2>4. ToSet(s) \subseteq ToSet(u) /\ ToSet(t) \subseteq ToSet(u)
    <3>1. /\ \A x \in ToSet(s) : \E n \in 1..k : x = s[n]
          /\ \A x \in ToSet(t) : \E n \in 1..l : x = t[n]
      BY ToSetFacts DEF k, l
    <3> QED
      BY <2>2, <2>3, <3>1
  <2> QED
    BY <2>1, <2>4
<1> QED
  BY <1>1, <1>2, <1>3, <1>4, <1>5 DEF k, l, u

(* A stretch ahead of another, all of whose items are older. *)
LEMMA StretchJoin ==
    ASSUME NEW lo \in Nat, NEW hi \in Nat, NEW s, NEW t,
           Stretch(s, lo, hi), Stretch(t, lo, hi),
           \A i \in 1..Len(s) : \A j \in 1..Len(t) : s[i] > t[j]
    PROVE  Stretch(s \o t, lo, hi)
<1> DEFINE k == Len(s)
           u == s \o t
<1>0. s \in Seq(Nat) /\ t \in Seq(Nat) /\ k \in Nat /\ Len(t) \in Nat
  BY DEF Stretch
<1>1. /\ u \in Seq(Nat) /\ Len(u) = k + Len(t)
      /\ \A i \in 1..k : i \in 1..Len(u) /\ u[i] = s[i]
      /\ \A i \in 1..Len(t) : k + i \in 1..Len(u) /\ u[k + i] = t[i]
      /\ \A i \in 1..Len(u) : i \in 1..k \/ i - k \in 1..Len(t)
  BY <1>0, ConcatFacts
<1> HIDE DEF k, u
<1>2. ASSUME NEW i \in 1..Len(u), i - k \in 1..Len(t)
      PROVE  i > k /\ u[i] = t[i - k]
  <2>1. k + (i - k) = i /\ i > k
    BY <1>0, <1>2
  <2> QED
    BY <1>1, <1>2, <2>1
<1>3. \A i \in 1..k : s[i] \in Nat /\ lo <= s[i] /\ s[i] < hi
  BY <1>0 DEF Stretch, k
<1>4. \A i \in 1..Len(t) : t[i] \in Nat /\ lo <= t[i] /\ t[i] < hi
  BY <1>0 DEF Stretch
<1>5. ASSUME NEW i \in 1..Len(u) PROVE lo <= u[i] /\ u[i] < hi
  <2>1. CASE i \in 1..k
    BY <1>1, <1>3, <2>1
  <2>2. CASE i - k \in 1..Len(t)
    BY <1>2, <1>4, <2>2
  <2> QED
    BY <1>1, <2>1, <2>2
<1>6. ASSUME NEW i \in 1..Len(u), NEW j \in 1..Len(u), i < j PROVE u[i] > u[j]
  <2>1. CASE i \in 1..k /\ j \in 1..k
    BY <1>1, <1>6, <2>1 DEF Stretch, k
  <2>2. CASE i \in 1..k /\ j - k \in 1..Len(t)
    <3>1. u[i] = s[i] /\ u[j] = t[j - k]
      BY <1>1, <1>2, <2>2
    <3> QED
      BY <2>2, <3>1 DEF k
  <2>3. CASE i - k \in 1..Len(t) /\ j - k \in 1..Len(t)
    <3>1. u[i] = t[i - k] /\ u[j] = t[j - k]
      BY <1>2, <2>3
    <3>2. i \in Nat /\ j \in Nat /\ i - k < j - k
      BY <1>0, <1>1, <1>6
    <3> QED
      BY <2>3, <3>1, <3>2 DEF Stretch
  <2>4. CASE i - k \in 1..Len(t) /\ j \in 1..k
    BY <1>0, <1>6, <2>4
  <2> QED
    BY <1>1, <2>1, <2>2, <2>3, <2>4
<1> QED
  BY <1>1, <1>5, <1>6 DEF Stretch, u

(* A stretch ahead of one that begins where it ends. *)
LEMMA StretchConcat ==
    ASSUME NEW lo \in Nat, NEW mid \in Nat, NEW hi \in Nat, NEW s, NEW t,
           Stretch(s, mid, hi), Stretch(t, lo, mid), lo <= mid, mid <= hi
    PROVE  Stretch(s \o t, lo, hi)
<1>1. Stretch(s, lo, hi) /\ Stretch(t, lo, hi)
  BY DEF Stretch
<1>2. \A i \in 1..Len(s) : \A j \in 1..Len(t) : s[i] > t[j]
  BY DEF Stretch
<1> QED
  BY <1>1, <1>2, StretchJoin

(* The parts of a stretch are stretches, the first ahead of the second. *)
LEMMA StretchParts ==
    ASSUME NEW lo \in Nat, NEW hi \in Nat, NEW s \in Seq(Nat), NEW t \in Seq(Nat),
           Stretch(s \o t, lo, hi)
    PROVE  /\ Stretch(s, lo, hi) /\ Stretch(t, lo, hi)
           /\ \A i \in 1..Len(s) : \A j \in 1..Len(t) : s[i] > t[j]
<1> DEFINE k == Len(s)
           u == s \o t
<1>1. /\ k \in Nat /\ Len(u) = k + Len(t)
      /\ \A i \in 1..k : i \in 1..Len(u) /\ u[i] = s[i]
      /\ \A i \in 1..Len(t) : k + i \in 1..Len(u) /\ u[k + i] = t[i]
  BY ConcatFacts
<1>2. /\ \A n \in 1..Len(u) : lo <= u[n] /\ u[n] < hi
      /\ \A i, j \in 1..Len(u) : i < j => u[i] > u[j]
  BY DEF Stretch
<1> HIDE DEF k, u
<1>3. Stretch(s, lo, hi)
  <2>1. \A i \in 1..Len(s) : lo <= s[i] /\ s[i] < hi
    BY <1>1, <1>2, Zenon DEF k
  <2>2. \A i, j \in 1..Len(s) : i < j => s[i] > s[j]
    BY <1>1, <1>2, Zenon DEF k
  <2> QED
    BY <2>1, <2>2 DEF Stretch
<1>4. Stretch(t, lo, hi)
  <2>1. \A i \in 1..Len(t) : lo <= t[i] /\ t[i] < hi
    BY <1>1, <1>2
  <2>2. ASSUME NEW i \in 1..Len(t), NEW j \in 1..Len(t), i < j PROVE t[i] > t[j]
    <3>1. k + i < k + j
      BY <1>1, <2>2
    <3> QED
      BY <1>1, <1>2, <3>1
  <2> QED
    BY <2>1, <2>2 DEF Stretch
<1>5. ASSUME NEW i \in 1..Len(s), NEW j \in 1..Len(t) PROVE s[i] > t[j]
  <2>1. i < k + j
    BY <1>1 DEF k
  <2> QED
    BY <1>1, <1>2, <2>1 DEF k
<1> QED
  BY <1>3, <1>4, <1>5

(* A stretch has as many elements as places. *)
LEMMA StretchCount ==
    ASSUME NEW lo \in Nat, NEW hi \in Nat, NEW s, Stretch(s, lo, hi)
    PROVE  IsFiniteSet(ToSet(s)) /\ Cardinality(ToSet(s)) = Len(s)
<1>0. s \in Seq(Nat) /\ Len(s) \in Nat
  BY DEF Stretch
<1>1. s \in [1..Len(s) -> ToSet(s)]
  BY <1>0 DEF ToSet
<1>2. ASSUME NEW i \in 1..Len(s), NEW j \in 1..Len(s), s[i] = s[j] PROVE i = j
  <2>1. ~(i < j) /\ ~(j < i)
    BY <1>0, <1>2 DEF Stretch
  <2> QED
    BY <2>1
<1>3. s \in Bijection(1..Len(s), ToSet(s))
  <2>1. \A x \in ToSet(s) : \E n \in 1..Len(s) : s[n] = x
    BY <1>0, ToSetFacts
  <2> QED
    BY <1>1, <1>2, <2>1, Zenon DEF Bijection, Injection, Surjection, IsInjective
<1>4. ExistsBijection(1..Len(s), ToSet(s))
  BY <1>3 DEF ExistsBijection
<1>5. IsFiniteSet(1..Len(s)) /\ Cardinality(1..Len(s)) = Len(s)
  <2>1. 1 \in Int /\ Len(s) \in Int
    BY <1>0
  <2>2. /\ IsFiniteSet(1..Len(s))
        /\ Cardinality(1..Len(s)) = IF 1 > Len(s) THEN 0 ELSE Len(s) - 1 + 1
    BY <2>1, FS_Interval
  <2>3. (IF 1 > Len(s) THEN 0 ELSE Len(s) - 1 + 1) = Len(s)
    BY <1>0
  <2> QED
    BY <2>2, <2>3
<1> QED
  BY <1>4, <1>5, FS_Bijection

-----------------------------------------------------------------------------
(* The server's pages. *)

(* There is a number beyond all items. *)
LEMMA NewestType == Newest \in Nat /\ Newest > 0
  BY TimelineAssumption DEF Newest

(* The items of S, newest first. *)
LEMMA DescendingFacts ==
    ASSUME NEW S \in SUBSET (1..(Newest - 1))
    PROVE  Stretch(Descending(S), 0, Newest) /\ ToSet(Descending(S)) = S
<1> DEFINE s == [i \in 1..(Newest - 1) |-> Newest - i]
<1>1. /\ s \in Seq(Nat) /\ Len(s) = Newest - 1
      /\ \A i \in 1..Len(s) : s[i] = Newest - i
  <2>1. Newest - 1 \in Nat /\ \A i \in 1..(Newest - 1) : Newest - i \in Nat
    BY NewestType
  <2>2. s \in [1..(Newest - 1) -> Nat]
    BY <2>1
  <2>3. s \in Seq(Nat) /\ DOMAIN s = 1..(Newest - 1)
    BY <2>1, <2>2
  <2>4. Len(s) = Newest - 1
    <3> HIDE DEF s
    <3> QED
      BY <2>1, <2>3, LenProperties
  <2> QED
    BY <2>3, <2>4
<1> HIDE DEF s
<1>2. Stretch(s, 0, Newest)
  <2>1. \A i \in 1..Len(s) : 0 <= s[i] /\ s[i] < Newest
    BY <1>1, NewestType
  <2>2. \A i, j \in 1..Len(s) : i < j => s[i] > s[j]
    BY <1>1, NewestType
  <2> QED
    BY <1>1, <2>1, <2>2, Zenon DEF Stretch
<1>3. S \subseteq ToSet(s)
  <2>1. ASSUME NEW x \in S PROVE x \in ToSet(s)
    <3>1. Newest - x \in 1..Len(s) /\ s[Newest - x] = x
      BY <1>1, NewestType
    <3> QED
      BY <1>1, <3>1, ToSetFacts
  <2> QED
    BY <2>1
<1>4. Stretch(Kept(s, S), 0, Newest) /\ ToSet(Kept(s, S)) = ToSet(s) \cap S
  BY <1>2, NewestType, StretchKept
<1> QED
  BY <1>3, <1>4 DEF Descending, s

(* A page is a stretch of S below max: nothing of S is between max and its *)
(* last item but what is on it, and it is empty only if nothing is left.   *)
LEMMA PageFacts ==
    ASSUME NEW S \in SUBSET (1..(Newest - 1)), NEW max \in Nat
    PROVE  LET p == PageOf(S, max) IN
           /\ p \in Seq(Nat) /\ ToSet(p) \subseteq S
           /\ p = << >> => Stretch(p, 0, max) /\ Holds(p, S, 0, max)
           /\ p # << >> => /\ Last(p) \in Nat /\ Last(p) < max
                           /\ Stretch(p, Last(p), max) /\ Holds(p, S, Last(p), max)
<1> DEFINE T == {i \in S : i < max}
           d == Descending(T)
           p == PageOf(S, max)
           L == Limit
<1>1. Stretch(d, 0, Newest) /\ ToSet(d) = T
  <2>1. T \in SUBSET (1..(Newest - 1))
    OBVIOUS
  <2> HIDE DEF T
  <2> QED
    BY <2>1, DescendingFacts
<1> HIDE DEF T
<1>2. d \in Seq(Nat) /\ Len(d) \in Nat /\ L \in Nat /\ L > 0
  BY <1>1, TimelineAssumption DEF Stretch
<1>3. p = Upto(d, L)
  BY DEF PageOf, T
<1> HIDE DEF p, d, L
<1>4. /\ p \in Seq(Nat)
      /\ Len(p) = IF Len(d) < L THEN Len(d) ELSE L
      /\ \A i \in 1..Len(p) : p[i] = d[i]
  BY <1>2, <1>3, UptoFacts
<1>5. /\ Len(p) \in Nat
      /\ \A i \in 1..Len(p) : i \in 1..Len(d) /\ p[i] = d[i] /\ p[i] \in Nat /\ p[i] \in T
  BY <1>1, <1>2, <1>4, ToSetFacts
<1>6. \A i \in 1..Len(p) : p[i] \in S /\ p[i] < max
  BY <1>5 DEF T
<1>7. ToSet(p) \subseteq S
  BY <1>4, <1>6, ToSetFacts, Zenon
<1>8. CASE p = << >>
  <2>1. Len(p) = 0 /\ Len(d) = 0
    BY <1>2, <1>4, <1>8
  <2>2. T = {}
    <3>1. \A x \in ToSet(d) : \E n \in 1..Len(d) : x = d[n]
      BY <1>2, ToSetFacts
    <3> QED
      BY <1>1, <2>1, <3>1
  <2>3. Stretch(p, 0, max) /\ Holds(p, S, 0, max)
    BY <1>4, <2>1, <2>2 DEF Stretch, Holds, T
  <2> QED
    BY <1>4, <1>7, <1>8, <2>3 DEF p
<1>9. CASE p # << >>
  <2>1. Len(p) \in 1..Len(p) /\ Last(p) = p[Len(p)]
    BY <1>4, <1>5, <1>9 DEF Last
  <2>2. Last(p) \in Nat /\ Last(p) < max
    BY <1>5, <1>6, <2>1
  <2>3. \A i, j \in 1..Len(p) : i < j => p[i] > p[j]
    BY <1>1, <1>5, Zenon DEF Stretch
  <2>4. \A i \in 1..Len(p) : Last(p) <= p[i]
    <3> TAKE i \in 1..Len(p)
    <3>1. i < Len(p) \/ i = Len(p)
      BY <1>5
    <3> QED
      BY <1>5, <2>1, <2>3, <3>1
  <2>5. Stretch(p, Last(p), max)
    BY <1>4, <1>6, <2>3, <2>4 DEF Stretch
  <2>6. Holds(p, S, Last(p), max)
    <3>1. SUFFICES ASSUME NEW x \in S, Last(p) <= x, x < max PROVE x \in ToSet(p)
      BY DEF Holds
    <3>2. PICK n \in 1..Len(d) : x = d[n]
      BY <1>1, <1>2, <3>1, ToSetFacts DEF T
    <3>3. n <= Len(p)
      <4>1. SUFFICES ASSUME Len(p) < n PROVE FALSE
        BY <1>5
      <4>2. Len(p) \in 1..Len(d) /\ Last(p) = d[Len(p)]
        BY <1>5, <2>1
      <4>3. d[Len(p)] > d[n]
        BY <1>1, <4>1, <4>2 DEF Stretch
      <4>4. x \in Nat
        OBVIOUS
      <4> QED
        BY <2>2, <3>1, <3>2, <4>2, <4>3, <4>4
    <3>4. n \in 1..Len(p) /\ x = p[n]
      BY <1>5, <3>2, <3>3
    <3> QED
      BY <1>4, <3>4, ToSetFacts
  <2> QED
    BY <1>4, <1>7, <1>9, <2>2, <2>5, <2>6 DEF p
<1> QED
  BY <1>8, <1>9

(* The cursors a client can hold. *)
Cursor == [api : {"rest", "ap"}, max : Nat]

(* The items in front of a cursor are those not below it. *)
Floor(c) == IF c = NoCursor THEN 0 ELSE c.max

(* The types, and how long the list of items can be. *)
WalkTypeOK ==
    /\ route \in {"tweets", "follows", "replies"}
    /\ items \in Seq(Kind(route)) /\ Len(items) <= StartItems + changes
    /\ changes \in 0..MaxChanges
    /\ pc \in {"idle", "lookup", "rest", "actor", "collection", "page", "context", "note",
               "resolve"}
    /\ at \in Cursor \cup {NoCursor} /\ after \in Cursor \cup {NoCursor}
    /\ cursor \in Cursor \cup {NoCursor}
    /\ ended \in BOOLEAN
    /\ base \subseteq DOMAIN items /\ lost \subseteq DOMAIN items

(* While the handler works it holds the client's cursor; where it can be   *)
(* depends on the route and on whether there is a cursor.                  *)
ControlInv ==
    /\ pc # "idle" => at = cursor /\ ~ended
    /\ cursor # NoCursor => ~ended /\ route # "replies"
    /\ cursor # NoCursor /\ cursor.api = "rest" => route = "tweets"
    /\ pc \in {"lookup", "rest"} => route = "tweets"
    /\ pc \in {"context", "note"} => route = "replies"
    /\ pc = "resolve" => route # "follows"
    /\ pc = "actor" => route # "replies"
    /\ pc \in {"lookup", "actor", "context", "note", "collection"} => cursor = NoCursor
    /\ route # "replies" => acc = << >>

(* The pool: a slot holds nothing or its item; an item that was given out  *)
(* is in the works, rendered or lost.                                      *)
PoolInv ==
    pc = "resolve" =>
       /\ out \in Seq(Nat) /\ Len(out) = Len(page)
       /\ \A n \in 1..Len(page) : out[n] \in {0, page[n]}
       /\ claimed \in 0..Len(page) /\ running \subseteq 1..claimed
       /\ \A n \in 1..claimed : n \in running \/ out[n] = page[n] \/ page[n] \in lost

(* What the handler has in hand: the replies of the pages before, and the  *)
(* page in the pool.                                                       *)
InHand == IF pc = "resolve" THEN acc \o page ELSE acc
Reading == pc = "resolve" \/ (pc = "page" /\ route = "replies")

(* Where the client is on its walk. *)
Reached == IF ended THEN 0 ELSE Below(cursor)

(* Both are stretches of the timeline, of what collections list. *)
Listable == {i \in DOMAIN items : items[i] # "deeper"}
HandInv ==
    Reading =>
       /\ acc \in Seq(Nat) /\ (pc = "resolve" => page \in Seq(Nat))
       /\ Stretch(InHand, Floor(after), Below(at))
       /\ after # NoCursor => after.api = "ap" /\ after.max <= Below(at)
       /\ ToSet(InHand) \subseteq Listable
       /\ route = "replies" => Len(InHand) <= MaxReplies

Shown == {i \in DOMAIN items : items[i] \notin {"thread", "reply", "self", "deeper"}}
GotInv ==
    /\ Reached <= Newest /\ Stretch(got, Reached, Newest)
    /\ ToSet(got) \subseteq Shown
    /\ route = "replies" => Len(got) <= MaxReplies

Wanted == {i \in (base \ gone) \ lost : items[i] \in {"post", "boost", "peer", "answer"}}
Fully == ~cut /\ server # "hidden"
Enough(s) == route = "replies" /\ Cardinality(ToSet(s) \cup lost) >= MaxReplies

HandComplete ==
    Fully /\ Reading =>
       Enough(InHand) \/ Holds(InHand, Wanted, Floor(after), Below(at))

GotComplete ==
    Fully => \/ ended /\ (Enough(got) \/ (route = "replies" /\ pages = MaxPages))
             \/ Holds(got, Wanted, Reached, Newest)

(* The invariant of the walks. *)
WInv == WalkTypeOK /\ ControlInv /\ PoolInv /\ HandInv /\ GotInv /\ HandComplete /\ GotComplete

-----------------------------------------------------------------------------
(* Cursors and pages. *)

(* Where a page with a cursor begins, and that a cursor is not NoCursor. *)
LEMMA CursorFacts ==
    /\ \A c \in Cursor \cup {NoCursor} :
          /\ Floor(c) \in Nat /\ Below(c) \in Nat
          /\ c # NoCursor => Floor(c) = c.max /\ Below(c) = c.max /\ c \in Cursor
          /\ c # OwnCursor /\ pageCursor(c) = c
    /\ \A m \in Nat : /\ restURL(m) \in Cursor /\ restURL(m) # NoCursor /\ restURL(m).max = m
                      /\ pageURL(m) \in Cursor /\ pageURL(m) # NoCursor /\ pageURL(m).max = m
                      /\ restURL(m).api = "rest" /\ pageURL(m).api = "ap"
    /\ pageCursor(NoCursor) = NoCursor /\ pageCursor(OwnCursor) = NoCursor
    /\ OwnCursor # NoCursor
    /\ Floor(NoCursor) = 0 /\ Below(NoCursor) = Newest
<1> DEFINE R == [api : {"node", "rest", "ap"}, max : Nat]
<1>1. NoCursor \notin R
  BY TimelineAssumption
<1>2. \A c \in Cursor : c \in R /\ c.max \in Nat /\ c.api # "node"
  BY DEF Cursor
<1>3. \A m \in Nat : /\ restURL(m) \in Cursor /\ restURL(m).max = m /\ restURL(m).api = "rest"
                     /\ pageURL(m) \in Cursor /\ pageURL(m).max = m /\ pageURL(m).api = "ap"
  BY DEF Cursor, restURL, pageURL
<1>4. OwnCursor \in R /\ OwnCursor.api = "node"
  BY DEF OwnCursor
<1> HIDE DEF R
<1>5. OwnCursor # NoCursor /\ OwnCursor \notin Cursor /\ NoCursor \notin Cursor
  BY <1>1, <1>2, <1>4
<1>6. \A c \in Cursor \cup {NoCursor} :
          /\ Floor(c) \in Nat /\ Below(c) \in Nat
          /\ c # NoCursor => Floor(c) = c.max /\ Below(c) = c.max /\ c \in Cursor
  BY <1>2, <1>5, NewestType DEF Floor, Below
<1>7. \A c \in Cursor \cup {NoCursor} : c # OwnCursor /\ pageCursor(c) = c
  BY <1>5 DEF pageCursor
<1>8. Floor(NoCursor) = 0 /\ Below(NoCursor) = Newest /\ pageCursor(OwnCursor) = NoCursor
  BY DEF Floor, Below, pageCursor
<1> QED
  BY <1>3, <1>5, <1>6, <1>7, <1>8

(* All items are older than Newest, and what a walk wants is listed. *)
LEMMA ItemFacts ==
    ASSUME WalkTypeOK
    PROVE  /\ Len(items) \in Nat /\ DOMAIN items = 1..Len(items)
           /\ DOMAIN items \subseteq 1..(Newest - 1)
           /\ IsFiniteSet(DOMAIN items)
           /\ Live \subseteq DOMAIN items /\ Listed \subseteq Live
           /\ Wanted \subseteq Listed
           /\ \A i \in DOMAIN items : items[i] \in Kind(route)
<1>1. Len(items) \in Nat /\ DOMAIN items = 1..Len(items)
  BY DEF WalkTypeOK
<1>2. Len(items) < Newest
  BY <1>1, TimelineAssumption DEF WalkTypeOK, Newest
<1>3. DOMAIN items \subseteq 1..(Newest - 1)
  BY <1>1, <1>2, NewestType
<1>4. Live \subseteq DOMAIN items /\ Listed \subseteq Live
  BY DEF Live, Listed
<1>5. base \subseteq DOMAIN items
  BY DEF WalkTypeOK
<1>6. Wanted \subseteq Listed
  BY <1>5 DEF Wanted, Listed, Live
<1>7. \A i \in DOMAIN items : items[i] \in Kind(route)
  <2>1. items \in Seq(Kind(route))
    BY DEF WalkTypeOK
  <2> DEFINE K == Kind(route)
  <2>2. items \in Seq(K)
    BY <2>1
  <2> HIDE DEF K
  <2>3. \A i \in DOMAIN items : items[i] \in K
    BY <2>2
  <2> QED
    BY <2>3 DEF K
<1>8. IsFiniteSet(DOMAIN items)
  BY <1>1, FS_Interval, 1 \in Int, Len(items) \in Int
<1> QED
  BY <1>1, <1>3, <1>4, <1>6, <1>7, <1>8

(* A page of a collection and the cursor behind it: nothing that is listed *)
(* and below the page's own cursor is missing down to the next one.        *)
LEMMA CollectionPage ==
    ASSUME WalkTypeOK, NEW max \in Nat
    PROVE  LET p == apPage(max)
               c == apNext(max) IN
           /\ c \in Cursor \cup {NoCursor}
           /\ c # NoCursor => c.api = "ap"
           /\ Floor(c) \in Nat /\ Floor(c) <= max
           /\ Stretch(p, Floor(c), max) /\ Holds(p, Listed, Floor(c), max)
           /\ ToSet(p) \subseteq Listed
<1> DEFINE p == apPage(max)
           c == apNext(max)
<1>1. Listed \in SUBSET (1..(Newest - 1))
  BY ItemFacts, Zenon
<1>2. /\ p \in Seq(Nat) /\ ToSet(p) \subseteq Listed
      /\ p = << >> => Stretch(p, 0, max) /\ Holds(p, Listed, 0, max)
      /\ p # << >> => /\ Last(p) \in Nat /\ Last(p) < max
                      /\ Stretch(p, Last(p), max) /\ Holds(p, Listed, Last(p), max)
  BY <1>1, PageFacts DEF apPage
<1>3. CASE p # << >> /\ \E i \in Listed : i < Last(p)
  <2>1. c = pageURL(Last(p))
    BY <1>3 DEF apNext
  <2> HIDE DEF p, c
  <2>2. /\ c \in Cursor \cup {NoCursor} /\ c.api = "ap" /\ Floor(c) = Last(p)
    BY <1>2, <1>3, <2>1, CursorFacts
  <2> QED
    BY <1>2, <1>3, <2>2 DEF p, c
<1>4. CASE ~(p # << >> /\ \E i \in Listed : i < Last(p))
  <2>1. c = NoCursor
    BY <1>4 DEF apNext
  <2>2. Floor(c) = 0
    BY <2>1, CursorFacts
  <2>3. Stretch(p, 0, max) /\ Holds(p, Listed, 0, max)
    <3> HIDE DEF p, c
    <3>1. CASE p # << >>
      <4>1. \A i \in Listed : i \in Nat /\ i >= Last(p)
        BY <1>1, <1>2, <1>4, <3>1, NewestType
      <4>2. Holds(p, Listed, 0, max)
        BY <1>2, <3>1, <4>1 DEF Holds
      <4>3. Stretch(p, 0, max)
        BY <1>2, <3>1 DEF Stretch
      <4> QED
        BY <4>2, <4>3
    <3> QED
      BY <1>2, <3>1
  <2> QED
    BY <1>2, <2>1, <2>2, <2>3
<1> QED
  BY <1>3, <1>4

(* The same for a page of the REST api, which leaves the replies out. *)
LEMMA StatusPage ==
    ASSUME WalkTypeOK, NEW max \in Nat
    PROVE  LET p == restPage(max)
               c == restCursor(p, max) IN
           /\ c \in Cursor \cup {NoCursor}
           /\ Floor(c) \in Nat /\ Floor(c) <= max
           /\ Stretch(p, Floor(c), max)
           /\ Holds(p, {i \in Live : items[i] # "reply"}, Floor(c), max)
           /\ ToSet(p) \subseteq {i \in Live : items[i] # "reply"}
<1> DEFINE S == {i \in Live : items[i] # "reply"}
           p == restPage(max)
           c == restCursor(p, max)
<1>1. S \in SUBSET (1..(Newest - 1))
  BY ItemFacts
<1>2. /\ p \in Seq(Nat) /\ ToSet(p) \subseteq S
      /\ p = << >> => Stretch(p, 0, max) /\ Holds(p, S, 0, max)
      /\ p # << >> => /\ Last(p) \in Nat /\ Last(p) < max
                      /\ Stretch(p, Last(p), max) /\ Holds(p, S, Last(p), max)
  <2> HIDE DEF S
  <2> QED
    BY <1>1, PageFacts DEF restPage, S
<1>3. c = IF p = << >> THEN NoCursor ELSE restURL(Last(p))
  BY DEF restCursor
<1> HIDE DEF p, c, S
<1>4. CASE p = << >>
  <2>1. c = NoCursor /\ Floor(c) = 0
    BY <1>3, <1>4, CursorFacts
  <2> QED
    BY <1>2, <1>4, <2>1 DEF p, c, S
<1>5. CASE p # << >>
  <2>1. c \in Cursor \cup {NoCursor} /\ Floor(c) = Last(p)
    BY <1>2, <1>3, <1>5, CursorFacts
  <2> QED
    BY <1>2, <1>5, <2>1 DEF p, c, S
<1> QED
  BY <1>4, <1>5

-----------------------------------------------------------------------------
(* The walks: the steps of the handler, one by one. *)

(* What is counted is finite, and more of it is not less. *)
LEMMA CountGrows ==
    ASSUME NEW n \in Nat, NEW A, NEW B, A \subseteq B, B \subseteq 1..n
    PROVE  Cardinality(A) \in Nat /\ Cardinality(B) \in Nat /\ Cardinality(A) <= Cardinality(B)
<1>1. IsFiniteSet(1..n)
  BY FS_Interval, 1 \in Int, n \in Int
<1>2. IsFiniteSet(B)
  BY <1>1, FS_Subset
<1>3. IsFiniteSet(A) /\ Cardinality(A) <= Cardinality(B)
  BY <1>2, FS_Subset
<1> QED
  BY <1>2, <1>3, FS_CardinalityType

(* A response goes on where the client is; the page it gives holds all     *)
(* that is wanted down to its cursor.                                      *)
LEMMA AnswerKeeps ==
    ASSUME WInv, pc # "idle", NEW s, NEW c \in Cursor \cup {NoCursor}, Answer(s, c),
           UNCHANGED <<route, server, items, gone, changes, at, base, lost, pages>>,
           after' \in {after, NoCursor}, acc' \in {acc, << >>},
           Floor(c) <= Below(at), Stretch(s, Floor(c), Below(at)),
           c # NoCursor => route # "replies" /\ (c.api = "rest" => route = "tweets"),
           ToSet(s) \subseteq Shown,
           route = "replies" => Len(s) <= MaxReplies,
           Fully' => /\ Fully
                     /\ \/ Holds(s, Wanted, Floor(c), Below(at))
                        \/ c = NoCursor /\ (Enough(s) \/ (route = "replies" /\ pages = MaxPages))
    PROVE  WInv'
<1>1. /\ got' = got \o s /\ cursor' = c /\ ended' = (c = NoCursor) /\ pc' = "idle"
      /\ at = cursor /\ ~ended
  BY DEF Answer, WInv, ControlInv
<1>2. Reached = Below(at) /\ Reached' = Floor(c)
  BY <1>1, CursorFacts DEF Reached, Below, Floor
<1>3. Below(at) \in Nat /\ Floor(c) \in Nat /\ Below(at) <= Newest
  <2>1. at \in Cursor \cup {NoCursor}
    BY DEF WInv, WalkTypeOK
  <2> QED
    BY <1>2, <2>1, CursorFacts DEF WInv, GotInv
<1>4. Stretch(got, Below(at), Newest)
  BY <1>2 DEF WInv, GotInv
<1>5. got \in Seq(Nat) /\ s \in Seq(Nat)
  BY <1>4 DEF Stretch
<1>6. Stretch(got \o s, Floor(c), Newest)
  BY <1>3, <1>4, StretchConcat, NewestType
<1>7. ToSet(got \o s) = ToSet(got) \cup ToSet(s) /\ Len(got \o s) = Len(got) + Len(s)
  BY <1>5, ConcatFacts
<1>8. route = "replies" => got = << >> /\ got \o s = s /\ c = NoCursor
  <2>1. SUFFICES ASSUME route = "replies" PROVE got = << >> /\ got \o s = s /\ c = NoCursor
    OBVIOUS
  <2>2. at = NoCursor /\ c = NoCursor
    BY <1>1, <2>1 DEF WInv, ControlInv
  <2>3. Below(at) = Newest
    BY <2>2, CursorFacts
  <2>4. Len(got) = 0
    <3>1. SUFFICES ASSUME Len(got) # 0 PROVE FALSE
      OBVIOUS
    <3>2. 1 \in 1..Len(got) /\ got[1] \in Nat
      BY <1>5, <3>1
    <3> QED
      BY <1>4, <2>3, <3>2, NewestType DEF Stretch
  <2>5. got = << >>
    BY <1>5, <2>4
  <2> QED
    BY <1>5, <2>2, <2>5
<1>9. WalkTypeOK'
  BY <1>1 DEF WInv, WalkTypeOK
<1>10. ControlInv'
  BY <1>1 DEF WInv, ControlInv
<1>11. ~Reading' /\ PoolInv'
  BY <1>1 DEF Reading, PoolInv
<1>12. GotInv'
  <2>1. Shown' = Shown
    BY DEF Shown
  <2>2. ToSet(got)' \subseteq Shown
    BY <1>1, <1>7 DEF WInv, GotInv
  <2>3. route = "replies" => Len(got') <= MaxReplies
    BY <1>1, <1>8
  <2>4. Newest' = Newest
    BY DEF Newest
  <2>5. Stretch(got, Reached, Newest)' /\ (Reached <= Newest)'
    <3> DEFINE u == got \o s
    <3>1. Stretch(u, Floor(c), Newest) /\ got' = u
      BY <1>1, <1>6
    <3> HIDE DEF u
    <3>2. Stretch(got', Floor(c), Newest)
      BY <3>1
    <3> QED
      BY <1>2, <1>3, <2>4, <3>2, NewestType DEF Stretch
  <2> QED
    BY <2>1, <2>2, <2>3, <2>5 DEF GotInv
<1>13. GotComplete'
  <2>1. SUFFICES ASSUME Fully'
                 PROVE  \/ ended' /\ (Enough(got)' \/ (route' = "replies" /\ pages' = MaxPages))
                        \/ Holds(got, Wanted, Reached, Newest)'
    BY DEF GotComplete
  <2>2. Wanted' = Wanted /\ Newest' = Newest
    BY DEF Wanted, Newest
  <2>3. CASE Holds(s, Wanted, Floor(c), Below(at))
    <3>1. Holds(got, Wanted, Below(at), Newest)
      BY <1>1, <1>2, <2>1 DEF WInv, GotComplete
    <3>2. ASSUME NEW i \in Wanted, Floor(c) <= i, i < Newest PROVE i \in ToSet(got \o s)
      <4>1. i \in Nat
        BY ItemFacts DEF WInv
      <4>2. Below(at) <= i \/ i < Below(at)
        BY <1>3, <4>1
      <4> QED
        BY <1>7, <2>3, <3>1, <3>2, <4>2, Zenon DEF Holds
    <3>3. Holds(got \o s, Wanted, Floor(c), Newest)
      BY <3>2 DEF Holds
    <3> QED
      BY <1>1, <1>2, <2>2, <3>3 DEF Holds, ToSet
  <2>4. CASE c = NoCursor /\ (Enough(s) \/ (route = "replies" /\ pages = MaxPages))
    <3>1. ended' /\ route = "replies"
      BY <1>1, <2>4 DEF Enough
    <3>2. got' = s
      BY <1>1, <1>8, <3>1
    <3>3. Enough(s) => Enough(got)'
      BY <3>2 DEF Enough, ToSet
    <3> QED
      BY <2>4, <3>1, <3>3
  <2> QED
    BY <2>1, <2>3, <2>4
<1>14. HandInv' /\ HandComplete'
  BY <1>11 DEF HandInv, HandComplete
<1> QED
  BY <1>9, <1>10, <1>11, <1>12, <1>13, <1>14 DEF WInv

(* A step of the handler to another place changes nothing else. *)
LEMMA MoveKeeps ==
    ASSUME WInv, ~Reading', ControlInv',
           pc' \in {"idle", "rest", "actor", "collection", "page", "note"},
           UNCHANGED <<route, server, items, gone, changes, at, acc, after, cursor, got, ended,
                       pages, base, cut, lost>>
    PROVE  WInv'
<1>1. WalkTypeOK'
  BY DEF WInv, WalkTypeOK
<1>2. PoolInv' /\ HandInv' /\ HandComplete'
  BY DEF PoolInv, HandInv, HandComplete
<1>3. GotInv'
  BY DEF WInv, GotInv, Stretch, Reached, Newest, Below, Shown
<1>4. GotComplete'
  <2>1. /\ Wanted' = Wanted /\ Newest' = Newest /\ Reached' = Reached /\ Fully' = Fully
        /\ ToSet(got)' = ToSet(got) /\ Enough(got)' = Enough(got)
    BY DEF Wanted, Newest, Reached, Below, Fully, Enough, ToSet
  <2> QED
    BY <2>1 DEF WInv, GotComplete, Holds
<1> QED
  BY <1>1, <1>2, <1>3, <1>4 DEF WInv

(* An empty last page, which is all that is said of the Fediverse when it  *)
(* cannot be read.                                                         *)
LEMMA EmptyKeeps ==
    ASSUME WInv, pc # "idle", Answer(<< >>, NoCursor), ~Fully',
           UNCHANGED <<route, server, items, gone, changes, at, base, lost, pages>>,
           after' \in {after, NoCursor}, acc' \in {acc, << >>}
    PROVE  WInv'
<1>1. NoCursor \in Cursor \cup {NoCursor} /\ Floor(NoCursor) = 0
  BY CursorFacts
<1>2. Below(at) \in Nat
  BY CursorFacts DEF WInv, WalkTypeOK
<1>3. /\ Stretch(<< >>, Floor(NoCursor), Below(at)) /\ Floor(NoCursor) <= Below(at)
      /\ Len(<< >>) <= MaxReplies
  BY <1>1, <1>2, TimelineAssumption DEF Stretch
<1>4. ToSet(<< >>) \subseteq Shown
  BY DEF ToSet
<1> QED
  BY <1>1, <1>3, <1>4, AnswerKeeps

(* restTweets looks the account up, and falls back to the outbox. *)
LEMMA LookupKeeps == ASSUME WInv, Lookup PROVE WInv'
<1>1. /\ pc = "lookup" /\ pc' \in {"rest", "actor"}
      /\ UNCHANGED <<serverVars, at, poolVars, clientVars, walks, base, cut, lost>>
  BY DEF Lookup
<1>2. ~Reading' /\ ControlInv'
  BY <1>1 DEF WInv, ControlInv, Reading, serverVars, poolVars, clientVars
<1> QED
  BY <1>1, <1>2, MoveKeeps DEF serverVars, poolVars, clientVars

(* restTweetsPage: a page of statuses, the fallback, or what failed. *)
LEMMA RestPageKeeps == ASSUME WInv, RestPage PROVE WInv'
<1> DEFINE max == Below(at)
           arr == restPage(max)
           s == restTopLevel(arr)
           c == restCursor(arr, max)
<1>0. /\ pc = "rest" /\ UNCHANGED <<serverVars, at, poolVars, walks, base, lost>>
      /\ route = "tweets" /\ at = cursor /\ ~ended
  BY DEF RestPage, WInv, ControlInv
<1>1. CASE Answer(s, c) /\ UNCHANGED <<faults, cut>>
  <2>1. max \in Nat
    BY CursorFacts DEF WInv, WalkTypeOK
  <2> HIDE DEF max
  <2>2. /\ c \in Cursor \cup {NoCursor}
        /\ Floor(c) \in Nat /\ Floor(c) <= max
        /\ Stretch(arr, Floor(c), max)
        /\ Holds(arr, {i \in Live : items[i] # "reply"}, Floor(c), max)
        /\ ToSet(arr) \subseteq {i \in Live : items[i] # "reply"}
    BY <2>1, StatusPage DEF WInv
  <2> HIDE DEF arr, c
  <2>3. Stretch(s, Floor(c), max) /\ ToSet(s) = ToSet(arr) \cap Other({"thread"})
    BY <2>1, <2>2, StretchKept DEF restTopLevel
  <2> HIDE DEF s
  <2>4. \A i \in DOMAIN items : items[i] \in Kind("tweets")
    BY <1>0, ItemFacts DEF WInv
  <2>5. ToSet(s) \subseteq Shown
    <3>1. \A k \in Kind("tweets") : k # "self" /\ k # "deeper"
      BY DEF Kind
    <3> QED
      BY <2>2, <2>3, <2>4, <3>1 DEF Shown, Other, Live
  <2>6. Holds(s, Wanted, Floor(c), max)
    <3>1. \A i \in Wanted : i \in Live /\ items[i] # "reply" /\ i \in Other({"thread"})
      <4>1. Wanted \subseteq Listed /\ Listed \subseteq Live /\ Live \subseteq DOMAIN items
        BY ItemFacts DEF WInv
      <4> QED
        BY <4>1 DEF Wanted, Other
    <3> QED
      BY <2>2, <2>3, <3>1 DEF Holds
  <2>7. Fully' => Fully
    BY <1>0, <1>1 DEF Fully, serverVars
  <2>8. UNCHANGED <<route, server, items, gone, changes, at, base, lost, pages>> /\ pc # "idle"
        /\ after' = after /\ acc' = acc
    BY <1>0 DEF serverVars, poolVars
  <2>9. Answer(s, c)
    BY <1>1
  <2> QED
    BY <1>0, <2>2, <2>3, <2>5, <2>6, <2>7, <2>8, <2>9, AnswerKeeps DEF max
<1>2. CASE at = NoCursor /\ pc' = "actor" /\ UNCHANGED <<clientVars, cut>>
  <2>1. ~Reading' /\ ControlInv'
    BY <1>0, <1>2 DEF WInv, ControlInv, Reading, serverVars, poolVars, clientVars
  <2> QED
    BY <1>0, <1>2, <2>1, MoveKeeps DEF serverVars, poolVars, clientVars
<1>3. CASE Answer(<< >>, NoCursor) /\ cut' = TRUE
  BY <1>0, <1>3, EmptyKeeps DEF Fully, serverVars, poolVars
<1> QED
  BY <1>1, <1>2, <1>3 DEF RestPage

(* The actor and its collections are looked up. *)
LEMMA ActorKeeps == ASSUME WInv, Actor PROVE WInv'
<1>0. pc = "actor" /\ UNCHANGED <<serverVars, at, poolVars, walks, base, cut, lost>>
  BY DEF Actor
<1>1. CASE server = "hidden" /\ Answer(<< >>, NoCursor)
  BY <1>0, <1>1, EmptyKeeps DEF Fully, serverVars, poolVars
<1>2. CASE pc' \in {"collection", "idle"} /\ UNCHANGED clientVars
  <2>1. ~Reading' /\ ControlInv'
    BY <1>0, <1>2 DEF WInv, ControlInv, Reading, serverVars, poolVars, clientVars
  <2> QED
    BY <1>0, <1>2, <2>1, MoveKeeps DEF serverVars, poolVars, clientVars
<1> QED
  BY <1>1, <1>2 DEF Actor, Error

(* apTweets reads the outbox, ... *)
LEMMA OutboxKeeps == ASSUME WInv, Outbox PROVE WInv'
<1>1. /\ pc = "collection" /\ route = "tweets" /\ pc' \in {"page", "idle"}
      /\ UNCHANGED <<serverVars, at, poolVars, clientVars, walks, base, cut, lost>>
  BY DEF Outbox, Error
<1>2. ~Reading' /\ ControlInv'
  BY <1>1 DEF WInv, ControlInv, Reading, serverVars, poolVars, clientVars
<1> QED
  BY <1>1, <1>2, MoveKeeps DEF serverVars, poolVars, clientVars

(* A page of a follow list, without the gateway's own actors. *)
LEMMA FollowsKeep ==
    ASSUME WInv, pc # "idle", route = "follows",
           Answer(dropSelfHandles(apPage(Below(at))), apNext(Below(at))),
           UNCHANGED <<serverVars, at, poolVars, base, cut, lost>>
    PROVE  WInv'
<1> DEFINE max == Below(at)
           p == apPage(max)
           s == dropSelfHandles(p)
           c == apNext(max)
<1>0. Answer(s, c)
  OBVIOUS
<1>1. max \in Nat
  BY CursorFacts DEF WInv, WalkTypeOK
<1> HIDE DEF max
<1>2. /\ c \in Cursor \cup {NoCursor}
      /\ c # NoCursor => c.api = "ap"
      /\ Floor(c) \in Nat /\ Floor(c) <= max
      /\ Stretch(p, Floor(c), max) /\ Holds(p, Listed, Floor(c), max)
      /\ ToSet(p) \subseteq Listed
  BY <1>1, CollectionPage DEF WInv
<1> HIDE DEF p, c
<1>3. Stretch(s, Floor(c), max) /\ ToSet(s) = ToSet(p) \cap Other({"self"})
  BY <1>1, <1>2, StretchKept DEF dropSelfHandles
<1> HIDE DEF s
<1>4. \A i \in DOMAIN items : items[i] \in Kind("follows")
  BY ItemFacts DEF WInv
<1>5. ToSet(s) \subseteq Shown
  <2>1. \A k \in Kind("follows") : k \notin {"thread", "reply", "deeper"}
    BY DEF Kind
  <2>2. Listed \subseteq DOMAIN items
    BY ItemFacts DEF WInv
  <2> QED
    BY <1>2, <1>3, <1>4, <2>1, <2>2 DEF Shown, Other
<1>6. Holds(s, Wanted, Floor(c), max)
  <2>1. Wanted \subseteq Listed /\ Listed \subseteq DOMAIN items
    BY ItemFacts DEF WInv
  <2>2. \A i \in Wanted : i \in Listed /\ i \in Other({"self"})
    BY <2>1 DEF Wanted, Other
  <2> QED
    BY <1>2, <1>3, <2>2 DEF Holds
<1>7. /\ UNCHANGED <<route, server, items, gone, changes, at, base, lost, pages>>
      /\ after' = after /\ acc' = acc /\ (Fully' => Fully)
  BY DEF serverVars, poolVars, Fully
<1>8. "ap" # "rest" /\ "follows" # "replies"
  OBVIOUS
<1> QED
  BY <1>0, <1>2, <1>3, <1>5, <1>6, <1>7, <1>8, AnswerKeeps DEF max

(* followList: the collection and its pages. *)
LEMMA FollowCollectionKeeps == ASSUME WInv, FollowCollection PROVE WInv'
<1>0. /\ pc = "collection" /\ route = "follows"
      /\ UNCHANGED <<serverVars, at, poolVars, walks, base, lost>>
      /\ at = NoCursor
  BY DEF FollowCollection, WInv, ControlInv
<1>1. CASE pc' = "page" /\ UNCHANGED <<clientVars, faults, cut>>
  <2>1. ~Reading' /\ ControlInv'
    BY <1>0, <1>1 DEF WInv, ControlInv, Reading, serverVars, poolVars, clientVars
  <2> QED
    BY <1>0, <1>1, <2>1, MoveKeeps DEF serverVars, poolVars, clientVars
<1>2. CASE Answer(dropSelfHandles(apPage(Newest)), apNext(Newest)) /\ UNCHANGED <<faults, cut>>
  <2>1. Below(at) = Newest
    BY <1>0, CursorFacts
  <2> QED
    BY <1>0, <1>2, <2>1, FollowsKeep
<1>3. CASE Answer(<< >>, NoCursor) /\ cut' = TRUE
  BY <1>0, <1>3, EmptyKeeps DEF Fully, serverVars, poolVars
<1> QED
  BY <1>1, <1>2, <1>3 DEF FollowCollection

LEMMA FollowPageKeeps == ASSUME WInv, FollowPage PROVE WInv'
<1>0. /\ pc = "page" /\ route = "follows"
      /\ UNCHANGED <<serverVars, at, poolVars, walks, base, lost>>
  BY DEF FollowPage
<1>1. CASE /\ Answer(dropSelfHandles(apPage(Below(at))), apNext(Below(at)))
           /\ UNCHANGED <<faults, cut>>
  BY <1>0, <1>1, FollowsKeep
<1>2. CASE Answer(<< >>, NoCursor) /\ cut' = TRUE
  BY <1>0, <1>2, EmptyKeeps DEF Fully, serverVars, poolVars
<1> QED
  BY <1>1, <1>2 DEF FollowPage

(* apReplies reads the note, ... *)
LEMMA NoteKeeps == ASSUME WInv, Note PROVE WInv'
<1>0. pc = "note" /\ UNCHANGED <<serverVars, at, poolVars, walks, base, cut, lost>>
  BY DEF Note
<1>1. CASE server = "hidden" /\ Answer(<< >>, NoCursor)
  BY <1>0, <1>1, EmptyKeeps DEF Fully, serverVars, poolVars
<1>2. CASE pc' \in {"collection", "idle"} /\ UNCHANGED clientVars
  <2>1. ~Reading' /\ ControlInv'
    BY <1>0, <1>2 DEF WInv, ControlInv, Reading, serverVars, poolVars, clientVars
  <2> QED
    BY <1>0, <1>2, <2>1, MoveKeeps DEF serverVars, poolVars, clientVars
<1> QED
  BY <1>1, <1>2 DEF Note, Error

(* The thread over REST: a full answer, or every answer to the note. *)
LEMMA ContextKeeps == ASSUME WInv, Context PROVE WInv'
<1>0. /\ pc = "context" /\ UNCHANGED <<serverVars, at, poolVars, walks, base, cut, lost>>
      /\ route = "replies" /\ at = NoCursor
  BY DEF Context, WInv, ControlInv
<1>1. CASE Answer(contextReplies, NoCursor)
  <2> DEFINE d == Kept(descendants, Other({"deeper"}))
             s == contextReplies
  <2>1. /\ Newest \in Nat /\ 0 \in Nat /\ Floor(NoCursor) = 0 /\ Below(at) = Newest
        /\ MaxReplies \in Nat
    BY <1>0, CursorFacts, NewestType, TimelineAssumption
  <2>2. Stretch(descendants, 0, Newest) /\ ToSet(descendants) = Live
    <3>1. Live \in SUBSET (1..(Newest - 1))
      BY ItemFacts, Zenon DEF WInv
    <3> QED
      BY <3>1, DescendingFacts DEF descendants
  <2>3. Stretch(d, 0, Newest) /\ ToSet(d) = Live \cap Other({"deeper"})
    BY <2>1, <2>2, StretchKept
  <2> HIDE DEF d
  <2>4. /\ Stretch(s, 0, Newest) /\ ToSet(s) \subseteq ToSet(d) /\ Len(s) <= MaxReplies
        /\ Len(s) = MaxReplies \/ ToSet(s) = ToSet(d)
    BY <2>1, <2>3, StretchUpto DEF contextReplies, d
  <2>5. Answer(s, NoCursor)
    BY <1>1
  <2> HIDE DEF s
  <2>6. ToSet(s) \subseteq Shown
    <3>1. \A i \in DOMAIN items : items[i] \in Kind("replies")
      BY <1>0, ItemFacts DEF WInv
    <3>2. \A k \in Kind("replies") : k \notin {"thread", "reply", "self"}
      BY DEF Kind
    <3> QED
      BY <2>3, <2>4, <3>1, <3>2 DEF Shown, Other, Live
  <2>7. Holds(s, Wanted, 0, Newest) \/ Enough(s)
    <3>1. CASE Len(s) = MaxReplies
      <4>1. Cardinality(ToSet(s)) = MaxReplies
        BY <2>1, <2>4, <3>1, StretchCount
      <4>2. ToSet(s) \cup lost \subseteq 1..Len(items) /\ Len(items) \in Nat
        BY <2>6, ItemFacts DEF WInv, WalkTypeOK, Shown
      <4>3. Cardinality(ToSet(s)) <= Cardinality(ToSet(s) \cup lost)
        BY <4>2, CountGrows, ToSet(s) \subseteq ToSet(s) \cup lost
      <4> QED
        BY <1>0, <4>1, <4>3 DEF Enough
    <3>2. CASE ToSet(s) = ToSet(d)
      <4>1. Wanted \subseteq Listed /\ Listed \subseteq Live /\ Live \subseteq DOMAIN items
        BY ItemFacts DEF WInv
      <4>2. \A i \in Wanted : i \in Live /\ i \in Other({"deeper"})
        BY <4>1 DEF Listed, Other
      <4> QED
        BY <2>3, <3>2, <4>2 DEF Holds
    <3> QED
      BY <2>4, <3>1, <3>2
  <2>8. /\ UNCHANGED <<route, server, items, gone, changes, at, base, lost, pages>>
        /\ after' = after /\ acc' = acc /\ (Fully' => Fully)
    BY <1>0 DEF serverVars, poolVars, Fully
  <2> QED
    BY <1>0, <2>1, <2>4, <2>5, <2>6, <2>7, <2>8, AnswerKeeps
<1>2. CASE pc' = "note" /\ UNCHANGED clientVars
  <2>1. ~Reading' /\ ControlInv'
    BY <1>0, <1>2 DEF WInv, ControlInv, Reading, serverVars, poolVars, clientVars
  <2> QED
    BY <1>0, <1>2, <2>1, MoveKeeps DEF serverVars, poolVars, clientVars
<1> QED
  BY <1>1, <1>2 DEF Context

(* The handler hands a page to the pool. *)
LEMMA PoolKeeps ==
    ASSUME WInv, pc # "idle", route # "follows",
           NEW a \in Seq(Nat), NEW s \in Seq(Nat), NEW c \in Cursor \cup {NoCursor},
           Pool(s, c), acc' = a, route # "replies" => a = << >>,
           UNCHANGED <<route, server, items, gone, changes, at, cursor, got, ended, pages, base,
                       cut, lost>>,
           c # NoCursor => c.api = "ap" /\ c.max <= Below(at),
           Stretch(a \o s, Floor(c), Below(at)),
           ToSet(a \o s) \subseteq Listable,
           route = "replies" => Len(a \o s) <= MaxReplies,
           Fully => Enough(a \o s) \/ Holds(a \o s, Wanted, Floor(c), Below(at))
    PROVE  WInv'
<1>1. /\ pc' = "resolve" /\ page' = s /\ after' = c /\ claimed' = 0 /\ running' = {}
      /\ out' = [i \in 1..Len(s) |-> 0]
  BY DEF Pool
<1>2. WalkTypeOK'
  BY <1>1 DEF WInv, WalkTypeOK
<1>3. ControlInv'
  BY <1>1 DEF WInv, ControlInv
<1>4. PoolInv'
  <2>1. Len(s) \in Nat
    OBVIOUS
  <2> DEFINE l == Len(s)
             o == [i \in 1..l |-> 0]
  <2>2. o \in [1..l -> Nat] /\ \A n \in 1..l : o[n] = 0
    OBVIOUS
  <2>3. out' = o
    BY <1>1
  <2> HIDE DEF l, o
  <2>4. o \in Seq(Nat) /\ Len(o) = l
    BY <2>1, <2>2 DEF l
  <2> QED
    BY <1>1, <2>1, <2>2, <2>3, <2>4 DEF PoolInv, l
<1>5. InHand' = a \o s /\ Reading' /\ Listable' = Listable /\ Floor(after)' = Floor(c)
      /\ Below(at)' = Below(at) /\ Wanted' = Wanted /\ Fully' = Fully
  BY <1>1 DEF InHand, Reading, Listable, Floor, Below, Wanted, Fully, Newest
<1> DEFINE u == a \o s
<1>6. InHand' = u /\ ToSet(u) \subseteq Listable /\ Stretch(u, Floor(c), Below(at))
      /\ (route = "replies" => Len(u) <= MaxReplies)
      /\ (Fully => Enough(u) \/ Holds(u, Wanted, Floor(c), Below(at)))
  BY <1>5
<1> HIDE DEF u
<1>7. HandInv'
  <2>1. Stretch(InHand', Floor(c), Below(at)) /\ ToSet(InHand') \subseteq Listable
        /\ (route = "replies" => Len(InHand') <= MaxReplies)
    BY <1>6
  <2>2. Stretch(InHand, Floor(after), Below(at))'
    BY <1>5, <2>1 DEF Stretch
  <2>3. (ToSet(InHand) \subseteq Listable)'
    BY <1>5, <2>1 DEF ToSet
  <2> QED
    BY <1>1, <1>5, <2>1, <2>2, <2>3 DEF HandInv
<1>8. HandComplete'
  <2>1. Enough(u) => Enough(InHand)'
    BY <1>6 DEF Enough, ToSet
  <2>2. Holds(u, Wanted, Floor(c), Below(at)) => Holds(InHand, Wanted, Floor(after), Below(at))'
    BY <1>5, <1>6 DEF Holds, ToSet
  <2> QED
    BY <1>5, <1>6, <2>1, <2>2 DEF HandComplete
<1>9. GotInv'
  BY DEF WInv, GotInv, Stretch, Reached, Newest, Below, Shown
<1>10. GotComplete'
  <2>1. /\ Wanted' = Wanted /\ Newest' = Newest /\ Reached' = Reached /\ Fully' = Fully
        /\ ToSet(got)' = ToSet(got) /\ Enough(got)' = Enough(got)
    BY DEF Wanted, Newest, Reached, Below, Fully, Enough, ToSet
  <2> QED
    BY <2>1 DEF WInv, GotComplete, Holds
<1> QED
  BY <1>2, <1>3, <1>4, <1>7, <1>8, <1>9, <1>10 DEF WInv

(* ... and hands a page of it to the pool. *)
LEMMA OutboxPageKeeps == ASSUME WInv, OutboxPage PROVE WInv'
<1>0. /\ pc = "page" /\ route = "tweets"
      /\ UNCHANGED <<serverVars, at, acc, pages, walks, base, cut, lost>>
  BY DEF OutboxPage
<1>1. CASE Pool(apPage(Below(at)), apNext(Below(at))) /\ UNCHANGED <<clientVars, faults>>
  <2> DEFINE max == Below(at)
             p == apPage(max)
             c == apNext(max)
  <2>0. Pool(p, c)
    BY <1>1
  <2>1. max \in Nat
    BY CursorFacts DEF WInv, WalkTypeOK
  <2> HIDE DEF max
  <2>2. /\ c \in Cursor \cup {NoCursor}
        /\ c # NoCursor => c.api = "ap"
        /\ Floor(c) \in Nat /\ Floor(c) <= max
        /\ Stretch(p, Floor(c), max) /\ Holds(p, Listed, Floor(c), max)
        /\ ToSet(p) \subseteq Listed
    BY <2>1, CollectionPage DEF WInv
  <2> HIDE DEF p, c
  <2>3. p \in Seq(Nat) /\ << >> \in Seq(Nat) /\ << >> \o p = p
    BY <2>2 DEF Stretch
  <2>4. c # NoCursor => c.max <= max
    BY <2>2, CursorFacts
  <2>5. Wanted \subseteq Listed /\ Listed \subseteq Listable
    BY ItemFacts DEF WInv, Listed, Listable, Live
  <2>6. ToSet(p) \subseteq Listable /\ Holds(p, Wanted, Floor(c), max)
    BY <2>2, <2>5 DEF Holds
  <2>7. acc = << >>
    BY <1>0 DEF WInv, ControlInv
  <2>8. /\ acc' = << >> /\ pc # "idle" /\ route # "follows" /\ route # "replies"
        /\ UNCHANGED <<route, server, items, gone, changes, at, cursor, got, ended, pages, base,
                       cut, lost>>
    BY <1>0, <1>1, <2>7 DEF serverVars, clientVars
  <2> QED
    BY <2>0, <2>2, <2>3, <2>4, <2>6, <2>8, PoolKeeps DEF max
<1>2. CASE Error /\ UNCHANGED <<page, after, claimed, running, out>>
  <2>1. ~Reading' /\ ControlInv' /\ pc' = "idle"
    BY <1>0, <1>2 DEF WInv, ControlInv, Reading, Error, serverVars, clientVars
  <2> QED
    BY <1>0, <1>2, <2>1, MoveKeeps DEF Error, serverVars, clientVars
<1> QED
  BY <1>1, <1>2 DEF OutboxPage

(* A page of replies is read behind those in hand; what is cut off to the  *)
(* room left is missing only when the answer is full.                      *)
LEMMA OpenKeeps ==
    ASSUME WInv, pc # "idle", route = "replies", NEW max \in Nat, max <= Below(at), NEW a,
           acc' = a, OpenReplies(max, a),
           Stretch(a, max, Below(at)), ToSet(a) \subseteq Listable, Len(a) <= MaxReplies,
           Fully => Enough(a) \/ Holds(a, Wanted, max, Below(at)),
           UNCHANGED <<route, server, items, gone, changes, at, cursor, got, ended, pages, base,
                       cut, lost>>
    PROVE  WInv'
<1> DEFINE p == apPage(max)
           c == apNext(max)
           room == MaxReplies - Len(a)
           s == Upto(p, room)
           u == a \o s
<1>0. Pool(s, c)
  BY DEF OpenReplies
<1>1. /\ c \in Cursor \cup {NoCursor}
      /\ c # NoCursor => c.api = "ap"
      /\ Floor(c) \in Nat /\ Floor(c) <= max
      /\ Stretch(p, Floor(c), max) /\ Holds(p, Listed, Floor(c), max)
      /\ ToSet(p) \subseteq Listed
  BY CollectionPage DEF WInv
<1>2. /\ a \in Seq(Nat) /\ Len(a) \in Nat /\ room \in Nat /\ MaxReplies \in Nat
      /\ Below(at) \in Nat
  <2>1. a \in Seq(Nat) /\ Len(a) \in Nat /\ MaxReplies \in Nat
    BY TimelineAssumption DEF Stretch
  <2>2. Below(at) \in Nat
    BY CursorFacts DEF WInv, WalkTypeOK
  <2> QED
    BY <2>1, <2>2
<1> HIDE DEF p, c
<1>3. /\ Stretch(s, Floor(c), max) /\ ToSet(s) \subseteq ToSet(p) /\ Len(s) <= room
      /\ Len(s) = room \/ ToSet(s) = ToSet(p)
  <2> HIDE DEF room
  <2> QED
    BY <1>1, <1>2, StretchUpto
<1> HIDE DEF s
<1>4. s \in Seq(Nat) /\ Len(s) \in Nat
  BY <1>3 DEF Stretch
<1>5. Stretch(u, Floor(c), Below(at))
  BY <1>1, <1>2, <1>3, StretchConcat
<1>6. Len(u) = Len(a) + Len(s) /\ ToSet(u) = ToSet(a) \cup ToSet(s)
  BY <1>2, <1>4, ConcatFacts
<1>7. Len(u) <= MaxReplies /\ (Len(s) = room => Len(u) = MaxReplies)
  BY <1>2, <1>3, <1>4, <1>6
<1>8. Wanted \subseteq Listed /\ Listed \subseteq Listable
  BY ItemFacts DEF WInv, Listed, Listable, Live
<1>9. ToSet(u) \subseteq Listable
  BY <1>1, <1>3, <1>6, <1>8
<1>10. ToSet(u) \cup lost \subseteq 1..Len(items) /\ Len(items) \in Nat
  BY <1>9, ItemFacts DEF WInv, WalkTypeOK, Listable
<1> HIDE DEF u
<1>11. Enough(a) => Enough(u)
  <2>1. ToSet(a) \cup lost \subseteq ToSet(u) \cup lost
    BY <1>6
  <2>2. /\ Cardinality(ToSet(a) \cup lost) <= Cardinality(ToSet(u) \cup lost)
        /\ Cardinality(ToSet(a) \cup lost) \in Nat /\ Cardinality(ToSet(u) \cup lost) \in Nat
    BY <1>10, <2>1, CountGrows
  <2> QED
    BY <1>2, <2>2 DEF Enough
<1>12. Len(s) = room => Enough(u)
  <2>1. SUFFICES ASSUME Len(s) = room PROVE Enough(u)
    OBVIOUS
  <2>2. Cardinality(ToSet(u)) = MaxReplies
    BY <1>1, <1>2, <1>5, <1>7, <2>1, StretchCount
  <2>3. ToSet(u) \subseteq ToSet(u) \cup lost
    OBVIOUS
  <2>4. Cardinality(ToSet(u)) <= Cardinality(ToSet(u) \cup lost)
    BY <1>10, <2>3, CountGrows
  <2> QED
    BY <2>2, <2>4 DEF Enough
<1>13. ASSUME Holds(a, Wanted, max, Below(at)), ToSet(s) = ToSet(p)
       PROVE  Holds(u, Wanted, Floor(c), Below(at))
  <2>1. SUFFICES ASSUME NEW i \in Wanted, Floor(c) <= i, i < Below(at) PROVE i \in ToSet(u)
    BY DEF Holds
  <2>2. i \in Nat
    BY ItemFacts DEF WInv
  <2>3. CASE i < max
    BY <1>1, <1>6, <1>8, <1>13, <2>1, <2>3 DEF Holds
  <2>4. CASE max <= i
    BY <1>6, <1>13, <2>1, <2>4 DEF Holds
  <2> QED
    BY <2>2, <2>3, <2>4
<1>14. Fully => Enough(u) \/ Holds(u, Wanted, Floor(c), Below(at))
  BY <1>3, <1>11, <1>12, <1>13
<1>15. c # NoCursor => c.max <= Below(at)
  <2>1. SUFFICES ASSUME c # NoCursor PROVE c.max <= Below(at)
    OBVIOUS
  <2>2. Floor(c) = c.max
    BY <1>1, <2>1, CursorFacts
  <2> QED
    BY <1>1, <1>2, <2>2
<1> QED
  BY <1>0, <1>1, <1>2, <1>4, <1>5, <1>7, <1>9, <1>14, <1>15, PoolKeeps DEF u

(* ... its replies collection, ... *)
LEMMA RepliesCollectionKeeps == ASSUME WInv, RepliesCollection PROVE WInv'
<1>0. /\ pc = "collection" /\ route = "replies" /\ acc' = << >>
      /\ UNCHANGED <<serverVars, at, pages, walks, base, lost>>
      /\ at = NoCursor
  BY DEF RepliesCollection, WInv, ControlInv
<1>1. /\ Below(at) = Newest /\ Newest \in Nat /\ MaxReplies \in Nat
      /\ pageURL(Newest) \in Cursor /\ pageURL(Newest) # NoCursor
      /\ pageURL(Newest).max = Newest /\ pageURL(Newest).api = "ap"
  BY <1>0, CursorFacts, NewestType, TimelineAssumption
<1>2. /\ Stretch(<< >>, Newest, Newest) /\ ToSet(<< >>) \subseteq Listable
      /\ Len(<< >>) <= MaxReplies
  BY <1>1 DEF Stretch, ToSet
<1>3. Holds(<< >>, Wanted, Newest, Newest)
  <2>1. \A i \in Wanted : i \in Nat
    BY ItemFacts DEF WInv
  <2> QED
    BY <1>1, <2>1 DEF Holds
<1>4. CASE /\ pc' = "page" /\ after' = pageURL(Newest)
           /\ UNCHANGED <<page, claimed, running, out, clientVars, faults, cut>>
  <2>1. WalkTypeOK' /\ ControlInv' /\ PoolInv'
    BY <1>0, <1>1, <1>4
       DEF WInv, WalkTypeOK, ControlInv, PoolInv, serverVars, clientVars
  <2>2. /\ InHand' = << >> /\ Floor(after)' = Newest /\ Below(at)' = Newest /\ Newest' = Newest
        /\ Listable' = Listable /\ Wanted' = Wanted
    BY <1>0, <1>1, <1>4 DEF InHand, Floor, Below, Newest, Listable, Wanted, serverVars
  <2>3. HandInv'
    <3>1. Stretch(InHand, Floor(after), Below(at))' /\ (ToSet(InHand) \subseteq Listable)'
      BY <1>2, <2>2 DEF Stretch, ToSet
    <3>2. acc' \in Seq(Nat) /\ Len(InHand') <= MaxReplies
      BY <1>0, <1>2, <2>2
    <3>3. after'.api = "ap" /\ after'.max = Newest /\ pc' # "resolve"
      BY <1>1, <1>4
    <3> QED
      BY <1>1, <2>2, <3>1, <3>2, <3>3 DEF HandInv
  <2>4. HandComplete'
    <3>1. Holds(InHand, Wanted, Floor(after), Below(at))'
      BY <1>3, <2>2 DEF Holds, ToSet
    <3> QED
      BY <3>1 DEF HandComplete
  <2>5. GotInv'
    BY <1>0, <1>4 DEF WInv, GotInv, Stretch, Reached, Newest, Below, Shown, serverVars, clientVars
  <2>6. GotComplete'
    <3>1. /\ Reached' = Reached /\ Fully' = Fully /\ ended' = ended
          /\ ToSet(got)' = ToSet(got) /\ Enough(got)' = Enough(got) /\ pages' = pages
          /\ route' = route
      BY <1>0, <1>4, <2>2 DEF Reached, Below, Fully, Enough, ToSet, serverVars, clientVars
    <3> QED
      BY <2>2, <3>1 DEF WInv, GotComplete, Holds
  <2> QED
    BY <2>1, <2>3, <2>4, <2>5, <2>6 DEF WInv
<1>5. CASE OpenReplies(Newest, << >>) /\ UNCHANGED <<clientVars, faults, cut>>
  <2>1. /\ pc # "idle" /\ Newest <= Below(at)
        /\ Stretch(<< >>, Newest, Below(at)) /\ Holds(<< >>, Wanted, Newest, Below(at))
        /\ UNCHANGED <<route, server, items, gone, changes, at, cursor, got, ended, pages, base,
                       cut, lost>>
    BY <1>0, <1>1, <1>2, <1>3, <1>5 DEF serverVars, clientVars
  <2> QED
    BY <1>0, <1>1, <1>2, <1>5, <2>1, OpenKeeps
<1>6. CASE /\ Answer(<< >>, NoCursor) /\ cut' = TRUE
           /\ UNCHANGED <<page, after, claimed, running, out>>
  BY <1>0, <1>6, EmptyKeeps DEF Fully, serverVars
<1> QED
  BY <1>4, <1>5, <1>6 DEF RepliesCollection

(* ... and its pages, as long as there is room. *)
LEMMA ReplyPageKeeps == ASSUME WInv, ReplyPage PROVE WInv'
<1>0. /\ pc = "page" /\ route = "replies" /\ UNCHANGED <<serverVars, at, pages, walks, base, lost>>
      /\ at = NoCursor /\ pc # "idle"
  BY DEF ReplyPage, WInv, ControlInv
<1>1. Below(at) = Newest /\ Newest \in Nat /\ MaxReplies \in Nat /\ Floor(NoCursor) = 0
  BY <1>0, CursorFacts, NewestType, TimelineAssumption
<1>2. /\ Stretch(acc, Floor(after), Newest) /\ ToSet(acc) \subseteq Listable
      /\ Len(acc) <= MaxReplies
      /\ after # NoCursor => after.max <= Newest
      /\ Fully => Enough(acc) \/ Holds(acc, Wanted, Floor(after), Newest)
  <2>1. Reading /\ InHand = acc
    BY <1>0 DEF Reading, InHand
  <2> QED
    BY <1>0, <1>1, <2>1 DEF WInv, HandInv, HandComplete
<1>3. Floor(after) \in Nat /\ (after # NoCursor => Floor(after) = after.max)
  BY CursorFacts DEF WInv, WalkTypeOK
<1>4. ToSet(acc) \subseteq Shown
  <2>1. \A i \in DOMAIN items : items[i] \in Kind("replies")
    BY <1>0, ItemFacts DEF WInv
  <2>2. \A k \in Kind("replies") : k \notin {"thread", "reply", "self"}
    BY DEF Kind
  <2> QED
    BY <1>2, <2>1, <2>2 DEF Shown, Listable
<1>5. Stretch(acc, 0, Newest)
  BY <1>2, <1>3 DEF Stretch
<1>6. ASSUME Answer(acc, NoCursor), acc' = << >>, after' = NoCursor,
             Fully' => /\ Fully
                       /\ Holds(acc, Wanted, 0, Newest) \/ Enough(acc) \/ pages = MaxPages
      PROVE  WInv'
  <2>1. /\ UNCHANGED <<route, server, items, gone, changes, at, base, lost, pages>>
        /\ 0 <= Newest /\ NoCursor \in Cursor \cup {NoCursor}
    BY <1>0, <1>1 DEF serverVars
  <2> QED
    BY <1>0, <1>1, <1>2, <1>4, <1>5, <1>6, <2>1, AnswerKeeps
<1>7. CASE pages = MaxPages \/ Len(acc) >= MaxReplies \/ after = NoCursor
  <2>1. /\ Answer(acc, NoCursor) /\ acc' = << >> /\ after' = NoCursor
        /\ UNCHANGED <<page, claimed, running, out, faults, cut>>
    BY <1>7 DEF ReplyPage
  <2>2. Fully' => Fully
    BY <1>0, <2>1 DEF Fully, serverVars
  <2>3. CASE pages = MaxPages
    BY <1>6, <2>1, <2>2, <2>3
  <2>4. CASE Len(acc) >= MaxReplies
    <3>1. Cardinality(ToSet(acc)) = Len(acc) /\ Len(acc) \in Nat
      BY <1>1, <1>5, StretchCount DEF Stretch
    <3>2. ToSet(acc) \cup lost \subseteq 1..Len(items) /\ Len(items) \in Nat
      BY <1>2, ItemFacts DEF WInv, WalkTypeOK, Listable
    <3>3. ToSet(acc) \subseteq ToSet(acc) \cup lost
      OBVIOUS
    <3>4. /\ Cardinality(ToSet(acc)) <= Cardinality(ToSet(acc) \cup lost)
          /\ Cardinality(ToSet(acc) \cup lost) \in Nat
      BY <3>2, <3>3, CountGrows
    <3>5. Enough(acc)
      BY <1>0, <1>1, <2>4, <3>1, <3>4 DEF Enough
    <3> QED
      BY <1>6, <2>1, <2>2, <3>5
  <2>5. CASE after = NoCursor
    BY <1>1, <1>2, <1>6, <2>1, <2>2, <2>5
  <2> QED
    BY <1>7, <2>3, <2>4, <2>5
<1>8. CASE ~(pages = MaxPages \/ Len(acc) >= MaxReplies \/ after = NoCursor)
  <2>1. CASE OpenReplies(after.max, acc) /\ UNCHANGED <<acc, clientVars, faults, cut>>
    <3>1. /\ after.max \in Nat /\ after.max <= Below(at) /\ Stretch(acc, after.max, Below(at))
          /\ Fully => Enough(acc) \/ Holds(acc, Wanted, after.max, Below(at))
      BY <1>1, <1>2, <1>3, <1>8
    <3>2. UNCHANGED <<route, server, items, gone, changes, at, cursor, got, ended, pages, base,
                      cut, lost>> /\ acc' = acc
      BY <1>0, <2>1 DEF serverVars, clientVars
    <3> QED
      BY <1>0, <1>2, <2>1, <3>1, <3>2, OpenKeeps
  <2>2. CASE Answer(acc, NoCursor) /\ cut' = TRUE /\ acc' = << >> /\ after' = NoCursor
    BY <1>6, <2>2 DEF Fully
  <2> QED
    BY <1>8, <2>1, <2>2 DEF ReplyPage
<1> QED
  BY <1>7, <1>8

(* While the pool works, only its slots and what is lost change. *)
LEMMA WorkKeeps ==
    ASSUME WInv, pc = "resolve", PoolInv', lost \subseteq lost', lost' \subseteq DOMAIN items,
           UNCHANGED <<route, server, items, gone, changes, pc, at, page, after, acc, pages,
                       cursor, got, ended, base, cut>>
    PROVE  WInv'
<1>1. WalkTypeOK' /\ ControlInv'
  BY DEF WInv, WalkTypeOK, ControlInv
<1>2. /\ InHand' = InHand /\ Reading' = Reading /\ Floor(after)' = Floor(after)
      /\ Below(at)' = Below(at) /\ Newest' = Newest /\ Reached' = Reached
      /\ Listable' = Listable /\ Shown' = Shown /\ Fully' = Fully
  BY DEF InHand, Reading, Floor, Below, Newest, Reached, Listable, Shown, Fully
<1>3. Wanted' \subseteq Wanted
  BY DEF Wanted
<1>4. HandInv'
  BY <1>2 DEF WInv, HandInv, Stretch, ToSet
<1>5. GotInv'
  BY <1>2 DEF WInv, GotInv, Stretch, ToSet
<1>6. HandComplete'
  <2>1. SUFFICES ASSUME Fully'
                 PROVE  Enough(InHand)' \/ Holds(InHand, Wanted, Floor(after), Below(at))'
    BY DEF HandComplete
  <2>2. Reading
    BY DEF Reading
  <2>3. CASE Enough(InHand)
    <3>1. ToSet(InHand) \subseteq Listable
      BY <2>2 DEF WInv, HandInv
    <3>2. /\ ToSet(InHand) \cup lost \subseteq ToSet(InHand) \cup lost'
          /\ ToSet(InHand) \cup lost' \subseteq 1..Len(items)
          /\ Len(items) \in Nat
      BY <3>1, ItemFacts DEF WInv, Listable
    <3>3. /\ Cardinality(ToSet(InHand) \cup lost) <= Cardinality(ToSet(InHand) \cup lost')
          /\ Cardinality(ToSet(InHand) \cup lost) \in Nat
          /\ Cardinality(ToSet(InHand) \cup lost') \in Nat
      BY <3>2, CountGrows
    <3>4. ToSet(InHand)' = ToSet(InHand)
      BY <1>2 DEF ToSet
    <3> QED
      BY <2>3, <3>3, <3>4, TimelineAssumption DEF Enough
  <2>4. CASE Holds(InHand, Wanted, Floor(after), Below(at))
    BY <1>2, <1>3, <2>4 DEF Holds, ToSet
  <2> QED
    BY <1>2, <2>1, <2>2, <2>3, <2>4 DEF WInv, HandComplete
<1>7. GotComplete'
  <2>1. SUFFICES ASSUME Fully' PROVE Holds(got, Wanted, Reached, Newest)'
    BY DEF GotComplete
  <2>2. ~ended
    BY DEF WInv, ControlInv
  <2>3. Holds(got, Wanted, Reached, Newest)
    BY <1>2, <2>1, <2>2 DEF WInv, GotComplete
  <2> QED
    BY <1>2, <1>3, <2>3 DEF Holds, ToSet
<1> QED
  BY <1>1, <1>4, <1>5, <1>6, <1>7 DEF WInv

(* An item is given to a goroutine, ... *)
LEMMA ClaimKeeps == ASSUME WInv, Claim PROVE WInv'
<1>1. /\ pc = "resolve" /\ claimed < Len(page)
      /\ claimed' = claimed + 1 /\ running' = running \cup {claimed + 1}
      /\ UNCHANGED <<serverVars, pc, at, page, after, out, acc, pages, clientVars, walks, faults,
                     base, cut, lost>>
  BY DEF Claim
<1>2. page \in Seq(Nat)
  BY <1>1 DEF WInv, HandInv, Reading
<1>3. PoolInv'
  <2>1. Len(page) \in Nat /\ claimed \in 0..Len(page) /\ running \subseteq 1..claimed
    BY <1>1, <1>2 DEF WInv, PoolInv
  <2>2. \A n \in 1..(claimed + 1) : n \in 1..claimed \/ n = claimed + 1
    BY <2>1
  <2>3. claimed + 1 \in 0..Len(page) /\ running \cup {claimed + 1} \subseteq 1..(claimed + 1)
    BY <1>1, <2>1
  <2> QED
    BY <1>1, <2>2, <2>3 DEF WInv, PoolInv
<1>4. lost \subseteq lost' /\ lost' \subseteq DOMAIN items
  BY <1>1 DEF WInv, WalkTypeOK
<1> QED
  BY <1>1, <1>3, <1>4, WorkKeeps DEF serverVars, clientVars

(* ... which writes its slot or loses the item. *)
LEMMA ResolveKeeps == ASSUME WInv, NEW i \in running, Resolve(i) PROVE WInv'
<1>1. /\ pc = "resolve" /\ running' = running \ {i}
      /\ UNCHANGED <<serverVars, pc, at, page, after, claimed, acc, pages, clientVars, walks,
                     base, cut>>
  BY DEF Resolve, Resolved
<1>2. /\ page \in Seq(Nat) /\ acc \in Seq(Nat) /\ Len(page) \in Nat
      /\ ToSet(acc \o page) \subseteq Listable
  BY <1>1 DEF WInv, HandInv, Reading, InHand
<1>3. /\ out \in Seq(Nat) /\ Len(out) = Len(page)
      /\ \A n \in 1..Len(page) : out[n] \in {0, page[n]}
      /\ claimed \in 0..Len(page) /\ running \subseteq 1..claimed
      /\ \A n \in 1..claimed : n \in running \/ out[n] = page[n] \/ page[n] \in lost
  BY <1>1 DEF WInv, PoolInv
<1>4. i \in 1..claimed /\ i \in 1..Len(page) /\ page[i] \in Nat
  BY <1>2, <1>3
<1>5. CASE out' = [out EXCEPT ![i] = page[i]] /\ UNCHANGED <<faults, lost>>
  <2>1. /\ out' \in Seq(Nat) /\ Len(out') = Len(page)
        /\ \A n \in 1..Len(page) : out'[n] = IF n = i THEN page[i] ELSE out[n]
    BY <1>3, <1>4, <1>5, ExceptSeq
  <2>2. \A n \in 1..claimed : n \in 1..Len(page)
    BY <1>2, <1>3
  <2>3. \A n \in 1..Len(page) : out'[n] \in {0, page[n]}
    BY <1>3, <2>1
  <2>4. \A n \in 1..claimed : n \in running' \/ out'[n] = page[n] \/ page[n] \in lost
    BY <1>1, <1>3, <2>1, <2>2
  <2>5. PoolInv'
    BY <1>1, <1>3, <1>5, <2>1, <2>3, <2>4 DEF PoolInv
  <2>6. lost \subseteq lost' /\ lost' \subseteq DOMAIN items
    BY <1>5 DEF WInv, WalkTypeOK
  <2> QED
    BY <1>1, <2>5, <2>6, WorkKeeps DEF serverVars, clientVars
<1>6. CASE lost' = lost \cup {page[i]} /\ UNCHANGED out
  <2>1. PoolInv'
    BY <1>1, <1>3, <1>6 DEF PoolInv
  <2>2. page[i] \in DOMAIN items
    BY <1>2, <1>4, ConcatFacts, ToSetFacts DEF Listable
  <2>3. lost \subseteq lost' /\ lost' \subseteq DOMAIN items
    BY <1>6, <2>2 DEF WInv, WalkTypeOK
  <2> QED
    BY <1>1, <2>1, <2>3, WorkKeeps DEF serverVars, clientVars
<1> QED
  BY <1>5, <1>6 DEF Resolve, Resolved

(* When the pool is done, the tweets it rendered are the page without what *)
(* is lost, in its order.                                                  *)
LEMMA RenderedFacts ==
    ASSUME WInv, pc = "resolve", claimed = Len(page), running = {}
    PROVE  /\ acc \in Seq(Nat) /\ page \in Seq(Nat)
           /\ Stretch(acc, Floor(after), Below(at))
           /\ Stretch(Rendered, Floor(after), Below(at)) /\ Len(Rendered) <= Len(page)
           /\ ToSet(Rendered) \subseteq ToSet(page)
           /\ \A x \in ToSet(page) : x \in ToSet(Rendered) \/ x \in lost
           /\ \A i \in 1..Len(acc) : \A j \in 1..Len(Rendered) : acc[i] > Rendered[j]
<1> DEFINE lo == Floor(after)
           hi == Below(at)
           S == DOMAIN items
           r == Kept(out, S)
<1>1. /\ page \in Seq(Nat) /\ acc \in Seq(Nat) /\ Len(page) \in Nat
      /\ ToSet(acc \o page) \subseteq Listable /\ Stretch(acc \o page, lo, hi)
  BY DEF WInv, HandInv, Reading, InHand
<1>2. lo \in Nat /\ hi \in Nat
  BY CursorFacts DEF WInv, WalkTypeOK
<1> HIDE DEF lo, hi
<1>3. /\ Stretch(acc, lo, hi) /\ Stretch(page, lo, hi)
      /\ \A i \in 1..Len(acc) : \A j \in 1..Len(page) : acc[i] > page[j]
  BY <1>1, <1>2, StretchParts
<1>4. /\ out \in Seq(Nat) /\ Len(out) = Len(page)
      /\ \A n \in 1..Len(page) : out[n] \in {0, page[n]}
      /\ \A n \in 1..Len(page) : out[n] = page[n] \/ page[n] \in lost
  BY DEF WInv, PoolInv
<1>5. 0 \notin S
  <2>1. S \subseteq 1..(Newest - 1)
    BY ItemFacts DEF WInv
  <2> QED
    BY <2>1, NewestType
<1>6. \A n \in 1..Len(page) : page[n] \in S
  BY <1>1, ConcatFacts, ToSetFacts DEF Listable
<1>7. Rendered = r
  BY DEF Rendered
<1> HIDE DEF S
<1>8. /\ r \in Seq(Nat) /\ Len(r) <= Len(out)
      /\ \A i \in 1..Len(r) : r[i] \in S /\ \E n \in 1..Len(out) : out[n] = r[i]
      /\ \A n \in 1..Len(out) : out[n] \in S => \E i \in 1..Len(r) : r[i] = out[n]
      /\ (\A i, j \in 1..Len(out) : i < j /\ out[i] \in S /\ out[j] \in S => out[i] > out[j])
            => \A i, j \in 1..Len(r) : i < j => r[i] > r[j]
  <2>1. out \in Seq(Nat)
    BY <1>4
  <2>2. Filters(r, out, S)
    BY <2>1, KeptFacts, Zenon
  <2> HIDE DEF r
  <2> QED
    BY <2>2, Zenon DEF Filters
<1> HIDE DEF r
<1>9. \A n \in 1..Len(page) : out[n] \in S => out[n] = page[n]
  BY <1>4, <1>5
<1>10. \A i \in 1..Len(r) : \E n \in 1..Len(page) : page[n] = r[i]
  BY <1>4, <1>8, <1>9
<1>11. \A i, j \in 1..Len(r) : i < j => r[i] > r[j]
  <2>1. \A i, j \in 1..Len(page) : i < j => page[i] > page[j]
    BY <1>3 DEF Stretch
  <2>2. \A i, j \in 1..Len(out) : i < j /\ out[i] \in S /\ out[j] \in S => out[i] > out[j]
    BY <1>4, <1>9, <2>1
  <2> QED
    BY <1>8, <2>2
<1>12. Stretch(r, lo, hi)
  <2>1. \A n \in 1..Len(page) : lo <= page[n] /\ page[n] < hi
    BY <1>3 DEF Stretch
  <2>2. \A i \in 1..Len(r) : lo <= r[i] /\ r[i] < hi
    BY <1>10, <2>1
  <2> QED
    BY <1>8, <1>11, <2>2 DEF Stretch
<1>13. /\ \A x \in ToSet(page) : \E n \in 1..Len(page) : x = page[n]
       /\ \A n \in 1..Len(page) : page[n] \in ToSet(page)
       /\ \A x \in ToSet(r) : \E i \in 1..Len(r) : x = r[i]
       /\ \A i \in 1..Len(r) : r[i] \in ToSet(r)
  BY <1>1, <1>8, ToSetFacts
<1>14. ToSet(r) \subseteq ToSet(page)
  BY <1>10, <1>13
<1>15. ASSUME NEW x \in ToSet(page) PROVE x \in ToSet(r) \/ x \in lost
  <2>1. PICK n \in 1..Len(page) : x = page[n]
    BY <1>13
  <2>2. CASE out[n] = page[n]
    <3>1. PICK i \in 1..Len(r) : r[i] = out[n]
      BY <1>4, <1>6, <1>8, <2>2
    <3> QED
      BY <1>13, <2>1, <2>2, <3>1
  <2> QED
    BY <1>4, <2>1, <2>2
<1>16. \A i \in 1..Len(acc) : \A j \in 1..Len(r) : acc[i] > r[j]
  BY <1>3, <1>10
<1> QED
  BY <1>1, <1>3, <1>4, <1>7, <1>8, <1>12, <1>14, <1>15, <1>16 DEF lo, hi

(* The answer of a timeline's page: without the actor's replies. *)
LEMMA TweetsKeeps == ASSUME WInv, Tweets PROVE WInv'
<1> DEFINE lo == Floor(after)
           hi == Below(at)
           r == Rendered
           K == {"thread", "reply", "boosted reply"}
           s == topLevelOnly(r)
<1>0. /\ pc = "resolve" /\ route = "tweets" /\ claimed = Len(page) /\ running = {}
      /\ Answer(s, after) /\ after' = NoCursor
      /\ UNCHANGED <<serverVars, at, acc, pages, base, cut, lost>>
  BY DEF Tweets
<1>1. /\ acc \in Seq(Nat) /\ page \in Seq(Nat)
      /\ Stretch(r, lo, hi) /\ ToSet(r) \subseteq ToSet(page)
      /\ \A x \in ToSet(page) : x \in ToSet(r) \/ x \in lost
  BY <1>0, RenderedFacts
<1>2. /\ lo \in Nat /\ hi \in Nat /\ after \in Cursor \cup {NoCursor}
      /\ after # NoCursor => lo = after.max
  BY CursorFacts DEF WInv, WalkTypeOK
<1>3. InHand = page
  BY <1>0, <1>1 DEF WInv, ControlInv, InHand
<1>4. /\ ToSet(page) \subseteq Listable /\ (Fully => Holds(page, Wanted, lo, hi))
      /\ after # NoCursor => after.api = "ap" /\ after.max <= hi
  BY <1>0, <1>3 DEF WInv, HandInv, HandComplete, Reading, Enough
<1>5. lo <= hi
  BY <1>2, <1>4, CursorFacts
<1> HIDE DEF r, lo, hi
<1>6. Stretch(s, lo, hi) /\ ToSet(s) = ToSet(r) \cap Other(K)
  <2>1. s = Kept(r, Other(K))
    BY DEF topLevelOnly
  <2> HIDE DEF K, s
  <2> QED
    BY <1>1, <1>2, <2>1, StretchKept
<1> HIDE DEF s
<1>7. ToSet(s) \subseteq Shown
  <2>1. \A i \in DOMAIN items : items[i] \in Kind("tweets")
    BY <1>0, ItemFacts DEF WInv
  <2>2. \A k \in Kind("tweets") : k # "self"
    BY DEF Kind
  <2> QED
    BY <1>1, <1>4, <1>6, <2>1, <2>2 DEF Shown, Listable, Other
<1>8. Fully => Holds(s, Wanted, lo, hi)
  <2>1. \A i \in Wanted : i \notin lost /\ i \in Other(K)
    <3>1. Wanted \subseteq Listed /\ Listed \subseteq Live /\ Live \subseteq DOMAIN items
      BY ItemFacts DEF WInv
    <3> QED
      BY <3>1 DEF Wanted, Other
  <2> QED
    BY <1>1, <1>4, <1>6, <2>1 DEF Holds
<1>9. /\ UNCHANGED <<route, server, items, gone, changes, at, base, lost, pages>>
      /\ acc' = acc /\ (Fully' => Fully) /\ pc # "idle" /\ route # "replies"
  BY <1>0 DEF serverVars, Fully
<1>10. after.api = "rest" => route = "tweets"
  BY <1>0
<1> QED
  BY <1>0, <1>2, <1>5, <1>6, <1>7, <1>8, <1>9, <1>10, AnswerKeeps DEF lo, hi

(* The tweets of a page of replies join those in hand. *)
LEMMA PageReadKeeps == ASSUME WInv, PageRead PROVE WInv'
<1> DEFINE lo == Floor(after)
           hi == Below(at)
           r == Rendered
           u == acc \o r
           v == acc \o page
<1>0. /\ pc = "resolve" /\ route = "replies" /\ claimed = Len(page) /\ running = {}
      /\ acc' = u /\ pc' = "page"
      /\ UNCHANGED <<serverVars, at, after, clientVars, base, cut, lost>>
  BY DEF PageRead
<1>1. /\ acc \in Seq(Nat) /\ page \in Seq(Nat) /\ Stretch(acc, lo, hi)
      /\ Stretch(r, lo, hi) /\ Len(r) <= Len(page) /\ ToSet(r) \subseteq ToSet(page)
      /\ \A x \in ToSet(page) : x \in ToSet(r) \/ x \in lost
      /\ \A i \in 1..Len(acc) : \A j \in 1..Len(r) : acc[i] > r[j]
  BY <1>0, RenderedFacts
<1>2. lo \in Nat /\ hi \in Nat /\ r \in Seq(Nat)
  BY <1>1, CursorFacts DEF WInv, WalkTypeOK, Stretch
<1>3. /\ Stretch(v, lo, hi) /\ ToSet(v) \subseteq Listable /\ Len(v) <= MaxReplies
      /\ Fully => Enough(v) \/ Holds(v, Wanted, lo, hi)
      /\ after # NoCursor => after.api = "ap" /\ after.max <= hi
  BY <1>0 DEF WInv, HandInv, HandComplete, Reading, InHand
<1> HIDE DEF r, lo, hi
<1>4. Stretch(u, lo, hi)
  BY <1>1, <1>2, StretchJoin
<1>5. /\ u \in Seq(Nat) /\ Len(u) = Len(acc) + Len(r) /\ ToSet(u) = ToSet(acc) \cup ToSet(r)
      /\ Len(v) = Len(acc) + Len(page) /\ ToSet(v) = ToSet(acc) \cup ToSet(page)
  BY <1>1, <1>2, ConcatFacts
<1>6. Len(u) <= MaxReplies
  BY <1>1, <1>2, <1>3, <1>5, TimelineAssumption
<1> HIDE DEF u, v
<1>7. ToSet(u) \subseteq Listable
  BY <1>1, <1>3, <1>5
<1>8. Enough(v) => Enough(u)
  <2>1. /\ ToSet(v) \cup lost \subseteq ToSet(u) \cup lost
        /\ ToSet(u) \cup lost \subseteq 1..Len(items) /\ Len(items) \in Nat
    BY <1>1, <1>5, <1>7, ItemFacts DEF WInv, WalkTypeOK, Listable
  <2>2. /\ Cardinality(ToSet(v) \cup lost) <= Cardinality(ToSet(u) \cup lost)
        /\ Cardinality(ToSet(v) \cup lost) \in Nat /\ Cardinality(ToSet(u) \cup lost) \in Nat
    BY <2>1, CountGrows
  <2> QED
    BY <2>2, TimelineAssumption DEF Enough
<1>9. Holds(v, Wanted, lo, hi) => Holds(u, Wanted, lo, hi)
  <2>1. \A i \in Wanted : i \notin lost
    BY DEF Wanted
  <2> QED
    BY <1>1, <1>5, <2>1 DEF Holds
<1>10. /\ InHand' = u /\ Floor(after)' = lo /\ Below(at)' = hi /\ Newest' = Newest
       /\ Listable' = Listable /\ Shown' = Shown /\ Wanted' = Wanted /\ Fully' = Fully
       /\ Reached' = Reached /\ ToSet(got)' = ToSet(got) /\ lost' = lost /\ route' = route
  BY <1>0 DEF InHand, Floor, Below, Newest, Listable, Shown, Wanted, Fully, Reached, ToSet,
     serverVars, clientVars, lo, hi
<1>11. WalkTypeOK' /\ ControlInv' /\ PoolInv'
  BY <1>0 DEF WInv, WalkTypeOK, ControlInv, PoolInv, serverVars, clientVars
<1>12. HandInv'
  <2>1. Stretch(InHand, Floor(after), Below(at))' /\ (ToSet(InHand) \subseteq Listable)'
        /\ Len(InHand') <= MaxReplies
    BY <1>4, <1>6, <1>7, <1>10 DEF Stretch, ToSet
  <2>2. acc' \in Seq(Nat) /\ pc' # "resolve" /\ after' = after
    BY <1>0, <1>5
  <2> QED
    BY <1>3, <1>10, <2>1, <2>2 DEF HandInv
<1>13. HandComplete'
  <2>1. Enough(u) => Enough(InHand)'
    BY <1>10 DEF Enough, ToSet
  <2>2. Holds(u, Wanted, lo, hi) => Holds(InHand, Wanted, Floor(after), Below(at))'
    BY <1>10 DEF Holds, ToSet
  <2> QED
    BY <1>3, <1>8, <1>9, <1>10, <2>1, <2>2 DEF HandComplete
<1>14. GotInv'
  BY <1>0, <1>10 DEF WInv, GotInv, Stretch, clientVars
<1>15. GotComplete'
  <2>1. ~ended /\ ended' = ended
    BY <1>0 DEF WInv, ControlInv, clientVars
  <2>2. Fully => Holds(got, Wanted, Reached, Newest)
    BY <2>1 DEF WInv, GotComplete
  <2>3. Holds(got, Wanted, Reached, Newest) => Holds(got, Wanted, Reached, Newest)'
    BY <1>10 DEF Holds
  <2> QED
    BY <1>10, <2>2, <2>3 DEF GotComplete
<1> QED
  BY <1>11, <1>12, <1>13, <1>14, <1>15 DEF WInv

(* The client asks for the next page, or begins anew. *)
LEMMA AskKeeps == ASSUME WInv, NEW c \in {cursor, NoCursor, OwnCursor}, Ask(c) PROVE WInv'
<1> DEFINE p == pageCursor(c)
<1>0. /\ pc = "idle" /\ at' = p
      /\ \/ c = cursor /\ ~ended
         \/ c \in {NoCursor, OwnCursor}
      /\ pc' = IF p # NoCursor THEN IF p.api = "rest" THEN "rest" ELSE "page"
               ELSE CASE route = "tweets" -> "lookup"
                      [] route = "follows" -> "actor"
                      [] route = "replies" -> "context"
      /\ UNCHANGED <<serverVars, page, after, claimed, running, out, acc>>
  BY DEF Ask
<1>1. CASE p # NoCursor
  <2>1. c = cursor /\ ~ended /\ p = cursor /\ cursor # NoCursor
    BY <1>0, <1>1, CursorFacts DEF WInv, WalkTypeOK
  <2>2. UNCHANGED <<clientVars, pages, base, cut, lost>>
    BY <1>1 DEF Ask
  <2>3. /\ at' = cursor /\ route # "replies"
        /\ pc' = IF cursor.api = "rest" THEN "rest" ELSE "page"
    BY <1>0, <1>1, <2>1 DEF WInv, ControlInv
  <2>4. WalkTypeOK' /\ ControlInv' /\ PoolInv' /\ ~Reading'
    BY <1>0, <2>1, <2>2, <2>3
       DEF WInv, WalkTypeOK, ControlInv, PoolInv, Reading, serverVars, clientVars
  <2>5. HandInv' /\ HandComplete'
    BY <2>4 DEF HandInv, HandComplete
  <2>6. GotInv'
    BY <1>0, <2>2 DEF WInv, GotInv, Stretch, Reached, Newest, Below, Shown, serverVars, clientVars
  <2>7. GotComplete'
    <3>1. /\ Wanted' = Wanted /\ Newest' = Newest /\ Reached' = Reached /\ Fully' = Fully
          /\ ToSet(got)' = ToSet(got) /\ Enough(got)' = Enough(got) /\ ended' = ended
          /\ pages' = pages /\ route' = route
      BY <1>0, <2>2 DEF Wanted, Newest, Reached, Below, Fully, Enough, ToSet, serverVars, clientVars
    <3> QED
      BY <3>1 DEF WInv, GotComplete, Holds
  <2> QED
    BY <2>4, <2>5, <2>6, <2>7 DEF WInv
<1>2. CASE p = NoCursor
  <2>1. /\ pages' = 0 /\ got' = << >> /\ ended' = FALSE /\ cursor' = NoCursor
        /\ base' = Live /\ cut' = FALSE /\ lost' = {}
    BY <1>2 DEF Ask
  <2>2. /\ at' = NoCursor /\ pc' \in {"lookup", "actor", "context"}
        /\ pc' = "lookup" => route = "tweets"
        /\ pc' = "actor" => route # "replies"
        /\ pc' = "context" => route = "replies"
    BY <1>0, <1>2 DEF WInv, WalkTypeOK
  <2>3. WalkTypeOK'
    <3>1. Live \subseteq DOMAIN items
      BY DEF Live
    <3> QED
      BY <1>0, <2>1, <2>2, <3>1 DEF WInv, WalkTypeOK, serverVars
  <2>4. ControlInv' /\ PoolInv' /\ ~Reading'
    BY <1>0, <2>1, <2>2 DEF WInv, ControlInv, PoolInv, Reading, serverVars
  <2>5. HandInv' /\ HandComplete'
    BY <2>4 DEF HandInv, HandComplete
  <2>6. Reached' = Newest /\ Newest' = Newest
    BY <2>1, CursorFacts DEF Reached, Below, Newest
  <2>7. Stretch(<< >>, Newest, Newest) /\ ToSet(<< >>) = {} /\ Len(<< >>) <= MaxReplies
    BY TimelineAssumption DEF Stretch, ToSet
  <2>8. GotInv'
    <3>1. Stretch(got, Reached, Newest)' /\ ToSet(got)' = {} /\ Len(got') <= MaxReplies
      BY <2>1, <2>6, <2>7 DEF Stretch, ToSet
    <3> QED
      BY <2>6, <3>1, NewestType DEF GotInv
  <2>9. GotComplete'
    <3>1. \A i \in Wanted' : i \in Nat
      <4>1. Live \subseteq 1..(Newest - 1)
        BY ItemFacts, Zenon DEF WInv
      <4> QED
        BY <2>1, <4>1 DEF Wanted
    <3>2. Holds(got, Wanted, Reached, Newest)'
      BY <2>6, <3>1, NewestType DEF Holds
    <3> QED
      BY <3>2 DEF GotComplete
  <2> QED
    BY <2>3, <2>4, <2>5, <2>8, <2>9 DEF WInv
<1> QED
  BY <1>1, <1>2

(* The actor posts and deletes. *)
LEMMA ServerKeeps ==
    ASSUME WInv, Change, NEW k,
           \/ k \in Kind(route) /\ items' = Append(items, k) /\ gone' = gone
           \/ items' = items /\ gone \subseteq gone'
    PROVE  WInv'
<1>0. /\ changes < MaxChanges /\ changes' = changes + 1
      /\ UNCHANGED <<route, server, pc, at, poolVars, clientVars, base, cut, lost>>
  BY DEF Change
<1>1. /\ Len(items') \in {Len(items), Len(items) + 1} /\ Len(items) \in Nat
      /\ items' \in Seq(Kind(route))
      /\ \A i \in 1..Len(items) : i \in 1..Len(items') /\ items'[i] = items[i]
      /\ DOMAIN items = 1..Len(items) /\ DOMAIN items' = 1..Len(items')
  <2> DEFINE K == Kind(route)
  <2>1. items \in Seq(K)
    BY DEF WInv, WalkTypeOK
  <2>2. CASE k \in K /\ items' = Append(items, k)
    <3> HIDE DEF K
    <3>1. /\ items' \in Seq(K) /\ Len(items') = Len(items) + 1 /\ Len(items) \in Nat
          /\ \A i \in 1..Len(items) : items'[i] = items[i]
      BY <2>1, <2>2, AppendProperties
    <3>2. DOMAIN items = 1..Len(items) /\ DOMAIN items' = 1..Len(items')
      BY <2>1, <3>1
    <3> QED
      BY <3>1, <3>2 DEF K
  <2>3. CASE items' = items
    <3> HIDE DEF K
    <3>1. items' \in Seq(K) /\ Len(items) \in Nat /\ DOMAIN items = 1..Len(items)
      BY <2>1, <2>3
    <3> QED
      BY <2>3, <3>1 DEF K
  <2> QED
    BY <2>2, <2>3
<1>2. DOMAIN items \subseteq DOMAIN items' /\ \A i \in DOMAIN items : items'[i] = items[i]
  BY <1>1
<1>3. WalkTypeOK'
  <2>0. Kind(route)' = Kind(route)
    BY <1>0
  <2>1. items' \in Seq(Kind(route))'
    BY <1>1, <2>0
  <2>3. Len(items') <= StartItems + changes' /\ changes' \in 0..MaxChanges
    <3>1. /\ StartItems \in Nat /\ MaxChanges \in Nat /\ changes \in 0..MaxChanges
          /\ Len(items) <= StartItems + changes
      BY TimelineAssumption DEF WInv, WalkTypeOK
    <3>2. Len(items') \in {Len(items), Len(items) + 1} /\ Len(items) \in Nat
      BY <1>1
    <3>3. changes < MaxChanges /\ changes' = changes + 1
      BY <1>0
    <3> QED
      BY <3>1, <3>2, <3>3
  <2>2. base' \subseteq DOMAIN items' /\ lost' \subseteq DOMAIN items'
    BY <1>0, <1>2 DEF WInv, WalkTypeOK
  <2> QED
    BY <1>0, <2>1, <2>2, <2>3 DEF WInv, WalkTypeOK, poolVars, clientVars
<1>4. ControlInv' /\ PoolInv'
  BY <1>0 DEF WInv, ControlInv, PoolInv, poolVars, clientVars
<1>5. /\ InHand' = InHand /\ Reading' = Reading /\ Floor(after)' = Floor(after)
      /\ Below(at)' = Below(at) /\ Newest' = Newest /\ Reached' = Reached /\ Fully' = Fully
      /\ acc' = acc /\ page' = page /\ got' = got /\ route' = route /\ pc' = pc
      /\ after' = after /\ lost' = lost /\ ended' = ended /\ pages' = pages
  BY <1>0 DEF InHand, Reading, Floor, Below, Newest, Reached, Fully, poolVars, clientVars
<1>6. /\ ToSet(InHand)' = ToSet(InHand) /\ ToSet(got)' = ToSet(got)
      /\ Enough(InHand)' = Enough(InHand) /\ Enough(got)' = Enough(got)
  BY <1>5 DEF Enough, ToSet
<1>7. Listable \subseteq Listable' /\ Shown \subseteq Shown'
  BY <1>2 DEF Listable, Shown
<1>8. Wanted' \subseteq Wanted
  <2>1. base \subseteq DOMAIN items /\ gone \subseteq gone' /\ base' = base
    BY <1>0 DEF WInv, WalkTypeOK
  <2> QED
    BY <1>2, <1>5, <2>1 DEF Wanted
<1>9. HandInv'
  <2>1. Stretch(InHand, Floor(after), Below(at))' = Stretch(InHand, Floor(after), Below(at))
    BY <1>5 DEF Stretch
  <2> QED
    BY <1>5, <1>6, <1>7, <2>1 DEF WInv, HandInv
<1>10. GotInv'
  <2>1. Stretch(got, Reached, Newest)' = Stretch(got, Reached, Newest)
    BY <1>5 DEF Stretch
  <2> QED
    BY <1>5, <1>6, <1>7, <2>1 DEF WInv, GotInv
<1>11. HandComplete'
  <2>1. Holds(InHand, Wanted, Floor(after), Below(at)) =>
          Holds(InHand, Wanted, Floor(after), Below(at))'
    BY <1>5, <1>6, <1>8 DEF Holds
  <2> QED
    BY <1>5, <1>6, <2>1 DEF WInv, HandComplete
<1>12. GotComplete'
  <2>1. Holds(got, Wanted, Reached, Newest) => Holds(got, Wanted, Reached, Newest)'
    BY <1>5, <1>6, <1>8 DEF Holds
  <2> QED
    BY <1>5, <1>6, <2>1 DEF WInv, GotComplete
<1> QED
  BY <1>3, <1>4, <1>9, <1>10, <1>11, <1>12 DEF WInv

(* Nothing has been asked for at the start. *)
LEMMA WalkInitInv == WalkInit => WInv
<1> SUFFICES ASSUME WalkInit PROVE WInv
  OBVIOUS
<1>0. /\ route \in {"tweets", "follows", "replies"} /\ items \in [1..StartItems -> Kind(route)]
      /\ pc = "idle" /\ at = NoCursor /\ after = NoCursor /\ acc = << >>
      /\ cursor = NoCursor /\ got = << >> /\ ended = TRUE /\ changes = 0
      /\ base = {} /\ lost = {}
  BY DEF WalkInit
<1>1. WalkTypeOK
  <2> DEFINE K == Kind(route)
  <2>1. items \in [1..StartItems -> K] /\ StartItems \in Nat
    BY <1>0, TimelineAssumption
  <2> HIDE DEF K
  <2>2. items \in Seq(K) /\ Len(items) = StartItems
    BY <2>1
  <2>3. items \in Seq(Kind(route)) /\ Len(items) <= StartItems + changes /\ changes \in 0..MaxChanges
    BY <1>0, <2>1, <2>2, TimelineAssumption DEF K
  <2> QED
    BY <1>0, <2>3 DEF WalkTypeOK
<1>2. ControlInv /\ PoolInv /\ ~Reading
  BY <1>0 DEF ControlInv, PoolInv, Reading
<1>3. HandInv /\ HandComplete
  BY <1>2 DEF HandInv, HandComplete
<1>4. GotInv
  <2>1. /\ Reached = 0 /\ 0 <= Newest /\ Stretch(<< >>, 0, Newest) /\ ToSet(<< >>) = {}
        /\ Len(<< >>) <= MaxReplies
    BY <1>0, NewestType, TimelineAssumption DEF Reached, Stretch, ToSet
  <2> QED
    BY <1>0, <2>1 DEF GotInv
<1>5. GotComplete
  BY <1>0 DEF GotComplete, Holds, Wanted
<1> QED
  BY <1>1, <1>2, <1>3, <1>4, <1>5 DEF WInv

(* All steps together. *)
LEMMA WalkStepInv == WInv /\ [WalkNext]_walkVars => WInv'
<1> SUFFICES ASSUME WInv, [WalkNext]_walkVars PROVE WInv'
  OBVIOUS
<1>1. CASE Lookup \/ RestPage \/ Actor \/ Outbox \/ OutboxPage
  BY <1>1, LookupKeeps, RestPageKeeps, ActorKeeps, OutboxKeeps, OutboxPageKeeps
<1>2. CASE FollowCollection \/ FollowPage \/ Context \/ Note \/ RepliesCollection \/ ReplyPage
  BY <1>2, FollowCollectionKeeps, FollowPageKeeps, ContextKeeps, NoteKeeps,
     RepliesCollectionKeeps, ReplyPageKeeps
<1>3. CASE Claim \/ Tweets \/ PageRead \/ \E i \in running : Resolve(i)
  BY <1>3, ClaimKeeps, TweetsKeeps, PageReadKeeps, ResolveKeeps
<1>4. CASE \E c \in {cursor, NoCursor, OwnCursor} : Ask(c)
  BY <1>4, AskKeeps
<1>5. ASSUME NEW k \in Kind(route), Post(k) PROVE WInv'
  BY <1>5, ServerKeeps DEF Post
<1>6. ASSUME NEW i \in Live, Delete(i) PROVE WInv'
  BY <1>6, ServerKeeps DEF Delete
<1>7. CASE UNCHANGED walkVars
  <2>1. /\ InHand' = InHand /\ Reading' = Reading /\ Floor(after)' = Floor(after)
        /\ Below(at)' = Below(at) /\ Newest' = Newest /\ Reached' = Reached /\ Fully' = Fully
        /\ Listable' = Listable /\ Shown' = Shown /\ Wanted' = Wanted
    BY <1>7 DEF walkVars, InHand, Reading, Floor, Below, Newest, Reached, Fully, Listable, Shown,
       Wanted
  <2>2. WalkTypeOK' /\ ControlInv' /\ PoolInv'
    BY <1>7 DEF walkVars, WInv, WalkTypeOK, ControlInv, PoolInv, Kind
  <2>3. HandInv' /\ GotInv'
    BY <1>7, <2>1 DEF walkVars, WInv, HandInv, GotInv, Stretch, ToSet
  <2>4. HandComplete' /\ GotComplete'
    BY <1>7, <2>1 DEF walkVars, WInv, HandComplete, GotComplete, Holds, Enough, ToSet
  <2> QED
    BY <2>2, <2>3, <2>4 DEF WInv
<1> QED
  BY <1>1, <1>2, <1>3, <1>4, <1>5, <1>6, <1>7 DEF WalkNext, Handler

(* What a client receives on a walk is in order and without repetition, in *)
(* whatever order the goroutines of a page finish and however the actor    *)
(* posts and deletes between the pages (resolveTimelineItems and           *)
(* resolveReplyItems compact their slots in order; a cursor is the last    *)
(* item of the page, shown or not).                                        *)
THEOREM WalksAreOrdered == WalkSpec => []NewestFirst
<1>1. WInv => NewestFirst
  BY DEF WInv, GotInv, Stretch, NewestFirst
<1> QED
  BY <1>1, WalkInitInv, WalkStepInv, PTL DEF WalkSpec

(* A walk that ends has shown every post, boost, follow or reply that was  *)
(* there when it began and still is, unless a page or its note failed, the *)
(* server hides it, or the answer was full; and nothing that the filters   *)
(* of GetTweets, followList and GetReplies are to leave out.               *)
THEOREM WalksAreComplete == WalkSpec => []WalkIsComplete
<1>1. ASSUME WInv PROVE WalkIsComplete
  <2>1. ToSet(got) \subseteq Shown /\ Stretch(got, Reached, Newest)
    BY <1>1 DEF WInv, GotInv
  <2>2. \A i \in ToSet(got) : items[i] \notin {"thread", "reply", "self", "deeper"}
    BY <2>1 DEF Shown
  <2>3. route = "replies" => Len(got) <= MaxReplies
    BY <1>1 DEF WInv, GotInv
  <2>4. ASSUME ended, ~cut, server # "hidden",
               ~(route = "replies" /\ (\/ Cardinality(ToSet(got) \cup lost) >= MaxReplies
                                       \/ pages = MaxPages)),
               NEW i \in (base \ gone) \ lost, items[i] \in {"post", "boost", "peer", "answer"}
        PROVE  i \in ToSet(got)
    <3>1. i \in Wanted
      BY <2>4 DEF Wanted
    <3>2. Holds(got, Wanted, Reached, Newest)
      BY <1>1, <2>4 DEF WInv, GotComplete, Fully, Enough
    <3>3. Reached = 0
      BY <2>4 DEF Reached
    <3>4. 0 <= i /\ i < Newest
      <4>1. Wanted \subseteq 1..(Newest - 1)
        BY <1>1, ItemFacts, Zenon DEF WInv, Listed, Live
      <4> QED
        BY <3>1, <4>1, NewestType
    <3> QED
      BY <3>1, <3>2, <3>3, <3>4 DEF Holds
  <2> QED
    BY <2>2, <2>3, <2>4 DEF WalkIsComplete
<1> QED
  BY <1>1, WalkInitInv, WalkStepInv, PTL DEF WalkSpec
=============================================================================
