------------------------ MODULE HedgedRequestProofs ------------------------
(***************************************************************************)
(* The safety properties of HedgedRequest for every number of candidates,  *)
(* every delay and timeout, and every behaviour of the candidates.         *)
(***************************************************************************)
EXTENDS HedgedRequest, FiniteSetTheorems, TLAPS

(* When the k-th hedge is due.  Used unexpanded, so that the provers see   *)
(* linear arithmetic only.                                                 *)
Slot(k) == k * HedgeDelay

(* The candidates launched are the first next ones, none before its turn   *)
(* in the hedging schedule.                                                *)
Schedule ==
    /\ \A p \in Peer : p <= next <=> status[p] # "idle"
    /\ \A p \in Peer : launchedAt[p] <= Slot(p - 1)
    /\ next < N => hedgeAt <= Slot(next)
    /\ Slot(inFlight) <= hedgeAt
    /\ hedgeAt <= now + HedgeDelay

(* While the request waits no timer is overdue, and an attempt that could  *)
(* have succeeded is lost only to the deadline of the request.             *)
Timely ==
    Pending =>
        /\ now <= RequestTimeout
        /\ now <= hedgeAt
        /\ \A p \in Peer : status[p] = "running" /\ waits[p] # "ever"
                => now <= EndsAt(p)
        /\ \A p \in Peer : /\ status[p] \in {"ok", "err", "received"}
                           /\ healthy[p]
                           /\ latency[p] < PerPeerTimeout
                => /\ now <= launchedAt[p] + latency[p]
                   /\ status[p] # "ok" => now = RequestTimeout

IndInv == /\ TypeOK
          /\ InFlightAccounting
          /\ FailedMeansAllTried
          /\ Schedule
          /\ Timely

-----------------------------------------------------------------------------
(* Arithmetic of the hedging schedule. *)
LEMMA SlotMono ==
    ASSUME NEW a \in Nat, NEW b \in Nat, a <= b
    PROVE  Slot(a) <= Slot(b)
  BY DelayAssumption, SMT DEF Slot

(* Slots are natural numbers; the first two. *)
LEMMA SlotNat ==
    ASSUME NEW a \in Nat
    PROVE  Slot(a) \in Nat /\ Slot(0) = 0 /\ Slot(1) = HedgeDelay
  BY DelayAssumption, SMT DEF Slot

(* One more attempt is one more hedge delay. *)
LEMMA SlotStep ==
    ASSUME NEW a \in Int
    PROVE  Slot(a + 1) = Slot(a) + HedgeDelay
  BY DelayAssumption, SMT DEF Slot

(* When each stream ends, as inequalities. *)
LEMMA EndsAtBounds ==
    ASSUME TypeOK, NEW p \in Peer
    PROVE  /\ EndsAt(p) \in Nat
           /\ EndsAt(p) <= launchedAt[p] + latency[p]
           /\ waits[p] = "dial" => EndsAt(p) <= attemptDeadline(p)
           /\ \A t \in Nat : (/\ t <= launchedAt[p] + latency[p]
                              /\ t <= launchedAt[p] + PerPeerTimeout
                              /\ t <= RequestTimeout) => t <= EndsAt(p)
<1>1. /\ launchedAt[p] \in Nat /\ latency[p] \in Nat
  BY DelayAssumption DEF TypeOK
<1> QED
  BY <1>1, DelayAssumption DEF EndsAt, attemptDeadline, Earliest

(* Every set of candidates is finite. *)
LEMMA PeerSubsets ==
    ASSUME NEW S \in SUBSET Peer
    PROVE  IsFiniteSet(S) /\ Cardinality(S) \in 0..N
<1>1. IsFiniteSet(Peer) /\ Cardinality(Peer) = N
  BY NAssumption, FS_Interval DEF Peer
<1>2. IsFiniteSet(S) /\ Cardinality(S) <= N
  BY <1>1, FS_Subset
<1> QED
  BY <1>2, FS_CardinalityType, NAssumption

-----------------------------------------------------------------------------
(* tryMembers begins with one attempt and the hedge timer set. *)
LEMMA InitIndInv == Init => IndInv
<1> SUFFICES ASSUME Init PROVE IndInv
  OBVIOUS
<1> USE NAssumption, DelayAssumption
<1>1. TypeOK
  BY DEF Init, TypeOK, Peer, Status
<1>2. InFlightAccounting
  <2>1. Outstanding = {1}
    BY DEF Init, Outstanding, Peer
  <2> QED
    BY <2>1, FS_Singleton DEF InFlightAccounting, Init
<1>3. FailedMeansAllTried
  BY DEF Init, FailedMeansAllTried
<1>4. Schedule
  <2>1. \A p \in Peer : 0 <= Slot(p - 1)
    <3> TAKE p \in Peer
    <3>1. p - 1 \in Nat
      BY DEF Peer
    <3> QED
      BY <3>1, SlotNat
  <2>2. Slot(1) = HedgeDelay
    BY SlotNat
  <2> QED
    BY <2>1, <2>2 DEF Init, Schedule, Peer
<1>5. Timely
  <2>1. \A p \in Peer : status[p] = "running" /\ waits[p] # "ever" => now <= EndsAt(p)
    BY <1>1, EndsAtBounds DEF Init, TypeOK
  <2>2. \A p \in Peer : status[p] \in {"running", "idle"}
    BY DEF Init
  <2> QED
    BY <2>1, <2>2 DEF Init, Timely
<1> QED
  BY <1>1, <1>2, <1>3, <1>4, <1>5 DEF IndInv

-----------------------------------------------------------------------------
(* The attempts that owe a reply under the status st. *)
Live(st) == {p \in Peer : st[p] \in {"running", "ok", "err"}}

(* launchNext in terms of st, the status, and taken, the number of replies *)
(* received, before it starts the next one.                                *)
LEMMA LaunchTypes ==
    ASSUME TypeOK, NEW st \in [Peer -> Status], NEW taken \in {0, 1},
           launchNext(st, taken)
    PROVE  /\ next' \in Peer /\ launchedAt' \in [Peer -> Nat]
           /\ status' \in [Peer -> Status]
<1>0. /\ next \in 1..N /\ now \in Nat /\ launchedAt \in [Peer -> Nat]
      /\ "running" \in Status
  BY DEF TypeOK, Peer, Status
<1>1. CASE next < N
  <2>1. /\ next' = next + 1
        /\ status' = [st EXCEPT ![next + 1] = "running"]
        /\ launchedAt' = [launchedAt EXCEPT ![next + 1] = now]
    BY <1>1 DEF launchNext
  <2>2. next' \in Peer
    BY <1>0, <1>1, <2>1, NAssumption DEF Peer
  <2> QED
    BY <1>0, <2>1, <2>2
<1>2. CASE ~(next < N)
  BY <1>0, <1>2 DEF launchNext, Peer
<1> QED
  BY <1>1, <1>2

(* It keeps the count of outstanding attempts. *)
LEMMA LaunchCounts ==
    ASSUME TypeOK, NEW st \in [Peer -> Status], NEW taken \in {0, 1},
           Cardinality(Live(st)) = inFlight - taken,
           next < N => st[next + 1] = "idle",
           launchNext(st, taken)
    PROVE  /\ InFlightAccounting'
           /\ inFlight' \in 0..N
           /\ next < N => inFlight' > 0
<1> USE NAssumption
<1>0. inFlight \in Nat /\ next \in 1..N
  BY DEF TypeOK, Peer
<1>1. Live(st) \in SUBSET Peer /\ Outstanding' \in SUBSET Peer
  BY DEF Live, Outstanding
<1>2. /\ IsFiniteSet(Live(st)) /\ Cardinality(Live(st)) \in 0..N
      /\ Cardinality(Outstanding') \in 0..N
  BY <1>1, PeerSubsets
<1>3. CASE next < N
  <2>1. next + 1 \in Peer /\ next + 1 \notin Live(st)
    BY <1>0, <1>3 DEF Peer, Live
  <2>2. Outstanding' = Live(st) \cup {next + 1}
    BY <1>3, <2>1 DEF launchNext, Outstanding, Live
  <2>3. Cardinality(Outstanding') = inFlight - taken + 1
    BY <2>1, <2>2, <1>2, FS_AddElement
  <2>4. inFlight' = inFlight - taken + 1
    BY <1>3 DEF launchNext
  <2> QED
    BY <1>0, <1>2, <2>3, <2>4 DEF InFlightAccounting
<1>4. CASE ~(next < N)
  <2>1. Outstanding' = Live(st) /\ inFlight' = inFlight - taken
    BY <1>4 DEF launchNext, Outstanding, Live
  <2> QED
    BY <1>0, <1>2, <1>4, <2>1 DEF InFlightAccounting
<1> QED
  BY <1>3, <1>4

(* launchNext keeps the hedging schedule when it runs in time, that is no  *)
(* later than the hedge timer, and hedgeAt' is at most one delay later for *)
(* a hedge (taken = 0) or unchanged for a failure (taken = 1).             *)
LEMMA LaunchKeepsSchedule ==
    ASSUME TypeOK, Schedule, NEW st \in [Peer -> Status], NEW taken \in {0, 1},
           launchNext(st, taken), now <= hedgeAt, now' = now,
           \A p \in Peer : st[p] = "idle" <=> status[p] = "idle",
           hedgeAt' = IF taken = 0 THEN hedgeAt + HedgeDelay ELSE hedgeAt,
           taken = 0 => now = hedgeAt,
           inFlight' \in 0..N
    PROVE  Schedule'
<1> USE NAssumption, DelayAssumption
<1>0. /\ inFlight \in Nat /\ next \in 1..N /\ now \in Nat /\ hedgeAt \in Nat
      /\ launchedAt \in [Peer -> Nat]
  BY DEF TypeOK, Peer
<1>a. Slot(next + 1) = Slot(next) + HedgeDelay
  BY <1>0, SlotStep
<1>b. Slot(next) \in Nat /\ Slot(inFlight) \in Nat
  BY <1>0, SlotNat
<1>c. inFlight' \in Nat /\ inFlight + 1 \in Nat
  BY <1>0
<1>1. (\A p \in Peer : p <= next <=> status[p] # "idle")'
  <2>1. CASE next < N
    <3> SUFFICES ASSUME NEW p \in Peer
                 PROVE  p <= next' <=> status'[p] # "idle"
      OBVIOUS
    <3>1. /\ next' = next + 1
          /\ status' = [st EXCEPT ![next + 1] = "running"]
      BY <2>1 DEF launchNext
    <3>2. CASE p = next + 1
      BY <1>0, <3>1, <3>2
    <3>3. CASE p # next + 1
      <4>1. status'[p] = st[p] /\ (p <= next' <=> p <= next)
        BY <1>0, <3>1, <3>3 DEF Peer
      <4> QED
        BY <4>1 DEF Schedule
    <3> QED
      BY <3>2, <3>3
  <2>2. CASE ~(next < N)
    BY <1>0, <2>2 DEF Schedule, launchNext, Peer
  <2> QED
    BY <2>1, <2>2
<1>2. (\A p \in Peer : launchedAt[p] <= Slot(p - 1))'
  <2>1. CASE next < N
    <3> SUFFICES ASSUME NEW p \in Peer
                 PROVE  launchedAt'[p] <= Slot(p - 1)
      OBVIOUS
    <3>1. CASE p = next + 1
      <4>1. launchedAt'[p] = now
        BY <1>0, <2>1, <3>1 DEF launchNext
      <4>2. now <= Slot(next)
        BY <1>0, <1>b, <2>1 DEF Schedule
      <4> QED
        BY <1>0, <3>1, <4>1, <4>2
    <3>2. CASE p # next + 1
      BY <1>0, <2>1, <3>2 DEF launchNext, Schedule
    <3> QED
      BY <3>1, <3>2
  <2>2. CASE ~(next < N)
    BY <2>2 DEF launchNext, Schedule
  <2> QED
    BY <2>1, <2>2
<1>3. (next < N => hedgeAt <= Slot(next))'
  <2> SUFFICES ASSUME next' < N PROVE hedgeAt' <= Slot(next')
    OBVIOUS
  <2>1. next < N /\ next' = next + 1
    BY <1>0 DEF launchNext
  <2>2. hedgeAt <= Slot(next)
    BY <2>1 DEF Schedule
  <2> QED
    BY <1>0, <1>a, <1>b, <2>1, <2>2
<1>4. (Slot(inFlight) <= hedgeAt)'
  <2>1. Slot(inFlight) <= hedgeAt
    BY DEF Schedule
  <2>2. inFlight' <= inFlight - taken + 1
    BY <1>0 DEF launchNext
  <2>3. CASE taken = 1
    <3>1. inFlight' <= inFlight
      BY <1>0, <2>2, <2>3
    <3>2. Slot(inFlight') <= Slot(inFlight)
      BY <1>0, <1>c, <3>1, SlotMono
    <3>3. Slot(inFlight') \in Nat
      BY <1>c, SlotNat
    <3> QED
      BY <1>0, <1>b, <2>1, <2>3, <3>2, <3>3
  <2>4. CASE taken = 0
    <3>1. inFlight' <= inFlight + 1
      BY <1>0, <2>2, <2>4
    <3>2. Slot(inFlight') <= Slot(inFlight + 1)
      BY <1>0, <1>c, <3>1, SlotMono
    <3>3. Slot(inFlight + 1) = Slot(inFlight) + HedgeDelay
      BY <1>0, SlotStep
    <3>4. Slot(inFlight') \in Nat
      BY <1>c, SlotNat
    <3> QED
      BY <1>0, <1>b, <2>1, <2>4, <3>2, <3>3, <3>4
  <2> QED
    BY <2>3, <2>4
<1>5. (hedgeAt <= now + HedgeDelay)'
  BY <1>0 DEF Schedule
<1> QED
  BY <1>1, <1>2, <1>3, <1>4, <1>5 DEF Schedule

-----------------------------------------------------------------------------
(* launchNext starts an attempt that is not overdue and leaves the others. *)
LEMMA LaunchTimely ==
    ASSUME TypeOK, Timely, Pending, NEW st \in [Peer -> Status], NEW taken \in {0, 1},
           launchNext(st, taken), UNCHANGED <<latency, healthy, waits, now>>,
           TypeOK', now <= hedgeAt', next < N => st[next + 1] = "idle",
           \A p \in Peer : st[p] = status[p] \/ (status[p] = "err" /\ st[p] = "received")
    PROVE  Timely'
<1> USE DelayAssumption
<1>0. now \in Nat /\ now <= RequestTimeout /\ now' = now /\ now <= hedgeAt'
  BY DEF TypeOK, Timely
<1>1. ASSUME NEW p \in Peer, status'[p] = "running", waits'[p] # "ever"
      PROVE  now' <= EndsAt(p)'
  <2>0. /\ launchedAt[p] \in Nat /\ latency[p] \in Nat
        /\ latency'[p] = latency[p] /\ waits'[p] = waits[p]
    BY DEF TypeOK
  <2>1. CASE next < N /\ p = next + 1
    <3>1. launchedAt'[p] = now
      BY <2>1 DEF launchNext, TypeOK
    <3>2. \/ EndsAt(p)' = Earliest(now + latency[p],
                                   Earliest(now + PerPeerTimeout, RequestTimeout))
          \/ EndsAt(p)' = now + latency[p]
      BY <2>0, <3>1 DEF EndsAt, attemptDeadline
    <3> QED
      BY <1>0, <2>0, <3>2 DEF Earliest
  <2>2. CASE ~(next < N /\ p = next + 1)
    <3>1. status'[p] = st[p] /\ launchedAt'[p] = launchedAt[p]
      BY <2>2 DEF launchNext, TypeOK
    <3>2. status[p] = "running"
      BY <1>1, <3>1
    <3>3. EndsAt(p)' = EndsAt(p)
      BY <2>0, <3>1 DEF EndsAt, attemptDeadline
    <3> QED
      BY <1>0, <1>1, <2>0, <3>2, <3>3 DEF Timely
  <2> QED
    BY <2>1, <2>2
<1>2. ASSUME NEW p \in Peer, status'[p] \in {"ok", "err", "received"},
             healthy'[p], latency'[p] < PerPeerTimeout
      PROVE  /\ now' <= launchedAt'[p] + latency'[p]
             /\ status'[p] # "ok" => now' = RequestTimeout
  <2>1. status'[p] = st[p] /\ launchedAt'[p] = launchedAt[p]
    BY <1>2 DEF launchNext, TypeOK
  <2>2. /\ status[p] \in {"ok", "err", "received"}
        /\ status'[p] # "ok" => status[p] # "ok"
    BY <1>2, <2>1
  <2> QED
    BY <1>0, <1>2, <2>1, <2>2 DEF Timely
<1> QED
  BY <1>0, <1>1, <1>2 DEF Timely

(* The goroutine of an attempt that ends puts its reply into the channel.  *)
LEMMA ReplyInv ==
    ASSUME IndInv, NEW p \in Peer, Reply(p)
    PROVE  IndInv'
<1> USE NAssumption, DelayAssumption
<1>1. TypeOK'
  <2>1. "ok" \in Status /\ "err" \in Status
    BY DEF Status
  <2> QED
    BY <2>1 DEF IndInv, TypeOK, Reply, network
<1>2. InFlightAccounting'
  <2>1. Outstanding' = Outstanding
    BY DEF IndInv, TypeOK, Reply, Outstanding
  <2> QED
    BY <2>1 DEF IndInv, InFlightAccounting, Reply
<1>3. FailedMeansAllTried'
  BY DEF IndInv, FailedMeansAllTried, Reply, TypeOK
<1>4. Schedule'
  BY DEF IndInv, Schedule, Reply, TypeOK
<1>5. Timely'
  <2> SUFFICES ASSUME Pending' PROVE Timely'
    BY DEF Timely
  <2>0. /\ Pending /\ now \in Nat /\ now >= EndsAt(p) /\ now <= EndsAt(p)
        /\ waits' = waits
        /\ now <= RequestTimeout /\ now <= hedgeAt
        /\ UNCHANGED <<latency, healthy, waits, now, launchedAt, hedgeAt>>
        /\ launchedAt[p] \in Nat /\ latency[p] \in Nat
    BY DEF IndInv, Timely, Reply, Pending, network, TypeOK
  <2>1. \A q \in Peer : status'[q] = "running" /\ waits'[q] # "ever"
                          => now' <= EndsAt(q)'
    <3>1. \A q \in Peer : EndsAt(q)' = EndsAt(q)
      BY <2>0 DEF EndsAt, attemptDeadline
    <3>2. \A q \in Peer : status'[q] = "running" => status[q] = "running"
      BY DEF IndInv, TypeOK, Reply
    <3> QED
      BY <2>0, <3>1, <3>2 DEF IndInv, Timely
  <2>2. ASSUME NEW q \in Peer, status'[q] \in {"ok", "err", "received"},
               healthy[q], latency[q] < PerPeerTimeout
        PROVE  /\ now <= launchedAt[q] + latency[q]
               /\ status'[q] # "ok" => now = RequestTimeout
    <3>1. CASE q = p
      <4>1. now <= launchedAt[p] + latency[p]
        BY <2>0, EndsAtBounds DEF IndInv
      <4>2. status'[p] # "ok" => now >= attemptDeadline(p)
        BY <2>0, <2>2, <3>1 DEF IndInv, TypeOK, Reply, Pending
      <4>3. now >= attemptDeadline(p) => now = RequestTimeout
        BY <2>0, <2>2, <3>1, <4>1 DEF attemptDeadline, Earliest
      <4> QED
        BY <3>1, <4>1, <4>2, <4>3
    <3>2. CASE q # p
      <4>1. status'[q] = status[q]
        BY <3>2 DEF IndInv, TypeOK, Reply
      <4> QED
        BY <2>0, <2>2, <4>1 DEF IndInv, Timely
    <3> QED
      BY <3>1, <3>2
  <2> QED
    BY <2>0, <2>1, <2>2 DEF Timely
<1> QED
  BY <1>1, <1>2, <1>3, <1>4, <1>5 DEF IndInv

(* The loop receives a success and returns. *)
LEMMA ReceiveOkInv ==
    ASSUME IndInv, NEW p \in Peer, ReceiveOk(p)
    PROVE  IndInv'
<1> USE NAssumption, DelayAssumption
<1>0. inFlight \in 0..N /\ status \in [Peer -> Status] /\ now \in Nat /\ hedgeAt \in Nat
  BY DEF IndInv, TypeOK
<1>2. InFlightAccounting' /\ inFlight' \in 0..N
  <2>1. Outstanding' = Outstanding \ {p} /\ p \in Outstanding
    BY <1>0 DEF ReceiveOk, Outstanding
  <2>2. IsFiniteSet(Outstanding) /\ Cardinality(Outstanding') \in 0..N
    BY PeerSubsets DEF Outstanding
  <2>3. Cardinality(Outstanding') = inFlight - 1
    BY <2>1, <2>2, FS_RemoveElement DEF IndInv, InFlightAccounting
  <2> QED
    BY <2>2, <2>3 DEF InFlightAccounting, ReceiveOk
<1>1. TypeOK'
  <2>1. "received" \in Status
    BY DEF Status
  <2> QED
    BY <1>2, <2>1 DEF IndInv, TypeOK, ReceiveOk, network
<1>3. FailedMeansAllTried'
  BY DEF FailedMeansAllTried, ReceiveOk
<1>4. Schedule'
  <2>1. Slot(inFlight') <= Slot(inFlight) /\ Slot(inFlight) \in Nat /\ Slot(inFlight') \in Nat
    <3>1. inFlight' <= inFlight /\ inFlight' \in Nat /\ inFlight \in Nat
      BY <1>0, <1>2 DEF ReceiveOk
    <3> QED
      BY <3>1, SlotMono, SlotNat
  <2>2. \A q \in Peer : status'[q] # "idle" <=> status[q] # "idle"
    BY <1>0 DEF ReceiveOk
  <2>3. Slot(inFlight') <= hedgeAt
    BY <1>0, <2>1 DEF IndInv, Schedule
  <2> QED
    BY <2>2, <2>3 DEF IndInv, Schedule, ReceiveOk
<1>5. Timely'
  BY DEF Timely, ReceiveOk, Pending
<1> QED
  BY <1>1, <1>2, <1>3, <1>4, <1>5 DEF IndInv

(* The loop receives a failure, starts the next attempt and may give up.   *)
LEMMA ReceiveErrInv ==
    ASSUME IndInv, NEW p \in Peer, ReceiveErr(p)
    PROVE  IndInv'
<1> USE NAssumption, DelayAssumption
<1> DEFINE st == [status EXCEPT ![p] = "received"]
<1>0. /\ inFlight \in 0..N /\ now \in Nat /\ hedgeAt \in Nat
      /\ status \in [Peer -> Status]
      /\ st \in [Peer -> Status]
      /\ next \in 1..N /\ status[p] = "err" /\ Pending
      /\ launchNext(st, 1)
      /\ UNCHANGED <<latency, healthy, waits, now, hedgeAt>>
  <2>1. "received" \in Status
    BY DEF Status
  <2>2. status \in [Peer -> Status]
    BY DEF IndInv, TypeOK
  <2>3. st \in [Peer -> Status]
    BY <2>1, <2>2
  <2> QED
    BY <2>2, <2>3 DEF IndInv, TypeOK, ReceiveErr, Peer, network
<1>b. next < N => st[next + 1] = "idle"
  <2> SUFFICES ASSUME next < N PROVE st[next + 1] = "idle"
    OBVIOUS
  <2>1. next + 1 \in Peer /\ status[next + 1] = "idle"
    BY <1>0 DEF IndInv, Schedule, Peer
  <2> QED
    BY <1>0, <2>1
<1>c. Cardinality(Live(st)) = inFlight - 1
  <2>1. Live(st) = Outstanding \ {p} /\ p \in Outstanding
    BY <1>0 DEF Live, Outstanding
  <2>2. IsFiniteSet(Outstanding)
    BY PeerSubsets DEF Outstanding
  <2> QED
    BY <2>1, <2>2, FS_RemoveElement DEF IndInv, InFlightAccounting
<1>d. \A q \in Peer : st[q] = status[q] \/ (status[q] = "err" /\ st[q] = "received")
  BY <1>0
<1>2. /\ InFlightAccounting' /\ inFlight' \in 0..N
      /\ next < N => inFlight' > 0
  <2> HIDE DEF st
  <2> QED
    BY <1>0, <1>b, <1>c, LaunchCounts DEF IndInv
<1>1. TypeOK'
  <2>1. /\ next' \in Peer /\ launchedAt' \in [Peer -> Nat]
        /\ status' \in [Peer -> Status]
    <3> HIDE DEF st
    <3> QED
      BY <1>0, LaunchTypes DEF IndInv
  <2>2. result' \in {"pending", "ok", "failed", "deadline"}
    BY DEF ReceiveErr
  <2> QED
    BY <1>0, <1>2, <2>1, <2>2 DEF IndInv, TypeOK
<1>3. FailedMeansAllTried'
  <2> SUFFICES ASSUME result' = "failed", NEW q \in Peer
               PROVE  status'[q] = "received"
    BY DEF FailedMeansAllTried
  <2>1. inFlight' = 0
    BY DEF ReceiveErr
  <2>2. ~(next < N)
    BY <1>2, <2>1
  <2>3. Outstanding' = {}
    <3>1. IsFiniteSet(Outstanding')
      BY PeerSubsets DEF Outstanding
    <3> QED
      BY <1>2, <2>1, <3>1, FS_EmptySet DEF InFlightAccounting
  <2>4. status'[q] \notin {"running", "ok", "err"}
    BY <2>3 DEF Outstanding
  <2>5. status' = st
    BY <1>0, <2>2 DEF launchNext
  <2>6. status[q] # "idle"
    BY <1>0, <2>2 DEF IndInv, Schedule, Peer
  <2>7. st[q] # "idle"
    BY <1>d, <2>6
  <2> QED
    BY <1>0, <2>4, <2>5, <2>7 DEF Status
<1>4. Schedule'
  <2>1. \A q \in Peer : st[q] = "idle" <=> status[q] = "idle"
    BY <1>d
  <2>2. now <= hedgeAt
    BY <1>0 DEF IndInv, Timely
  <2> HIDE DEF st
  <2> QED
    BY <1>0, <1>2, <2>1, <2>2, LaunchKeepsSchedule DEF IndInv
<1>5. Timely'
  <2>1. now <= hedgeAt'
    BY <1>0 DEF IndInv, Timely
  <2> HIDE DEF st
  <2> QED
    BY <1>0, <1>b, <1>d, <1>1, <2>1, LaunchTimely DEF IndInv
<1> QED
  BY <1>1, <1>2, <1>3, <1>4, <1>5 DEF IndInv

(* The hedge timer fires. *)
LEMMA HedgeInv ==
    ASSUME IndInv, Hedge
    PROVE  IndInv'
<1> USE NAssumption, DelayAssumption
<1>0. /\ inFlight \in 0..N /\ now \in Nat /\ hedgeAt \in Nat
      /\ status \in [Peer -> Status]
      /\ next \in 1..N /\ Pending /\ Pending'
      /\ launchNext(status, 0)
      /\ now >= hedgeAt /\ now <= hedgeAt /\ hedgeAt' = now + HedgeDelay
      /\ UNCHANGED <<latency, healthy, waits, now, result>>
  BY DEF IndInv, TypeOK, Hedge, Peer, network, Pending, Timely
<1>b. next < N => status[next + 1] = "idle"
  BY <1>0 DEF IndInv, Schedule, Peer
<1>c. Cardinality(Live(status)) = inFlight - 0
  <2>1. Live(status) = Outstanding
    BY DEF Live, Outstanding
  <2> QED
    BY <1>0, <2>1 DEF IndInv, InFlightAccounting
<1>2. InFlightAccounting' /\ inFlight' \in 0..N
  BY <1>0, <1>b, <1>c, LaunchCounts DEF IndInv
<1>1. TypeOK'
  <2>1. /\ next' \in Peer /\ launchedAt' \in [Peer -> Nat]
        /\ status' \in [Peer -> Status]
    BY <1>0, LaunchTypes DEF IndInv
  <2> QED
    BY <1>0, <1>2, <2>1 DEF IndInv, TypeOK
<1>3. FailedMeansAllTried'
  BY <1>0 DEF FailedMeansAllTried, Pending
<1>4. Schedule'
  <2>1. now = hedgeAt /\ hedgeAt' = hedgeAt + HedgeDelay
    BY <1>0
  <2> QED
    BY <1>0, <1>2, <2>1, LaunchKeepsSchedule DEF IndInv
<1>5. Timely'
  <2>1. now <= hedgeAt'
    BY <1>0
  <2> QED
    BY <1>0, <1>b, <1>1, <2>1, LaunchTimely DEF IndInv
<1> QED
  BY <1>1, <1>2, <1>3, <1>4, <1>5 DEF IndInv

(* The context of the request ends. *)
LEMMA DeadlineInv ==
    ASSUME IndInv, Deadline
    PROVE  IndInv'
<1>1. TypeOK'
  BY DEF IndInv, TypeOK, Deadline, network
<1>2. InFlightAccounting'
  BY DEF IndInv, InFlightAccounting, Outstanding, Deadline
<1>3. FailedMeansAllTried' /\ Timely'
  BY DEF FailedMeansAllTried, Timely, Deadline, Pending
<1>4. Schedule'
  BY DEF IndInv, Schedule, Deadline
<1> QED
  BY <1>1, <1>2, <1>3, <1>4 DEF IndInv

(* Time passes when nothing is due. *)
LEMMA TickInv ==
    ASSUME IndInv, Tick
    PROVE  IndInv'
<1> USE NAssumption, DelayAssumption
<1>0. /\ now \in Nat /\ now' = now + 1 /\ hedgeAt \in Nat
      /\ UNCHANGED <<latency, healthy, waits, next, inFlight, status, launchedAt, hedgeAt, result>>
      /\ now < hedgeAt /\ now < RequestTimeout /\ Queued = {}
  BY DEF IndInv, TypeOK, Tick, network
<1>1. TypeOK'
  BY <1>0 DEF IndInv, TypeOK
<1>2. InFlightAccounting' /\ FailedMeansAllTried'
  BY <1>0 DEF IndInv, InFlightAccounting, Outstanding, FailedMeansAllTried
<1>4. Schedule'
  BY <1>0 DEF IndInv, Schedule
<1>5. Timely'
  <2>1. ASSUME NEW p \in Peer, status[p] = "running", waits[p] # "ever"
        PROVE  now' <= EndsAt(p)'
    <3>1. EndsAt(p)' = EndsAt(p)
      BY <1>0 DEF EndsAt, attemptDeadline
    <3>2. EndsAt(p) \in Nat
      BY EndsAtBounds DEF IndInv
    <3>3. now < EndsAt(p)
      BY <2>1 DEF Tick
    <3> QED
      BY <1>0, <3>1, <3>2, <3>3
  <2>2. ASSUME NEW p \in Peer, status[p] \in {"ok", "err", "received"},
               healthy[p], latency[p] < PerPeerTimeout
        PROVE  FALSE
    <3>1. status[p] = "received"
      BY <1>0, <2>2 DEF Queued
    <3>2. now = RequestTimeout
      BY <2>2, <3>1 DEF IndInv, Timely, Tick
    <3> QED
      BY <1>0, <3>2
  <2>3. now' <= RequestTimeout /\ now' <= hedgeAt'
    BY <1>0
  <2> QED
    BY <1>0, <2>1, <2>2, <2>3 DEF Timely
<1> QED
  BY <1>1, <1>2, <1>4, <1>5 DEF IndInv

(* A step of something else. *)
LEMMA StutterInv ==
    ASSUME IndInv, UNCHANGED vars
    PROVE  IndInv'
  BY DEF IndInv, vars, TypeOK, InFlightAccounting, Outstanding,
         FailedMeansAllTried, Schedule, Timely, Pending, EndsAt, attemptDeadline

(* The inductive invariant holds in every state of tryMembers. *)
THEOREM Inductive == Spec => []IndInv
<1>1. IndInv /\ [Next]_vars => IndInv'
  <2> SUFFICES ASSUME IndInv, [Next]_vars PROVE IndInv'
    OBVIOUS
  <2>1. CASE \E p \in Peer : Reply(p) \/ ReceiveOk(p) \/ ReceiveErr(p)
    BY <2>1, ReplyInv, ReceiveOkInv, ReceiveErrInv
  <2>2. CASE Hedge
    BY <2>2, HedgeInv
  <2>3. CASE Deadline
    BY <2>3, DeadlineInv
  <2>4. CASE Tick
    BY <2>4, TickInv
  <2>5. CASE Done \/ UNCHANGED vars
    BY <2>5, StutterInv DEF Done
  <2> QED
    BY <2>1, <2>2, <2>3, <2>4, <2>5 DEF Next
<1> QED
  BY <1>1, InitIndInv, PTL DEF Spec

-----------------------------------------------------------------------------
(* Every state of every run is well typed. *)
THEOREM TypeCorrect == Spec => []TypeOK
  BY Inductive, PTL DEF IndInv

(* The loop counter is the number of attempts that owe a reply. *)
THEOREM CounterIsExact == Spec => []InFlightAccounting
  BY Inductive, PTL DEF IndInv

(* A request fails only after every candidate was tried and answered. *)
THEOREM NoEarlyFailure == Spec => []FailedMeansAllTried
  BY Inductive, PTL DEF IndInv

(* The k-th candidate, if healthy and faster than the per-peer timeout,    *)
(* bounds the request by (k - 1) * HedgeDelay + its latency, however the   *)
(* candidates before it behave.                                            *)
THEOREM HedgeBound == Spec => []SlowPeerCostsOneHedge
<1>1. IndInv => SlowPeerCostsOneHedge
  <2> SUFFICES ASSUME IndInv, Pending, NEW k \in Peer, healthy[k],
                      latency[k] < PerPeerTimeout
               PROVE  now <= Slot(k - 1) + latency[k]
    BY DEF SlowPeerCostsOneHedge, Slot
  <2> USE NAssumption, DelayAssumption
  <2>0. /\ now \in Nat /\ latency[k] \in Nat /\ launchedAt[k] \in Nat
        /\ next \in 1..N /\ k \in 1..N /\ hedgeAt \in Nat
        /\ status[k] \in Status
    BY DEF IndInv, TypeOK, Peer
  <2>1. Slot(k - 1) \in Nat /\ Slot(next) \in Nat /\ k - 1 \in Nat
    BY <2>0, SlotNat
  <2>2. launchedAt[k] <= Slot(k - 1)
    BY DEF IndInv, Schedule
  <2>3. CASE status[k] = "idle"
    <3>1. next <= k - 1 /\ next < N
      BY <2>0, <2>3 DEF IndInv, Schedule
    <3>2. now <= hedgeAt /\ hedgeAt <= Slot(next)
      BY <3>1 DEF IndInv, Schedule, Timely
    <3>3. Slot(next) <= Slot(k - 1)
      BY <2>0, <2>1, <3>1, SlotMono
    <3> QED
      BY <2>0, <2>1, <3>2, <3>3
  <2>4. CASE status[k] = "running"
    <3>0. waits[k] # "ever"
      BY DEF IndInv, TypeOK
    <3>1. now <= EndsAt(k) /\ EndsAt(k) \in Nat
          /\ EndsAt(k) <= launchedAt[k] + latency[k]
      BY <2>4, <3>0, EndsAtBounds DEF IndInv, Timely
    <3> QED
      BY <2>0, <2>1, <2>2, <3>1
  <2>5. CASE status[k] \in {"ok", "err", "received"}
    <3>1. now <= launchedAt[k] + latency[k]
      BY <2>5 DEF IndInv, Timely
    <3> QED
      BY <2>0, <2>1, <2>2, <3>1
  <2> QED
    BY <2>0, <2>3, <2>4, <2>5 DEF Status
<1> QED
  BY <1>1, Inductive, PTL

(* One request never has more than 1 + now / HedgeDelay attempts in        *)
(* flight, however many candidates there are.                              *)
THEOREM LoadBound == Spec => []LoadIsHedged
<1>1. IndInv => LoadIsHedged
  <2> SUFFICES ASSUME IndInv PROVE Slot(inFlight - 1) <= now
    BY DEF LoadIsHedged, Slot
  <2>0. inFlight \in Nat /\ now \in Nat /\ hedgeAt \in Nat
    BY DEF IndInv, TypeOK
  <2>1. Slot(inFlight) <= now + HedgeDelay
    <3>1. Slot(inFlight) \in Nat
      BY <2>0, SlotNat
    <3> QED
      BY <2>0, <3>1, DelayAssumption DEF IndInv, Schedule
  <2>2. Slot(inFlight) = Slot(inFlight - 1) + HedgeDelay
    BY <2>0, DelayAssumption, SMT DEF Slot
  <2>3. Slot(inFlight - 1) \in Int
    BY <2>0, DelayAssumption, SMT DEF Slot
  <2> QED
    BY <2>0, <2>1, <2>2, <2>3, DelayAssumption
<1> QED
  BY <1>1, Inductive, PTL
=============================================================================
