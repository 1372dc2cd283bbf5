----------------------------- MODULE InboxProofs -----------------------------
(***************************************************************************)
(* For every size of the pool, any number of actors and requests, and any  *)
(* faults and restarts: every taken slot belongs to one running goroutine, *)
(* the pool is never exceeded, nobody becomes a follower except by a       *)
(* Follow they signed, and when all is quiet the peers that were accepted  *)
(* are in the owner's list.                                                *)
(*                                                                         *)
(* Who owns a request is an invariant over its whole way through           *)
(* handleInbox and acceptFollow (Owned).  The count of slots needs that    *)
(* the fan-out never has a follower both waiting and running (Fan).  The   *)
(* agreement needs that a request in progress accounts for every           *)
(* difference (Persisted), which rests on there being one Follow of a peer *)
(* at a time and no Undo beside it (OneFollow, NotCrossed).                *)
(***************************************************************************)
EXTENDS Inbox, FiniteSetTheorems, TLAPS

Typed ==
    /\ req \in [Request -> Requests]
    /\ signed \subseteq Actor
    /\ store \cup believes \subseteq signed

(* A Follow that bears its actor's signature was signed by the actor; only *)
(* such requests run as jobs, and only a Follow runs acceptFollow.         *)
Owned ==
    \A r \in Request :
        /\ req[r].state # "none" /\ req[r].type = "Follow" /\ req[r].signer = req[r].actor
              => req[r].actor \in signed
        /\ req[r].state \in Job => req[r].signer = req[r].actor
        /\ req[r].state \in {"resolve", "accept", "add", "hung", "notify"} => req[r].type = "Follow"

OInv == Typed /\ Owned

Jobs == {r \in Request : req[r].state \in Job}

Fan ==
    /\ fanTodo \subseteq Actor /\ fanJobs \subseteq Actor
    /\ fanTodo \cap fanJobs = {}
    /\ ~fan => fanTodo = {} /\ fanJobs = {}

Slots == sem \in 0..MaxInflight /\ sem = Cardinality(Jobs) + Cardinality(fanJobs)

-----------------------------------------------------------------------------
(* Whoever follows has signed. *)

(* A new request, by a peer that signs for itself or any other. *)
LEMMA SendInv ==
    ASSUME OInv,
           NEW t \in {"Follow", "Undo", "Like", "Other"}, NEW s \in Actor \cup {Nobody},
           NEW a \in Actor, NEW h \in BOOLEAN, Send(t, s, a, h),
           signed \subseteq signed', signed' \subseteq Actor,
           store' = store, believes' \subseteq believes,
           t = "Follow" /\ s = a => a \in signed'
    PROVE  OInv'
<1>1. PICK q \in Request : req' = [req EXCEPT ![q] = [state |-> "sent", type |-> t, signer |-> s,
                                       actor |-> a, hosted |-> h]]
  BY DEF Send
<1>2. [state |-> "sent", type |-> t, signer |-> s, actor |-> a, hosted |-> h] \in Requests
  BY DEF Requests, Waiting
<1>3. Typed'
  BY <1>1, <1>2 DEF OInv, Typed
<1>4. Owned'
  BY <1>1 DEF OInv, Typed, Owned, Job
<1> QED
  BY <1>3, <1>4 DEF OInv

(* A request changes its state, to one that its type and signer admit. *)
LEMMA MoveInv ==
    ASSUME OInv, NEW r \in Request, NEW st \in Waiting \cup Job,
           req' = [req EXCEPT ![r].state = st],
           req[r].state # "none",
           st \in Job => req[r].signer = req[r].actor,
           st \in {"resolve", "accept", "add", "hung", "notify"} => req[r].type = "Follow",
           UNCHANGED signed,
           store' \cup believes' \subseteq signed
    PROVE  OInv'
<1>1. Typed'
  BY DEF OInv, Typed, Requests
<1>2. Owned'
  BY DEF OInv, Typed, Owned, Requests
<1> QED
  BY <1>1, <1>2 DEF OInv

(* A request is settled. *)
LEMMA SettleInv ==
    ASSUME OInv, NEW r \in Request, Settle(r), UNCHANGED signed,
           store' \cup believes' \subseteq signed
    PROVE  OInv'
<1>1. Free \in Requests
  BY DEF Free, Requests
<1>2. Typed'
  BY <1>1 DEF OInv, Typed, Settle
<1>3. Owned'
  BY DEF OInv, Typed, Owned, Settle, Free, Job
<1> QED
  BY <1>2, <1>3 DEF OInv

(* The handler with its refusals. *)
LEMMA HandleInv ==
    ASSUME OInv, NEW r \in Request, HandleInbox(r)
    PROVE  OInv'
<1>1. /\ req[r].state = "sent" /\ UNCHANGED <<signed, store, believes>>
      /\ store' \cup believes' \subseteq signed
  BY DEF HandleInbox, OInv, Typed
<1>2. CASE Settle(r)
  BY <1>1, <1>2, SettleInv
<1>3. CASE /\ req[r].signer = req[r].actor
           /\ \/ req[r].type = "Follow" /\ TryAcquire(r, "resolve")
              \/ TryAcquire(r, "forward")
  <2>1. \E st \in {"busy", "resolve", "forward"} :
           /\ req' = [req EXCEPT ![r].state = st]
           /\ st = "resolve" => req[r].type = "Follow"
    BY <1>3 DEF TryAcquire
  <2> QED
    BY <1>1, <1>3, <2>1, MoveInv DEF Waiting, Job
<1> QED
  BY <1>2, <1>3 DEF HandleInbox

(* The steps of the goroutines. *)
LEMMA JobInv ==
    ASSUME OInv, NEW r \in Request,
           ResolveInbox(r) \/ PostAccept(r) \/ AddFollower(r) \/ AddHangs(r)
           \/ OnFollowed(r) \/ Forward(r)
    PROVE  OInv'
<1>1. CASE ResolveInbox(r)
  <2>1. req[r].state = "resolve" /\ UNCHANGED signed /\ store' \cup believes' \subseteq signed
    BY <1>1 DEF ResolveInbox, OInv, Typed
  <2>2. Settle(r) \/ req' = [req EXCEPT ![r].state = "accept"]
    BY <1>1 DEF ResolveInbox, EndJob
  <2> QED
    BY <2>1, <2>2, SettleInv, MoveInv DEF OInv, Owned, Job
<1>2. CASE PostAccept(r)
  <2>1. req[r].state = "accept" /\ UNCHANGED signed /\ req[r].actor \in signed
    BY <1>2 DEF PostAccept, OInv, Owned, Job
  <2>2. store' \cup believes' \subseteq signed
    BY <1>2, <2>1 DEF PostAccept, OInv, Typed
  <2>3. Settle(r) \/ req' = [req EXCEPT ![r].state = "add"]
    BY <1>2 DEF PostAccept, EndJob
  <2> QED
    BY <2>1, <2>2, <2>3, SettleInv, MoveInv DEF OInv, Owned, Job
<1>3. CASE AddFollower(r)
  <2>1. req[r].state = "add" /\ UNCHANGED signed /\ req[r].actor \in signed
    BY <1>3 DEF AddFollower, OInv, Owned, Job
  <2>2. store' \cup believes' \subseteq signed
    BY <1>3, <2>1 DEF AddFollower, OInv, Typed
  <2>3. req' = [req EXCEPT ![r].state = "notify"]
    BY <1>3 DEF AddFollower
  <2> QED
    BY <2>1, <2>2, <2>3, MoveInv DEF OInv, Owned, Job
<1>4. CASE OnFollowed(r) \/ Forward(r)
  <2>1. Settle(r) /\ UNCHANGED signed /\ store' \cup believes' \subseteq signed
    BY <1>4 DEF OnFollowed, Forward, EndJob, OInv, Typed
  <2> QED
    BY <2>1, SettleInv
<1>5. CASE AddHangs(r)
  <2>1. req[r].state = "add" /\ UNCHANGED signed /\ req[r].actor \in signed
    BY <1>5 DEF AddHangs, OInv, Owned, Job
  <2>2. store' \cup believes' \subseteq signed
    BY <1>5, <2>1 DEF AddHangs, OInv, Typed
  <2>3. req' = [req EXCEPT ![r].state = "hung"]
    BY <1>5 DEF AddHangs
  <2> QED
    BY <2>1, <2>2, <2>3, MoveInv DEF OInv, Owned, Job
<1> QED
  BY <1>1, <1>2, <1>3, <1>4, <1>5

(* The steps of the peers. *)
LEMMA PeerInv ==
    ASSUME OInv,
           \/ \E a \in Actor, h \in BOOLEAN : SendFollow(a, h)
           \/ \E a \in Actor : SendUndo(a)
           \/ \E t \in {"Follow", "Like", "Other"}, a \in Actor, s \in Actor \cup {Nobody} :
                 SendOther(t, s, a)
           \/ \E r \in Request : Retry(r)
    PROVE  OInv'
<1>1. ASSUME NEW a \in Actor, NEW h \in BOOLEAN, SendFollow(a, h) PROVE OInv'
  <2>1. /\ Send("Follow", a, a, h) /\ signed' = signed \cup {a}
        /\ UNCHANGED <<store, believes>>
    BY <1>1 DEF SendFollow
  <2> QED
    BY <2>1, SendInv DEF OInv, Typed
<1>2. ASSUME NEW a \in Actor, SendUndo(a) PROVE OInv'
  <2>1. /\ Send("Undo", a, a, TRUE) /\ UNCHANGED <<signed, store>>
        /\ believes' \subseteq believes
    BY <1>2 DEF SendUndo
  <2> QED
    BY <2>1, SendInv DEF OInv, Typed
<1>3. ASSUME NEW t \in {"Follow", "Like", "Other"}, NEW a \in Actor,
             NEW s \in Actor \cup {Nobody}, SendOther(t, s, a)
      PROVE  OInv'
  <2>1. /\ Send(t, s, a, TRUE) /\ UNCHANGED <<signed, store, believes>>
        /\ t = "Follow" => s # a
    BY <1>3 DEF SendOther
  <2> QED
    BY <2>1, SendInv DEF OInv, Typed
<1>4. ASSUME NEW r \in Request, Retry(r) PROVE OInv'
  <2>1. /\ req[r].state = "busy" /\ req' = [req EXCEPT ![r].state = "sent"]
        /\ UNCHANGED <<signed, store, believes>>
    BY <1>4 DEF Retry
  <2> QED
    BY <2>1, MoveInv DEF OInv, Typed, Waiting, Job
<1> QED
  BY <1>1, <1>2, <1>3, <1>4

(* A restart forgets jobs and no owner. *)
LEMMA RestartOwned == ASSUME OInv, Restart PROVE OInv'
<1>1. Free \in Requests
  BY DEF Free, Requests
<1>2. /\ req' = [r \in Request |-> IF req[r].state \in Job THEN Free ELSE req[r]]
      /\ UNCHANGED <<signed, store, believes>>
  BY DEF Restart
<1>3. Typed'
  BY <1>1, <1>2 DEF OInv, Typed
<1>4. Owned'
  BY <1>2 DEF OInv, Typed, Owned, Free, Job
<1> QED
  BY <1>3, <1>4 DEF OInv

(* Every step keeps it. *)
LEMMA OwnedStep == OInv /\ [Next]_vars => OInv'
<1> SUFFICES ASSUME OInv, [Next]_vars PROVE OInv'
  OBVIOUS
<1>1. CASE \E r \in Request : \/ HandleInbox(r) \/ ResolveInbox(r) \/ PostAccept(r)
                             \/ AddFollower(r) \/ AddHangs(r) \/ OnFollowed(r)
                             \/ Forward(r)
  BY <1>1, HandleInv, JobInv
<1>2. CASE \/ Publish \/ FanCancelled \/ FanDone
           \/ \E f \in Actor : FanAcquire(f) \/ FanDelivered(f)
  BY <1>2 DEF OInv, Typed, Owned, Publish, FanCancelled, FanDone, FanAcquire, FanDelivered
<1>3. CASE UNCHANGED vars
  BY <1>3 DEF OInv, Typed, Owned, vars
<1> QED
  BY <1>1, <1>2, <1>3, PeerInv, RestartOwned DEF Next

(* It holds before the first request. *)
LEMMA OwnedInit == Init => OInv
<1>1. Free \in Requests
  BY DEF Free, Requests
<1>2. Init => Typed
  BY <1>1 DEF Init, Typed
<1>3. Init => Owned
  BY DEF Init, Owned, Free, Job
<1> QED
  BY <1>2, <1>3 DEF OInv

(* "The signer owns the activity" (handleInbox): nobody is a follower, here *)
(* or in their own eyes, without a Follow they signed.                      *)
THEOREM FollowersSigned == Spec => []SignerOwnsFollow
<1>1. OInv => SignerOwnsFollow
  BY DEF OInv, Typed, SignerOwnsFollow
<1> QED
  BY <1>1, OwnedInit, OwnedStep, PTL DEF Spec

-----------------------------------------------------------------------------
(* Every slot is accounted for. *)
SInv == OInv /\ Fan /\ Slots

(* The sets that are counted are finite. *)
LEMMA FiniteJobs ==
    /\ IsFiniteSet(Jobs) /\ Cardinality(Jobs) \in Nat
    /\ fanJobs \subseteq Actor => IsFiniteSet(fanJobs) /\ Cardinality(fanJobs) \in Nat
<1>1. IsFiniteSet(Request)
  BY InboxAssumption, FS_Interval DEF Request
<1>2. Jobs \in SUBSET Request
  BY DEF Jobs
<1>3. IsFiniteSet(Jobs)
  BY <1>1, <1>2, FS_Subset
<1>4. fanJobs \subseteq Actor => IsFiniteSet(fanJobs)
  BY InboxAssumption, FS_Subset
<1> QED
  BY <1>3, <1>4, FS_CardinalityType

(* A request that gets a slot is one job more, ... *)
LEMMA JobBegins ==
    ASSUME Typed, NEW r \in Request, NEW job \in Job, req[r].state \notin Job,
           req' = [req EXCEPT ![r].state = job]
    PROVE  Cardinality(Jobs)' = Cardinality(Jobs) + 1
<1>1. Jobs' = Jobs \cup {r} /\ r \notin Jobs
  BY DEF Jobs, Typed, Requests
<1> QED
  BY <1>1, FiniteJobs, FS_AddElement

(* ... one that ends is one less, ... *)
LEMMA JobEnds ==
    ASSUME Typed, NEW r \in Request, req[r].state \in Job, Settle(r)
    PROVE  Cardinality(Jobs)' = Cardinality(Jobs) - 1 /\ Cardinality(Jobs)' \in Nat
<1>1. Jobs' = Jobs \ {r} /\ r \in Jobs
  BY DEF Jobs, Typed, Settle, Free, Job
<1> QED
  BY <1>1, FiniteJobs, FS_RemoveElement, FS_CardinalityType

(* ... and nothing else changes their number. *)
LEMMA JobsStay ==
    ASSUME Typed, NEW r \in Request,
           \/ /\ Settle(r) /\ req[r].state \notin Job
           \/ \E st \in {"sent", "busy"} : /\ req[r].state \notin Job
                                          /\ req' = [req EXCEPT ![r].state = st]
           \/ \E st \in Job : /\ req[r].state \in Job
                             /\ req' = [req EXCEPT ![r].state = st]
           \/ \E x \in Requests : /\ req[r] = Free /\ x.state = "sent"
                                  /\ req' = [req EXCEPT ![r] = x]
    PROVE  Jobs' = Jobs
  BY DEF Typed, Settle, Jobs, Free, Job, Requests

(* A job that ends gives its slot back. *)
LEMMA EndJobSlots ==
    ASSUME SInv, NEW r \in Request, req[r].state \in Job, EndJob(r), UNCHANGED fanJobs
    PROVE  Slots'
<1>1. /\ Cardinality(Jobs)' = Cardinality(Jobs) - 1 /\ Cardinality(Jobs)' \in Nat
      /\ sem' = sem - 1
  BY JobEnds DEF SInv, OInv, EndJob
<1> QED
  BY <1>1, FiniteJobs, InboxAssumption DEF SInv, Fan, Slots

(* A step that keeps the jobs and the counter keeps the account. *)
LEMMA SameSlots ==
    ASSUME SInv, Jobs' = Jobs, UNCHANGED <<sem, fanJobs>>
    PROVE  Slots'
  BY DEF SInv, Slots

(* The handler: a slot is taken only when one is free. *)
LEMMA HandleSlots ==
    ASSUME SInv, NEW r \in Request, HandleInbox(r)
    PROVE  Slots'
<1>1. req[r].state = "sent" /\ UNCHANGED fanJobs /\ Typed
  BY DEF HandleInbox, fanout, SInv, OInv
<1>2. CASE Settle(r) /\ UNCHANGED sem
  BY <1>1, <1>2, JobsStay, SameSlots DEF Job
<1>3. ASSUME NEW job \in {"resolve", "forward"}, TryAcquire(r, job) PROVE Slots'
  <2>1. CASE sem < MaxInflight
    <3>1. req' = [req EXCEPT ![r].state = job] /\ sem' = sem + 1
      BY <1>3, <2>1 DEF TryAcquire
    <3>2. Cardinality(Jobs)' = Cardinality(Jobs) + 1
      BY <1>1, <3>1, JobBegins DEF Job
    <3> QED
      BY <1>1, <2>1, <3>1, <3>2, FiniteJobs, InboxAssumption DEF SInv, Fan, Slots
  <2>2. CASE ~(sem < MaxInflight)
    <3>1. req' = [req EXCEPT ![r].state = "busy"] /\ sem' = sem
      BY <1>3, <2>2 DEF TryAcquire
    <3> QED
      BY <1>1, <3>1, JobsStay, SameSlots DEF Job
  <2> QED
    BY <2>1, <2>2
<1> QED
  BY <1>2, <1>3 DEF HandleInbox

(* The goroutines of the inbox, on every path. *)
LEMMA JobSlots ==
    ASSUME SInv, NEW r \in Request,
           ResolveInbox(r) \/ PostAccept(r) \/ AddFollower(r) \/ AddHangs(r)
           \/ OnFollowed(r) \/ Forward(r)
    PROVE  Slots'
<1>1. req[r].state \in Job /\ UNCHANGED fanJobs /\ Typed
  BY DEF ResolveInbox, PostAccept, AddFollower, AddHangs, OnFollowed, Forward, Job, fanout, SInv, OInv
<1>2. CASE EndJob(r)
  BY <1>1, <1>2, EndJobSlots
<1>3. CASE UNCHANGED sem /\ \E st \in Job : req' = [req EXCEPT ![r].state = st]
  BY <1>1, <1>3, JobsStay, SameSlots
<1> QED
  BY <1>2, <1>3 DEF ResolveInbox, PostAccept, AddFollower, AddHangs, OnFollowed, Forward, Job

(* The peers take no slot. *)
LEMMA SendSlots ==
    ASSUME SInv, NEW t \in {"Follow", "Undo", "Like", "Other"}, NEW s \in Actor \cup {Nobody},
           NEW a \in Actor, NEW h \in BOOLEAN, Send(t, s, a, h), UNCHANGED <<sem, fanJobs>>
    PROVE  Slots'
<1>1. PICK q \in Request :
        /\ req[q] = Free
        /\ req' = [req EXCEPT ![q] = [state |-> "sent", type |-> t, signer |-> s,
                                     actor |-> a, hosted |-> h]]
  BY DEF Send
<1>2. [state |-> "sent", type |-> t, signer |-> s, actor |-> a, hosted |-> h] \in Requests
  BY DEF Requests, Waiting
<1>3. Jobs' = Jobs
  BY <1>1, <1>2, JobsStay DEF SInv, OInv
<1> QED
  BY <1>3, SameSlots

LEMMA PeerSlots ==
    ASSUME SInv,
           \/ \E a \in Actor, h \in BOOLEAN : SendFollow(a, h)
           \/ \E a \in Actor : SendUndo(a)
           \/ \E t \in {"Follow", "Like", "Other"}, a \in Actor, s \in Actor \cup {Nobody} :
                 SendOther(t, s, a)
           \/ \E r \in Request : Retry(r)
    PROVE  Slots'
<1>1. ASSUME NEW a \in Actor, NEW h \in BOOLEAN, SendFollow(a, h) PROVE Slots'
  BY <1>1, SendSlots DEF SendFollow, fanout
<1>2. ASSUME NEW a \in Actor, SendUndo(a) PROVE Slots'
  BY <1>2, SendSlots DEF SendUndo, fanout
<1>3. ASSUME NEW t \in {"Follow", "Like", "Other"}, NEW a \in Actor,
             NEW s \in Actor \cup {Nobody}, SendOther(t, s, a)
      PROVE  Slots'
  BY <1>3, SendSlots DEF SendOther, fanout
<1>4. ASSUME NEW r \in Request, Retry(r) PROVE Slots'
  <2>1. /\ req[r].state = "busy" /\ req' = [req EXCEPT ![r].state = "sent"]
        /\ UNCHANGED <<sem, fanJobs>>
    BY <1>4 DEF Retry, fanout
  <2>2. Jobs' = Jobs
    BY <2>1, JobsStay DEF SInv, OInv, Job
  <2> QED
    BY <2>1, <2>2, SameSlots
<1> QED
  BY <1>1, <1>2, <1>3, <1>4

(* The fan-out takes a slot for a follower that has none, and gives it     *)
(* back once.                                                              *)
LEMMA FanSlots ==
    ASSUME SInv, NEW f \in Actor, FanAcquire(f) \/ FanDelivered(f)
    PROVE  Slots'
<1>1. Jobs' = Jobs
  BY DEF FanAcquire, FanDelivered, Jobs
<1>2. IsFiniteSet(fanJobs) /\ Cardinality(fanJobs) \in Nat /\ Cardinality(Jobs) \in Nat
  BY FiniteJobs DEF SInv, Fan
<1>3. CASE FanAcquire(f)
  <2>1. f \notin fanJobs /\ fanJobs' = fanJobs \cup {f} /\ sem' = sem + 1 /\ sem < MaxInflight
    BY <1>3 DEF FanAcquire, SInv, Fan
  <2>2. Cardinality(fanJobs') = Cardinality(fanJobs) + 1
    BY <1>2, <2>1, FS_AddElement
  <2> QED
    BY <1>1, <1>2, <2>1, <2>2, InboxAssumption DEF SInv, Slots
<1>4. CASE FanDelivered(f)
  <2>1. f \in fanJobs /\ fanJobs' = fanJobs \ {f} /\ sem' = sem - 1
    BY <1>4 DEF FanDelivered
  <2>2. Cardinality(fanJobs') = Cardinality(fanJobs) - 1
    BY <1>2, <2>1, FS_RemoveElement
  <2>3. Cardinality(fanJobs') \in Nat
    BY <1>2, <2>1, FS_RemoveElement, FS_CardinalityType
  <2> QED
    BY <1>1, <1>2, <2>1, <2>2, <2>3, InboxAssumption DEF SInv, Slots
<1> QED
  BY <1>3, <1>4

(* After a restart there are neither goroutines nor taken slots. *)
LEMMA RestartSlots == ASSUME SInv, Restart PROVE Slots'
<1>1. Jobs' = {}
  BY DEF Restart, Jobs, Free, Job
<1>2. fanJobs' = {} /\ sem' = 0
  BY DEF Restart
<1> QED
  BY <1>1, <1>2, FS_EmptySet, InboxAssumption DEF Slots

(* The followers of the fan-out wait or run, and not both. *)
LEMMA FanStep == SInv /\ [Next]_vars => Fan'
<1> SUFFICES ASSUME SInv, [Next]_vars PROVE Fan'
  OBVIOUS
<1> USE DEF Fan
<1>1. CASE \/ \E a \in Actor, h \in BOOLEAN : SendFollow(a, h)
           \/ \E a \in Actor : SendUndo(a)
           \/ \E t \in {"Follow", "Like", "Other"}, a \in Actor, s \in Actor \cup {Nobody} :
                 SendOther(t, s, a)
  BY <1>1 DEF SInv, SendFollow, SendUndo, SendOther, fanout
<1>2. CASE \E r \in Request : \/ Retry(r) \/ HandleInbox(r) \/ ResolveInbox(r)
                              \/ PostAccept(r) \/ AddFollower(r) \/ AddHangs(r)
                              \/ OnFollowed(r) \/ Forward(r)
  BY <1>2 DEF SInv, Retry, HandleInbox, ResolveInbox, PostAccept, AddFollower, AddHangs,
     OnFollowed, Forward, fanout
<1>3. CASE Publish
  BY <1>3 DEF SInv, OInv, Typed, Publish
<1>4. CASE FanCancelled \/ FanDone
  BY <1>4 DEF SInv, FanCancelled, FanDone
<1>5. CASE \E f \in Actor : FanAcquire(f) \/ FanDelivered(f)
  BY <1>5 DEF SInv, FanAcquire, FanDelivered
<1>6. CASE Restart
  BY <1>6 DEF Restart
<1>7. CASE UNCHANGED vars
  BY <1>7 DEF SInv, vars, fanout
<1> QED
  BY <1>1, <1>2, <1>3, <1>4, <1>5, <1>6, <1>7 DEF Next

(* Every step keeps the account. *)
LEMMA SlotsStep == SInv /\ [Next]_vars => SInv'
<1> SUFFICES ASSUME SInv, [Next]_vars PROVE SInv'
  OBVIOUS
<1>1. OInv' /\ Fan'
  BY OwnedStep, FanStep DEF SInv
<1>2. CASE Next
  <2>1. Publish \/ FanCancelled \/ FanDone => Slots'
    BY SameSlots DEF Publish, FanCancelled, FanDone, Jobs
  <2>2. Slots'
    BY <1>2, <2>1, PeerSlots, HandleSlots, JobSlots, FanSlots, RestartSlots DEF Next
  <2> QED
    BY <1>1, <2>2 DEF SInv
<1>3. CASE UNCHANGED vars
  BY <1>1, <1>3, SameSlots DEF vars, fanout, Jobs, SInv
<1> QED
  BY <1>2, <1>3

(* It holds at the start. *)
LEMMA SlotsInit == Init => SInv
<1> SUFFICES ASSUME Init PROVE SInv
  OBVIOUS
<1>1. Jobs = {} /\ fanJobs = {} /\ sem = 0
  BY DEF Init, Jobs, Free, Job
<1>2. Slots
  BY <1>1, FS_EmptySet, InboxAssumption DEF Slots
<1>3. Fan
  BY DEF Init, Fan
<1> QED
  BY <1>2, <1>3, OwnedInit DEF SInv

(* No path through the inbox and the fan-out leaks a slot of g.sem or      *)
(* releases one twice.                                                     *)
THEOREM NoSlotLeaks == Spec => []SlotsAccounted
<1>1. SInv => SlotsAccounted
  BY DEF SInv, Slots, Jobs, SlotsAccounted
<1> QED
  BY <1>1, SlotsInit, SlotsStep, PTL DEF Spec

(* The pool holds at most maxInflightDeliveries goroutines. *)
THEOREM PoolIsBounded == Spec => [](sem \in 0..MaxInflight)
<1>1. SInv => sem \in 0..MaxInflight
  BY DEF SInv, Slots
<1> QED
  BY <1>1, SlotsInit, SlotsStep, PTL DEF Spec

-----------------------------------------------------------------------------
(* Both sides agree on who follows. *)

(* Request r is a t that actor a signed itself. *)
Mine(r, a, t) == req[r].actor = a /\ req[r].signer = a /\ req[r].type = t

(* What the states of a request say: an entry without a state is free, and *)
(* only an Undo or another translatable activity is forwarded.             *)
Stages ==
    \A r \in Request :
        /\ req[r].state = "none" => req[r] = Free
        /\ req[r].type = "Undo" => req[r].signer = req[r].actor /\ req[r].actor \in Actor
        /\ req[r].type = "Undo" => req[r].state \in {"sent", "busy", "forward"}
        /\ req[r].state = "forward" => req[r].type \in {"Undo", "Like"}

(* A peer has one Follow in progress, and waits for the Accept until it is *)
(* delivered.                                                              *)
OneFollow ==
    \A a \in Actor : \A r \in Request : Mine(r, a, "Follow") =>
        /\ \A q \in Request : Mine(q, a, "Follow") => q = r
        /\ req[r].state \in {"sent", "busy", "resolve", "accept"} => a \notin believes

(* Unless its Follow and an Undo crossed, a peer has one of them in        *)
(* progress and knows which.                                               *)
NotCrossed ==
    \A a \in Actor \ crossed : \A r \in Request :
        /\ Mine(r, a, "Follow") => \A q \in Request : ~Mine(q, a, "Undo")
        /\ Mine(r, a, "Follow") /\ req[r].state \in {"add", "notify"} => a \in believes
        /\ Mine(r, a, "Undo") => a \notin believes

(* Who believes to follow and is not in the list is about to be added. *)
Persisted ==
    \A a \in Actor \ (unsaved \cup crossed) : a \in believes =>
        a \in store \/ \E r \in Request : Mine(r, a, "Follow") /\ req[r].state = "add"

Agreement == Stages /\ OneFollow /\ NotCrossed /\ Persisted

AInv == OInv /\ Agreement

(* Whose requests are in progress after one changes its state, ... *)
LEMMA MoveFacts ==
    ASSUME Typed, NEW r \in Request, NEW st, req' = [req EXCEPT ![r].state = st]
    PROVE  \A q \in Request :
             /\ \A a, t : Mine(q, a, t)' = Mine(q, a, t)
             /\ req'[q].state = IF q = r THEN st ELSE req[q].state
             /\ req'[q].type = req[q].type
             /\ req'[q].signer = req[q].signer /\ req'[q].actor = req[q].actor
             /\ q # r => req'[q] = req[q]
  BY DEF Typed, Requests, Mine

(* ... is settled, ... *)
LEMMA SettleFacts ==
    ASSUME Typed, NEW r \in Request, Settle(r)
    PROVE  /\ \A q \in Request : q # r => req'[q] = req[q]
           /\ req'[r] = Free
           /\ \A q \in Request : \A a, t : t # "none" => (Mine(q, a, t)' <=> q # r /\ Mine(q, a, t))
  BY DEF Typed, Settle, Mine, Free

(* ... or is sent. *)
LEMMA SendFacts ==
    ASSUME Typed, NEW t, NEW s, NEW b, NEW h, Send(t, s, b, h)
    PROVE  \E r \in Request :
             /\ req[r] = Free
             /\ req'[r].state = "sent" /\ req'[r].type = t
             /\ req'[r].signer = s /\ req'[r].actor = b
             /\ \A q \in Request : q # r => req'[q] = req[q]
             /\ \A q \in Request : \A a, u : u # "none" =>
                   (Mine(q, a, u)' <=> \/ q # r /\ Mine(q, a, u)
                                       \/ q = r /\ a = b /\ a = s /\ u = t)
<1>1. PICK r \in Request :
        /\ req[r] = Free
        /\ req' = [req EXCEPT ![r] = [state |-> "sent", type |-> t, signer |-> s,
                                     actor |-> b, hosted |-> h]]
  BY DEF Send
<1> QED
  BY <1>1 DEF Typed, Mine

(* The agreement is kept by a step that changes the state of a request and *)
(* nothing that either side knows: a retry, the handler, remoteInbox.      *)
LEMMA MoveAgreement ==
    ASSUME AInv, NEW r \in Request, NEW st \in {"sent", "busy", "resolve", "accept", "forward"},
           req' = [req EXCEPT ![r].state = st],
           req[r].state \in {"sent", "busy", "resolve"},
           st \in {"resolve", "accept"} => req[r].type # "Undo",
           st = "forward" => req[r].type \in {"Undo", "Like"},
           UNCHANGED <<believes, store, unsaved, crossed>>
    PROVE  Agreement'
<1> USE DEF AInv, Agreement, OInv
<1>1. \A q \in Request :
        /\ \A a, t : Mine(q, a, t)' = Mine(q, a, t)
        /\ req'[q].state = IF q = r THEN st ELSE req[q].state
        /\ req'[q].type = req[q].type
        /\ req'[q].signer = req[q].signer /\ req'[q].actor = req[q].actor
        /\ q # r => req'[q] = req[q]
  BY MoveFacts
<1>2. \A a, t : Mine(r, a, t) => req[r].type = t
  BY DEF Mine
<1>3. Stages'
  BY <1>1 DEF Stages
<1>4. OneFollow'
  BY <1>1, <1>2 DEF OneFollow
<1>5. NotCrossed'
  BY <1>1, <1>2 DEF NotCrossed
<1>6. Persisted'
  BY <1>1 DEF Persisted
<1> QED
  BY <1>3, <1>4, <1>5, <1>6

(* It is kept when a request is settled that is no Follow between the      *)
(* Accept and the Add.                                                     *)
LEMMA SettleAgreement ==
    ASSUME AInv, NEW r \in Request, Settle(r), req[r].state # "add",
           UNCHANGED <<believes, store, unsaved, crossed>>
    PROVE  Agreement'
<1> USE DEF AInv, Agreement, OInv
<1>1. /\ \A q \in Request : q # r => req'[q] = req[q]
      /\ req'[r] = Free
      /\ \A q \in Request : \A a, t : t # "none" => (Mine(q, a, t)' <=> q # r /\ Mine(q, a, t))
  BY SettleFacts
<1>2. \A a, t : Mine(r, a, t) => req[r].type = t
  BY DEF Mine
<1>3. Stages'
  <2>1. Free.state = "none" /\ Free.type = "none"
    BY DEF Free
  <2> QED
    BY <1>1, <2>1 DEF Stages
<1>4. OneFollow'
  BY <1>1 DEF OneFollow
<1>5. NotCrossed'
  BY <1>1 DEF NotCrossed
<1>6. Persisted'
  BY <1>1 DEF Persisted
<1> QED
  BY <1>3, <1>4, <1>5, <1>6

(* The peers. *)
LEMMA FollowAgreement ==
    ASSUME AInv, NEW b \in Actor, NEW h \in BOOLEAN, SendFollow(b, h)
    PROVE  Agreement'
<1> USE DEF AInv, Agreement, OInv
<1>1. PICK r \in Request :
        /\ req[r] = Free
        /\ req'[r].state = "sent" /\ req'[r].type = "Follow"
        /\ req'[r].signer = b /\ req'[r].actor = b
        /\ \A q \in Request : q # r => req'[q] = req[q]
        /\ \A q \in Request : \A a, u : u # "none" =>
              (Mine(q, a, u)' <=> \/ q # r /\ Mine(q, a, u)
                                  \/ q = r /\ a = b /\ a = b /\ u = "Follow")
  <2>1. Send("Follow", b, b, h) /\ Typed
    BY DEF SendFollow
  <2> QED
    BY <2>1, SendFacts
<1>2. /\ b \notin believes /\ UNCHANGED <<believes, store, unsaved>>
      /\ \A q \in Request : ~Mine(q, b, "Follow")
      /\ (\E q \in Request : Mine(q, b, "Undo")) => b \in crossed'
      /\ crossed \subseteq crossed'
  BY DEF SendFollow, InProgress, Mine
<1>3. Stages'
  BY <1>1 DEF Stages
<1>4. \A a, u : u # "none" => ~Mine(r, a, u)
  BY <1>1 DEF Mine, Free
<1>5. OneFollow'
  BY <1>1, <1>2 DEF OneFollow
<1>6. NotCrossed'
  BY <1>1, <1>2 DEF NotCrossed
<1>7. Persisted'
  BY <1>1, <1>2, <1>4 DEF Persisted
<1> QED
  BY <1>3, <1>5, <1>6, <1>7

LEMMA UndoAgreement ==
    ASSUME AInv, NEW b \in Actor, SendUndo(b)
    PROVE  Agreement'
<1> USE DEF AInv, Agreement, OInv
<1>1. PICK r \in Request :
        /\ req[r] = Free
        /\ req'[r].state = "sent" /\ req'[r].type = "Undo"
        /\ req'[r].signer = b /\ req'[r].actor = b
        /\ \A q \in Request : q # r => req'[q] = req[q]
        /\ \A q \in Request : \A a, u : u # "none" =>
              (Mine(q, a, u)' <=> \/ q # r /\ Mine(q, a, u)
                                  \/ q = r /\ a = b /\ a = b /\ u = "Undo")
  <2>1. Typed /\ \E h \in BOOLEAN : Send("Undo", b, b, h)
    BY DEF SendUndo
  <2> QED
    BY <2>1, SendFacts
<1>2. /\ believes' = believes \ {b} /\ UNCHANGED <<store, unsaved>>
      /\ (\E q \in Request : Mine(q, b, "Follow")) => b \in crossed'
      /\ crossed \subseteq crossed'
  BY DEF SendUndo, InProgress, Mine
<1>3. Stages'
  BY <1>1 DEF Stages
<1>4. \A a, u : u # "none" => ~Mine(r, a, u)
  BY <1>1 DEF Mine, Free
<1>5. OneFollow'
  BY <1>1, <1>2 DEF OneFollow
<1>6. NotCrossed'
  BY <1>1, <1>2 DEF NotCrossed
<1>7. Persisted'
  BY <1>1, <1>2, <1>4 DEF Persisted
<1> QED
  BY <1>3, <1>5, <1>6, <1>7

LEMMA OtherAgreement ==
    ASSUME AInv, NEW t \in {"Follow", "Like", "Other"}, NEW b \in Actor,
           NEW s \in Actor \cup {Nobody}, SendOther(t, s, b)
    PROVE  Agreement'
<1> USE DEF AInv, Agreement, OInv
<1>1. PICK r \in Request :
        /\ req[r] = Free
        /\ req'[r].state = "sent" /\ req'[r].type = t
        /\ req'[r].signer = s /\ req'[r].actor = b
        /\ \A q \in Request : q # r => req'[q] = req[q]
        /\ \A q \in Request : \A a, u : u # "none" =>
              (Mine(q, a, u)' <=> \/ q # r /\ Mine(q, a, u)
                                  \/ q = r /\ a = b /\ a = s /\ u = t)
  <2>1. Typed /\ \E h \in BOOLEAN : Send(t, s, b, h)
    BY DEF SendOther
  <2> QED
    BY <2>1, SendFacts
<1>2. UNCHANGED <<believes, store, unsaved, crossed>> /\ (t = "Follow" => s # b)
  BY DEF SendOther, history
<1>3. Stages'
  BY <1>1 DEF Stages
<1>4. \A a, u : u # "none" => ~Mine(r, a, u)
  BY <1>1 DEF Mine, Free
<1>5. \A q \in Request : \A a : /\ Mine(q, a, "Follow")' <=> Mine(q, a, "Follow")
                                /\ Mine(q, a, "Undo")' <=> Mine(q, a, "Undo")
  BY <1>1, <1>2, <1>4
<1>6. OneFollow'
  BY <1>1, <1>2, <1>4, <1>5 DEF OneFollow
<1>7. NotCrossed'
  BY <1>1, <1>2, <1>4, <1>5 DEF NotCrossed
<1>8. Persisted'
  BY <1>1, <1>2, <1>4, <1>5 DEF Persisted
<1> QED
  BY <1>3, <1>6, <1>7, <1>8

(* The handler: a request that it refuses, rightly or not, leaves a peer   *)
(* that is no follower.                                                    *)
LEMMA HandleAgreement ==
    ASSUME AInv, NEW r \in Request, HandleInbox(r)
    PROVE  Agreement'
<1>1. req[r].state = "sent" /\ UNCHANGED <<believes, store, unsaved, crossed>>
  BY DEF HandleInbox, history
<1>2. CASE Settle(r)
  BY <1>1, <1>2, SettleAgreement
<1>3. CASE req[r].type = "Follow" /\ TryAcquire(r, "resolve")
  <2>1. \E st \in {"busy", "resolve"} : req' = [req EXCEPT ![r].state = st]
    BY <1>3 DEF TryAcquire
  <2> QED
    BY <1>1, <1>3, <2>1, MoveAgreement
<1>4. CASE req[r].type \in {"Undo", "Like"} /\ TryAcquire(r, "forward")
  <2>1. \E st \in {"busy", "forward"} : req' = [req EXCEPT ![r].state = st]
    BY <1>4 DEF TryAcquire
  <2> QED
    BY <1>1, <1>4, <2>1, MoveAgreement
<1> QED
  BY <1>2, <1>3, <1>4 DEF HandleInbox

(* postSigned of the Accept: from here on the peer believes to follow. *)
LEMMA AcceptAgreement ==
    ASSUME AInv, NEW r \in Request, PostAccept(r)
    PROVE  Agreement'
<1> USE DEF AInv, Agreement, OInv
<1> DEFINE b == req[r].actor
<1>1. /\ req[r].state = "accept" /\ req[r].type = "Follow" /\ Mine(r, b, "Follow")
      /\ b \in signed /\ b \in Actor /\ UNCHANGED <<store, crossed>>
  BY DEF PostAccept, Typed, Owned, Job, Mine
<1>2. CASE /\ req' = [req EXCEPT ![r].state = "add"] /\ believes' = believes \cup {b}
           /\ UNCHANGED unsaved
  <2>1. \A q \in Request :
          /\ \A a, t : Mine(q, a, t)' = Mine(q, a, t)
          /\ req'[q].state = IF q = r THEN "add" ELSE req[q].state
          /\ req'[q].type = req[q].type
          /\ req'[q].signer = req[q].signer /\ req'[q].actor = req[q].actor
          /\ q # r => req'[q] = req[q]
    BY <1>2, MoveFacts
  <2> HIDE DEF b
  <2>2. Stages'
    BY <1>1, <2>1 DEF Stages
  <2>3. OneFollow'
    BY <1>1, <1>2, <2>1 DEF OneFollow
  <2>4. \A a : Mine(r, a, "Follow") => a = b
    BY <1>1 DEF Mine
  <2>5. NotCrossed'
    BY <1>1, <1>2, <2>1, <2>4 DEF NotCrossed
  <2>6. Persisted'
    BY <1>1, <1>2, <2>1 DEF Persisted
  <2> QED
    BY <2>2, <2>3, <2>5, <2>6
<1>3. CASE Settle(r) /\ UNCHANGED <<believes, unsaved>>
  BY <1>1, <1>3, SettleAgreement
<1>4. CASE /\ Settle(r) /\ believes' = believes \cup {b} /\ unsaved' = unsaved \cup {b}
  <2>1. /\ \A q \in Request : q # r => req'[q] = req[q]
        /\ req'[r] = Free
        /\ \A q \in Request : \A a, t : t # "none" => (Mine(q, a, t)' <=> q # r /\ Mine(q, a, t))
    BY <1>4, SettleFacts
  <2> HIDE DEF b
  <2>2. Stages'
    <3>1. Free.state = "none" /\ Free.type = "none"
      BY DEF Free
    <3> QED
      BY <2>1, <3>1 DEF Stages
  <2>3. OneFollow'
    BY <1>1, <1>4, <2>1 DEF OneFollow
  <2>4. NotCrossed'
    BY <1>1, <1>4, <2>1 DEF NotCrossed
  <2>5. Persisted'
    BY <1>1, <1>4, <2>1 DEF Persisted
  <2> QED
    BY <2>2, <2>3, <2>4, <2>5
<1> QED
  BY <1>2, <1>3, <1>4 DEF PostAccept, EndJob

(* followers.Add: the peer is in the list, or is recorded as not saved,    *)
(* whether the call fails or hangs.                                        *)
LEMMA AddAgreement ==
    ASSUME AInv, NEW r \in Request, AddFollower(r) \/ AddHangs(r)
    PROVE  Agreement'
<1> USE DEF AInv, Agreement, OInv
<1> DEFINE b == req[r].actor
<1>1. /\ req[r].state = "add" /\ req[r].type = "Follow" /\ Mine(r, b, "Follow")
      /\ b \in Actor /\ UNCHANGED <<believes, crossed>>
      /\ \/ store' = store \cup {b} /\ unsaved' = unsaved \ {b}
         \/ store' \in {store, store \cup {b}} /\ unsaved' = unsaved \cup {b}
  BY DEF AddFollower, AddHangs, Typed, Owned, Job, Mine
<1>2. PICK st \in {"notify", "hung"} : req' = [req EXCEPT ![r].state = st]
  BY DEF AddFollower, AddHangs
<1>3. \A q \in Request :
        /\ \A a, t : Mine(q, a, t)' = Mine(q, a, t)
        /\ req'[q].state = IF q = r THEN st ELSE req[q].state
        /\ req'[q].type = req[q].type
        /\ req'[q].signer = req[q].signer /\ req'[q].actor = req[q].actor
        /\ q # r => req'[q] = req[q]
  BY <1>2, MoveFacts
<1>4. \A a : Mine(r, a, "Follow") => a = b
  BY DEF Mine
<1> HIDE DEF b
<1>5. Stages'
  BY <1>1, <1>3 DEF Stages
<1>6. OneFollow'
  BY <1>1, <1>3 DEF OneFollow
<1>7. NotCrossed'
  BY <1>1, <1>3 DEF NotCrossed
<1>8. Persisted'
  BY <1>1, <1>3, <1>4 DEF Persisted
<1> QED
  BY <1>5, <1>6, <1>7, <1>8

(* The forwarded Undo: the peer leaves the list, if its owner's node has   *)
(* the request, and no longer believes to follow.                          *)
LEMMA ForwardAgreement ==
    ASSUME AInv, NEW r \in Request, Forward(r)
    PROVE  Agreement'
<1> USE DEF AInv, Agreement, OInv
<1> DEFINE b == req[r].actor
<1>1. /\ req[r].state = "forward" /\ Settle(r) /\ UNCHANGED <<believes, unsaved, crossed>>
      /\ req[r].type \in {"Undo", "Like"}
  BY DEF Forward, EndJob, Stages, history
<1>2. CASE req[r].type # "Undo"
  BY <1>1, <1>2, SettleAgreement DEF Forward
<1>3. CASE req[r].type = "Undo"
  <2>1. store' \in {store, store \ {b}}
    BY <1>3 DEF Forward
  <2>2. Mine(r, b, "Undo") /\ \A a, t : Mine(r, a, t) => a = b /\ t = "Undo"
    BY <1>3 DEF Stages, Mine
  <2>3. /\ \A q \in Request : q # r => req'[q] = req[q]
        /\ req'[r] = Free
        /\ \A q \in Request : \A a, t : t # "none" => (Mine(q, a, t)' <=> q # r /\ Mine(q, a, t))
    BY <1>1, SettleFacts
  <2> HIDE DEF b
  <2>4. Stages'
    <3>1. Free.state = "none" /\ Free.type = "none"
      BY DEF Free
    <3> QED
      BY <2>3, <3>1 DEF Stages
  <2>5. OneFollow'
    BY <1>1, <2>3 DEF OneFollow
  <2>6. NotCrossed'
    BY <1>1, <2>3 DEF NotCrossed
  <2>7. Persisted'
    BY <1>1, <2>1, <2>2, <2>3 DEF Persisted, NotCrossed
  <2> QED
    BY <2>4, <2>5, <2>6, <2>7
<1> QED
  BY <1>2, <1>3

(* A restart: what it loses between the Accept and the Add is recorded. *)
LEMMA RestartAgreement ==
    ASSUME AInv, Restart
    PROVE  Agreement'
<1> USE DEF AInv, Agreement, OInv
<1>1. /\ \A q \in Request : req'[q] = IF req[q].state \in Job THEN Free ELSE req[q]
      /\ UNCHANGED <<believes, store, crossed>>
      /\ unsaved \subseteq unsaved'
      /\ \A q \in Request : req[q].state = "add" => req[q].actor \in unsaved'
  BY DEF Restart
<1>2. \A q \in Request : \A a, t : t # "none" =>
        (Mine(q, a, t)' <=> req[q].state \notin Job /\ Mine(q, a, t))
  BY <1>1 DEF Mine, Free
<1>3. Free.state = "none" /\ Free.type = "none"
  BY DEF Free
<1>4. Stages'
  BY <1>1, <1>3 DEF Stages
<1>5. OneFollow'
  BY <1>1, <1>2 DEF OneFollow
<1>6. NotCrossed'
  BY <1>1, <1>2 DEF NotCrossed
<1>7. Persisted'
  BY <1>1, <1>2 DEF Persisted, Mine
<1> QED
  BY <1>4, <1>5, <1>6, <1>7

(* Every step keeps the agreement. *)
LEMMA AgreementStep == AInv /\ [Next]_vars => AInv'
<1> SUFFICES ASSUME AInv, [Next]_vars PROVE AInv'
  OBVIOUS
<1>1. OInv'
  BY OwnedStep DEF AInv
<1>2. ASSUME NEW r \in Request, Retry(r) PROVE Agreement'
  <2>1. /\ req[r].state = "busy" /\ req' = [req EXCEPT ![r].state = "sent"]
        /\ UNCHANGED <<believes, store, unsaved, crossed>>
    BY <1>2 DEF Retry, history
  <2> QED
    BY <2>1, MoveAgreement
<1>3. ASSUME NEW r \in Request, ResolveInbox(r) PROVE Agreement'
  <2>1. /\ req[r].state = "resolve" /\ req[r].type = "Follow"
        /\ req' = [req EXCEPT ![r].state = "accept"] \/ Settle(r)
        /\ UNCHANGED <<believes, store, unsaved, crossed>>
    BY <1>3 DEF ResolveInbox, EndJob, history, AInv, OInv, Owned
  <2> QED
    BY <2>1, MoveAgreement, SettleAgreement
<1>4. ASSUME NEW r \in Request, OnFollowed(r) PROVE Agreement'
  <2>1. /\ req[r].state = "notify" /\ req[r].type = "Follow" /\ Settle(r)
        /\ UNCHANGED <<believes, store, unsaved, crossed>>
    BY <1>4 DEF OnFollowed, EndJob, history, AInv, OInv, Owned
  <2> QED
    BY <2>1, SettleAgreement
<1>5. CASE \/ Publish \/ FanCancelled \/ FanDone \/ UNCHANGED vars
           \/ \E f \in Actor : FanAcquire(f) \/ FanDelivered(f)
  <2>1. UNCHANGED <<req, believes, store, unsaved, crossed>>
    BY <1>5 DEF Publish, FanCancelled, FanDone, FanAcquire, FanDelivered, vars, history
  <2>2. Agreement'
    BY <2>1 DEF AInv, Agreement, Stages, OneFollow, NotCrossed, Persisted, Mine
  <2> QED
    BY <1>1, <2>2 DEF AInv
<1>6. CASE \/ \E a \in Actor, h \in BOOLEAN : SendFollow(a, h)
           \/ \E a \in Actor : SendUndo(a)
           \/ \E t \in {"Follow", "Like", "Other"}, a \in Actor, s \in Actor \cup {Nobody} :
                 SendOther(t, s, a)
           \/ Restart
  BY <1>1, <1>6, FollowAgreement, UndoAgreement, OtherAgreement, RestartAgreement DEF AInv
<1>7. CASE \E r \in Request : \/ Retry(r) \/ HandleInbox(r) \/ ResolveInbox(r)
                              \/ PostAccept(r) \/ AddFollower(r) \/ AddHangs(r)
                              \/ OnFollowed(r) \/ Forward(r)
  BY <1>1, <1>2, <1>3, <1>4, <1>7, HandleAgreement, AcceptAgreement, AddAgreement,
     ForwardAgreement DEF AInv
<1> QED
  BY <1>5, <1>6, <1>7 DEF Next

(* It holds before the first request. *)
LEMMA AgreementInit == Init => AInv
<1> SUFFICES ASSUME Init PROVE AInv
  OBVIOUS
<1>1. \A r \in Request : req[r] = Free
  BY DEF Init
<1>2. \A r \in Request : \A a : ~Mine(r, a, "Follow") /\ ~Mine(r, a, "Undo")
  BY <1>1 DEF Mine, Free
<1>3. Agreement
  BY <1>1, <1>2 DEF Init, Agreement, Stages, OneFollow, NotCrossed, Persisted, Free
<1> QED
  BY <1>3, OwnedInit DEF AInv

(* In a quiet state no request is anybody's. *)
LEMMA QuietMine == Quiet => \A r \in Request : \A a : ~Mine(r, a, "Follow") /\ ~Mine(r, a, "Undo")
  BY DEF Quiet, Mine, Free

(* acceptFollow: once nothing is in progress, whoever was accepted is in    *)
(* the list, unless the gateway failed between the Accept and the Add or    *)
(* the Follow crossed an Undo.                                              *)
THEOREM AcceptedArePersisted == Spec => []AcceptedIsPersisted
<1>1. AInv => AcceptedIsPersisted
  BY QuietMine DEF AInv, OInv, Typed, Agreement, Persisted, AcceptedIsPersisted
<1> QED
  BY <1>1, AgreementInit, AgreementStep, PTL DEF Spec

=============================================================================
