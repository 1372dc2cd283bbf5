------------------------------- MODULE Inbox -------------------------------
(***************************************************************************)
(* The ActivityPub inbox of one local user (inbox.go) and the fan-out of   *)
(* that user's posts (publish.go), which share the gateway's semaphore of  *)
(* delivery slots.                                                         *)
(*                                                                         *)
(* Every HTTP request is a little process: the peer sends it, the handler  *)
(* refuses, acknowledges or accepts it, and an accepted one runs on in a   *)
(* goroutine that holds a slot.  acceptFollow resolves the follower's      *)
(* inbox, delivers the Accept, persists the follower and starts            *)
(* federation, in this order; any other activity is forwarded in one step. *)
(* On 503 the peer sends the request again.                                *)
(***************************************************************************)
EXTENDS Naturals, FiniteSets

CONSTANTS Actor,         \* remote actors
          MaxInflight,   \* maxInflightDeliveries, the capacity of g.sem
          MaxConcurrent, \* bound: inbox requests in progress at a time
          MaxRequests,   \* bound: inbox requests
          MaxUndos,      \* bound: Undo(Follow) requests among them
          MaxPublishes,  \* bound: posts that are fanned out
          MaxRestarts,   \* bound: restarts of the gateway
          Faults,        \* what may fail: key, user, resolve, accept, answer, add
          MaxFaults,     \* bound: failures
          MaxHangs       \* bound: calls of followers.Add that never return

ASSUME InboxAssumption ==
    /\ IsFiniteSet(Actor)
    /\ MaxInflight \in Nat \ {0}
    /\ MaxConcurrent \in Nat /\ MaxRequests \in Nat /\ MaxUndos \in Nat /\ MaxPublishes \in Nat
    /\ MaxRestarts \in Nat /\ MaxFaults \in Nat /\ MaxHangs \in Nat
    /\ Faults \subseteq {"key", "user", "resolve", "accept", "answer", "add"}

Request == 1..MaxConcurrent

Nobody == "nobody"

(* The owner of a key is somebody. *)
ASSUME NobodyAssumption == Nobody \notin Actor

VARIABLES
    req,        \* req[r]: the r-th request in progress, see Requests
    sem,        \* slots taken in g.sem
    signed,     \* history: actors that have signed a Follow of their own
    believes,   \* peers that got an Accept and have not sent an Undo since
    store,      \* the follower list on the owner's node
    federating, \* has onFollowed started federation?
    fan,        \* is a post being fanned out?
    fanTodo,    \* followers it has no slot for yet
    fanJobs,    \* followers it is being delivered to
    sent, undos, posts, restarts, faults, hangs,   \* the bounded counters
    unsaved,    \* history: actors whose Accept went out and whose Add did not
                \* happen
    crossed     \* history: actors with a Follow and an Undo in progress at once

fanout == <<fan, fanTodo, fanJobs, posts>>
bounds == <<sent, undos, restarts, hangs>>
history == <<unsaved, crossed>>
vars == <<req, signed, sem, believes, store, federating, fanout, bounds, faults,
          history>>

(* A request is waiting for the handler, or for its retry after a 503, or  *)
(* running as a job that holds a slot; none stands for a free entry.       *)
Waiting == {"sent", "busy"}
Job == {"resolve", "accept", "add", "hung", "notify", "forward"}

Requests ==
    [state : Waiting \cup Job \cup {"none"},
     type : {"none", "Follow", "Undo", "Other", "Like"},
                   \* Like: any other translatable activity; Other: a Delete,
                   \* which is only logged, or one that is not translated
     signer : Actor \cup {Nobody},   \* whose key signed it, if it verifies
     actor : Actor \cup {Nobody},    \* whom it claims to be from
     hosted : BOOLEAN]               \* does its target exist here?

Free == [state |-> "none", type |-> "none", signer |-> Nobody,
         actor |-> Nobody, hosted |-> FALSE]

Init ==
    /\ req = [r \in Request |-> Free]
    /\ signed = {}
    /\ sem = 0
    /\ believes = {} /\ store = {} /\ federating = FALSE
    /\ fan = FALSE /\ fanTodo = {} /\ fanJobs = {}
    /\ sent = 0 /\ undos = 0 /\ posts = 0 /\ restarts = 0 /\ faults = 0
    /\ hangs = 0
    /\ unsaved = {} /\ crossed = {}

-----------------------------------------------------------------------------
(* The peers. *)
Send(t, s, a, h) ==
    /\ sent < MaxRequests
    /\ sent' = sent + 1
    /\ \E r \in Request :
          /\ req[r] = Free
          /\ \A q \in Request : q < r => req[q] # Free
          /\ req' = [req EXCEPT ![r] = [state |-> "sent", type |-> t, signer |-> s,
                                       actor |-> a, hosted |-> h]]

InProgress(a, t) == \E r \in Request : req[r].actor = a /\ req[r].signer = a /\ req[r].type = t

(* A peer that does not follow asks to, unless it already waits. *)
SendFollow(a, h) ==
    /\ a \notin believes
    /\ ~InProgress(a, "Follow")
    /\ Send("Follow", a, a, h)
    /\ signed' = signed \cup {a}
    /\ crossed' = IF InProgress(a, "Undo") THEN crossed \cup {a} ELSE crossed
    /\ UNCHANGED <<sem, believes, store, federating, fanout, undos, restarts, hangs,
                   faults, unsaved>>

(* A peer that was accepted leaves. *)
SendUndo(a) ==
    /\ undos < MaxUndos
    /\ undos' = undos + 1
    /\ a \in believes
    /\ believes' = believes \ {a}
    /\ Send("Undo", a, a, TRUE)
    /\ crossed' = IF InProgress(a, "Follow") THEN crossed \cup {a} ELSE crossed
    /\ UNCHANGED <<signed, sem, store, federating, fanout, restarts, hangs, faults, unsaved>>

(* Any other request, also one whose signature does not verify or belongs  *)
(* to somebody else.                                                       *)
SendOther(t, s, a) ==
    /\ t = "Follow" => s # a
    /\ Send(t, s, a, TRUE)
    /\ UNCHANGED <<signed, sem, believes, store, federating, fanout, undos, restarts,
                   hangs, faults, history>>

Retry(r) ==
    /\ req[r].state = "busy"
    /\ req' = [req EXCEPT ![r].state = "sent"]
    /\ UNCHANGED <<signed, sem, believes, store, federating, fanout, bounds,
                   faults, history>>

-----------------------------------------------------------------------------
(* The request is answered, or its job has ended. *)
Settle(r) == req' = [req EXCEPT ![r] = Free]

(* The select with a default: a job with a slot, or 503. *)
TryAcquire(r, job) ==
    IF sem < MaxInflight
      THEN req' = [req EXCEPT ![r].state = job] /\ sem' = sem + 1
      ELSE req' = [req EXCEPT ![r].state = "busy"] /\ UNCHANGED sem

(* The deferred release when a job's goroutine returns.  First a faulty     *)
(* variant where the early returns of acceptFollow keep the slot.           *)
EndJobLeaks(r) ==
    /\ Settle(r)
    /\ sem' = IF req[r].state \in {"notify", "forward"} THEN sem - 1 ELSE sem

EndJob(r) ==
    /\ Settle(r)
    /\ sem' = sem - 1

(* handleInbox without the comparison of signer and actor, a faulty variant. *)
HandleInboxAnySigner(r) ==
    /\ req[r].state = "sent"
    /\ \/ /\ req[r].signer = Nobody \/ (req[r].type = "Follow" /\ ~req[r].hosted)
          /\ Settle(r)
          /\ UNCHANGED sem
       \/ /\ req[r].signer # Nobody
          /\ \/ req[r].type = "Follow" /\ req[r].hosted /\ TryAcquire(r, "resolve")
             \/ req[r].type \in {"Undo", "Like"} /\ TryAcquire(r, "forward")
             \/ /\ req[r].type = "Other"
                /\ Settle(r)
                /\ UNCHANGED sem
    /\ UNCHANGED <<signed, believes, store, federating, fanout, bounds, faults, history>>

(* verifyRequest: a fresh Date, the body's Digest and a signature by the   *)
(* key of some actor, whom it returns; here its verdict.                   *)
verifyRequest(r) == req[r].signer # Nobody

(* A failure of the kind k. *)
Fault(k) ==
    /\ k \in Faults /\ faults < MaxFaults
    /\ faults' = faults + 1

(* handleInbox: 401, 403 and 404; Follow; Delete; everything else.  A      *)
(* genuine request is refused all the same when the signer's key cannot be *)
(* fetched (401) or GetUser gets no answer (404), and a peer sends again   *)
(* only after a 503.                                                       *)
HandleInbox(r) ==
    /\ req[r].state = "sent"
    /\ \/ /\ \/ ~verifyRequest(r)
             \/ req[r].signer # req[r].actor
             \/ req[r].type = "Follow" /\ ~req[r].hosted
          /\ Settle(r)
          /\ UNCHANGED <<sem, faults>>
       \/ /\ Fault("key") \/ Fault("user")
          /\ Settle(r)
          /\ UNCHANGED sem
       \/ /\ verifyRequest(r) /\ req[r].signer = req[r].actor
          /\ \/ req[r].type = "Follow" /\ req[r].hosted /\ TryAcquire(r, "resolve")
             \/ req[r].type \in {"Undo", "Like"} /\ TryAcquire(r, "forward")
             \/ /\ req[r].type = "Other"
                /\ Settle(r)
                /\ UNCHANGED sem
          /\ UNCHANGED faults
    /\ UNCHANGED <<signed, believes, store, federating, fanout, bounds, history>>

(* acceptFollow, step by step.  remoteInbox: *)
ResolveInbox(r) ==
    /\ req[r].state = "resolve"
    /\ \/ req' = [req EXCEPT ![r].state = "accept"] /\ UNCHANGED <<sem, faults>>
       \/ Fault("resolve") /\ EndJob(r)
    /\ UNCHANGED <<signed, believes, store, federating, fanout, bounds, history>>

(* postSigned of the Accept: delivered; not delivered; or delivered, but   *)
(* the answer did not come back in time.                                   *)
PostAccept(r) ==
    /\ req[r].state = "accept"
    /\ \/ /\ req' = [req EXCEPT ![r].state = "add"]
          /\ believes' = believes \cup {req[r].actor}
          /\ UNCHANGED <<sem, faults, unsaved>>
       \/ Fault("accept") /\ EndJob(r) /\ UNCHANGED <<believes, unsaved>>
       \/ /\ Fault("answer") /\ EndJob(r)
          /\ believes' = believes \cup {req[r].actor}
          /\ unsaved' = unsaved \cup {req[r].actor}
    /\ UNCHANGED <<signed, store, federating, fanout, bounds, crossed>>

(* followers.Add skipped for a user that is federated already, a faulty     *)
(* variant.                                                                 *)
AddFollowerOnce(r) ==
    /\ req[r].state = "add"
    /\ req' = [req EXCEPT ![r].state = "notify"]
    /\ store' = IF federating THEN store ELSE store \cup {req[r].actor}
    /\ UNCHANGED <<signed, sem, believes, federating, fanout, bounds, faults, history>>

(* followers.Add: a failure is only logged. *)
AddFollower(r) ==
    /\ req[r].state = "add"
    /\ req' = [req EXCEPT ![r].state = "notify"]
    /\ \/ /\ store' = store \cup {req[r].actor} /\ unsaved' = unsaved \ {req[r].actor}
          /\ UNCHANGED faults
       \/ /\ Fault("add") /\ unsaved' = unsaved \cup {req[r].actor}
          /\ UNCHANGED store
    /\ UNCHANGED <<signed, sem, believes, federating, fanout, bounds, crossed>>

(* The node takes the stream of followers.Add and keeps silent: the read   *)
(* has no deadline, so the goroutine keeps its slot.  Whether the node has *)
(* stored the row nobody knows.                                            *)
AddHangs(r) ==
    /\ req[r].state = "add"
    /\ hangs < MaxHangs
    /\ hangs' = hangs + 1
    /\ req' = [req EXCEPT ![r].state = "hung"]
    /\ store' \in {store, store \cup {req[r].actor}}
    /\ unsaved' = unsaved \cup {req[r].actor}
    /\ UNCHANGED <<signed, sem, believes, federating, fanout, sent, undos, restarts,
                   faults, crossed>>

OnFollowed(r) ==
    /\ req[r].state = "notify"
    /\ federating' = TRUE
    /\ EndJob(r)
    /\ UNCHANGED <<signed, believes, store, fanout, bounds, faults, history>>

(* handleInboundActivity's goroutine: request sends the translated activity *)
(* to the candidates, and whichever member answers first has it.  Only the  *)
(* owner's node takes the row out of the list.                              *)
Forward(r) ==
    /\ req[r].state = "forward"
    /\ EndJob(r)
    /\ \/ req[r].type = "Undo" /\ store' = store \ {req[r].actor}
       \/ UNCHANGED store
    /\ UNCHANGED <<signed, believes, federating, fanout, bounds, faults, history>>

-----------------------------------------------------------------------------
(* deliverToFollowers: the list is read once. *)
Publish ==
    /\ ~fan /\ posts < MaxPublishes
    /\ posts' = posts + 1
    /\ fan' = TRUE
    /\ fanTodo' = store
    /\ UNCHANGED <<req, signed, sem, believes, store, federating, fanJobs,
                   bounds, faults, history>>

(* The loop waits for a slot and starts a delivery. *)
FanAcquire(f) ==
    /\ fan /\ f \in fanTodo
    /\ sem < MaxInflight
    /\ sem' = sem + 1
    /\ fanTodo' = fanTodo \ {f}
    /\ fanJobs' = fanJobs \cup {f}
    /\ UNCHANGED <<req, signed, believes, store, federating, fan, posts,
                   bounds, faults, history>>

(* The context of the fan-out ends while it waits for a slot. *)
FanCancelled ==
    /\ fan /\ fanTodo # {}
    /\ fanTodo' = {}
    /\ UNCHANGED <<req, signed, sem, believes, store, federating, fan, fanJobs,
                   posts, bounds, faults, history>>

(* A delivery ends, successfully or not. *)
FanDelivered(f) ==
    /\ f \in fanJobs
    /\ fanJobs' = fanJobs \ {f}
    /\ sem' = sem - 1
    /\ UNCHANGED <<req, signed, believes, store, federating, fan, fanTodo,
                   posts, bounds, faults, history>>

(* wg.Wait returns. *)
FanDone ==
    /\ fan /\ fanTodo = {} /\ fanJobs = {}
    /\ fan' = FALSE
    /\ UNCHANGED <<req, signed, sem, believes, store, federating, fanTodo,
                   fanJobs, posts, bounds, faults, history>>

(* The gateway restarts: its goroutines are gone.  Requests that were      *)
(* answered with 202 are not sent again; the others are.                   *)
Restart ==
    /\ restarts < MaxRestarts
    /\ restarts' = restarts + 1
    /\ req' = [r \in Request |-> IF req[r].state \in Job THEN Free ELSE req[r]]
    /\ sem' = 0
    /\ federating' = FALSE
    /\ fan' = FALSE /\ fanTodo' = {} /\ fanJobs' = {}
    /\ unsaved' = unsaved \cup {req[r].actor : r \in {q \in Request : req[q].state = "add"}}
    /\ UNCHANGED <<signed, believes, store, posts, sent, undos, hangs, faults, crossed>>

Next == \/ \E a \in Actor, h \in BOOLEAN : SendFollow(a, h)
        \/ \E a \in Actor : SendUndo(a)
        \/ \E t \in {"Follow", "Like", "Other"}, a \in Actor,
              s \in Actor \cup {Nobody} : SendOther(t, s, a)
        \/ \E r \in Request : \/ Retry(r) \/ HandleInbox(r) \/ ResolveInbox(r)
                              \/ PostAccept(r) \/ AddFollower(r) \/ AddHangs(r)
                              \/ OnFollowed(r) \/ Forward(r)
        \/ Publish \/ FanCancelled \/ FanDone
        \/ \E f \in Actor : FanAcquire(f) \/ FanDelivered(f)
        \/ Restart

(* Handlers and goroutines run; HTTP calls and requests to the candidates  *)
(* return within their timeouts, and so does followers.Add unless it       *)
(* hangs; peers retry after 503; and a sender blocked on the channel of    *)
(* slots is served before later ones.                                      *)
Fairness ==
    /\ \A r \in Request :
          /\ WF_vars(Retry(r)) /\ WF_vars(HandleInbox(r))
          /\ WF_vars(ResolveInbox(r)) /\ WF_vars(PostAccept(r))
          /\ WF_vars(AddFollower(r)) /\ WF_vars(OnFollowed(r)) /\ WF_vars(Forward(r))
    /\ \A f \in Actor : SF_vars(FanAcquire(f)) /\ WF_vars(FanDelivered(f))
    /\ WF_vars(FanDone)

Spec == Init /\ [][Next]_vars

FairSpec == Spec /\ Fairness

-----------------------------------------------------------------------------
(* Every taken slot belongs to exactly one running goroutine, on every path *)
(* through acceptFollow: none leaks and none is released twice.             *)
SlotsAccounted ==
    sem = Cardinality({r \in Request : req[r].state \in Job}) + Cardinality(fanJobs)

(* "The signer owns the activity": nobody becomes a follower, here or in    *)
(* their own eyes, except by a Follow they signed themselves.               *)
SignerOwnsFollow == store \cup believes \subseteq signed

Quiet == \A r \in Request : req[r] = Free

(* "answers Follow with a signed Accept (persisting the follower)": when    *)
(* nothing is in progress, every peer that was accepted is in the list.  A  *)
(* restart or a failure anywhere else than between the Accept and the Add   *)
(* leaves both sides in agreement, although the Follow was answered with    *)
(* 202 and is not sent again.  Excepted is a peer whose Follow and Undo     *)
(* were in progress at the same time.                                       *)
AcceptedIsPersisted == Quiet => believes \ (unsaved \cup crossed) \subseteq store

(* The one pool serves both sides, however full it is: a peer that retries  *)
(* after 503 is settled sooner or later, and inbound requests do not starve *)
(* a fan-out of slots, which returns.  It does so until calls to silent     *)
(* nodes hold every slot.                                                   *)
Exhausted == Cardinality({r \in Request : req[r].state = "hung"}) >= MaxInflight

PoolServesEveryone ==
    /\ \A r \in Request : req[r].state \in Waiting
                            ~> (req[r].state \in {"none", "hung"} \/ Exhausted)
    /\ fan ~> (~fan \/ Exhausted)
=============================================================================
