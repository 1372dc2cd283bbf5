--------------------------- MODULE HedgedRequest ---------------------------
(***************************************************************************)
(* One hedged request of the node client (nodeclient.go, tryMembers): the  *)
(* candidate member nodes are raced, one more every HedgeDelay and one     *)
(* more at once whenever an attempt fails; the first success wins.         *)
(*                                                                         *)
(* Candidates are 1..N in the order of the peers slice.  What a candidate  *)
(* would do is fixed in Init: after latency[p] its stream ends, with a     *)
(* response if healthy[p] and with an error otherwise.  streamSend hands   *)
(* its context to NewStream only: a peer that is slow to dial is cut off   *)
(* by the timeouts, one that took the stream is waited for, however long   *)
(* it takes to answer, and for ever if it never does.                      *)
(* Time is discrete and starts with the request; timers, contexts and      *)
(* runnable goroutines are served before time goes on (scheduling delays   *)
(* are not modelled), until tryMembers returns.                            *)
(* Everything that is due at the same instant happens in any order, which  *)
(* is also how select and the goroutines order it, so the reply channel    *)
(* needs no order: it holds the candidates whose status is ok or err.      *)
(***************************************************************************)
EXTENDS Integers, FiniteSets

CONSTANTS N,               \* number of candidates, len(peers)
          HedgeDelay,      \* hedgeDelay
          PerPeerTimeout,  \* perPeerTimeout
          RequestTimeout,  \* requestTimeout, the deadline of ctx
          Latency          \* how long a candidate's stream may take

ASSUME NAssumption == N \in Nat \ {0}
ASSUME DelayAssumption == /\ HedgeDelay \in Nat \ {0}
                          /\ PerPeerTimeout \in Nat \ {0}
                          /\ RequestTimeout \in Nat \ {0}
                          /\ Latency \subseteq Nat

Peer == 1..N

VARIABLES
    latency,     \* latency[p]: when p's stream would end by itself
    healthy,     \* healthy[p]: would it end with a response?
    waits,       \* waits[p]: p lets its stream wait while it is dialled,
                 \* for its answer once it took the stream, or for ever
    now,         \* time since the request began
    next,        \* candidates launched so far
    inFlight,    \* the loop counter: launched and not yet received
    status,      \* status[p]: idle, running, ok or err (sent on the channel
                 \* and not received), received
    launchedAt,  \* launchedAt[p]: when p was launched (0 while idle)
    hedgeAt,     \* when the hedge timer fires
    result       \* pending, or how tryMembers returned: ok, failed, deadline

Status == {"idle", "running", "ok", "err", "received"}

Waits == {"dial", "answer", "ever"}

vars == <<latency, healthy, waits, now, next, inFlight, status, launchedAt, hedgeAt,
          result>>

network == <<latency, healthy, waits>>

Pending == result = "pending"

(* The attempts whose reply the loop has not received. *)
Outstanding == {p \in Peer : status[p] \in {"running", "ok", "err"}}

(* The replies in the channel. *)
Queued == {p \in Peer : status[p] \in {"ok", "err"}}

(* The capacity of the reply channel. *)
replyCapOne == 1
replyCap == N

-----------------------------------------------------------------------------
(* Until the stream is open the timeout of the attempt and the deadline of *)
(* the request end it; after that only the peer does.                      *)
Earliest(a, b) == IF a <= b THEN a ELSE b

attemptDeadline(p) == Earliest(launchedAt[p] + PerPeerTimeout, RequestTimeout)

EndsAt(p) == IF waits[p] = "dial"
               THEN Earliest(launchedAt[p] + latency[p], attemptDeadline(p))
               ELSE launchedAt[p] + latency[p]

Init ==
    /\ latency \in [Peer -> Latency]
    /\ healthy \in [Peer -> BOOLEAN]
    /\ waits \in [Peer -> Waits]
    /\ \A p \in Peer : waits[p] = "ever" => ~healthy[p]
    /\ now = 0
    /\ next = 1
    /\ inFlight = 1
    /\ status = [p \in Peer |-> IF p = 1 THEN "running" ELSE "idle"]
    /\ launchedAt = [p \in Peer |-> 0]
    /\ hedgeAt = HedgeDelay
    /\ result = "pending"

(* launchNext after `taken' replies were received and st is the resulting  *)
(* status: starts the next candidate, if there is one.                     *)
launchNext(st, taken) ==
    IF next < N
      THEN /\ next' = next + 1
           /\ inFlight' = inFlight - taken + 1
           /\ status' = [st EXCEPT ![next + 1] = "running"]
           /\ launchedAt' = [launchedAt EXCEPT ![next + 1] = now]
      ELSE /\ inFlight' = inFlight - taken
           /\ status' = st
           /\ UNCHANGED <<next, launchedAt>>

(* A goroutine of launch: the stream has ended and the reply fits into the *)
(* channel.  Once tryMembers has returned, cancelAll ends a dial, and an   *)
(* open stream ends whenever its peer answers.                             *)
Reply(p) ==
    /\ status[p] = "running"
    /\ waits[p] # "ever"
    /\ ~Pending \/ now >= EndsAt(p)
    /\ Cardinality(Queued) < replyCap
    /\ \/ /\ healthy[p]
          /\ \/ launchedAt[p] + latency[p] <= now
             \/ ~Pending /\ waits[p] = "answer"
          /\ status' = [status EXCEPT ![p] = "ok"]
       \/ /\ \/ ~healthy[p]
             \/ waits[p] = "dial" /\ (~Pending \/ now >= attemptDeadline(p))
          /\ status' = [status EXCEPT ![p] = "err"]
    /\ UNCHANGED <<network, now, next, inFlight, launchedAt, hedgeAt, result>>

-----------------------------------------------------------------------------
(* Faulty variants of the select loop. *)

(* A failed candidate is not replaced at once; the next hedge does it. *)
ReceiveErrNoLaunch(p) ==
    /\ Pending
    /\ status[p] = "err"
    /\ status' = [status EXCEPT ![p] = "received"]
    /\ inFlight' = inFlight - 1
    /\ result' = IF inFlight' = 0 THEN "failed" ELSE "pending"
    /\ UNCHANGED <<network, now, next, launchedAt, hedgeAt>>

(* The hedge timer is not reset after it fired. *)
HedgeOnce ==
    /\ Pending
    /\ now >= hedgeAt
    /\ launchNext(status, 0)
    /\ hedgeAt' = RequestTimeout + 1
    /\ UNCHANGED <<network, now, result>>

(* The hedge timer is rearmed to fire at half the delay. *)
HedgeTooSoon ==
    /\ Pending
    /\ now >= hedgeAt
    /\ launchNext(status, 0)
    /\ hedgeAt' = now + HedgeDelay \div 2
    /\ UNCHANGED <<network, now, result>>

-----------------------------------------------------------------------------
(* case r := <-replies, with r.err == nil. *)
ReceiveOk(p) ==
    /\ Pending
    /\ status[p] = "ok"
    /\ status' = [status EXCEPT ![p] = "received"]
    /\ inFlight' = inFlight - 1
    /\ result' = "ok"
    /\ UNCHANGED <<network, now, next, launchedAt, hedgeAt>>

(* case r := <-replies, with an error: the next candidate starts at once;  *)
(* with none left in flight the loop ends.                                 *)
ReceiveErr(p) ==
    /\ Pending
    /\ status[p] = "err"
    /\ launchNext([status EXCEPT ![p] = "received"], 1)
    /\ result' = IF inFlight' = 0 THEN "failed" ELSE "pending"
    /\ UNCHANGED <<network, now, hedgeAt>>

(* case <-hedge.C. *)
Hedge ==
    /\ Pending
    /\ now >= hedgeAt
    /\ launchNext(status, 0)
    /\ hedgeAt' = now + HedgeDelay
    /\ UNCHANGED <<network, now, result>>

(* case <-ctx.Done(). *)
Deadline ==
    /\ Pending
    /\ now >= RequestTimeout
    /\ result' = "deadline"
    /\ UNCHANGED <<network, now, next, inFlight, status, launchedAt, hedgeAt>>

(* Time goes on when nothing is due. *)
Tick ==
    /\ Pending
    /\ now < hedgeAt
    /\ now < RequestTimeout
    /\ Queued = {}
    /\ \A p \in Peer : status[p] = "running" /\ waits[p] # "ever" => now < EndsAt(p)
    /\ now' = now + 1
    /\ UNCHANGED <<network, next, inFlight, status, launchedAt, hedgeAt, result>>

(* tryMembers has returned and every goroutine it started has ended or     *)
(* reads from a peer that keeps silent.                                    *)
Done == /\ ~Pending
        /\ \A p \in Peer : status[p] = "running" => waits[p] = "ever"
        /\ UNCHANGED vars

Next == \/ \E p \in Peer : Reply(p) \/ ReceiveOk(p) \/ ReceiveErr(p)
        \/ Hedge
        \/ Deadline
        \/ Tick
        \/ Done

(* Timers fire, contexts expire, started goroutines and the loop are       *)
(* scheduled, time passes.  Nothing is fair about a silent peer.           *)
Fairness == /\ \A p \in Peer : /\ WF_vars(Reply(p))
                               /\ WF_vars(ReceiveOk(p) \/ ReceiveErr(p))
            /\ WF_vars(Hedge) /\ WF_vars(Deadline) /\ WF_vars(Tick)

Spec == Init /\ [][Next]_vars

FairSpec == Spec /\ Fairness

-----------------------------------------------------------------------------
TypeOK ==
    /\ latency \in [Peer -> Latency]
    /\ healthy \in [Peer -> BOOLEAN]
    /\ waits \in [Peer -> Waits]
    /\ \A p \in Peer : waits[p] = "ever" => ~healthy[p]
    /\ now \in Nat
    /\ next \in Peer
    /\ inFlight \in 0..N
    /\ status \in [Peer -> Status]
    /\ launchedAt \in [Peer -> Nat]
    /\ hedgeAt \in Nat
    /\ result \in {"pending", "ok", "failed", "deadline"}

(* The loop counter that decides when to give up equals the attempts that  *)
(* still owe a reply; otherwise the loop would return early or wait for a  *)
(* reply nobody sends.                                                     *)
InFlightAccounting == inFlight = Cardinality(Outstanding)

(* "failed on all member nodes" is only said when every candidate was      *)
(* tried and no reply is left unread in the channel.                       *)
FailedMeansAllTried == result = "failed" => \A p \in Peer : status[p] = "received"

(* "a slow or dead node adds at most hedgeDelay to the request": while the *)
(* request waits, no healthy candidate k could have answered already, even *)
(* if all k - 1 candidates before it hang for their whole timeout or for   *)
(* ever.                                                                   *)
SlowPeerCostsOneHedge ==
    Pending => \A k \in Peer : healthy[k] /\ latency[k] < PerPeerTimeout
                    => now <= (k - 1) * HedgeDelay + latency[k]

(* Hedging adds one attempt per HedgeDelay and failures only replace one:  *)
(* the network never carries more than 1 + now / HedgeDelay attempts of    *)
(* one request.                                                            *)
LoadIsHedged == (inFlight - 1) * HedgeDelay <= now

(* A request that a healthy candidate k can serve is served: it returns a  *)
(* response, not an error or the deadline, when k - 1 hedge delays and k's *)
(* latency fit into the request timeout, whatever the other candidates do. *)
HealthyAnswers ==
    \A k \in Peer :
        /\ healthy[k]
        /\ latency[k] < PerPeerTimeout
        /\ (k - 1) * HedgeDelay + latency[k] < RequestTimeout
        => <>(result = "ok")

(* A goroutine of a request outlives it only at a peer that took the       *)
(* stream and keeps silent (perPeerTimeout and cancelAll do not reach      *)
(* streamSend's read): every other attempt ends, and a loser still finds   *)
(* room for its reply after tryMembers has stopped receiving.              *)
OnlySilentPeersLeak ==
    \A p \in Peer : status[p] = "running" /\ waits[p] # "ever"
                        ~> status[p] # "running"
=============================================================================
