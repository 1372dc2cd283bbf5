----------------------------- MODULE SignedGet -----------------------------
(***************************************************************************)
(* Reading a remote document (server.go): signedGet answers from a cache   *)
(* of one second, lets concurrent callers of the same document share one   *)
(* flight (singleflight), and sends the request through sendRetry, which   *)
(* tries again after network errors, 429 and 5xx.                          *)
(*                                                                         *)
(* One document, since keys are independent of each other.  Its version is *)
(* the data; a 4xx answer is a version like any other, because the code    *)
(* caches it just the same.                                                *)
(***************************************************************************)
EXTENDS Integers, FiniteSetsExt

CONSTANTS Caller,        \* goroutines that read the document
          MaxAttempts,   \* attempts of the retrier
          CacheTTL,      \* getCacheTTL
          HTTPTimeout,   \* timeout of the HTTP client, per attempt
          MaxWrites      \* bound: changes of the document

ASSUME GetAssumption ==
    /\ MaxAttempts \in Nat \ {0}
    /\ CacheTTL \in Nat \ {0} /\ HTTPTimeout \in Nat \ {0}
    /\ MaxWrites \in Nat

None == -1    \* no cached answer
Err == -2     \* an error instead of a version
Busy == -3    \* 429 or 5xx
Lost == -4    \* a network error, or a body that cannot be read
TooLarge == -5

VARIABLES
    doc,       \* the version of the document on its server
    old,       \* old[v]: how long ago version v was superseded, capped
    cache,     \* the cached version and its remaining time
    flight,    \* the flight of the key
    call,      \* call[k]: what caller k is doing, and its result
    floor      \* history: the oldest version caller k may be given

vars == <<doc, old, cache, flight, call, floor>>

Version == 0..MaxWrites
Grounded == [step |-> "none", attempt |-> 0, timer |-> 0, v |-> None]
Idle == [step |-> "idle", v |-> None]

Overdue == CacheTTL + HTTPTimeout

Init ==
    /\ doc = 0
    /\ old = [v \in Version |-> 0]
    /\ cache = [v |-> None, left |-> 0]
    /\ flight = Grounded
    /\ call = [k \in Caller |-> Idle]
    /\ floor = [k \in Caller |-> 0]

-----------------------------------------------------------------------------
(* The document changes on its server. *)
Write ==
    /\ doc < MaxWrites
    /\ doc' = doc + 1
    /\ UNCHANGED <<old, cache, flight, call, floor>>

-----------------------------------------------------------------------------
(* The oldest version that was still current CacheTTL + HTTPTimeout ago. *)
Oldest == Min({v \in 0..doc : old[v] < Overdue})

(* signedGet begins: a cached answer is returned.  First a faulty variant: *)
(* every hit renews the entry.                                             *)
BeginRenews(k) ==
    /\ call[k] = Idle
    /\ floor' = [floor EXCEPT ![k] = Oldest]
    /\ call' = [call EXCEPT ![k] = IF cache.v # None THEN [step |-> "done", v |-> cache.v]
                                   ELSE [step |-> "missed", v |-> None]]
    /\ cache' = IF cache.v # None THEN [cache EXCEPT !.left = CacheTTL] ELSE cache
    /\ UNCHANGED <<doc, old, flight>>

Begin(k) ==
    /\ call[k] = Idle
    /\ floor' = [floor EXCEPT ![k] = Oldest]
    /\ call' = [call EXCEPT ![k] = IF cache.v # None THEN [step |-> "done", v |-> cache.v]
                                   ELSE [step |-> "missed", v |-> None]]
    /\ UNCHANGED <<doc, old, cache, flight>>

(* sf.Do: the caller waits for the flight under way, or leads a new one.   *)
Join(k) ==
    /\ call[k].step = "missed"
    /\ call' = [call EXCEPT ![k].step = "waiting"]
    /\ flight' = IF flight = Grounded THEN [flight EXCEPT !.step = "check"] ELSE flight
    /\ UNCHANGED <<doc, old, cache, floor>>

(* The next attempt of the flight. *)
Attempt(f) == [step |-> "send", attempt |-> f.attempt + 1, timer |-> HTTPTimeout, v |-> None]
Landing(v) == [flight EXCEPT !.step = "land", !.v = v]

(* The flight sends its request without a second look at the cache. *)
CheckBlindly ==
    /\ flight.step = "check"
    /\ flight' = Attempt(flight)
    /\ UNCHANGED <<doc, old, cache, call, floor>>

(* "A concurrent flight may have populated the cache while we queued." *)
Check ==
    /\ flight.step = "check"
    /\ flight' = IF cache.v # None THEN Landing(cache.v) ELSE Attempt(flight)
    /\ UNCHANGED <<doc, old, cache, call, floor>>

(* The server answers with the document, or not. *)
Serve ==
    /\ flight.step = "send"
    /\ \E a \in {doc, Busy, Lost, TooLarge} :
          flight' = [flight EXCEPT !.step = "transit", !.v = a]
    /\ UNCHANGED <<doc, old, cache, call, floor>>

(* A failed attempt: the retrier tries again, or the flight fails.  First  *)
(* a faulty variant without a limit.                                       *)
RetriedForever == Attempt([flight EXCEPT !.attempt = 0])

Retried == IF flight.attempt < MaxAttempts THEN Attempt(flight) ELSE Landing(Err)

(* An answer arrives: 429, 5xx and errors of the network are retried, a    *)
(* body over the limit stops the retrier, anything else is final.          *)
Receive ==
    /\ flight.step = "transit"
    /\ flight' = CASE flight.v \in {Busy, Lost} -> Retried
                   [] flight.v = TooLarge -> Landing(Err)
                   [] OTHER -> [flight EXCEPT !.step = "add"]
    /\ UNCHANGED <<doc, old, cache, call, floor>>

(* No answer in time: a network error. *)
TimeOut ==
    /\ flight.step \in {"send", "transit"} /\ flight.timer = 0
    /\ flight' = Retried
    /\ UNCHANGED <<doc, old, cache, call, floor>>

(* The context of the caller that leads the flight is cancelled: attempts  *)
(* end, and with them the flight, for the callers that wait for it too.    *)
Cancel ==
    /\ flight.step \in {"send", "transit"}
    /\ flight' = Landing(Err)
    /\ UNCHANGED <<doc, old, cache, call, floor>>

(* The final answer is cached. *)
AddToCache ==
    /\ flight.step = "add"
    /\ cache' = [v |-> flight.v, left |-> CacheTTL]
    /\ flight' = [flight EXCEPT !.step = "land"]
    /\ UNCHANGED <<doc, old, call, floor>>

(* The flight ends: every caller that waits gets its result. *)
Land ==
    /\ flight.step = "land"
    /\ call' = [k \in Caller |-> IF call[k].step = "waiting"
                                   THEN [step |-> "done", v |-> flight.v] ELSE call[k]]
    /\ flight' = Grounded
    /\ UNCHANGED <<doc, old, cache, floor>>

Return(k) ==
    /\ call[k].step = "done"
    /\ call' = [call EXCEPT ![k] = Idle]
    /\ UNCHANGED <<doc, old, cache, flight, floor>>

-----------------------------------------------------------------------------
(* Time goes on while the flight waits for the network, or there is none.  *)
Tick ==
    /\ \/ flight = Grounded
       \/ flight.step \in {"send", "transit"} /\ flight.timer > 0
    /\ flight' = IF flight = Grounded THEN flight ELSE [flight EXCEPT !.timer = @ - 1]
    /\ cache' = IF cache.left > 1 THEN [cache EXCEPT !.left = @ - 1]
                ELSE [v |-> None, left |-> 0]
    /\ old' = [v \in Version |-> IF v < doc THEN Min({old[v] + 1, Overdue}) ELSE 0]
    /\ UNCHANGED <<doc, call, floor>>

Next == \/ Write \/ Check \/ Serve \/ Receive \/ TimeOut \/ Cancel \/ AddToCache \/ Land \/ Tick
        \/ \E k \in Caller : Begin(k) \/ Join(k) \/ Return(k)

(* Time passes and the gateway's goroutines run; the server need not ever  *)
(* answer.                                                                 *)
Fairness == /\ WF_vars(Check) /\ WF_vars(Receive) /\ WF_vars(TimeOut)
            /\ WF_vars(AddToCache) /\ WF_vars(Land) /\ WF_vars(Tick)
            /\ \A k \in Caller : WF_vars(Join(k)) /\ WF_vars(Return(k))

Spec == Init /\ [][Next]_vars

FairSpec == Spec /\ Fairness

-----------------------------------------------------------------------------
(* Only final answers are cached, neither a 429 or 5xx nor an error, and    *)
(* only they and errors are given to callers; the retrier keeps to its      *)
(* limit.                                                                   *)
TypeOK ==
    /\ doc \in Version
    /\ cache \in [v : Version \cup {None}, left : 0..CacheTTL]
    /\ flight \in [step : {"none", "check", "send", "transit", "add", "land"},
                   attempt : 0..MaxAttempts, timer : 0..HTTPTimeout,
                   v : Version \cup {None, Err, Busy, Lost, TooLarge}]
    /\ call \in [Caller -> [step : {"idle", "missed", "waiting", "done"},
                            v : Version \cup {None, Err}]]

(* The cache and the flights together collapse a burst: while an answer is *)
(* cached no request for the document is under way, also when a caller     *)
(* missed the cache before the previous flight filled it and leads the     *)
(* next flight after it.                                                   *)
BurstCollapses == cache.v # None => flight.step \notin {"send", "transit"}

(* An answer is at most as old as the lifetime of a cached one and one     *)
(* attempt together, however often it is read: a caller never gets a       *)
(* version that had been superseded for longer when the caller began.      *)
BoundedStaleness ==
    \A k \in Caller : call[k].step = "done" /\ call[k].v # Err => call[k].v >= floor[k]

(* Every caller gets an answer or an error, also when the server never     *)
(* answers, refuses for ever or the leader of the flight goes away.        *)
EveryCallerReturns == \A k \in Caller : call[k].step = "missed" ~> call[k].step = "done"
=============================================================================
