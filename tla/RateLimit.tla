----------------------------- MODULE RateLimit -----------------------------
(***************************************************************************)
(* The request throttle (rate-limit.go): one limiter for all clients and   *)
(* one per client address, kept in an LRU cache; the middleware that       *)
(* refuses or charges a request; and the drain goroutine that replaces     *)
(* limiters that stay locked.                                              *)
(*                                                                         *)
(* A limiter is the log of what was charged to it, by age, and the total   *)
(* that the library keeps beside it as an unsigned number.  Only Limit,    *)
(* called for a request that was let through, removes what has expired,    *)
(* and a locked limiter lets nobody through.                               *)
(*                                                                         *)
(* The middleware looks at the locks first and charges later, so requests  *)
(* that overlap are charged after each other's checks, possibly to a       *)
(* limiter that was evicted or replaced meanwhile.  Limit is not atomic:   *)
(* the methods of taskQueue each take its lock, Limit as a whole takes     *)
(* none, so calls of it on one limiter can subtract what has expired       *)
(* twice; such a limiter is marked as raced.  Time is discrete and         *)
(* relative to now.  It goes on while a request that was let through is    *)
(* held back by Limit, for MaxHold at most.                                *)
(***************************************************************************)
EXTENDS Integers, FiniteSets, FiniteSetsExt, LRU

CONSTANTS Client,         \* client addresses
          Worker,         \* bound: requests served at a time
          Window,         \* rateWindow
          ClientBudget,   \* perClientBudget
          GlobalBudget,   \* globalBudget
          Paths,          \* the kinds of path that are requested
          MaxLimiters,    \* maxClientLimiters
          LimiterTTL,     \* clientLimiterTTL
          DrainInterval,  \* drainInterval
          MaxHold,        \* bound: time between a check and the last charge
          MaxRaced,       \* bound: limiters on which calls of Limit raced
          Word            \* 2^32, the range of the library's uint32

ASSUME RateAssumption ==
    /\ IsFiniteSet(Client) /\ IsFiniteSet(Worker)
    /\ Window \in Nat \ {0} /\ DrainInterval \in Nat \ {0}
    /\ ClientBudget \in Nat \ {0} /\ GlobalBudget \in Nat \ {0}
    /\ Paths # {}
    /\ Paths \subseteq {"static", "instance", "webfinger", "actor", "inbox",
                        "collection", "media"}
    /\ MaxLimiters \in Nat \ {0}
    /\ MaxHold \in Nat /\ MaxRaced \in Nat
    /\ LimiterTTL \in Nat /\ LimiterTTL >= Window + MaxHold

(* The path classes; instance is the document of the gateway's own actor.  *)
isControlPlane(p) == p \in {"instance", "webfinger", "actor", "inbox"}

requestWeight(p) == CASE p = "media" -> 8
                      [] p \in {"inbox", "collection"} -> 4
                      [] p \in {"actor", "webfinger"} -> 2
                      [] p \in {"static", "instance"} -> 1

Heaviest == Max({requestWeight(p) : p \in Paths})

(* A uint32 holds a budget and what is charged beyond it. *)
ASSUME WordAssumption ==
    /\ Word \in Nat
    /\ ClientBudget + Cardinality(Worker) * Heaviest < Word
    /\ GlobalBudget + Cardinality(Worker) * Heaviest < Word

Age == 0..Window - 1   \* ages inside the window
Never == -1            \* the zero time.Time

VARIABLES
    global,       \* the current global limiter
    limiter,      \* limiter[c]: c's limiter, new while c is not in the cache
    lru,          \* the clients in the cache, most recent first
    ttl,          \* ttl[c]: time until c's entry expires
    call,         \* call[w]: the request that worker w serves
    drainIn,      \* time until the ticker of drain fires
    visit,        \* clients the current round of drain has not looked at
    present,      \* clients it found locked
    draining,     \* is a round going on?
    globalSince,  \* how long drain knows the global limiter to be locked
    clientSince,  \* the same for each client (lockedSince), or Never
    globalLocked, \* history: how long the global limiter has been locked
    locked,       \* history: how long c's limiter has been locked, or Never
    spent,        \* history: what c was charged, by age, on limiters that
                  \* were in the cache, since one was last evicted for lack
                  \* of room, or replaced while c was in stale
    stale         \* history: clients that were charged while drain had them
                  \* noted as locked

cache == <<limiter, lru, ttl>>
drain == <<drainIn, visit, present, draining, globalSince, clientSince>>
history == <<globalLocked, locked, spent, stale>>
rateVars == <<global, cache, call, drain, history>>

-----------------------------------------------------------------------------
(* The library's limiter over taskQueue: charged[a] is the weight charged  *)
(* a ago, expired what is older than the window and not cut off yet, due   *)
(* what a call of Limit under way has subtracted for it.  raced says that  *)
(* a call began while another one was under way.                           *)
newLimiter == [charged |-> [a \in Age |-> 0], expired |-> 0, total |-> 0,
               due |-> Never, raced |-> FALSE]

(* f[0] + ... + f[Window - 1]. *)
Sum(f) == LET upTo[n \in 0..Window] == IF n = 0 THEN 0 ELSE upTo[n - 1] + f[n - 1]
          IN  upTo[Window]

IsLocked(l, budget) == l.total > budget

Subtracted(l) == IF l.due = Never THEN 0 ELSE l.due

(* The library's own queue: nothing is cut when every task has expired.    *)
CutOffBeforeLibrary(l) ==
    [l EXCEPT !.expired = IF Sum(l.charged) = 0 THEN @ ELSE @ - Subtracted(l),
              !.due = Never]

(* taskQueue.CutOffBefore: the tasks that were subtracted leave the log.   *)
CutOffBefore(l) == [l EXCEPT !.expired = @ - Subtracted(l), !.due = Never]

(* Limit subtracts the expired tasks from the total, an unsigned number,   *)
LimitBegins(l) == [l EXCEPT !.total = (@ - l.expired) % Word, !.due = l.expired,
                            !.raced = @ \/ l.due # Never]

(* and cuts them off and appends the new one.  After calls that raced, the *)
(* index of the cut can be that of tasks which are already gone, so that   *)
(* it takes others from the log.  The limiters that can result:            *)
LimitEnds(l, weight) ==
    LET kept == CutOffBefore(l)
        lost == [kept EXCEPT !.charged = newLimiter.charged, !.expired = 0]
    IN  {[q EXCEPT !.charged[0] = @ + weight, !.total = (@ + weight) % Word] :
            q \in {kept} \cup IF l.raced THEN {lost} ELSE {}}

(* The same one unit later. *)
Later(charged) == [a \in Age |-> IF a = 0 THEN 0 ELSE charged[a - 1]]
Aged(l) == [l EXCEPT !.charged = Later(@), !.expired = @ + l.charged[Window - 1]]

-----------------------------------------------------------------------------
Idle == [step |-> "idle"]

RateInit ==
    /\ global = newLimiter
    /\ limiter = [c \in Client |-> newLimiter]
    /\ lru = << >>
    /\ ttl = [c \in Client |-> 0]
    /\ call = [w \in Worker |-> Idle]
    /\ drainIn = DrainInterval
    /\ visit = {} /\ present = {} /\ draining = FALSE
    /\ globalSince = Never
    /\ clientSince = [c \in Client |-> Never]
    /\ globalLocked = Never
    /\ locked = [c \in Client |-> Never]
    /\ spent = [c \in Client |-> [a \in Age |-> 0]]
    /\ stale = {}

(* The clients whose entry has not expired: what Get, Peek and Keys see.   *)
Cached == {c \in ToSet(lru) : ttl[c] > 0}

(* LRU.Add: c becomes the most recent entry; the least recent one is       *)
(* evicted when there are too many.                                        *)
Touched(c) == LRUAdd(lru, c, MaxLimiters)

(* Replaces the value of f for the arguments in S. *)
Reset(f, S, value) == [x \in DOMAIN f |-> IF x \in S THEN value ELSE f[x]]

(* When the limiters of S leave the cache, what is charged to them later is *)
(* seen by nobody, and the model leaves it out: a request that only has to  *)
(* be charged there is done, one that is not charged to the global limiter  *)
(* yet is marked as an orphan.                                              *)
Orphaned(S) ==
    [w \in Worker |->
        IF call[w] = Idle \/ call[w].client \notin S THEN call[w]
        ELSE IF call[w].step \in {"client", "inClient"} THEN Idle
        ELSE [call[w] EXCEPT !.orphan = TRUE]]

(* A request that is through with the global limiter, because it has been   *)
(* charged or because the limiter was replaced.                             *)
Charged(r) == IF r.orphan THEN Idle ELSE [r EXCEPT !.step = "client"]

-----------------------------------------------------------------------------
(* client(ip): finds or creates c's limiter.  First a faulty variant: Get  *)
(* without Add, so that the entry of an active client expires.             *)
clientNoRefresh(c) ==
    IF c \in Cached THEN lru' = lru /\ ttl' = ttl
    ELSE lru' = Touched(c) /\ ttl' = [ttl EXCEPT ![c] = LimiterTTL]

client(c) == lru' = Touched(c) /\ ttl' = [ttl EXCEPT ![c] = LimiterTTL]

(* middleware, up to the decision: client finds c's limiter, which may     *)
(* evict others, and the locks are looked at.                              *)
Arrive(w, c, p) ==
    /\ call[w] = Idle
    /\ client(c)
    /\ \E gone \in {Cached \ Cached'} :
          /\ limiter' = Reset(limiter, gone, newLimiter)
          /\ locked' = Reset(locked, gone, Never)
          /\ spent' = Reset(spent, gone, [a \in Age |-> 0])
          /\ call' = IF \/ IsLocked(limiter[c], ClientBudget)
                        \/ ~isControlPlane(p) /\ IsLocked(global, GlobalBudget)
                       THEN Orphaned(gone)
                       ELSE [Orphaned(gone) EXCEPT ![w] =
                               [step |-> IF isControlPlane(p) THEN "client" ELSE "global",
                                client |-> c, weight |-> requestWeight(p),
                                orphan |-> FALSE, held |-> 0]]
    /\ UNCHANGED <<global, drain, globalLocked, stale>>

(* How long a limiter that has become l has been locked. *)
LockAge(was, l, budget) ==
    IF ~IsLocked(l, budget) THEN Never ELSE IF was = Never THEN 0 ELSE was

(* A call of Limit on l may begin: calls race on a few limiters at most.   *)
MayBegin(l) ==
    l.due = Never \/ Cardinality({m \in {global} \cup Range(limiter) : m.raced}) < MaxRaced

(* A step of global.Limit, for the data plane, on the limiter that the      *)
(* request has loaded; the request becomes r.                              *)
ChargeGlobal(w, r, outcomes) ==
    /\ call' = [call EXCEPT ![w] = r]
    /\ global' \in outcomes
    /\ globalLocked' = LockAge(globalLocked, global', GlobalBudget)
    /\ UNCHANGED <<cache, drain, locked, spent, stale>>

BeginGlobal(w) ==
    /\ call[w].step = "global" /\ MayBegin(global)
    /\ ChargeGlobal(w, [call[w] EXCEPT !.step = "inGlobal"], {LimitBegins(global)})

EndGlobal(w) ==
    /\ call[w].step = "inGlobal"
    /\ ChargeGlobal(w, Charged(call[w]), LimitEnds(global, call[w].weight))

(* A step of lim.Limit: c's limiter becomes l, and c is charged weight.     *)
ChargeClient(c, l, weight) ==
    /\ limiter' = [limiter EXCEPT ![c] = l]
    /\ locked' = [locked EXCEPT ![c] = LockAge(@, l, ClientBudget)]
    /\ spent' = [spent EXCEPT ![c][0] = @ + weight]
    /\ stale' = IF clientSince[c] = Never THEN stale ELSE stale \cup {c}
    /\ UNCHANGED <<global, lru, ttl, drain, globalLocked>>

(* The two steps; then the request is served.                              *)
BeginClient(w) ==
    LET c == call[w].client IN
    /\ call[w].step = "client" /\ ~call[w].orphan /\ MayBegin(limiter[c])
    /\ call' = [call EXCEPT ![w].step = "inClient"]
    /\ ChargeClient(c, LimitBegins(limiter[c]), 0)

EndClient(w) ==
    LET c == call[w].client IN
    /\ call[w].step = "inClient" /\ ~call[w].orphan
    /\ call' = [call EXCEPT ![w] = Idle]
    /\ \E l \in LimitEnds(limiter[c], call[w].weight) : ChargeClient(c, l, call[w].weight)

-----------------------------------------------------------------------------
(* A round of drain begins with resetGlobalIfStuck; Keys lists the cache.  *)
DrainBegins ==
    /\ ~draining /\ drainIn = 0
    /\ draining' = TRUE
    /\ visit' = Cached
    /\ present' = {}
    /\ IF ~IsLocked(global, GlobalBudget)
         THEN globalSince' = Never /\ UNCHANGED <<global, globalLocked, call>>
         ELSE IF globalSince >= Window
           THEN /\ globalSince' = Never /\ global' = newLimiter /\ globalLocked' = Never
                /\ call' = [w \in Worker |-> IF call[w].step \in {"global", "inGlobal"}
                                             THEN Charged(call[w]) ELSE call[w]]
           ELSE /\ globalSince' = IF globalSince = Never THEN 0 ELSE globalSince
                /\ UNCHANGED <<global, globalLocked, call>>
    /\ UNCHANGED <<cache, drainIn, clientSince, locked, spent, stale>>

(* The limiter of c is replaced; Add makes the entry the most recent one.  *)
Replace(c) ==
    /\ limiter' = [limiter EXCEPT ![c] = newLimiter]
    /\ lru' = Touched(c)
    /\ call' = Orphaned({c})
    /\ ttl' = [ttl EXCEPT ![c] = LimiterTTL]
    /\ clientSince' = [clientSince EXCEPT ![c] = Never]
    /\ locked' = [locked EXCEPT ![c] = Never]
    /\ stale' = stale \ {c}
    /\ spent' = Reset(spent, stale \cap {c}, [a \in Age |-> 0])

(* Clients are only noted as present when they are seen for the first time. *)
DrainVisitForgets(c) ==
    /\ c \in visit
    /\ visit' = visit \ {c}
    /\ IF c \in Cached /\ IsLocked(limiter[c], ClientBudget)
         THEN IF clientSince[c] >= Window
                THEN Replace(c) /\ UNCHANGED present
                ELSE /\ clientSince' = [clientSince EXCEPT ![c] = IF @ = Never THEN 0 ELSE @]
                     /\ present' = IF clientSince[c] = Never THEN present \cup {c} ELSE present
                     /\ UNCHANGED <<cache, call, locked, spent, stale>>
         ELSE UNCHANGED <<cache, call, locked, spent, stale, clientSince, present>>
    /\ UNCHANGED <<global, drainIn, draining, globalSince, globalLocked>>

(* resetStuckClients, one client. *)
DrainVisit(c) ==
    /\ c \in visit
    /\ visit' = visit \ {c}
    /\ IF c \in Cached /\ IsLocked(limiter[c], ClientBudget)
         THEN /\ present' = present \cup {c}
              /\ IF clientSince[c] >= Window
                   THEN Replace(c)
                   ELSE /\ clientSince' = [clientSince EXCEPT ![c] = IF @ = Never THEN 0 ELSE @]
                        /\ UNCHANGED <<cache, call, locked, spent, stale>>
         ELSE UNCHANGED <<cache, call, locked, spent, stale, clientSince, present>>
    /\ UNCHANGED <<global, drainIn, draining, globalSince, globalLocked>>

(* Clients that were not found locked are forgotten; the ticker goes on.   *)
DrainEnds ==
    /\ draining /\ visit = {}
    /\ draining' = FALSE
    /\ present' = {}
    /\ clientSince' = Reset(clientSince, Client \ present, Never)
    /\ stale' = stale \cap present
    /\ drainIn' = DrainInterval
    /\ UNCHANGED <<global, cache, call, visit, globalSince, globalLocked, locked, spent>>

(* One unit later, counted up to a limit. *)
Counted(t, limit) == IF t = Never \/ t = limit THEN t ELSE t + 1

Overdue == Window + 2 * DrainInterval

(* Time goes on when drain is not due, with the requests that are held;    *)
(* entries of the cache may expire.                                        *)
Tick ==
    LET gone == {c \in Cached : ttl[c] = 1}
        others == Orphaned(gone)
    IN
    /\ ~draining /\ drainIn > 0
    /\ \A w \in Worker : call[w] # Idle => call[w].held < MaxHold
    /\ call' = [w \in Worker |-> IF others[w] = Idle THEN Idle
                                 ELSE [others[w] EXCEPT !.held = @ + 1]]
    /\ drainIn' = drainIn - 1
    /\ global' = Aged(global)
    /\ ttl' = [c \in Client |-> IF c \in Cached THEN ttl[c] - 1 ELSE 0]
    /\ limiter' = Reset([c \in Client |-> Aged(limiter[c])], gone, newLimiter)
    /\ globalSince' = Counted(globalSince, Window)
    /\ clientSince' = [c \in Client |-> Counted(clientSince[c], Window)]
    /\ globalLocked' = Counted(globalLocked, Overdue)
    /\ locked' = Reset([c \in Client |-> Counted(locked[c], Overdue)], gone, Never)
    /\ spent' = [c \in Client |-> Later(spent[c])]
    /\ UNCHANGED <<lru, visit, present, draining, stale>>

RateNext ==
    \/ \E w \in Worker, c \in Client, p \in Paths : Arrive(w, c, p)
    \/ \E w \in Worker : BeginGlobal(w) \/ EndGlobal(w) \/ BeginClient(w) \/ EndClient(w)
    \/ DrainBegins \/ DrainEnds \/ Tick
    \/ \E c \in Client : DrainVisit(c)

RateSpec == RateInit /\ [][RateNext]_rateVars

-----------------------------------------------------------------------------
(* Unless calls of Limit raced on it, the total of a limiter is the weight  *)
(* of the tasks in its log, less what a call has subtracted and not cut off *)
(* yet, also after an idle gap longer than the window: it never wraps       *)
(* around below zero, which would lock a limiter far under its budget.      *)
TotalIsExact ==
    \A l \in {global} \cup Range(limiter) :
        ~l.raced => l.total + Subtracted(l) = Sum(l.charged) + l.expired

(* No limiter stays locked, whatever calls of Limit that race do to its     *)
(* total: although nothing expires its tasks while it is locked and every   *)
(* refused request renews its entry, it is replaced within a window and two *)
(* rounds of drain.                                                         *)
LockEnds == \A t \in {globalLocked} \cup Range(locked) : t < Overdue

(* Whatever is replaced or expires, a client is never charged more within a *)
(* window than its budget and the requests that were checked together,      *)
(* unless its limiter is evicted for lack of room, calls of Limit raced on  *)
(* it, or it was still charged after drain had found it locked.             *)
WindowBudget ==
    \A c \in Client : ~limiter[c].raced =>
        Sum(spent[c]) <= ClientBudget + Cardinality(Worker) * Heaviest
=============================================================================
