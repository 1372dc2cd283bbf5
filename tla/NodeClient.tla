----------------------------- MODULE NodeClient -----------------------------
(***************************************************************************)
(* Where the node client sends a request (nodeclient.go, discovery.go): a  *)
(* route that concerns a user goes to the node that owns the user, found   *)
(* by a GET_USER request to any member and remembered for a while; every   *)
(* other request, and every one whose owner cannot be found or reached,    *)
(* goes to the candidates: the members that answered before and those in   *)
(* the DHT's routing table.                                                *)
(*                                                                         *)
(* Any candidate that is up may win the race of tryMembers, which is       *)
(* modelled by HedgedRequest; here one step stands for it.  A user's       *)
(* profile, which names the owner, is replicated: every node has a copy    *)
(* that may be out of date or missing.                                     *)
(***************************************************************************)
EXTENDS Integers, FiniteSets, FiniteSetsExt, SequencesExt

CONSTANTS Node,            \* member nodes
          Gone,            \* members that answered once and left for good
          Relay,           \* the network's entry peers, no data routes
          User,            \* Warpnet users
          Caller,          \* goroutines of the gateway that issue requests
          MaxCandidates,   \* maxMemberCandidates
          Reach,           \* how many candidates a request tries before its
                           \* deadline when every one of them hangs
          OwnerTTL,        \* ownerCacheTTL
          MaxMoves,        \* bound: users that move to another node
          MaxOutages,      \* bound: nodes that go down
          MaxFaults        \* bound: requests that fail although the node is up

ASSUME ClientAssumption ==
    /\ IsFiniteSet(Node) /\ IsFiniteSet(Relay) /\ IsFiniteSet(Gone)
    /\ Node \cap Relay = {} /\ (Node \cup Relay) \cap Gone = {}
    /\ MaxCandidates \in Nat \ {0} /\ Reach \in 1..MaxCandidates
    /\ OwnerTTL \in Nat \ {0} /\ MaxMoves \in Nat /\ MaxOutages \in Nat /\ MaxFaults \in Nat

None == "none"

VARIABLES
    home,      \* home[u]: the node that owns u
    profile,   \* profile[n][u]: the owner named by n's copy of u's profile
    up,        \* the nodes that are up
    silent,    \* nodes that are not, but still take streams and never answer
    table,     \* the peers in the DHT's routing table
    good,      \* members that answered, most recent first
    owner,     \* owner[u]: the cached owner of u, or None
    ttl,       \* ttl[u]: time until that entry expires
    call,      \* call[k]: what caller k is doing
    moves, outages, faults    \* the bounded counters

world == <<home, profile, up, silent, table>>
bounds == <<moves, outages, faults>>
vars == <<world, good, owner, ttl, call, bounds>>

Idle == [step |-> "idle", user |-> None, node |-> None]

(* The client has run for a while: members that are gone by now may be on  *)
(* its list.                                                               *)
Init ==
    /\ home \in [User -> Node]
    /\ profile \in [Node -> [User -> Node \cup {None}]]
    /\ \A n \in Node, u \in User : profile[n][u] \in {home[u], None}
    /\ \A u \in User : profile[home[u]][u] = home[u]
    /\ up = Node /\ silent = {}
    /\ table \in {Relay \cup ns : ns \in SUBSET Node}
    /\ good \in {<< >>} \cup {<<g>> : g \in Gone}
    /\ owner = [u \in User |-> None]
    /\ ttl = [u \in User |-> 0]
    /\ call = [k \in Caller |-> Idle]
    /\ moves = 0 /\ outages = 0 /\ faults = 0

-----------------------------------------------------------------------------
(* The network: users move, profiles spread, nodes come and go.            *)
Move(u, n) ==
    /\ moves < MaxMoves
    /\ moves' = moves + 1
    /\ n \in up /\ n # home[u]
    /\ home' = [home EXCEPT ![u] = n]
    /\ profile' = [profile EXCEPT ![n][u] = n]
    /\ UNCHANGED <<up, silent, table, good, owner, ttl, call, outages, faults>>

Replicate(n, u) ==
    /\ profile[n][u] # home[u]
    /\ profile' = [profile EXCEPT ![n][u] = home[u]]
    /\ UNCHANGED <<home, up, silent, table, good, owner, ttl, call, bounds>>

GoDown(n) ==
    /\ outages < MaxOutages
    /\ outages' = outages + 1
    /\ n \in up
    /\ up' = up \ {n}
    /\ silent' \in {silent, silent \cup {n}}
    /\ UNCHANGED <<home, profile, table, good, owner, ttl, call, moves, faults>>

ComeUp(n) ==
    /\ n \in Node \ up
    /\ up' = up \cup {n}
    /\ silent' = silent \ {n}
    /\ UNCHANGED <<home, profile, table, good, owner, ttl, call, bounds>>

Discover(n) ==
    /\ n \notin table
    /\ table' = table \cup {n}
    /\ UNCHANGED <<home, profile, up, silent, good, owner, ttl, call, bounds>>

(* The DHT drops a peer that does not answer it. *)
Evict(n) ==
    /\ n \in table /\ n \notin up
    /\ table' = table \ {n}
    /\ UNCHANGED <<home, profile, up, silent, good, owner, ttl, call, bounds>>

-----------------------------------------------------------------------------
(* remember: n moves to the front of the members that answered, wherever   *)
(* it was; nothing else ever leaves the list before it is full.            *)
remember(n) ==
    LET s == <<n>> \o SelectSeq(good, LAMBDA m : m # n)
    IN  good' = SubSeq(s, 1, Min({MaxCandidates, Len(s)}))

(* The first n candidates that memberCandidates lists: the members that    *)
(* answered, then peers of the routing table in any order, without relays. *)
(* First a faulty variant: the table is only read while no member has      *)
(* answered.                                                               *)
firstCandidatesGoodOnly(n) ==
    IF good # << >> THEN {ToSet(SubSeq(good, 1, Min({n, Len(good)}))) \ Relay}
    ELSE kSubset(Min({n, Cardinality(table \ Relay)}), table \ Relay)

firstCandidates(n) ==
    LET first == ToSet(SubSeq(good, 1, Min({n, Len(good)}))) \ Relay
        rest == (table \ Relay) \ first
        room == Min({n - Cardinality(first), Cardinality(rest)})
    IN  {first \cup s : s \in kSubset(room, rest)}

(* streamSend: the stream to n opens, takes the signed envelope and is     *)
(* read to its end; or one of these steps fails, as it does when n is down.*)
(* At a silent node neither happens: the read has no deadline.             *)
streamSend(n) == n \in up /\ UNCHANGED faults
streamFails(n) == \/ n \notin up \cup silent /\ UNCHANGED faults
                  \/ n \in up /\ faults < MaxFaults /\ faults' = faults + 1

(* request: one of the candidates that are up answers.  It fails when none *)
(* is, and when those it had time to try before its deadline hang, though  *)
(* the next one is up.  While the table is empty the client waits for it   *)
(* to be refreshed, which Discover stands for.                             *)
Answers(n) == /\ \E cs \in firstCandidates(MaxCandidates) : n \in cs
              /\ streamSend(n)
              /\ remember(n)
Fails == \/ /\ \E cs \in firstCandidates(Reach) : cs \cap up = {}
            /\ UNCHANGED <<good, faults>>
         \/ /\ faults < MaxFaults
            /\ faults' = faults + 1
            /\ UNCHANGED good

(* requestUser begins: ownerNode finds u in the cache, or not.  First a    *)
(* faulty variant: the entry is renewed whenever it is used.               *)
StartRenews(k, u) ==
    /\ call[k].step = "idle"
    /\ call' = [call EXCEPT ![k] =
          IF owner[u] # None THEN [step |-> "stream", user |-> u, node |-> owner[u]]
          ELSE [step |-> "resolve", user |-> u, node |-> None]]
    /\ ttl' = IF owner[u] # None THEN [ttl EXCEPT ![u] = OwnerTTL] ELSE ttl
    /\ UNCHANGED <<world, good, owner, bounds>>

Start(k, u) ==
    /\ call[k].step = "idle"
    /\ call' = [call EXCEPT ![k] =
          IF owner[u] # None THEN [step |-> "stream", user |-> u, node |-> owner[u]]
          ELSE [step |-> "resolve", user |-> u, node |-> None]]
    /\ UNCHANGED <<world, good, owner, ttl, bounds>>

(* ownerNode asks the members: the answer names an owner, or it names none *)
(* or there is no answer, and the request is broadcast.  First a faulty    *)
(* variant: the node that answers is taken for the owner.                  *)
ResolveTrustsReplier(k) ==
    /\ call[k].step = "resolve"
    /\ \/ \E n \in Node :
             /\ Answers(n)
             /\ call' = [call EXCEPT ![k] = [@ EXCEPT !.step = "add", !.node = n]]
       \/ Fails /\ call' = [call EXCEPT ![k].step = "broadcast"]
    /\ UNCHANGED <<world, owner, ttl, moves, outages>>

Resolve(k) ==
    LET u == call[k].user IN
    /\ call[k].step = "resolve"
    /\ \/ \E n \in Node :
             /\ Answers(n)
             /\ call' = [call EXCEPT ![k] =
                   IF profile[n][u] = None THEN [@ EXCEPT !.step = "broadcast"]
                   ELSE [@ EXCEPT !.step = "add", !.node = profile[n][u]]]
       \/ Fails /\ call' = [call EXCEPT ![k].step = "broadcast"]
    /\ UNCHANGED <<world, owner, ttl, moves, outages>>

(* The owner named by the answer is cached. *)
AddOwner(k) ==
    /\ call[k].step = "add"
    /\ owner' = [owner EXCEPT ![call[k].user] = call[k].node]
    /\ ttl' = [ttl EXCEPT ![call[k].user] = OwnerTTL]
    /\ call' = [call EXCEPT ![k].step = "stream"]
    /\ UNCHANGED <<world, good, bounds>>

(* The stream to the owner: answered, or it fails and forgetOwner drops    *)
(* what the cache holds by then.  A caller whose owner keeps silent stays  *)
(* here: perPeerTimeout ends only the opening of the stream.               *)
Stream(k) ==
    LET n == call[k].node
        u == call[k].user
    IN
    /\ call[k].step = "stream"
    /\ \/ /\ streamSend(n)
          /\ remember(n)
          /\ call' = [call EXCEPT ![k].step = "done"]
          /\ UNCHANGED <<owner, ttl>>
       \/ /\ streamFails(n)
          /\ owner' = [owner EXCEPT ![u] = None]
          /\ ttl' = [ttl EXCEPT ![u] = 0]
          /\ call' = [call EXCEPT ![k] = [@ EXCEPT !.step = "broadcast", !.node = None]]
          /\ UNCHANGED good
    /\ UNCHANGED <<world, moves, outages>>

(* The fallback: any member may answer. *)
Broadcast(k) ==
    /\ call[k].step = "broadcast"
    /\ \/ \E n \in Node : Answers(n)
             /\ call' = [call EXCEPT ![k] = [@ EXCEPT !.step = "done", !.node = n]]
       \/ Fails /\ call' = [call EXCEPT ![k] = [@ EXCEPT !.step = "done", !.node = None]]
    /\ UNCHANGED <<world, owner, ttl, moves, outages>>

(* The caller has used the answer. *)
Return(k) ==
    /\ call[k].step = "done"
    /\ call' = [call EXCEPT ![k] = Idle]
    /\ UNCHANGED <<world, good, owner, ttl, bounds>>

(* Time passes for the cache. *)
Expire ==
    /\ \E u \in User : ttl[u] > 0
    /\ ttl' = [u \in User |-> IF ttl[u] > 0 THEN ttl[u] - 1 ELSE 0]
    /\ owner' = [u \in User |-> IF ttl[u] > 1 THEN owner[u] ELSE None]
    /\ UNCHANGED <<world, good, call, bounds>>

Next == \/ \E u \in User, n \in Node : Move(u, n) \/ Replicate(n, u)
        \/ \E n \in Node : GoDown(n) \/ ComeUp(n) \/ Discover(n) \/ Evict(n)
        \/ \E k \in Caller, u \in User : Start(k, u)
        \/ \E k \in Caller : Resolve(k) \/ AddOwner(k) \/ Stream(k) \/ Broadcast(k) \/ Return(k)
        \/ Expire

Fairness ==
    /\ \A n \in Node, u \in User : WF_vars(Replicate(n, u))
    /\ \A k \in Caller : /\ WF_vars(Resolve(k)) /\ WF_vars(AddOwner(k)) /\ WF_vars(Stream(k))
                         /\ WF_vars(Broadcast(k)) /\ WF_vars(Return(k))
    /\ WF_vars(Expire)

Spec == Init /\ [][Next]_vars

FairSpec == Spec /\ Fairness

-----------------------------------------------------------------------------
(* The cache converges to the truth after a user has moved, however often  *)
(* the old entry is used and whatever late answer is added after it.       *)
OwnerConverges == \A u \in User : <>[](owner[u] \in {None, home[u]})

(* "Routes like POST_FOLLOW and GET_FOLLOWERS are authoritative only on    *)
(* the owner node": once users stay where they are and the owner's node is *)
(* up, no other node answers them any more.                                *)
OwnerAnswers ==
    \A u \in User :
        <>[](home[u] \in up) =>
            <>[](\A k \in Caller : call[k].step = "done" /\ call[k].user = u
                                     => call[k].node \in {home[u], None})

(* The members a request may be sent to, as far as their number allows. *)
Known == (ToSet(good) \cup table) \ Relay

(* Requests stop failing once fewer known members are gone than a request  *)
(* has time to try, and one of the others stays up: whichever members      *)
(* answered before, in whatever order, and however the list is cut.  With  *)
(* as many dead members in front the code may fail for ever, since nothing *)
(* drops a dead one from the list of those that answered.                  *)
RequestsRecover ==
    <>[](Cardinality(Known \ up) < Reach /\ Known \cap up # {}) =>
        <>[](\A k \in Caller : call[k].step = "done" => call[k].node # None)
=============================================================================
