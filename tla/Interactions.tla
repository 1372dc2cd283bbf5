---------------------------- MODULE Interactions ----------------------------
(***************************************************************************)
(* Reactions, boosts, follows and replies between one Warpnet member and   *)
(* the actors of a Fediverse server, in both directions:                   *)
(*   out  the member's node calls a route of the gateway (nodeserver.go),  *)
(*        and the bridge delivers an activity to the author's inbox        *)
(*        (mastodon-bridge.go, writes);                                    *)
(*   in   the server posts an activity to the inbox, and the gateway       *)
(*        translates it and forwards it to the node (inbound.go).          *)
(* Calls are served concurrently and deliveries are repeated when their    *)
(* answer is lost, so two activities about the same thing may be applied   *)
(* in either order; the properties exempt such things.                     *)
(*                                                                         *)
(* A url is a value: a note of the server, or a status of the member, the  *)
(* record of its id and the parent that Reply puts into its query.         *)
(***************************************************************************)
EXTENDS Naturals, FiniteSets

CONSTANTS Actor,       \* actors of the Fediverse server
          Named,       \* those whose url yields a name@host handle
          Note,        \* the server's notes
          Deep,        \* those that are not the root of their thread
          Tweet,       \* the member's top-level tweets
          None,        \* no value
          MaxOps,      \* bound: things done or undone
          MaxFaults    \* bound: calls that fail or whose answer is lost

ASSUME InteractionsAssumption ==
    /\ IsFiniteSet(Actor) /\ IsFiniteSet(Note) /\ IsFiniteSet(Tweet)
    /\ Named \subseteq Actor /\ Deep \subseteq Note
    /\ MaxOps \in Nat /\ MaxFaults \in Nat

Member == "member"

(* The id of the member's reply to n, and the urls of its statuses. *)
ReplyId(n) == <<"reply", n>>
TweetId(t) == <<"tweet", t>>

(* The url of a status, with the parent in the query of a reply. *)
replyURL(n) == [id |-> ReplyId(n), parent |-> n]
tweetURL(t) == [id |-> TweetId(t), parent |-> None]
LocalURL == {tweetURL(t) : t \in Tweet} \cup {replyURL(n) : n \in Note}

(* No value is none of the values; the member is no actor of the server,   *)
(* and a note of the server is not under a url of this gateway.            *)
ASSUME ValuesAssumption ==
    /\ None \notin Note \cup LocalURL
    /\ \A n \in Note : ReplyId(n) # None
    /\ \A t \in Tweet : TweetId(t) # None
    /\ Member \notin Actor
    /\ Note \cap LocalURL = {}

(* A thing somebody does to something; a reply from the Fediverse has an   *)
(* id, only a url, or neither.                                             *)
Out == [kind : {"like", "emoji", "boost", "reply"}, by : {Member}, on : Note, name : {None}]
       \cup [kind : {"follow"}, by : {Member}, on : Actor, name : {None}]
In == [kind : {"like", "boost", "quote"}, by : Actor, on : LocalURL, name : {None}]
      \cup [kind : {"reply", "re"}, by : Actor, on : LocalURL, name : {"id", "url", None}]
Thing == Out \cup In

VARIABLES
    wanted,    \* the things done and not undone
    jobs,      \* activities under way: [op, x, undo, event, step]
    peerHas,   \* what the server has recorded of the member
    nodeHas,   \* what the node has recorded of the server's actors
    forwards,  \* events on their way to the node: [op, n, event]
    ops, faults,   \* the bounded counters
    copies,    \* deliveries of each op to the inbox
    excused    \* history: things the properties say nothing about

vars == <<wanted, jobs, peerHas, nodeHas, forwards, ops, faults, copies, excused>>

Init ==
    /\ wanted = {} /\ jobs = {} /\ peerHas = {} /\ nodeHas = {} /\ forwards = {}
    /\ ops = 0 /\ faults = 0
    /\ copies = [o \in 1..MaxOps |-> 0]
    /\ excused = {}

(* A reaction with the heart and one with any other emoji exclude each     *)
(* other.                                                                  *)
Same(x, y) == /\ x.by = y.by /\ x.on = y.on
              /\ \/ x.kind = y.kind
                 \/ {x.kind, y.kind} \subseteq {"like", "emoji"}

Exempt(x) == {y \in Thing : Same(x, y)}

Fault == faults < MaxFaults /\ faults' = faults + 1

-----------------------------------------------------------------------------
(* The event of a reply, or of its deletion, names the parent, the root of *)
(* the thread, both or neither; parentURL is what Reply and Delete take.   *)
Events(x) ==
    IF x \in Out /\ x.kind = "reply"
      THEN [parent : {x.on, None},
            root : {None} \cup IF x.on \in Deep THEN Note \ {x.on} ELSE {x.on}]
      ELSE [parent : {None}, root : {None}]

parentURL(e) == IF e.parent # None THEN e.parent ELSE e.root

NamesParent(x, e) == x \in Out /\ x.kind = "reply" => parentURL(e) = x.on

(* Somebody does x, or undoes it.  It is exempt when another activity      *)
(* about it is still under way, when another emoji replaces the heart,     *)
(* which React does not tell the server, and when a deletion does not say  *)
(* what the reply was to.                                                  *)
Launch(x, undo, e) ==
    /\ ops < MaxOps
    /\ ops' = ops + 1
    /\ jobs' = jobs \cup {[op |-> ops + 1, x |-> x, undo |-> undo, event |-> e,
                           step |-> IF x \in Out THEN "prepare" ELSE "sent"]}
    /\ excused' = excused \cup
          IF \/ \E j \in jobs : Same(j.x, x)
             \/ \E f \in forwards : Same(f.x, x)
             \/ x.kind = "emoji" /\ [x EXCEPT !.kind = "like"] \in wanted
             \/ ~NamesParent(x, e)
            THEN Exempt(x) ELSE {}
    /\ UNCHANGED <<peerHas, nodeHas, forwards, faults, copies>>

(* A status can only be reacted to where it is known. *)
Known(x) == x \in In => x.on.parent = None \/ \E r \in peerHas : r.id = x.on

Do(x) ==
    /\ x \notin wanted /\ Known(x)
    /\ \E e \in Events(x) : NamesParent(x, e) /\ Launch(x, FALSE, e)
    /\ wanted' = {y \in wanted : ~Same(x, y)} \cup {x}

Undo(x) ==
    /\ x \in wanted
    /\ \E e \in Events(x) : Launch(x, TRUE, e)
    /\ wanted' = wanted \ {x}

-----------------------------------------------------------------------------
(* Out: the routes of the node server and the bridge.                      *)

(* Reply and Delete make the url of the reply, each from its own event.    *)
(* First a faulty variant where Delete looks at the root of the thread     *)
(* before the parent.                                                      *)
replyActivityRootFirst(j) ==
    [type |-> IF j.undo THEN "Delete" ELSE "Create", on |-> parentURL(j.event),
     id |-> [replyURL(j.x.on) EXCEPT !.parent =
               IF j.undo /\ j.event.root # None THEN j.event.root ELSE parentURL(j.event)]]

replyActivity(j) ==
    [type |-> IF j.undo THEN "Delete" ELSE "Create", on |-> parentURL(j.event),
     id |-> [replyURL(j.x.on) EXCEPT !.parent = parentURL(j.event)]]

(* React, Announce, Follow, Reply, Delete: the activity that is sent.      *)
(* undoIf wraps likes, boosts and follows; a reply is deleted by its id.   *)
activity(j) ==
    CASE j.x.kind = "reply" -> replyActivity(j)
      [] j.x.kind = "emoji" -> [type |-> "like", on |-> j.x.on, id |-> None]
      [] OTHER -> [type |-> j.x.kind, on |-> j.x.on, id |-> None]

(* The server: likes, boosts and follows are kept per object, replies per  *)
(* id.                                                                     *)
Received(act, undo) ==
    LET rows == CASE act.type = "Create" -> {[kind |-> "reply", on |-> act.on, id |-> act.id]}
                  [] act.type = "Delete" -> {r \in peerHas : r.kind = "reply" /\ r.id = act.id}
                  [] OTHER -> {[kind |-> act.type, on |-> act.on, id |-> None]}
    IN  peerHas' = IF undo THEN peerHas \ rows ELSE peerHas \cup rows

(* authorInbox, for a follow resolveHandle: the inbox is found, or the      *)
(* failure is reported to the node and the activity is not sent.            *)
authorInbox(j) ==
    \/ /\ jobs' = (jobs \ {j}) \cup {[j EXCEPT !.step = "post"]}
       /\ UNCHANGED <<faults, excused>>
    \/ Fault /\ jobs' = jobs \ {j} /\ excused' = excused \cup Exempt(j.x)

(* React accepts every emoji but the heart, and drops it; an undo names     *)
(* none.  A deletion that names no parent is only acknowledged.             *)
Dropped(j) == \/ j.x.kind = "emoji" /\ ~j.undo
              \/ j.x.kind = "reply" /\ parentURL(j.event) = None

(* The route handler up to the delivery. *)
Prepare(j) ==
    /\ j.step = "prepare"
    /\ \/ Dropped(j) /\ jobs' = jobs \ {j} /\ UNCHANGED <<faults, excused>>
       \/ ~Dropped(j) /\ authorInbox(j)
    /\ UNCHANGED <<wanted, peerHas, nodeHas, forwards, ops, copies>>

(* postSigned: delivered; or an attempt fails, before or after the server  *)
(* took the activity, and is repeated or is the last one, which is         *)
(* reported (for a follow: logged).                                        *)
Post(j) ==
    /\ j.step = "post"
    /\ \/ /\ Received(activity(j), j.undo)
          /\ jobs' = jobs \ {j}
          /\ UNCHANGED <<faults, excused>>
       \/ /\ Fault
          /\ \/ Received(activity(j), j.undo)
             \/ UNCHANGED peerHas
          /\ \/ UNCHANGED <<jobs, excused>>
             \/ jobs' = jobs \ {j} /\ excused' = excused \cup Exempt(j.x)
    /\ UNCHANGED <<wanted, nodeHas, forwards, ops, copies>>

-----------------------------------------------------------------------------
(* In: translateInbound and what it is made of.                            *)

(* The query is not cut off the url, a faulty variant. *)
parseLocalStatusWhole(url) ==
    CASE url \notin LocalURL -> None
      [] url \in LocalURL /\ url.parent = None -> url.id
      [] OTHER -> <<"status with query", url.parent>>

(* parseLocalStatus: the id of one of our statuses, whatever its query. *)
parseLocalStatus(url) == IF url \in LocalURL THEN url.id ELSE None

(* bridgedUserID: the handle, or the encoded url if there is none. *)
bridgedUserID(a) == <<IF a \in Named THEN "handle" ELSE "ap", a>>

(* ingestedNoteID: the note's id, else its url, else a random token.  A    *)
(* faulty variant first: always a token.                                   *)
ingestedNoteIDRandom(j, n) == <<"token", j.op, n>>
ingestedNoteID(j, n) == IF j.x.name # None THEN <<j.x.name, j.x>> ELSE <<"token", j.op, n>>

(* The activity a Fediverse server sends for x. *)
Posted(j) ==
    [type |-> CASE j.x.kind = "like" -> "Like" [] j.x.kind = "boost" -> "Announce" [] OTHER -> "Create",
     inReplyTo |-> IF j.x.kind = "reply" THEN j.x.on ELSE None,
     quote |-> IF j.x.kind = "quote" THEN j.x.on ELSE None,
     prefix |-> IF j.x.kind = "re" THEN j.x.on ELSE None,
     object |-> j.x.on,
     undo |-> j.undo]

Ignored == [route |-> "none"]

(* translateInbound: Like, Announce and their Undo; Create as a reply, a   *)
(* quote, or a reply by the prefix RE; a Delete is only acknowledged.      *)
translateInbound(j, n) ==
    LET m == Posted(j)
        by == bridgedUserID(j.x.by)
        event(route, url, id) ==
            IF parseLocalStatus(url) = None THEN Ignored
            ELSE [route |-> route, undo |-> m.undo, by |-> by, author |-> Member,
                  tweet |-> parseLocalStatus(url), id |-> id]
    IN  CASE m.type = "Like" -> event("react", m.object, None)
          [] m.type = "Announce" -> event("retweet", m.object, None)
          [] m.type = "Create" /\ m.undo -> Ignored
          [] OTHER ->
               IF parseLocalStatus(m.inReplyTo) # None
                 THEN event("reply", m.inReplyTo, ingestedNoteID(j, n))
               ELSE IF parseLocalStatus(m.quote) # None
                 THEN event("quote", m.quote, None)
               ELSE event("reply", m.prefix, ingestedNoteID(j, n))

(* The inbox takes the activity and answers 202; when the answer is lost   *)
(* the server sends it again.                                              *)
Arrive(j) ==
    LET n == copies[j.op] + 1
        ev == translateInbound(j, n)
    IN
    /\ j.step = "sent"
    /\ copies' = [copies EXCEPT ![j.op] = n]
    /\ forwards' = IF ev = Ignored THEN forwards
                   ELSE forwards \cup {[op |-> j.op, n |-> n, x |-> j.x, event |-> ev]}
    /\ \/ jobs' = jobs \ {j} /\ UNCHANGED faults
       \/ Fault /\ UNCHANGED jobs
    /\ UNCHANGED <<wanted, peerHas, nodeHas, ops, excused>>

(* The row of the node an event is about, with the thing it comes from. *)
Row(f) == [kind |-> f.event.route, by |-> f.event.by, author |-> f.event.author,
           tweet |-> f.event.tweet, id |-> f.event.id, of |-> f.x]

(* The goroutine that forwards the event to the node; a failure is only    *)
(* logged.                                                                 *)
Forward(f) ==
    /\ forwards' = forwards \ {f}
    /\ \/ /\ nodeHas' = IF f.event.undo THEN nodeHas \ {Row(f)}
                        ELSE nodeHas \cup {Row(f)}
          /\ UNCHANGED <<faults, excused>>
       \/ Fault /\ excused' = excused \cup Exempt(f.x) /\ UNCHANGED nodeHas
    /\ UNCHANGED <<wanted, jobs, peerHas, ops, copies>>

Next == \/ \E x \in Thing : Do(x) \/ Undo(x)
        \/ \E j \in jobs : Prepare(j) \/ Post(j) \/ Arrive(j)
        \/ \E f \in forwards : Forward(f)

Spec == Init /\ [][Next]_vars

-----------------------------------------------------------------------------
Quiet == jobs = {} /\ forwards = {}

(* When all is quiet the server shows of the member what the member wants:  *)
(* every favourite, boost and follow and no other, and exactly the replies  *)
(* that were not deleted.  A reply is gone when its deletion names the      *)
(* parent, or the root it hangs off, however the event of the reply named   *)
(* it ("The Tombstone id must be byte-identical"); an emoji other than the heart was never "federated as a      *)
(* favourite the reactor did not intend".                                   *)
ServerShowsWhatMemberWants ==
    Quiet => \A x \in {y \in Out \ excused : y.kind # "emoji"} :
        x \in wanted <=> \E r \in peerHas : r.kind = x.kind /\ r.on = x.on

RowsOf(x) == {r \in nodeHas : /\ r.by = bridgedUserID(x.by) /\ r.author = Member
                              /\ r.tweet = x.on.id
                              /\ r.kind = CASE x.kind = "like" -> "react"
                                            [] x.kind = "boost" -> "retweet"
                                            [] x.kind = "quote" -> "quote"
                                            [] OTHER -> "reply"}

(* When all is quiet the node has what the Fediverse's actors want, booked  *)
(* for them and for the right status, also for a like of a reply whose url  *)
(* carries its parent; what was undone is gone.  Replies and quotes that    *)
(* were deleted stay, because the gateway cannot delete them.               *)
NodeShowsWhatActorsWant ==
    Quiet => \A x \in In \ excused :
        /\ x \in wanted => RowsOf(x) # {}
        /\ RowsOf(x) # {} /\ x.kind \in {"like", "boost"} => x \in wanted

(* "a redelivery of the same note keys to the same reply instead of adding  *)
(* a second row", unless the note has neither id nor url.                   *)
OneRowPerNote ==
    \A x \in In : x.name # None => Cardinality({r \in nodeHas : r.of = x}) <= 1
=============================================================================
