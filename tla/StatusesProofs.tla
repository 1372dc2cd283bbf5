--------------------------- MODULE StatusesProofs ---------------------------
(***************************************************************************)
(* For any actors, notes and tweets and any number of operations and       *)
(* faults: what is done on one side shows on the other when all is quiet,  *)
(* a note has one row, and the urls that were handed out lead back to the  *)
(* tweets they stand for.                                                  *)
(*                                                                         *)
(* The invariant says of every activity under way that it asks for what is *)
(* wanted now, unless its thing is exempt, and of every difference between *)
(* what is wanted and what is recorded that an activity under way accounts *)
(* for it.                                                                 *)
(***************************************************************************)
EXTENDS Statuses, FiniteSetTheorems, TLAPS

(* The row of the server for something the member does. *)
PeerRow(x) == [kind |-> IF x.kind = "emoji" THEN "like" ELSE x.kind, on |-> x.on,
               id |-> IF x.kind = "reply" THEN replyURL(x.on) ELSE None]

(* The row of the node for something an actor does; a note without a name  *)
(* is kept under a token.                                                  *)
Route(x) == CASE x.kind = "like" -> "react"
              [] x.kind = "boost" -> "retweet"
              [] x.kind = "quote" -> "quote"
              [] OTHER -> "reply"
RowId(x, token) == IF x.kind \notin {"reply", "re"} THEN None
                   ELSE IF x.name # None THEN <<x.name, x>> ELSE token
NodeRow(x, token) == [kind |-> Route(x), by |-> bridgedUserID(x.by), author |-> Member,
                      tweet |-> x.on.id, id |-> RowId(x, token), of |-> x]

(* What the records are made of. *)
JobsInv ==
    \A j \in jobs :
        /\ j = [op |-> j.op, x |-> j.x, undo |-> j.undo, event |-> j.event, step |-> j.step]
        /\ j.undo \in BOOLEAN
        /\ j.step \in {"prepare", "post", "sent"}
        /\ j.step = "sent" => j.x \in In
        /\ j.step # "sent" => j.x \in Out
        /\ j.step = "post" => ~Dropped(j)
        /\ ~j.undo \/ j.x \notin excused => NamesParent(j.x, j.event)

ForwardsInv ==
    \A f \in forwards :
        /\ f.x \in In
        /\ f.event.undo \in BOOLEAN
        /\ f.event.undo => f.x.kind \in {"like", "boost"}
        /\ Row(f) = NodeRow(f.x, f.event.id)

RowsInv ==
    /\ \A r \in peerHas : \E x \in Out : r = PeerRow(x)
    /\ \A r \in nodeHas : r.of \in In /\ r = NodeRow(r.of, r.id)

WantedInv ==
    /\ wanted \subseteq Thing
    /\ \A x, y \in wanted : Same(x, y) => x = y

(* A thing is exempt with all that it excludes. *)
ExcusedInv == \A x \in excused : \A y \in Thing : Same(x, y) => y \in excused

(* What is asked for by something under way is what is wanted. *)
Asks(x, undo) == IF undo THEN \A y \in wanted : ~Same(x, y) ELSE x \in wanted
AgreeInv ==
    /\ \A j \in jobs : j.x \notin excused => Asks(j.x, j.undo)
    /\ \A f \in forwards : f.x \notin excused => Asks(f.x, f.event.undo)

(* What the server does not show yet, or still shows, is under way. *)
ServerInv ==
    \A x \in Out \ excused : x.kind # "emoji" =>
        /\ x \in wanted => PeerRow(x) \in peerHas \/ \E j \in jobs : j.x = x
        /\ PeerRow(x) \in peerHas => x \in wanted \/ \E j \in jobs : j.x = x /\ j.undo

(* What the node does not have yet, or still has, is under way. *)
NodeInv ==
    \A x \in In \ excused :
        /\ x \in wanted => \/ \E r \in nodeHas : r.of = x
                           \/ \E j \in jobs : j.x = x
                           \/ \E f \in forwards : f.x = x
        /\ x.kind \in {"like", "boost"} /\ (\E r \in nodeHas : r.of = x) =>
                           \/ x \in wanted
                           \/ \E j \in jobs : j.x = x /\ j.undo
                           \/ \E f \in forwards : f.x = x /\ f.event.undo

IInv == /\ JobsInv /\ ForwardsInv /\ RowsInv
        /\ WantedInv /\ ExcusedInv /\ AgreeInv /\ ServerInv /\ NodeInv

-----------------------------------------------------------------------------
(* What the things are made of. *)
LEMMA OutFacts ==
    ASSUME NEW x \in Out
    PROVE  /\ x.kind \in {"like", "emoji", "boost", "reply", "follow"} /\ x.by = Member
           /\ x.name = None /\ x.kind = "reply" => x.on \in Note
           /\ x = [kind |-> x.kind, by |-> Member, on |-> x.on, name |-> None]
           /\ x \in Thing
  BY DEF Out, Thing

LEMMA InFacts ==
    ASSUME NEW x \in In
    PROVE  /\ x.kind \in {"like", "boost", "quote", "reply", "re"} /\ x.by \in Actor
           /\ x.on \in LocalURL /\ (x.kind \notin {"reply", "re"} => x.name = None)
           /\ x = [kind |-> x.kind, by |-> x.by, on |-> x.on, name |-> x.name]
           /\ x \in Thing
  BY DEF In, Thing

(* The member does nothing an actor does. *)
LEMMA Apart ==
    ASSUME NEW x \in Out, NEW y \in In
    PROVE  x # y /\ ~Same(x, y) /\ ~Same(y, x)
  BY OutFacts, InFacts, ValuesAssumption DEF Same

(* A url of this gateway has an id, and the id determines it. *)
LEMMA LocalURLs ==
    /\ \A u \in LocalURL : u.id # None /\ u # None
    /\ \A u, w \in LocalURL : u.id = w.id => u = w
<1>1. ASSUME NEW u \in LocalURL
      PROVE  /\ u.id # None /\ u # None
             /\ \/ \E t \in Tweet : u = tweetURL(t)
                \/ \E n \in Note : u = replyURL(n)
  BY <1>1, ValuesAssumption DEF LocalURL, tweetURL, replyURL
<1>2. ASSUME NEW u \in LocalURL, NEW w \in LocalURL, u.id = w.id
      PROVE  u = w
  BY <1>1, <1>2 DEF tweetURL, replyURL, TweetId, ReplyId
<1> QED
  BY <1>1, <1>2

(* What excludes each other is an equivalence. *)
LEMMA SameSym == ASSUME NEW x, NEW y, Same(x, y) PROVE Same(y, x)
  BY DEF Same

LEMMA SameTrans == ASSUME NEW x, NEW y, NEW z, Same(x, y), Same(y, z) PROVE Same(x, z)
  BY DEF Same

LEMMA SameRefl == ASSUME NEW x PROVE Same(x, x)
  BY DEF Same

(* What an actor does excludes nothing else of a kind that can be undone. *)
LEMMA SameIn ==
    ASSUME NEW x \in In, NEW y \in In, Same(x, y)
    PROVE  x.kind = y.kind /\ (x.kind \notin {"reply", "re"} => x = y)
  BY InFacts DEF Same

(* What the member does excludes nothing else but the other reaction. *)
LEMMA SameOut ==
    ASSUME NEW x \in Out, NEW y \in Out, Same(x, y), x # y
    PROVE  {x.kind, y.kind} = {"like", "emoji"} /\ x.on = y.on
  BY OutFacts DEF Same

(* The rows of the server tell the member's things apart, but for the two   *)
(* reactions.                                                               *)
LEMMA PeerRowInjective ==
    ASSUME NEW x \in Out, NEW y \in Out, PeerRow(x) = PeerRow(y)
    PROVE  Same(x, y)
<1>1. x.on = y.on /\ PeerRow(x).kind = PeerRow(y).kind
  BY DEF PeerRow
<1>2. x.kind = y.kind \/ {x.kind, y.kind} \subseteq {"like", "emoji"}
  BY <1>1, OutFacts DEF PeerRow
<1> QED
  BY <1>1, <1>2, OutFacts DEF Same

(* The rows of the node tell the actors' things apart. *)
LEMMA NodeRowOf ==
    ASSUME NEW x \in In, NEW y \in In, NEW i, NEW k, NodeRow(x, i) = NodeRow(y, k)
    PROVE  x = y
  BY DEF NodeRow

(* translateInbound: a like, a boost, a quote or a reply becomes the event  *)
(* that makes the row of the thing; a Delete is ignored.                    *)
LEMMA Translated ==
    ASSUME NEW j, j.x \in In, j.undo \in BOOLEAN, NEW n,
           ~(j.undo /\ j.x.kind \notin {"like", "boost"})
    PROVE  translateInbound(j, n) =
             [route |-> Route(j.x), undo |-> j.undo, by |-> bridgedUserID(j.x.by),
              author |-> Member, tweet |-> j.x.on.id, id |-> RowId(j.x, <<"token", j.op, n>>)]
<1>1. j.x.on \in LocalURL /\ j.x.on.id # None /\ parseLocalStatus(j.x.on) = j.x.on.id
  BY InFacts, LocalURLs DEF parseLocalStatus
<1>2. parseLocalStatus(None) = None
  BY ValuesAssumption DEF parseLocalStatus
<1>3. j.x.kind \in {"like", "boost", "quote", "reply", "re"}
  BY InFacts
<1>4. CASE j.x.kind = "like"
  BY <1>1, <1>4 DEF translateInbound, Posted, Route, RowId
<1>5. CASE j.x.kind = "boost"
  BY <1>1, <1>5 DEF translateInbound, Posted, Route, RowId
<1>6. CASE j.x.kind = "quote"
  BY <1>1, <1>2, <1>6 DEF translateInbound, Posted, Route, RowId
<1>7. CASE j.x.kind = "reply"
  BY <1>1, <1>2, <1>7 DEF translateInbound, Posted, Route, RowId, ingestedNoteID
<1>8. CASE j.x.kind = "re"
  BY <1>1, <1>2, <1>8 DEF translateInbound, Posted, Route, RowId, ingestedNoteID
<1> QED
  BY <1>3, <1>4, <1>5, <1>6, <1>7, <1>8

LEMMA NotTranslated ==
    ASSUME NEW j, j.x \in In, j.undo, NEW n, j.x.kind \notin {"like", "boost"}
    PROVE  translateInbound(j, n) = Ignored
  BY InFacts DEF translateInbound, Posted

(* The event of an activity that arrives is no other thing's. *)
LEMMA ArrivedEvent ==
    ASSUME NEW j, j.x \in In, j.undo \in BOOLEAN, NEW n, NEW f,
           translateInbound(j, n) # Ignored,
           f = [op |-> j.op, n |-> n, x |-> j.x, event |-> translateInbound(j, n)]
    PROVE  /\ f.x = j.x /\ f.event.undo = j.undo
           /\ f.event.undo => f.x.kind \in {"like", "boost"}
           /\ Row(f) = NodeRow(f.x, f.event.id)
<1>1. ~(j.undo /\ j.x.kind \notin {"like", "boost"})
  BY NotTranslated
<1>2. /\ f.event = [route |-> Route(j.x), undo |-> j.undo, by |-> bridgedUserID(j.x.by),
                    author |-> Member, tweet |-> j.x.on.id,
                    id |-> RowId(j.x, <<"token", j.op, n>>)]
      /\ f.x = j.x
  BY <1>1, Translated
<1>3. RowId(f.x, f.event.id) = f.event.id
  BY <1>2 DEF RowId
<1> QED
  BY <1>1, <1>2, <1>3 DEF Row, NodeRow

(* What is wanted of an actor arrives as an event. *)
LEMMA ArrivalIsForwarded ==
    ASSUME NEW j, j.x \in In, j.undo \in BOOLEAN, NEW n,
           ~j.undo \/ j.x.kind \in {"like", "boost"}
    PROVE  translateInbound(j, n) # Ignored
<1>1. ~(j.undo /\ j.x.kind \notin {"like", "boost"})
  OBVIOUS
<1>2. translateInbound(j, n) =
        [route |-> Route(j.x), undo |-> j.undo, by |-> bridgedUserID(j.x.by),
         author |-> Member, tweet |-> j.x.on.id, id |-> RowId(j.x, <<"token", j.op, n>>)]
  BY <1>1, Translated
<1>3. Route(j.x) # "none" /\ Ignored.route = "none"
  BY DEF Route, Ignored
<1> QED
  BY <1>2, <1>3

(* The server keeps or removes exactly the row of the thing; a deletion    *)
(* that does not say what the reply was to removes none.                   *)
LEMMA ReceivedRow ==
    ASSUME RowsInv, NEW j, j.x \in Out, j.undo \in BOOLEAN, Received(activity(j), j.undo),
           j.undo \/ NamesParent(j.x, j.event)
    PROVE  IF NamesParent(j.x, j.event)
             THEN peerHas' = IF j.undo THEN peerHas \ {PeerRow(j.x)}
                             ELSE peerHas \cup {PeerRow(j.x)}
             ELSE peerHas' = peerHas
<1>1. CASE j.x.kind # "reply"
  BY <1>1, OutFacts DEF Received, activity, PeerRow, NamesParent
<1>2. CASE j.x.kind = "reply" /\ ~j.undo
  <2>1. parentURL(j.event) = j.x.on
    BY <1>2 DEF NamesParent
  <2>2. replyActivity(j) = [type |-> "Create", on |-> j.x.on, id |-> replyURL(j.x.on)]
    BY <1>2, <2>1 DEF replyActivity, replyURL
  <2> QED
    BY <1>2, <2>2 DEF Received, activity, PeerRow, NamesParent
<1>3. CASE j.x.kind = "reply" /\ j.undo
  <2> DEFINE id == [id |-> ReplyId(j.x.on), parent |-> parentURL(j.event)]
  <2>1. replyActivity(j).type = "Delete" /\ replyActivity(j).id = id
    BY <1>3 DEF replyActivity, replyURL
  <2>2. peerHas' = peerHas \ {r \in peerHas : r.kind = "reply" /\ r.id = id}
    BY <1>3, <2>1 DEF Received, activity
  <2>3. ASSUME NEW r \in peerHas, r.kind = "reply", r.id = id
        PROVE  r = PeerRow(j.x) /\ NamesParent(j.x, j.event)
    <3>1. PICK y \in Out : r = PeerRow(y)
      BY DEF RowsInv
    <3>2. y.kind = "reply"
      BY <2>3, <3>1 DEF PeerRow
    <3>3. replyURL(y.on) = id
      BY <2>3, <3>1, <3>2 DEF PeerRow
    <3>4. y.on = parentURL(j.event) /\ ReplyId(y.on) = ReplyId(j.x.on)
      BY <3>3 DEF replyURL
    <3>5. y.on = j.x.on
      BY <3>4 DEF ReplyId
    <3> QED
      BY <1>3, <3>1, <3>2, <3>4, <3>5 DEF PeerRow, NamesParent
  <2>4. PeerRow(j.x).kind = "reply" /\ PeerRow(j.x).id = replyURL(j.x.on)
    BY <1>3 DEF PeerRow
  <2>5. NamesParent(j.x, j.event) => id = replyURL(j.x.on)
    BY <1>3 DEF NamesParent, replyURL
  <2> HIDE DEF id
  <2> QED
    BY <1>3, <2>2, <2>3, <2>4, <2>5
<1> QED
  BY <1>1, <1>2, <1>3

-----------------------------------------------------------------------------
(* The invariant holds at the start. *)
LEMMA InitIInv == Init => IInv
  BY DEF Init, IInv, JobsInv, ForwardsInv, RowsInv, WantedInv, ExcusedInv, AgreeInv,
     ServerInv, NodeInv

(* Something is done or undone: a thing that stays without exemption had   *)
(* nothing under way that the new activity could meet.                     *)
LEMMA LaunchFacts ==
    ASSUME IInv, NEW z \in Thing, NEW undo \in BOOLEAN, NEW e, Launch(z, undo, e),
           undo \/ NamesParent(z, e)
    PROVE  /\ JobsInv' /\ ExcusedInv' /\ excused \subseteq excused'
           /\ \A x \in Thing \ excused' : Same(z, x) =>
                 /\ \A j \in jobs : ~Same(j.x, x)
                 /\ \A f \in forwards : ~Same(f.x, x)
                 /\ z.kind = "emoji" => [z EXCEPT !.kind = "like"] \notin wanted
           /\ \E j : jobs' = jobs \cup {j} /\ j.x = z /\ j.undo = undo
           /\ UNCHANGED <<peerHas, nodeHas, forwards>>
<1> DEFINE new == [op |-> ops + 1, x |-> z, undo |-> undo,
                   event |-> e, step |-> IF z \in Out THEN "prepare" ELSE "sent"]
           clash == \/ \E j \in jobs : Same(j.x, z)
                    \/ \E f \in forwards : Same(f.x, z)
                    \/ z.kind = "emoji" /\ [z EXCEPT !.kind = "like"] \in wanted
                    \/ ~NamesParent(z, e)
<1>1. /\ jobs' = jobs \cup {new} /\ excused' = excused \cup (IF clash THEN Exempt(z) ELSE {})
      /\ UNCHANGED <<peerHas, nodeHas, forwards>>
  BY DEF Launch
<1>2. /\ new.x = z /\ new.undo = undo /\ new.event = e /\ new.step \in {"prepare", "sent"}
      /\ new = [op |-> new.op, x |-> new.x, undo |-> new.undo,
              event |-> new.event, step |-> new.step]
      /\ (new.step = "sent" => z \in In) /\ (new.step # "sent" => z \in Out)
  BY DEF Thing
<1> HIDE DEF new
<1>3. JobsInv'
  <2>1. NamesParent(z, e) \/ z \in excused'
    BY <1>1, SameRefl DEF Exempt
  <2> HIDE DEF clash
  <2> QED
    BY <1>1, <1>2, <2>1 DEF IInv, JobsInv, Dropped
<1>4. ExcusedInv'
  <2>1. ASSUME NEW x \in Exempt(z), NEW y \in Thing, Same(x, y)
        PROVE  y \in Exempt(z)
    BY <2>1, SameTrans DEF Exempt
  <2> HIDE DEF clash
  <2> QED
    BY <1>1, <2>1 DEF IInv, ExcusedInv
<1>5. ASSUME NEW x \in Thing \ excused', Same(z, x)
      PROVE  ~clash
  BY <1>1, <1>5 DEF Exempt
<1>6. ASSUME NEW x \in Thing \ excused', Same(z, x)
      PROVE  /\ \A j \in jobs : ~Same(j.x, x)
             /\ \A f \in forwards : ~Same(f.x, x)
             /\ z.kind = "emoji" => [z EXCEPT !.kind = "like"] \notin wanted
  BY <1>5, <1>6, SameSym, SameTrans
<1>7. excused \subseteq excused'
  BY <1>1
<1> QED
  BY <1>1, <1>2, <1>3, <1>4, <1>6, <1>7

(* Somebody does something. *)
LEMMA DoIInv == ASSUME IInv, NEW z \in Thing, Do(z) PROVE IInv'
<1>0. PICK e : Launch(z, FALSE, e) /\ NamesParent(z, e)
  BY DEF Do
<1>1. /\ Launch(z, FALSE, e) /\ NamesParent(z, e) /\ z \notin wanted
      /\ wanted' = {y \in wanted : ~Same(z, y)} \cup {z}
  BY <1>0 DEF Do
<1>2. PICK new : jobs' = jobs \cup {new} /\ new.x = z /\ new.undo = FALSE
  BY <1>1, LaunchFacts
<1>3. JobsInv' /\ ExcusedInv' /\ excused \subseteq excused'
      /\ UNCHANGED <<peerHas, nodeHas, forwards>>
  BY <1>1, LaunchFacts
<1>4. ASSUME NEW x \in Thing \ excused', Same(z, x)
      PROVE  /\ \A j \in jobs : ~Same(j.x, x)
             /\ \A f \in forwards : ~Same(f.x, x)
             /\ z.kind = "emoji" => [z EXCEPT !.kind = "like"] \notin wanted
  BY <1>1, <1>4, LaunchFacts
<1>5. ForwardsInv' /\ RowsInv'
  BY <1>3 DEF IInv, ForwardsInv, RowsInv, Row
<1>6. WantedInv'
  BY <1>1, SameSym DEF IInv, WantedInv
<1>7. ASSUME NEW x \in Thing \ excused', NEW undo \in BOOLEAN, Asks(x, undo), ~Same(z, x)
      PROVE  Asks(x, undo)'
  BY <1>1, <1>7, SameSym DEF Asks
<1>8. AgreeInv'
  <2>1. ASSUME NEW j \in jobs, j.x \notin excused'
        PROVE  Asks(j.x, j.undo)'
    <3>1. j.x \in Thing \ excused' /\ j.undo \in BOOLEAN /\ Asks(j.x, j.undo)
      BY <1>3, <2>1, OutFacts, InFacts DEF IInv, JobsInv, AgreeInv
    <3>2. ~Same(z, j.x)
      BY <1>4, <3>1, SameRefl
    <3> QED
      BY <1>7, <3>1, <3>2
  <2>2. ASSUME NEW f \in forwards, f.x \notin excused'
        PROVE  Asks(f.x, f.event.undo)'
    <3>1. f.x \in Thing \ excused' /\ f.event.undo \in BOOLEAN /\ Asks(f.x, f.event.undo)
      BY <1>3, <2>2, InFacts DEF IInv, ForwardsInv, AgreeInv
    <3>2. ~Same(z, f.x)
      BY <1>4, <3>1, SameRefl
    <3> QED
      BY <1>7, <3>1, <3>2
  <2>3. Asks(new.x, new.undo)'
    BY <1>1, <1>2 DEF Asks
  <2> QED
    BY <1>2, <1>3, <2>1, <2>2, <2>3 DEF AgreeInv
<1>9. ServerInv'
  <2> SUFFICES ASSUME NEW x \in Out \ excused', x.kind # "emoji"
               PROVE  /\ x \in wanted' => PeerRow(x) \in peerHas \/ \E j \in jobs' : j.x = x
                      /\ PeerRow(x) \in peerHas =>
                            x \in wanted' \/ \E j \in jobs' : j.x = x /\ j.undo
    BY <1>3 DEF ServerInv, PeerRow, replyURL, ReplyId
  <2>1. x \in Thing \ excused' /\ x \in Out \ excused
    BY <1>3, OutFacts
  <2>2. /\ x \in wanted => PeerRow(x) \in peerHas \/ \E j \in jobs : j.x = x
        /\ PeerRow(x) \in peerHas => x \in wanted \/ \E j \in jobs : j.x = x /\ j.undo
    BY <2>1 DEF IInv, ServerInv
  <2>3. x \in wanted' => x = z \/ x \in wanted
    BY <1>1
  <2>4. x \in wanted => x \in wanted'
    <3> SUFFICES ASSUME x \in wanted, Same(z, x) PROVE FALSE
      BY <1>1
    <3>1. z \in Out /\ z # x
      BY <1>1, Apart DEF Thing
    <3>2. z.kind = "emoji" /\ x.kind = "like" /\ z.on = x.on
      BY <3>1, SameOut
    <3>3. [z EXCEPT !.kind = "like"] = x
      BY <3>1, <3>2, OutFacts
    <3> QED
      BY <1>4, <2>1, <3>2, <3>3
  <2> QED
    BY <1>2, <2>2, <2>3, <2>4
<1>10. NodeInv'
  <2> SUFFICES ASSUME NEW x \in In \ excused'
               PROVE  /\ x \in wanted' => \/ \E r \in nodeHas : r.of = x
                                          \/ \E j \in jobs' : j.x = x
                                          \/ \E f \in forwards : f.x = x
                      /\ x.kind \in {"like", "boost"} /\ (\E r \in nodeHas : r.of = x) =>
                                          \/ x \in wanted'
                                          \/ \E j \in jobs' : j.x = x /\ j.undo
                                          \/ \E f \in forwards : f.x = x /\ f.event.undo
    BY <1>3 DEF NodeInv
  <2>1. x \in In \ excused
    BY <1>3
  <2>2. x.kind \in {"like", "boost"} /\ x \in wanted => x \in wanted'
    <3> SUFFICES ASSUME x.kind \in {"like", "boost"}, x \in wanted, Same(z, x) PROVE FALSE
      BY <1>1
    <3>1. z \in In
      BY Apart DEF Thing
    <3> QED
      BY <1>1, <3>1, SameIn
  <2> QED
    BY <1>1, <1>2, <2>1, <2>2 DEF IInv, NodeInv
<1> QED
  BY <1>3, <1>5, <1>6, <1>8, <1>9, <1>10 DEF IInv

(* Somebody undoes something. *)
LEMMA UndoIInv == ASSUME IInv, NEW z \in Thing, Undo(z) PROVE IInv'
<1>0. PICK e : Launch(z, TRUE, e)
  BY DEF Undo
<1>1. Launch(z, TRUE, e) /\ z \in wanted /\ wanted' = wanted \ {z}
  BY <1>0 DEF Undo
<1>2. PICK new : jobs' = jobs \cup {new} /\ new.x = z /\ new.undo = TRUE
  BY <1>1, LaunchFacts
<1>3. JobsInv' /\ ExcusedInv' /\ excused \subseteq excused'
      /\ UNCHANGED <<peerHas, nodeHas, forwards>>
  BY <1>1, LaunchFacts
<1>4. ASSUME NEW x \in Thing \ excused', Same(z, x)
      PROVE  /\ \A j \in jobs : ~Same(j.x, x)
             /\ \A f \in forwards : ~Same(f.x, x)
  BY <1>1, <1>4, LaunchFacts
<1>5. ForwardsInv' /\ RowsInv'
  BY <1>3 DEF IInv, ForwardsInv, RowsInv, Row
<1>6. WantedInv'
  BY <1>1 DEF IInv, WantedInv
<1>7. ASSUME NEW x \in Thing \ excused', NEW undo \in BOOLEAN, Asks(x, undo), ~Same(z, x)
      PROVE  Asks(x, undo)'
  BY <1>1, <1>7, SameRefl DEF Asks
<1>8. AgreeInv'
  <2>1. ASSUME NEW j \in jobs, j.x \notin excused'
        PROVE  Asks(j.x, j.undo)'
    <3>1. j.x \in Thing \ excused' /\ j.undo \in BOOLEAN /\ Asks(j.x, j.undo)
      BY <1>3, <2>1, OutFacts, InFacts DEF IInv, JobsInv, AgreeInv
    <3>2. ~Same(z, j.x)
      BY <1>4, <3>1, SameRefl
    <3> QED
      BY <1>7, <3>1, <3>2
  <2>2. ASSUME NEW f \in forwards, f.x \notin excused'
        PROVE  Asks(f.x, f.event.undo)'
    <3>1. f.x \in Thing \ excused' /\ f.event.undo \in BOOLEAN /\ Asks(f.x, f.event.undo)
      BY <1>3, <2>2, InFacts DEF IInv, ForwardsInv, AgreeInv
    <3>2. ~Same(z, f.x)
      BY <1>4, <3>1, SameRefl
    <3> QED
      BY <1>7, <3>1, <3>2
  <2>3. Asks(new.x, new.undo)'
    BY <1>1, <1>2 DEF Asks, IInv, WantedInv
  <2> QED
    BY <1>2, <1>3, <2>1, <2>2, <2>3 DEF AgreeInv
<1>9. ServerInv'
  BY <1>1, <1>2, <1>3 DEF IInv, ServerInv, PeerRow, replyURL, ReplyId
<1>10. NodeInv'
  BY <1>1, <1>2, <1>3 DEF IInv, NodeInv
<1> QED
  BY <1>3, <1>5, <1>6, <1>8, <1>9, <1>10 DEF IInv

(* A failure exempts the thing and all that it excludes. *)
LEMMA Excusing ==
    ASSUME IInv, NEW z, excused' = excused \cup Exempt(z)
    PROVE  ExcusedInv' /\ \A x \in Thing \ excused' : ~Same(z, x)
<1>1. ASSUME NEW x \in Exempt(z), NEW y \in Thing, Same(x, y)
      PROVE  y \in Exempt(z)
  BY <1>1, SameTrans DEF Exempt
<1>2. ExcusedInv'
  BY <1>1 DEF IInv, ExcusedInv
<1> QED
  BY <1>2 DEF Exempt

(* The route handler of the node server, up to the delivery. *)
LEMMA PrepareIInv == ASSUME IInv, NEW j \in jobs, Prepare(j) PROVE IInv'
<1>1. j.step = "prepare" /\ UNCHANGED <<wanted, peerHas, nodeHas, forwards>>
  BY DEF Prepare
<1>2. j.x \in Out /\ j.undo \in BOOLEAN
      /\ j = [op |-> j.op, x |-> j.x, undo |-> j.undo, event |-> j.event,
              step |-> j.step]
  BY <1>1 DEF IInv, JobsInv
<1>3. ForwardsInv' /\ RowsInv' /\ WantedInv'
  BY <1>1 DEF IInv, ForwardsInv, RowsInv, WantedInv, Row
<1>4. CASE Dropped(j) /\ jobs' = jobs \ {j} /\ excused' = excused
  <2>1. JobsInv' /\ ExcusedInv' /\ AgreeInv'
    BY <1>1, <1>4 DEF IInv, JobsInv, ExcusedInv, AgreeInv, Asks, Dropped
  <2>2. ServerInv'
    <3>1. j.x.kind = "emoji" \/ j.x \in excused
      BY <1>2, <1>4, OutFacts, ValuesAssumption DEF Dropped, IInv, JobsInv, NamesParent
    <3> QED
      BY <1>1, <1>4, <3>1 DEF IInv, ServerInv, PeerRow, replyURL, ReplyId
  <2>3. NodeInv'
    BY <1>1, <1>2, <1>4, Apart DEF IInv, NodeInv
  <2> QED
    BY <1>3, <2>1, <2>2, <2>3 DEF IInv
<1>5. CASE ~Dropped(j) /\ jobs' = (jobs \ {j}) \cup {[j EXCEPT !.step = "post"]}
           /\ excused' = excused
  <2> DEFINE q == [op |-> j.op, x |-> j.x, undo |-> j.undo, event |-> j.event,
                    step |-> "post"]
  <2>1. /\ jobs' = (jobs \ {j}) \cup {q}
        /\ q.x = j.x /\ q.undo = j.undo /\ q.event = j.event /\ q.step = "post"
        /\ q = [op |-> q.op, x |-> q.x, undo |-> q.undo, event |-> q.event, step |-> q.step]
    <3>1. [j EXCEPT !.step = "post"] = q
      BY <1>2
    <3> QED
      BY <1>5, <3>1
  <2> HIDE DEF q
  <2>2. JobsInv' /\ ExcusedInv' /\ AgreeInv'
    BY <1>1, <1>2, <1>5, <2>1 DEF IInv, JobsInv, ExcusedInv, AgreeInv, Asks, Dropped
  <2>3. ServerInv'
    BY <1>1, <1>5, <2>1 DEF IInv, ServerInv, PeerRow, replyURL, ReplyId
  <2>4. NodeInv'
    BY <1>1, <1>5, <2>1 DEF IInv, NodeInv
  <2> QED
    BY <1>3, <2>2, <2>3, <2>4 DEF IInv
<1>6. CASE jobs' = jobs \ {j} /\ excused' = excused \cup Exempt(j.x)
  <2>1. ExcusedInv' /\ \A x \in Thing \ excused' : x # j.x
    BY <1>6, Excusing, SameRefl
  <2>2. JobsInv' /\ AgreeInv'
    BY <1>1, <1>6 DEF IInv, JobsInv, AgreeInv, Asks, Dropped
  <2>3. ServerInv'
    BY <1>1, <1>6, <2>1, OutFacts DEF IInv, ServerInv, PeerRow, replyURL, ReplyId
  <2>4. NodeInv'
    BY <1>1, <1>6, <2>1, InFacts DEF IInv, NodeInv
  <2> QED
    BY <1>3, <2>1, <2>2, <2>3, <2>4 DEF IInv
<1> QED
  BY <1>4, <1>5, <1>6 DEF Prepare, authorInbox

(* What a delivery that reaches the server leaves there. *)
LEMMA PostedRows ==
    ASSUME IInv, NEW j \in jobs, j.step = "post",
           peerHas' = peerHas \/ Received(activity(j), j.undo)
    PROVE  /\ \A r \in peerHas' : \E x \in Out : r = PeerRow(x)
           /\ \A x \in Out : ~Same(j.x, x) => (PeerRow(x) \in peerHas' <=> PeerRow(x) \in peerHas)
           /\ j.undo => peerHas' \subseteq peerHas
           /\ ~j.undo => peerHas \subseteq peerHas'
           /\ Received(activity(j), j.undo) /\ j.x \notin excused => (PeerRow(j.x) \in peerHas' <=> ~j.undo)
<1>1. j.x \in Out /\ j.undo \in BOOLEAN /\ RowsInv
  BY DEF IInv, JobsInv
<1>2. Received(activity(j), j.undo) =>
        \/ peerHas' = IF j.undo THEN peerHas \ {PeerRow(j.x)} ELSE peerHas \cup {PeerRow(j.x)}
        \/ j.undo /\ j.x \in excused /\ peerHas' = peerHas
  <2>1. (j.undo /\ j.x \in excused) \/ NamesParent(j.x, j.event)
    BY <1>1 DEF IInv, JobsInv
  <2> QED
    BY <1>1, <2>1, ReceivedRow
<1>3. \A x \in Out : ~Same(j.x, x) => PeerRow(x) # PeerRow(j.x)
  BY <1>1, PeerRowInjective
<1>4. CASE peerHas' = peerHas /\ ~Received(activity(j), j.undo)
  BY <1>1, <1>4 DEF RowsInv
<1>5. CASE Received(activity(j), j.undo)
  BY <1>1, <1>2, <1>3, <1>5 DEF RowsInv
<1> QED
  BY <1>4, <1>5

(* postSigned: a delivery, with its failures. *)
LEMMA PostIInv == ASSUME IInv, NEW j \in jobs, Post(j) PROVE IInv'
<1>1. /\ j.step = "post" /\ UNCHANGED <<wanted, nodeHas, forwards>>
      /\ peerHas' = peerHas \/ Received(activity(j), j.undo)
  BY DEF Post
<1>2. j.x \in Out /\ j.undo \in BOOLEAN /\ ~Dropped(j)
  BY <1>1 DEF IInv, JobsInv
<1>3. ForwardsInv' /\ RowsInv' /\ WantedInv'
  BY <1>1, PostedRows DEF IInv, ForwardsInv, RowsInv, WantedInv, Row
<1>4. \/ jobs' = jobs \ {j} /\ excused' = excused /\ Received(activity(j), j.undo)
      \/ jobs' = jobs /\ excused' = excused
      \/ jobs' = jobs \ {j} /\ excused' = excused \cup Exempt(j.x)
  BY DEF Post
<1>5. jobs' \subseteq jobs /\ excused \subseteq excused'
  BY <1>4
<1>6. JobsInv' /\ AgreeInv'
  BY <1>1, <1>5 DEF IInv, JobsInv, AgreeInv, Asks, Dropped
<1>7. ExcusedInv'
  BY <1>4, Excusing DEF IInv, ExcusedInv
<1>8. NodeInv'
  <2>1. \A x \in In : \A q \in jobs : q.x = x => q \in jobs'
    BY <1>2, <1>4, Apart
  <2> QED
    BY <1>1, <1>5, <2>1 DEF IInv, NodeInv
<1>9. ServerInv'
  <2> SUFFICES ASSUME NEW x \in Out \ excused', x.kind # "emoji"
               PROVE  /\ x \in wanted => PeerRow(x) \in peerHas' \/ \E q \in jobs' : q.x = x
                      /\ PeerRow(x) \in peerHas' =>
                            x \in wanted \/ \E q \in jobs' : q.x = x /\ q.undo
    BY <1>1 DEF ServerInv, PeerRow, replyURL, ReplyId
  <2>1. /\ x \in wanted => PeerRow(x) \in peerHas \/ \E q \in jobs : q.x = x
        /\ PeerRow(x) \in peerHas => x \in wanted \/ \E q \in jobs : q.x = x /\ q.undo
    BY <1>5 DEF IInv, ServerInv
  <2>2. CASE ~Same(j.x, x)
    <3>1. x # j.x /\ (PeerRow(x) \in peerHas' <=> PeerRow(x) \in peerHas)
      BY <1>1, <2>2, PostedRows, SameRefl
    <3>2. \A q \in jobs : q.x = x => q \in jobs'
      BY <1>4, <3>1
    <3> QED
      BY <2>1, <3>1, <3>2
  <2>3. CASE Same(j.x, x)
    <3>1. j.x \notin excused /\ Asks(j.x, j.undo)
      <4>1. x \in Thing /\ j.x \in Thing /\ x \notin excused
        BY <1>2, <1>5, OutFacts
      <4> QED
        BY <2>3, <4>1 DEF IInv, ExcusedInv, AgreeInv
    <3>2. CASE j.undo
      <4>1. x \notin wanted
        BY <2>3, <3>1, <3>2 DEF Asks
      <4>2. PeerRow(x) \in peerHas' => PeerRow(x) \in peerHas
        BY <1>1, <3>2, PostedRows
      <4>3. CASE jobs' = jobs
        BY <2>1, <4>1, <4>2, <4>3
      <4>4. CASE jobs' # jobs
        <5>1. Received(activity(j), j.undo)
          <6>1. x \in Thing
            BY OutFacts
          <6> QED
            BY <1>4, <2>3, <4>4, <6>1, Excusing
        <5>2. PeerRow(j.x) = PeerRow(x)
          <6>1. j.x = x \/ ({j.x.kind, x.kind} = {"like", "emoji"} /\ j.x.on = x.on)
            BY <1>2, <2>3, SameOut
          <6> QED
            BY <6>1 DEF PeerRow
        <5> QED
          BY <1>1, <3>1, <3>2, <4>1, <5>1, <5>2, PostedRows
      <4> QED
        BY <4>3, <4>4
    <3>3. CASE ~j.undo
      <4>1. j.x \in wanted
        BY <3>1, <3>3 DEF Asks
      <4>2. x = j.x
        BY <1>2, <2>3, <3>3, SameOut DEF Dropped
      <4>3. CASE jobs' = jobs
        BY <2>1, <4>1, <4>2, <4>3, <1>1, <3>3, PostedRows
      <4>4. CASE jobs' # jobs
        <5>1. Received(activity(j), j.undo)
          <6>1. x \in Thing
            BY OutFacts
          <6> QED
            BY <1>4, <2>3, <4>4, <6>1, Excusing
        <5> QED
          BY <1>1, <3>1, <3>3, <4>1, <4>2, <5>1, PostedRows
      <4> QED
        BY <4>3, <4>4
    <3> QED
      BY <1>2, <3>2, <3>3
  <2> QED
    BY <2>2, <2>3
<1> QED
  BY <1>3, <1>6, <1>7, <1>8, <1>9 DEF IInv

(* The inbox takes an activity, once or again. *)
LEMMA ArriveIInv == ASSUME IInv, NEW j \in jobs, Arrive(j) PROVE IInv'
<1> DEFINE n == copies[j.op] + 1
           ev == translateInbound(j, n)
           new == [op |-> j.op, n |-> n, x |-> j.x, event |-> ev]
<1>1. /\ j.step = "sent" /\ UNCHANGED <<wanted, peerHas, nodeHas, excused>>
      /\ forwards' = IF ev = Ignored THEN forwards ELSE forwards \cup {new}
      /\ jobs' = jobs \ {j} \/ jobs' = jobs
  BY DEF Arrive
<1>2. j.x \in In /\ j.undo \in BOOLEAN
  BY <1>1 DEF IInv, JobsInv
<1>3. ev # Ignored =>
        /\ new.x = j.x /\ new.event.undo = j.undo
        /\ new.event.undo => new.x.kind \in {"like", "boost"}
        /\ Row(new) = NodeRow(new.x, new.event.id)
  BY <1>2, ArrivedEvent
<1>4. ~j.undo \/ j.x.kind \in {"like", "boost"} => ev # Ignored
  BY <1>2, ArrivalIsForwarded
<1> HIDE DEF n, ev, new
<1>5. JobsInv' /\ RowsInv' /\ WantedInv' /\ ExcusedInv'
  BY <1>1 DEF IInv, JobsInv, RowsInv, WantedInv, ExcusedInv, Dropped
<1>6. ForwardsInv'
  BY <1>1, <1>2, <1>3 DEF IInv, ForwardsInv, Row
<1>7. AgreeInv'
  BY <1>1, <1>3 DEF IInv, AgreeInv, Asks
<1>8. ServerInv'
  <2>1. \A x \in Out : \A q \in jobs : q.x = x => q \in jobs'
    BY <1>1, <1>2, Apart
  <2>2. jobs' \subseteq jobs
    BY <1>1
  <2> QED
    BY <1>1, <2>1, <2>2 DEF IInv, ServerInv, PeerRow, replyURL, ReplyId
<1>9. NodeInv'
  <2> SUFFICES ASSUME NEW x \in In \ excused
               PROVE  /\ x \in wanted => \/ \E r \in nodeHas : r.of = x
                                         \/ \E q \in jobs' : q.x = x
                                         \/ \E f \in forwards' : f.x = x
                      /\ x.kind \in {"like", "boost"} /\ (\E r \in nodeHas : r.of = x) =>
                                         \/ x \in wanted
                                         \/ \E q \in jobs' : q.x = x /\ q.undo
                                         \/ \E f \in forwards' : f.x = x /\ f.event.undo
    BY <1>1 DEF NodeInv
  <2>1. forwards \subseteq forwards'
    BY <1>1
  <2>2. CASE x # j.x
    <3>1. \A q \in jobs : q.x = x => q \in jobs'
      BY <1>1, <2>2
    <3> QED
      BY <2>1, <3>1 DEF IInv, NodeInv
  <2>3. CASE x = j.x
    <3>1. x \in wanted <=> ~j.undo
      BY <1>2, <2>3, SameRefl DEF IInv, AgreeInv, Asks
    <3>2. CASE ev # Ignored
      BY <1>1, <1>3, <2>3, <3>1, <3>2
    <3>3. CASE ev = Ignored
      BY <1>2, <1>4, <2>3, <3>1, <3>3
    <3> QED
      BY <3>2, <3>3
  <2> QED
    BY <2>2, <2>3
<1> QED
  BY <1>5, <1>6, <1>7, <1>8, <1>9 DEF IInv

(* The goroutine that forwards an event to the node. *)
LEMMA ForwardIInv == ASSUME IInv, NEW g \in forwards, Forward(g) PROVE IInv'
<1>1. /\ forwards' = forwards \ {g} /\ UNCHANGED <<wanted, jobs, peerHas>>
      /\ \/ /\ nodeHas' = IF g.event.undo THEN nodeHas \ {Row(g)} ELSE nodeHas \cup {Row(g)}
            /\ excused' = excused
         \/ excused' = excused \cup Exempt(g.x) /\ nodeHas' = nodeHas
  BY DEF Forward
<1>2. /\ g.x \in In /\ g.event.undo \in BOOLEAN
      /\ g.event.undo => g.x.kind \in {"like", "boost"}
      /\ Row(g) = NodeRow(g.x, g.event.id)
  BY DEF IInv, ForwardsInv
<1>3. Row(g).of = g.x /\ Row(g) = NodeRow(Row(g).of, Row(g).id)
  BY <1>2 DEF NodeRow, RowId
<1>4. JobsInv' /\ ForwardsInv' /\ WantedInv'
  BY <1>1 DEF IInv, JobsInv, ForwardsInv, WantedInv, Row, Dropped
<1>5. RowsInv'
  BY <1>1, <1>2, <1>3 DEF IInv, RowsInv
<1>6. ExcusedInv'
  BY <1>1, Excusing DEF IInv, ExcusedInv
<1>7. excused \subseteq excused'
  BY <1>1
<1>8. AgreeInv'
  BY <1>1, <1>7 DEF IInv, AgreeInv, Asks
<1>9. ServerInv'
  BY <1>1, <1>7 DEF IInv, ServerInv, PeerRow, replyURL, ReplyId
<1>10. NodeInv'
  <2> SUFFICES ASSUME NEW x \in In \ excused'
               PROVE  /\ x \in wanted => \/ \E r \in nodeHas' : r.of = x
                                         \/ \E q \in jobs : q.x = x
                                         \/ \E f \in forwards' : f.x = x
                      /\ x.kind \in {"like", "boost"} /\ (\E r \in nodeHas' : r.of = x) =>
                                         \/ x \in wanted
                                         \/ \E q \in jobs : q.x = x /\ q.undo
                                         \/ \E f \in forwards' : f.x = x /\ f.event.undo
    BY <1>1 DEF NodeInv
  <2>1. x \in In \ excused
    BY <1>7
  <2>2. CASE x # g.x
    <3>1. (\E r \in nodeHas' : r.of = x) <=> (\E r \in nodeHas : r.of = x)
      BY <1>1, <1>3, <2>2
    <3>2. \A f \in forwards : f.x = x => f \in forwards'
      BY <1>1, <2>2
    <3> QED
      BY <1>1, <2>1, <3>1, <3>2 DEF IInv, NodeInv
  <2>3. CASE x = g.x
    <3>1. nodeHas' = IF g.event.undo THEN nodeHas \ {Row(g)} ELSE nodeHas \cup {Row(g)}
      BY <1>1, <2>3, Excusing, InFacts, SameRefl
    <3>2. x \in wanted <=> ~g.event.undo
      BY <1>2, <2>1, <2>3, SameRefl DEF IInv, AgreeInv, Asks
    <3>3. ASSUME g.event.undo, NEW r \in nodeHas, r.of = x PROVE r = Row(g)
      BY <1>2, <2>3, <3>3 DEF IInv, RowsInv, NodeRow, RowId
    <3> QED
      BY <1>2, <1>3, <2>3, <3>1, <3>2, <3>3
  <2> QED
    BY <2>2, <2>3
<1> QED
  BY <1>4, <1>5, <1>6, <1>8, <1>9, <1>10 DEF IInv

(* Every step keeps the invariant. *)
LEMMA StepIInv == IInv /\ [Next]_vars => IInv'
<1> SUFFICES ASSUME IInv, [Next]_vars PROVE IInv'
  OBVIOUS
<1>1. CASE Next
  BY <1>1, DoIInv, UndoIInv, PrepareIInv, PostIInv, ArriveIInv, ForwardIInv DEF Next
<1>2. CASE UNCHANGED vars
  BY <1>2 DEF vars, IInv, JobsInv, ForwardsInv, RowsInv, WantedInv, ExcusedInv, AgreeInv,
     ServerInv, NodeInv, Asks, Dropped, Row, PeerRow, replyURL, ReplyId
<1> QED
  BY <1>1, <1>2

(* So it holds in every state the gateway, the node and the server reach. *)
LEMMA Invariance == Spec => []IInv
  BY InitIInv, StepIInv, PTL DEF Spec

-----------------------------------------------------------------------------
(* React, Announce, Follow, Reply and Delete: once nothing is under way,   *)
(* the server shows what the member wants and nothing else, for everything *)
(* that no failure was reported of and no two activities crossed on.       *)
THEOREM ServerFollowsMember == Spec => []ServerShowsWhatMemberWants
<1>1. ASSUME IInv PROVE ServerShowsWhatMemberWants
  <2> SUFFICES ASSUME Quiet, NEW x \in Out \ excused, x.kind # "emoji"
               PROVE  x \in wanted <=> \E r \in peerHas : r.kind = x.kind /\ r.on = x.on
    BY DEF ServerShowsWhatMemberWants
  <2>1. x \in wanted <=> PeerRow(x) \in peerHas
    BY <1>1 DEF IInv, ServerInv, Quiet
  <2>2. PeerRow(x).kind = x.kind /\ PeerRow(x).on = x.on
    BY DEF PeerRow
  <2>3. ASSUME NEW r \in peerHas, r.kind = x.kind, r.on = x.on PROVE r = PeerRow(x)
    <3>1. PICK y \in Out : r = PeerRow(y)
      BY <1>1 DEF IInv, RowsInv
    <3> QED
      BY <2>3, <3>1 DEF PeerRow
  <2> QED
    BY <2>1, <2>2, <2>3
<1> QED
  BY <1>1, Invariance, PTL

(* A row of the node about an undoable thing tells which one. *)
LEMMA RowTells ==
    ASSUME IInv, NEW x \in In, x.kind \in {"like", "boost"}, NEW r \in RowsOf(x)
    PROVE  r \in nodeHas /\ r.of = x
<1>1. /\ r \in nodeHas /\ r.by = bridgedUserID(x.by) /\ r.tweet = x.on.id
      /\ r.kind = Route(x)
  BY DEF RowsOf, Route
<1>2. r.of \in In /\ r = NodeRow(r.of, r.id)
  BY <1>1 DEF IInv, RowsInv
<1>3. r.kind = Route(r.of) /\ r.by = bridgedUserID(r.of.by) /\ r.tweet = r.of.on.id
  BY <1>2 DEF NodeRow
<1>4. r.of.kind = x.kind
  BY <1>1, <1>3 DEF Route
<1>5. r.of.by = x.by
  BY <1>1, <1>3 DEF bridgedUserID
<1>6. r.of.on = x.on
  BY <1>1, <1>2, <1>3, InFacts, LocalURLs
<1> QED
  BY <1>1, <1>2, <1>4, <1>5, <1>6, InFacts

(* translateInbound and the goroutines that forward its events: once       *)
(* nothing is under way, the node has what the Fediverse's actors want,    *)
(* and no like or boost that was undone.                                   *)
THEOREM NodeFollowsActors == Spec => []NodeShowsWhatActorsWant
<1>1. ASSUME IInv PROVE NodeShowsWhatActorsWant
  <2> SUFFICES ASSUME Quiet, NEW x \in In \ excused
               PROVE  /\ x \in wanted => RowsOf(x) # {}
                      /\ RowsOf(x) # {} /\ x.kind \in {"like", "boost"} => x \in wanted
    BY DEF NodeShowsWhatActorsWant
  <2>1. ASSUME x \in wanted PROVE RowsOf(x) # {}
    <3>1. PICK r \in nodeHas : r.of = x
      BY <1>1, <2>1 DEF IInv, NodeInv, Quiet
    <3>2. r = NodeRow(x, r.id)
      BY <1>1, <3>1 DEF IInv, RowsInv
    <3>3. r.kind = Route(x) /\ r.by = bridgedUserID(x.by) /\ r.author = Member
          /\ r.tweet = x.on.id
      BY <3>2 DEF NodeRow
    <3> QED
      BY <3>3 DEF RowsOf, Route
  <2>2. ASSUME RowsOf(x) # {}, x.kind \in {"like", "boost"} PROVE x \in wanted
    <3>1. \E r \in nodeHas : r.of = x
      BY <1>1, <2>2, RowTells
    <3> QED
      BY <1>1, <2>2, <3>1 DEF IInv, NodeInv, Quiet
  <2> QED
    BY <2>1, <2>2
<1> QED
  BY <1>1, Invariance, PTL

(* ingestedNoteID: however often a note with an id or a url is delivered,   *)
(* the node has one row of it.                                              *)
THEOREM RedeliveryAddsNoRow == Spec => []OneRowPerNote
<1>1. ASSUME IInv PROVE OneRowPerNote
  <2> SUFFICES ASSUME NEW x \in In, x.name # None
               PROVE  Cardinality({r \in nodeHas : r.of = x}) <= 1
    BY DEF OneRowPerNote
  <2> DEFINE rows == {r \in nodeHas : r.of = x}
             row == NodeRow(x, None)
  <2>1. rows \in SUBSET {row}
    BY <1>1, InFacts DEF IInv, RowsInv, NodeRow, RowId
  <2>2. IsFiniteSet({row}) /\ Cardinality({row}) = 1
    BY FS_Singleton
  <2> HIDE DEF rows, row
  <2>3. Cardinality(rows) <= Cardinality({row})
    BY <2>1, <2>2, FS_Subset
  <2>4. Cardinality(rows) <= 1
    BY <2>2, <2>3
  <2> QED
    BY <2>4 DEF rows
<1> QED
  BY <1>1, Invariance, PTL

(* The member's replies are replies to notes of the server. *)
LEMMA OwnRepliesAreReplies == ASSUME IInv PROVE ownReplies \subseteq Note
<1>1. ASSUME NEW x \in wanted \cap Out, x.kind = "reply" PROVE x.on \in Note
  BY <1>1, OutFacts
<1> QED
  BY <1>1 DEF ownReplies

(* The server has the member's reply to a note under the url of that reply. *)
LEMMA RepliesHaveTheirURL ==
    ASSUME IInv, NEW r \in peerHas, r.kind = "reply"
    PROVE  r.on \in Note /\ r.id = replyURL(r.on)
<1>1. PICK x \in Out : r = PeerRow(x)
  BY DEF IInv, RowsInv
<1>2. x.kind = "reply"
  BY <1>1 DEF PeerRow
<1> QED
  BY <1>1, <1>2, OutFacts DEF PeerRow

(* The node finds what it is asked for. *)
LEMMA FoundTweet == ASSUME NEW t \in Tweet PROVE getTweet(TweetId(t), None) = TopLevel(t)
<1>1. {TopLevel(u) : u \in {s \in Tweet : TweetId(s) = TweetId(t)}} = {TopLevel(t)}
  BY DEF TweetId
<1> QED
  BY <1>1 DEF getTweet

LEMMA FoundReply ==
    ASSUME NEW n \in ownReplies, n # None
    PROVE  getTweet(ReplyId(n), n) = ReplyTweet(n)
<1>1. {ReplyTweet(u) : u \in {m \in ownReplies : ReplyId(m) = ReplyId(n) /\ m = n}} = {ReplyTweet(n)}
  OBVIOUS
<1> QED
  BY <1>1 DEF getTweet

(* serveStatus: every url that was handed out leads back to the note it     *)
(* was handed out with, as long as the member keeps the tweet.              *)
THEOREM HandedOutUrlsResolve == Spec => []UrlsResolve
<1>1. ASSUME IInv PROVE UrlsResolve
  <2>1. ASSUME NEW t \in Tweet PROVE serveStatus(buildNote(TopLevel(t)).id) = buildNote(TopLevel(t))
    <3>1. buildNote(TopLevel(t)).id = [id |-> TweetId(t), parent |-> None]
      BY DEF buildNote, TopLevel
    <3> QED
      BY <3>1, FoundTweet, TweetsAssumption DEF serveStatus
  <2>2. ASSUME NEW r \in peerHas, r.kind = "reply", r.on \in ownReplies
        PROVE  serveStatus(r.id) = [id |-> r.id, inReplyTo |-> r.on]
    <3>1. r.on \in Note /\ r.on # None /\ r.id = [id |-> ReplyId(r.on), parent |-> r.on]
      BY <1>1, <2>2, RepliesHaveTheirURL, ValuesAssumption DEF replyURL
    <3>2. getTweet(ReplyId(r.on), r.on) = ReplyTweet(r.on)
      BY <2>2, <3>1, FoundReply
    <3> QED
      BY <3>1, <3>2, TweetsAssumption DEF serveStatus, ReplyTweet
  <2> QED
    BY <2>1, <2>2 DEF UrlsResolve, serveOutbox
<1> QED
  BY <1>1, Invariance, PTL

(* contextReplies and nativizeOwnStatus: of the thread under a note the     *)
(* node gets the member's reply with the ids of its own copy, and no reply  *)
(* to that reply.                                                           *)
THEOREM RepliesReadBackDedupe == Spec => []OwnRepliesDedupe
<1>1. ASSUME IInv PROVE OwnRepliesDedupe
  <2> SUFFICES ASSUME NEW n \in ownReplies, NEW s \in contextReplies(n)
               PROVE  nativizeOwnStatus(s) =
                        [id |-> ReplyTweet(n).id, parent |-> <<"url", ReplyTweet(n).parent>>,
                         native |-> TRUE]
    BY DEF OwnRepliesDedupe, GetReplies
  <2>1. n \in Note /\ replyURL(n) \in LocalURL /\ n \notin LocalURL
    BY <1>1, OwnRepliesAreReplies, ValuesAssumption DEF LocalURL
  <2>2. s = [id |-> replyURL(n), parent |-> n]
    <3>1. CASE \E r \in peerHas : r.kind = "reply" /\ r.on = n /\ s = [id |-> r.id, parent |-> n]
      BY <1>1, <3>1, RepliesHaveTheirURL
    <3>2. CASE \E x \in wanted \cap In : x.on = replyURL(n) /\ s.parent = x.on
      BY <2>1, <3>2 DEF contextReplies
    <3> QED
      BY <3>1, <3>2 DEF contextReplies, descendants
  <2>3. ownStatusRef(s.id) = ReplyId(n) /\ ReplyId(n) # None
    BY <2>1, <2>2, ValuesAssumption DEF ownStatusRef, replyURL
  <2>4. ownStatusRef(s.parent) = None
    BY <2>1, <2>2 DEF ownStatusRef
  <2> QED
    BY <2>2, <2>3, <2>4 DEF nativizeOwnStatus, ReplyTweet
<1> QED
  BY <1>1, Invariance, PTL
=============================================================================
