------------------------------ MODULE Statuses ------------------------------
(***************************************************************************)
(* The urls under which the member's tweets and replies are known on the   *)
(* Fediverse.  The gateway stores none of them: whatever a url says must   *)
(* be enough to find the tweet again, when a server dereferences it        *)
(* (notes.go, server.go) and when the gateway itself meets it in a thread  *)
(* it reads for the member's node (mastodon-bridge.go).  The urls, and who *)
(* has seen them, come from Interactions.                                  *)
(***************************************************************************)
EXTENDS Interactions

NotFound == [id |-> None, inReplyTo |-> None]

-----------------------------------------------------------------------------
(* The member's node: GET_TWEET finds a top-level tweet by its id, a reply  *)
(* only under its parent.                                                   *)
TopLevel(t) == [id |-> TweetId(t), parent |-> None, root |-> TweetId(t)]
ReplyTweet(n) == [id |-> ReplyId(n), parent |-> n, root |-> n]

(* A tweet is not the empty answer. *)
ASSUME TweetsAssumption ==
    /\ \A t \in Tweet : TopLevel(t) # None
    /\ \A n \in Note : ReplyTweet(n) # None

ownReplies == {x.on : x \in {y \in wanted \cap Out : y.kind = "reply"}}

getTweet(id, parent) ==
    LET found == IF parent = None
                   THEN {TopLevel(t) : t \in {s \in Tweet : TweetId(s) = id}}
                   ELSE {ReplyTweet(n) : n \in {m \in ownReplies : ReplyId(m) = id /\ m = parent}}
    IN  IF found = {} THEN None ELSE CHOOSE t \in found : TRUE

-----------------------------------------------------------------------------
(* replyParentID: the parent, or the root of a thread that is not its own. *)
replyParentID(t) == IF t.parent # None THEN t.parent
                    ELSE IF t.root # t.id THEN t.root ELSE None

(* buildNote: a url without a query, and a parent that is taken for a      *)
(* status of the same author.                                              *)
buildNote(t) == [id |-> [id |-> t.id, parent |-> None],
                 inReplyTo |-> IF replyParentID(t) = None THEN None
                               ELSE [id |-> replyParentID(t), parent |-> None]]

(* serveStatus: the query names the parent the tweet is looked up under    *)
(* and goes into the note's id.  A faulty variant first: the note keeps    *)
(* the id of buildNote.                                                    *)
serveStatusBareId(url) ==
    LET t == getTweet(url.id, url.parent) IN
    IF t = None THEN NotFound
    ELSE IF url.parent = None THEN buildNote(t)
    ELSE [buildNote(t) EXCEPT !.inReplyTo = url.parent]

serveStatus(url) ==
    LET t == getTweet(url.id, url.parent) IN
    IF t = None THEN NotFound
    ELSE IF url.parent = None THEN buildNote(t)
    ELSE [id |-> [id |-> t.id, parent |-> url.parent], inReplyTo |-> url.parent]

(* serveOutbox: the notes of the original top-level tweets. *)
serveOutbox == {buildNote(TopLevel(t)) : t \in Tweet}

-----------------------------------------------------------------------------
(* Threads read for the member's node.                                     *)

(* ownStatusRef: the id in a url of this gateway, without its query. *)
ownStatusRef(url) == IF url \in LocalURL THEN url.id ELSE None

(* nativizeOwnStatus: a status of this gateway gets the node's own ids. *)
nativizeOwnStatus(t) ==
    LET own(url) == IF ownStatusRef(url) # None THEN ownStatusRef(url) ELSE <<"url", url>>
    IN  [id |-> own(t.id), parent |-> own(t.parent),
         native |-> ownStatusRef(t.id) # None]

(* The thread under note n: the member's reply to it, and the replies of   *)
(* others to that reply.                                                   *)
descendants(n) ==
    {[id |-> r.id, parent |-> n] : r \in {s \in peerHas : s.kind = "reply" /\ s.on = n}}
    \cup {[id |-> [id |-> <<"theirs", x>>, parent |-> None], parent |-> x.on] :
            x \in {y \in wanted \cap In : y.kind = "reply" /\ y.on = replyURL(n)}}

(* contextReplies: of the whole thread the direct replies only.  A faulty  *)
(* variant first: all of it.                                               *)
contextRepliesDeep(n) == descendants(n)
contextReplies(n) == {s \in descendants(n) : s.parent = n}

GetReplies(n) == {nativizeOwnStatus(t) : t \in contextReplies(n)}

-----------------------------------------------------------------------------
(* Every url that was handed out dereferences to the note with that very    *)
(* url and, for a reply, the parent it was sent with ("so it equals the url *)
(* the remote instance dereferenced"), as long as the member keeps the      *)
(* tweet.                                                                   *)
UrlsResolve ==
    /\ \A note \in serveOutbox : serveStatus(note.id) = note
    /\ \A r \in peerHas : r.kind = "reply" /\ r.on \in ownReplies =>
          serveStatus(r.id) = [id |-> r.id, inReplyTo |-> r.on]

(* The replies to a note, read back from the Fediverse: the member's own    *)
(* carries the ids of the copy in the member's node, so the node "dedupes   *)
(* against the copy in its own thread index", and no reply to that reply is *)
(* among them, whatever was lost, repeated or undone meanwhile.             *)
OwnRepliesDedupe ==
    \A n \in ownReplies : \A t \in GetReplies(n) :
        t = [id |-> ReplyTweet(n).id, parent |-> <<"url", ReplyTweet(n).parent>>, native |-> TRUE]
=============================================================================
