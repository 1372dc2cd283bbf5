------------------------------ MODULE Timeline ------------------------------
(***************************************************************************)
(* A Warpnet node reads the timeline or a follow list of a Fediverse actor *)
(* page by page, or the replies to a note (mastodon-bridge.go, reads).     *)
(* GetTweets and GetReplies try the Mastodon REST api and fall back to     *)
(* ActivityPub collections, whose items a pool of goroutines turns into    *)
(* tweets; followList reads a follow collection.  The gateway keeps        *)
(* nothing between two requests: the cursor it returns is all there is.    *)
(* Meanwhile items appear and are deleted, and every fetch may fail.       *)
(*                                                                         *)
(* An item is its position in the order of creation.                       *)
(***************************************************************************)
EXTENDS Naturals, Sequences, FiniteSets, SequencesExt

CONSTANTS Limit,          \* items on a page
          MaxConcurrent,  \* size of the pool
          MaxReplies,     \* replies in one answer
          MaxPages,       \* pages read for one answer
          StartItems,     \* items there are at first
          MaxChanges,     \* bound: items posted or deleted later
          MaxWalks,       \* bound: walks of the client
          MaxFaults,      \* bound: fetches that fail
          NoCursor        \* no cursor

ASSUME TimelineAssumption ==
    /\ Limit \in Nat \ {0} /\ MaxConcurrent \in Nat \ {0}
    /\ MaxReplies \in Nat \ {0} /\ MaxPages \in Nat \ {0}
    /\ NoCursor \notin [api : {"node", "rest", "ap"}, max : Nat]
    /\ StartItems \in Nat /\ MaxChanges \in Nat /\ MaxWalks \in Nat /\ MaxFaults \in Nat

(* What an item of a timeline, a follow list or a thread is: "thread"      *)
(* continues the actor's own post, "self" is an actor of this gateway,     *)
(* "deeper" is an answer to an answer.                                     *)
Kind(r) == CASE r = "tweets" -> {"post", "thread", "reply", "boost", "boosted reply"}
             [] r = "follows" -> {"peer", "self"}
             [] r = "replies" -> {"answer", "deeper"}

(* Cursors: pages of the two apis, and a cursor of the node's own store,   *)
(* which says nothing to the Fediverse.                                    *)
OwnCursor == [api |-> "node", max |-> 0]
restURL(max) == [api |-> "rest", max |-> max]
pageURL(max) == [api |-> "ap", max |-> max]
Newest == StartItems + MaxChanges + 1

VARIABLES
    route,     \* "tweets", "follows" or "replies"
    server,    \* "mastodon", "other" (no REST api) or "hidden" (no collection)
    items,     \* the kinds of the items, oldest first
    gone,      \* deleted items
    pc,        \* where the gateway's handler is; "idle" between requests
    at,        \* the cursor of the request
    page,      \* the items of the collection page in hand
    after,     \* the cursor behind that page
    claimed,   \* how many of them were given to a goroutine
    running,   \* those a goroutine is working on
    out,       \* the tweets rendered, by position on the page; 0 is none
    acc,       \* the replies of the pages before it
    pages,     \* how many those were
    cursor,    \* the cursor the client has
    got,       \* what it has received on this walk
    ended,     \* was there no cursor with the last page?
    changes, walks, faults,   \* the bounded counters
    base,      \* history: the items there were when the walk began
    cut,       \* history: a failed page was answered as the last one
    lost       \* history: items whose boosted note could not be fetched

serverVars == <<route, server, items, gone, changes>>
poolVars == <<page, after, claimed, running, out, acc, pages>>
clientVars == <<cursor, got, ended>>
walkVars == <<route, server, items, gone, pc, at, page, after, claimed, running, out,
              acc, pages, cursor, got, ended, changes, walks, faults, base, cut, lost>>

Live == (DOMAIN items) \ gone

WalkInit ==
    /\ route \in {"tweets", "follows", "replies"}
    /\ server \in {"mastodon", "other", "hidden"}
    /\ items \in [1..StartItems -> Kind(route)]
    /\ gone = {}
    /\ pc = "idle" /\ at = NoCursor
    /\ page = << >> /\ after = NoCursor /\ claimed = 0 /\ running = {} /\ out = << >>
    /\ acc = << >> /\ pages = 0
    /\ cursor = NoCursor /\ got = << >> /\ ended = TRUE
    /\ changes = 0 /\ walks = 0 /\ faults = 0
    /\ base = {} /\ cut = FALSE /\ lost = {}

Fault == faults < MaxFaults /\ faults' = faults + 1

-----------------------------------------------------------------------------
(* The Fediverse server.                                                   *)

(* Timelines and threads change; a follow list is read while it does not.  *)
Change == /\ route # "follows" /\ changes < MaxChanges
          /\ changes' = changes + 1
          /\ UNCHANGED <<route, server, pc, at, poolVars, clientVars, walks, faults, base, cut, lost>>

Post(k) ==
    /\ Change
    /\ items' = Append(items, k)
    /\ UNCHANGED gone

Delete(i) ==
    /\ Change
    /\ gone' = gone \cup {i}
    /\ UNCHANGED items

(* The first n of s. *)
Upto(s, n) == SubSeq(s, 1, IF Len(s) < n THEN Len(s) ELSE n)

(* Those of s that are in S, in their order. *)
Kept(s, S) ==
    LET upTo[n \in 0..Len(s)] ==
            IF n = 0 THEN << >>
            ELSE IF s[n] \in S THEN Append(upTo[n - 1], s[n]) ELSE upTo[n - 1]
    IN  upTo[Len(s)]

(* The items of S, newest first, and the first Limit of those below max.   *)
Descending(S) == Kept([i \in 1..(Newest - 1) |-> Newest - i], S)
PageOf(S, max) == Upto(Descending({i \in S : i < max}), Limit)

(* GET /api/v1/accounts/{id}/statuses?exclude_replies=true&max_id=...:     *)
(* the actor's replies to itself are left in.                              *)
restPage(max) == PageOf({i \in Live : items[i] # "reply"}, max)

(* A page of an ActivityPub collection; next is given while there is more. *)
(* The replies of a note are those that answer it.                         *)
Listed == {i \in Live : items[i] # "deeper"}
apPage(max) == PageOf(Listed, max)
apNext(max) == LET p == apPage(max)
               IN  IF p # << >> /\ \E i \in Listed : i < Last(p)
                     THEN pageURL(Last(p)) ELSE NoCursor

(* GET /api/v1/statuses/{id}/context: the whole thread below the note.     *)
descendants == Descending(Live)

-----------------------------------------------------------------------------
(* Mapping to tweets.                                                      *)

(* The items of other kinds than those in K. *)
Other(K) == {i \in DOMAIN items : items[i] \notin K}

(* topLevelOnly: a tweet with a parent is dropped; restTweetsPage drops    *)
(* statuses with in_reply_to_id, which the wrapper of a boost never has.   *)
topLevelOnly(s) == Kept(s, Other({"thread", "reply", "boosted reply"}))
restTopLevel(s) == Kept(s, Other({"thread"}))

(* contextReplies: the direct children, as many as an answer holds. *)
contextReplies == Upto(Kept(descendants, Other({"deeper"})), MaxReplies)

dropSelfHandles(s) == Kept(s, Other({"self"}))

(* The cursor behind a REST page: the last status of it, shown or not.     *)
(* Faulty variants first: the last status that is shown; a cursor behind   *)
(* an empty page, too.                                                     *)
restCursorShown(arr, max) ==
    IF restTopLevel(arr) = << >> THEN NoCursor ELSE restURL(Last(restTopLevel(arr)))
restCursorAlways(arr, max) == restURL(IF arr = << >> THEN max ELSE Last(arr))
restCursor(arr, max) == IF arr = << >> THEN NoCursor ELSE restURL(Last(arr))

-----------------------------------------------------------------------------
(* The gateway's handler.                                                  *)

(* pageCursor: a cursor that is no https url is no cursor. *)
pageCursor(c) == IF c = OwnCursor THEN NoCursor ELSE c

(* The items behind a cursor are those below it. *)
Below(c) == IF c = NoCursor THEN Newest ELSE c.max

(* The client asks for the next page, or anew: without a cursor, or with   *)
(* one of its own, GetTweets and followList begin at the first page; a     *)
(* request that names a note is for its replies.                           *)
Ask(c) ==
    LET p == pageCursor(c) IN
    /\ pc = "idle"
    /\ \/ c = cursor /\ ~ended
       \/ c \in {NoCursor, OwnCursor} /\ walks < MaxWalks
    /\ at' = p
    /\ pc' = IF p # NoCursor THEN IF p.api = "rest" THEN "rest" ELSE "page"
             ELSE CASE route = "tweets" -> "lookup"
                    [] route = "follows" -> "actor"
                    [] route = "replies" -> "context"
    /\ IF p # NoCursor THEN UNCHANGED <<clientVars, pages, walks, base, cut, lost>>
       ELSE /\ pages' = 0
            /\ walks' = IF c = cursor /\ ~ended THEN walks ELSE walks + 1
            /\ got' = << >> /\ ended' = FALSE /\ cursor' = NoCursor
            /\ base' = Live /\ cut' = FALSE /\ lost' = {}
    /\ UNCHANGED <<serverVars, page, after, claimed, running, out, acc, faults>>

(* The response: the client appends the page, and is done without a        *)
(* cursor.                                                                 *)
Answer(s, c) ==
    /\ got' = got \o s /\ cursor' = c /\ ended' = (c = NoCursor)
    /\ pc' = "idle"

(* An error: the client keeps its cursor and may ask again. *)
Error == pc' = "idle" /\ UNCHANGED clientVars

(* The pool begins with the items of a page. *)
Pool(s, next) ==
    /\ pc' = "resolve"
    /\ page' = s /\ after' = next
    /\ claimed' = 0 /\ running' = {} /\ out' = [i \in 1..Len(s) |-> 0]

(* restTweets: the account is looked up; without REST, the outbox. *)
Lookup ==
    /\ pc = "lookup"
    /\ \/ server = "mastodon" /\ pc' = "rest" /\ UNCHANGED faults
       \/ server # "mastodon" /\ pc' = "actor" /\ UNCHANGED faults
       \/ Fault /\ pc' = "actor"
    /\ UNCHANGED <<serverVars, at, poolVars, clientVars, walks, base, cut, lost>>

(* restTweetsPage; a failed first page falls back to the outbox, a failed  *)
(* later one is answered as an empty last page (GetTweets drops ok).       *)
RestPage ==
    LET arr == restPage(Below(at)) IN
    /\ pc = "rest"
    /\ \/ Answer(restTopLevel(arr), restCursor(arr, Below(at))) /\ UNCHANGED <<faults, cut>>
       \/ Fault /\ at = NoCursor /\ pc' = "actor" /\ UNCHANGED <<clientVars, cut>>
       \/ Fault /\ at # NoCursor /\ Answer(<< >>, NoCursor) /\ cut' = TRUE
    /\ UNCHANGED <<serverVars, at, poolVars, walks, base, lost>>

(* resolveHandle and fetchActor; no collection, no items. *)
Actor ==
    /\ pc = "actor"
    /\ \/ server = "hidden" /\ Answer(<< >>, NoCursor) /\ UNCHANGED faults
       \/ server # "hidden" /\ pc' = "collection" /\ UNCHANGED <<clientVars, faults>>
       \/ Fault /\ Error
    /\ UNCHANGED <<serverVars, at, poolVars, walks, base, cut, lost>>

(* apTweets: the outbox names its first page, ... *)
Outbox ==
    /\ pc = "collection" /\ route = "tweets"
    /\ \/ pc' = "page" /\ UNCHANGED <<clientVars, faults>>
       \/ Fault /\ Error
    /\ UNCHANGED <<serverVars, at, poolVars, walks, base, cut, lost>>

(* ... whose items are handed to resolveTimelineItems. *)
OutboxPage ==
    /\ pc = "page" /\ route = "tweets"
    /\ \/ Pool(apPage(Below(at)), apNext(Below(at))) /\ UNCHANGED <<clientVars, faults>>
       \/ Fault /\ Error /\ UNCHANGED <<page, after, claimed, running, out>>
    /\ UNCHANGED <<serverVars, at, acc, pages, walks, base, cut, lost>>

(* followList: the collection names its first page or holds it.  A fetch   *)
(* that fails, here or later, counts as a hidden list.                     *)
FollowCollection ==
    /\ pc = "collection" /\ route = "follows"
    /\ \/ pc' = "page" /\ UNCHANGED <<clientVars, faults, cut>>
       \/ /\ Answer(dropSelfHandles(apPage(Newest)), apNext(Newest))
          /\ UNCHANGED <<faults, cut>>
       \/ Fault /\ Answer(<< >>, NoCursor) /\ cut' = TRUE
    /\ UNCHANGED <<serverVars, at, poolVars, walks, base, lost>>

FollowPage ==
    /\ pc = "page" /\ route = "follows"
    /\ \/ /\ Answer(dropSelfHandles(apPage(Below(at))), apNext(Below(at)))
          /\ UNCHANGED <<faults, cut>>
       \/ Fault /\ Answer(<< >>, NoCursor) /\ cut' = TRUE
    /\ UNCHANGED <<serverVars, at, poolVars, walks, base, lost>>

-----------------------------------------------------------------------------
(* GetReplies. *)

(* The thread over REST, or else over ActivityPub. *)
Context ==
    /\ pc = "context"
    /\ \/ server = "mastodon" /\ Answer(contextReplies, NoCursor) /\ UNCHANGED faults
       \/ server # "mastodon" /\ pc' = "note" /\ UNCHANGED <<clientVars, faults>>
       \/ Fault /\ pc' = "note" /\ UNCHANGED clientVars
    /\ UNCHANGED <<serverVars, at, poolVars, walks, base, cut, lost>>

(* apReplies: the note names its replies collection, ... *)
Note ==
    /\ pc = "note"
    /\ \/ server = "hidden" /\ Answer(<< >>, NoCursor) /\ UNCHANGED faults
       \/ server # "hidden" /\ pc' = "collection" /\ UNCHANGED <<clientVars, faults>>
       \/ Fault /\ Error
    /\ UNCHANGED <<serverVars, at, poolVars, walks, base, cut, lost>>

(* A page is cut to the room left and handed to resolveReplyItems. *)
OpenReplies(max, have) == Pool(Upto(apPage(max), MaxReplies - Len(have)), apNext(max))

(* ... which names its first page or holds it; ... *)
RepliesCollection ==
    /\ pc = "collection" /\ route = "replies"
    /\ acc' = << >>
    /\ \/ /\ pc' = "page" /\ after' = pageURL(Newest)
          /\ UNCHANGED <<page, claimed, running, out, clientVars, faults, cut>>
       \/ OpenReplies(Newest, << >>) /\ UNCHANGED <<clientVars, faults, cut>>
       \/ /\ Fault /\ Answer(<< >>, NoCursor) /\ cut' = TRUE
          /\ UNCHANGED <<page, after, claimed, running, out>>
    /\ UNCHANGED <<serverVars, at, pages, walks, base, lost>>

(* ... the loop over the pages, up to its limits.  A page that fails ends  *)
(* it like the last one.                                                   *)
ReplyPage ==
    /\ pc = "page" /\ route = "replies"
    /\ IF pages = MaxPages \/ Len(acc) >= MaxReplies \/ after = NoCursor
         THEN /\ Answer(acc, NoCursor) /\ acc' = << >> /\ after' = NoCursor
              /\ UNCHANGED <<page, claimed, running, out, faults, cut>>
         ELSE \/ OpenReplies(after.max, acc) /\ UNCHANGED <<acc, clientVars, faults, cut>>
              \/ /\ Fault /\ Answer(acc, NoCursor) /\ cut' = TRUE
                 /\ acc' = << >> /\ after' = NoCursor
                 /\ UNCHANGED <<page, claimed, running, out>>
    /\ UNCHANGED <<serverVars, at, pages, walks, base, lost>>

-----------------------------------------------------------------------------
(* resolveTimelineItems and resolveReplyItems. *)

(* The loop hands the next item to a goroutine when the semaphore has      *)
(* room.                                                                   *)
Claim ==
    /\ pc = "resolve" /\ claimed < Len(page)
    /\ Cardinality(running) < MaxConcurrent
    /\ claimed' = claimed + 1 /\ running' = running \cup {claimed + 1}
    /\ UNCHANGED <<serverVars, pc, at, page, after, out, acc, pages, clientVars, walks, faults,
                   base, cut, lost>>

(* The goroutine of item i writes its slot and releases the semaphore; a   *)
(* boost, or a reply listed by its url, is dropped when the note cannot be *)
(* fetched.  A faulty variant first: the goroutines append their tweets as *)
(* they finish.                                                            *)
ResolvedAppends(i) ==
    LET free == CHOOSE k \in DOMAIN out : out[k] = 0 /\ \A l \in 1..(k - 1) : out[l] # 0 IN
    /\ running' = running \ {i}
    /\ \/ out' = [out EXCEPT ![free] = page[i]] /\ UNCHANGED <<faults, lost>>
       \/ /\ Fault /\ items[page[i]] \in {"boost", "boosted reply", "answer"}
          /\ lost' = lost \cup {page[i]} /\ UNCHANGED out

Resolved(i) ==
    /\ running' = running \ {i}
    /\ \/ out' = [out EXCEPT ![i] = page[i]] /\ UNCHANGED <<faults, lost>>
       \/ /\ Fault /\ items[page[i]] \in {"boost", "boosted reply", "answer"}
          /\ lost' = lost \cup {page[i]} /\ UNCHANGED out

Resolve(i) ==
    /\ pc = "resolve" /\ Resolved(i)
    /\ UNCHANGED <<serverVars, pc, at, page, after, claimed, acc, pages, clientVars, walks, base, cut>>

(* wg.Wait and the compaction of the slots. *)
Rendered == Kept(out, DOMAIN items)

(* The page of a timeline is the answer. *)
Tweets ==
    /\ pc = "resolve" /\ route = "tweets" /\ claimed = Len(page) /\ running = {}
    /\ Answer(topLevelOnly(Rendered), after)
    /\ page' = << >> /\ after' = NoCursor /\ claimed' = 0 /\ out' = << >>
    /\ UNCHANGED <<serverVars, at, running, acc, pages, walks, faults, base, cut, lost>>

(* The tweets of a page join those of the pages before. *)
PageRead ==
    /\ pc = "resolve" /\ route = "replies" /\ claimed = Len(page) /\ running = {}
    /\ acc' = acc \o Rendered /\ pages' = pages + 1 /\ pc' = "page"
    /\ page' = << >> /\ claimed' = 0 /\ out' = << >>
    /\ UNCHANGED <<serverVars, at, after, running, clientVars, walks, faults, base, cut, lost>>

Handler == \/ Lookup \/ RestPage
           \/ Actor \/ Outbox \/ OutboxPage \/ FollowCollection \/ FollowPage
           \/ Context \/ Note \/ RepliesCollection \/ ReplyPage
           \/ Claim \/ Tweets \/ PageRead \/ \E i \in running : Resolve(i)

WalkNext ==
    \/ Handler
    \/ \E c \in {cursor, NoCursor, OwnCursor} : Ask(c)
    \/ \E k \in Kind(route) : Post(k)
    \/ \E i \in Live : Delete(i)

(* The handler runs, and the client asks for the rest of a walk it began.  *)
WalkSpec == /\ WalkInit /\ [][WalkNext]_walkVars
            /\ WF_walkVars(Handler) /\ WF_walkVars(~ended /\ Ask(cursor))

-----------------------------------------------------------------------------
(* What the client receives on one walk is in order, newest first, with no  *)
(* item twice, although the actor posts and deletes between the pages and   *)
(* the goroutines of a page finish in any order ("preserving order").       *)
NewestFirst == \A i, j \in DOMAIN got : i < j => got[i] > got[j]

(* What a walk shows is the actor's posts, boosts and follows, or a note's  *)
(* own replies, and when it ends all of those there were when it began and  *)
(* are not deleted: the filters neither let one of the actor's replies      *)
(* through ("a reply must never surface as a standalone tweet"), on either  *)
(* path, or a Warpnet user in a follow list, nor do they stop the paging.   *)
(* Incomplete are walks that a failed page cut short, which the client      *)
(* cannot tell from the end, collections the server hides, and answers      *)
(* whose room was all used for replies, shown or not fetched: a page is cut *)
(* to the room that is left before its notes are fetched, and what was cut  *)
(* off is missing also when one of them fails and later pages are read.     *)
(* Items whose note could not be fetched are missing; a boost of somebody's *)
(* reply appears on the REST path only.                                     *)
WalkIsComplete ==
    LET shown == ToSet(got)
        full == route = "replies" /\ (\/ Cardinality(shown \cup lost) >= MaxReplies
                                         \/ pages = MaxPages)
    IN
    /\ \A i \in shown : items[i] \notin {"thread", "reply", "self", "deeper"}
    /\ route = "replies" => Len(got) <= MaxReplies
    /\ ended /\ walks > 0 /\ ~cut /\ ~full /\ server # "hidden" =>
          \A i \in (base \ gone) \ lost :
             items[i] \in {"post", "boost", "peer", "answer"} => i \in shown

(* Every walk ends: the cursors of pages without a visible item still lead  *)
(* on, and the last one is empty.                                           *)
WalkEnds == <>[]ended
=============================================================================
