---------------------------- MODULE TweetPoller ----------------------------
(***************************************************************************)
(* The poller that federates one user's new posts (tweetpoller.go): a seed *)
(* fetch marks the existing tweets as seen, then every interval the newest *)
(* page is fetched and every tweet that is not in the seen set is marked   *)
(* and, if it is an original post, published.                              *)
(*                                                                         *)
(* Tweets are numbered in the order of their creation.  Time advances by   *)
(* one unit per poll interval.  The seen set is an LRU of bounded size     *)
(* whose entries may vanish once they are TTL old.  The owner's node       *)
(* returns the newest PageSize tweets, newest first, or fails; a failed    *)
(* fetch and one that cannot be decoded both look like an empty page.      *)
(***************************************************************************)
EXTENDS Naturals, FiniteSets, LRU

CONSTANTS NumTweets,    \* bound: tweets that ever exist
          Original,     \* the tweets that are the owner's own top-level posts
          PageSize,     \* tweets the node returns
          SeenSize,     \* tweetSeenSize
          TTL,          \* tweetSeenTTL, in poll intervals
          MaxMissed,    \* bound: polls in a row that fail
          SeedMayFail,  \* may the seed fetch fail?
          MaxDeletes,   \* bound: tweets the owner deletes
          MaxLost       \* bound: tweets whose fan-out drops them

Tweet == 1..NumTweets

ASSUME PollerAssumption ==
    /\ NumTweets \in Nat /\ Original \subseteq Tweet
    /\ PageSize \in Nat \ {0} /\ SeenSize \in Nat \ {0} /\ TTL \in Nat \ {0}
    /\ MaxMissed \in Nat /\ MaxDeletes \in Nat /\ MaxLost \in Nat
    /\ SeedMayFail \in BOOLEAN

(* Outages end before the TTL (a day, 1440 intervals) has passed, and the  *)
(* seen set (8192) has room for two pages, as the comment on tweetSeenSize *)
(* takes for granted: "only tweets long gone from the feed expire".        *)
ASSUME RoomAssumption ==
    /\ MaxMissed + 1 < TTL
    /\ 2 * PageSize <= SeenSize + 1

VARIABLES posted,     \* the tweets 1..posted have been created
          deleted,    \* those the owner has deleted since
          history,    \* tweets 1..history existed at the seed fetch
          seeded,     \* did the seed fetch succeed?
          phase,      \* seed (fetch), mark (the seed loop), idle (between
                      \* polls), busy (in poll's loop), stopped
          page,       \* the fetched tweets the loop has not handled yet
          seen,       \* the LRU, most recently added first
          age,        \* age[t]: intervals since t was last added, at most TTL
          missed,     \* polls in a row that failed
          published,  \* published[t]: how often the poller published t
          lost        \* the tweets that a fan-out dropped

vars == <<posted, deleted, history, seeded, phase, page, seen, age, missed,
          published, lost>>

feed == <<posted, deleted, history, seeded>>

(* The newest PageSize tweets, newest first: what a successful fetch       *)
(* returns.                                                                *)
Live == (1..posted) \ deleted
Newer(t) == {u \in Live : u > t}
OnPage == {t \in Live : Cardinality(Newer(t)) < PageSize}
fetch == [i \in 1..Cardinality(OnPage) |->
            CHOOSE t \in OnPage : Cardinality(Newer(t)) = i - 1]

(* The place of t's entry in the seen set, and the seen set with t added.  *)
Place(s, t) == LRUPlace(s, t, SeenSize)
Added(s, t) == LRUAdd(s, t, SeenSize)

publishableTweet(t) == t \in Original

(* One interval later. *)
Older == [t \in Tweet |-> IF age[t] < TTL THEN age[t] + 1 ELSE TTL]

Init ==
    /\ posted \in 0..(NumTweets - 1)
    /\ deleted = {}
    /\ history = 0
    /\ seeded = FALSE
    /\ phase = "seed"
    /\ page = << >>
    /\ seen = << >>
    /\ age = [t \in Tweet |-> 0]
    /\ missed = 0
    /\ published = [t \in Tweet |-> 0]
    /\ lost = {}

-----------------------------------------------------------------------------
(* The owner. *)
Post ==
    /\ posted < NumTweets
    /\ posted' = posted + 1
    /\ UNCHANGED <<deleted, history, seeded, phase, page, seen, age, missed,
                   published, lost>>

Delete(t) ==
    /\ Cardinality(deleted) < MaxDeletes
    /\ t \in Live
    /\ deleted' = deleted \cup {t}
    /\ UNCHANGED <<posted, history, seeded, phase, page, seen, age, missed,
                   published, lost>>

-----------------------------------------------------------------------------
(* Faulty variants of the poller. *)

(* The seed page is counted but not marked. *)
SeedUnmarked ==
    /\ phase = "seed"
    /\ phase' = "mark"
    /\ history' = posted
    /\ seeded' = TRUE
    /\ UNCHANGED <<posted, deleted, page, seen, age, missed, published, lost>>

(* The loop ends at the first tweet that is already seen, since everything *)
(* after it is older.                                                      *)
HandleStopAtSeen ==
    /\ phase = "busy" /\ page # << >>
    /\ LET t == Head(page) IN
        IF Contains(seen, t)
          THEN page' = << >> /\ UNCHANGED <<seen, age, published>>
          ELSE /\ seen' = Added(seen, t)
               /\ age' = [age EXCEPT ![t] = 0]
               /\ published' = [published EXCEPT ![t] =
                                  IF publishableTweet(t) /\ @ < 2 THEN @ + 1 ELSE @]
               /\ page' = Tail(page)
    /\ UNCHANGED <<feed, phase, missed, lost>>

(* The whole page is marked before the loop looks at it. *)
PollMarksFirst ==
    /\ phase = "idle"
    /\ phase' = "busy"
    /\ page' = fetch
    /\ seen' = FoldLeft(Added, seen, fetch)
    /\ age' = [t \in Tweet |-> IF t \in OnPage THEN 0 ELSE Older[t]]
    /\ missed' = 0
    /\ UNCHANGED <<feed, published, lost>>

-----------------------------------------------------------------------------
(* run: the seed fetch succeeds. *)
SeedOk ==
    /\ phase = "seed"
    /\ phase' = "mark"
    /\ page' = fetch
    /\ history' = posted
    /\ seeded' = TRUE
    /\ UNCHANGED <<posted, deleted, seen, age, missed, published, lost>>

(* One iteration of the loop that marks the seed. *)
MarkSeed ==
    /\ phase = "mark" /\ page # << >>
    /\ seen' = Added(seen, Head(page))
    /\ page' = Tail(page)
    /\ UNCHANGED <<feed, phase, age, missed, published, lost>>

SeedDone ==
    /\ phase = "mark" /\ page = << >>
    /\ phase' = "idle"
    /\ UNCHANGED <<feed, page, seen, age, missed, published, lost>>

(* fetch returned nil: nothing is marked and the poller goes on. *)
SeedFails ==
    /\ phase = "seed"
    /\ SeedMayFail
    /\ phase' = "idle"
    /\ history' = posted
    /\ UNCHANGED <<posted, deleted, seeded, page, seen, age, missed, published, lost>>

(* The ticker fires and the fetch succeeds. *)
PollOk ==
    /\ phase = "idle"
    /\ phase' = "busy"
    /\ page' = fetch
    /\ age' = Older
    /\ missed' = 0
    /\ UNCHANGED <<feed, seen, published, lost>>

(* The ticker fires and the fetch fails: the loop has nothing to do. *)
PollFails ==
    /\ phase = "idle"
    /\ missed < MaxMissed
    /\ missed' = missed + 1
    /\ age' = Older
    /\ UNCHANGED <<feed, phase, page, seen, published, lost>>

(* The fan-out of t drops it: the followers cannot be listed (or there are *)
(* none), or no delivery succeeds before the context ends.                 *)
Drop(t) ==
    /\ Cardinality(lost) < MaxLost
    /\ lost' = lost \cup {t}

(* One iteration of poll's loop.  An unseen tweet is marked before publish *)
(* is called, and publish has no result: a tweet that the fan-out drops    *)
(* stays marked.                                                           *)
Handle ==
    /\ phase = "busy" /\ page # << >>
    /\ LET t == Head(page) IN
        /\ \/ UNCHANGED lost
           \/ ~Contains(seen, t) /\ publishableTweet(t) /\ Drop(t)
        /\ seen' = Added(seen, t)
        /\ age' = [age EXCEPT ![t] = 0]
        /\ published' = [published EXCEPT ![t] =
                IF ~Contains(seen, t) /\ publishableTweet(t) /\ @ < 2 THEN @ + 1 ELSE @]
    /\ page' = Tail(page)
    /\ UNCHANGED <<feed, phase, missed>>

PollDone ==
    /\ phase = "busy" /\ page = << >>
    /\ phase' = "idle"
    /\ UNCHANGED <<feed, page, seen, age, missed, published, lost>>

(* The LRU drops an entry whose TTL has passed, when its bucket is swept.  *)
Expire(t) ==
    /\ Contains(seen, t)
    /\ age[t] >= TTL
    /\ seen' = RemoveAt(seen, Place(seen, t))
    /\ UNCHANGED <<feed, phase, page, age, missed, published, lost>>

(* outboundFederation.stop cancelled the context; noticed between polls.   *)
Stop ==
    /\ phase = "idle"
    /\ phase' = "stopped"
    /\ UNCHANGED <<feed, page, seen, age, missed, published, lost>>

Next == \/ Post
        \/ \E t \in Tweet : Delete(t) \/ Expire(t)
        \/ SeedOk \/ SeedFails \/ MarkSeed \/ SeedDone
        \/ PollOk \/ PollFails \/ Handle \/ PollDone
        \/ Stop

(* The poller's goroutine runs and a tick that succeeds comes eventually:  *)
(* at most MaxMissed in a row fail.                                        *)
Fairness == /\ WF_vars(SeedOk \/ SeedFails)
            /\ WF_vars(MarkSeed \/ SeedDone)
            /\ SF_vars(PollOk)
            /\ WF_vars(Handle)
            /\ WF_vars(PollDone)

Spec == Init /\ [][Next]_vars

FairSpec == Spec /\ Fairness

TypeOK ==
    /\ posted \in 0..NumTweets /\ deleted \subseteq 1..posted
    /\ history \in 0..posted /\ seeded \in BOOLEAN
    /\ phase \in {"seed", "mark", "idle", "busy", "stopped"}
    /\ page \in Seq(1..posted) /\ Len(page) <= PageSize
    /\ seen \in Seq(Tweet) /\ Len(seen) <= SeenSize
    /\ age \in [Tweet -> 0..TTL]
    /\ missed \in 0..MaxMissed
    /\ published \in [Tweet -> 0..2] /\ lost \subseteq Tweet

-----------------------------------------------------------------------------
(* No post is published twice by the poller, not by a second poll that     *)
(* finds it still on the page and not after entries were evicted or have   *)
(* expired, as long as outages are shorter than the TTL (MaxMissed+1 < TTL)*)
(* and no deletion brings a tweet back onto the page.                      *)
PublishedAtMostOnce == deleted = {} => \A t \in Tweet : published[t] <= 1

(* What existed when the poller started is never published, provided that  *)
(* the seed fetch succeeded and no deletion brings older tweets back.      *)
HistoryNotReplayed ==
    seeded /\ deleted = {} => \A t \in 1..history : published[t] = 0

(* "at startup it marks existing tweets as seen, so only posts created     *)
(* afterwards are federated": the same without provisos.                   *)
OnlyNewPosts == \A t \in 1..history : published[t] = 0

(* A new original post that stays on the page is published and delivered,  *)
(* as long as the poller runs and fetches succeed now and then, unless the *)
(* fan-out of this very post drops it: it is marked by then, so no later   *)
(* poll tries it again.                                                    *)
Delivered(t) == published[t] > 0 /\ t \notin lost

NewPostFederated ==
    \A t \in Original :
        (phase # "seed" /\ t \in OnPage /\ t > history) ~>
            \/ Delivered(t)
            \/ t \in lost \/ t \notin OnPage \/ phase = "stopped"
=============================================================================
