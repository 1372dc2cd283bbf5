------------------------- MODULE TweetPollerProofs -------------------------
(***************************************************************************)
(* For every page size, every seen set that holds two pages and every TTL  *)
(* that outlasts the outages: as long as nothing is deleted, no post is    *)
(* published twice, and what existed at a good seed is never published.    *)
(***************************************************************************)
EXTENDS TweetPoller, FiniteSetTheorems, SequenceTheorems, TLAPS

-----------------------------------------------------------------------------
(* The page that fetch returns. *)

(* The owner has finitely many tweets. *)
LEMMA LiveIsFinite ==
    ASSUME posted \in Nat
    PROVE  /\ IsFiniteSet(Live) /\ IsFiniteSet(OnPage)
           /\ Cardinality(OnPage) \in Nat
           /\ \A t : IsFiniteSet(Newer(t)) /\ Cardinality(Newer(t)) \in Nat
<1>1. IsFiniteSet(1..posted)
  BY FS_Interval
<1>2. IsFiniteSet(Live)
  BY <1>1, FS_Subset DEF Live
<1>3. IsFiniteSet(OnPage)
  BY <1>2, FS_Subset DEF OnPage
<1>4. \A t : IsFiniteSet(Newer(t))
  BY <1>2, FS_Subset DEF Newer
<1> QED
  BY <1>2, <1>3, <1>4, FS_CardinalityType

(* An older tweet has more newer ones, so a tweet is known by their number. *)
LEMMA OlderHasMore ==
    ASSUME posted \in Nat, NEW t \in Live, NEW u \in Live, t < u
    PROVE  Cardinality(Newer(u)) < Cardinality(Newer(t))
<1>1. Live \subseteq Nat
  BY DEF Live
<1>2. u > t /\ ~(u > u) /\ \A v \in Live : v > u => v > t
  BY <1>1
<1>3. Newer(u) \subseteq Newer(t) /\ u \in Newer(t) /\ u \notin Newer(u)
  BY <1>2 DEF Newer
<1>4. /\ Cardinality(Newer(u)) <= Cardinality(Newer(t))
      /\ Cardinality(Newer(u)) # Cardinality(Newer(t))
  BY <1>3, LiveIsFinite, FS_Subset
<1> QED
  BY <1>4, LiveIsFinite

(* The tweets on the page are numbered from 0 by how many are newer. *)
LEMMA PageIsNumbered ==
    ASSUME posted \in Nat
    PROVE  [t \in OnPage |-> Cardinality(Newer(t))]
              \in Injection(OnPage, 0..(Cardinality(OnPage) - 1))
<1> DEFINE Rank == [t \in OnPage |-> Cardinality(Newer(t))]
<1>0. OnPage \subseteq Live /\ Live \subseteq Nat
  BY DEF OnPage, Live
<1>1. ASSUME NEW t \in OnPage
      PROVE  Cardinality(Newer(t)) \in 0..(Cardinality(OnPage) - 1)
  <2>1. Newer(t) \subseteq OnPage
    <3> SUFFICES ASSUME NEW u \in Newer(t) PROVE u \in OnPage
      OBVIOUS
    <3>1. u \in Live /\ t < u
      BY <1>0 DEF Newer
    <3>2. Cardinality(Newer(u)) < Cardinality(Newer(t))
      BY <1>0, <3>1, OlderHasMore
    <3> QED
      BY <3>1, <3>2, LiveIsFinite, PollerAssumption DEF OnPage
  <2>2. t \notin Newer(t)
    BY <1>0 DEF Newer
  <2>3. /\ Cardinality(Newer(t)) <= Cardinality(OnPage)
        /\ Cardinality(Newer(t)) # Cardinality(OnPage)
    BY <2>1, <2>2, LiveIsFinite, FS_Subset
  <2> QED
    BY <2>3, LiveIsFinite
<1>2. ASSUME NEW t \in OnPage, NEW u \in OnPage, Cardinality(Newer(t)) = Cardinality(Newer(u))
      PROVE  t = u
  <2>1. ~(t < u) /\ ~(u < t)
    BY <1>0, <1>2, LiveIsFinite, OlderHasMore
  <2> QED
    BY <1>0, <2>1
<1>3. Rank \in [OnPage -> 0..(Cardinality(OnPage) - 1)]
  BY <1>1
<1>4. \A t, u \in OnPage : Rank[t] = Rank[u] => t = u
  BY <1>2
<1> QED
  BY <1>3, <1>4 DEF Injection, IsInjective

(* fetch returns the tweets of the page and all of them, at most PageSize. *)
LEMMA FetchIsPage ==
    ASSUME posted \in Nat
    PROVE  /\ fetch \in Seq(1..posted)
           /\ Len(fetch) <= PageSize
           /\ \A t : Contains(fetch, t) <=> t \in OnPage
<1> DEFINE Rank == [t \in OnPage |-> Cardinality(Newer(t))]
           n == Cardinality(OnPage)
<1>0. n \in Nat
  BY LiveIsFinite
<1>1. Rank \in Injection(OnPage, 0..(n - 1))
  BY PageIsNumbered
<1>2. Cardinality(0..(n - 1)) = n /\ IsFiniteSet(0..(n - 1))
  BY <1>0, FS_Interval
<1>3. Rank \in Surjection(OnPage, 0..(n - 1))
  <2> HIDE DEF Rank, n
  <2> QED
    BY <1>1, <1>2, FS_Injection DEF n
<1>4. \A i \in 1..n : \E t \in OnPage : Cardinality(Newer(t)) = i - 1
  <2> SUFFICES ASSUME NEW i \in 1..n PROVE \E t \in OnPage : Cardinality(Newer(t)) = i - 1
    OBVIOUS
  <2>1. i - 1 \in 0..(n - 1)
    BY <1>0
  <2>2. PICK t \in OnPage : Rank[t] = i - 1
    BY <1>3, <2>1 DEF Surjection
  <2> QED
    BY <2>2
<1>5. \A i \in 1..n : fetch[i] \in OnPage /\ Cardinality(Newer(fetch[i])) = i - 1
  BY <1>4 DEF fetch
<1>6. fetch \in Seq(1..posted) /\ Len(fetch) = n
  <2>1. OnPage \subseteq 1..posted
    BY DEF OnPage, Live
  <2>2. fetch \in [1..n -> 1..posted]
    BY <1>5, <2>1 DEF fetch
  <2> HIDE DEF n
  <2> QED
    BY <1>0, <2>2
<1>7. n <= PageSize
  <2>1. CASE n = 0
    BY <2>1, PollerAssumption
  <2>2. CASE n # 0
    <3>1. fetch[n] \in OnPage /\ Cardinality(Newer(fetch[n])) = n - 1
      BY <1>0, <1>5, <2>2
    <3> QED
      BY <1>0, <3>1, PollerAssumption DEF OnPage
  <2> QED
    BY <2>1, <2>2
<1>8. ASSUME NEW t \in OnPage PROVE Contains(fetch, t)
  <2> DEFINE i == Rank[t] + 1
  <2>1. Rank[t] \in 0..(n - 1)
    BY <1>1 DEF Injection
  <2>2. i \in 1..n /\ Cardinality(Newer(t)) = i - 1
    BY <1>0, <2>1
  <2>3. fetch[i] \in OnPage /\ Rank[fetch[i]] = Rank[t]
    BY <1>5, <2>2
  <2>4. fetch[i] = t
    BY <1>1, <2>3 DEF Injection, IsInjective
  <2> QED
    BY <1>6, <2>2, <2>4 DEF Contains
<1>9. ASSUME NEW t, Contains(fetch, t) PROVE t \in OnPage
  BY <1>5, <1>6, <1>9 DEF Contains
<1> QED
  BY <1>6, <1>7, <1>8, <1>9

(* A tweet that has left the page does not come back by new posts. *)
LEMMA OffPageStays ==
    ASSUME posted \in Nat, Post, NEW t \in 1..posted, t \in OnPage'
    PROVE  t \in OnPage
<1>1. Live \subseteq Live' /\ posted' \in Nat /\ t \in Live
  BY DEF Post, Live, OnPage
<1>2. Newer(t) \subseteq Newer(t)'
  BY <1>1 DEF Newer
<1>3. IsFiniteSet(Newer(t)') /\ Cardinality(Newer(t)') \in Nat
  <2>1. IsFiniteSet(1..posted')
    BY <1>1, FS_Interval
  <2>2. IsFiniteSet(Newer(t)')
    BY <2>1, FS_Subset DEF Newer, Live
  <2> QED
    BY <2>2, FS_CardinalityType
<1>4. Cardinality(Newer(t)) <= Cardinality(Newer(t)')
  BY <1>2, <1>3, FS_Subset
<1> QED
  BY <1>1, <1>3, <1>4, LiveIsFinite, PollerAssumption DEF OnPage

-----------------------------------------------------------------------------
(* The seen set. *)

(* t's place in a seen set is inside it, or is the next or the last one.   *)
LEMMA PlaceBounds ==
    ASSUME NEW s \in Seq(Tweet), Len(s) <= SeenSize, NEW t \in Tweet
    PROVE  /\ Place(s, t) \in 1..SeenSize
           /\ Place(s, t) <= Len(s) + 1
           /\ Contains(s, t) => Place(s, t) \in 1..Len(s) /\ s[Place(s, t)] = t
           /\ ~Contains(s, t) => Place(s, t) = Len(s) + 1 \/ Place(s, t) = SeenSize
  BY PollerAssumption DEF Place, LRUPlace, Contains

(* Add keeps the seen set within its size and puts t first. *)
LEMMA AddedIsFirst ==
    ASSUME NEW s \in Seq(Tweet), Len(s) <= SeenSize, NEW t \in Tweet
    PROVE  /\ Added(s, t) \in Seq(Tweet)
           /\ Len(Added(s, t)) \in 1..SeenSize
           /\ Added(s, t)[1] = t
<1> DEFINE p == Place(s, t)
           n == IF p > Len(s) THEN p ELSE Len(s)
<1>1. p \in 1..SeenSize /\ p <= Len(s) + 1
  BY PlaceBounds
<1>2. n \in 1..SeenSize /\ (\A i \in 1..n : i # 1 /\ i <= p => i - 1 \in 1..Len(s))
        /\ (\A i \in 1..n : ~(i <= p) => i \in 1..Len(s))
  BY <1>1, PollerAssumption
<1>3. Added(s, t) = [i \in 1..n |-> IF i = 1 THEN t ELSE IF i <= p THEN s[i - 1] ELSE s[i]]
  BY DEF Added, LRUAdd, Place
<1> HIDE DEF p, n
<1>4. Added(s, t) \in [1..n -> Tweet]
  BY <1>2, <1>3
<1>5. n \in Nat
  BY <1>2, PollerAssumption
<1>6. Added(s, t) \in Seq(Tweet) /\ Len(Added(s, t)) = n
  BY <1>4, <1>5
<1> QED
  BY <1>2, <1>3, <1>5, <1>6

(* Another entry moves down by at most one and is not evicted before it is *)
(* the last one.                                                           *)
LEMMA AddedKeepsOthers ==
    ASSUME NEW s \in Seq(Tweet), Len(s) <= SeenSize, NEW t \in Tweet,
           NEW i \in 1..Len(s), s[i] # t, i < SeenSize
    PROVE  \E j \in 1..Len(Added(s, t)) : j <= i + 1 /\ Added(s, t)[j] = s[i]
<1> DEFINE p == Place(s, t)
           n == IF p > Len(s) THEN p ELSE Len(s)
<1>1. /\ p \in 1..SeenSize /\ p <= Len(s) + 1
      /\ Contains(s, t) => p \in 1..Len(s) /\ s[p] = t
      /\ ~Contains(s, t) => p = Len(s) + 1 \/ p = SeenSize
  BY PlaceBounds
<1>2. Added(s, t) = [k \in 1..n |-> IF k = 1 THEN t ELSE IF k <= p THEN s[k - 1] ELSE s[k]]
  BY DEF Added, LRUAdd, Place
<1>3. i # p
  BY <1>1, PollerAssumption
<1>4. n \in Nat /\ p \in Nat /\ Len(s) \in Nat
  BY <1>1, PollerAssumption
<1>5. Len(Added(s, t)) = n
  BY <1>2, <1>4
<1>6. CASE i < p
  <2>1. i + 1 \in 1..n /\ i + 1 # 1 /\ i + 1 <= p /\ (i + 1) - 1 = i
    BY <1>4, <1>6
  <2>2. Added(s, t)[i + 1] = s[i]
    BY <1>2, <2>1
  <2> QED
    BY <1>4, <1>5, <2>1, <2>2
<1>7. CASE i > p
  <2>1. i \in 1..n /\ i # 1 /\ ~(i <= p) /\ i <= i + 1
    BY <1>1, <1>4, <1>7
  <2>2. Added(s, t)[i] = s[i]
    BY <1>2, <2>1
  <2> QED
    BY <1>5, <2>1, <2>2
<1> QED
  BY <1>3, <1>4, <1>6, <1>7

(* Expiry removes one entry, and the others move up or stay. *)
LEMMA RemovedKeepsOthers ==
    ASSUME NEW s \in Seq(Tweet), NEW p \in 1..Len(s)
    PROVE  /\ RemoveAt(s, p) \in Seq(Tweet)
           /\ Len(RemoveAt(s, p)) = Len(s) - 1
           /\ \A i \in 1..Len(s) : i # p =>
                \E j \in 1..Len(RemoveAt(s, p)) : j <= i /\ RemoveAt(s, p)[j] = s[i]
<1> DEFINE a == SubSeq(s, 1, p - 1)
           b == SubSeq(s, p + 1, Len(s))
<1>1. /\ a \in Seq(Tweet) /\ Len(a) = p - 1
      /\ b \in Seq(Tweet) /\ Len(b) = Len(s) - p
  BY SMT
<1>2. /\ \A i \in 1..(p - 1) : a[i] = s[i]
      /\ \A i \in 1..(Len(s) - p) : b[i] = s[p + i]
  BY SMT
<1> HIDE DEF a, b
<1>3. /\ a \o b \in Seq(Tweet) /\ Len(a \o b) = Len(s) - 1
      /\ \A j \in 1..(Len(s) - 1) : (a \o b)[j] = IF j <= Len(a) THEN a[j] ELSE b[j - Len(a)]
  <2>1. Len(a) + Len(b) = Len(s) - 1
    BY <1>1
  <2> QED
    BY <1>1, <2>1, ConcatProperties
<1>4. ASSUME NEW i \in 1..Len(s), i < p
      PROVE  i \in 1..(Len(s) - 1) /\ i <= i /\ (a \o b)[i] = s[i]
  BY <1>1, <1>2, <1>3, <1>4
<1>5. ASSUME NEW i \in 1..Len(s), i > p
      PROVE  i - 1 \in 1..(Len(s) - 1) /\ i - 1 <= i /\ (a \o b)[i - 1] = s[i]
  <2>1. i - 1 \in 1..(Len(s) - 1) /\ i - 1 <= i /\ ~(i - 1 <= Len(a))
    BY <1>1, <1>5
  <2>2. (i - 1) - Len(a) \in 1..(Len(s) - p) /\ p + ((i - 1) - Len(a)) = i
    BY <1>1, <1>5
  <2> QED
    BY <1>2, <1>3, <2>1, <2>2
<1>6. RemoveAt(s, p) = a \o b
  BY DEF RemoveAt, a, b
<1>7. \A i \in 1..Len(s) : i # p => i < p \/ i > p
  OBVIOUS
<1> QED
  BY <1>3, <1>4, <1>5, <1>6, <1>7

-----------------------------------------------------------------------------
(* The invariant.  A tweet is accounted for once it was published or       *)
(* belongs to the history of a good seed; such a tweet has to be in the    *)
(* seen set whenever a loop can meet it.  That it is not evicted needs its *)
(* position, and that it has not expired needs its age.                    *)

Known(t) == published[t] > 0 \/ (seeded /\ t <= history)

(* t is among the k most recent entries of the seen set. *)
Held(t, k) == \E i \in 1..Len(seen) : i <= k /\ seen[i] = t

(* Between the loops no page is left over; before the first poll nothing   *)
(* has aged or was missed or published.                                    *)
PhaseInv ==
    /\ phase \in {"seed", "idle", "stopped"} => page = << >>
    /\ phase \in {"seed", "mark", "busy"} => missed = 0
    /\ phase = "seed" => ~seeded
    /\ phase \in {"seed", "mark"} => \A t \in Tweet : age[t] = 0 /\ published[t] = 0

(* What does not exist yet was not published. *)
FutureInv == \A t \in Tweet : t > posted => published[t] = 0

(* What the last loop, or the current one so far, has handled is in the    *)
(* first places and no older than the outage.                              *)
HandledInv ==
    \A t \in OnPage : Known(t) /\ ~Contains(page, t) =>
        Held(t, PageSize - Len(page)) /\ age[t] <= missed

(* What poll's loop still has to handle was in the first places when it    *)
(* began, and has moved down by one with every tweet handled since.        *)
PendingInv ==
    phase = "busy" => \A t \in Tweet : Contains(page, t) /\ Known(t) =>
        Held(t, 2 * PageSize - Len(page)) /\ age[t] <= MaxMissed + 1

SafeInv == HandledInv /\ PendingInv /\ PublishedAtMostOnce /\ HistoryNotReplayed

IInv == TypeOK /\ PhaseInv /\ FutureInv /\ (deleted = {} => SafeInv)

(* It holds when the poller starts. *)
LEMMA InitInv == Init => IInv
<1> SUFFICES ASSUME Init PROVE IInv
  OBVIOUS
<1> USE PollerAssumption
<1>1. TypeOK
  <2>1. posted \in 0..NumTweets /\ history \in 0..posted
    BY DEF Init
  <2>2. deleted \subseteq 1..posted /\ seeded \in BOOLEAN
    BY DEF Init
  <2>3. /\ page \in Seq(1..posted) /\ Len(page) <= PageSize
        /\ seen \in Seq(Tweet) /\ Len(seen) <= SeenSize
    BY DEF Init
  <2>4. /\ age \in [Tweet -> 0..TTL] /\ missed \in 0..MaxMissed
        /\ published \in [Tweet -> 0..2]
    BY DEF Init
  <2> QED
    BY <2>1, <2>2, <2>3, <2>4 DEF Init, TypeOK
<1>2. PhaseInv /\ FutureInv
  BY DEF Init, PhaseInv, FutureInv
<1>3. OnPage \subseteq Tweet
  BY DEF Init, OnPage, Live, Tweet
<1>4. \A t \in Tweet : ~Known(t)
  BY DEF Init, Known
<1>5. SafeInv
  BY <1>3, <1>4 DEF Init, SafeInv, HandledInv, PendingInv, PublishedAtMostOnce,
                    HistoryNotReplayed
<1> QED
  BY <1>1, <1>2, <1>5 DEF IInv

(* The owner posts: older tweets may leave the page, and the new one is    *)
(* not known.                                                              *)
LEMMA PostInv == IInv /\ Post => IInv'
<1> SUFFICES ASSUME IInv, Post PROVE IInv'
  OBVIOUS
<1> USE PollerAssumption DEF IInv
<1>1. posted \in Nat /\ posted' = posted + 1 /\ posted' \in 0..NumTweets
  BY DEF TypeOK, Post
<1>2. TypeOK'
  <2>1. 1..posted \subseteq 1..posted'
    BY <1>1
  <2>2. page' \in Seq(1..posted')
    BY <2>1 DEF TypeOK, Post
  <2> QED
    BY <1>1, <2>1, <2>2 DEF TypeOK, Post
<1>3. PhaseInv' /\ FutureInv'
  BY <1>1 DEF TypeOK, PhaseInv, FutureInv, Post, Tweet
<1>4. ASSUME deleted' = {} PROVE SafeInv'
  <2>0. SafeInv
    BY <1>4 DEF Post
  <2>1. HandledInv'
    <3> SUFFICES ASSUME NEW t \in OnPage', Known(t)', ~Contains(page, t)'
                 PROVE  (Held(t, PageSize - Len(page)) /\ age[t] <= missed)'
      BY DEF HandledInv
    <3>1. t \in 1..posted' /\ t \in Tweet
      BY <1>1 DEF OnPage, Live, Tweet
    <3>2. Known(t)
      BY DEF Known, Post
    <3>3. t \in 1..posted
      BY <1>1, <3>1, <3>2 DEF Known, FutureInv, TypeOK
    <3>4. t \in OnPage
      BY <1>1, <3>3, OffPageStays
    <3>5. Held(t, PageSize - Len(page)) /\ age[t] <= missed
      BY <2>0, <3>2, <3>4 DEF SafeInv, HandledInv, Post
    <3> QED
      BY <3>5 DEF Held, Post
  <2>2. PendingInv'
    BY <2>0 DEF SafeInv, PendingInv, Known, Held, Post
  <2>3. PublishedAtMostOnce' /\ HistoryNotReplayed'
    BY <2>0 DEF SafeInv, PublishedAtMostOnce, HistoryNotReplayed, Post
  <2> QED
    BY <2>1, <2>2, <2>3 DEF SafeInv
<1> QED
  BY <1>2, <1>3, <1>4

(* The owner deletes: the properties say nothing from then on. *)
LEMMA DeleteInv == ASSUME IInv, NEW t \in Tweet, Delete(t) PROVE IInv'
<1> USE DEF IInv
<1>1. t \in 1..posted /\ deleted' = deleted \cup {t}
  BY DEF Delete, Live
<1>2. TypeOK'
  BY <1>1 DEF TypeOK, Delete
<1>3. PhaseInv' /\ FutureInv'
  BY DEF PhaseInv, FutureInv, Delete
<1>4. deleted' # {}
  BY <1>1
<1> QED
  BY <1>2, <1>3, <1>4

(* A fetch for the seed: the page is still to be marked, and every older   *)
(* tweet is off the page for good.                                         *)
LEMMA SeedOkInv == IInv /\ SeedOk => IInv'
<1> SUFFICES ASSUME IInv, SeedOk PROVE IInv'
  OBVIOUS
<1> USE PollerAssumption DEF IInv
<1>0. posted \in Nat /\ OnPage \subseteq 1..posted /\ OnPage' = OnPage
  BY DEF TypeOK, SeedOk, OnPage, Newer, Live
<1>1. /\ page' \in Seq(1..posted) /\ Len(page') <= PageSize
      /\ \A t \in OnPage : Contains(page, t)'
  BY <1>0, FetchIsPage DEF SeedOk, Contains
<1>2. TypeOK'
  BY <1>1 DEF TypeOK, SeedOk
<1>3. PhaseInv' /\ FutureInv'
  BY DEF PhaseInv, FutureInv, SeedOk
<1>4. \A t \in Tweet : published'[t] = 0
  BY DEF PhaseInv, SeedOk
<1>5. HandledInv' /\ PendingInv'
  BY <1>0, <1>1 DEF HandledInv, PendingInv, SeedOk
<1>6. PublishedAtMostOnce' /\ HistoryNotReplayed'
  <2>1. 1..history' \subseteq Tweet
    BY DEF TypeOK, SeedOk, Tweet
  <2> QED
    BY <1>4, <2>1 DEF PublishedAtMostOnce, HistoryNotReplayed
<1> QED
  BY <1>2, <1>3, <1>5, <1>6 DEF SafeInv

(* A failed fetch for the seed: nothing is known. *)
LEMMA SeedFailsInv == IInv /\ SeedFails => IInv'
<1> SUFFICES ASSUME IInv, SeedFails PROVE IInv'
  OBVIOUS
<1> USE PollerAssumption DEF IInv
<1>1. TypeOK'
  BY DEF TypeOK, SeedFails
<1>2. PhaseInv' /\ FutureInv'
  BY DEF PhaseInv, FutureInv, SeedFails
<1>3. ~seeded' /\ \A t \in Tweet : published'[t] = 0
  BY DEF PhaseInv, SeedFails
<1>4. OnPage' \subseteq Tweet
  BY <1>1 DEF TypeOK, OnPage, Live, Tweet
<1>5. \A t \in Tweet : ~Known(t)'
  BY <1>3 DEF Known
<1>6. SafeInv'
  BY <1>3, <1>4, <1>5 DEF SafeInv, HandledInv, PendingInv, PublishedAtMostOnce,
                          HistoryNotReplayed
<1> QED
  BY <1>1, <1>2, <1>6

(* A loop takes the first tweet of its page: the seen set stays in shape,  *)
(* that tweet is first in it, and every other entry that is not the last   *)
(* moves down by at most one.                                              *)
LEMMA HeadIsAdded ==
    ASSUME TypeOK, page # << >>, NEW h, h = Head(page),
           page' = Tail(page), seen' = Added(seen, h), posted' = posted
    PROVE  /\ h \in Tweet
           /\ Len(page) \in 1..PageSize /\ Len(page') = Len(page) - 1
           /\ page' \in Seq(1..posted')
           /\ seen' \in Seq(Tweet) /\ Len(seen') <= SeenSize
           /\ \A t : Contains(page, t) <=> t = h \/ Contains(page, t)'
           /\ Held(h, PageSize - Len(page))' /\ Held(h, 2 * PageSize - Len(page))'
           /\ \A t : /\ t # h /\ Held(t, PageSize - Len(page))
                    => Held(t, PageSize - Len(page))'
           /\ \A t : /\ t # h /\ Held(t, 2 * PageSize - Len(page)) /\ Contains(page, t)'
                    => Held(t, 2 * PageSize - Len(page))'
<1> USE PollerAssumption, RoomAssumption
<1>1. /\ page \in Seq(1..posted) /\ Len(page) \in 1..PageSize /\ posted \in 0..NumTweets
      /\ seen \in Seq(Tweet) /\ Len(seen) <= SeenSize
  BY DEF TypeOK
<1>2. h \in Tweet /\ h = page[1]
  BY <1>1 DEF Tweet
<1>3. /\ page' \in Seq(1..posted') /\ Len(page') = Len(page) - 1
      /\ \A i \in 1..Len(page') : page'[i] = page[i + 1]
  BY <1>1
<1>4. /\ seen' \in Seq(Tweet) /\ Len(seen') \in 1..SeenSize /\ seen'[1] = h
  BY <1>1, <1>2, AddedIsFirst
<1>5. ASSUME NEW t
      PROVE  Contains(page, t) <=> t = h \/ Contains(page, t)'
  <2>1. ASSUME NEW i \in 1..Len(page), i # 1
        PROVE  i - 1 \in 1..Len(page') /\ page'[i - 1] = page[i]
    BY <1>1, <1>3, <2>1
  <2>2. ASSUME NEW i \in 1..Len(page')
        PROVE  i + 1 \in 1..Len(page) /\ page[i + 1] = page'[i]
    BY <1>1, <1>3, <2>2
  <2>3. 1 \in 1..Len(page)
    BY <1>1
  <2> QED
    BY <1>2, <2>1, <2>2, <2>3 DEF Contains
<1>6. 1 \in 1..Len(seen') /\ seen'[1] = h
  BY <1>4
<1>7. ASSUME NEW t, NEW k \in Int, t # h, k < SeenSize, Held(t, k)
      PROVE  \E j \in 1..Len(seen') : j <= k + 1 /\ seen'[j] = t
  <2>1. PICK i \in 1..Len(seen) : i <= k /\ seen[i] = t
    BY <1>7 DEF Held
  <2>2. i < SeenSize
    BY <1>1, <1>7, <2>1
  <2>3. PICK j \in 1..Len(seen') : j <= i + 1 /\ seen'[j] = t
    BY <1>1, <1>2, <1>7, <2>1, <2>2, AddedKeepsOthers
  <2>4. j <= k + 1
    BY <1>1, <1>4, <1>7, <2>1, <2>3
  <2> QED
    BY <2>3, <2>4
<1>8. Held(h, PageSize - Len(page))' /\ Held(h, 2 * PageSize - Len(page))'
  <2>1. 1 <= PageSize - Len(page') /\ 1 <= 2 * PageSize - Len(page')
    BY <1>1, <1>3
  <2> QED
    BY <1>6, <2>1 DEF Held
<1>9. ASSUME NEW t, t # h, Held(t, PageSize - Len(page))
      PROVE  Held(t, PageSize - Len(page))'
  <2>1. /\ PageSize - Len(page) \in Int /\ PageSize - Len(page) < SeenSize
        /\ (PageSize - Len(page)) + 1 = PageSize - Len(page')
    BY <1>1, <1>3
  <2>2. PICK j \in 1..Len(seen') : j <= PageSize - Len(page') /\ seen'[j] = t
    BY <1>7, <1>9, <2>1
  <2> QED
    BY <2>2 DEF Held
<1>10. ASSUME NEW t, t # h, Held(t, 2 * PageSize - Len(page)), Contains(page, t)'
       PROVE  Held(t, 2 * PageSize - Len(page))'
  <2>1. Len(page') # 0
    BY <1>3, <1>10 DEF Contains
  <2>2. /\ 2 * PageSize - Len(page) \in Int /\ 2 * PageSize - Len(page) < SeenSize
        /\ (2 * PageSize - Len(page)) + 1 = 2 * PageSize - Len(page')
    BY <1>1, <1>3, <2>1
  <2>3. PICK j \in 1..Len(seen') : j <= 2 * PageSize - Len(page') /\ seen'[j] = t
    BY <1>7, <1>10, <2>2
  <2> QED
    BY <2>3 DEF Held
<1> QED
  BY <1>1, <1>2, <1>3, <1>4, <1>5, <1>8, <1>9, <1>10

(* The seed loop marks one tweet. *)
LEMMA MarkSeedInv == IInv /\ MarkSeed => IInv'
<1> SUFFICES ASSUME IInv, MarkSeed PROVE IInv'
  OBVIOUS
<1> USE PollerAssumption DEF IInv
<1>0. /\ page # << >> /\ page' = Tail(page) /\ seen' = Added(seen, Head(page))
      /\ phase = "mark" /\ phase' = "mark" /\ OnPage' = OnPage
      /\ UNCHANGED <<posted, deleted, history, seeded, age, missed, published, lost>>
  BY DEF MarkSeed, feed, OnPage, Newer, Live
<1>1. PICK h : h = Head(page)
  OBVIOUS
<1>2. /\ Len(page) \in 1..PageSize /\ Len(page') = Len(page) - 1
      /\ page' \in Seq(1..posted')
      /\ seen' \in Seq(Tweet) /\ Len(seen') <= SeenSize
      /\ \A t : Contains(page, t) <=> t = h \/ Contains(page, t)'
      /\ Held(h, PageSize - Len(page))'
      /\ \A t : /\ t # h /\ Held(t, PageSize - Len(page))
               => Held(t, PageSize - Len(page))'
  BY <1>0, <1>1, HeadIsAdded
<1>3. TypeOK'
  BY <1>0, <1>2 DEF TypeOK
<1>4. PhaseInv' /\ FutureInv'
  BY <1>0 DEF PhaseInv, FutureInv
<1>5. ASSUME deleted' = {} PROVE SafeInv'
  <2>0. SafeInv
    BY <1>0, <1>5
  <2>1. HandledInv'
    <3> SUFFICES ASSUME NEW t \in OnPage', Known(t)', ~Contains(page, t)'
                 PROVE  (Held(t, PageSize - Len(page)) /\ age[t] <= missed)'
      BY DEF HandledInv
    <3>1. t \in OnPage /\ Known(t)
      BY <1>0 DEF Known
    <3>2. t \in Tweet
      BY <3>1 DEF OnPage, Live, Tweet, TypeOK
    <3>3. age'[t] <= missed'
      BY <1>0, <3>2 DEF PhaseInv
    <3>4. Held(t, PageSize - Len(page))'
      BY <1>2, <2>0, <3>1 DEF SafeInv, HandledInv
    <3> QED
      BY <3>3, <3>4
  <2>2. PendingInv'
    BY <1>0 DEF PendingInv
  <2>3. PublishedAtMostOnce' /\ HistoryNotReplayed'
    BY <1>0, <2>0 DEF SafeInv, PublishedAtMostOnce, HistoryNotReplayed
  <2> QED
    BY <2>1, <2>2, <2>3 DEF SafeInv
<1> QED
  BY <1>3, <1>4, <1>5

(* Poll's loop handles one tweet: if it is known, it is still in the seen  *)
(* set and is not published again.                                         *)
LEMMA HandleInv == IInv /\ Handle => IInv'
<1> SUFFICES ASSUME IInv, Handle PROVE IInv'
  OBVIOUS
<1> USE PollerAssumption DEF IInv
<1>1. PICK h : h = Head(page)
  OBVIOUS
<1>2. /\ page # << >> /\ page' = Tail(page) /\ seen' = Added(seen, h)
      /\ phase = "busy" /\ phase' = "busy" /\ OnPage' = OnPage
      /\ age' = [age EXCEPT ![h] = 0]
      /\ published' = [published EXCEPT ![h] =
            IF ~Contains(seen, h) /\ publishableTweet(h) /\ @ < 2 THEN @ + 1 ELSE @]
      /\ UNCHANGED <<posted, deleted, history, seeded, missed>>
  BY <1>1 DEF Handle, feed, OnPage, Newer, Live
<1>a. lost' \in {lost, lost \cup {h}}
  BY <1>1 DEF Handle, Drop
<1>3. /\ h \in Tweet
      /\ Len(page) \in 1..PageSize /\ Len(page') = Len(page) - 1
      /\ page' \in Seq(1..posted')
      /\ seen' \in Seq(Tweet) /\ Len(seen') <= SeenSize
      /\ \A t : Contains(page, t) <=> t = h \/ Contains(page, t)'
      /\ Held(h, PageSize - Len(page))' /\ Held(h, 2 * PageSize - Len(page))'
      /\ \A t : /\ t # h /\ Held(t, PageSize - Len(page))
               => Held(t, PageSize - Len(page))'
      /\ \A t : /\ t # h /\ Held(t, 2 * PageSize - Len(page)) /\ Contains(page, t)'
               => Held(t, 2 * PageSize - Len(page))'
  BY <1>1, <1>2, HeadIsAdded
<1>4. /\ age' \in [Tweet -> 0..TTL] /\ published' \in [Tweet -> 0..2]
      /\ age'[h] = 0
      /\ \A t \in Tweet : t # h => age'[t] = age[t] /\ published'[t] = published[t]
  BY <1>2, <1>3 DEF TypeOK
<1>5. TypeOK'
  BY <1>2, <1>3, <1>4, <1>a DEF TypeOK
<1>6. h \in 1..posted
  BY <1>1, <1>2 DEF TypeOK
<1>7. PhaseInv' /\ FutureInv'
  BY <1>2, <1>4, <1>6 DEF PhaseInv, FutureInv, TypeOK
<1>8. ASSUME deleted' = {} PROVE SafeInv'
  <2>0. SafeInv /\ missed' = 0 /\ missed = 0 /\ OnPage \subseteq Tweet
    BY <1>2, <1>8 DEF PhaseInv, OnPage, Live, Tweet, TypeOK
  <2>1. Known(h) => published'[h] = published[h]
    <3> SUFFICES ASSUME Known(h) PROVE Contains(seen, h)
      BY <1>2, <1>3 DEF TypeOK
    <3>1. Held(h, 2 * PageSize - Len(page))
      BY <1>2, <1>3, <2>0 DEF SafeInv, PendingInv
    <3> QED
      BY <3>1 DEF Held, Contains
  <2>2. \A t \in Tweet : t # h => (Known(t)' <=> Known(t))
    BY <1>2, <1>4 DEF Known
  <2>3. HandledInv'
    <3> SUFFICES ASSUME NEW t \in OnPage', Known(t)', ~Contains(page, t)'
                 PROVE  (Held(t, PageSize - Len(page)) /\ age[t] <= missed)'
      BY DEF HandledInv
    <3>1. CASE t = h
      BY <1>3, <1>4, <2>0, <3>1
    <3>2. CASE t # h
      <4>1. t \in OnPage /\ t \in Tweet /\ Known(t) /\ ~Contains(page, t)
        BY <1>2, <1>3, <2>0, <2>2, <3>2
      <4>2. Held(t, PageSize - Len(page)) /\ age[t] <= missed
        BY <2>0, <4>1 DEF SafeInv, HandledInv
      <4> QED
        BY <1>2, <1>3, <1>4, <3>2, <4>1, <4>2
    <3> QED
      BY <3>1, <3>2
  <2>4. PendingInv'
    <3> SUFFICES ASSUME NEW t \in Tweet, Contains(page, t)', Known(t)'
                 PROVE  (Held(t, 2 * PageSize - Len(page)) /\ age[t] <= MaxMissed + 1)'
      BY DEF PendingInv
    <3>1. CASE t = h
      BY <1>3, <1>4, <3>1
    <3>2. CASE t # h
      <4>1. Known(t) /\ Contains(page, t)
        BY <1>3, <2>2, <3>2
      <4>2. Held(t, 2 * PageSize - Len(page)) /\ age[t] <= MaxMissed + 1
        BY <1>2, <2>0, <4>1 DEF SafeInv, PendingInv
      <4> QED
        BY <1>3, <1>4, <3>2, <4>2
    <3> QED
      BY <3>1, <3>2
  <2>5. PublishedAtMostOnce'
    <3>1. published[h] \in 0..2 /\ published'[h] \in {published[h], published[h] + 1}
      BY <1>2, <1>3 DEF TypeOK
    <3>2. \A t \in Tweet : published[t] <= 1
      BY <1>2, <1>8, <2>0 DEF SafeInv, PublishedAtMostOnce
    <3>3. published'[h] <= 1
      BY <1>3, <2>1, <3>1, <3>2 DEF Known
    <3> QED
      BY <1>4, <3>2, <3>3 DEF PublishedAtMostOnce
  <2>6. HistoryNotReplayed'
    <3> SUFFICES ASSUME seeded', NEW t \in 1..history' PROVE published'[t] = 0
      BY DEF HistoryNotReplayed
    <3>1. published[t] = 0 /\ t \in Tweet /\ Known(t)
      BY <1>2, <1>8, <2>0 DEF SafeInv, HistoryNotReplayed, TypeOK, Tweet, Known
    <3> QED
      BY <1>4, <2>1, <3>1
  <2> QED
    BY <2>3, <2>4, <2>5, <2>6 DEF SafeInv
<1> QED
  BY <1>5, <1>7, <1>8

(* A poll begins with a good fetch: what it has to handle is on the page,  *)
(* so what is known of it was handled by the last loop, before the outage. *)
LEMMA PollOkInv == IInv /\ PollOk => IInv'
<1> SUFFICES ASSUME IInv, PollOk PROVE IInv'
  OBVIOUS
<1> USE PollerAssumption DEF IInv
<1>0. /\ phase = "idle" /\ phase' = "busy" /\ page = << >> /\ missed' = 0
      /\ age' = Older /\ OnPage' = OnPage
      /\ UNCHANGED <<posted, deleted, history, seeded, seen, published, lost>>
  BY DEF PollOk, PhaseInv, feed, OnPage, Newer, Live
<1>1. posted \in Nat /\ OnPage \subseteq Tweet
  BY DEF TypeOK, OnPage, Live, Tweet
<1>2. /\ page' \in Seq(1..posted) /\ Len(page') <= PageSize
      /\ \A t : Contains(page, t)' <=> t \in OnPage
  BY <1>1, FetchIsPage DEF PollOk, Contains
<1>3. age' \in [Tweet -> 0..TTL] /\ \A t \in Tweet : age'[t] <= age[t] + 1
  BY <1>0 DEF TypeOK, Older
<1>4. TypeOK'
  BY <1>0, <1>2, <1>3 DEF TypeOK
<1>5. PhaseInv' /\ FutureInv'
  BY <1>0 DEF PhaseInv, FutureInv
<1>6. ASSUME deleted' = {} PROVE SafeInv'
  <2>0. SafeInv
    BY <1>0, <1>6
  <2>1. HandledInv'
    BY <1>0, <1>2 DEF HandledInv
  <2>2. PendingInv'
    <3> SUFFICES ASSUME NEW t \in Tweet, Contains(page, t)', Known(t)'
                 PROVE  (Held(t, 2 * PageSize - Len(page)) /\ age[t] <= MaxMissed + 1)'
      BY DEF PendingInv
    <3>1. t \in OnPage /\ Known(t) /\ ~Contains(page, t) /\ Len(page) = 0
      BY <1>0, <1>2 DEF Known, Contains
    <3>2. Held(t, PageSize - Len(page)) /\ age[t] <= missed
      BY <2>0, <3>1 DEF SafeInv, HandledInv
    <3>3. age'[t] <= MaxMissed + 1
      BY <1>3, <3>2 DEF TypeOK
    <3>4. PICK i \in 1..Len(seen) : i <= PageSize - Len(page) /\ seen[i] = t
      BY <3>2 DEF Held
    <3>5. i <= 2 * PageSize - Len(page') /\ i \in 1..Len(seen')
      BY <1>0, <1>2, <3>1, <3>4 DEF TypeOK
    <3> QED
      BY <1>0, <3>3, <3>4, <3>5 DEF Held
  <2>3. PublishedAtMostOnce' /\ HistoryNotReplayed'
    BY <1>0, <2>0 DEF SafeInv, PublishedAtMostOnce, HistoryNotReplayed
  <2> QED
    BY <2>1, <2>2, <2>3 DEF SafeInv
<1> QED
  BY <1>4, <1>5, <1>6

(* A poll that fails makes the entries and the outage one interval older.  *)
LEMMA PollFailsInv == IInv /\ PollFails => IInv'
<1> SUFFICES ASSUME IInv, PollFails PROVE IInv'
  OBVIOUS
<1> USE PollerAssumption DEF IInv
<1>0. /\ phase = "idle" /\ missed' = missed + 1 /\ missed' <= MaxMissed
      /\ age' = Older /\ OnPage' = OnPage
      /\ UNCHANGED <<posted, deleted, history, seeded, phase, page, seen, published, lost>>
  BY DEF PollFails, TypeOK, feed, OnPage, Newer, Live
<1>1. OnPage \subseteq Tweet
  BY DEF TypeOK, OnPage, Live, Tweet
<1>2. age' \in [Tweet -> 0..TTL] /\ \A t \in Tweet : age'[t] <= age[t] + 1
  BY <1>0 DEF TypeOK, Older
<1>3. TypeOK'
  BY <1>0, <1>2 DEF TypeOK
<1>4. PhaseInv' /\ FutureInv'
  BY <1>0 DEF PhaseInv, FutureInv
<1>5. ASSUME deleted' = {} PROVE SafeInv'
  <2>0. SafeInv
    BY <1>0, <1>5
  <2>1. HandledInv'
    <3> SUFFICES ASSUME NEW t \in OnPage', Known(t)', ~Contains(page, t)'
                 PROVE  (Held(t, PageSize - Len(page)) /\ age[t] <= missed)'
      BY DEF HandledInv
    <3>1. t \in OnPage /\ t \in Tweet /\ Known(t) /\ ~Contains(page, t)
      BY <1>0, <1>1 DEF Known, Contains
    <3>2. Held(t, PageSize - Len(page)) /\ age[t] <= missed
      BY <2>0, <3>1 DEF SafeInv, HandledInv
    <3>3. age'[t] <= missed'
      BY <1>0, <1>2, <3>1, <3>2 DEF TypeOK
    <3> QED
      BY <1>0, <3>2, <3>3 DEF Held
  <2>2. PendingInv'
    BY <1>0 DEF PendingInv
  <2>3. PublishedAtMostOnce' /\ HistoryNotReplayed'
    BY <1>0, <2>0 DEF SafeInv, PublishedAtMostOnce, HistoryNotReplayed
  <2> QED
    BY <2>1, <2>2, <2>3 DEF SafeInv
<1> QED
  BY <1>3, <1>4, <1>5

(* The ends of the two loops and the stop leave everything as it is. *)
LEMMA PhaseChangeInv == IInv /\ (SeedDone \/ PollDone \/ Stop) => IInv'
<1> SUFFICES ASSUME IInv, SeedDone \/ PollDone \/ Stop PROVE IInv'
  OBVIOUS
<1> USE DEF IInv
<1>0. /\ phase \in {"mark", "busy", "idle"} /\ phase' \in {"idle", "stopped"} /\ page = << >>
      /\ UNCHANGED <<posted, deleted, history, seeded, page, seen, age, missed, published, lost>>
      /\ OnPage' = OnPage
  BY DEF SeedDone, PollDone, Stop, PhaseInv, feed, OnPage, Newer, Live
<1>1. TypeOK'
  BY <1>0 DEF TypeOK
<1>2. PhaseInv' /\ FutureInv'
  BY <1>0 DEF PhaseInv, FutureInv
<1>3. ASSUME deleted' = {} PROVE SafeInv'
  <2>0. SafeInv
    BY <1>0, <1>3
  <2>1. HandledInv' /\ PendingInv'
    BY <1>0, <2>0 DEF SafeInv, HandledInv, PendingInv, Known, Held, Contains
  <2>2. PublishedAtMostOnce' /\ HistoryNotReplayed'
    BY <1>0, <2>0 DEF SafeInv, PublishedAtMostOnce, HistoryNotReplayed
  <2> QED
    BY <2>1, <2>2 DEF SafeInv
<1> QED
  BY <1>1, <1>2, <1>3

(* What expires is older than any outage, so it is not known and in reach; *)
(* what is moves up or stays.                                              *)
LEMMA ExpireInv == ASSUME IInv, NEW x \in Tweet, Expire(x) PROVE IInv'
<1> USE PollerAssumption, RoomAssumption DEF IInv
<1>0. /\ Contains(seen, x) /\ age[x] >= TTL /\ seen' = RemoveAt(seen, Place(seen, x))
      /\ UNCHANGED <<posted, deleted, history, seeded, phase, page, age, missed, published, lost>>
      /\ OnPage' = OnPage
  BY DEF Expire, feed, OnPage, Newer, Live
<1>1. Place(seen, x) \in 1..Len(seen) /\ seen[Place(seen, x)] = x
  BY <1>0, PlaceBounds DEF TypeOK
<1>2. /\ seen' \in Seq(Tweet) /\ Len(seen') = Len(seen) - 1
      /\ \A i \in 1..Len(seen) : i # Place(seen, x) =>
            \E j \in 1..Len(seen') : j <= i /\ seen'[j] = seen[i]
  BY <1>0, <1>1, RemovedKeepsOthers DEF TypeOK
<1>3. TypeOK'
  BY <1>0, <1>2 DEF TypeOK
<1>4. PhaseInv' /\ FutureInv'
  BY <1>0 DEF PhaseInv, FutureInv
<1>5. ASSUME NEW t, NEW k \in Int, t # x, Held(t, k)
      PROVE  \E j \in 1..Len(seen') : j <= k /\ seen'[j] = t
  <2>1. PICK i \in 1..Len(seen) : i <= k /\ seen[i] = t
    BY <1>5 DEF Held
  <2>2. PICK j \in 1..Len(seen') : j <= i /\ seen'[j] = t
    BY <1>1, <1>2, <1>5, <2>1
  <2>3. j <= k
    BY <1>2, <2>1, <2>2
  <2> QED
    BY <2>2, <2>3
<1>6. PageSize - Len(page) \in Int /\ 2 * PageSize - Len(page) \in Int
  BY DEF TypeOK
<1>7. ASSUME deleted' = {} PROVE SafeInv'
  <2>0. SafeInv
    BY <1>0, <1>7
  <2>1. HandledInv'
    <3> SUFFICES ASSUME NEW t \in OnPage', Known(t)', ~Contains(page, t)'
                 PROVE  (Held(t, PageSize - Len(page)) /\ age[t] <= missed)'
      BY DEF HandledInv
    <3>1. t \in OnPage /\ Known(t) /\ ~Contains(page, t)
      BY <1>0 DEF Known, Contains
    <3>2. Held(t, PageSize - Len(page)) /\ age[t] <= missed
      BY <2>0, <3>1 DEF SafeInv, HandledInv
    <3>3. t # x
      BY <1>0, <3>2 DEF TypeOK
    <3>4. PICK j \in 1..Len(seen') : j <= PageSize - Len(page) /\ seen'[j] = t
      BY <1>5, <1>6, <3>2, <3>3
    <3> QED
      BY <1>0, <3>2, <3>4 DEF Held
  <2>2. PendingInv'
    <3> SUFFICES ASSUME phase' = "busy", NEW t \in Tweet, Contains(page, t)', Known(t)'
                 PROVE  (Held(t, 2 * PageSize - Len(page)) /\ age[t] <= MaxMissed + 1)'
      BY DEF PendingInv
    <3>1. phase = "busy" /\ Known(t) /\ Contains(page, t)
      BY <1>0 DEF Known, Contains
    <3>2. Held(t, 2 * PageSize - Len(page)) /\ age[t] <= MaxMissed + 1
      BY <2>0, <3>1 DEF SafeInv, PendingInv
    <3>3. t # x
      BY <1>0, <3>2 DEF TypeOK
    <3>4. PICK j \in 1..Len(seen') : j <= 2 * PageSize - Len(page) /\ seen'[j] = t
      BY <1>5, <1>6, <3>2, <3>3
    <3> QED
      BY <1>0, <3>2, <3>4 DEF Held
  <2>3. PublishedAtMostOnce' /\ HistoryNotReplayed'
    BY <1>0, <2>0 DEF SafeInv, PublishedAtMostOnce, HistoryNotReplayed
  <2> QED
    BY <2>1, <2>2, <2>3 DEF SafeInv
<1> QED
  BY <1>3, <1>4, <1>7

(* Every step of the poller and of the owner keeps the invariant. *)
LEMMA StepInv == IInv /\ [Next]_vars => IInv'
<1> SUFFICES ASSUME IInv, [Next]_vars PROVE IInv'
  OBVIOUS
<1>1. CASE Post
  BY <1>1, PostInv
<1>2. CASE \E t \in Tweet : Delete(t) \/ Expire(t)
  BY <1>2, DeleteInv, ExpireInv
<1>3. CASE SeedOk \/ SeedFails \/ MarkSeed
  BY <1>3, SeedOkInv, SeedFailsInv, MarkSeedInv
<1>4. CASE PollOk \/ PollFails \/ Handle
  BY <1>4, PollOkInv, PollFailsInv, HandleInv
<1>5. CASE SeedDone \/ PollDone \/ Stop
  BY <1>5, PhaseChangeInv
<1>6. CASE UNCHANGED vars
  BY <1>6 DEF vars, IInv, TypeOK, PhaseInv, FutureInv, SafeInv, HandledInv, PendingInv,
              PublishedAtMostOnce, HistoryNotReplayed, Known, Held, Contains,
              OnPage, Newer, Live
<1> QED
  BY <1>1, <1>2, <1>3, <1>4, <1>5, <1>6 DEF Next

(* The invariant holds throughout. *)
LEMMA InvHolds == Spec => []IInv
  BY InitInv, StepInv, PTL DEF Spec

-----------------------------------------------------------------------------
(* The poller's state stays well typed, the seen set within tweetSeenSize  *)
(* and the page that is left within the node's page, for all bounds.       *)
THEOREM TypeCorrect == Spec => []TypeOK
<1>1. IInv => TypeOK
  BY DEF IInv
<1> QED
  BY <1>1, InvHolds, PTL

(* poll never publishes a post a second time, for every page size, seen    *)
(* set and TTL that leave room: neither eviction nor expiry of seen        *)
(* entries during an outage makes a tweet new again while nothing is       *)
(* deleted ("expiry can't cause a re-publish").                            *)
THEOREM NoSecondPublication == Spec => []PublishedAtMostOnce
<1>1. IInv => PublishedAtMostOnce
  BY DEF IInv, SafeInv, PublishedAtMostOnce
<1> QED
  BY <1>1, InvHolds, PTL

(* A poller whose seed fetch succeeded publishes nothing that existed then, *)
(* marked or beyond the seed page, under the same conditions ("no replaying *)
(* history on every restart").                                              *)
THEOREM NoHistory == Spec => []HistoryNotReplayed
<1>1. IInv => HistoryNotReplayed
  BY DEF IInv, SafeInv, HistoryNotReplayed
<1> QED
  BY <1>1, InvHolds, PTL
=============================================================================
