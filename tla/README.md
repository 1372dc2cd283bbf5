# Formal model of the Warpnet ActivityPub gateway

The gateway is one Go process between two networks. On one side it is a member
of Warpnet (libp2p): it asks members for users, tweets and follower lists, and it
serves routes to them. On the other side it is an ActivityPub server: it answers
for the actors of Warpnet users, receives activities in inboxes, and delivers
signed activities to Fediverse servers. It keeps no database; everything it
knows is in memory or on the owners' nodes, and it does its work in many
goroutines that wait for networks which fail.

This directory holds TLA+ modules that model the parts of it that keep state or
run concurrently, TLC configurations that check them on small instances, and
TLAPS proofs for every value of the constants. `PROJECT.json` maps every
definition to the lines it models, lists the hazards the properties are for, and
gives for every property a plausible bug that breaks it.

## Inventory

| component | state | operations | hard about it |
|---|---|---|---|
| hedged node request (`nodeclient.go` `tryMembers`) | per request: candidates launched, in-flight count, hedge timer, reply channel | launch, reply, hedge, deadline | failures, hedges, per-peer and request timeouts interleave; losers outlive the request; an open stream has no deadline |
| node client (`nodeclient.go`, `discovery.go`) | owner cache (LRU with TTL), list of good members, routing table | `requestUser`, `ownerNode`, `request`, `memberCandidates`, `remember` | users move while cached; a late answer re-adds a dropped entry; dead members take candidate places and a request's time |
| tweet poller (`tweetpoller.go`) | one per federated user: LRU of seen tweets with TTL | seed, poll, publish | failing fetches, expiry during outages, tweets that come back to the page, posts marked before their fan-out |
| outbound federation (`outbound.go`, `nodefollowers.go`) | map of started users, count of empty scans | `start`, `stop`, `scan`, `onFollowed` | a scan acts on an old read while accepts start pollers; wrong answers look like "no followers" |
| follow poller (`outbound.go`) | per user: known followings, baseline | poll, `deliverFollow` | answers of other nodes, a read of one page, handles that fail to resolve, lost deliveries |
| inbox and delivery pool (`inbox.go`, `publish.go`) | semaphore of delivery slots | `handleInbox`, `acceptFollow`, forward, `deliverToFollowers` | multi-step work after the 202; slots shared by inbound and outbound work; Accept before persist |
| inbound translation (`inbound.go`) | none | `translateInbound`, ids | redeliveries, urls with queries, activities about a thing applied in either order |
| Mastodon bridge, writes (`mastodon-bridge.go`, `nodeserver.go`) | none | `React`, `Announce`, `Follow`, `Reply`, `Delete` | undo must name what was done; failures and repeated deliveries |
| signed GET (`server.go`) | cache of answers (1 s), flights | `signedGet`, `sendRetry` | cache miss before, flight after another one's fill; retries; leader cancelled |
| rate limiter (`rate-limit.go`) | global and per-client sliding windows in an LRU, notes of the locked ones | `middleware`, `client`, `drain` | check and charge are apart; replacement and eviction between them; `Limit` is not atomic; library total that wraps |
| log ring (`log-buffer.go`) | ring of lines | `Fire`, `lines` | wrap-around, concurrent readers |
| HTTP signatures (`httpsig.go`) | none | sign, verify | only the verdict matters to the state |
| Mastodon bridge, reads (`mastodon-bridge.go`) | none between requests; the cursor is the client's | `GetTweets`, `GetReplies`, `followList`, `resolveTimelineItems` | two sources with their own cursors, filters against paging, goroutines that finish in any order, fetches that fail |
| urls of statuses (`notes.go`, `server.go`, `mastodon-bridge.go`) | none: a url says all | `buildNote`, `serveStatus`, `serveOutbox`, `nativizeOwnStatus` | a reply must be found, rendered and recognised by its url alone |
| gateway key (`keys.go`) | key file | `loadOrCreateKey` | failures and crashes between the calls; a second key ends federation |
| process (`main.go`) | the above, over all its lives | `main`, shutdown, supervisor | a fault in one life that stops the next |
| wire format, other endpoints, media proxy, badge, maps, DTOs | caches only | rendering | I/O or stateless |

How they interact: an inbound Follow is verified (signatures, `signedGet`),
accepted in a slot of the pool, persisted on the owner's node (node client), and
starts the user's pollers (outbound federation), which read the owner's node
through the node client and deliver posts through the same pool. The scanner
reconciles the pollers with the follower graph that the owner's node keeps.
Activities other than a Follow are translated and forwarded by the pool; the
member's own activities come in over the node server's routes and are delivered
by the bridge.

## Modules

Every module models one component with its state as variables and one action
per operation or per step between two points where other goroutines can run.
Definitions keep the names of the code. A definition whose name extends another
one's (`startAgain` for `start`) and whose comment says so is a faulty variant:
it stands in for that definition to show that a property would notice.

- `LogRing`: `buf`, `next` and `full` are the fields of `logRing`; `Fire` is one
  step because it holds the mutex. `RecentLines` is its abstract specification:
  a sequence of the most recent lines. Its proofs are in `ProcessProofs`.
- `Process` (extends `LogRing`): one process after another on a machine, as the
  supervisor starts them. `main()` is a phase per call that can fail, and
  `os.WriteFile` is two, because a kill between opening and writing leaves an
  empty file. The key file outlives the process, the ring and the key in memory
  do not; `flushed` says whether the file would survive a loss of power.
  `ProcessProofs`.
- `HedgedRequest`: one call of `tryMembers` with a discrete clock. Each attempt
  is a goroutine that ends with a reply in the buffered channel (`Reply`); the
  loop receives (`ReceiveOk`, `ReceiveErr`), hedges or meets the deadline. What
  the candidates do (`latency`, `healthy`) is chosen in `Init`, and so is where they
  make their stream wait (`waits`): `streamSend` hands its context to `NewStream`
  only, so the timeouts cut off a slow dial, a peer that took the stream is waited
  for as long as it takes, and one that never answers for ever.
  `HedgedRequestProofs`.
- `NodeClient`: callers of `requestUser` share `owner` (the cache), `good` and
  the routing `table`. The race among candidates is abstracted to its outcome:
  some candidate that is up answers, and so is remembered; or none is up, or the
  first `Reach` candidates hang and the deadline falls before the next one is tried.
  A node that is not up may be `silent`: it takes a direct stream and never answers.
- `LRU`: what `Add` does to an expirable LRU, as a list in order of use, by
  positions. `TweetPoller` and `RateLimit` use it.
- `TweetPoller`: the poller of one user; `seen` is the LRU in order of age with
  `age` for the TTL; the seed and every page are handled tweet by tweet, so posts,
  deletions and expiry fall between two of them. `Handle` is mark and publish; the
  fan-out may drop the post (`Drop`). `TweetPollerProofs`.
- `OutboundFederation`: `started` and `emptyScans` are the maps of
  `outboundFederation`; `live` and `dying` count poller goroutines. A scan reads
  one user (`ScanReads`) and acts on the answer in a later step (`ScanActs`).
  `OutboundFederationProofs`.
- `FollowPoller`: `known` and `baselined`; a poll reads one page (`Pages`: which of
  the followings are on it, when they do not fit, is the node's choice), plans
  (`Diff`) and delivers one by one. `FollowPollerProofs`.
- `Inbox`: requests in progress, the semaphore, the owner's follower list, and
  one fan-out. `acceptFollow` is four actions, because the peer sees its Accept
  before the follower is persisted. `verifyRequest` is the verdict of the
  signature check; the key or the user it needs may also fail to be fetched, which
  refuses a genuine request. `Forward` may reach any member. `AddHangs` is a node
  that takes the stream of `followers.Add` and keeps silent. `InboxProofs`.
- `RateLimit` (with `RateLimitMC` for the symmetry of clients and workers):
  limiters as weights per age, `lru` as the cache of limiters; `middleware` is
  check, charge global, charge client; `drain` goes client by client. A charge is
  two steps, because the library's `Limit` first subtracts what has expired and
  then cuts it off (`newLimiter`'s comment), and `taskQueue` locks each of its
  methods, not `Limit`: a second call may subtract the same tasks again, and its
  cut may take others (`LimitEnds` gives the limiters that can result). Such a
  limiter is `raced`. A request charges the limiters it has loaded, also when drain
  has replaced them or the cache has dropped them by then. Nobody looks at those
  any more, so the model skips the charge: a request skips the rest of a global
  limiter that was replaced, and is done at once when only the charge to a dropped
  client limiter is left (`orphan` remembers that while it is still at the global
  one). Time goes on while `Limit` holds a request back. Its proofs are in `ProcessProofs`,
  beside those of the process it runs in.
- `SignedGet`: one document; its cache entry, its flight, and callers that
  missed, wait or are done. Answers are versions of the document.
  `FetchProofs` has the proofs for it and for `Timeline`.
- `Interactions`: likes, boosts, follows, replies and quotes in both directions.
  A thing is wanted or not; activities about it are under way, applied or lost.
  A url is a record of a status id and the parent in its query. `Reply` and
  `Delete` build it from two events, each of which names the parent, the root of
  the thread or both (`Events`, `replyActivity`).
- `Statuses` (extends `Interactions`): what the gateway makes of those urls, as
  operators: the notes it serves for them (`serveStatus`, `serveOutbox`), and the
  thread it reads back for the member's node (`GetReplies`). It adds no action,
  since nothing is stored; its properties relate these operators to the state of
  the interactions. `StatusesProofs` has the proofs for both modules.
- `Timeline`: one client walks a timeline, a follow list or a thread. `pc` is
  where the gateway's handler is, and every fetch is a step that may fail. An
  item is its position in the order of creation and has a kind; a cursor is an
  api and a position. The pool of goroutines that resolves a page is modelled
  goroutine by goroutine (`Claim`, `Resolve`), once for `resolveTimelineItems`
  and `resolveReplyItems`, whose control is the same. Filters are one recursive
  function (`Kept`) about which the proofs can reason. `FetchProofs`.

## What the runs check

| run | instance | shows |
|---|---|---|
| `process` | 4 keys, 3 faults, ring of 3 | one key over all lives; only a torn key file stops later starts; `/logs` is the recent log of this life, before and after the wrap (refinement) |
| `hedged` | 4 candidates, which answer at once, late or never and are slow to dial or to answer, deadline before the last hedge | one hedge delay per slow candidate, load bound, a healthy candidate wins, only silent peers keep a goroutine |
| `tweet_poller` | 5 tweets (one a retweet), page 2, LRU 4, TTL 3, outages of one poll, one deletion, one post dropped | no double publication, no replay of history, new posts get published |
| `tweet_seed_fails` | the seed fetch fails | **violated**: history is replayed |
| `federation` | 2 users, 1 follower, limit 2, 2 faults, 2 events, 1 restart | one live poller per federated user, stops are earned, convergence both ways |
| `follow_poller` | 2 Fediverse accounts and a Warpnet user, pages of 2, 2 faults of every kind, 2 changes, 1 restart | instances told what the poller believes; while the followings fit on a page: no wrong Undo, no replay, convergence |
| `inbox` | 2 actors, 3 requests (2 at a time), 2 slots, 1 fan-out, 1 fault, 2 hanging calls, 1 restart | slots accounted on every path, nobody follows by another's signature, accepted is persisted, the pool serves requests and fan-out until silent nodes hold it |
| `rate_limit` | 2 clients, 2 workers, cache of 1, window 2, requests held for 1, 1 raced limiter | exact totals and budget per window where calls do not race, every lock ends |
| `node_client` | 2 nodes and one that is gone, 1 relay, 2 callers, 3 candidates of which 2 can be tried, 1 move, 1 outage, 1 fault | the cache converges, the owner's node answers, requests recover from members that are gone |
| `signed_get` | 3 callers, 2 attempts, TTL 2, timeout 2 | bursts collapse, bounded staleness, every caller returns |
| `interactions` | 1 actor, 2 notes (one deep in its thread), 1 tweet, 3 operations, 1 fault | both sides show what was wanted; one row per note; urls resolve; the member's own replies are recognised |
| `timeline` | 3 items of every mix of kinds, pages of 2, pool of 2, answers of at most 3 replies from 3 pages, 1 change, 1 fault, every kind of server | newest first, complete, and the walk ends |

Bounds. They are constants named in the modules (`Max...`) and appear only in
guards. They are chosen so that the interesting cases happen: the buffer, the
page, the seen set and the caches overflow; a limit of two is reached, missed by
one, and reached again after a reset; outages stay below the TTL in one place
and deletions bring old tweets back in another; the followings overflow the page
that is read; the pool has two slots for two requests and a fan-out, and calls can
hang in one or both; a request has time for the dead members but for one; two goroutines are at every point between a check and
its use; a page has no visible item, and a thread is longer than an answer; the key
is created anew after a fault at each step of creating it; and each kind of failure
strikes at each step. In `RateLimit` a request is held for one unit (half the
window), and calls of `Limit` race on one limiter (`MaxRaced`), which may be the
global one or a client's; `Word` is the least that `WordAssumption` allows, so a
total that wraps around is seen at once. The paths are one of the data plane and
one of the control plane, both of weight 1: heavier requests are left to the
proofs, which hold for every set of paths. `MaxEvents`, `MaxFaults` and
`MaxRestarts` also say that the environment calms down, which the convergence
properties need.

Fairness. Weak fairness is assumed of the gateway's own goroutines and timers,
which the Go runtime schedules, of the passing of time, and of peers that retry
after 503. It is not assumed of anything that may not happen: follows, posts,
failures, restarts, moves; nor, in `SignedGet`, of the server's answer; nor, in `Process`, of an operator
who repairs a file. The supervisor's restart is fair (`restart: always`), and in
`Timeline` a client asks for the rest of a walk it has begun. Strong
fairness is assumed in two places: of a fan-out that waits for a slot
(`FanAcquire`), because it blocks in a channel send and Go serves blocked
senders in order, while inbound requests only try; and of a poll that succeeds
(`PollOk` in both pollers), which says that a node which can be reached again and
again does answer a poll in the end. In
`NodeClient` a moved user's profile reaches every node (`Replicate`).

No node is assumed to answer a stream it has taken. Where that matters to a
property it is part of the model: `Reply` has no fairness for a silent peer,
`Stream` none for a silent owner, `AddFollower` loses its goroutine in `AddHangs`.
The pollers and the scanner read through the same call; a silent owner stops them
at that read for ever, and strong fairness of `PollOk`, like weak fairness of
`SeedOk \/ SeedFails` and of the scan's steps, leaves that out. So their liveness
properties are about owners that answer or fail. The fan-out of `Inbox` begins with
the follower list in hand for the same reason. Requests to candidates end: with
their deadline `tryMembers` returns whatever its goroutines do.

`CHECK_DEADLOCK FALSE` is set where bounded environments run out of events and
the system rests.

## Findings and provisos

One statement of the code is refuted by a run of its own: `tweetpoller.go` says
that existing tweets are marked "at startup". `fetch` returns nil for a failed
request as for an empty feed, so a failed seed leaves everything unmarked and the
first good poll publishes the newest page of existing posts.

Other limits of the code are stated in the properties as provisos:

- `OnlySilentPeersLeak`, `PoolServesEveryone`: `nodeclient.go` says "Each attempt is
  bounded by perPeerTimeout" and that this covers "DHT FindPeer + dial + round trip".
  It covers the opening of the stream; writing and reading have no deadline. A peer
  that takes the stream and keeps silent keeps the goroutine of an attempt, and a
  caller of `requestUser` together with the slot it holds. The request itself
  returns at its deadline.
- `UndoOnlyIfUnfollowed`: a following whose handle fails to resolve is skipped,
  hence missing from the current set, hence undone, although `outbound.go` says an
  actor gets an Undo "when the owner unfollows". The poll reads one page of the
  followings and does not follow the cursor, as `nodefollowers.go` does for
  followers: a following that is shifted off the page is undone as well. Without
  the provisos TLC finds either in a few steps.
- `HistoryNotReplayed` and `KnownConverges` of the follow poller: for the same reason
  an old following that moves onto the page is delivered as a new one, and the poller
  never knows more than a page.
- `PeersMatchKnown`: a failed delivery is not repeated; its actor is exempt until the
  next change.
- `PublishedAtMostOnce`: an outage longer than the TTL lets entries expire, and
  a deletion can bring an older tweet onto the page.
- `StopIsEarned`: unresolved handles and other nodes' answers count as empty
  reads; empty reads are counted while a user is not federated, so one that just
  started by an inbound Follow can be stopped by the next wrong answer.
- `KnownConverges` is about non-empty sets: the follow poller skips an empty
  read, so it never notices that the last following was dropped.
- `NewPostFederated`: a tweet is marked before its fan-out, which gives up when the
  follower list cannot be read or its context ends; the next poll skips the post.
- `AcceptedIsPersisted`: a failing `followers.Add` is only logged, although the
  peer has its Accept, and a restart between the two leaves the same (`unsaved`).
- That an unfollow removes its row is not among the properties, since the code does
  not guarantee it: a genuine Undo is refused when the signer's key (401) or the
  user (404) cannot be fetched just then, and peers repeat only what was answered
  with 503; an accepted one is forwarded with the broadcast `request`, which any
  member may take, although the comments in `inbox.go` and at `requestUser` speak of
  the owner's node; a restart loses it; and one that is sent on the Accept can
  overtake the `followers.Add` of the same Follow. In the model each of these is a
  step (`HandleInbox`, `Forward`, `Restart`, the interleaving), and each leaves a row
  of a peer that has left.
- `ServerShowsWhatMemberWants`: another emoji that replaces a heart leaves the
  favourite, and the delivery of a follow fails without an error to the node. A
  reply is deleted by the url that `Delete` builds from the deletion's event; when
  this event names the root of the thread where the reply's named its parent, the
  url is another one, and when it names neither nothing is sent, although "the
  Tombstone id must be byte-identical to the note id b.Reply federated".
  Both this and `NodeShowsWhatActorsWant` exempt things with two activities
  under way at once.
- `EveryCallerReturns`: the cancellation of the leader's request gives every
  waiter of the flight an error.
- `TotalIsExact`, `WindowBudget`: both are about limiters on which no two calls of
  `Limit` overlapped. `drain`'s comment says of `Limit` that it must not "race with
  the middleware on the (unsynchronised) task queue"; two handlers that serve one
  client, or any two data-plane handlers on the global limiter, race in the same
  way. The expired weight is then subtracted twice, so the total wraps around (the
  limiter is locked, until `drain` replaces it: `LockEnds` holds all the same) or
  falls short (its client gets budget again that it has spent). Without `raced` in
  the properties TLC finds both.
- `WindowBudget`: eviction of a limiter for lack of room gives its client a new
  budget, and so does its replacement when it was charged after drain found it
  locked (`stale`); what is charged to a limiter that has left the cache counts for
  nothing.
- `KeyStable`: `os.WriteFile` does not sync, so a loss of power soon after the
  first start can take a key that is already known elsewhere. A torn file stops
  every start until somebody removes it; that loses no key that was used.
- `OnlyTornFileStopsStarts` counts a process that could not join Warpnet as
  serving, as `main` means it ("serving the static profile only"); it does not
  try again before its next start.
- `RequestsRecover`: `remember` never drops a member that is gone, so with more
  known members than `maxMemberCandidates` dead ones can hold all the places, and
  long before that dead ones at the front can use up a request's time: when they
  hang, one more candidate is tried per `hedgeDelay`, about 13 in 25 seconds. The
  property's premise is that fewer known members are gone than a request has time to
  try (`Reach`), and in the instance that is one of three.
- `WalkIsComplete`: a later REST page that fails is answered as an empty last page
  and a follow list that fails as a hidden one, without an error; replies end at
  `maxReplies` or `maxPages`; an item whose note cannot be fetched is missing
  (and with it the replies that were cut off its page to fit the room left, see
  below); a
  boost of somebody's reply surfaces on the REST path and not on the other. Follow
  lists are paged by number on real servers, so a change during a walk can shift
  them; the model keeps a follow list still while it is read.
- `WalkIsComplete` once more: `apReplies` cuts a page to the room that is left
  before it fetches the notes of the page ("never dereference more than we can
  keep"). When one of those notes fails, the answer has room again, and the loop
  goes on with the next page: the replies that were cut off are skipped, and newer
  ones than the last shown are missing although the answer is not full. The
  property was once stated without this, and a limit of two pages hid it from TLC;
  the proof attempt found it, and the instance now reads three pages. Answers whose
  room was all used for replies, shown or not fetched, are exempt.
- `UrlsResolve` is about urls that were sent and the outbox. `serveReplies` lists
  replies under urls without the parent, under which a node that indexes replies
  by parent does not find them.

## What is proved

The proofs hold for every value of the constants that the named `ASSUME`s of
the modules admit. Each goes by an inductive invariant.

- `ProcessProofs`, the ring: `RingSafe` (the index stays in the buffer, `lines()` reads
  only written slots) and `RingImplementsRecent` (`Spec => RefinesRecent`), for
  every capacity. The invariant is that exactly the slots below `next`, or all
  once `full`, are written; the step of the refinement compares `lines` before
  and after `Fire` position by position, in the cases not full, just full, full.
- `ProcessProofs`, the process: `ProcSafe`, `KeyIsStable`, `ProcessShowsRecent`, for any number
  of keys, lives and faults. `KeyStable` is not inductive: it needs `PhaseInv`
  (which key is in memory in which phase) and `FileInv` (unless power took the
  file, a key that was used is the one in the file). The refinement of `LogRing`
  is carried over: every step of the process fires, renews or leaves the ring.
- `HedgedRequestProofs`: `TypeCorrect`, `CounterIsExact`, `NoEarlyFailure`,
  `HedgeBound`, `LoadBound`, for every number of candidates and all delays. The
  time bounds are not inductive. They need the `Schedule` (candidates are
  launched in order, none after its slot; the hedge timer is never behind the
  slots of the attempts in flight) and `Timely` (no timer is overdue while the
  request waits, and an attempt that could have succeeded is lost only to the
  request's deadline). Products with the hedge delay are hidden behind `Slot`,
  with three lemmas about it.
- `OutboundFederationProofs`: `TypeCorrect`, `OnePoller`, `StopEarned`, for all
  sets of users and followers, any number of faults and restarts and every limit
  of empty scans. `StopIsEarned` is not inductive: it needs `CountAgrees` (the
  count equals the empty reads, except for an answer read and not acted on) and
  `WrongReads` (empty reads of which none was genuine are all faults).
- `FollowPollerProofs`: `PollerSafe`, `PeersAgree`, `UndoIsEarned`, `NoReplay`, for
  every set of actors, every page size and all bounds. The last two hold while the
  followings fit on the page that is read, as their provisos say. `Delivered` says what the instances were
  told in the middle of a poll, by the part of the plan that is done; `Younger`
  that a following unknown to the poller is younger than the baseline.
- `TweetPollerProofs`: `TypeCorrect`, `NoSecondPublication`, `NoHistory`, for any
  number of tweets, every page size and every seen set and TTL that leave room
  (`RoomAssumption`: the set holds two pages less one, and an outage and the next
  poll are shorter than the TTL; the code has 8192 entries and 1440 intervals).
  Neither property is inductive, because the seen set forgets. The invariant says
  where a tweet that was published or belongs to the seeded history is in it: what
  the last loop handled is within the first `PageSize` places and no older than the
  outage (`HandledInv`); what the running loop has yet to handle was there when the
  loop began and has moved down one place per tweet handled since (`PendingInv`),
  so it is met before it is evicted. What has left the page does not come back
  while nothing is deleted (`OffPageStays`). That `fetch` returns the page, all of
  it and no more than `PageSize` tweets, follows by counting: the number of newer
  tweets is an injection of the page into `0..n-1`, hence onto it.
- `InboxProofs`: `FollowersSigned`, `NoSlotLeaks`, `PoolIsBounded`, for every
  finite set of actors, any number of requests and every pool size. `Owned` says
  that a goroutine at work has a request whose signer is its actor. The slots are
  counted by cardinalities, so every action shows which one set gains or loses
  which one element, and that the fan-out's two sets stay apart (`Fan`).
  `AcceptedArePersisted` is about quiet states, so the invariant has to say what
  happens before: whoever believes to follow and is not in the list has an
  `acceptFollow` at its Add (`Persisted`). For a step to keep that, a peer may have
  only one Follow in progress (`OneFollow`) and, unless its requests crossed, no
  Undo beside it (`NotCrossed`).
- `FetchProofs`, signed GET: `OnlyFinalAnswers`, `BurstsCollapse`, `StalenessIsBounded`, for
  any number of callers, attempts and all lifetimes. `FlightInv` says what a flight
  carries at each of its steps. The bound on staleness needs a second invariant:
  a version is as old as the time since it was superseded (`AgeInv`), the age of
  what is cached or on its way and the time it has left stay within the bound
  together (`FreshInv`), and whatever is young enough now may be given to every
  caller, whenever it began (`FloorInv`). The oldest version still young
  enough is a minimum of a set of naturals, which exists by well-foundedness
  (`MinIsLeast`).
- `FetchProofs`, the walks: `WalksAreOrdered`, `WalksAreComplete`, for every size of
  page, pool and answer, any number of items, changes and failures. What a client
  or the handler has is a `Stretch` of the timeline: items from some position up,
  newest first, that lie below the first one it may see. The invariant names the
  end of each: what the client got reaches down to its cursor (`GotInv`), what the
  handler has in hand goes on from the request's cursor to the one behind its page
  (`HandInv`), and everything wanted above these ends is in them or is exempt
  (`GotComplete`, `HandComplete`). A cursor is the last item of a page, shown or
  not, so a page without a visible item still moves the end. `PoolInv` says that
  each slot of the pool is empty or has its own item, whatever the order in which
  goroutines finish, and `ControlInv` what is in hand at each step of the handler.
  That a filter (`Kept`) keeps order and exactly the items of a set is proved over
  the positions of a sequence: the positions at which it could fail have a least
  one.
- `ProcessProofs`, the rate limiter: `TotalsExact`, `LocksEnd`, `BudgetHolds`, for any
  clients, budgets, windows, intervals and sizes of the cache, any number of requests
  that overlap, and any time for which they are held back. None of the three
  properties is inductive, and they need each other. A total on which no calls raced
  is exact (`Exact`) only while it does not leave the range of its type, and it stays
  there because a limiter that is locked has no more requests pending than workers
  (`Room`); with the `Pending` requests counted, each charge uses up the room of one
  request. Nothing is said of the total of a limiter on which calls raced; what is
  used of it is only that it is locked or not, so that `LocksEnd` holds for it as well. A
  lock ends because of when drain looked at the limiter: `BoundInv` bounds the age
  of the lock by what drain has noted and the time until its next look, before and
  after its visit in a round. Notes outlive the limiter they were taken of, when
  another client evicts it, so `LockInv` keeps those apart (`stale`): a note that is
  not stale is about a limiter that was locked all along and not charged since.
  That is why a replaced limiter's log is empty, so that replacing it gives nobody a
  new budget, and `ChargeInv` says that an entry of the cache outlives what is in its
  log, so that expiry does not either: a request renewed the entry no longer ago than
  it has been held (`CacheInv`). Sums over the window are recursive functions;
  what charging and ageing do to one is proved by the least partial sum for which it
  would be wrong (`UpTo`).
- `StatusesProofs`: `ServerFollowsMember`, `NodeFollowsActors`,
  `RedeliveryAddsNoRow`, `HandedOutUrlsResolve`, `RepliesReadBackDedupe`, for any
  actors, notes and tweets and any number of operations, redeliveries and faults.
  An activity under way for a thing that is not exempt asks for what is wanted now
  (`AgreeInv`), and every difference between what is wanted and what the server or
  the node records has an activity under way that removes it (`ServerInv`,
  `NodeInv`). A row is determined by its thing (`RowsInv`), hence one row per note.
  The urls need no induction of their own: a url and its status determine each
  other (`LocalURLs`), and what the server has of the member was sent under them.

Assumptions. The constants of every module have their types. Beyond that,
`RoomAssumption` is a condition on the environment as described.
`RateAssumption` has an entry live longer than a window and the time for which
`Limit` may hold a request back (5 minutes against 60 seconds and that), and `WordAssumption` has the library's `uint32`
hold a budget and one heaviest request per worker beyond it, which the code's
budgets leave room for up to 536 million requests served at one time.
`ValuesAssumption`, `TweetsAssumption`, `NobodyAssumption` and the clause of
`TimelineAssumption` about `NoCursor` only keep values
apart that are of different types in the code: no value from values, members from
Fediverse actors, urls of this gateway from those of other servers. TLC evaluates
all of them in the runs.

The type invariants, `OnlyLoggedLines`, `InFlightAccounting` and
`FailedMeansAllTried` are proved and not run as well.

Every inductive invariant was checked by TLC, on the instance of its component's
run, before it was proved.

Every invariant that a passing run checks is a theorem. Only model-checked are
the properties over whole behaviours: `OnlyTornFileStopsStarts`,
`HealthyAnswers`, `OnlySilentPeersLeak`, `NewPostFederated`, `FollowedIsFederated`,
`UnfollowedIsStopped`, `KnownConverges`, `PoolServesEveryone`, `OwnerConverges`,
`OwnerAnswers`, `RequestsRecover`, `EveryCallerReturns` and `WalkEnds`. They say
that something happens in the end, under fairness, and fairness and ENABLED are
out of the prover's reach. That includes all of `NodeClient`, whose properties are
about what the cache and the list of members come to.

## Not modelled

- Mapping and rendering: `mastodon-map.go`, `activitypub.go`, `badge.go`,
  `mediaproxy.go`, the reads of profiles, single statuses and counts in
  `mastodon-bridge.go`, and the endpoints of `server.go` other than statuses and
  the outbox. They translate one document into another, field by field, and keep
  nothing; a model would repeat them.
- `followers.go`: a map behind a mutex, used only by a process that could not join
  Warpnet and so federates nothing.
- libp2p, the DHT and stream framing are I/O; joining and a stream to a member are
  one step each, with their outcomes. Signature cryptography is a verdict.
- The sliding-window library, the LRU, singleflight, the file system, Warpnet
  nodes and Fediverse servers are external and modelled from how the code uses
  them.
- A post can reach followers by the poller and by the route that announces it;
  both send the same activity id, which servers deduplicate, so the model has only
  the poller.

## Plan

Done, in this order: log ring, hedged request, pollers, federation, inbox, rate
limiter, node client, signed GET, interactions; then the process with its key, the
urls of statuses and the bridge's reads; proofs for the log ring, the process, the
hedged request, the federation, the two pollers, the inbox, signed GET, and the
interactions with the urls; then for the rate limiter and the bridge's reads.

Where the model could grow:

1. An abstract specification of a follower's relationship (none, accepted,
   listed, left) that `Inbox` implements, with the refinement proved from
   `Agreement`.
2. The policy of `verifyRequest` (date, digest, signed headers) as an operator,
   checked against the statement that everything the handler uses is bound.
