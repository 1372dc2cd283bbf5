---------------------------- MODULE FollowPoller ----------------------------
(***************************************************************************)
(* The poller that federates one user's outbound follows (outbound.go,     *)
(* followPoller): it reads the owner's followings, resolves the bridged    *)
(* ones to actor urls, and delivers a Follow for every actor that appeared *)
(* and an Undo(Follow) for every actor that disappeared since the last     *)
(* read.  Deliveries are made one after the other and are never retried.   *)
(*                                                                         *)
(* A read asks GET_FOLLOWINGS once, without a cursor: it returns the first *)
(* page of the owner's followings, and which of them that is, when they do *)
(* not fit, is up to the node.  Or the read fails; or, with the owner's    *)
(* node unreachable, another node answers with an empty list; or some      *)
(* followings do not resolve and are left out.                             *)
(***************************************************************************)
EXTENDS Naturals, FiniteSets

CONSTANTS Actor,          \* accounts
          Bridged,        \* those of the Fediverse; the others are on Warpnet
          PageSize,       \* the followings a node puts on a page
          Faults,         \* what may go wrong: read, other, resolve, deliver
          MaxFaults,      \* bound: polls and deliveries that go wrong
          MaxChanges,     \* bound: follows and unfollows of the owner
          MaxRestarts     \* bound: restarts of the poller

ASSUME FollowAssumption ==
    /\ IsFiniteSet(Actor) /\ Bridged \subseteq Actor
    /\ PageSize \in Nat \ {0}
    /\ Faults \subseteq {"read", "other", "resolve", "deliver"}
    /\ MaxFaults \in Nat /\ MaxChanges \in Nat /\ MaxRestarts \in Nat

VARIABLES
    following,   \* whom the owner follows, on the owner's node
    baselined,   \* is known not nil?
    known,       \* the actors already federated; {} while nil
    current,     \* what the poll in progress read
    toFollow,    \* actors this poll still has to deliver a Follow to
    toUndo,      \* actors this poll still has to deliver an Undo to
    busy,        \* is a poll delivering?
    faults, changes, restarts,   \* how often the environment interfered
    blips,       \* history: what went wrong, with "baseline" for an answer of
                 \* another node to the first read and "page" for a read of
                 \* followings that do not fit on a page
    missed,      \* history: the actors whose last delivery failed
    peer,        \* history: what this poller's deliveries told each actor's
                 \* instance: none, following or undone
    since,       \* history: whom the owner followed since the first read
    wrongUndo,   \* history: actors undone though the read found them followed
    replayed     \* history: actors followed though the follow is older than
                 \* the first read

environment == <<faults, blips, changes, restarts>>
history == <<missed, peer, since, wrongUndo, replayed>>
faultLog == <<faults, blips>>
vars == <<following, baselined, known, current, toFollow, toUndo, busy,
          environment, history>>

Init ==
    /\ following \in SUBSET Actor
    /\ baselined = FALSE
    /\ known = {} /\ current = {} /\ toFollow = {} /\ toUndo = {}
    /\ busy = FALSE
    /\ faults = 0 /\ blips = {} /\ changes = 0 /\ restarts = 0
    /\ missed = {}
    /\ peer = [a \in Bridged |-> "none"]
    /\ since = {} /\ wrongUndo = {} /\ replayed = {}

(* Something of the kind k goes wrong and is remembered as b. *)
Fault(k, b) ==
    /\ k \in Faults /\ faults < MaxFaults
    /\ faults' = faults + 1
    /\ blips' = blips \cup {b}

-----------------------------------------------------------------------------
(* The owner follows and unfollows on Warpnet. *)
Follow(a) ==
    /\ changes < MaxChanges
    /\ changes' = changes + 1
    /\ a \notin following
    /\ following' = following \cup {a}
    /\ since' = since \cup {a}
    /\ UNCHANGED <<baselined, known, current, toFollow, toUndo, busy, faultLog,
                   restarts, missed, peer, wrongUndo, replayed>>

Unfollow(a) ==
    /\ changes < MaxChanges
    /\ changes' = changes + 1
    /\ a \in following
    /\ following' = following \ {a}
    /\ UNCHANGED <<baselined, known, current, toFollow, toUndo, busy, faultLog,
                   restarts, history>>

-----------------------------------------------------------------------------
(* What poll does with the set it read: the first read is the baseline; an *)
(* empty one after a non-empty one is skipped; otherwise the differences   *)
(* are delivered.  missing holds the followings the read left out.         *)

(* Without the guard against an empty read. *)
DiffAlways(read, missing) ==
    IF ~baselined
      THEN /\ baselined' = TRUE
           /\ known' = read
           /\ since' = {}
           /\ UNCHANGED <<current, toFollow, toUndo, busy, missed, peer,
                          wrongUndo, replayed>>
      ELSE /\ current' = read
           /\ toFollow' = read \ known
           /\ toUndo' = known \ read
           /\ wrongUndo' = wrongUndo \cup ((known \ read) \cap missing)
           /\ replayed' = replayed \cup ((read \ known) \ since)
           /\ busy' = TRUE
           /\ UNCHANGED <<baselined, known, missed, peer, since>>

(* The first read is delivered like any other. *)
DiffNoBaseline(read, missing) ==
    /\ baselined' = TRUE
    /\ current' = read
    /\ toFollow' = read \ known
    /\ toUndo' = known \ read
    /\ wrongUndo' = wrongUndo \cup ((known \ read) \cap missing)
    /\ since' = IF baselined THEN since ELSE {}
    /\ replayed' = replayed \cup ((read \ known) \ since')
    /\ busy' = TRUE
    /\ UNCHANGED <<known, missed, peer>>

Diff(read, missing) ==
    IF ~baselined
      THEN /\ baselined' = TRUE
           /\ known' = read
           /\ since' = {}
           /\ UNCHANGED <<current, toFollow, toUndo, busy, missed, peer,
                          wrongUndo, replayed>>
      ELSE IF read = {} /\ known # {}
        THEN UNCHANGED <<baselined, known, current, toFollow, toUndo, busy, history>>
        ELSE /\ current' = read
             /\ toFollow' = read \ known
             /\ toUndo' = known \ read
             /\ wrongUndo' = wrongUndo \cup ((known \ read) \cap missing)
             /\ replayed' = replayed \cup ((read \ known) \ since)
             /\ busy' = TRUE
             /\ UNCHANGED <<baselined, known, missed, peer, since>>

(* What a node may put on the first page of the followings F. *)
Pages(F) == IF Cardinality(F) <= PageSize
              THEN {F}
              ELSE {page \in SUBSET F : Cardinality(page) = PageSize}

cut == IF Cardinality(following) <= PageSize THEN {} ELSE {"page"}

(* The owner's node answers with a page and every bridged handle on it     *)
(* resolves.                                                               *)
PollOk ==
    /\ ~busy
    /\ \E page \in Pages(following) :
         Diff(page \cap Bridged, (following \ page) \cap Bridged)
    /\ blips' = blips \cup cut
    /\ UNCHANGED <<following, faults, changes, restarts>>

(* The request fails or the node answers with an error: nothing changes.   *)
PollFails ==
    /\ ~busy
    /\ Fault("read", "read")
    /\ UNCHANGED <<following, baselined, known, current, toFollow, toUndo, busy,
                   changes, restarts, history>>

(* Another node answers: it knows none of the owner's followings. *)
PollOther ==
    /\ ~busy
    /\ Fault("other", IF baselined THEN "other" ELSE "baseline")
    /\ Diff({}, following \cap Bridged)
    /\ UNCHANGED <<following, changes, restarts>>

(* Some handles do not resolve and are left out of the read. *)
PollUnresolved(lost) ==
    /\ ~busy
    /\ "resolve" \in Faults /\ faults < MaxFaults
    /\ faults' = faults + 1
    /\ blips' = blips \cup cut \cup {"resolve"}
    /\ lost \subseteq Bridged /\ lost # {}
    /\ \E page \in Pages(following) :
         /\ lost \subseteq page
         /\ Diff((page \cap Bridged) \ lost,
                 (following \cap Bridged) \ (page \ lost))
    /\ UNCHANGED <<following, changes, restarts>>

-----------------------------------------------------------------------------
(* deliverFollow: one attempt; a failure is logged and forgotten. *)
DeliverFollow(a) ==
    /\ busy /\ a \in toFollow
    /\ toFollow' = toFollow \ {a}
    /\ \/ /\ peer' = [peer EXCEPT ![a] = "following"]
          /\ missed' = missed \ {a}
          /\ UNCHANGED faultLog
       \/ /\ Fault("deliver", "deliver")
          /\ missed' = missed \cup {a}
          /\ UNCHANGED peer
    /\ UNCHANGED <<following, baselined, known, current, toUndo, busy, changes,
                   restarts, since, wrongUndo, replayed>>

(* The loop over the actors that are gone comes after the other one. *)
DeliverUndo(a) ==
    /\ busy /\ toFollow = {} /\ a \in toUndo
    /\ toUndo' = toUndo \ {a}
    /\ \/ /\ peer' = [peer EXCEPT ![a] = "undone"]
          /\ missed' = missed \ {a}
          /\ UNCHANGED faultLog
       \/ /\ Fault("deliver", "deliver")
          /\ missed' = missed \cup {a}
          /\ UNCHANGED peer
    /\ UNCHANGED <<following, baselined, known, current, toFollow, busy, changes,
                   restarts, since, wrongUndo, replayed>>

(* The poll keeps the old set. *)
PollDoneKeepsKnown ==
    /\ busy /\ toFollow = {} /\ toUndo = {}
    /\ busy' = FALSE
    /\ UNCHANGED <<following, baselined, known, current, toFollow, toUndo,
                   environment, history>>

(* The poll only adds to the old set. *)
PollDoneMerges ==
    /\ busy /\ toFollow = {} /\ toUndo = {}
    /\ known' = known \cup current
    /\ busy' = FALSE
    /\ UNCHANGED <<following, baselined, current, toFollow, toUndo,
                   environment, history>>

PollDone ==
    /\ busy /\ toFollow = {} /\ toUndo = {}
    /\ known' = current
    /\ busy' = FALSE
    /\ UNCHANGED <<following, baselined, current, toFollow, toUndo,
                   environment, history>>

(* The gateway restarts: the next poller begins with no baseline, and what *)
(* was not yet delivered never will be.                                    *)
Restart ==
    /\ restarts < MaxRestarts
    /\ restarts' = restarts + 1
    /\ baselined' = FALSE /\ busy' = FALSE
    /\ known' = {} /\ current' = {} /\ toFollow' = {} /\ toUndo' = {}
    /\ missed' = {}
    /\ peer' = [a \in Bridged |-> "none"]
    /\ since' = {}
    /\ UNCHANGED <<following, faultLog, changes, wrongUndo, replayed>>

Next == \/ \E a \in Actor : Follow(a) \/ Unfollow(a)
        \/ \E a \in Bridged : DeliverFollow(a) \/ DeliverUndo(a)
        \/ PollOk \/ PollFails \/ PollOther \/ PollDone
        \/ \E lost \in SUBSET Bridged : PollUnresolved(lost)
        \/ Restart

(* The poller's goroutine runs, deliveries return within their timeout,    *)
(* and among the polls there are always more that succeed.                 *)
Fairness ==
    /\ SF_vars(PollOk) /\ WF_vars(PollDone)
    /\ \A a \in Bridged : WF_vars(DeliverFollow(a)) /\ WF_vars(DeliverUndo(a))

Spec == Init /\ [][Next]_vars

FairSpec == Spec /\ Fairness

-----------------------------------------------------------------------------
(* Between polls, what the poller told the instances agrees with what it    *)
(* believes to have federated: no known actor was last sent an Undo, no     *)
(* other one a Follow, except for actors whose last delivery failed: that   *)
(* one is never made good, only overtaken by the next change.               *)
PeersMatchKnown ==
    (baselined /\ ~busy) =>
        \A a \in Bridged \ missed : /\ a \in known => peer[a] # "undone"
                                    /\ a \notin known => peer[a] # "following"

(* While the owner's followings fit on a page and the handles resolve, no   *)
(* Undo is planned for an actor the owner followed when the list was read:  *)
(* not when other nodes answer for the owner's, not after failures and      *)
(* restarts.  A following that is shifted off the page is undone.           *)
UndoOnlyIfUnfollowed == blips \cap {"page", "resolve"} = {} => wrongUndo = {}

(* "The first poll only records a baseline (history isn't replayed)": no    *)
(* Follow is planned for a follow older than the first read, when that read *)
(* was the owner's, its followings have fitted on a page since and handles  *)
(* resolve.  An old following that moves onto the page is delivered.        *)
HistoryNotReplayed ==
    blips \cap {"baseline", "page", "resolve"} = {} => replayed = {}

(* Once the owner's followings settle on a set that fits on a page and has  *)
(* bridged actors, the poller ends up with exactly those, whatever failed   *)
(* or was cut off before.                                                   *)
KnownConverges ==
    \A S \in SUBSET Actor :
        (Cardinality(S) <= PageSize /\ S \cap Bridged # {})
            => (<>[](following = S) => <>[](known = S \cap Bridged))
=============================================================================
