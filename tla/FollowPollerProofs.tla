------------------------- MODULE FollowPollerProofs -------------------------
(***************************************************************************)
(* For every set of actors and any number of changes, faults and restarts: *)
(* what the follow poller tells the instances agrees with what it knows,   *)
(* no Undo is planned for a follow the owner has, and history is not       *)
(* replayed, under the provisos these properties name.                     *)
(*                                                                         *)
(* None of them is inductive alone.  The first needs what was delivered in *)
(* the middle of a poll (Delivered), the last that every following which   *)
(* the poller does not know is younger than its baseline (Younger).        *)
(***************************************************************************)
EXTENDS FollowPoller, TLAPS

Sets ==
    /\ following \subseteq Actor
    /\ known \subseteq Bridged /\ current \subseteq Bridged
    /\ toFollow \subseteq current \ known
    /\ toUndo \subseteq known \ current
    /\ ~baselined => known = {} /\ ~busy
    /\ ~busy => toFollow = {} /\ toUndo = {}
    /\ peer \in [Bridged -> {"none", "following", "undone"}]

(* What an actor was told last, between two polls and in the middle of one: *)
(* a delivery that is still to come has not been made.                      *)
Delivered ==
    \A a \in Bridged \ missed :
        /\ ~baselined => peer[a] = "none"
        /\ ~busy /\ a \in known => peer[a] # "undone"
        /\ ~busy /\ a \notin known => peer[a] # "following"
        /\ a \in toFollow => peer[a] # "following"
        /\ a \in toUndo => peer[a] # "undone"
        /\ busy /\ a \in current \ toFollow => peer[a] # "undone"
        /\ busy /\ a \notin current \cup toUndo => peer[a] # "following"

(* A following that the poller does not know, or will not know after this  *)
(* poll, came after the baseline.                                          *)
Younger ==
    blips \cap {"baseline", "page", "resolve"} = {} =>
        /\ replayed = {}
        /\ baselined => (following \cap Bridged) \ known \subseteq since
        /\ busy => (following \cap Bridged) \ current \subseteq since

FInv == Sets /\ Delivered /\ UndoOnlyIfUnfollowed /\ Younger

(* A poller that has not polled satisfies it. *)
LEMMA InitInv == Init => FInv
  BY DEF Init, FInv, Sets, Delivered, UndoOnlyIfUnfollowed, Younger

(* What a poll plans from the answer of the owner's node, with the actors  *)
(* missing from it.                                                        *)
LEMMA DiffSets ==
    ASSUME Sets, ~busy, NEW read \in SUBSET Bridged, NEW missing, Diff(read, missing),
           UNCHANGED following
    PROVE  Sets'
<1> USE DEF Sets
<1>1. CASE ~baselined
  BY <1>1 DEF Diff
<1>2. CASE baselined /\ read = {} /\ known # {}
  BY <1>2 DEF Diff, history
<1>3. CASE baselined /\ ~(read = {} /\ known # {})
  BY <1>3 DEF Diff
<1> QED
  BY <1>1, <1>2, <1>3

(* Nothing is delivered by planning. *)
LEMMA DiffDelivered ==
    ASSUME Sets, Delivered, ~busy, NEW read \in SUBSET Bridged, NEW missing,
           Diff(read, missing)
    PROVE  Delivered'
<1> USE DEF Delivered
<1>1. CASE ~baselined
  BY <1>1 DEF Diff, Sets
<1>2. CASE baselined /\ read = {} /\ known # {}
  BY <1>2 DEF Diff, history
<1>3. CASE baselined /\ ~(read = {} /\ known # {})
  BY <1>3 DEF Diff
<1> QED
  BY <1>1, <1>2, <1>3

-----------------------------------------------------------------------------
(* The owner's changes keep the invariant. *)
LEMMA OwnerInv ==
    ASSUME FInv, NEW a \in Actor, Follow(a) \/ Unfollow(a)
    PROVE  FInv'
<1>1. CASE Follow(a)
  BY <1>1 DEF FInv, Sets, Delivered, UndoOnlyIfUnfollowed, Younger, Follow, faultLog
<1>2. CASE Unfollow(a)
  BY <1>2 DEF FInv, Sets, Delivered, UndoOnlyIfUnfollowed, Younger, Unfollow, faultLog, history
<1> QED
  BY <1>1, <1>2

(* So does a poll that reads a page from the owner's node: the page holds  *)
(* all followings or the cut is on record.                                 *)
LEMMA PollOkInv ==
    ASSUME FInv, PollOk
    PROVE  FInv'
<1>1. PICK page \in Pages(following) :
             Diff(page \cap Bridged, (following \ page) \cap Bridged)
  BY DEF PollOk
<1>2. ~busy /\ UNCHANGED following /\ page \cap Bridged \in SUBSET Bridged
  BY DEF PollOk
<1>3. \/ page = following /\ blips' = blips
      \/ "page" \in blips'
  BY DEF PollOk, Pages, cut
<1>4. Sets' /\ Delivered'
  BY <1>1, <1>2, DiffSets, DiffDelivered DEF FInv
<1>5. CASE page = following /\ blips' = blips
  <2>1. UndoOnlyIfUnfollowed'
    BY <1>1, <1>5 DEF FInv, UndoOnlyIfUnfollowed, Diff, history
  <2>2. Younger'
    BY <1>1, <1>2, <1>5 DEF FInv, Sets, Younger, Diff, history
  <2> QED
    BY <1>4, <2>1, <2>2 DEF FInv
<1>6. CASE "page" \in blips'
  BY <1>4, <1>6 DEF FInv, UndoOnlyIfUnfollowed, Younger
<1> QED
  BY <1>3, <1>5, <1>6

(* A poll that fails changes nothing but the count of faults. *)
LEMMA PollFailsInv ==
    ASSUME FInv, PollFails
    PROVE  FInv'
  BY DEF FInv, Sets, Delivered, UndoOnlyIfUnfollowed, Younger, PollFails, Fault, history

(* A poll that another node answers: later polls skip its empty answer. *)
LEMMA PollOtherInv ==
    ASSUME FInv, PollOther
    PROVE  FInv'
<1>1. /\ ~busy /\ Diff({}, following \cap Bridged) /\ UNCHANGED following
      /\ blips \subseteq blips' /\ (~baselined => "baseline" \in blips')
  BY DEF PollOther, Fault
<1>2. Sets' /\ Delivered'
  BY <1>1, DiffSets, DiffDelivered DEF FInv
<1>3. UndoOnlyIfUnfollowed'
  BY <1>1 DEF FInv, UndoOnlyIfUnfollowed, Diff, history
<1>4. Younger'
  BY <1>1 DEF FInv, Sets, Younger, Diff, history
<1> QED
  BY <1>2, <1>3, <1>4 DEF FInv

(* A poll with handles that do not resolve, which the provisos name. *)
LEMMA PollUnresolvedInv ==
    ASSUME FInv, NEW lost \in SUBSET Bridged, PollUnresolved(lost)
    PROVE  FInv'
<1>1. PICK page \in Pages(following) :
             Diff((page \cap Bridged) \ lost, (following \cap Bridged) \ (page \ lost))
  BY DEF PollUnresolved
<1>2. /\ ~busy /\ UNCHANGED following /\ "resolve" \in blips'
      /\ (page \cap Bridged) \ lost \in SUBSET Bridged
  BY DEF PollUnresolved
<1>3. Sets' /\ Delivered'
  BY <1>1, <1>2, DiffSets, DiffDelivered DEF FInv
<1> QED
  BY <1>2, <1>3 DEF FInv, UndoOnlyIfUnfollowed, Younger

(* A delivery, made or failed. *)
LEMMA DeliverInv ==
    ASSUME FInv, NEW a \in Bridged, DeliverFollow(a) \/ DeliverUndo(a)
    PROVE  FInv'
<1>1. CASE DeliverFollow(a)
  BY <1>1 DEF FInv, Sets, Delivered, UndoOnlyIfUnfollowed, Younger, DeliverFollow, Fault, faultLog
<1>2. CASE DeliverUndo(a)
  BY <1>2 DEF FInv, Sets, Delivered, UndoOnlyIfUnfollowed, Younger, DeliverUndo, Fault, faultLog
<1> QED
  BY <1>1, <1>2

(* The end of a poll, and a restart. *)
LEMMA PollDoneInv ==
    ASSUME FInv, PollDone
    PROVE  FInv'
  BY DEF FInv, Sets, Delivered, UndoOnlyIfUnfollowed, Younger, PollDone, environment, history

LEMMA RestartInv ==
    ASSUME FInv, Restart
    PROVE  FInv'
  BY DEF FInv, Sets, Delivered, UndoOnlyIfUnfollowed, Younger, Restart, faultLog

(* Every step keeps the invariant. *)
LEMMA StepInv == FInv /\ [Next]_vars => FInv'
<1> SUFFICES ASSUME FInv, [Next]_vars PROVE FInv'
  OBVIOUS
<1>1. CASE Next
  BY <1>1, OwnerInv, PollOkInv, PollFailsInv, PollOtherInv, PollUnresolvedInv,
     DeliverInv, PollDoneInv, RestartInv DEF Next
<1>2. CASE UNCHANGED vars
  BY <1>2 DEF vars, environment, history, FInv, Sets, Delivered, UndoOnlyIfUnfollowed, Younger
<1> QED
  BY <1>1, <1>2

(* The poller's sets are of actors, a poll plans only what differs, and     *)
(* plans nothing while it is not delivering.                                *)
THEOREM PollerSafe == Spec => []FInv
  BY InitInv, StepInv, PTL DEF Spec

(* Between polls the instances were told what known says, but for actors    *)
(* whose last delivery failed.                                              *)
THEOREM PeersAgree == Spec => []PeersMatchKnown
<1>1. FInv => PeersMatchKnown
  BY DEF FInv, Delivered, PeersMatchKnown
<1> QED
  BY <1>1, PollerSafe, PTL

(* While the followings fit on a page and handles resolve, no Undo is       *)
(* planned for a follow the owner has.                                      *)
THEOREM UndoIsEarned == Spec => []UndoOnlyIfUnfollowed
<1>1. FInv => UndoOnlyIfUnfollowed
  BY DEF FInv
<1> QED
  BY <1>1, PollerSafe, PTL

(* No follow older than the baseline is delivered, when the baseline was    *)
(* the owner's, followings fit on a page and handles resolve.               *)
THEOREM NoReplay == Spec => []HistoryNotReplayed
<1>1. FInv => HistoryNotReplayed
  BY DEF FInv, Younger, HistoryNotReplayed
<1> QED
  BY <1>1, PollerSafe, PTL
=============================================================================
