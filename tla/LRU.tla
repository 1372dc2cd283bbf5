-------------------------------- MODULE LRU --------------------------------
(***************************************************************************)
(* Adding to an expirable.LRU (golang-lru), whose keys are listed from the *)
(* most to the least recent one.  An entry that has expired keeps its      *)
(* place until it is removed or is the one to make room; the modules that  *)
(* use the list pass over it, as Get, Peek and Keys do.                    *)
(***************************************************************************)
EXTENDS Naturals, SequencesExt

(* The place of x's entry in s; without one, the place that is free or     *)
(* that the least recent entry has to leave.                               *)
LRUPlace(s, x, size) ==
    IF Contains(s, x) THEN CHOOSE i \in 1..Len(s) : s[i] = x
    ELSE IF Len(s) < size THEN Len(s) + 1 ELSE size

(* LRU.Add: x becomes the most recent entry, and the entries before its    *)
(* place move down by one.                                                 *)
LRUAdd(s, x, size) ==
    LET p == LRUPlace(s, x, size)
    IN  [i \in 1..(IF p > Len(s) THEN p ELSE Len(s)) |->
            IF i = 1 THEN x ELSE IF i <= p THEN s[i - 1] ELSE s[i]]
=============================================================================
