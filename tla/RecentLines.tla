---------------------------- MODULE RecentLines ----------------------------
(***************************************************************************)
(* What the /logs endpoint of the gateway promises: the most recent Size   *)
(* log lines, oldest first.  LogRing implements it.                        *)
(***************************************************************************)
EXTENDS Naturals, Sequences

CONSTANTS Line,   \* formatted log lines
          Size    \* how many of them are kept

VARIABLE recent   \* the kept lines, oldest first

Init == recent = << >>

(* One more line is logged; when Size are already kept the oldest is lost. *)
Log(l) ==
    recent' = IF Len(recent) = Size
                THEN [i \in 1..Size |-> IF i = Size THEN l ELSE recent[i + 1]]
                ELSE [i \in 1..(Len(recent) + 1) |->
                        IF i = Len(recent) + 1 THEN l ELSE recent[i]]

(* The process ended; its successor starts with an empty log. *)
Clear == recent' = << >>

Next == Clear \/ \E l \in Line : Log(l)

Spec == Init /\ [][Next]_recent
=============================================================================
