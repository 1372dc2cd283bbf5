------------------------------ MODULE LogRing ------------------------------
(***************************************************************************)
(* The in-memory ring buffer of log lines (log-buffer.go).  Fire is the    *)
(* logrus hook every log statement of every goroutine calls; it holds the  *)
(* mutex for its whole body, so one call is one step.  lines() is what     *)
(* the /logs handler reads under the same mutex.  The ring lives in the    *)
(* memory of the process: every start of main() makes a new one.           *)
(*                                                                         *)
(* Go's buf[0 .. size-1] is the sequence buf[1 .. Size]; next keeps its    *)
(* zero-based value.                                                       *)
(***************************************************************************)
EXTENDS Naturals, Sequences

CONSTANTS Line,   \* formatted log lines
          Size    \* capacity of the ring

ASSUME SizeAssumption == Size \in Nat \ {0}

VARIABLES buf,    \* the storage; "" is a slot that was never written
          next,   \* index of the slot the next line goes to
          full    \* has the buffer wrapped at least once?

vars == <<buf, next, full>>

(* The zero value of a Go string. *)
Blank == ""

Init == /\ buf = [i \in 1..Size |-> Blank]
        /\ next = 0
        /\ full = FALSE

-----------------------------------------------------------------------------
(* Faulty variants of Fire and lines(), used only to show that the         *)
(* properties below tell them apart from the code.                         *)

(* A full buffer is returned in storage order. *)
linesUnrotated ==
    IF ~full THEN [i \in 1..next |-> buf[i]] ELSE buf

-----------------------------------------------------------------------------
Fire(line) ==
    /\ buf' = [buf EXCEPT ![next + 1] = line]
    /\ next' = (next + 1) % Size
    /\ full' = (full \/ next' = 0)

(* The process ended and with it the ring; the next one starts empty. *)
newLogRing ==
    /\ buf' = [i \in 1..Size |-> Blank]
    /\ next' = 0
    /\ full' = FALSE

Next == newLogRing \/ \E line \in Line : Fire(line)

Spec == Init /\ [][Next]_vars

-----------------------------------------------------------------------------
(* lines(): before the first wrap buf[:next]; afterwards the slots from    *)
(* next up to the end followed by the slots before next.                   *)
lines ==
    IF ~full
      THEN [i \in 1..next |-> buf[i]]
      ELSE [i \in 1..Size |-> IF i <= Size - next
                                THEN buf[next + i]
                                ELSE buf[i - (Size - next)]]

-----------------------------------------------------------------------------
(* Every slot read by lines() holds a logged line, and next stays inside   *)
(* the buffer.                                                             *)
TypeOK == /\ buf \in [1..Size -> Line \cup {Blank}]
          /\ next \in 0..(Size - 1)
          /\ full \in BOOLEAN

(* lines() never shows a slot that no Fire has written: before the wrap    *)
(* exactly the first next slots are written, afterwards all of them.       *)
OnlyLoggedLines == \A i \in 1..Size : (full \/ i <= next) => buf[i] \in Line

(* The ring implements the abstract log: read through lines(), every Fire  *)
(* appends its line and drops the oldest one only when Size are kept.      *)
Recent == INSTANCE RecentLines WITH recent <- lines
RefinesRecent == Recent!Spec

=============================================================================
