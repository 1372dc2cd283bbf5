--------------------------- MODULE ProcessProofs ---------------------------
(***************************************************************************)
(* What one process keeps in memory, and what outlives it.  First the log  *)
(* ring alone: for every capacity and every set of lines it implements the *)
(* abstract log of the Size most recent lines.  Then the process that      *)
(* keeps it: for every number of faults, every set of keys and every ring, *)
(* one key is used over all lives of the process, and /logs shows the most *)
(* recent lines of the current one.  Then the throttle that main() puts    *)
(* before its handlers: for every window, budget, cache size and set of    *)
(* clients its locks end, and where no calls of Limit overlap on a limiter *)
(* its total is exact and its client's budget holds.                       *)
(***************************************************************************)
EXTENDS Process, RateLimit, FiniteSetTheorems, WellFoundedInduction, TLAPS

-----------------------------------------------------------------------------
(* The log ring. *)

(* The remainder that Fire computes, as a case distinction the provers can *)
(* use.                                                                    *)
LEMMA NextIndex ==
    ASSUME next \in 0..(Size - 1)
    PROVE  (next + 1) % Size = IF next + 1 = Size THEN 0 ELSE next + 1
<1>1. CASE next + 1 = Size
  BY <1>1, SizeAssumption, SMT
<1>2. CASE next + 1 # Size
  BY <1>2, SizeAssumption, SMT
<1> QED
  BY <1>1, <1>2

(* The index never leaves the buffer, whatever goroutines log, and every   *)
(* slot lines() reads has been written by a Fire.                          *)
LRInv == TypeOK /\ OnlyLoggedLines

(* It holds of an empty ring. *)
LEMMA InitInv == Init => LRInv
<1> SUFFICES ASSUME Init PROVE LRInv
  OBVIOUS
<1>1. buf \in [1..Size -> Line \cup {Blank}] /\ full \in BOOLEAN
  BY DEF Init
<1>2. next \in 0..(Size - 1)
  BY SizeAssumption DEF Init
<1>3. \A i \in 1..Size : ~full /\ ~(i <= next)
  BY SizeAssumption DEF Init
<1> QED
  BY <1>1, <1>2, <1>3 DEF LRInv, TypeOK, OnlyLoggedLines

(* A Fire keeps it, with and without the wrap. *)
LEMMA FireInv ==
    ASSUME LRInv, NEW line \in Line, Fire(line)
    PROVE  LRInv'
<1> USE SizeAssumption DEF LRInv
<1>1. next' = IF next + 1 = Size THEN 0 ELSE next + 1
  BY NextIndex DEF TypeOK, Fire
<1>2. TypeOK'
  BY <1>1 DEF TypeOK, Fire
<1>3. OnlyLoggedLines'
  BY <1>1 DEF TypeOK, OnlyLoggedLines, Fire
<1> QED
  BY <1>2, <1>3

(* A new ring satisfies it as the first one did. *)
LEMMA NewRingInv == newLogRing => LRInv'
<1> SUFFICES ASSUME newLogRing PROVE LRInv'
  OBVIOUS
<1>1. (buf \in [1..Size -> Line \cup {Blank}] /\ full \in BOOLEAN)'
  BY DEF newLogRing
<1>2. next' \in 0..(Size - 1)
  BY SizeAssumption DEF newLogRing
<1>3. (\A i \in 1..Size : ~full /\ ~(i <= next))'
  BY SizeAssumption DEF newLogRing
<1> QED
  BY <1>1, <1>2, <1>3 DEF LRInv, TypeOK, OnlyLoggedLines

(* Spec keeps the index in range and shows only logged lines, for every    *)
(* Size.                                                                   *)
THEOREM RingSafe == Spec => [](TypeOK /\ OnlyLoggedLines)
<1>1. LRInv /\ [Next]_vars => LRInv'
  <2> SUFFICES ASSUME LRInv, [Next]_vars PROVE LRInv'
    OBVIOUS
  <2>1. CASE Next
    BY <2>1, FireInv, NewRingInv DEF Next
  <2>2. CASE UNCHANGED vars
    BY <2>2 DEF vars, LRInv, TypeOK, OnlyLoggedLines
  <2> QED
    BY <2>1, <2>2
<1> QED
  BY <1>1, InitInv, PTL DEF Spec, LRInv

(* One Fire is one append to the abstract log, read through lines().       *)
LEMMA FireIsLog ==
    ASSUME LRInv, NEW line \in Line, Fire(line)
    PROVE  Recent!Log(line)
<1> USE SizeAssumption
<1>0. /\ next \in 0..(Size - 1) /\ full \in BOOLEAN
      /\ buf \in [1..Size -> Line \cup {Blank}]
      /\ buf' = [buf EXCEPT ![next + 1] = line]
  BY DEF LRInv, TypeOK, Fire
<1>1. next' = IF next + 1 = Size THEN 0 ELSE next + 1
  BY NextIndex, <1>0 DEF Fire
<1>2. full' = (full \/ next' = 0)
  BY DEF Fire
<1>3. CASE ~full /\ next + 1 # Size
  <2>1. next' = next + 1 /\ ~full'
    BY <1>0, <1>1, <1>2, <1>3
  <2>2. Len(lines) = next
    BY <1>0, <1>3 DEF lines
  <2>3. lines' = [i \in 1..(next + 1) |-> IF i = next + 1 THEN line ELSE lines[i]]
    BY <1>0, <1>3, <2>1 DEF lines
  <2> QED
    BY <1>0, <2>2, <2>3 DEF Recent!Log
<1>4. CASE ~full /\ next + 1 = Size
  <2>1. next' = 0 /\ full'
    BY <1>0, <1>1, <1>2, <1>4
  <2>2. Len(lines) = next
    BY <1>0, <1>4 DEF lines
  <2>3. lines' = [i \in 1..(next + 1) |-> IF i = next + 1 THEN line ELSE lines[i]]
    BY <1>0, <1>4, <2>1 DEF lines
  <2> QED
    BY <1>0, <1>4, <2>2, <2>3 DEF Recent!Log
<1>5. CASE full
  <2>1. full'
    BY <1>2, <1>5
  <2>2. Len(lines) = Size
    BY <1>0, <1>5 DEF lines
  <2>3. lines' = [i \in 1..Size |-> IF i = Size THEN line ELSE lines[i + 1]]
    BY <1>0, <1>1, <1>5, <2>1 DEF lines
  <2> QED
    BY <1>0, <2>2, <2>3 DEF Recent!Log
<1> QED
  BY <1>0, <1>3, <1>4, <1>5

(* The ring buffer implements the log of the most recent Size lines, for   *)
(* every Size > 0, every interleaving of the goroutines that log and every *)
(* restart of the process.                                                 *)
THEOREM RingImplementsRecent == Spec => RefinesRecent
<1>1. Init => Recent!Init
  BY DEF Init, Recent!Init, lines
<1>2. LRInv /\ [Next]_vars => [Recent!Next]_lines
  <2> SUFFICES ASSUME LRInv, [Next]_vars PROVE [Recent!Next]_lines
    OBVIOUS
  <2>1. CASE Next
    <3>1. CASE newLogRing
      BY <3>1 DEF newLogRing, lines, Recent!Next, Recent!Clear
    <3>2. CASE \E line \in Line : Fire(line)
      BY <3>2, FireIsLog DEF Recent!Next
    <3> QED
      BY <2>1, <3>1, <3>2 DEF Next
  <2>2. CASE UNCHANGED vars
    BY <2>2 DEF vars, lines
  <2> QED
    BY <2>1, <2>2
<1> QED
  BY <1>1, <1>2, RingSafe, PTL DEF Spec, LRInv, RefinesRecent, Recent!Spec

-----------------------------------------------------------------------------
(* The process. *)

(* A process that has passed loadOrCreateKey holds the key of the file; one *)
(* inside it has found no file, and has left a torn one while it writes.    *)
PhaseInv ==
    /\ phase \in {"join", "serve"} => key \in Key /\ file = key
    /\ phase \in {"generate", "create"} => file = Absent
    /\ phase \in {"create", "write"} => key \in drawn
    /\ phase = "write" => file = Torn

(* Whatever was used is what the file holds, so the file that an operator   *)
(* removes, or that loadOrCreateKey creates, was never used.                *)
FileInv ==
    /\ file \in Key => file \in drawn
    /\ ~lostFile => \A k \in published : k = file

PInv == ProcTypeOK /\ PhaseInv /\ FileInv

(* It holds before the first start. *)
LEMMA ProcInitInv == ProcInit => PInv
  BY ProcessAssumption DEF ProcInit, PInv, ProcTypeOK, PhaseInv, FileInv, Phase

(* Every step of main(), the machine and the operator keeps it. *)
LEMMA ProcStepInv == PInv /\ [ProcNext]_allVars => PInv'
<1> SUFFICES ASSUME PInv, [ProcNext]_allVars PROVE PInv'
  OBVIOUS
<1> USE ProcessAssumption DEF PInv, ProcTypeOK, PhaseInv, FileInv, Phase
<1>1. CASE Start
  BY <1>1 DEF Start
<1>2. CASE FunnelUp
  BY <1>2 DEF FunnelUp, Fatal, Fault, Exit
<1>3. CASE ReadKey
  BY <1>3 DEF ReadKey, Fatal, Fault, Exit
<1>4. CASE GenerateKey
  BY <1>4 DEF GenerateKey, Fatal, Fault, Exit
<1>5. CASE CreateFile
  BY <1>5 DEF CreateFile, Fatal, Fault, Exit
<1>6. CASE WriteFile
  BY <1>6 DEF WriteFile, Fatal, Fault, Exit
<1>7. CASE Join
  BY <1>7 DEF Join, connectNetwork
<1>8. CASE UseKey
  BY <1>8 DEF UseKey
<1>9. CASE Log
  BY <1>9 DEF Log, procVars
<1>10. CASE ServeFails
  BY <1>10 DEF ServeFails, Fatal, Fault, Exit
<1>11. CASE Stop
  BY <1>11 DEF Stop, Fault, Exit
<1>12. CASE Crash
  BY <1>12 DEF Crash, Fault, Exit
<1>13. CASE Flush
  BY <1>13 DEF Flush
<1>14. CASE PowerLoss
  BY <1>14 DEF PowerLoss, Fault, Exit
<1>15. CASE RemoveFile
  BY <1>15 DEF RemoveFile
<1>16. CASE UNCHANGED allVars
  BY <1>16 DEF allVars
<1> QED
  BY <1>1, <1>2, <1>3, <1>4, <1>5, <1>6, <1>7, <1>8, <1>9, <1>10, <1>11, <1>12,
     <1>13, <1>14, <1>15, <1>16 DEF ProcNext

(* The flags stay Boolean. *)
LEMMA FlagsInv == Flags /\ [ProcNext]_allVars => Flags'
<1> SUFFICES ASSUME Flags, [ProcNext]_allVars PROVE Flags'
  OBVIOUS
<1>1. Exit => joined' \in BOOLEAN
  BY Zenon DEF Exit
<1>2. CASE Start \/ FunnelUp \/ ReadKey \/ GenerateKey
  BY <1>1, <1>2, Zenon DEF Start, FunnelUp, ReadKey, GenerateKey, Fatal, Flags
<1>3. CASE CreateFile \/ WriteFile \/ Join \/ UseKey \/ Log
  BY <1>1, <1>3, Zenon DEF CreateFile, WriteFile, Join, connectNetwork, UseKey, Log, Fatal, Flags, procVars
<1>4. CASE ServeFails \/ Stop \/ Crash \/ PowerLoss
  BY <1>1, <1>4, Zenon DEF ServeFails, Stop, Crash, PowerLoss, Fatal, Flags
<1>5. CASE Flush \/ RemoveFile
  BY <1>5, Zenon DEF Flush, RemoveFile, Flags
<1>6. CASE UNCHANGED allVars
  BY <1>6, Zenon DEF allVars, Flags
<1> QED
  BY <1>2, <1>3, <1>4, <1>5, <1>6 DEF ProcNext

(* The invariant of loadOrCreateKey over all lives of the process. *)
THEOREM ProcSafe == ProcSpec => [](PInv /\ Flags)
<1>1. ProcInit => Flags
  BY Zenon DEF ProcInit, Flags
<1> QED
  BY <1>1, ProcInitInv, ProcStepInv, FlagsInv, PTL DEF ProcSpec

(* The signing key never changes once it was used, unless a loss of power  *)
(* took the file (keys.go: "The key must be stable across restarts").      *)
THEOREM KeyIsStable == ProcSpec => []KeyStable
<1>1. PInv => KeyStable
  BY DEF PInv, FileInv, KeyStable
<1> QED
  BY <1>1, ProcSafe, PTL

(* A step of the process is a step of its ring, or leaves it alone. *)
LEMMA ProcStepIsRingStep == [ProcNext]_allVars => [Next]_vars
<1> SUFFICES ASSUME [ProcNext]_allVars PROVE [Next]_vars
  OBVIOUS
<1>1. Logs => Next
  BY DEF Logs, Next
<1>2. Exit => Next
  BY DEF Exit, Next
<1>3. UNCHANGED <<buf, next, full>> => UNCHANGED vars
  BY DEF vars
<1>4. CASE Start \/ FunnelUp \/ Join \/ Log
  BY <1>1, <1>2, <1>4 DEF Start, FunnelUp, Join, connectNetwork, Log, Fatal
<1>5. CASE ReadKey \/ GenerateKey
  BY <1>1, <1>2, <1>3, <1>5 DEF ReadKey, GenerateKey, Fatal
<1>6. CASE CreateFile \/ WriteFile
  BY <1>2, <1>3, <1>6 DEF CreateFile, WriteFile, Fatal
<1>7. CASE ServeFails \/ Stop \/ Crash \/ PowerLoss
  BY <1>2, <1>7 DEF ServeFails, Stop, Crash, PowerLoss, Fatal
<1>8. CASE UseKey \/ Flush \/ RemoveFile
  BY <1>3, <1>8 DEF UseKey, Flush, RemoveFile
<1>9. CASE UNCHANGED allVars
  BY <1>3, <1>9 DEF allVars
<1> QED
  BY <1>4, <1>5, <1>6, <1>7, <1>8, <1>9 DEF ProcNext

(* Over restarts too, /logs shows the most recent lines of the process     *)
(* that answers, and none of an earlier one.                               *)
THEOREM ProcessShowsRecent == ProcSpec => RefinesRecent
<1>1. ProcInit => Init
  BY DEF ProcInit
<1>2. ProcSpec => Spec
  BY <1>1, ProcStepIsRingStep, PTL DEF ProcSpec, Spec
<1> QED
  BY <1>2, RingImplementsRecent, PTL

-----------------------------------------------------------------------------
(* The throttle: sums over a log. *)

(* The order of the natural numbers as a relation, which is well founded.  *)
Less == {p \in Nat \X Nat : p[1] < p[2]}

LEMMA LessWF == IsWellFoundedOn(Less, Nat)
  BY NatLessThanWellFounded, Zenon DEF OpToRel, Less

(* Induction up to n, for a set: what holds 0 and with every number the    *)
(* next one holds them all.                                                *)
LEMMA UpTo ==
    ASSUME NEW n \in Nat, NEW S, 0 \in S, \A i \in 0..(n - 1) : i \in S => i + 1 \in S
    PROVE  0..n \subseteq S
<1> SUFFICES ASSUME (0..n) \ S # {} PROVE FALSE
  OBVIOUS
<1> DEFINE T == (0..n) \ S
<1>1. T \in SUBSET Nat /\ T # {}
  OBVIOUS
<1>2. \E x \in T : \A y \in T : ~(<<y, x>> \in Less)
  <2> HIDE DEF T
  <2> QED
    BY <1>1, LessWF, WFMin, Zenon
<1>3. PICK x \in T : \A y \in T : ~(<<y, x>> \in Less)
  BY <1>2
<1>4. x # 0 /\ x - 1 \in 0..(n - 1) /\ x = (x - 1) + 1 /\ x \notin S
  OBVIOUS
<1>5. x - 1 \notin S
  BY <1>4
<1>6. x - 1 \in T /\ <<x - 1, x>> \in Less
  BY <1>4, <1>5 DEF Less
<1> QED
  BY <1>3, <1>6

(* The partial sums of f up to k, as the recursion in Sum defines them.    *)
Sums(u, f, k) == u = [n \in 0..k |-> IF n = 0 THEN 0 ELSE u[n - 1] + f[n - 1]]

(* The recursion in Sum defines a function. *)
LEMMA SumsExist ==
    ASSUME NEW f
    PROVE  \E u : Sums(u, f, Window)
<1> DEFINE S == {k \in 0..Window : \E u : Sums(u, f, k)}
<1>1. 0 \in S
  <2>1. Sums([n \in 0..0 |-> 0], f, 0)
    BY DEF Sums
  <2> QED
    BY <2>1, RateAssumption
<1>2. ASSUME NEW k \in 0..(Window - 1), k \in S PROVE k + 1 \in S
  <2>1. PICK u : Sums(u, f, k)
    BY <1>2
  <2> DEFINE v == [n \in 0..(k + 1) |-> IF n = k + 1 THEN u[k] + f[k] ELSE u[n]]
  <2>2. \A n \in 0..k : u[n] = IF n = 0 THEN 0 ELSE u[n - 1] + f[n - 1]
    BY <2>1 DEF Sums
  <2>3. ASSUME NEW n \in 0..(k + 1)
        PROVE  v[n] = IF n = 0 THEN 0 ELSE v[n - 1] + f[n - 1]
    <3>1. CASE n = k + 1
      <4>1. n # 0 /\ n - 1 = k /\ k \in 0..(k + 1) /\ k # k + 1
        BY <3>1
      <4>2. v[n] = u[k] + f[k] /\ v[k] = u[k]
        BY <3>1, <4>1
      <4> QED
        BY <4>1, <4>2
    <3>2. CASE n # k + 1
      <4>1. n \in 0..k
        BY <3>2
      <4>2. n # 0 => n - 1 \in 0..(k + 1) /\ n - 1 # k + 1
        BY <4>1
      <4>3. v[n] = u[n] /\ (n # 0 => v[n - 1] = u[n - 1])
        BY <3>2, <4>2
      <4> HIDE DEF v
      <4> QED
        BY <2>2, <4>1, <4>3
    <3> QED
      BY <3>1, <3>2
  <2>4. Sums(v, f, k + 1)
    <3>1. v = [n \in 0..(k + 1) |-> v[n]]
      OBVIOUS
    <3> HIDE DEF v
    <3> QED
      BY <2>3, <3>1, Zenon DEF Sums
  <2>5. k + 1 \in 0..Window
    BY RateAssumption
  <2> QED
    BY <2>4, <2>5, Zenon
<1>3. 0..Window \subseteq S
  <2> HIDE DEF S
  <2> QED
    BY <1>1, <1>2, UpTo, RateAssumption
<1> QED
  BY <1>3, RateAssumption

(* Sum(f) is the last of the partial sums. *)
LEMMA SumIsLast ==
    ASSUME NEW f \in [Age -> Nat]
    PROVE  \E u : /\ u[0] = 0
                  /\ \A n \in 1..Window : u[n] = u[n - 1] + f[n - 1]
                  /\ u \in [0..Window -> Nat]
                  /\ Sum(f) = u[Window]
<1> DEFINE u == CHOOSE v : Sums(v, f, Window)
<1>1. Sums(u, f, Window)
  BY SumsExist, Zenon
<1>2. Sum(f) = u[Window]
  BY DEF Sum, Sums
<1> HIDE DEF u
<1>3. u[0] = 0 /\ \A n \in 1..Window : u[n] = u[n - 1] + f[n - 1]
  BY <1>1, RateAssumption DEF Sums
<1>4. u = [n \in 0..Window |-> u[n]]
  BY <1>1 DEF Sums
<1> DEFINE S == {n \in 0..Window : u[n] \in Nat}
<1>5. 0 \in S
  BY <1>3, RateAssumption
<1>6. ASSUME NEW i \in 0..(Window - 1), i \in S PROVE i + 1 \in S
  <2>1. i + 1 \in 1..Window /\ (i + 1) - 1 = i /\ i \in Age
    BY RateAssumption DEF Age
  <2>2. u[i + 1] = u[i] + f[i]
    BY <2>1, <1>3
  <2> QED
    BY <1>6, <2>1, <2>2
<1>7. 0..Window \subseteq S
  <2> HIDE DEF S
  <2> QED
    BY <1>5, <1>6, UpTo, RateAssumption
<1>8. u \in [0..Window -> Nat]
  BY <1>4, <1>7, Zenon
<1> QED
  BY <1>2, <1>3, <1>8

(* An empty log weighs nothing. *)
LEMMA SumOfNone == Sum([a \in Age |-> 0]) = 0
<1> DEFINE f == [a \in Age |-> 0]
<1>0. f \in [Age -> Nat]
  OBVIOUS
<1>1. PICK u : /\ u[0] = 0
               /\ \A n \in 1..Window : u[n] = u[n - 1] + f[n - 1]
               /\ u \in [0..Window -> Nat]
               /\ Sum(f) = u[Window]
  <2> HIDE DEF f
  <2> QED
    BY <1>0, SumIsLast
<1> DEFINE S == {n \in 0..Window : u[n] = 0}
<1>2. 0 \in S
  BY <1>1, RateAssumption
<1>3. ASSUME NEW i \in 0..(Window - 1), i \in S PROVE i + 1 \in S
  <2>1. i + 1 \in 1..Window /\ (i + 1) - 1 = i /\ i \in Age /\ i + 1 \in 0..Window /\ i \in 0..Window
    BY RateAssumption DEF Age
  <2>2. u[i + 1] = u[i] + f[i] /\ f[i] = 0
    BY <2>1, <1>1
  <2> QED
    BY <1>3, <2>1, <2>2
<1>4. 0..Window \subseteq S
  <2> HIDE DEF S
  <2> QED
    BY <1>2, <1>3, UpTo, RateAssumption
<1> QED
  BY <1>1, <1>4, RateAssumption

(* Sums are natural numbers. *)
LEMMA SumType ==
    ASSUME NEW f \in [Age -> Nat]
    PROVE  Sum(f) \in Nat
  BY SumIsLast, RateAssumption

(* What is charged now adds to the weight of the log. *)
LEMMA SumOfCharged ==
    ASSUME NEW f \in [Age -> Nat], NEW w \in Nat
    PROVE  /\ [f EXCEPT ![0] = @ + w] \in [Age -> Nat]
           /\ Sum([f EXCEPT ![0] = @ + w]) = Sum(f) + w
<1> DEFINE g == [f EXCEPT ![0] = @ + w]
<1>0. /\ g \in [Age -> Nat] /\ 0 \in Age /\ g[0] = f[0] + w
      /\ \A i \in Age : i # 0 => g[i] = f[i]
  BY RateAssumption DEF Age
<1> HIDE DEF g
<1>1. PICK u : /\ u[0] = 0
               /\ \A n \in 1..Window : u[n] = u[n - 1] + f[n - 1]
               /\ u \in [0..Window -> Nat]
               /\ Sum(f) = u[Window]
  BY SumIsLast
<1>2. PICK v : /\ v[0] = 0
               /\ \A n \in 1..Window : v[n] = v[n - 1] + g[n - 1]
               /\ v \in [0..Window -> Nat]
               /\ Sum(g) = v[Window]
  BY <1>0, SumIsLast
<1> DEFINE S == {n \in 0..Window : n = 0 \/ v[n] = u[n] + w}
<1>3. 0 \in S
  BY RateAssumption
<1>4. ASSUME NEW i \in 0..(Window - 1), i \in S PROVE i + 1 \in S
  <2>1. i + 1 \in 1..Window /\ (i + 1) - 1 = i /\ i \in Age /\ i + 1 \in 0..Window /\ i \in 0..Window
    BY RateAssumption DEF Age
  <2>2. u[i + 1] = u[i] + f[i] /\ v[i + 1] = v[i] + g[i]
    BY <2>1, <1>1, <1>2
  <2>3. u[i] \in Nat /\ f[i] \in Nat
    BY <1>1, <2>1
  <2>4. v[i + 1] = u[i + 1] + w
    BY <1>0, <1>1, <1>2, <1>4, <2>1, <2>2, <2>3
  <2> QED
    BY <2>1, <2>4
<1>5. 0..Window \subseteq S
  <2> HIDE DEF S
  <2> QED
    BY <1>3, <1>4, UpTo, RateAssumption
<1>6. v[Window] = u[Window] + w
  BY <1>5, RateAssumption
<1> QED
  BY <1>0, <1>1, <1>2, <1>6 DEF g

(* One unit later the oldest charge has left the window. *)
LEMMA SumOfLater ==
    ASSUME NEW f \in [Age -> Nat]
    PROVE  /\ Later(f) \in [Age -> Nat]
           /\ Sum(Later(f)) + f[Window - 1] = Sum(f)
<1> DEFINE g == Later(f)
<1>0. /\ g \in [Age -> Nat] /\ 0 \in Age /\ g[0] = 0 /\ Window - 1 \in Age
      /\ \A i \in Age : i # 0 => g[i] = f[i - 1]
  BY RateAssumption DEF Age, Later
<1> HIDE DEF g
<1>1. PICK u : /\ u[0] = 0
               /\ \A n \in 1..Window : u[n] = u[n - 1] + f[n - 1]
               /\ u \in [0..Window -> Nat]
               /\ Sum(f) = u[Window]
  BY SumIsLast
<1>2. PICK v : /\ v[0] = 0
               /\ \A n \in 1..Window : v[n] = v[n - 1] + g[n - 1]
               /\ v \in [0..Window -> Nat]
               /\ Sum(g) = v[Window]
  BY <1>0, SumIsLast
<1> DEFINE S == {n \in 0..Window : n = 0 \/ v[n] = u[n - 1]}
<1>3. 0 \in S
  BY RateAssumption
<1>4. ASSUME NEW i \in 0..(Window - 1), i \in S PROVE i + 1 \in S
  <2>1. i + 1 \in 1..Window /\ (i + 1) - 1 = i /\ i \in Age /\ i + 1 \in 0..Window /\ i \in 0..Window
    BY RateAssumption DEF Age
  <2>2. v[i + 1] = v[i] + g[i]
    BY <2>1, <1>2
  <2>3. CASE i = 0
    BY <1>0, <1>1, <1>2, <2>1, <2>2, <2>3
  <2>4. CASE i # 0
    <3>1. u[i] = u[i - 1] + f[i - 1] /\ v[i] = u[i - 1] /\ g[i] = f[i - 1]
      BY <1>0, <1>1, <1>4, <2>1, <2>4
    <3> QED
      BY <2>1, <2>2, <3>1
  <2> QED
    BY <2>3, <2>4
<1>5. 0..Window \subseteq S
  <2> HIDE DEF S
  <2> QED
    BY <1>3, <1>4, UpTo, RateAssumption
<1>6. Window \in 1..Window /\ Window \in 0..Window /\ Window # 0
  BY RateAssumption
<1>7. v[Window] = u[Window - 1] /\ u[Window] = u[Window - 1] + f[Window - 1]
  BY <1>1, <1>5, <1>6
<1> QED
  BY <1>0, <1>1, <1>2, <1>7 DEF g

-----------------------------------------------------------------------------
(* The weights. *)

(* Heaviest is one of the weights and bounds them all. *)
LEMMA HeaviestBounds ==
    /\ Heaviest \in Nat \ {0}
    /\ \A p \in Paths : requestWeight(p) \in 1..Heaviest
<1> DEFINE S == {requestWeight(p) : p \in Paths}
<1>1. \A p \in Paths : requestWeight(p) \in {1, 2, 4, 8}
  BY RateAssumption DEF requestWeight
<1>2. S # {} /\ S \subseteq {1, 2, 4, 8}
  BY <1>1, RateAssumption
<1> HIDE DEF S
<1>3. \E x \in S : \A y \in S : x >= y
  <2>1. CASE 8 \in S
    BY <1>2, <2>1
  <2>2. CASE 8 \notin S /\ 4 \in S
    BY <1>2, <2>2
  <2>3. CASE 8 \notin S /\ 4 \notin S /\ 2 \in S
    BY <1>2, <2>3
  <2>4. CASE 8 \notin S /\ 4 \notin S /\ 2 \notin S
    <3>1. S = {1}
      BY <1>2, <2>4
    <3> QED
      BY <3>1
  <2> QED
    BY <2>1, <2>2, <2>3, <2>4
<1>4. Heaviest = Max(S)
  BY DEF Heaviest, S
<1>5. Heaviest \in S /\ \A y \in S : Heaviest >= y
  BY <1>3, <1>4 DEF Max
<1>6. \A p \in Paths : requestWeight(p) \in S
  BY DEF S
<1>7. Heaviest \in {1, 2, 4, 8}
  BY <1>2, <1>5
<1>8. ASSUME NEW p \in Paths PROVE requestWeight(p) \in 1..Heaviest
  <2>1. requestWeight(p) \in {1, 2, 4, 8} /\ Heaviest >= requestWeight(p)
    BY <1>1, <1>5, <1>6
  <2> QED
    BY <1>7, <2>1
<1> QED
  BY <1>7, <1>8

(* The number of workers, and the weight of k requests. *)
LEMMA WorkerCount == Cardinality(Worker) \in Nat
  BY RateAssumption, FS_CardinalityType

LEMMA Loads ==
    /\ \A k \in Nat : k * Heaviest \in Nat
    /\ 0 * Heaviest = 0
    /\ \A k \in Nat : (k + 1) * Heaviest = k * Heaviest + Heaviest
    /\ \A k, m \in Nat : k <= m => k * Heaviest <= m * Heaviest
<1> DEFINE h == Heaviest
<1>1. h \in Nat
  BY HeaviestBounds
<1> HIDE DEF h
<1>2. \A k \in Nat : k * h \in Nat /\ (k + 1) * h = k * h + h
  BY <1>1
<1>3. 0 * h = 0
  BY <1>1
<1>4. ASSUME NEW k \in Nat, NEW m \in Nat, k <= m PROVE k * h <= m * h
  <2>1. m - k \in Nat /\ m = k + (m - k)
    BY <1>4
  <2>2. m * h = k * h + (m - k) * h /\ (m - k) * h \in Nat
    BY <1>1, <2>1
  <2> QED
    BY <1>1, <2>2
<1> QED
  BY <1>2, <1>3, <1>4 DEF h

-----------------------------------------------------------------------------
(* The cache. *)

(* Add makes c the first entry and, when c had one, evicts nobody. *)
LEMMA TouchedEntries ==
    ASSUME NEW c \in Client, lru \in Seq(Client), Len(lru) <= MaxLimiters
    PROVE  /\ Touched(c) \in Seq(Client)
           /\ Len(Touched(c)) <= MaxLimiters
           /\ c \in ToSet(Touched(c))
           /\ ToSet(Touched(c)) \subseteq ToSet(lru) \cup {c}
           /\ c \in ToSet(lru) => ToSet(lru) \subseteq ToSet(Touched(c))
<1> DEFINE p == LRUPlace(lru, c, MaxLimiters)
           n == IF p > Len(lru) THEN p ELSE Len(lru)
           t == Touched(c)
<1>1. /\ p \in 1..MaxLimiters /\ p <= Len(lru) + 1
      /\ c \in ToSet(lru) => p \in 1..Len(lru) /\ lru[p] = c
  BY RateAssumption DEF LRUPlace, Contains, ToSet
<1>2. t = [i \in 1..n |-> IF i = 1 THEN c ELSE IF i <= p THEN lru[i - 1] ELSE lru[i]]
  BY DEF Touched, LRUAdd
<1>3. n \in Nat /\ n >= 1 /\ n <= MaxLimiters
  BY <1>1, RateAssumption
<1> HIDE DEF p, t
<1>4. \A i \in 1..n : i # 1 => (i <= p => i - 1 \in 1..Len(lru)) /\ (~(i <= p) => i \in 1..Len(lru))
  BY <1>1
<1>5. \A i \in 1..n : t[i] \in Client /\ (t[i] = c \/ t[i] \in ToSet(lru))
  BY <1>2, <1>4 DEF ToSet
<1> HIDE DEF n
<1>6. t = [i \in 1..n |-> t[i]]
  BY <1>2
<1>7. t \in [1..n -> Client]
  BY <1>5, <1>6, Zenon
<1>8. t \in Seq(Client) /\ Len(t) = n /\ DOMAIN t = 1..n
  BY <1>3, <1>7
<1>9. t[1] = c /\ 1 \in 1..n
  BY <1>2, <1>3
<1>10. ASSUME c \in ToSet(lru), NEW i \in 1..Len(lru) PROVE lru[i] \in ToSet(t)
  <2>1. n = Len(lru) /\ p \in 1..Len(lru) /\ lru[p] = c
    BY <1>1, <1>10 DEF n
  <2>2. CASE i < p
    <3>1. i + 1 \in 1..n /\ t[i + 1] = lru[i]
      BY <1>2, <2>1, <2>2
    <3> QED
      BY <3>1, <1>8 DEF ToSet
  <2>3. CASE i = p
    BY <1>8, <1>9, <2>1, <2>3 DEF ToSet
  <2>4. CASE i > p
    <3>1. i \in 1..n /\ t[i] = lru[i]
      BY <1>2, <2>1, <2>4
    <3> QED
      BY <3>1, <1>8 DEF ToSet
  <2> QED
    BY <2>1, <2>2, <2>3, <2>4
<1> QED
  BY <1>3, <1>5, <1>8, <1>9, <1>10 DEF ToSet, t

-----------------------------------------------------------------------------
(* The invariant of the throttle.  The three properties are not inductive: *)
(* a total is exact only as long as it stays in range, it does so only     *)
(* because a locked limiter has few requests pending, a lock ends because  *)
(* of when drain looked at it and what it noted, and budgets hold because  *)
(* of what drain's notes and the entries' times to live say of the logs.   *)

(* A limiter, which has subtracted nothing that is not in its log, and a   *)
(* request that was let through.                                           *)
Limiter == [charged : [Age -> Nat], expired : Nat, total : Nat,
            due : Nat \cup {Never}, raced : BOOLEAN]
Sound == {l \in Limiter : Subtracted(l) <= l.expired}
Call == [step : {"global", "inGlobal", "client", "inClient"}, client : Client,
         weight : 1..Heaviest, orphan : BOOLEAN, held : 0..MaxHold]

RateTypeOK ==
    /\ global \in Sound /\ limiter \in [Client -> Sound]
    /\ lru \in Seq(Client) /\ Len(lru) <= MaxLimiters
    /\ ttl \in [Client -> 0..LimiterTTL]
    /\ call \in [Worker -> {Idle} \cup Call]
    /\ drainIn \in 0..DrainInterval /\ draining \in BOOLEAN
    /\ draining => drainIn = 0
    /\ visit \subseteq Client /\ present \subseteq Client /\ stale \subseteq Client
    /\ globalSince \in -1..Window /\ clientSince \in [Client -> -1..Window]
    /\ globalLocked \in -1..Overdue /\ locked \in [Client -> -1..Overdue]
    /\ spent \in [Client -> [Age -> Nat]]

(* The requests that will be charged to the limiter of c in the cache, and *)
(* to the global one.                                                      *)
Pending(c) == {w \in Worker : call[w] # Idle /\ call[w].client = c /\ ~call[w].orphan}
PendingGlobal == {w \in Worker : call[w].step \in {"global", "inGlobal"}}

(* Unless calls raced on l, its total is what its log holds, and k more    *)
(* requests fit into the budget and what may be charged beyond it.         *)
Exact(l) == ~l.raced => l.total + Subtracted(l) = Sum(l.charged) + l.expired
Room(l, budget, k) ==
    ~l.raced => l.total + k * Heaviest <= budget + Cardinality(Worker) * Heaviest

(* A client outside the cache has a new limiter, and a request that was    *)
(* let through renewed the entry no longer ago than it has been held.      *)
CacheInv ==
    \A c \in Client :
        /\ c \notin Cached => limiter[c] = newLimiter
        /\ \A w \in Pending(c) : c \in Cached /\ ttl[c] + call[w].held >= LimiterTTL

(* What a client was charged is in the log of its present limiter, however *)
(* often it was replaced, and an entry outlives what was charged.          *)
ChargeInv ==
    \A c \in Client :
        /\ Exact(limiter[c])
        /\ Room(limiter[c], ClientBudget, Cardinality(Pending(c)))
        /\ ~limiter[c].raced => spent[c] = limiter[c].charged
        /\ \A a \in Age : spent[c][a] > 0 => ttl[c] + a >= Window

(* The history of locks is right, and a client that drain has noted was    *)
(* not charged since, unless it is in stale.                               *)
LockInv ==
    \A c \in Client :
        /\ locked[c] # Never <=> IsLocked(limiter[c], ClientBudget)
        /\ clientSince[c] # Never /\ c \notin stale =>
              \A a \in Age : a < clientSince[c] => spent[c][a] = 0

(* How long a limiter may have been locked: before drain has looked at it  *)
(* in a round that is due in d, ...                                        *)
LockedBefore(lock, since, d) ==
    IF since = Never THEN lock + d <= DrainInterval
    ELSE /\ lock + d < Overdue
         /\ since < Window => lock <= since + DrainInterval

(* ... and after. *)
LockedAfter(lock, since) ==
    IF since = Never THEN lock <= 0
    ELSE lock <= since + DrainInterval /\ lock < Window + DrainInterval

BoundInv ==
    \A c \in Client :
        IF ~draining \/ c \in visit
          THEN LockedBefore(locked[c], clientSince[c], drainIn)
          ELSE IF c \in present THEN LockedAfter(locked[c], clientSince[c])
          ELSE locked[c] <= 0

GlobalInv ==
    /\ Exact(global)
    /\ Room(global, GlobalBudget, Cardinality(PendingGlobal))
    /\ globalLocked # Never <=> IsLocked(global, GlobalBudget)
    /\ IF draining THEN LockedAfter(globalLocked, globalSince)
       ELSE LockedBefore(globalLocked, globalSince, drainIn)

RateInv == RateTypeOK /\ CacheInv /\ ChargeInv /\ LockInv /\ BoundInv /\ GlobalInv

-----------------------------------------------------------------------------
(* A limiter. *)

(* The fields of a limiter, for the provers. *)
LEMMA SoundFields ==
    ASSUME NEW l \in Sound
    PROVE  /\ l.charged \in [Age -> Nat] /\ l.expired \in Nat /\ l.total \in Nat
           /\ l.due \in Nat \cup {Never} /\ l.raced \in BOOLEAN
           /\ Subtracted(l) \in Nat /\ Subtracted(l) <= l.expired
           /\ Sum(l.charged) \in Nat
<1>1. /\ l.charged \in [Age -> Nat] /\ l.expired \in Nat /\ l.total \in Nat
      /\ l.due \in Nat \cup {Never} /\ l.raced \in BOOLEAN /\ Subtracted(l) <= l.expired
  BY DEF Sound, Limiter
<1>2. Subtracted(l) \in Nat
  BY <1>1 DEF Subtracted
<1> QED
  BY <1>1, <1>2, SumType

(* A limiter is the record of its fields. *)
LEMMA SoundRecord ==
    ASSUME NEW l \in Sound
    PROVE  l = [charged |-> l.charged, expired |-> l.expired, total |-> l.total,
                due |-> l.due, raced |-> l.raced]
  BY DEF Sound, Limiter

(* A new limiter holds nothing. *)
LEMMA NewLimiter ==
    /\ newLimiter \in Sound
    /\ Exact(newLimiter)
    /\ newLimiter.total = 0 /\ newLimiter.expired = 0 /\ ~newLimiter.raced
    /\ newLimiter.charged = [a \in Age |-> 0]
  BY SumOfNone DEF newLimiter, Sound, Limiter, Subtracted, Exact

(* A locked limiter has been charged more than its budget, so a new one is *)
(* not locked.                                                             *)
LEMMA NewUnlocked ==
    ~IsLocked(newLimiter, ClientBudget) /\ ~IsLocked(newLimiter, GlobalBudget)
  BY NewLimiter, RateAssumption DEF IsLocked

(* The unsigned total stays a number when it wraps around. *)
LEMMA Wraps ==
    ASSUME NEW x \in Int
    PROVE  x % Word \in Nat /\ (x \in 0..(Word - 1) => x % Word = x)
<1>1. Word \in Nat /\ Word > 0
  <2>1. Cardinality(Worker) * Heaviest \in Nat
    BY Loads, WorkerCount
  <2> QED
    BY <2>1, WordAssumption, RateAssumption
<1> QED
  BY <1>1

(* The range of uint32 is not left while there is room. *)
LEMMA RoomInRange ==
    ASSUME NEW l \in Sound, NEW budget \in Nat, NEW k \in Nat,
           budget + Cardinality(Worker) * Heaviest < Word, Room(l, budget, k), ~l.raced
    PROVE  l.total + k * Heaviest < Word /\ k * Heaviest \in Nat
<1>1. k * Heaviest \in Nat /\ Cardinality(Worker) * Heaviest \in Nat /\ Word \in Nat
  BY Loads, WorkerCount, WordAssumption
<1>2. l.total \in Nat
  BY SoundFields
<1> QED
  BY <1>1, <1>2 DEF Room

(* A call of Limit that begins keeps the total exact, unless another one   *)
(* is under way.                                                           *)
LEMMA LimitBeginsKeeps ==
    ASSUME NEW l \in Sound, NEW budget \in Nat, NEW k \in Nat,
           budget + Cardinality(Worker) * Heaviest < Word,
           Exact(l), Room(l, budget, k)
    PROVE  /\ LimitBegins(l) \in Sound
           /\ Exact(LimitBegins(l)) /\ Room(LimitBegins(l), budget, k)
           /\ LimitBegins(l).charged = l.charged
           /\ ~LimitBegins(l).raced => ~l.raced
<1> DEFINE new == LimitBegins(l)
<1>1. /\ l.charged \in [Age -> Nat] /\ l.expired \in Nat /\ l.total \in Nat
      /\ l.due \in Nat \cup {Never} /\ l.raced \in BOOLEAN /\ Sum(l.charged) \in Nat
  BY SoundFields
<1>2. new = [charged |-> l.charged, expired |-> l.expired,
             total |-> (l.total - l.expired) % Word, due |-> l.expired,
             raced |-> l.raced \/ l.due # Never]
  <2> DEFINE c == l.charged
             e == l.expired
             t == l.total
             d == l.due
             r == l.raced
  <2>1. new = [[charged |-> c, expired |-> e, total |-> t, due |-> d, raced |-> r]
                 EXCEPT !.total = (t - e) % Word, !.due = e, !.raced = r \/ d # Never]
    BY SoundRecord DEF LimitBegins
  <2> HIDE DEF c, e, t, d, r
  <2>2. new = [charged |-> c, expired |-> e, total |-> (t - e) % Word, due |-> e,
               raced |-> r \/ d # Never]
    BY <2>1
  <2> QED
    BY <2>2 DEF c, e, t, d, r
<1> HIDE DEF new
<1>3. (l.total - l.expired) % Word \in Nat
  BY <1>1, Wraps
<1>4. Subtracted(new) = l.expired
  BY <1>1, <1>2 DEF Subtracted, Never
<1>5. new \in Sound
  BY <1>1, <1>2, <1>3, <1>4 DEF Sound, Limiter
<1>6. ASSUME ~new.raced
      PROVE  ~l.raced /\ new.total = l.total - l.expired /\ new.total = Sum(l.charged)
  <2>1. ~l.raced /\ l.due = Never
    BY <1>2, <1>6
  <2>2. l.total = Sum(l.charged) + l.expired
    BY <1>1, <2>1 DEF Exact, Subtracted
  <2>3. l.total < Word
    BY <1>1, <2>1, RoomInRange, WordAssumption
  <2>4. l.total - l.expired \in 0..(Word - 1)
    BY <1>1, <2>2, <2>3, WordAssumption
  <2> QED
    BY <1>1, <1>2, <2>1, <2>2, <2>4, Wraps
<1>7. Exact(new)
  BY <1>1, <1>2, <1>4, <1>6 DEF Exact
<1>8. Room(new, budget, k)
  <2>1. k * Heaviest \in Nat /\ Cardinality(Worker) * Heaviest \in Nat
    BY Loads, WorkerCount
  <2>2. ~new.raced => new.total <= l.total /\ new.total \in Nat
    BY <1>1, <1>6
  <2> QED
    BY <1>1, <1>6, <2>1, <2>2 DEF Room
<1> QED
  BY <1>2, <1>5, <1>6, <1>7, <1>8 DEF new

(* A call of Limit that ends keeps the total exact and takes the room of   *)
(* one request, unless calls raced.                                        *)
LEMMA LimitEndsKeeps ==
    ASSUME NEW l \in Sound, NEW weight \in 1..Heaviest, NEW budget \in Nat, NEW k \in Nat,
           budget + Cardinality(Worker) * Heaviest < Word,
           Exact(l), Room(l, budget, k + 1), NEW new \in LimitEnds(l, weight)
    PROVE  /\ new \in Sound /\ Exact(new) /\ Room(new, budget, k)
           /\ ~new.raced => ~l.raced /\ new.charged = [l.charged EXCEPT ![0] = @ + weight]
<1>1. /\ l.charged \in [Age -> Nat] /\ l.expired \in Nat /\ l.total \in Nat
      /\ l.due \in Nat \cup {Never} /\ l.raced \in BOOLEAN /\ Sum(l.charged) \in Nat
      /\ Subtracted(l) \in Nat /\ Subtracted(l) <= l.expired
  BY SoundFields
<1>2. weight \in Nat /\ Heaviest \in Nat /\ weight <= Heaviest
  BY HeaviestBounds
<1>3. PICK log \in [Age -> Nat], rest \in Nat :
        /\ new = [charged |-> [log EXCEPT ![0] = @ + weight], expired |-> rest,
                  total |-> (l.total + weight) % Word, due |-> Never, raced |-> l.raced]
        /\ ~l.raced => log = l.charged /\ rest = l.expired - Subtracted(l)
  <2> DEFINE kept == CutOffBefore(l)
             lost == [kept EXCEPT !.charged = newLimiter.charged, !.expired = 0]
             After(q) == [q EXCEPT !.charged[0] = @ + weight, !.total = (@ + weight) % Word]
  <2>1. kept = [charged |-> l.charged, expired |-> l.expired - Subtracted(l),
                total |-> l.total, due |-> Never, raced |-> l.raced]
    <3> DEFINE c == l.charged
               e == l.expired
               t == l.total
               d == l.due
               r == l.raced
               s == Subtracted(l)
    <3>1. kept = [[charged |-> c, expired |-> e, total |-> t, due |-> d, raced |-> r]
                    EXCEPT !.expired = e - s, !.due = Never]
      BY SoundRecord DEF CutOffBefore
    <3> HIDE DEF kept, c, e, t, d, r, s
    <3>2. kept = [charged |-> c, expired |-> e - s, total |-> t, due |-> Never,
                  raced |-> r]
      BY <3>1
    <3> QED
      BY <3>2 DEF c, e, t, d, r, s
  <2>2. lost = [charged |-> newLimiter.charged, expired |-> 0,
                total |-> l.total, due |-> Never, raced |-> l.raced]
    <3> DEFINE c == l.charged
               e == l.expired - Subtracted(l)
               t == l.total
               r == l.raced
               none == newLimiter.charged
    <3>1. lost = [[charged |-> c, expired |-> e, total |-> t, due |-> Never, raced |-> r]
                    EXCEPT !.charged = none, !.expired = 0]
      BY <2>1
    <3> HIDE DEF kept, lost, c, e, t, r, none
    <3>2. lost = [charged |-> none, expired |-> 0, total |-> t, due |-> Never,
                  raced |-> r]
      BY <3>1
    <3> QED
      BY <3>2 DEF t, r, none
  <2> HIDE DEF kept, lost
  <2>3. new = After(kept) \/ (l.raced /\ new = After(lost))
    BY DEF LimitEnds, kept, lost
  <2>4. l.expired - Subtracted(l) \in Nat /\ newLimiter.charged \in [Age -> Nat]
    BY <1>1, SoundFields, NewLimiter
  <2>5. CASE new = After(kept)
    <3>1. new = [charged |-> [l.charged EXCEPT ![0] = @ + weight],
                 expired |-> l.expired - Subtracted(l),
                 total |-> (l.total + weight) % Word, due |-> Never, raced |-> l.raced]
      BY <2>1, <2>5
    <3> QED
      BY <1>1, <2>4, <3>1
  <2>6. CASE l.raced /\ new = After(lost)
    <3>1. new = [charged |-> [newLimiter.charged EXCEPT ![0] = @ + weight], expired |-> 0,
                 total |-> (l.total + weight) % Word, due |-> Never, raced |-> l.raced]
      BY <2>2, <2>6
    <3> QED
      BY <2>4, <2>6, <3>1
  <2> QED
    BY <2>3, <2>5, <2>6
<1> DEFINE g == [log EXCEPT ![0] = @ + weight]
<1>4. g \in [Age -> Nat] /\ Sum(g) = Sum(log) + weight
  BY <1>2, SumOfCharged
<1>5. new.charged = g /\ new.expired = rest /\ new.total = (l.total + weight) % Word
      /\ new.due = Never /\ new.raced = l.raced
  BY <1>3
<1> HIDE DEF g
<1>6. Subtracted(new) = 0
  BY <1>5 DEF Subtracted
<1>7. new \in Sound
  <2>1. (l.total + weight) % Word \in Nat
    BY <1>1, <1>2, Wraps
  <2>2. new \in Limiter
    BY <1>1, <1>3, <1>4, <2>1 DEF Limiter, g
  <2> QED
    BY <1>5, <1>6, <2>2 DEF Sound
<1>8. ASSUME ~l.raced
      PROVE  /\ new.total = l.total + weight
             /\ new.total + k * Heaviest <= budget + Cardinality(Worker) * Heaviest
  <2> DEFINE load == k * Heaviest
             room == budget + Cardinality(Worker) * Heaviest
  <2>1. (k + 1) * Heaviest = load + Heaviest /\ load \in Nat
    BY Loads
  <2>2. room \in Nat /\ room < Word /\ Word \in Nat
    <3> DEFINE most == Cardinality(Worker) * Heaviest
    <3>1. most \in Nat
      BY Loads, WorkerCount
    <3> HIDE DEF most
    <3>2. room = budget + most /\ budget + most < Word
      BY DEF most
    <3> QED
      BY <3>1, <3>2, WordAssumption
  <2>3. l.total + (load + Heaviest) <= room
    BY <1>8, <2>1 DEF Room
  <2> HIDE DEF load, room
  <2>4. l.total + weight \in 0..(Word - 1) /\ l.total + weight + load <= room
    BY <1>1, <1>2, <2>1, <2>2, <2>3
  <2>5. new.total = l.total + weight
    BY <1>1, <1>2, <1>5, <2>4, Wraps
  <2> QED
    BY <2>4, <2>5 DEF load, room
<1>9. Exact(new)
  <2> SUFFICES ASSUME ~new.raced PROVE new.total + Subtracted(new) = Sum(new.charged) + new.expired
    BY DEF Exact
  <2>1. ~l.raced /\ new.total = l.total + weight
    BY <1>5, <1>8
  <2>2. l.total + Subtracted(l) = Sum(l.charged) + l.expired
    BY <2>1 DEF Exact
  <2>3. Sum(new.charged) = Sum(l.charged) + weight /\ new.expired = l.expired - Subtracted(l)
    BY <1>3, <1>4, <1>5, <2>1
  <2> QED
    BY <1>1, <1>2, <1>6, <2>1, <2>2, <2>3
<1>10. Room(new, budget, k)
  BY <1>5, <1>8 DEF Room
<1> QED
  BY <1>3, <1>5, <1>7, <1>9, <1>10 DEF g

(* What leaves the window is still counted until it is cut off. *)
LEMMA AgedKeepsTotal ==
    ASSUME NEW l \in Sound, Exact(l)
    PROVE  /\ Aged(l) \in Sound
           /\ Exact(Aged(l))
           /\ Aged(l).total = l.total /\ Aged(l).raced = l.raced
           /\ Aged(l).charged = Later(l.charged)
<1>1. /\ l.charged \in [Age -> Nat] /\ l.expired \in Nat /\ l.total \in Nat
      /\ l.due \in Nat \cup {Never} /\ l.raced \in BOOLEAN /\ Sum(l.charged) \in Nat
      /\ Subtracted(l) \in Nat /\ Subtracted(l) <= l.expired
      /\ Window - 1 \in Age
  BY SoundFields, RateAssumption DEF Age
<1>2. Aged(l) = [charged |-> Later(l.charged),
                 expired |-> l.expired + l.charged[Window - 1], total |-> l.total,
                 due |-> l.due, raced |-> l.raced]
  <2> DEFINE c == l.charged
             e == l.expired
             t == l.total
             d == l.due
             r == l.raced
             w == l.charged[Window - 1]
  <2>1. Aged(l) = [[charged |-> c, expired |-> e, total |-> t, due |-> d, raced |-> r]
                     EXCEPT !.charged = Later(@), !.expired = @ + w]
    BY SoundRecord DEF Aged
  <2> HIDE DEF c, e, t, d, r, w
  <2>2. Aged(l) = [charged |-> Later(c), expired |-> e + w, total |-> t, due |-> d,
                   raced |-> r]
    BY <2>1
  <2> QED
    BY <2>2 DEF c, e, t, d, r, w
<1>3. /\ Later(l.charged) \in [Age -> Nat] /\ Sum(Later(l.charged)) \in Nat
      /\ Sum(Later(l.charged)) + l.charged[Window - 1] = Sum(l.charged)
  BY <1>1, SumOfLater, SumType
<1>4. l.charged[Window - 1] \in Nat
  BY <1>1
<1>5. Subtracted(Aged(l)) = Subtracted(l)
  BY <1>2 DEF Subtracted
<1>6. Exact(Aged(l))
  BY <1>1, <1>2, <1>3, <1>4, <1>5 DEF Exact
<1>7. Aged(l) \in Limiter
  BY <1>1, <1>2, <1>3, <1>4 DEF Limiter
<1>8. Subtracted(Aged(l)) <= Aged(l).expired
  BY <1>1, <1>2, <1>4, <1>5
<1> QED
  BY <1>2, <1>6, <1>7, <1>8 DEF Sound

(* The pending requests are some of the workers. *)
LEMMA PendingCount ==
    ASSUME NEW S \in SUBSET Worker
    PROVE  /\ IsFiniteSet(S)
           /\ Cardinality(S) \in Nat /\ Cardinality(S) <= Cardinality(Worker)
           /\ \A w \in Worker \ S : /\ Cardinality(S \cup {w}) = Cardinality(S) + 1
                                    /\ Cardinality(S \cup {w}) <= Cardinality(Worker)
<1>1. ASSUME NEW T \in SUBSET Worker
      PROVE  IsFiniteSet(T) /\ Cardinality(T) \in Nat /\ Cardinality(T) <= Cardinality(Worker)
  BY RateAssumption, FS_Subset, FS_CardinalityType
<1>2. ASSUME NEW w \in Worker \ S PROVE Cardinality(S \cup {w}) = Cardinality(S) + 1
  BY <1>1, FS_AddElement
<1> QED
  BY <1>1, <1>2

(* A limiter that is not locked has room for all workers, and more room    *)
(* for fewer of them.                                                      *)
LEMMA UnlockedHasRoom ==
    ASSUME NEW l, l.total \in Nat, NEW budget \in Nat, NEW k \in 0..Cardinality(Worker),
           ~IsLocked(l, budget)
    PROVE  Room(l, budget, k)
<1>1. k * Heaviest \in Nat /\ Cardinality(Worker) * Heaviest \in Nat
      /\ k * Heaviest <= Cardinality(Worker) * Heaviest
  BY Loads, WorkerCount
<1> QED
  BY <1>1 DEF Room, IsLocked

LEMMA LessNeedsLessRoom ==
    ASSUME NEW l, l.total \in Nat, NEW budget \in Nat, NEW k \in Nat, NEW j \in 0..k,
           Room(l, budget, k)
    PROVE  Room(l, budget, j)
<1>1. /\ k * Heaviest \in Nat /\ j * Heaviest \in Nat
      /\ Cardinality(Worker) * Heaviest \in Nat /\ j * Heaviest <= k * Heaviest
  <2>1. j \in Nat /\ j <= k
    OBVIOUS
  <2> QED
    BY <2>1, Loads, WorkerCount
<1> QED
  BY <1>1 DEF Room

(* A limiter that holds nothing has room for all requests. *)
LEMMA NewHasRoom ==
    ASSUME NEW S \in SUBSET Worker
    PROVE  /\ Room(newLimiter, ClientBudget, Cardinality(S))
           /\ Room(newLimiter, GlobalBudget, Cardinality(S))
<1>1. Cardinality(S) \in 0..Cardinality(Worker)
  BY PendingCount, WorkerCount
<1> QED
  BY <1>1, NewLimiter, NewUnlocked, UnlockedHasRoom, RateAssumption

-----------------------------------------------------------------------------
(* The invariant holds initially, and every step keeps it. *)

(* Nothing is cached, locked or noted at the start. *)
LEMMA RateInitInv == RateInit => RateInv
<1> SUFFICES ASSUME RateInit PROVE RateInv
  OBVIOUS
<1>1. \A c \in Client : /\ limiter[c] = newLimiter /\ locked[c] = Never
                        /\ clientSince[c] = Never
                        /\ spent[c] = [a \in Age |-> 0] /\ Pending(c) = {}
  BY DEF RateInit, Pending
<1>2. RateTypeOK
  <2>1. /\ 0 \in 0..LimiterTTL /\ DrainInterval \in 0..DrainInterval /\ Never \in -1..Window
        /\ Never \in -1..Overdue /\ 0 <= MaxLimiters
    BY RateAssumption DEF Never, Overdue
  <2>2. lru \in Seq(Client) /\ Len(lru) <= MaxLimiters
    BY <2>1 DEF RateInit
  <2> QED
    BY <2>1, <2>2, NewLimiter DEF RateInit, RateTypeOK
<1>3. CacheInv
  BY <1>1 DEF CacheInv
<1>4. ChargeInv
  BY <1>1, NewLimiter, NewHasRoom DEF ChargeInv
<1>5. LockInv
  BY <1>1, NewUnlocked DEF LockInv
<1>6. BoundInv
  BY <1>1, RateAssumption DEF RateInit, BoundInv, LockedBefore, Never
<1>7. GlobalInv
  <2>1. PendingGlobal = {}
    BY DEF RateInit, PendingGlobal, Idle
  <2>2. Room(global, GlobalBudget, Cardinality(PendingGlobal))
    BY <2>1, NewHasRoom DEF RateInit
  <2> QED
    BY <2>2, NewLimiter, NewUnlocked, RateAssumption DEF RateInit, GlobalInv, LockedBefore, Never
<1> QED
  BY <1>2, <1>3, <1>4, <1>5, <1>6, <1>7 DEF RateInv

(* A request whose limiter leaves the cache is no longer pending for its   *)
(* client, and done unless it has to be charged to the global limiter;     *)
(* nothing else changes for it.                                            *)
LEMMA OrphanedCall ==
    ASSUME RateTypeOK, NEW S, NEW v \in Worker
    PROVE  /\ Orphaned(S)[v] \in {Idle} \cup Call
           /\ call[v] = Idle => Orphaned(S)[v] = Idle
           /\ Orphaned(S)[v].step \in {"global", "inGlobal"}
                 <=> call[v].step \in {"global", "inGlobal"}
           /\ Orphaned(S)[v] # Idle =>
                 /\ Orphaned(S)[v] \in Call /\ call[v] \in Call
                 /\ Orphaned(S)[v].client = call[v].client
                 /\ Orphaned(S)[v].held = call[v].held
           /\ Orphaned(S)[v] # Idle /\ ~Orphaned(S)[v].orphan
                 <=> call[v] # Idle /\ ~call[v].orphan /\ call[v].client \notin S
<1>1. CASE call[v] = Idle \/ call[v].client \notin S
  <2>1. Orphaned(S)[v] = call[v]
    BY <1>1 DEF Orphaned
  <2> QED
    BY <1>1, <2>1 DEF RateTypeOK
<1>2. CASE ~(call[v] = Idle \/ call[v].client \notin S)
  <2>1. call[v] \in Call
    BY <1>2 DEF RateTypeOK
  <2>2. CASE call[v].step \in {"client", "inClient"}
    <3>1. Orphaned(S)[v] = Idle
      BY <1>2, <2>2 DEF Orphaned
    <3> QED
      BY <1>2, <2>2, <3>1 DEF Idle
  <2>3. CASE call[v].step \notin {"client", "inClient"}
    <3>1. Orphaned(S)[v] = [call[v] EXCEPT !.orphan = TRUE]
      BY <1>2, <2>3 DEF Orphaned
    <3>2. /\ Orphaned(S)[v] \in Call /\ Orphaned(S)[v].step = call[v].step
          /\ Orphaned(S)[v].client = call[v].client /\ Orphaned(S)[v].orphan
          /\ Orphaned(S)[v].held = call[v].held
      BY <2>1, <3>1 DEF Call
    <3> QED
      BY <1>2, <2>1, <3>2
  <2> QED
    BY <2>2, <2>3
<1> QED
  BY <1>1, <1>2

(* A request that arrives renews its client's entry; a client that is      *)
(* evicted starts again, and what was pending for it is lost.              *)
LEMMA ArriveEffect ==
    ASSUME RateTypeOK, NEW w \in Worker, NEW c \in Client, NEW p \in Paths, Arrive(w, c, p),
           NEW d \in Client
    PROVE  /\ lru' \in Seq(Client) /\ Len(lru') <= MaxLimiters
           /\ ttl' = [ttl EXCEPT ![c] = LimiterTTL] /\ c \in Cached'
           /\ d \in Cached' => d \in Cached \/ d = c
           /\ d \in Cached \ Cached' =>
                 /\ d # c /\ limiter'[d] = newLimiter /\ locked'[d] = Never
                 /\ spent'[d] = [a \in Age |-> 0] /\ Pending(d)' = {}
           /\ d \notin Cached \ Cached' =>
                 /\ limiter'[d] = limiter[d] /\ locked'[d] = locked[d]
                 /\ spent'[d] = spent[d]
                 /\ \/ Pending(d)' = Pending(d)
                    \/ /\ d = c /\ Pending(d)' = Pending(d) \cup {w} /\ w \notin Pending(d)
                       /\ ~IsLocked(limiter[d], ClientBudget)
           /\ \A v \in Pending(d) : v # w
           /\ \A v \in Pending(d)' : v # w => call'[v].held = call[v].held
<1> DEFINE gone == Cached \ Cached'
           admitted == ~(\/ IsLocked(limiter[c], ClientBudget)
                         \/ ~isControlPlane(p) /\ IsLocked(global, GlobalBudget))
           new == [step |-> IF isControlPlane(p) THEN "client" ELSE "global",
                   client |-> c, weight |-> requestWeight(p),
                   orphan |-> FALSE, held |-> 0]
<1>1. /\ call[w] = Idle /\ lru' = Touched(c) /\ ttl' = [ttl EXCEPT ![c] = LimiterTTL]
      /\ limiter' = Reset(limiter, gone, newLimiter) /\ locked' = Reset(locked, gone, Never)
      /\ spent' = Reset(spent, gone, [a \in Age |-> 0])
      /\ call' = IF admitted THEN [Orphaned(gone) EXCEPT ![w] = new] ELSE Orphaned(gone)
  BY Zenon DEF Arrive, client
<1>2. /\ lru' \in Seq(Client) /\ Len(lru') <= MaxLimiters /\ c \in ToSet(lru')
      /\ ToSet(lru') \subseteq ToSet(lru) \cup {c}
  BY <1>1, TouchedEntries DEF RateTypeOK
<1>3. ttl'[c] = LimiterTTL /\ LimiterTTL > 0 /\ (d # c => ttl'[d] = ttl[d])
  BY <1>1, RateAssumption DEF RateTypeOK
<1>4. c \in Cached'
  BY <1>2, <1>3 DEF Cached
<1>5. d \in Cached' => d \in Cached \/ d = c
  BY <1>2, <1>3 DEF Cached
<1> HIDE DEF gone, admitted, new
<1>6. /\ limiter'[d] = IF d \in gone THEN newLimiter ELSE limiter[d]
      /\ locked'[d] = IF d \in gone THEN Never ELSE locked[d]
      /\ spent'[d] = IF d \in gone THEN [a \in Age |-> 0] ELSE spent[d]
  BY <1>1 DEF RateTypeOK, Reset
<1>7. c \notin gone
  BY <1>4 DEF gone
<1>8. ASSUME NEW v \in Worker
      PROVE  IF v = w /\ admitted THEN call'[v] = new ELSE call'[v] = Orphaned(gone)[v]
  BY <1>1, <1>8 DEF Orphaned
<1>9. /\ new.client = c /\ new.orphan = FALSE /\ new # Idle
  <2>1. new.client = c /\ new.orphan = FALSE /\ new.step # "idle"
    BY DEF new
  <2> QED
    BY <2>1 DEF Idle
<1>10. ASSUME NEW v \in Worker, ~(v = w /\ admitted)
       PROVE  v \in Pending(d)' <=> v \in Pending(d) /\ d \notin gone
  <2>1. call'[v] = Orphaned(gone)[v]
    BY <1>8, <1>10
  <2> QED
    BY <2>1, OrphanedCall DEF Pending
<1>11. admitted => (w \in Pending(d)' <=> d = c)
  BY <1>8, <1>9 DEF Pending
<1>12. Pending(d)' \subseteq Worker /\ Pending(d) \subseteq Worker /\ w \notin Pending(d)
  BY <1>1 DEF Pending
<1>13. ASSUME NEW v \in Pending(d)', v # w PROVE call'[v].held = call[v].held
  <2>1. v \in Worker /\ call'[v] # Idle
    BY DEF Pending
  <2>2. call'[v] = Orphaned(gone)[v]
    BY <1>8, <1>13, <2>1
  <2> QED
    BY <2>1, <2>2, OrphanedCall
<1>14. d \in gone => Pending(d)' = {}
  <2> HIDE DEF Pending
  <2> QED
    BY <1>7, <1>10, <1>11, <1>12
<1>15. d \notin gone => \/ Pending(d)' = Pending(d)
                        \/ d = c /\ Pending(d)' = Pending(d) \cup {w} /\ admitted
  <2> SUFFICES ASSUME d \notin gone
               PROVE  \/ Pending(d)' = Pending(d)
                      \/ d = c /\ Pending(d)' = Pending(d) \cup {w} /\ admitted
    OBVIOUS
  <2> HIDE DEF Pending
  <2>1. CASE ~admitted
    BY <1>10, <1>12, <2>1
  <2>2. CASE admitted /\ d = c
    BY <1>10, <1>11, <1>12, <2>2
  <2>3. CASE admitted /\ d # c
    BY <1>10, <1>11, <1>12, <2>3
  <2> QED
    BY <2>1, <2>2, <2>3
<1>16. admitted => ~IsLocked(limiter[c], ClientBudget)
  BY DEF admitted
<1>17. gone = Cached \ Cached'
  BY DEF gone
<1> QED
  BY <1>1, <1>2, <1>4, <1>5, <1>6, <1>7, <1>12, <1>13, <1>14, <1>15, <1>16, <1>17

(* A request of the data plane is only let through when the global limiter *)
(* is not locked.                                                          *)
LEMMA ArriveGlobal ==
    ASSUME RateTypeOK, NEW w \in Worker, NEW c \in Client, NEW p \in Paths, Arrive(w, c, p),
           IsLocked(global, GlobalBudget)
    PROVE  PendingGlobal' \subseteq PendingGlobal
<1> DEFINE gone == Cached \ Cached'
           new == [step |-> IF isControlPlane(p) THEN "client" ELSE "global",
                   client |-> c, weight |-> requestWeight(p),
                   orphan |-> FALSE, held |-> 0]
<1>1. \/ call' = Orphaned(gone)
      \/ call' = [Orphaned(gone) EXCEPT ![w] = new] /\ isControlPlane(p)
  BY Zenon DEF Arrive
<1>2. isControlPlane(p) => new.step = "client"
  OBVIOUS
<1> HIDE DEF gone, new
<1>3. ASSUME NEW v \in Worker, v \in PendingGlobal' PROVE v \in PendingGlobal
  <2>1. call'[v].step \in {"global", "inGlobal"}
    BY <1>3 DEF PendingGlobal
  <2>2. call'[v] = Orphaned(gone)[v]
    BY <1>1, <1>2, <2>1 DEF Orphaned
  <2>3. call[v].step \in {"global", "inGlobal"}
    BY <2>1, <2>2, OrphanedCall
  <2> QED
    BY <2>3 DEF PendingGlobal
<1> QED
  BY <1>3 DEF PendingGlobal

(* A limiter that is not locked, or that was locked just now, is in time.  *)
LEMMA FreshLock ==
    ASSUME NEW lock \in {-1, 0}, NEW since \in -1..Window, NEW d \in 0..DrainInterval
    PROVE  LockedBefore(lock, since, d) /\ LockedAfter(lock, since)
  BY RateAssumption DEF LockedAfter, LockedBefore, Overdue, Never

(* Types are kept when a request arrives. *)
LEMMA ArriveType ==
    ASSUME RateTypeOK, NEW w \in Worker, NEW c \in Client, NEW p \in Paths, Arrive(w, c, p)
    PROVE  RateTypeOK'
<1> DEFINE gone == Cached \ Cached'
           new == [step |-> IF isControlPlane(p) THEN "client" ELSE "global",
                   client |-> c, weight |-> requestWeight(p),
                   orphan |-> FALSE, held |-> 0]
<1>1. /\ limiter' = Reset(limiter, gone, newLimiter) /\ locked' = Reset(locked, gone, Never)
      /\ spent' = Reset(spent, gone, [a \in Age |-> 0])
      /\ call' \in {[Orphaned(gone) EXCEPT ![w] = new], Orphaned(gone)}
      /\ UNCHANGED <<global, drain, globalLocked, stale>>
  BY Zenon DEF Arrive, client
<1>2. lru' \in Seq(Client) /\ Len(lru') <= MaxLimiters /\ ttl' = [ttl EXCEPT ![c] = LimiterTTL]
  BY ArriveEffect
<1>4. new \in Call
  BY HeaviestBounds, RateAssumption DEF Call
<1> HIDE DEF gone, new
<1>6. call' \in [Worker -> {Idle} \cup Call]
  <2>1. Orphaned(gone) \in [Worker -> {Idle} \cup Call]
    <3>1. \A v \in Worker : Orphaned(gone)[v] \in {Idle} \cup Call
      BY OrphanedCall
    <3>2. Orphaned(gone) = [v \in Worker |-> Orphaned(gone)[v]]
      BY DEF Orphaned
    <3> QED
      BY <3>1, <3>2, Zenon
  <2> QED
    BY <1>1, <1>4, <2>1
<1>7. ttl' \in [Client -> 0..LimiterTTL]
  BY <1>2, RateAssumption DEF RateTypeOK
<1>8. Never \in -1..Overdue
  BY RateAssumption DEF Never, Overdue
<1>9. limiter' \in [Client -> Sound]
  BY <1>1, NewLimiter DEF RateTypeOK, Reset
<1>10. locked' \in [Client -> -1..Overdue]
  BY <1>1, <1>8 DEF RateTypeOK, Reset
<1>11. spent' \in [Client -> [Age -> Nat]]
  BY <1>1 DEF RateTypeOK, Reset
<1> QED
  BY <1>1, <1>2, <1>6, <1>7, <1>9, <1>10, <1>11, Zenon DEF RateTypeOK, drain

(* A request that arrives keeps the invariant: only a client that was not  *)
(* locked has one more request pending, and its entry is renewed.          *)
LEMMA ArriveInv ==
    ASSUME RateInv, NEW w \in Worker, NEW c \in Client, NEW p \in Paths, Arrive(w, c, p)
    PROVE  RateInv'
<1>0. /\ RateTypeOK /\ CacheInv /\ ChargeInv /\ LockInv /\ BoundInv /\ GlobalInv
  BY DEF RateInv
<1>1. RateTypeOK'
  BY <1>0, ArriveType
<1>2. /\ drainIn' = drainIn /\ visit' = visit /\ present' = present /\ draining' = draining
      /\ globalSince' = globalSince /\ clientSince' = clientSince
      /\ global' = global /\ globalLocked' = globalLocked /\ stale' = stale
  BY DEF Arrive, drain
<1>3. ASSUME NEW d \in Client
      PROVE  /\ limiter[d].total \in Nat /\ locked[d] \in -1..Overdue
             /\ ttl[d] \in 0..LimiterTTL /\ ttl'[d] \in 0..LimiterTTL
             /\ ttl'[d] = IF d = c THEN LimiterTTL ELSE ttl[d]
             /\ ttl'[d] >= ttl[d]
             /\ clientSince[d] \in -1..Window
  <2>1. ttl' = [ttl EXCEPT ![c] = LimiterTTL]
    BY <1>0, ArriveEffect
  <2>2. /\ limiter[d] \in Sound /\ locked[d] \in -1..Overdue
        /\ ttl[d] \in 0..LimiterTTL /\ clientSince[d] \in -1..Window
    BY <1>0 DEF RateTypeOK
  <2>3. ttl'[d] = IF d = c THEN LimiterTTL ELSE ttl[d]
    BY <1>0, <2>1 DEF RateTypeOK
  <2> QED
    BY <2>2, <2>3, RateAssumption, SoundFields
<1>4. CacheInv'
  <2> SUFFICES ASSUME NEW d \in Client
               PROVE  /\ d \notin Cached' => limiter'[d] = newLimiter
                      /\ \A v \in Pending(d)' :
                            d \in Cached' /\ ttl'[d] + call'[v].held >= LimiterTTL
    BY DEF CacheInv
  <2>1. CASE d \in Cached \ Cached'
    BY <1>0, <2>1, ArriveEffect
  <2>2. CASE d \notin Cached \ Cached'
    <3>1. limiter'[d] = limiter[d] /\ c \in Cached' /\ \A v \in Pending(d) : v # w
      BY <1>0, <2>2, ArriveEffect
    <3>2. d \in Cached \/ d = c => d \in Cached'
      BY <2>2, <3>1
    <3>3. d \notin Cached' => limiter'[d] = newLimiter
      BY <1>0, <3>1, <3>2 DEF CacheInv
    <3>4. ASSUME NEW v \in Worker, v \in Pending(d)'
          PROVE  d \in Cached' /\ ttl'[d] + call'[v].held >= LimiterTTL
      <4>1. call'[v] \in Call
        BY <1>1, <3>4 DEF RateTypeOK, Pending
      <4>2. call'[v].held \in Nat
        BY <4>1, RateAssumption DEF Call
      <4>3. CASE d = c
        BY <1>3, <3>2, <4>2, <4>3, RateAssumption
      <4>4. CASE d # c
        <5>1. Pending(d)' = Pending(d)
          BY <1>0, <2>2, <4>4, ArriveEffect
        <5>2. d \in Cached /\ ttl[d] + call[v].held >= LimiterTTL
          BY <1>0, <3>4, <5>1 DEF CacheInv
        <5>3. call'[v].held = call[v].held
          BY <1>0, <3>1, <3>4, <5>1, ArriveEffect
        <5> QED
          BY <1>3, <3>2, <4>4, <5>2, <5>3
      <4> QED
        BY <4>3, <4>4
    <3> QED
      BY <3>3, <3>4 DEF Pending
  <2> QED
    BY <2>1, <2>2
<1>5. ChargeInv'
  <2> SUFFICES ASSUME NEW d \in Client
               PROVE  /\ Exact(limiter'[d])
                      /\ Room(limiter'[d], ClientBudget, Cardinality(Pending(d)'))
                      /\ ~limiter'[d].raced => spent'[d] = limiter'[d].charged
                      /\ \A a \in Age : spent'[d][a] > 0 => ttl'[d] + a >= Window
    BY Zenon DEF ChargeInv
  <2>0. Pending(d) \in SUBSET Worker /\ Pending(d)' \in SUBSET Worker
    BY DEF Pending
  <2>1. CASE d \in Cached \ Cached'
    <3>1. limiter'[d] = newLimiter /\ spent'[d] = [a \in Age |-> 0]
      BY <1>0, <2>1, ArriveEffect
    <3> HIDE DEF Pending
    <3> QED
      BY <2>0, <3>1, NewLimiter, NewHasRoom
  <2>2. CASE d \notin Cached \ Cached'
    <3>1. limiter'[d] = limiter[d] /\ spent'[d] = spent[d]
      BY <1>0, <2>2, ArriveEffect
    <3>2. Exact(limiter'[d]) /\ (~limiter'[d].raced => spent'[d] = limiter'[d].charged)
      BY <1>0, <3>1 DEF ChargeInv
    <3>3. \A a \in Age : spent'[d][a] > 0 => ttl'[d] + a >= Window
      <4> SUFFICES ASSUME NEW a \in Age, spent'[d][a] > 0
                   PROVE  ttl'[d] + a >= Window
        OBVIOUS
      <4>1. ttl[d] + a >= Window
        BY <1>0, <3>1 DEF ChargeInv
      <4> QED
        BY <1>3, <4>1, RateAssumption DEF Age
    <3>4. Room(limiter'[d], ClientBudget, Cardinality(Pending(d)'))
      <4>1. CASE Pending(d)' = Pending(d)
        BY <1>0, <3>1, <4>1 DEF ChargeInv
      <4>2. CASE Pending(d)' # Pending(d)
        <5>1. ~IsLocked(limiter[d], ClientBudget)
          BY <1>0, <2>2, <4>2, ArriveEffect
        <5>2. Cardinality(Pending(d)') \in 0..Cardinality(Worker)
          BY <2>0, PendingCount, WorkerCount
        <5> QED
          BY <1>3, <3>1, <5>1, <5>2, UnlockedHasRoom, RateAssumption
      <4> QED
        BY <4>1, <4>2
    <3> QED
      BY <3>2, <3>3, <3>4
  <2> QED
    BY <2>1, <2>2
<1>6. LockInv'
  <2> SUFFICES ASSUME NEW d \in Client
               PROVE  /\ locked'[d] # Never <=> IsLocked(limiter'[d], ClientBudget)
                      /\ clientSince[d] # Never /\ d \notin stale =>
                            \A a \in Age : a < clientSince[d] => spent'[d][a] = 0
    BY <1>2, Zenon DEF LockInv
  <2>1. CASE d \in Cached \ Cached'
    <3>1. limiter'[d] = newLimiter /\ locked'[d] = Never /\ spent'[d] = [a \in Age |-> 0]
      BY <1>0, <2>1, ArriveEffect
    <3> QED
      BY <3>1, NewUnlocked
  <2>2. CASE d \notin Cached \ Cached'
    <3>1. limiter'[d] = limiter[d] /\ locked'[d] = locked[d] /\ spent'[d] = spent[d]
      BY <1>0, <2>2, ArriveEffect
    <3> QED
      BY <1>0, <3>1 DEF LockInv
  <2> QED
    BY <2>1, <2>2
<1>7. BoundInv'
  <2> SUFFICES ASSUME NEW d \in Client
               PROVE  IF ~draining \/ d \in visit
                        THEN LockedBefore(locked'[d], clientSince[d], drainIn)
                        ELSE IF d \in present THEN LockedAfter(locked'[d], clientSince[d])
                        ELSE locked'[d] <= 0
    BY <1>2 DEF BoundInv
  <2>1. locked'[d] = locked[d] \/ locked'[d] = Never
    BY <1>0, ArriveEffect
  <2>2. CASE locked'[d] = locked[d]
    BY <1>0, <2>2 DEF BoundInv
  <2>3. CASE locked'[d] = Never
    <3>1. /\ locked'[d] \in {-1, 0} /\ clientSince[d] \in -1..Window
          /\ drainIn \in 0..DrainInterval
      BY <1>0, <2>3 DEF RateTypeOK, Never
    <3>2. LockedBefore(locked'[d], clientSince[d], drainIn) /\ LockedAfter(locked'[d], clientSince[d])
      BY <3>1, FreshLock
    <3> QED
      BY <2>3, <3>2 DEF Never
  <2> QED
    BY <2>1, <2>2, <2>3
<1>8. GlobalInv'
  <2>0. PendingGlobal \in SUBSET Worker /\ PendingGlobal' \in SUBSET Worker
    BY DEF PendingGlobal
  <2>01. global.total \in Nat
    BY <1>0, SoundFields DEF RateTypeOK
  <2>1. Room(global, GlobalBudget, Cardinality(PendingGlobal'))
    <3>1. CASE IsLocked(global, GlobalBudget)
      <4>1. PendingGlobal' \subseteq PendingGlobal
        BY <1>0, <3>1, ArriveGlobal
      <4>2. Cardinality(PendingGlobal') \in 0..Cardinality(PendingGlobal)
        BY <2>0, <4>1, PendingCount, FS_Subset
      <4>3. /\ Room(global, GlobalBudget, Cardinality(PendingGlobal))
            /\ Cardinality(PendingGlobal) \in Nat
        BY <1>0, <2>0, PendingCount DEF GlobalInv
      <4> QED
        BY <2>01, <4>2, <4>3, LessNeedsLessRoom, RateAssumption
    <3>2. CASE ~IsLocked(global, GlobalBudget)
      <4>1. Cardinality(PendingGlobal') \in 0..Cardinality(Worker)
        BY <2>0, PendingCount, WorkerCount
      <4> QED
        BY <2>01, <3>2, <4>1, UnlockedHasRoom, RateAssumption
    <3> QED
      BY <3>1, <3>2
  <2>2. Room(global, GlobalBudget, Cardinality(PendingGlobal))'
    BY <1>2, <2>1
  <2> QED
    BY <1>0, <1>2, <2>2 DEF GlobalInv
<1> QED
  BY <1>1, <1>4, <1>5, <1>6, <1>7, <1>8 DEF RateInv

(* The room that a request of S leaves when it has been charged. *)
LEMMA ChargeTakesRoom ==
    ASSUME NEW S \in SUBSET Worker, NEW w \in S
    PROVE  /\ S \ {w} \in SUBSET Worker /\ Cardinality(S \ {w}) \in Nat
           /\ Cardinality(S) = Cardinality(S \ {w}) + 1
<1>1. S \ {w} \in SUBSET Worker /\ w \in Worker \ (S \ {w}) /\ S = (S \ {w}) \cup {w}
  OBVIOUS
<1> QED
  BY <1>1, PendingCount

(* A call that goes on to its next step stays pending for its client. *)
LEMMA CallMoves ==
    ASSUME RateTypeOK, NEW w \in Worker, NEW to \in {"inGlobal", "client", "inClient"},
           call[w].step \in {"global", "inGlobal", "client"},
           call' = [call EXCEPT ![w].step = to]
    PROVE  /\ call[w] \in Call /\ call[w] # Idle
           /\ call' \in [Worker -> {Idle} \cup Call]
           /\ call'[w].step = to
           /\ \A v \in Worker : /\ v # w => call'[v] = call[v]
                                /\ call'[v].held = call[v].held
           /\ \A d : Pending(d)' = Pending(d)
<1>1. call[w] \in Call /\ call[w] # Idle
  BY DEF RateTypeOK, Idle
<1>2. call'[w] = [call[w] EXCEPT !.step = to] /\ \A v \in Worker : v # w => call'[v] = call[v]
  BY DEF RateTypeOK
<1>3. /\ call'[w] \in Call /\ call'[w].step = to /\ call'[w].client = call[w].client
      /\ call'[w].orphan = call[w].orphan /\ call'[w].held = call[w].held
  BY <1>1, <1>2 DEF Call
<1>4. call'[w] # Idle
  BY <1>3 DEF Idle
<1>5. \A d : Pending(d)' = Pending(d)
  BY <1>1, <1>2, <1>3, <1>4 DEF Pending
<1>6. call' \in [Worker -> {Idle} \cup Call]
  BY <1>3 DEF RateTypeOK
<1> QED
  BY <1>1, <1>2, <1>3, <1>5, <1>6

(* A request that is through with the global limiter stays pending for its *)
(* client.                                                                 *)
LEMMA CallCharged ==
    ASSUME RateTypeOK, NEW w \in Worker, call[w].step \in {"global", "inGlobal"},
           call'[w] = Charged(call[w]), NEW d
    PROVE  /\ call[w] \in Call /\ call[w] # Idle
           /\ call'[w] \in {Idle} \cup Call /\ call'[w].step \notin {"global", "inGlobal"}
           /\ w \in Pending(d)' <=> w \in Pending(d)
           /\ w \in Pending(d) => call'[w].held = call[w].held
<1>1. call[w] \in Call /\ call[w] # Idle
  BY DEF RateTypeOK, Idle
<1>2. CASE call[w].orphan
  <2>1. call'[w] = Idle
    BY <1>2 DEF Charged
  <2> QED
    BY <1>1, <1>2, <2>1 DEF Pending, Idle
<1>3. CASE ~call[w].orphan
  <2>1. call'[w] = [call[w] EXCEPT !.step = "client"]
    BY <1>3 DEF Charged
  <2>2. /\ call'[w] \in Call /\ call'[w].step = "client" /\ call'[w].client = call[w].client
        /\ call'[w].orphan = call[w].orphan /\ call'[w].held = call[w].held
    BY <1>1, <2>1 DEF Call
  <2>3. call'[w] # Idle
    BY <2>2 DEF Idle
  <2> QED
    BY <1>1, <2>2, <2>3 DEF Pending
<1> QED
  BY <1>2, <1>3

(* A step of a call of Limit on the global limiter keeps the invariant if  *)
(* it leaves the limiter exact and with room for what is still pending.    *)
LEMMA ChargeGlobalInv ==
    ASSUME RateInv, NEW w \in Worker, NEW req, NEW outcomes,
           ChargeGlobal(w, req, outcomes),
           call' \in [Worker -> {Idle} \cup Call],
           \A d : Pending(d)' = Pending(d),
           \A d \in Client : \A v \in Pending(d) : call'[v].held = call[v].held,
           \A l \in outcomes : /\ l \in Sound /\ Exact(l)
                               /\ Room(l, GlobalBudget, Cardinality(PendingGlobal'))
    PROVE  RateInv'
<1>0. /\ RateTypeOK /\ CacheInv /\ ChargeInv /\ LockInv /\ BoundInv /\ GlobalInv
  BY DEF RateInv
<1>1. /\ limiter' = limiter /\ lru' = lru /\ ttl' = ttl
      /\ drainIn' = drainIn /\ visit' = visit /\ present' = present /\ draining' = draining
      /\ globalSince' = globalSince /\ clientSince' = clientSince
      /\ locked' = locked /\ spent' = spent /\ stale' = stale
      /\ global' \in outcomes
      /\ globalLocked' = LockAge(globalLocked, global', GlobalBudget)
  BY DEF ChargeGlobal, cache, drain
<1>7. Cached' = Cached
  BY <1>1 DEF Cached
<1>9. /\ globalLocked \in -1..Overdue /\ globalSince \in -1..Window
      /\ drainIn \in 0..DrainInterval
  BY <1>0 DEF RateTypeOK
<1>10. /\ global' \in Sound /\ Exact(global')
       /\ Room(global', GlobalBudget, Cardinality(PendingGlobal'))
  BY <1>1
<1>11. /\ globalLocked' \in {-1, 0, globalLocked}
       /\ globalLocked' # Never <=> IsLocked(global', GlobalBudget)
  BY <1>1, <1>9 DEF LockAge, Never
<1>12. RateTypeOK'
  <2>2. globalLocked' \in -1..Overdue
    BY <1>9, <1>11, RateAssumption DEF Overdue
  <2> QED
    BY <1>0, <1>1, <1>10, <2>2, Zenon DEF RateTypeOK
<1>13. CacheInv'
  <2> SUFFICES ASSUME NEW d \in Client
               PROVE  /\ d \notin Cached => limiter[d] = newLimiter
                      /\ \A v \in Pending(d) : d \in Cached /\ ttl[d] + call'[v].held >= LimiterTTL
    BY <1>1, <1>7 DEF CacheInv
  <2>1. \A v \in Pending(d) : call'[v].held = call[v].held
    OBVIOUS
  <2> QED
    BY <1>0, <2>1 DEF CacheInv
<1>14. ChargeInv'
  BY <1>0, <1>1, Zenon DEF ChargeInv
<1>15. LockInv' /\ BoundInv'
  BY <1>0, <1>1, Zenon DEF LockInv, BoundInv
<1>16. GlobalInv'
  <2>1. IF draining THEN LockedAfter(globalLocked', globalSince)
        ELSE LockedBefore(globalLocked', globalSince, drainIn)
    <3>1. CASE globalLocked' = globalLocked
      BY <1>0, <3>1 DEF GlobalInv
    <3>2. CASE globalLocked' \in {-1, 0}
      BY <1>9, <3>2, FreshLock
    <3> QED
      BY <1>11, <3>1, <3>2
  <2>2. Room(global, GlobalBudget, Cardinality(PendingGlobal))'
    BY <1>10
  <2> QED
    BY <1>1, <1>10, <1>11, <2>1, <2>2 DEF GlobalInv
<1> QED
  BY <1>12, <1>13, <1>14, <1>15, <1>16 DEF RateInv

(* Both steps of Limit on the global limiter do. *)
LEMMA BeginGlobalInv ==
    ASSUME RateInv, NEW w \in Worker, BeginGlobal(w)
    PROVE  RateInv'
<1> DEFINE req == [call[w] EXCEPT !.step = "inGlobal"]
<1>1. /\ ChargeGlobal(w, req, {LimitBegins(global)})
      /\ call[w].step = "global" /\ call' = [call EXCEPT ![w] = req]
  BY DEF BeginGlobal, ChargeGlobal
<1>2. /\ call'[w].step = "inGlobal" /\ call' \in [Worker -> {Idle} \cup Call]
      /\ \A v \in Worker : (v # w => call'[v] = call[v]) /\ call'[v].held = call[v].held
      /\ \A d : Pending(d)' = Pending(d)
  <2>1. call' = [call EXCEPT ![w].step = "inGlobal"]
    BY <1>1
  <2> QED
    BY <1>1, <2>1, CallMoves DEF RateInv
<1> HIDE DEF req
<1>3. PendingGlobal' = PendingGlobal
  BY <1>1, <1>2 DEF PendingGlobal
<1>4. global \in Sound /\ Exact(global) /\ Room(global, GlobalBudget, Cardinality(PendingGlobal))
  BY DEF RateInv, RateTypeOK, GlobalInv
<1>5. Cardinality(PendingGlobal) \in Nat
  <2>1. PendingGlobal \in SUBSET Worker
    BY DEF PendingGlobal
  <2> QED
    BY <2>1, PendingCount
<1>6. /\ LimitBegins(global) \in Sound /\ Exact(LimitBegins(global))
      /\ Room(LimitBegins(global), GlobalBudget, Cardinality(PendingGlobal'))
  BY <1>3, <1>4, <1>5, LimitBeginsKeeps, RateAssumption, WordAssumption
<1>7. \A d \in Client : \A v \in Pending(d) : call'[v].held = call[v].held
  BY <1>2 DEF Pending
<1> QED
  BY <1>1, <1>2, <1>6, <1>7, ChargeGlobalInv

LEMMA EndGlobalInv ==
    ASSUME RateInv, NEW w \in Worker, EndGlobal(w)
    PROVE  RateInv'
<1>1. /\ ChargeGlobal(w, Charged(call[w]), LimitEnds(global, call[w].weight))
      /\ call[w].step = "inGlobal" /\ call' = [call EXCEPT ![w] = Charged(call[w])]
  BY DEF EndGlobal, ChargeGlobal
<1>2. /\ call[w] \in Call /\ call[w] # Idle
      /\ call'[w].step \notin {"global", "inGlobal"} /\ call' \in [Worker -> {Idle} \cup Call]
      /\ \A v \in Worker : v # w => call'[v] = call[v]
      /\ \A d : Pending(d)' = Pending(d)
      /\ \A d \in Client : \A v \in Pending(d) : call'[v].held = call[v].held
  <2>1. RateTypeOK /\ call'[w] = Charged(call[w]) /\ \A v \in Worker : v # w => call'[v] = call[v]
    BY <1>1 DEF RateInv, RateTypeOK
  <2>2. /\ call[w] \in Call /\ call[w] # Idle /\ call'[w] \in {Idle} \cup Call
        /\ call'[w].step \notin {"global", "inGlobal"}
        /\ \A d : /\ w \in Pending(d)' <=> w \in Pending(d)
                  /\ w \in Pending(d) => call'[w].held = call[w].held
    BY <1>1, <2>1, CallCharged
  <2>3. call' \in [Worker -> {Idle} \cup Call]
    BY <1>1, <2>1, <2>2 DEF RateTypeOK
  <2>4. ASSUME NEW d, NEW v \in Worker, v # w
        PROVE  /\ v \in Pending(d)' <=> v \in Pending(d)
               /\ call'[v].held = call[v].held
    BY <2>1, <2>4 DEF Pending
  <2>5. \A d : Pending(d)' \subseteq Worker /\ Pending(d) \subseteq Worker
    BY DEF Pending
  <2> HIDE DEF Pending
  <2>6. \A d : Pending(d)' = Pending(d)
    BY <2>2, <2>4, <2>5
  <2>7. \A d \in Client : \A v \in Pending(d) : call'[v].held = call[v].held
    BY <2>2, <2>4, <2>5
  <2> QED
    BY <2>1, <2>2, <2>3, <2>6, <2>7
<1>3. PendingGlobal' = PendingGlobal \ {w} /\ PendingGlobal \in SUBSET Worker /\ w \in PendingGlobal
  BY <1>1, <1>2 DEF PendingGlobal
<1>4. global \in Sound /\ Exact(global) /\ Room(global, GlobalBudget, Cardinality(PendingGlobal))
  BY DEF RateInv, RateTypeOK, GlobalInv
<1>5. call[w].weight \in 1..Heaviest
  BY <1>2 DEF Call
<1>6. ASSUME NEW l \in LimitEnds(global, call[w].weight)
      PROVE  l \in Sound /\ Exact(l) /\ Room(l, GlobalBudget, Cardinality(PendingGlobal'))
  <2>1. /\ Cardinality(PendingGlobal') \in Nat
        /\ Cardinality(PendingGlobal) = Cardinality(PendingGlobal') + 1
    BY <1>3, ChargeTakesRoom
  <2> DEFINE k == Cardinality(PendingGlobal')
  <2>2. k \in Nat /\ Room(global, GlobalBudget, k + 1)
    BY <1>4, <2>1
  <2> HIDE DEF k
  <2>3. l \in Sound /\ Exact(l) /\ Room(l, GlobalBudget, k)
    BY <1>4, <1>5, <2>2, LimitEndsKeeps, RateAssumption, WordAssumption
  <2> QED
    BY <2>3 DEF k
<1> QED
  BY <1>1, <1>2, <1>6, ChargeGlobalInv

(* A step of a call of Limit on a client's limiter keeps the invariant if  *)
(* it leaves the limiter exact and with room for what is still pending:    *)
(* the entry was renewed when the request was let through, and when drain  *)
(* has noted the client, it is in stale from now on.                       *)
LEMMA ChargeClientInv ==
    ASSUME RateInv, NEW w \in Worker, NEW c \in Client, NEW l, NEW weight \in Nat,
           w \in Pending(c),
           ChargeClient(c, l, weight),
           call' \in [Worker -> {Idle} \cup Call],
           \A d : d # c => Pending(d)' = Pending(d),
           Pending(c)' \subseteq Pending(c),
           \A d \in Client : \A v \in Pending(d)' : call'[v].held = call[v].held,
           PendingGlobal' = PendingGlobal,
           l \in Sound, Exact(l), Room(l, ClientBudget, Cardinality(Pending(c)')),
           ~l.raced => ~limiter[c].raced
                       /\ l.charged = [limiter[c].charged EXCEPT ![0] = @ + weight]
    PROVE  RateInv'
<1>0. /\ RateTypeOK /\ CacheInv /\ ChargeInv /\ LockInv /\ BoundInv /\ GlobalInv
  BY DEF RateInv
<1>1. /\ lru' = lru /\ ttl' = ttl
      /\ drainIn' = drainIn /\ visit' = visit /\ present' = present /\ draining' = draining
      /\ globalSince' = globalSince /\ clientSince' = clientSince
      /\ global' = global /\ globalLocked' = globalLocked
      /\ limiter' = [limiter EXCEPT ![c] = l]
      /\ locked' = [locked EXCEPT ![c] = LockAge(@, l, ClientBudget)]
      /\ spent' = [spent EXCEPT ![c][0] = @ + weight]
      /\ stale' = IF clientSince[c] = Never THEN stale ELSE stale \cup {c}
  BY DEF ChargeClient, drain
<1>7. Cached' = Cached
  BY <1>1 DEF Cached
<1>9. /\ spent[c] \in [Age -> Nat] /\ ttl[c] \in 0..LimiterTTL
      /\ locked[c] \in -1..Overdue /\ (locked[c] # Never <=> IsLocked(limiter[c], ClientBudget))
      /\ clientSince[c] \in -1..Window /\ drainIn \in 0..DrainInterval
  BY <1>0 DEF RateTypeOK, LockInv
<1>10. c \in Cached /\ ttl[c] >= Window
  <2>1. c \in Cached /\ ttl[c] + call[w].held >= LimiterTTL
    BY <1>0 DEF CacheInv
  <2>2. call[w].held \in 0..MaxHold
    <3>1. call[w] \in Call
      BY <1>0 DEF Pending, RateTypeOK
    <3> QED
      BY <3>1 DEF Call
  <2> QED
    BY <1>9, <2>1, <2>2, RateAssumption
<1>11. /\ limiter'[c] = l /\ \A d \in Client : d # c => limiter'[d] = limiter[d]
       /\ locked'[c] = LockAge(locked[c], l, ClientBudget)
       /\ \A d \in Client : d # c => locked'[d] = locked[d]
       /\ spent'[c] = [spent[c] EXCEPT ![0] = @ + weight]
       /\ \A d \in Client : d # c => spent'[d] = spent[d]
       /\ \A d \in Client : d # c => (d \in stale' <=> d \in stale)
       /\ clientSince[c] # Never => c \in stale'
  BY <1>0, <1>1 DEF RateTypeOK
<1>12. spent'[c] \in [Age -> Nat]
  BY <1>9, <1>11, SumOfCharged
<1>14. /\ locked'[c] \in {-1, 0, locked[c]}
       /\ locked'[c] # Never <=> IsLocked(l, ClientBudget)
  BY <1>9, <1>11 DEF LockAge, Never
<1>15. RateTypeOK'
  <2>2. locked' \in [Client -> -1..Overdue]
    <3>1. locked'[c] \in -1..Overdue
      BY <1>9, <1>14, RateAssumption DEF Overdue
    <3>2. locked' = [d \in Client |-> locked'[d]]
      BY <1>0, <1>1 DEF RateTypeOK
    <3>3. \A d \in Client : locked'[d] \in -1..Overdue
      BY <1>0, <1>11, <3>1 DEF RateTypeOK
    <3> QED
      BY <3>2, <3>3, Zenon
  <2>3. limiter' \in [Client -> Sound]
    BY <1>0, <1>1 DEF RateTypeOK
  <2>4. spent' \in [Client -> [Age -> Nat]]
    <3>1. spent' = [d \in Client |-> spent'[d]]
      BY <1>0, <1>1 DEF RateTypeOK
    <3>3. \A d \in Client : spent'[d] \in [Age -> Nat]
      BY <1>0, <1>11, <1>12 DEF RateTypeOK
    <3> QED
      BY <3>1, <3>3, Zenon
  <2>5. stale' \subseteq Client
    BY <1>0, <1>1 DEF RateTypeOK
  <2> QED
    BY <1>0, <1>1, <2>2, <2>3, <2>4, <2>5, Zenon DEF RateTypeOK
<1>16. CacheInv'
  <2> SUFFICES ASSUME NEW d \in Client
               PROVE  /\ d \notin Cached => limiter'[d] = newLimiter
                      /\ \A v \in Pending(d)' : d \in Cached /\ ttl[d] + call'[v].held >= LimiterTTL
    BY <1>1, <1>7 DEF CacheInv
  <2>1. \A v \in Pending(d)' : v \in Pending(d) /\ call'[v].held = call[v].held
    OBVIOUS
  <2>2. \A v \in Pending(d)' : d \in Cached /\ ttl[d] + call'[v].held >= LimiterTTL
    BY <1>0, <2>1 DEF CacheInv
  <2>3. d \notin Cached => limiter'[d] = newLimiter
    BY <1>0, <1>10, <1>11 DEF CacheInv
  <2> QED
    BY <2>2, <2>3
<1>17. ChargeInv'
  <2> SUFFICES ASSUME NEW d \in Client
               PROVE  /\ Exact(limiter'[d])
                      /\ Room(limiter'[d], ClientBudget, Cardinality(Pending(d)'))
                      /\ ~limiter'[d].raced => spent'[d] = limiter'[d].charged
                      /\ \A a \in Age : spent'[d][a] > 0 => ttl[d] + a >= Window
    BY <1>1, Zenon DEF ChargeInv
  <2>1. CASE d = c
    <3>1. ~l.raced => spent'[c] = l.charged
      BY <1>0, <1>11 DEF ChargeInv
    <3>2. \A a \in Age : ttl[c] + a >= Window
      BY <1>9, <1>10, RateAssumption DEF Age
    <3> QED
      BY <1>11, <2>1, <3>1, <3>2
  <2>2. CASE d # c
    BY <1>0, <1>11, <2>2 DEF ChargeInv
  <2> QED
    BY <2>1, <2>2
<1>18. LockInv'
  <2> SUFFICES ASSUME NEW d \in Client
               PROVE  /\ locked'[d] # Never <=> IsLocked(limiter'[d], ClientBudget)
                      /\ clientSince[d] # Never /\ d \notin stale' =>
                            \A a \in Age : a < clientSince[d] => spent'[d][a] = 0
    BY <1>1, Zenon DEF LockInv
  <2>1. CASE d = c
    BY <1>11, <1>14, <2>1
  <2>2. CASE d # c
    BY <1>0, <1>11, <2>2 DEF LockInv
  <2> QED
    BY <2>1, <2>2
<1>19. BoundInv'
  <2> SUFFICES ASSUME NEW d \in Client
               PROVE  IF ~draining \/ d \in visit
                        THEN LockedBefore(locked'[d], clientSince[d], drainIn)
                        ELSE IF d \in present THEN LockedAfter(locked'[d], clientSince[d])
                        ELSE locked'[d] <= 0
    BY <1>1 DEF BoundInv
  <2>1. CASE d # c \/ locked'[d] = locked[d]
    BY <1>0, <1>11, <2>1 DEF BoundInv
  <2>2. CASE d = c /\ locked'[c] \in {-1, 0}
    BY <1>9, <2>2, FreshLock
  <2> QED
    BY <1>14, <2>1, <2>2
<1>20. GlobalInv'
  BY <1>0, <1>1, Zenon DEF GlobalInv
<1> QED
  BY <1>15, <1>16, <1>17, <1>18, <1>19, <1>20 DEF RateInv

(* What is known of the limiter that a pending request is charged to. *)
LEMMA PendingLimiter ==
    ASSUME RateInv, NEW c \in Client
    PROVE  /\ limiter[c] \in Sound /\ Exact(limiter[c])
           /\ Room(limiter[c], ClientBudget, Cardinality(Pending(c)))
           /\ Pending(c) \in SUBSET Worker /\ Cardinality(Pending(c)) \in Nat
<1>1. Pending(c) \in SUBSET Worker
  BY DEF Pending
<1> QED
  BY <1>1, PendingCount DEF RateInv, RateTypeOK, ChargeInv

(* Both steps of Limit on a client's limiter do. *)
LEMMA BeginClientInv ==
    ASSUME RateInv, NEW w \in Worker, BeginClient(w), NEW c \in Client, c = call[w].client
    PROVE  RateInv'
<1>1. /\ ChargeClient(c, LimitBegins(limiter[c]), 0)
      /\ call[w].step = "client" /\ ~call[w].orphan
      /\ call' = [call EXCEPT ![w].step = "inClient"]
  BY DEF BeginClient
<1>2. /\ call[w] # Idle /\ call' \in [Worker -> {Idle} \cup Call] /\ call'[w].step = "inClient"
      /\ \A v \in Worker : (v # w => call'[v] = call[v]) /\ call'[v].held = call[v].held
      /\ \A d : Pending(d)' = Pending(d)
  BY <1>1, CallMoves DEF RateInv
<1>3. w \in Pending(c) /\ PendingGlobal' = PendingGlobal
  BY <1>1, <1>2 DEF Pending, PendingGlobal
<1> DEFINE l == LimitBegins(limiter[c])
<1>4. /\ l \in Sound /\ Exact(l) /\ Room(l, ClientBudget, Cardinality(Pending(c)'))
      /\ l.charged = limiter[c].charged /\ (~l.raced => ~limiter[c].raced)
  BY <1>2, PendingLimiter, LimitBeginsKeeps, RateAssumption, WordAssumption
<1>5. limiter[c].charged = [limiter[c].charged EXCEPT ![0] = @ + 0]
  <2>1. limiter[c].charged \in [Age -> Nat]
    BY PendingLimiter, SoundFields
  <2> QED
    BY <2>1
<1>6. \A d \in Client : \A v \in Pending(d)' : call'[v].held = call[v].held
  BY <1>2 DEF Pending
<1> HIDE DEF l
<1> QED
  BY <1>1, <1>2, <1>3, <1>4, <1>5, <1>6, ChargeClientInv DEF l

LEMMA EndClientInv ==
    ASSUME RateInv, NEW w \in Worker, EndClient(w), NEW c \in Client, c = call[w].client
    PROVE  RateInv'
<1>1. /\ call[w].step = "inClient" /\ ~call[w].orphan /\ call' = [call EXCEPT ![w] = Idle]
  BY DEF EndClient
<1>2. PICK l \in LimitEnds(limiter[c], call[w].weight) : ChargeClient(c, l, call[w].weight)
  BY DEF EndClient
<1>3. call[w] \in Call /\ call[w] # Idle /\ call[w].weight \in 1..Heaviest
  <2>1. call[w] \in Call /\ call[w] # Idle
    BY <1>1 DEF RateInv, RateTypeOK, Idle
  <2> QED
    BY <2>1 DEF Call
<1>4. /\ call' \in [Worker -> {Idle} \cup Call] /\ call'[w] = Idle
      /\ \A v \in Worker : v # w => call'[v] = call[v]
  BY <1>1 DEF RateInv, RateTypeOK
<1>5. \A d : d # c => Pending(d)' = Pending(d)
  BY <1>4 DEF Pending
<1>6. Pending(c)' = Pending(c) \ {w} /\ w \in Pending(c)
  <2>1. w \in Pending(c)
    BY <1>1, <1>3 DEF Pending
  <2>2. \A v \in Worker : v \in Pending(c)' <=> v \in Pending(c) /\ v # w
    BY <1>4 DEF Pending
  <2> QED
    BY <2>1, <2>2 DEF Pending
<1>7. PendingGlobal' = PendingGlobal
  BY <1>1, <1>4 DEF PendingGlobal, Idle
<1>8. \A d \in Client : \A v \in Pending(d)' : call'[v].held = call[v].held
  BY <1>4 DEF Pending
<1> DEFINE k == Cardinality(Pending(c)')
<1>9. k \in Nat /\ Room(limiter[c], ClientBudget, k + 1)
  BY <1>6, PendingLimiter, ChargeTakesRoom
<1> HIDE DEF k
<1>10. /\ l \in Sound /\ Exact(l) /\ Room(l, ClientBudget, k)
       /\ ~l.raced => ~limiter[c].raced
                      /\ l.charged = [limiter[c].charged EXCEPT ![0] = @ + call[w].weight]
  BY <1>3, <1>9, PendingLimiter, LimitEndsKeeps, RateAssumption, WordAssumption
<1>11. call[w].weight \in Nat
  BY <1>3, HeaviestBounds
<1> QED
  BY <1>1, <1>2, <1>4, <1>5, <1>6, <1>7, <1>8, <1>10, <1>11, ChargeClientInv DEF k

(* A round of drain begins: a global limiter that is still locked is noted *)
(* or, after a window, replaced.                                           *)
LEMMA DrainBeginsInv ==
    ASSUME RateInv, DrainBegins
    PROVE  RateInv'
<1>0. /\ RateTypeOK /\ CacheInv /\ ChargeInv /\ LockInv /\ BoundInv /\ GlobalInv
  BY DEF RateInv
<1>1. /\ limiter' = limiter /\ lru' = lru /\ ttl' = ttl
      /\ drainIn' = drainIn /\ clientSince' = clientSince
      /\ locked' = locked /\ spent' = spent /\ stale' = stale
      /\ draining = FALSE /\ drainIn = 0 /\ draining' = TRUE /\ visit' = Cached /\ present' = {}
  BY <1>0 DEF DrainBegins, cache, RateTypeOK
<1>2. \/ /\ ~IsLocked(global, GlobalBudget) /\ call' = call
         /\ globalSince' = Never /\ global' = global /\ globalLocked' = globalLocked
      \/ /\ globalSince' = Never /\ global' = newLimiter /\ globalLocked' = Never
         /\ call' = [w \in Worker |-> IF call[w].step \in {"global", "inGlobal"}
                                      THEN Charged(call[w]) ELSE call[w]]
      \/ /\ ~(globalSince >= Window) /\ IsLocked(global, GlobalBudget) /\ call' = call
         /\ globalSince' = (IF globalSince = Never THEN 0 ELSE globalSince)
         /\ global' = global /\ globalLocked' = globalLocked
  BY Zenon DEF DrainBegins
<1>3. /\ Cached' = Cached /\ call' \in [Worker -> {Idle} \cup Call]
      /\ \A d : Pending(d)' = Pending(d)
      /\ \A d \in Client : \A v \in Pending(d) : call'[v].held = call[v].held
  <2>1. Cached' = Cached
    BY <1>1 DEF Cached
  <2>2. CASE call' = call
    BY <1>0, <2>1, <2>2 DEF Pending, RateTypeOK
  <2>3. CASE call' = [w \in Worker |-> IF call[w].step \in {"global", "inGlobal"}
                                     THEN Charged(call[w]) ELSE call[w]]
    <3>1. ASSUME NEW v \in Worker, NEW d
          PROVE  /\ call'[v] \in {Idle} \cup Call
                 /\ v \in Pending(d)' <=> v \in Pending(d)
                 /\ v \in Pending(d) => call'[v].held = call[v].held
      <4>1. CASE call[v].step \in {"global", "inGlobal"}
        <5>1. call'[v] = Charged(call[v])
          BY <2>3, <4>1
        <5> QED
          BY <1>0, <4>1, <5>1, CallCharged
      <4>2. CASE call[v].step \notin {"global", "inGlobal"}
        <5>1. call'[v] = call[v]
          BY <2>3, <4>2
        <5> QED
          BY <1>0, <5>1 DEF RateTypeOK, Pending
      <4> QED
        BY <4>1, <4>2
    <3>2. \A d : Pending(d)' \subseteq Worker /\ Pending(d) \subseteq Worker
      BY DEF Pending
    <3> HIDE DEF Pending
    <3>3. \A d : Pending(d)' = Pending(d)
      BY <3>1, <3>2
    <3>4. \A d \in Client : \A v \in Pending(d) : call'[v].held = call[v].held
      BY <3>1, <3>2
    <3>5. call' \in [Worker -> {Idle} \cup Call]
      BY <2>3, <3>1
    <3> QED
      BY <2>1, <3>3, <3>4, <3>5
  <2> QED
    BY <1>2, <2>2, <2>3
<1>4. globalSince \in -1..Window /\ globalLocked \in -1..Overdue
  BY <1>0 DEF RateTypeOK
<1>5. RateTypeOK'
  <2>1. globalSince' \in -1..Window /\ globalLocked' \in -1..Overdue
    BY <1>2, <1>4, RateAssumption DEF Never, Overdue
  <2>2. global' \in Sound
    BY <1>0, <1>2, NewLimiter DEF RateTypeOK
  <2>3. Cached \subseteq Client
    BY <1>0 DEF RateTypeOK, Cached, ToSet
  <2>4. visit' \subseteq Client /\ present' \subseteq Client
    BY <1>1, <2>3
  <2>5. draining' \in BOOLEAN /\ (draining' => drainIn' = 0)
    BY <1>1
  <2> QED
    BY <1>0, <1>1, <1>3, <2>1, <2>2, <2>4, <2>5, Zenon DEF RateTypeOK
<1>6. CacheInv'
  BY <1>0, <1>1, <1>3, Zenon DEF CacheInv
<1>7. ChargeInv'
  BY <1>0, <1>1, <1>3, Zenon DEF ChargeInv
<1>8. LockInv'
  BY <1>0, <1>1, Zenon DEF LockInv
<1>9. BoundInv'
  <2> SUFFICES ASSUME NEW d \in Client
               PROVE  IF d \in Cached THEN LockedBefore(locked[d], clientSince[d], drainIn)
                      ELSE locked[d] <= 0
    BY <1>1 DEF BoundInv
  <2>1. LockedBefore(locked[d], clientSince[d], drainIn)
    BY <1>0, <1>1 DEF BoundInv
  <2>2. d \notin Cached => locked[d] = Never
    BY <1>0, NewUnlocked DEF CacheInv, LockInv
  <2> QED
    BY <2>1, <2>2 DEF Never
<1>10. GlobalInv'
  <2>1. Exact(global') /\ Room(global', GlobalBudget, Cardinality(PendingGlobal'))
    <3>1. CASE global' = newLimiter
      <4>1. PendingGlobal' \in SUBSET Worker
        BY DEF PendingGlobal
      <4> QED
        BY <3>1, <4>1, NewLimiter, NewHasRoom
    <3>2. CASE global' = global /\ call' = call
      <4>1. PendingGlobal' = PendingGlobal
        BY <3>2 DEF PendingGlobal
      <4> QED
        BY <1>0, <3>2, <4>1 DEF GlobalInv
    <3> QED
      BY <1>2, <3>1, <3>2
  <2>2. globalLocked' # Never <=> IsLocked(global', GlobalBudget)
    BY <1>0, <1>2, NewUnlocked DEF GlobalInv
  <2>3. LockedAfter(globalLocked', globalSince')
    <3>1. LockedBefore(globalLocked, globalSince, 0)
      BY <1>0, <1>1 DEF GlobalInv
    <3>2. ~IsLocked(global, GlobalBudget) => globalLocked = Never
      BY <1>0 DEF GlobalInv
    <3> QED
      BY <1>2, <1>4, <3>1, <3>2, RateAssumption DEF LockedAfter, LockedBefore, Never, Overdue
  <2>4. Room(global, GlobalBudget, Cardinality(PendingGlobal))'
    BY <2>1
  <2> QED
    BY <1>1, <2>1, <2>2, <2>3, <2>4 DEF GlobalInv
<1> QED
  BY <1>5, <1>6, <1>7, <1>8, <1>9, <1>10 DEF RateInv

(* A round of drain ends: what was not found locked is forgotten. *)
LEMMA DrainEndsInv ==
    ASSUME RateInv, DrainEnds
    PROVE  RateInv'
<1>0. /\ RateTypeOK /\ CacheInv /\ ChargeInv /\ LockInv /\ BoundInv /\ GlobalInv
  BY DEF RateInv
<1>1. /\ limiter' = limiter /\ lru' = lru /\ ttl' = ttl /\ call' = call
      /\ globalSince' = globalSince /\ global' = global /\ globalLocked' = globalLocked
      /\ locked' = locked /\ spent' = spent /\ stale' = stale \cap present
      /\ draining = TRUE /\ visit = {} /\ visit' = visit
      /\ draining' = FALSE /\ present' = {} /\ drainIn' = DrainInterval
  BY <1>0 DEF DrainEnds, cache, RateTypeOK
<1>2. \A d \in Client : clientSince'[d] = IF d \in present THEN clientSince[d] ELSE Never
  BY <1>0 DEF DrainEnds, Reset, RateTypeOK
<1>3. Cached' = Cached /\ PendingGlobal' = PendingGlobal /\ \A d : Pending(d)' = Pending(d)
  BY <1>1 DEF Cached, PendingGlobal, Pending
<1>4. RateTypeOK'
  <2>1. clientSince' = [d \in Client |-> IF d \in Client \ present THEN Never ELSE clientSince[d]]
    BY <1>0 DEF DrainEnds, Reset, RateTypeOK
  <2>2. Never \in -1..Window
    BY RateAssumption DEF Never
  <2>3. clientSince' \in [Client -> -1..Window]
    BY <1>0, <2>1, <2>2 DEF RateTypeOK
  <2>4. drainIn' \in 0..DrainInterval
    BY <1>1, RateAssumption
  <2>6. draining' \in BOOLEAN /\ (draining' => drainIn' = 0)
    BY <1>1
  <2>5. visit' \subseteq Client /\ present' \subseteq Client /\ stale' \subseteq Client
    BY <1>0, <1>1 DEF RateTypeOK
  <2> QED
    BY <1>0, <1>1, <2>3, <2>4, <2>5, <2>6, Zenon DEF RateTypeOK
<1>5. CacheInv'
  BY <1>0, <1>1, <1>3, Zenon DEF CacheInv
<1>6. ChargeInv'
  BY <1>0, <1>1, <1>3, Zenon DEF ChargeInv
<1>7. LockInv'
  <2> SUFFICES ASSUME NEW d \in Client
               PROVE  /\ locked[d] # Never <=> IsLocked(limiter[d], ClientBudget)
                      /\ clientSince'[d] # Never /\ d \notin stale \cap present =>
                            \A a \in Age : a < clientSince'[d] => spent[d][a] = 0
    BY <1>1, Zenon DEF LockInv
  <2> QED
    BY <1>0, <1>2 DEF LockInv
<1>8. BoundInv'
  <2> SUFFICES ASSUME NEW d \in Client
               PROVE  LockedBefore(locked[d], clientSince'[d], DrainInterval)
    BY <1>1 DEF BoundInv
  <2>1. IF d \in present THEN LockedAfter(locked[d], clientSince[d]) ELSE locked[d] <= 0
    BY <1>0, <1>1 DEF BoundInv
  <2>2. locked[d] \in -1..Overdue /\ clientSince[d] \in -1..Window
    BY <1>0 DEF RateTypeOK
  <2> QED
    BY <1>2, <2>1, <2>2, RateAssumption DEF LockedAfter, LockedBefore, Never, Overdue
<1>9. GlobalInv'
  <2>1. LockedBefore(globalLocked, globalSince, DrainInterval)
    <3>1. LockedAfter(globalLocked, globalSince)
      BY <1>0, <1>1 DEF GlobalInv
    <3>2. globalLocked \in -1..Overdue /\ globalSince \in -1..Window
      BY <1>0 DEF RateTypeOK
    <3> QED
      BY <3>1, <3>2, RateAssumption DEF LockedAfter, LockedBefore, Never, Overdue
  <2> QED
    BY <1>0, <1>1, <1>3, <2>1 DEF GlobalInv
<1> QED
  BY <1>4, <1>5, <1>6, <1>7, <1>8, <1>9 DEF RateInv

(* drain passes over a client that is not locked. *)
LEMMA PassOverInv ==
    ASSUME RateInv, NEW c \in Client, c \in visit, DrainVisit(c),
           ~(c \in Cached /\ IsLocked(limiter[c], ClientBudget))
    PROVE  RateInv'
<1>0. /\ RateTypeOK /\ CacheInv /\ ChargeInv /\ LockInv /\ BoundInv /\ GlobalInv
  BY DEF RateInv
<1>1. /\ limiter' = limiter /\ lru' = lru /\ ttl' = ttl /\ call' = call
      /\ drainIn' = drainIn /\ present' = present /\ draining' = draining
      /\ globalSince' = globalSince /\ clientSince' = clientSince
      /\ locked' = locked /\ spent' = spent /\ stale' = stale
      /\ global' = global /\ globalLocked' = globalLocked /\ visit' = visit \ {c}
  BY DEF DrainVisit, cache
<1>2. Cached' = Cached /\ PendingGlobal' = PendingGlobal /\ \A d : Pending(d)' = Pending(d)
  BY <1>1 DEF Cached, PendingGlobal, Pending
<1>3. RateTypeOK'
  <2>1. visit' \subseteq Client
    BY <1>0, <1>1 DEF RateTypeOK
  <2> QED
    BY <1>0, <1>1, <2>1, Zenon DEF RateTypeOK
<1>4. CacheInv'
  BY <1>0, <1>1, <1>2, Zenon DEF CacheInv
<1>5. ChargeInv' /\ LockInv'
  BY <1>0, <1>1, <1>2, Zenon DEF ChargeInv, LockInv
<1>6. BoundInv'
  <2> SUFFICES ASSUME NEW d \in Client
               PROVE  IF ~draining \/ d \in visit \ {c}
                        THEN LockedBefore(locked[d], clientSince[d], drainIn)
                        ELSE IF d \in present THEN LockedAfter(locked[d], clientSince[d])
                        ELSE locked[d] <= 0
    BY <1>1 DEF BoundInv
  <2>1. CASE d # c
    BY <1>0, <2>1 DEF BoundInv
  <2>2. CASE d = c
    <3>1. locked[c] = -1
      BY <1>0, NewUnlocked DEF CacheInv, LockInv, Never
    <3>2. clientSince[c] \in -1..Window /\ drainIn \in 0..DrainInterval
      BY <1>0 DEF RateTypeOK
    <3>3. LockedBefore(locked[c], clientSince[c], drainIn) /\ LockedAfter(locked[c], clientSince[c])
      BY <3>1, <3>2, FreshLock
    <3> QED
      BY <2>2, <3>1, <3>3
  <2> QED
    BY <2>1, <2>2
<1>7. GlobalInv'
  BY <1>0, <1>1, <1>2, Zenon DEF GlobalInv
<1> QED
  BY <1>3, <1>4, <1>5, <1>6, <1>7 DEF RateInv

(* drain notes a client that is locked. *)
LEMMA NoteInv ==
    ASSUME RateInv, NEW c \in Client, c \in visit, DrainVisit(c),
           c \in Cached /\ IsLocked(limiter[c], ClientBudget), ~(clientSince[c] >= Window)
    PROVE  RateInv'
<1>0. /\ RateTypeOK /\ CacheInv /\ ChargeInv /\ LockInv /\ BoundInv /\ GlobalInv
  BY DEF RateInv
<1>1. /\ limiter' = limiter /\ lru' = lru /\ ttl' = ttl /\ call' = call
      /\ drainIn' = drainIn /\ present' = present \cup {c} /\ draining' = draining
      /\ globalSince' = globalSince
      /\ clientSince' = [clientSince EXCEPT ![c] = IF @ = Never THEN 0 ELSE @]
      /\ locked' = locked /\ spent' = spent /\ stale' = stale
      /\ global' = global /\ globalLocked' = globalLocked /\ visit' = visit \ {c}
  BY DEF DrainVisit, cache
<1>2. Cached' = Cached /\ PendingGlobal' = PendingGlobal /\ \A d : Pending(d)' = Pending(d)
  BY <1>1 DEF Cached, PendingGlobal, Pending
<1>3. /\ clientSince'[c] = IF clientSince[c] = Never THEN 0 ELSE clientSince[c]
      /\ \A d \in Client : d # c => clientSince'[d] = clientSince[d]
      /\ clientSince[c] \in -1..Window /\ locked[c] \in -1..Overdue /\ locked[c] # Never
  BY <1>0, <1>1 DEF RateTypeOK, LockInv
<1>4. RateTypeOK'
  <2>1. visit' \subseteq Client /\ present' \subseteq Client
    BY <1>0, <1>1 DEF RateTypeOK
  <2>2. clientSince'[c] \in -1..Window
    BY <1>3, RateAssumption DEF Never
  <2>3. clientSince' \in [Client -> -1..Window]
    BY <1>0, <1>1, <2>2 DEF RateTypeOK
  <2> QED
    BY <1>0, <1>1, <2>1, <2>3, Zenon DEF RateTypeOK
<1>5. CacheInv'
  BY <1>0, <1>1, <1>2, Zenon DEF CacheInv
<1>6. ChargeInv'
  BY <1>0, <1>1, <1>2, Zenon DEF ChargeInv
<1>7. LockInv'
  <2> SUFFICES ASSUME NEW d \in Client
               PROVE  /\ locked[d] # Never <=> IsLocked(limiter[d], ClientBudget)
                      /\ clientSince'[d] # Never /\ d \notin stale =>
                            \A a \in Age : a < clientSince'[d] => spent[d][a] = 0
    BY <1>1, Zenon DEF LockInv
  <2>1. CASE d # c
    BY <1>0, <1>3, <2>1 DEF LockInv
  <2>2. CASE d = c
    <3>1. \A a \in Age : ~(a < 0)
      BY RateAssumption DEF Age
    <3> QED
      BY <1>0, <1>3, <2>2, <3>1 DEF LockInv
  <2> QED
    BY <2>1, <2>2
<1>8. BoundInv'
  <2> SUFFICES ASSUME NEW d \in Client
               PROVE  IF ~draining \/ d \in visit \ {c}
                        THEN LockedBefore(locked[d], clientSince'[d], drainIn)
                        ELSE IF d \in present \cup {c} THEN LockedAfter(locked[d], clientSince'[d])
                        ELSE locked[d] <= 0
    BY <1>1 DEF BoundInv
  <2>1. CASE d # c
    BY <1>0, <1>3, <2>1 DEF BoundInv
  <2>2. CASE d = c
    <3>1. LockedBefore(locked[c], clientSince[c], drainIn) /\ drainIn \in 0..DrainInterval
      BY <1>0 DEF BoundInv, RateTypeOK
    <3>2. /\ LockedBefore(locked[c], clientSince'[c], drainIn)
          /\ LockedAfter(locked[c], clientSince'[c])
      BY <1>3, <3>1, RateAssumption DEF LockedAfter, LockedBefore, Never, Overdue
    <3> QED
      BY <2>2, <3>2
  <2> QED
    BY <2>1, <2>2
<1>9. GlobalInv'
  BY <1>0, <1>1, <1>2, Zenon DEF GlobalInv
<1> QED
  BY <1>4, <1>5, <1>6, <1>7, <1>8, <1>9 DEF RateInv

(* drain replaces a limiter that was locked for a window: its log is empty *)
(* by now, unless the client was charged since the note was taken.         *)
LEMMA ReplaceInv ==
    ASSUME RateInv, NEW c \in Client, c \in visit, DrainVisit(c),
           c \in Cached /\ IsLocked(limiter[c], ClientBudget), clientSince[c] >= Window
    PROVE  RateInv'
<1>0. /\ RateTypeOK /\ CacheInv /\ ChargeInv /\ LockInv /\ BoundInv /\ GlobalInv
  BY DEF RateInv
<1>1. /\ limiter' = [limiter EXCEPT ![c] = newLimiter] /\ lru' = Touched(c)
      /\ ttl' = [ttl EXCEPT ![c] = LimiterTTL] /\ call' = Orphaned({c})
      /\ clientSince' = [clientSince EXCEPT ![c] = Never]
      /\ locked' = [locked EXCEPT ![c] = Never]
      /\ spent' = Reset(spent, stale \cap {c}, [a \in Age |-> 0])
      /\ stale' = stale \ {c} /\ present' = present \cup {c} /\ visit' = visit \ {c}
      /\ drainIn' = drainIn /\ draining' = draining
      /\ globalSince' = globalSince /\ global' = global /\ globalLocked' = globalLocked
  BY DEF DrainVisit, Replace
<1>2. /\ limiter'[c] = newLimiter /\ ttl'[c] = LimiterTTL /\ clientSince'[c] = Never
      /\ locked'[c] = Never
      /\ spent'[c] = IF c \in stale THEN [a \in Age |-> 0] ELSE spent[c]
  BY <1>0, <1>1 DEF RateTypeOK, Reset
<1>3. ASSUME NEW d \in Client, d # c
      PROVE  /\ limiter'[d] = limiter[d] /\ ttl'[d] = ttl[d] /\ locked'[d] = locked[d]
             /\ clientSince'[d] = clientSince[d] /\ spent'[d] = spent[d]
             /\ (d \in stale' <=> d \in stale)
  BY <1>0, <1>1, <1>3 DEF RateTypeOK, Reset
<1>4. /\ lru' \in Seq(Client) /\ Len(lru') <= MaxLimiters /\ ToSet(lru') = ToSet(lru)
  <2>1. c \in ToSet(lru)
    BY DEF Cached
  <2>2. /\ Touched(c) \in Seq(Client) /\ Len(Touched(c)) <= MaxLimiters
        /\ ToSet(Touched(c)) \subseteq ToSet(lru) \cup {c}
        /\ ToSet(lru) \subseteq ToSet(Touched(c))
    BY <1>0, <2>1, TouchedEntries DEF RateTypeOK
  <2>3. ToSet(Touched(c)) = ToSet(lru)
    BY <2>1, <2>2, Zenon
  <2> QED
    BY <1>1, <2>2, <2>3, Zenon
<1>5. Cached' = Cached
  <2>1. LimiterTTL > 0
    BY RateAssumption
  <2>2. ToSet(lru) \subseteq Client
    BY <1>0 DEF RateTypeOK, ToSet
  <2>3. \A d \in ToSet(lru) : ttl'[d] > 0 <=> ttl[d] > 0
    BY <1>2, <1>3, <2>1, <2>2 DEF Cached
  <2> QED
    BY <1>4, <2>3 DEF Cached
<1>6. ASSUME NEW v \in Worker
      PROVE  /\ call'[v] \in {Idle} \cup Call
             /\ call'[v].step \in {"global", "inGlobal"} <=> call[v].step \in {"global", "inGlobal"}
             /\ call'[v] # Idle => call'[v].held = call[v].held
             /\ v \notin Pending(c)'
             /\ \A d \in Client \ {c} : v \in Pending(d)' <=> v \in Pending(d)
  BY <1>0, <1>1, OrphanedCall DEF Pending
<1>7. Pending(c)' = {} /\ (\A d \in Client \ {c} : Pending(d)' = Pending(d))
  <2>1. \A d : Pending(d)' \subseteq Worker /\ Pending(d) \subseteq Worker
    BY DEF Pending
  <2> HIDE DEF Pending
  <2> QED
    BY <1>6, <2>1
<1>8. PendingGlobal' = PendingGlobal
  BY <1>6 DEF PendingGlobal
<1>9. RateTypeOK'
  <2>1. visit' \subseteq Client /\ present' \subseteq Client /\ stale' \subseteq Client
    BY <1>0, <1>1 DEF RateTypeOK
  <2>2. Never \in -1..Window /\ Never \in -1..Overdue /\ LimiterTTL \in 0..LimiterTTL
    BY RateAssumption DEF Never, Overdue
  <2>3. /\ clientSince' \in [Client -> -1..Window] /\ locked' \in [Client -> -1..Overdue]
        /\ ttl' \in [Client -> 0..LimiterTTL] /\ limiter' \in [Client -> Sound]
    BY <1>0, <1>1, <2>2, NewLimiter DEF RateTypeOK
  <2>4. call' \in [Worker -> {Idle} \cup Call]
    BY <1>1, <1>6 DEF Orphaned
  <2>5. spent' \in [Client -> [Age -> Nat]]
    BY <1>0, <1>1 DEF RateTypeOK, Reset
  <2> QED
    BY <1>0, <1>1, <1>4, <2>1, <2>3, <2>4, <2>5, Zenon DEF RateTypeOK
<1>10. CacheInv'
  <2> SUFFICES ASSUME NEW d \in Client
               PROVE  /\ d \notin Cached => limiter'[d] = newLimiter
                      /\ \A v \in Pending(d)' :
                            d \in Cached /\ ttl'[d] + call'[v].held >= LimiterTTL
    BY <1>5 DEF CacheInv
  <2>1. CASE d = c
    BY <1>2, <1>7, <2>1
  <2>2. CASE d # c
    <3>1. Pending(d)' = Pending(d) /\ \A v \in Pending(d) : call'[v].held = call[v].held
      BY <1>6, <1>7, <2>2 DEF Pending
    <3> QED
      BY <1>0, <1>3, <2>2, <3>1 DEF CacheInv
  <2> QED
    BY <2>1, <2>2
<1>11. ChargeInv'
  <2> SUFFICES ASSUME NEW d \in Client
               PROVE  /\ Exact(limiter'[d])
                      /\ Room(limiter'[d], ClientBudget, Cardinality(Pending(d)'))
                      /\ ~limiter'[d].raced => spent'[d] = limiter'[d].charged
                      /\ \A a \in Age : spent'[d][a] > 0 => ttl'[d] + a >= Window
    BY Zenon DEF ChargeInv
  <2>1. CASE d = c
    <3>1. spent'[c] = newLimiter.charged
      <4>1. CASE c \in stale
        BY <1>2, <4>1, NewLimiter
      <4>2. CASE c \notin stale
        <5>1. clientSince[c] \in -1..Window /\ Window \in Nat
          BY <1>0, RateAssumption DEF RateTypeOK
        <5>2. clientSince[c] # Never /\ \A a \in Age : a < clientSince[c]
          BY <5>1 DEF Never, Age
        <5>3. \A a \in Age : spent[c][a] = 0
          BY <1>0, <4>2, <5>2 DEF LockInv
        <5>4. spent[c] \in [Age -> Nat]
          BY <1>0 DEF RateTypeOK
        <5>5. spent[c] = [a \in Age |-> 0]
          BY <5>3, <5>4
        <5> QED
          BY <1>2, <4>2, <5>5, NewLimiter
      <4> QED
        BY <4>1, <4>2
    <3>2. Room(newLimiter, ClientBudget, Cardinality(Pending(c)'))
      BY <1>7, NewHasRoom
    <3> QED
      BY <1>2, <2>1, <3>1, <3>2, NewLimiter
  <2>2. CASE d # c
    BY <1>0, <1>3, <1>7, <2>2 DEF ChargeInv
  <2> QED
    BY <2>1, <2>2
<1>12. LockInv'
  <2> SUFFICES ASSUME NEW d \in Client
               PROVE  /\ locked'[d] # Never <=> IsLocked(limiter'[d], ClientBudget)
                      /\ clientSince'[d] # Never /\ d \notin stale' =>
                            \A a \in Age : a < clientSince'[d] => spent'[d][a] = 0
    BY Zenon DEF LockInv
  <2>1. CASE d = c
    BY <1>1, <1>2, <2>1, NewUnlocked
  <2>2. CASE d # c
    BY <1>0, <1>3, <2>2 DEF LockInv
  <2> QED
    BY <2>1, <2>2
<1>13. BoundInv'
  <2> SUFFICES ASSUME NEW d \in Client
               PROVE  IF ~draining \/ d \in visit \ {c}
                        THEN LockedBefore(locked'[d], clientSince'[d], drainIn)
                        ELSE IF d \in present \cup {c} THEN LockedAfter(locked'[d], clientSince'[d])
                        ELSE locked'[d] <= 0
    BY <1>1 DEF BoundInv
  <2>1. CASE d # c
    BY <1>0, <1>3, <2>1 DEF BoundInv
  <2>2. CASE d = c
    <3>1. locked'[c] \in {-1, 0} /\ clientSince'[c] \in -1..Window /\ drainIn \in 0..DrainInterval
      BY <1>0, <1>2, RateAssumption DEF Never, RateTypeOK
    <3>2. /\ LockedBefore(locked'[c], clientSince'[c], drainIn)
          /\ LockedAfter(locked'[c], clientSince'[c])
      BY <3>1, FreshLock
    <3> QED
      BY <2>2, <3>2
  <2> QED
    BY <2>1, <2>2
<1>14. GlobalInv'
  BY <1>0, <1>1, <1>8, Zenon DEF GlobalInv
<1> QED
  BY <1>9, <1>10, <1>11, <1>12, <1>13, <1>14 DEF RateInv

(* Time that is counted up to a limit. *)
LEMMA CountedIsNext ==
    ASSUME NEW limit \in Nat, NEW t \in -1..limit
    PROVE  /\ Counted(t, limit) \in -1..limit
           /\ Counted(t, limit) = Never <=> t = Never
           /\ t # Never /\ t < limit => Counted(t, limit) = t + 1
           /\ Counted(t, limit) <= t + 1
  BY DEF Counted, Never

(* A lock grows by one while the round comes nearer by one. *)
LEMMA LockGrows ==
    ASSUME NEW lock \in -1..Overdue, NEW since \in -1..Window, NEW d \in 1..DrainInterval,
           LockedBefore(lock, since, d)
    PROVE  /\ LockedBefore(Counted(lock, Overdue), Counted(since, Window), d - 1)
           /\ lock # Never => lock + 1 < Overdue
<1>1. /\ Window \in Nat \ {0} /\ DrainInterval \in Nat \ {0} /\ Overdue \in Nat
      /\ Overdue = Window + 2 * DrainInterval
  BY RateAssumption DEF Overdue
<1>2. lock # Never => lock + 1 < Overdue
  BY <1>1 DEF LockedBefore, Never
<1>3. LockedBefore(Counted(lock, Overdue), Counted(since, Window), d - 1)
  BY <1>1, <1>2 DEF LockedBefore, Counted, Never
<1> QED
  BY <1>2, <1>3

(* Time that passes keeps the invariant: no entry expires before its log   *)
(* is empty and its requests have been charged.                            *)
LEMMA TickInv ==
    ASSUME RateInv, Tick
    PROVE  RateInv'
<1> DEFINE gone == {c \in Cached : ttl[c] = 1}
<1>0. /\ RateTypeOK /\ CacheInv /\ ChargeInv /\ LockInv /\ BoundInv /\ GlobalInv
  BY DEF RateInv
<1>1. /\ draining = FALSE /\ drainIn > 0 /\ drainIn' = drainIn - 1
      /\ global' = Aged(global) /\ lru' = lru
      /\ visit' = visit /\ present' = present /\ draining' = draining /\ stale' = stale
      /\ globalSince' = Counted(globalSince, Window)
      /\ globalLocked' = Counted(globalLocked, Overdue)
  BY <1>0 DEF Tick, RateTypeOK
<1>2. /\ ttl' = [c \in Client |-> IF c \in Cached THEN ttl[c] - 1 ELSE 0]
      /\ limiter' = Reset([c \in Client |-> Aged(limiter[c])], gone, newLimiter)
      /\ clientSince' = [c \in Client |-> Counted(clientSince[c], Window)]
      /\ locked' = Reset([c \in Client |-> Counted(locked[c], Overdue)], gone, Never)
      /\ spent' = [c \in Client |-> Later(spent[c])]
      /\ \A w \in Worker : call[w] # Idle => call[w].held < MaxHold
      /\ call' = [w \in Worker |-> IF Orphaned(gone)[w] = Idle THEN Idle
                                   ELSE [Orphaned(gone)[w] EXCEPT !.held = @ + 1]]
  BY DEF Tick
<1>3. ASSUME NEW d \in Client
      PROVE  /\ ttl'[d] = IF d \in Cached THEN ttl[d] - 1 ELSE 0
             /\ limiter'[d] = IF d \in gone THEN newLimiter ELSE Aged(limiter[d])
             /\ clientSince'[d] = Counted(clientSince[d], Window)
             /\ locked'[d] = IF d \in gone THEN Never ELSE Counted(locked[d], Overdue)
             /\ spent'[d] = Later(spent[d])
  BY <1>2 DEF Reset
<1>4. ASSUME NEW d \in Client
      PROVE  /\ limiter[d] \in Sound /\ spent[d] \in [Age -> Nat]
             /\ ttl[d] \in 0..LimiterTTL /\ (d \in Cached => ttl[d] > 0)
             /\ locked[d] \in -1..Overdue /\ clientSince[d] \in -1..Window
             /\ Exact(limiter[d])
             /\ LockedBefore(locked[d], clientSince[d], drainIn)
  BY <1>0, <1>1 DEF RateTypeOK, Cached, ChargeInv, BoundInv
<1>5. drainIn \in 1..DrainInterval
  BY <1>0, <1>1, RateAssumption DEF RateTypeOK
<1>6. /\ Window \in Nat \ {0} /\ Overdue \in Nat /\ LimiterTTL \in Nat /\ MaxHold \in Nat
      /\ LimiterTTL >= Window + MaxHold
  BY RateAssumption DEF Overdue
<1>7. Cached' \subseteq Cached
  <2>1. ToSet(lru) \subseteq Client
    BY <1>0 DEF RateTypeOK, ToSet
  <2>2. \A d \in ToSet(lru) : ttl'[d] > 0 => d \in Cached
    BY <1>3, <2>1
  <2> QED
    BY <1>1, <2>2 DEF Cached
<1>8. ASSUME NEW d \in Client PROVE d \in Cached /\ d \notin gone => d \in Cached'
  <2> SUFFICES ASSUME d \in Cached, d \notin gone PROVE d \in Cached'
    OBVIOUS
  <2>1. ttl'[d] > 0
    BY <1>3, <1>4
  <2> QED
    BY <1>1, <2>1 DEF Cached
<1>9. ASSUME NEW d \in gone, d \in Client PROVE Later(spent[d]) = [a \in Age |-> 0]
  <2>1. ASSUME NEW a \in Age PROVE Later(spent[d])[a] = 0
    <3>1. CASE a = 0
      BY <3>1 DEF Later
    <3>2. CASE a # 0
      <4>1. a - 1 \in Age /\ a \in Nat /\ a < Window
        BY <1>6, <3>2 DEF Age
      <4>2. spent[d][a - 1] > 0 => 1 + (a - 1) >= Window
        BY <1>0, <1>9, <4>1 DEF ChargeInv
      <4>3. spent[d][a - 1] \in Nat
        BY <1>4, <1>9, <4>1
      <4> QED
        BY <1>6, <3>2, <4>1, <4>2, <4>3 DEF Later
    <3> QED
      BY <3>1, <3>2
  <2> QED
    BY <2>1 DEF Later
<1>10. ASSUME NEW d \in Client, NEW v \in Pending(d)
       PROVE  /\ v \in Worker /\ call[v] \in Call /\ call[v].held \in Nat
              /\ call[v].held < MaxHold /\ d \in Cached \ gone
  <2>1. v \in Worker /\ call[v] \in Call /\ call[v] # Idle
    BY <1>0 DEF Pending, RateTypeOK
  <2>2. call[v].held \in Nat /\ call[v].held < MaxHold
    BY <1>2, <1>6, <2>1 DEF Call
  <2>3. d \in Cached /\ ttl[d] + call[v].held >= LimiterTTL
    BY <1>0 DEF CacheInv
  <2>4. ttl[d] # 1
    BY <1>4, <1>6, <2>2, <2>3
  <2> QED
    BY <2>1, <2>2, <2>3, <2>4
<1> HIDE DEF gone
<1>11. ASSUME NEW v \in Worker
       PROVE  /\ call'[v] \in {Idle} \cup Call
              /\ call'[v].step \in {"global", "inGlobal"}
                    <=> call[v].step \in {"global", "inGlobal"}
              /\ call'[v] # Idle => /\ call'[v].client = call[v].client
                                    /\ call'[v].held = call[v].held + 1
              /\ call'[v] # Idle /\ ~call'[v].orphan
                    <=> call[v] # Idle /\ ~call[v].orphan /\ call[v].client \notin gone
  <2> DEFINE o == Orphaned(gone)[v]
  <2>1. /\ call[v] = Idle => o = Idle
        /\ o.step \in {"global", "inGlobal"} <=> call[v].step \in {"global", "inGlobal"}
        /\ o # Idle => /\ o \in Call /\ call[v] \in Call
                       /\ o.client = call[v].client /\ o.held = call[v].held
        /\ o # Idle /\ ~o.orphan
              <=> call[v] # Idle /\ ~call[v].orphan /\ call[v].client \notin gone
    BY <1>0, OrphanedCall
  <2>2. call'[v] = IF o = Idle THEN Idle ELSE [o EXCEPT !.held = @ + 1]
    BY <1>2
  <2> HIDE DEF o
  <2>3. CASE o = Idle
    BY <2>1, <2>2, <2>3
  <2>4. CASE o # Idle
    <3>1. call[v] # Idle /\ call[v].held < MaxHold
      BY <1>2, <2>1, <2>4
    <3>2. o.held + 1 \in 0..MaxHold
      BY <1>6, <2>1, <2>4, <3>1 DEF Call
    <3>3. /\ call'[v] \in Call /\ call'[v].step = o.step /\ call'[v].client = o.client
          /\ call'[v].orphan = o.orphan /\ call'[v].held = o.held + 1
      BY <2>1, <2>2, <2>4, <3>2 DEF Call
    <3>4. call'[v] # Idle
      BY <3>3 DEF Call, Idle
    <3> QED
      BY <2>1, <2>4, <3>3, <3>4
  <2> QED
    BY <2>3, <2>4
<1>12. ASSUME NEW d \in Client PROVE Pending(d)' = Pending(d)
  <2>1. ASSUME NEW v \in Worker, v \in Pending(d) PROVE v \in Pending(d)'
    <3>1. d \notin gone
      BY <1>10, <2>1
    <3> QED
      BY <1>11, <2>1, <3>1 DEF Pending
  <2>2. ASSUME NEW v \in Worker, v \in Pending(d)' PROVE v \in Pending(d)
    BY <1>11, <2>2 DEF Pending
  <2>3. Pending(d)' \subseteq Worker /\ Pending(d) \subseteq Worker
    BY DEF Pending
  <2> HIDE DEF Pending
  <2> QED
    BY <2>1, <2>2, <2>3
<1>13. PendingGlobal' = PendingGlobal
  BY <1>11 DEF PendingGlobal
<1>14. ASSUME NEW d \in Client
       PROVE  /\ Aged(limiter[d]) \in Sound /\ Exact(Aged(limiter[d]))
              /\ Aged(limiter[d]).total = limiter[d].total
              /\ Aged(limiter[d]).raced = limiter[d].raced
              /\ Aged(limiter[d]).charged = Later(limiter[d].charged)
  BY <1>4, AgedKeepsTotal
<1>15. ASSUME NEW d \in Client
       PROVE  /\ Counted(locked[d], Overdue) \in -1..Overdue
              /\ Counted(locked[d], Overdue) = Never <=> locked[d] = Never
              /\ Counted(clientSince[d], Window) \in -1..Window
              /\ Counted(clientSince[d], Window) = Never <=> clientSince[d] = Never
              /\ Counted(clientSince[d], Window) <= clientSince[d] + 1
  BY <1>4, <1>6, CountedIsNext
<1>16. Later([a \in Age |-> 0]) = [a \in Age |-> 0]
  BY RateAssumption DEF Later, Age
<1>17. RateTypeOK'
  <2>1. global' \in Sound
    BY <1>0, <1>1, AgedKeepsTotal DEF RateTypeOK, GlobalInv
  <2>2. limiter' \in [Client -> Sound]
    <3>1. \A d \in Client : limiter'[d] \in Sound
      BY <1>3, <1>14, NewLimiter
    <3>2. limiter' = [d \in Client |-> limiter'[d]]
      BY <1>2 DEF Reset
    <3> QED
      BY <3>1, <3>2, Zenon
  <2>3. ttl' \in [Client -> 0..LimiterTTL]
    <3>1. \A d \in Client : ttl'[d] \in 0..LimiterTTL
      BY <1>3, <1>4, <1>6
    <3> QED
      BY <1>2, <3>1
  <2>4. drainIn' \in 0..DrainInterval
    BY <1>1, <1>5, RateAssumption
  <2>5. clientSince' \in [Client -> -1..Window]
    BY <1>2, <1>15
  <2>6. locked' \in [Client -> -1..Overdue]
    <3>1. Never \in -1..Overdue
      BY <1>6 DEF Never
    <3>2. \A d \in Client : locked'[d] \in -1..Overdue
      BY <1>3, <1>15, <3>1
    <3>3. locked' = [d \in Client |-> locked'[d]]
      BY <1>2 DEF Reset
    <3> QED
      BY <3>2, <3>3, Zenon
  <2>7. spent' \in [Client -> [Age -> Nat]]
    <3>1. \A d \in Client : Later(spent[d]) \in [Age -> Nat]
      BY <1>4, SumOfLater
    <3> QED
      BY <1>2, <3>1
  <2>8. globalSince' \in -1..Window /\ globalLocked' \in -1..Overdue
    BY <1>0, <1>1, <1>6, CountedIsNext DEF RateTypeOK
  <2>9. draining' => drainIn' = 0
    BY <1>1
  <2>10. call' \in [Worker -> {Idle} \cup Call]
    <3>1. \A v \in Worker : call'[v] \in {Idle} \cup Call
      BY <1>11
    <3> QED
      BY <1>2, <3>1
  <2> QED
    BY <1>0, <1>1, <2>1, <2>2, <2>3, <2>4, <2>5, <2>6, <2>7, <2>8, <2>9, <2>10, Zenon
    DEF RateTypeOK
<1>18. CacheInv'
  <2> SUFFICES ASSUME NEW d \in Client
               PROVE  /\ d \notin Cached' => limiter'[d] = newLimiter
                      /\ \A v \in Pending(d)' :
                            d \in Cached' /\ ttl'[d] + call'[v].held >= LimiterTTL
    BY DEF CacheInv
  <2>1. ASSUME d \notin Cached' PROVE limiter'[d] = newLimiter
    <3>1. CASE d \in gone
      BY <1>3, <3>1
    <3>2. CASE d \notin gone
      <4>1. limiter[d] = newLimiter
        BY <1>0, <1>8, <2>1, <3>2 DEF CacheInv
      <4>2. Aged(newLimiter) = newLimiter
        <5>1. Window - 1 \in Age
          BY RateAssumption DEF Age
        <5> QED
          <6> DEFINE none == [a \in Age |-> 0]
          <6>1. newLimiter = [charged |-> none, expired |-> 0, total |-> 0,
                              due |-> Never, raced |-> FALSE]
            BY DEF newLimiter
          <6>2. newLimiter.expired + newLimiter.charged[Window - 1] = 0
            BY <5>1, <6>1
          <6>3. Later(newLimiter.charged) = none
            BY <1>16, <6>1
          <6> HIDE DEF none
          <6>4. Aged(newLimiter) = [newLimiter EXCEPT !.charged = none, !.expired = 0]
            BY <6>2, <6>3 DEF Aged
          <6> QED
            BY <6>1, <6>4
      <4> QED
        BY <1>3, <3>2, <4>1, <4>2
    <3> QED
      BY <3>1, <3>2
  <2>2. ASSUME NEW v \in Worker, v \in Pending(d)'
        PROVE  d \in Cached' /\ ttl'[d] + call'[v].held >= LimiterTTL
    <3>1. v \in Pending(d)
      BY <1>12, <2>2
    <3>2. /\ call[v].held \in Nat /\ d \in Cached \ gone
          /\ call'[v].held = call[v].held + 1 /\ ttl[d] + call[v].held >= LimiterTTL
      BY <1>0, <1>10, <1>11, <3>1 DEF CacheInv, Pending
    <3> QED
      BY <1>3, <1>4, <1>6, <1>8, <3>2
  <2> QED
    BY <2>1, <2>2 DEF Pending
<1>19. ChargeInv'
  <2> SUFFICES ASSUME NEW d \in Client
               PROVE  /\ Exact(limiter'[d])
                      /\ Room(limiter'[d], ClientBudget, Cardinality(Pending(d)'))
                      /\ ~limiter'[d].raced => spent'[d] = limiter'[d].charged
                      /\ \A a \in Age : spent'[d][a] > 0 => ttl'[d] + a >= Window
    BY Zenon DEF ChargeInv
  <2>1. CASE d \in gone
    <3>1. spent'[d] = [a \in Age |-> 0]
      BY <1>3, <1>9, <2>1
    <3>2. Room(newLimiter, ClientBudget, Cardinality(Pending(d)'))
      <4>1. Pending(d)' \in SUBSET Worker
        BY DEF Pending
      <4> QED
        BY <4>1, NewHasRoom
    <3> QED
      BY <1>3, <2>1, <3>1, <3>2, NewLimiter
  <2>2. CASE d \notin gone
    <3>1. limiter'[d] = Aged(limiter[d])
      BY <1>3, <2>2
    <3>2. Room(limiter'[d], ClientBudget, Cardinality(Pending(d)'))
      BY <1>0, <1>12, <1>14, <3>1 DEF ChargeInv, Room
    <3>3. ASSUME NEW a \in Age, spent'[d][a] > 0 PROVE ttl'[d] + a >= Window
      <4>1. spent'[d] = Later(spent[d])
        BY <1>3
      <4>2. a # 0 /\ a - 1 \in Age /\ spent[d][a - 1] > 0
        BY <3>3, <4>1, RateAssumption DEF Later, Age
      <4>3. ttl[d] + (a - 1) >= Window
        BY <1>0, <4>2 DEF ChargeInv
      <4>4. d \in Cached
        <5>1. newLimiter.charged[a - 1] = 0 /\ ~newLimiter.raced
          BY <4>2, NewLimiter
        <5> QED
          BY <1>0, <4>2, <5>1 DEF CacheInv, ChargeInv
      <4>5. a \in Nat
        BY RateAssumption DEF Age
      <4> QED
        BY <1>3, <1>4, <1>6, <4>3, <4>4, <4>5
    <3>4. ~limiter'[d].raced => spent'[d] = limiter'[d].charged
      BY <1>0, <1>3, <1>14, <3>1 DEF ChargeInv
    <3> QED
      BY <1>14, <3>1, <3>2, <3>3, <3>4
  <2> QED
    BY <2>1, <2>2
<1>20. LockInv'
  <2> SUFFICES ASSUME NEW d \in Client
               PROVE  /\ locked'[d] # Never <=> IsLocked(limiter'[d], ClientBudget)
                      /\ clientSince'[d] # Never /\ d \notin stale =>
                            \A a \in Age : a < clientSince'[d] => spent'[d][a] = 0
    BY <1>1, Zenon DEF LockInv
  <2>1. locked'[d] # Never <=> IsLocked(limiter'[d], ClientBudget)
    <3>1. CASE d \in gone
      BY <1>3, <3>1, NewUnlocked
    <3>2. CASE d \notin gone
      BY <1>0, <1>3, <1>14, <1>15, <3>2 DEF LockInv, IsLocked
    <3> QED
      BY <3>1, <3>2
  <2>2. ASSUME clientSince'[d] # Never, d \notin stale, NEW a \in Age, a < clientSince'[d]
        PROVE  spent'[d][a] = 0
    <3>1. clientSince[d] # Never
      BY <1>3, <1>15, <2>2
    <3>2. \A b \in Age : b < clientSince[d] => spent[d][b] = 0
      BY <1>0, <2>2, <3>1 DEF LockInv
    <3>3. CASE a = 0
      BY <1>3, <3>3 DEF Later
    <3>4. CASE a # 0
      <4>1. a - 1 \in Age /\ a \in Nat
        BY <3>4, RateAssumption DEF Age
      <4>2. clientSince'[d] \in Int /\ clientSince[d] \in Int
            /\ clientSince'[d] <= clientSince[d] + 1
        BY <1>3, <1>4, <1>15
      <4>3. a - 1 < clientSince[d]
        BY <2>2, <4>1, <4>2
      <4> QED
        BY <1>3, <3>2, <3>4, <4>1, <4>3 DEF Later
    <3> QED
      BY <3>3, <3>4
  <2> QED
    BY <2>1, <2>2
<1>21. BoundInv'
  <2> SUFFICES ASSUME NEW d \in Client
               PROVE  LockedBefore(locked'[d], clientSince'[d], drainIn - 1)
    BY <1>1 DEF BoundInv
  <2>1. CASE d \in gone
    <3>1. locked'[d] \in {-1, 0} /\ clientSince'[d] \in -1..Window
          /\ drainIn - 1 \in 0..DrainInterval
      BY <1>3, <1>5, <1>15, <2>1, RateAssumption DEF Never
    <3> QED
      BY <3>1, FreshLock
  <2>2. CASE d \notin gone
    BY <1>3, <1>4, <1>5, <2>2, LockGrows
  <2> QED
    BY <2>1, <2>2
<1>22. GlobalInv'
  <2>1. global \in Sound /\ Exact(global) /\ globalSince \in -1..Window
        /\ globalLocked \in -1..Overdue
    BY <1>0 DEF RateTypeOK, GlobalInv
  <2>2. Exact(global') /\ global'.total = global.total /\ global'.raced = global.raced
    BY <1>1, <2>1, AgedKeepsTotal
  <2>3. Room(global, GlobalBudget, Cardinality(PendingGlobal))'
    BY <1>0, <1>13, <2>2 DEF GlobalInv, Room
  <2>4. globalLocked' # Never <=> IsLocked(global', GlobalBudget)
    BY <1>0, <1>1, <1>6, <2>1, <2>2, CountedIsNext DEF GlobalInv, IsLocked
  <2>5. LockedBefore(globalLocked', globalSince', drainIn')
    <3>1. LockedBefore(globalLocked, globalSince, drainIn)
      BY <1>0, <1>1 DEF GlobalInv
    <3> QED
      BY <1>1, <1>5, <2>1, <3>1, LockGrows
  <2> QED
    BY <1>1, <2>2, <2>3, <2>4, <2>5 DEF GlobalInv
<1> QED
  BY <1>17, <1>18, <1>19, <1>20, <1>21, <1>22 DEF RateInv

(* Every step of the throttle keeps the invariant. *)
LEMMA RateStepInv ==
    ASSUME RateInv, [RateNext]_rateVars
    PROVE  RateInv'
<1>1. ASSUME NEW w \in Worker, NEW c \in Client, NEW p \in Paths, Arrive(w, c, p)
      PROVE  RateInv'
  BY <1>1, ArriveInv
<1>2. ASSUME NEW w \in Worker, BeginGlobal(w) \/ EndGlobal(w) PROVE RateInv'
  BY <1>2, BeginGlobalInv, EndGlobalInv
<1>3. ASSUME NEW w \in Worker, BeginClient(w) \/ EndClient(w) PROVE RateInv'
  <2>1. call[w].client \in Client
    <3>1. call[w] \in {Idle} \cup Call /\ call[w].step \in {"client", "inClient"}
      BY <1>3 DEF RateInv, RateTypeOK, BeginClient, EndClient
    <3> QED
      BY <3>1 DEF Idle, Call
  <2> QED
    BY <1>3, <2>1, BeginClientInv, EndClientInv
<1>4. CASE DrainBegins
  BY <1>4, DrainBeginsInv
<1>5. CASE DrainEnds
  BY <1>5, DrainEndsInv
<1>6. CASE Tick
  BY <1>6, TickInv
<1>7. ASSUME NEW c \in Client, DrainVisit(c) PROVE RateInv'
  <2>1. c \in visit
    BY <1>7 DEF DrainVisit
  <2> QED
    BY <1>7, <2>1, PassOverInv, NoteInv, ReplaceInv
<1>8. CASE UNCHANGED rateVars
  <2>1. /\ global' = global /\ limiter' = limiter /\ lru' = lru /\ ttl' = ttl /\ call' = call
        /\ drainIn' = drainIn /\ visit' = visit /\ present' = present /\ draining' = draining
        /\ globalSince' = globalSince /\ clientSince' = clientSince
        /\ globalLocked' = globalLocked /\ locked' = locked /\ spent' = spent /\ stale' = stale
    BY <1>8 DEF rateVars, cache, drain, history
  <2>2. Cached' = Cached /\ PendingGlobal' = PendingGlobal /\ \A d : Pending(d)' = Pending(d)
    BY <2>1 DEF Cached, PendingGlobal, Pending
  <2> QED
    BY <2>1, <2>2, Zenon
    DEF RateInv, RateTypeOK, CacheInv, ChargeInv, LockInv, BoundInv, GlobalInv
<1> QED
  BY <1>1, <1>2, <1>3, <1>4, <1>5, <1>6, <1>7, <1>8, Zenon DEF RateNext

(* For every window, budget, cache and set of clients the total that a     *)
(* limiter keeps is the weight in its log, less what a call under way has  *)
(* subtracted already, unless calls of Limit raced on it: Limit never      *)
(* wraps around below zero after an idle gap, which would answer 429 to    *)
(* peers under budget.                                                     *)
THEOREM TotalsExact == RateSpec => []TotalIsExact
<1>1. RateInv => TotalIsExact
  <2> SUFFICES ASSUME RateInv, NEW l \in {global} \cup Range(limiter), ~l.raced
               PROVE  l.total + Subtracted(l) = Sum(l.charged) + l.expired
    BY DEF TotalIsExact
  <2>1. Range(limiter) = {limiter[c] : c \in Client}
    BY DEF RateInv, RateTypeOK, Range
  <2>2. Exact(global) /\ \A c \in Client : Exact(limiter[c])
    BY DEF RateInv, GlobalInv, ChargeInv
  <2> QED
    BY <2>1, <2>2 DEF Exact
<1> QED
  BY <1>1, RateInitInv, RateStepInv, PTL DEF RateSpec

(* Every locked limiter is replaced within a window and two rounds of      *)
(* drain, although refused requests keep renewing its entry, others are    *)
(* evicted, notes of evicted limiters are left over, and calls of Limit    *)
(* that race may leave any number as the total.                            *)
THEOREM LocksEnd == RateSpec => []LockEnds
<1>1. RateInv => LockEnds
  <2> SUFFICES ASSUME RateInv, NEW t \in {globalLocked} \cup Range(locked)
               PROVE  t < Overdue
    BY DEF LockEnds
  <2>1. Range(locked) = {locked[c] : c \in Client}
    BY DEF RateInv, RateTypeOK, Range
  <2>2. ASSUME NEW lock \in -1..Overdue, NEW since \in -1..Window,
               NEW d \in 0..DrainInterval,
               LockedBefore(lock, since, d) \/ LockedAfter(lock, since) \/ lock <= 0
        PROVE  lock < Overdue
    BY <2>2, RateAssumption DEF LockedBefore, LockedAfter, Overdue, Never
  <2>3. /\ globalLocked \in -1..Overdue /\ globalSince \in -1..Window
        /\ drainIn \in 0..DrainInterval
        /\ LockedBefore(globalLocked, globalSince, drainIn) \/ LockedAfter(globalLocked, globalSince)
    BY DEF RateInv, RateTypeOK, GlobalInv
  <2>4. ASSUME NEW c \in Client
        PROVE  /\ locked[c] \in -1..Overdue /\ clientSince[c] \in -1..Window
               /\ \/ LockedBefore(locked[c], clientSince[c], drainIn)
                  \/ LockedAfter(locked[c], clientSince[c])
                  \/ locked[c] <= 0
    BY DEF RateInv, RateTypeOK, BoundInv
  <2>5. globalLocked < Overdue /\ \A c \in Client : locked[c] < Overdue
    BY <2>2, <2>3, <2>4
  <2> QED
    BY <2>1, <2>5
<1> QED
  BY <1>1, RateInitInv, RateStepInv, PTL DEF RateSpec

(* Whatever drain replaces and the cache lets expire, and however long     *)
(* requests are held, no client is charged more within a window than its   *)
(* budget and one request per worker, unless its limiter was evicted for   *)
(* lack of room, calls of Limit raced on it, or it was charged after drain *)
(* had found it locked.                                                    *)
THEOREM BudgetHolds == RateSpec => []WindowBudget
<1>1. RateInv => WindowBudget
  <2> SUFFICES ASSUME RateInv, NEW c \in Client, ~limiter[c].raced
               PROVE  Sum(spent[c]) <= ClientBudget + Cardinality(Worker) * Heaviest
    BY DEF WindowBudget
  <2> DEFINE room == Cardinality(Worker) * Heaviest
             load == Cardinality(Pending(c)) * Heaviest
  <2>1. /\ limiter[c].expired \in Nat /\ limiter[c].total \in Nat
        /\ Subtracted(limiter[c]) \in Nat /\ Subtracted(limiter[c]) <= limiter[c].expired
        /\ Sum(limiter[c].charged) \in Nat
    BY PendingLimiter, SoundFields
  <2>2. /\ limiter[c].total + Subtracted(limiter[c]) = Sum(limiter[c].charged) + limiter[c].expired
        /\ limiter[c].total + load <= ClientBudget + room
        /\ spent[c] = limiter[c].charged
    BY DEF RateInv, ChargeInv, Exact, Room
  <2>3. load \in Nat /\ room \in Nat /\ ClientBudget \in Nat
    BY PendingLimiter, Loads, WorkerCount, RateAssumption
  <2> HIDE DEF room, load
  <2>5. Sum(spent[c]) <= ClientBudget + room
    BY <2>1, <2>2, <2>3
  <2> QED
    BY <2>5 DEF room
<1> QED
  BY <1>1, RateInitInv, RateStepInv, PTL DEF RateSpec
=============================================================================
