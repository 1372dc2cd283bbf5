------------------------------ MODULE Process ------------------------------
(***************************************************************************)
(* The lives of the gateway process on one machine: main() from its first  *)
(* log line to serving (main.go), the signing key it loads or creates      *)
(* (keys.go), and the supervisor that starts it again whenever it ends     *)
(* (restart: always).  The key file survives a process, its log ring does  *)
(* not.  A remote server that has seen a signature keeps the public key,   *)
(* so a second key would end federation with everyone who knows the first. *)
(***************************************************************************)
EXTENDS LogRing

CONSTANTS Key,         \* keys that rsa.GenerateKey may return
          Absent,      \* there is no key file
          Torn,        \* a key file that does not parse
          NoKey,       \* no key in memory
          MaxFaults    \* bound: crashes, failed calls, signals

ASSUME ProcessAssumption ==
    /\ Absent \notin Key /\ Torn \notin Key /\ NoKey \notin Key
    /\ Absent # Torn
    /\ MaxFaults \in Nat

VARIABLES
    phase,      \* where main() is; "down" when there is no process
    file,       \* the key file
    flushed,    \* would the file survive the loss of power?
    key,        \* the key in memory
    joined,     \* has this process joined Warpnet?
    drawn,      \* the keys generated so far
    faults,     \* the bounded counter
    published,  \* history: keys that a remote server has seen in use
    lostFile    \* history: a loss of power took the key file

procVars == <<phase, file, flushed, key, joined, drawn, faults, published, lostFile>>
allVars == <<buf, next, full, phase, file, flushed, key, joined, drawn, faults,
             published, lostFile>>

Phase == {"down", "up", "load", "generate", "create", "write", "join", "serve"}

ProcInit ==
    /\ Init
    /\ phase = "down" /\ key = NoKey /\ joined = FALSE
    /\ file = Absent /\ flushed = TRUE
    /\ drawn = {} /\ published = {}
    /\ faults = 0 /\ lostFile = FALSE

Fault == faults < MaxFaults /\ faults' = faults + 1

(* A log statement of main() or of a goroutine it started. *)
Logs == \E line \in Line : Fire(line)

(* The process is gone, with its memory. *)
Exit == /\ phase' = "down" /\ key' = NoKey /\ joined' = FALSE
        /\ newLogRing

(* log.Fatalf. *)
Fatal == Fault /\ Exit

-----------------------------------------------------------------------------
(* main() up to serving. *)

(* The supervisor starts the process; main() logs its version. *)
Start ==
    /\ phase = "down"
    /\ phase' = "up" /\ Logs
    /\ UNCHANGED <<file, flushed, key, joined, drawn, faults, published, lostFile>>

(* ts.Up and the node's DNS name. *)
FunnelUp ==
    /\ phase = "up"
    /\ \/ phase' = "load" /\ Logs /\ UNCHANGED <<key, joined, faults>>
       \/ Fatal
    /\ UNCHANGED <<file, flushed, drawn, published, lostFile>>

(* loadOrCreateKey: ReadFile and what is made of its result; publicKeyPEM  *)
(* does not fail for a key that parsed.  A faulty variant first: any       *)
(* error of ReadFile counts as a missing file.                             *)
ReadKeyAnyError ==
    /\ phase = "load"
    /\ \/ /\ file \in Key
          /\ phase' = "join" /\ key' = file
          /\ UNCHANGED <<buf, next, full, joined, faults>>
       \/ /\ \/ file = Absent /\ UNCHANGED faults
             \/ Fault
          /\ phase' = "generate" /\ Logs
          /\ UNCHANGED <<key, joined>>
       \/ file = Torn /\ Exit /\ UNCHANGED faults
    /\ UNCHANGED <<file, flushed, drawn, published, lostFile>>

ReadKey ==
    /\ phase = "load"
    /\ \/ /\ file \in Key
          /\ phase' = "join" /\ key' = file
          /\ UNCHANGED <<buf, next, full, joined, faults>>
       \/ /\ file = Absent
          /\ phase' = "generate" /\ Logs
          /\ UNCHANGED <<key, joined, faults>>
       \/ file = Torn /\ Exit /\ UNCHANGED faults
       \/ Fatal
    /\ UNCHANGED <<file, flushed, drawn, published, lostFile>>

(* rsa.GenerateKey. *)
GenerateKey ==
    /\ phase = "generate"
    /\ \/ \E k \in Key \ drawn : /\ key' = k /\ drawn' = drawn \cup {k}
                                 /\ phase' = "create"
                                 /\ UNCHANGED <<buf, next, full, joined, faults>>
       \/ Fatal /\ UNCHANGED drawn
    /\ UNCHANGED <<file, flushed, published, lostFile>>

(* os.WriteFile opens the file, empty, ... *)
CreateFile ==
    /\ phase = "create"
    /\ \/ /\ phase' = "write" /\ file' = Torn /\ flushed' = FALSE
          /\ UNCHANGED <<buf, next, full, key, joined, faults>>
       \/ Fatal /\ UNCHANGED <<file, flushed>>
    /\ UNCHANGED <<drawn, published, lostFile>>

(* ... and writes it; an error may come after part or all of the bytes.    *)
WriteFile ==
    /\ phase = "write"
    /\ \/ /\ phase' = "join" /\ file' = key
          /\ UNCHANGED <<buf, next, full, key, joined, faults>>
       \/ Fatal /\ file' \in {Torn, key}
    /\ UNCHANGED <<flushed, drawn, published, lostFile>>

(* connectNetwork: the host and the DHT are up and a relay was reached, or *)
(* an error.                                                               *)
connectNetwork == joined' \in BOOLEAN

(* After an error the process goes on without Warpnet for the rest of its  *)
(* life.  A faulty variant first: it ends instead.                         *)
JoinOrExit ==
    /\ phase = "join"
    /\ \/ phase' = "serve" /\ joined' = TRUE /\ Logs /\ UNCHANGED key
       \/ Exit
    /\ UNCHANGED <<file, flushed, drawn, faults, published, lostFile>>

Join ==
    /\ phase = "join"
    /\ phase' = "serve" /\ connectNetwork
    /\ Logs
    /\ UNCHANGED <<file, flushed, key, drawn, faults, published, lostFile>>

-----------------------------------------------------------------------------
(* Serving. *)

(* A signed request is sent, or the actor document is served: the public   *)
(* key is known elsewhere from now on.                                     *)
UseKey ==
    /\ phase = "serve"
    /\ published' = published \cup {key}
    /\ UNCHANGED <<buf, next, full, phase, file, flushed, key, joined, drawn, faults, lostFile>>

(* A goroutine logs. *)
Log ==
    /\ phase = "serve" /\ Logs
    /\ UNCHANGED procVars

(* ListenFunnel or Serve fails. *)
ServeFails ==
    /\ phase = "serve" /\ Fatal
    /\ UNCHANGED <<file, flushed, drawn, published, lostFile>>

(* A signal: the contexts are cancelled, the servers shut down, main()     *)
(* returns.                                                                *)
Stop ==
    /\ phase = "serve" /\ Fault /\ Exit
    /\ UNCHANGED <<file, flushed, drawn, published, lostFile>>

-----------------------------------------------------------------------------
(* The machine and the operator. *)

(* The process is killed, wherever it is. *)
Crash ==
    /\ phase # "down" /\ Fault /\ Exit
    /\ UNCHANGED <<file, flushed, drawn, published, lostFile>>

(* The operating system writes the file to the disk. *)
Flush ==
    /\ ~flushed /\ phase # "write"
    /\ flushed' = TRUE
    /\ UNCHANGED <<buf, next, full, phase, file, key, joined, drawn, faults, published, lostFile>>

(* The power fails before that: os.WriteFile does not wait for the disk.   *)
PowerLoss ==
    /\ ~flushed /\ Fault /\ Exit
    /\ file' \in {Absent, Torn}
    /\ flushed' = TRUE /\ lostFile' = TRUE
    /\ UNCHANGED <<drawn, published>>

(* The operator removes a file that keeps the gateway from starting, and   *)
(* no other.                                                               *)
RemoveFile ==
    /\ phase = "down" /\ file = Torn
    /\ file' = Absent /\ flushed' = TRUE
    /\ UNCHANGED <<buf, next, full, phase, key, joined, drawn, faults, published, lostFile>>

ProcNext ==
    \/ Start \/ FunnelUp \/ ReadKey \/ GenerateKey \/ CreateFile \/ WriteFile \/ Join
    \/ UseKey \/ Log \/ ServeFails \/ Stop
    \/ Crash \/ Flush \/ PowerLoss \/ RemoveFile

(* The supervisor restarts the process and main() does not stop; nobody is *)
(* obliged to remove a file.                                               *)
Fairness == WF_allVars(Start \/ FunnelUp \/ ReadKey \/ GenerateKey \/ CreateFile
                       \/ WriteFile \/ Join)

ProcSpec == ProcInit /\ [][ProcNext]_allVars /\ Fairness

-----------------------------------------------------------------------------
(* The state of the process has its type, and only keys that were          *)
(* generated are used.                                                     *)
Flags == flushed \in BOOLEAN /\ joined \in BOOLEAN /\ lostFile \in BOOLEAN
ProcTypeOK ==
    /\ phase \in Phase
    /\ file \in Key \cup {Absent, Torn}
    /\ key \in Key \cup {NoKey}
    /\ drawn \subseteq Key /\ published \subseteq drawn
    /\ faults \in 0..MaxFaults

(* "The key must be stable across restarts: if it changes, remote followers *)
(* can no longer verify our posts" (keys.go): over all lives of the         *)
(* process, with calls that fail, kills in the middle of loadOrCreateKey    *)
(* and an operator who removes files that do not parse, only one key is     *)
(* ever used.  The exception is a loss of power before the file reached     *)
(* the disk.                                                                *)
KeyStable == ~lostFile => \A k, l \in published : k = l

(* Once the faults are over the gateway serves again, with or without       *)
(* Warpnet, unless a key file that does not parse is in its way: no other   *)
(* fault of one life keeps later ones from starting.                        *)
OnlyTornFileStopsStarts == <>[](phase = "serve") \/ <>[](file = Torn)
=============================================================================
