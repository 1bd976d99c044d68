----------------------------- MODULE RuntimeLog -----------------------------
(***************************************************************************)
(* The runtime log (internal/observability/logger.go): one active file and *)
(* MaxFiles rotated ones.  Write looks at the size of the active file,     *)
(* shifts the rotated files up by one when the event does not fit, opens   *)
(* the path for appending and writes.  A mutex makes this one step within  *)
(* a process; the processes that share the log interleave freely.  Every   *)
(* event counts as one unit of size, and the errors of a rename are        *)
(* ignored as in the code.                                                 *)
(***************************************************************************)
EXTENDS Integers, FiniteSets, FiniteSetsExt

CONSTANTS
  Loggers,           \* the processes that write
  MaxFiles, MaxSize, \* the rotated files, and the events a file may hold
  MaxEvents,         \* BOUND: how many events are written
  MaxLogFaults       \* BOUND: renames and writes that fail, processes that die

\* New replaces limits that are not positive.
ASSUME LogConstants ==
  /\ IsFiniteSet(Loggers)
  /\ MaxFiles \in Nat \ {0} /\ MaxSize \in Nat \ {0}
  /\ MaxEvents \in Nat /\ MaxLogFaults \in Nat

Slots == 0..MaxFiles            \* 0 is the active file
NoLog == 0
Logs == 1..(MaxEvents + MaxLogFaults)   \* files, in the order of their creation

VARIABLES
  slot,      \* the file each name stands for
  text,      \* the events in each file, numbered as they were written
  lstep,     \* where each process stands
  shifting,  \* the name a rotation moves next
  handle,    \* the file it has open
  files, written, logFaults,
  disturbed  \* history: a rotation ran while another process wrote

logVars == <<slot, text, lstep, shifting, handle, files, written, logFaults, disturbed>>

LogInit ==
  /\ slot = [i \in Slots |-> NoLog] /\ text = [f \in Logs |-> {}]
  /\ lstep = [w \in Loggers |-> "idle"] /\ shifting = [w \in Loggers |-> 0]
  /\ handle = [w \in Loggers |-> NoLog]
  /\ files = 0 /\ written = 0 /\ logFaults = 0 /\ disturbed = FALSE

Busy(w) == lstep[w] # "idle"
Rotates(w) == lstep[w] \in {"shift", "move"}
Pending == Cardinality({w \in Loggers : Busy(w)})

\* A rotation is disturbed by any other write that overlaps it.
Disturbs == \E v, w \in Loggers : v # w /\ Rotates(v) /\ Busy(w)
Watch == disturbed' = (disturbed \/ Disturbs')

\* Mutant of Decide: the size of the event itself is forgotten.
DecideLate(w) ==
  /\ ~Busy(w) /\ written + Pending < MaxEvents
  /\ IF slot[0] # NoLog /\ Cardinality(text[slot[0]]) > MaxSize
     THEN /\ lstep' = [lstep EXCEPT ![w] = IF MaxFiles > 1 THEN "shift" ELSE "move"]
          /\ shifting' = [shifting EXCEPT ![w] = MaxFiles - 1]
     ELSE /\ lstep' = [lstep EXCEPT ![w] = "open"] /\ UNCHANGED shifting
  /\ UNCHANGED <<slot, text, handle, files, written, logFaults>>

\* The size of the active file is looked up once.
Decide(w) ==
  /\ ~Busy(w) /\ written + Pending < MaxEvents
  /\ IF slot[0] # NoLog /\ Cardinality(text[slot[0]]) + 1 > MaxSize
     THEN /\ lstep' = [lstep EXCEPT ![w] = IF MaxFiles > 1 THEN "shift" ELSE "move"]
          /\ shifting' = [shifting EXCEPT ![w] = MaxFiles - 1]
     ELSE /\ lstep' = [lstep EXCEPT ![w] = "open"] /\ UNCHANGED shifting
  /\ UNCHANGED <<slot, text, handle, files, written, logFaults>>

Renamed(i) ==
  IF slot[i] = NoLog THEN slot
  ELSE [slot EXCEPT ![i + 1] = slot[i], ![i] = NoLog]

\* One rename, which may fail.
Moves(i) ==
  \/ slot' = Renamed(i) /\ UNCHANGED logFaults
  \/ logFaults < MaxLogFaults /\ logFaults' = logFaults + 1 /\ UNCHANGED slot

Shift(w) ==
  /\ lstep[w] = "shift" /\ Moves(shifting[w])
  /\ shifting' = [shifting EXCEPT ![w] = @ - 1]
  /\ lstep' = [lstep EXCEPT ![w] = IF shifting[w] = 1 THEN "move" ELSE "shift"]
  /\ UNCHANGED <<text, handle, files, written>>

MoveActive(w) ==
  /\ lstep[w] = "move" /\ Moves(0) /\ lstep' = [lstep EXCEPT ![w] = "open"]
  /\ UNCHANGED <<text, shifting, handle, files, written>>

OpenLog(w) ==
  /\ lstep[w] = "open"
  /\ IF slot[0] = NoLog
     THEN /\ files' = files + 1 /\ slot' = [slot EXCEPT ![0] = files + 1]
          /\ handle' = [handle EXCEPT ![w] = files + 1]
     ELSE handle' = [handle EXCEPT ![w] = slot[0]] /\ UNCHANGED <<files, slot>>
  /\ lstep' = [lstep EXCEPT ![w] = "append"]
  /\ UNCHANGED <<text, shifting, written, logFaults>>

Done(w) ==
  /\ lstep' = [lstep EXCEPT ![w] = "idle"] /\ handle' = [handle EXCEPT ![w] = NoLog]
  /\ shifting' = [shifting EXCEPT ![w] = 0]

\* The event goes into the file that was opened, whatever its name is now.
AppendEvent(w) ==
  /\ lstep[w] = "append" /\ written' = written + 1
  /\ text' = [text EXCEPT ![handle[w]] = @ \cup {written + 1}]
  /\ Done(w) /\ UNCHANGED <<slot, files, logFaults>>

\* A write that fails returns an error; a process may die anywhere.
WriteFails(w) ==
  /\ Busy(w) /\ logFaults < MaxLogFaults /\ logFaults' = logFaults + 1
  /\ Done(w) /\ UNCHANGED <<slot, text, files, written>>

LogNext ==
  \E w \in Loggers :
    /\ Decide(w) \/ Shift(w) \/ MoveActive(w) \/ OpenLog(w) \/ AppendEvent(w) \/ WriteFails(w)
    /\ Watch

LogSpec == LogInit /\ [][LogNext]_logVars

-----------------------------------------------------------------------------
Named == {i \in Slots : slot[i] # NoLog}
Retained == UNION {text[slot[i]] : i \in Named}
Gone == (1..written) \ Retained

\* A writer opens what the active name stands for; a file is there for each
\* event, for each writer that has one open, and for each write that failed.
LogTypeOK ==
  /\ slot \in [Slots -> 0..files] /\ files \in Nat /\ written \in Nat
  /\ text \in [Logs -> SUBSET (1..written)] /\ \A f \in Logs : f > files => text[f] = {}
  /\ \A i, j \in Named : slot[i] = slot[j] => i = j
  /\ lstep \in [Loggers -> {"idle", "shift", "move", "open", "append"}]
  /\ handle \in [Loggers -> 0..files]
  /\ \A w \in Loggers : handle[w] # NoLog <=> lstep[w] = "append"
  /\ shifting \in [Loggers -> 0..(MaxFiles - 1)]
  /\ \A w \in Loggers : lstep[w] = "shift" => shifting[w] > 0
  /\ logFaults \in 0..MaxLogFaults /\ disturbed \in BOOLEAN
  /\ written + Pending <= MaxEvents
  /\ files <= written + Cardinality({w \in Loggers : lstep[w] = "append"}) + logFaults

\* The writers whose event goes into f unless the file is moved in time.
Bound(f) ==
  {w \in Loggers : \/ lstep[w] = "append" /\ handle[w] = f
                   \/ lstep[w] = "open" /\ slot[0] = f}

\* However the writers interleave, each of them adds at most the one event
\* it had room for, and a rotation whose rename failed the one it was for.
SizeInv ==
  \A f \in 1..files :
    Cardinality(text[f]) + Cardinality(Bound(f))
      <= MaxSize + (Cardinality(Loggers) - 1) + logFaults

\* When every rotation ran alone, what is gone is older than what is kept,
\* and only goes once all rotated files are full.
OldestGone == \A e \in Gone, k \in Retained : e < k

RetainInv ==
  ~disturbed /\ logFaults = 0 =>
    /\ OldestGone
    /\ Gone # {} => Cardinality(Retained) >= MaxFiles * MaxSize

\* The name that the rotation of v moves next.
Due(v) == IF lstep[v] = "move" THEN 0 ELSE shifting[v]

\* Between rotations, and in one that has come to name n, whose successor is
\* free then or is the last: names without gaps, and all once an event is gone.
Compact ==
  /\ \A i \in Named : 1..(i - 1) \subseteq Named
  /\ Gone # {} => 1..MaxFiles \subseteq Named

CompactBut(n) ==
  /\ 0 \in Named /\ Cardinality(text[slot[0]]) >= MaxSize
  /\ n + 1 \in Named => n + 1 = MaxFiles
  /\ \A i \in Named : (0..(i - 1)) \ {n + 1} \subseteq Named
  /\ Gone # {} => Slots \ {n + 1} \subseteq Named

\* Rotated files are full and older than what has a lower number; only the
\* active file is written to, and nothing is while one process rotates.
Orderly ==
  /\ OldestGone
  /\ \A i, j \in Named : i < j =>
       \A d \in text[slot[i]], e \in text[slot[j]] : e < d
  /\ \A i \in Named \ {0} : Cardinality(text[slot[i]]) >= MaxSize
  /\ \A w \in Loggers : lstep[w] = "append" => handle[w] = slot[0]
  /\ (\A v \in Loggers : ~Rotates(v)) => Compact
  /\ \A v \in Loggers, n \in Slots : Rotates(v) /\ Due(v) = n => CompactBut(n)

UndisturbedInv == /\ ~disturbed => ~Disturbs
                  /\ ~disturbed /\ logFaults = 0 => Orderly

LogInv == LogTypeOK /\ SizeInv /\ RetainInv

LogInd == LogInv /\ UndisturbedInv

=============================================================================
