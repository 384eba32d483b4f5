------------------------------ MODULE SystemLog ------------------------------
(***************************************************************************)
(* The system log (src/src/systemLogger.js): a buffer of entries that a    *)
(* timer, or a full buffer, flushes to the log file and to the table       *)
(* system_logs, and the shutdown (gracefulShutdown in src/src/app.js) that *)
(* closes it.  Entries are numbered in the order in which they are logged. *)
(***************************************************************************)
EXTENDS Naturals, Sequences, SequencesExt, FiniteSets

CONSTANTS
  Capacity,   \* maxBufferedEntries
  FlushAt,    \* the length at which log() itself flushes
  MaxEntries, MaxFailures, MaxExits   \* bounds of the model

ASSUME LogAssumption ==
  /\ Capacity \in Nat \ {0} /\ FlushAt \in Nat \ {0}
  /\ {MaxEntries, MaxFailures, MaxExits} \subseteq Nat

VARIABLES
  logged,     \* how many entries have been logged
  buffer,     \* those that wait
  inFlight,   \* the batches that a flush has taken and is writing
  file,       \* the log file
  table,      \* system_logs
  phase,      \* of the process
  excused,    \* history: of each sink, the entries it may lack, for the buffer
              \* was full, a write failed or the process ended
  failures, exits   \* how many so far, for the bounds

sinks == <<file, table>>
bounds == <<failures, exits>>
vars == <<logged, buffer, inFlight, sinks, phase, excused, bounds>>

Entry == 1 .. MaxEntries
Phase == {"up", "draining", "closing", "gone"}

TypeOK ==
  /\ logged \in 0 .. MaxEntries
  /\ buffer \in Seq(Entry) /\ Len(buffer) <= Capacity
  /\ inFlight \subseteq Seq(Entry) /\ Cardinality(inFlight) <= 1
  /\ {file, table} \subseteq Seq(Entry)
  /\ phase \in Phase
  /\ excused \in [{"file", "table"} -> SUBSET Entry]
  /\ failures \in 0 .. MaxFailures /\ exits \in 0 .. MaxExits

Init ==
  /\ logged = 0
  /\ buffer = <<>> /\ inFlight = {}
  /\ file = <<>> /\ table = <<>>
  /\ phase = "up"
  /\ excused = [sink \in {"file", "table"} |-> {}]
  /\ failures = 0 /\ exits = 0

Excuse(fromFile, fromTable) ==
  excused' = [file |-> excused["file"] \cup fromFile,
              table |-> excused["table"] \cup fromTable]

-----------------------------------------------------------------------------
\* Mutant: a flush begins although another one is at work.
FlushOverlapping(entries, wanted) ==
  IF wanted /\ entries # <<>>
  THEN buffer' = <<>> /\ inFlight' = inFlight \cup {entries}
  ELSE buffer' = entries /\ UNCHANGED inFlight

\* flush() up to its await: it takes all that waits, unless another flush is
\* still at work.
Flush(entries, wanted) ==
  IF wanted /\ inFlight = {} /\ entries # <<>>
  THEN buffer' = <<>> /\ inFlight' = {entries}
  ELSE buffer' = entries /\ UNCHANGED inFlight

\* log(): the oldest entry makes room in a full buffer.
Push ==
  /\ logged < MaxEntries
  /\ logged' = logged + 1
  /\ LET full == Len(buffer) >= Capacity
         entries == Append(IF full THEN Tail(buffer) ELSE buffer, logged')
         oldest == IF full THEN {Head(buffer)} ELSE {}
     IN  /\ Excuse(oldest, oldest)
         /\ Flush(entries, Len(entries) >= FlushAt /\ phase # "closing")

\* When the last flush is done the process ends in the same turn.
Ending == phase = "closing" /\ inFlight = {}

Log ==
  /\ phase # "gone" /\ ~Ending
  /\ Push
  /\ UNCHANGED <<sinks, phase, bounds>>

\* Mutant: the timer flushes only what log() would have flushed.
TimerFlushFull ==
  /\ phase \in {"up", "draining"}
  /\ Len(buffer) >= FlushAt
  /\ Flush(buffer, TRUE)
  /\ UNCHANGED <<logged, sinks, phase, excused, bounds>>

TimerFlush ==
  /\ phase \in {"up", "draining"}
  /\ buffer # <<>> /\ inFlight = {}
  /\ Flush(buffer, TRUE)
  /\ UNCHANGED <<logged, sinks, phase, excused, bounds>>

\* The rest of flush(): the append, which may break off, then the insert, all
\* or nothing; neither failure stops the other sink, and no retry follows.
Written(batch) ==
  /\ phase # "gone"
  /\ inFlight' = inFlight \ {batch}
  /\ \E written \in 0 .. Len(batch), stored \in BOOLEAN :
       LET fine == written = Len(batch) /\ stored
       IN  /\ fine \/ failures < MaxFailures
           /\ failures' = IF fine THEN failures ELSE failures + 1
           /\ file' = file \o SubSeq(batch, 1, written)
           /\ table' = IF stored THEN table \o batch ELSE table
           /\ Excuse(ToSet(SubSeq(batch, written + 1, Len(batch))),
                     IF stored THEN {} ELSE ToSet(batch))
  /\ UNCHANGED <<logged, buffer, phase, exits>>

-----------------------------------------------------------------------------
(* The end of the process.                                                 *)

Waiting == ToSet(buffer) \cup UNION {ToSet(batch) : batch \in inFlight}

\* process.exit, a crash or a kill, as much as was appended by then: the
\* batches in flight never reach the table.
Gone(lost) ==
  /\ exits < MaxExits
  /\ phase' = "gone"
  /\ buffer' = <<>> /\ inFlight' = {}
  /\ exits' = exits + 1
  /\ IF inFlight = {} THEN UNCHANGED file
     ELSE \E batch \in inFlight : \E written \in 0 .. Len(batch) :
            file' = file \o SubSeq(batch, 1, written)
  /\ Excuse(lost, lost)
  /\ UNCHANGED <<logged, table, failures>>

\* The process crashes, or the shutdown takes too long and is forced.
Die ==
  /\ phase # "gone"
  /\ Gone(Waiting)

\* gracefulShutdown logs that it begins.
Drain ==
  /\ phase = "up" /\ exits < MaxExits
  /\ phase' = "draining"
  /\ Push
  /\ UNCHANGED <<sinks, bounds>>

\* Mutant: the last flush finds the log closed, as any other would.
CloseUnforced ==
  /\ phase = "draining"
  /\ Gone(IF inFlight = {} THEN {} ELSE Waiting)

\* logger.close(): the last flush.  When one is already at work it returns at
\* once, and the process ends with that batch half written and the buffer full.
Close ==
  /\ phase = "draining"
  /\ exits < MaxExits
  /\ IF inFlight # {} \/ buffer = <<>>
     THEN Gone(IF inFlight = {} THEN {} ELSE Waiting)
     ELSE /\ phase' = "closing"
          /\ Flush(buffer, TRUE)
          /\ UNCHANGED <<logged, sinks, excused, bounds>>

\* What was logged after the last flush had begun is lost.
Leave ==
  /\ Ending
  /\ Gone(ToSet(buffer))

\* The next process appends to the same file and table.
Boot ==
  /\ phase = "gone"
  /\ phase' = "up"
  /\ UNCHANGED <<logged, buffer, inFlight, sinks, excused, bounds>>

-----------------------------------------------------------------------------
Next ==
  \/ Log \/ TimerFlush
  \/ \E batch \in inFlight : Written(batch)
  \/ Die \/ Drain \/ Close \/ Leave \/ Boot

Spec == Init /\ [][Next]_vars

\* The timer fires, an append comes back, and the process goes on to its end.
FairSpec ==
  /\ Spec
  /\ WF_vars(TimerFlush)
  /\ WF_vars(\E batch \in inFlight : Written(batch))
  /\ WF_vars(Leave)
-----------------------------------------------------------------------------
Ascending(s) == \A i, k \in 1 .. Len(s) : i < k => s[i] < s[k]

(***************************************************************************)
(* Both sinks hold the entries in the order in which they were logged, and *)
(* each at most once: over flushes that wait while others log, failing     *)
(* writes, restarts, and whatever the shutdown does.                       *)
(***************************************************************************)
InOrder == Ascending(file) /\ Ascending(table)

(***************************************************************************)
(* "All runtime logs are persisted to" the file and the table              *)
(* (API_DOCS.md:292), but for these: an entry still waits, the buffer was  *)
(* full, a write to that sink failed, the process died, or the shutdown    *)
(* found a flush at work or had begun its own before the entry came.       *)
(***************************************************************************)
LossExplained ==
  \A entry \in 1 .. logged :
    /\ entry \in ToSet(file) \cup Waiting \cup excused["file"]
    /\ entry \in ToSet(table) \cup Waiting \cup excused["table"]

\* The conjunction that is inductive: one flush at most is at work, and sinks,
\* batch and buffer follow each other in the order of the entries.
AtMost(s, n) == \A i \in 1 .. Len(s) : s[i] <= n
Below(s, t) == \A i \in 1 .. Len(s), k \in 1 .. Len(t) : s[i] < t[k]
Queued(batches, entries, n) ==
  /\ \A b, c \in batches : b = c
  /\ \A b \in batches : Ascending(b) /\ AtMost(b, n) /\ Below(b, entries)
  /\ Ascending(entries) /\ AtMost(entries, n)
Precedes(s, batches, entries, n) ==
  /\ Ascending(s) /\ AtMost(s, n) /\ Below(s, entries)
  /\ \A b \in batches : Below(s, b)
LogInv ==
  /\ TypeOK
  /\ Queued(inFlight, buffer, logged)
  /\ Precedes(file, inFlight, buffer, logged)
  /\ Precedes(table, inFlight, buffer, logged)

(***************************************************************************)
(* No entry waits for ever, however few are logged and whatever fails.     *)
(***************************************************************************)
NoneWaitsForever == \A entry \in Entry : entry \in Waiting ~> entry \notin Waiting
=============================================================================
