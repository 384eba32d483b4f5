-------------------------- MODULE MemoryMailQueue --------------------------
(***************************************************************************)
(* The memory queue (src/src/queue.js and src/src/memoryMailQueue.js) with *)
(* the runners that consume it (src/src/worker.js), all of one process and *)
(* gone with it.  One action is what runs between two turns of the event   *)
(* loop.  A runner that waits is woken by resolving its promise: it looks  *)
(* at the queue in a later turn, when another runner may have been first.  *)
(***************************************************************************)
EXTENDS Naturals, Sequences, FiniteSets

CONSTANTS
  Job,        \* the jobs the API may enqueue
  NoJob,      \* the hole that a taken job leaves, and what an idle runner holds
  Runner,     \* the runners of the worker (WORKER_CONCURRENCY)
  MaxSize,    \* QUEUE_MAX_SIZE
  CompactAt   \* the head at which the array is compacted (1024)

ASSUME NoJobAssumption == NoJob \notin Job
ASSUME MaxSizeAssumption == MaxSize \in Nat \ {0}
ASSUME CompactAtAssumption == CompactAt \in Nat \ {0}
ASSUME RunnerAssumption == IsFiniteSet(Runner)

VARIABLES
  items,         \* the array, holes included
  head,          \* index of the first item that is still to be taken
  waiters,       \* the runners whose promise is unresolved, oldest first
  closed,
  runner,        \* of each runner: "asking", "waiting", "holding" or "stopped"
  held,          \* the job it holds
  timers,        \* delayedTimers, as the set of their jobs
  delayedCount,
  accepted, done,       \* history: the jobs enqueued, and sent or dead-lettered,
  dropped, forgotten    \* lost at a close, and given up when a sink threw

queueVars == <<items, head, waiters, closed>>
delayVars == <<timers, delayedCount>>
history == <<accepted, done, dropped, forgotten>>
vars == <<queueVars, runner, held, delayVars, history>>

length == Len(items) - head

TypeOK ==
  /\ items \in Seq(Job \cup {NoJob})
  /\ head \in 0 .. Len(items)
  /\ waiters \in Seq(Runner)
  /\ closed \in BOOLEAN
  /\ runner \in [Runner -> {"asking", "waiting", "holding", "stopped"}]
  /\ held \in [Runner -> Job \cup {NoJob}]
  /\ timers \subseteq Job
  /\ delayedCount \in Nat
  /\ accepted \subseteq Job /\ done \subseteq Job
  /\ dropped \subseteq Job /\ forgotten \subseteq Job

Init ==
  /\ items = <<>> /\ head = 0 /\ waiters = <<>> /\ closed = FALSE
  /\ runner = [r \in Runner |-> "asking"]
  /\ held = [r \in Runner |-> NoJob]
  /\ timers = {} /\ delayedCount = 0
  /\ accepted = {} /\ done = {} /\ dropped = {} /\ forgotten = {}

-----------------------------------------------------------------------------
(* InMemoryQueue.                                                          *)

\* Mutant: a push wakes nobody.
PushSilent(j) ==
  /\ ~closed
  /\ length < MaxSize
  /\ items' = Append(items, j)
  /\ UNCHANGED <<head, closed, waiters, runner>>

\* Mutant: only a push on an empty queue wakes a runner.
PushOnEmpty(j) ==
  /\ ~closed
  /\ length < MaxSize
  /\ items' = Append(items, j)
  /\ IF waiters = <<>> \/ length > 0
     THEN UNCHANGED <<waiters, runner>>
     ELSE /\ waiters' = Tail(waiters)
          /\ runner' = [runner EXCEPT ![Head(waiters)] = "asking"]
  /\ UNCHANGED <<head, closed>>

\* enqueue of an open queue with room: it wakes the runner that has waited
\* longest.
Push(j) ==
  /\ ~closed
  /\ length < MaxSize
  /\ items' = Append(items, j)
  /\ IF waiters = <<>>
     THEN UNCHANGED <<waiters, runner>>
     ELSE /\ waiters' = Tail(waiters)
          /\ runner' = [runner EXCEPT ![Head(waiters)] = "asking"]
  /\ UNCHANGED <<head, closed>>

\* Mutant: the slice keeps the hole.
TakeSliceShort(r) ==
  /\ runner[r] = "asking"
  /\ length > 0
  /\ LET next == head + 1
         hollow == [items EXCEPT ![next] = NoJob]
         compacts == next >= CompactAt /\ next * 2 >= Len(items)
     IN  /\ items' = IF compacts THEN SubSeq(hollow, next, Len(items)) ELSE hollow
         /\ head' = IF compacts THEN 0 ELSE next
         /\ held' = [held EXCEPT ![r] = items[next]]
  /\ runner' = [runner EXCEPT ![r] = "holding"]
  /\ UNCHANGED <<waiters, closed, delayVars, history>>

\* dequeue, for a runner that calls it or has been woken in it: it takes the
\* job at the head, and now and then drops the holes before it.
Take(r) ==
  /\ runner[r] = "asking"
  /\ length > 0
  /\ LET next == head + 1
         hollow == [items EXCEPT ![next] = NoJob]
         compacts == next >= CompactAt /\ next * 2 >= Len(items)
     IN  /\ items' = IF compacts THEN SubSeq(hollow, next + 1, Len(items)) ELSE hollow
         /\ head' = IF compacts THEN 0 ELSE next
         /\ held' = [held EXCEPT ![r] = items[next]]
  /\ runner' = [runner EXCEPT ![r] = "holding"]
  /\ UNCHANGED <<waiters, closed, delayVars, history>>

\* dequeue returns null, and the runner leaves its loop.
RunnerStops(r) ==
  /\ runner[r] = "asking"
  /\ length = 0
  /\ closed
  /\ runner' = [runner EXCEPT ![r] = "stopped"]
  /\ UNCHANGED <<queueVars, held, delayVars, history>>

Wait(r) ==
  /\ runner[r] = "asking"
  /\ length = 0
  /\ ~closed
  /\ runner' = [runner EXCEPT ![r] = "waiting"]
  /\ waiters' = Append(waiters, r)
  /\ UNCHANGED <<items, head, closed, held, delayVars, history>>

-----------------------------------------------------------------------------
(* createMemoryMailQueue.                                                  *)

\* Mutant: the jobs that wait on a timer do not count.
EnqueueBeside(j) ==
  /\ j \notin accepted
  /\ length < MaxSize
  /\ Push(j)
  /\ accepted' = accepted \cup {j}
  /\ UNCHANGED <<held, delayVars, done, dropped, forgotten>>

\* enqueue: deferred jobs count, jobs that runners hold do not.
Enqueue(j) ==
  /\ j \notin accepted
  /\ length + delayedCount < MaxSize
  /\ Push(j)
  /\ accepted' = accepted \cup {j}
  /\ UNCHANGED <<held, delayVars, done, dropped, forgotten>>

\* processJob ends with the mail sent or dead-lettered; ack does nothing.
Finish(r) ==
  /\ runner[r] = "holding"
  /\ done' = done \cup {held[r]}
  /\ runner' = [runner EXCEPT ![r] = "asking"]
  /\ held' = [held EXCEPT ![r] = NoJob]
  /\ UNCHANGED <<queueVars, delayVars, accepted, dropped, forgotten>>

\* processJob ends with neither.  A sink throws before the first attempt or while
\* a failed one is handled, and runner logs "worker job crashed"; or the sink of
\* the dead letters throws, which is logged too.  The next job is asked for, and
\* this queue has nothing left of the old one.
Forget(r) ==
  /\ runner[r] = "holding"
  /\ forgotten' = forgotten \cup {held[r]}
  /\ runner' = [runner EXCEPT ![r] = "asking"]
  /\ held' = [held EXCEPT ![r] = NoJob]
  /\ UNCHANGED <<queueVars, delayVars, accepted, done, dropped>>

\* defer: it looks neither at the capacity nor at the closed flag.
Defer(r) ==
  /\ runner[r] = "holding"
  /\ timers' = timers \cup {held[r]}
  /\ delayedCount' = delayedCount + 1
  /\ runner' = [runner EXCEPT ![r] = "asking"]
  /\ held' = [held EXCEPT ![r] = NoJob]
  /\ UNCHANGED <<queueVars, history>>

\* The timer of a deferred job.  A queue that is full sends it to wait for
\* another second: nothing changes.
TimerAfterClose(j) ==
  /\ j \in timers
  /\ closed
  /\ timers' = timers \ {j}
  /\ delayedCount' = IF delayedCount > 0 THEN delayedCount - 1 ELSE 0
  /\ dropped' = dropped \cup {j}
  /\ UNCHANGED <<queueVars, runner, held, accepted, done, forgotten>>

\* Mutant: a full queue loses the job.
TimerFiresDropping(j) ==
  /\ j \in timers
  /\ \/ Push(j)
     \/ length >= MaxSize /\ UNCHANGED <<queueVars, runner>>
  /\ timers' = timers \ {j}
  /\ delayedCount' = IF delayedCount > 0 THEN delayedCount - 1 ELSE 0
  /\ UNCHANGED <<held, history>>

TimerFires(j) ==
  /\ j \in timers
  /\ Push(j)
  /\ timers' = timers \ {j}
  /\ delayedCount' = IF delayedCount > 0 THEN delayedCount - 1 ELSE 0
  /\ UNCHANGED <<held, history>>

ClearDelayedTimers ==
  /\ dropped' = dropped \cup timers
  /\ timers' = {}
  /\ delayedCount' = 0

\* Mutant: the runners that wait are not woken.
CloseSilent ==
  /\ ~closed
  /\ ClearDelayedTimers
  /\ closed' = TRUE
  /\ UNCHANGED <<items, head, waiters, runner, held, accepted, done, forgotten>>

\* close, called by worker.stop when the drain is over or has taken too long.
Close ==
  /\ ~closed
  /\ ClearDelayedTimers
  /\ closed' = TRUE
  /\ waiters' = <<>>
  /\ runner' = [r \in Runner |-> IF \E i \in 1 .. Len(waiters) : waiters[i] = r
                                 THEN "asking" ELSE runner[r]]
  /\ UNCHANGED <<items, head, held, accepted, done, forgotten>>

\* queue.stop, once all runners have left.
Stop ==
  /\ closed
  /\ \A r \in Runner : runner[r] = "stopped"
  /\ ClearDelayedTimers
  /\ UNCHANGED <<queueVars, runner, held, accepted, done, forgotten>>

-----------------------------------------------------------------------------
Serve(r) == Take(r) \/ RunnerStops(r) \/ Wait(r)
Work(r) == Finish(r) \/ Forget(r) \/ Defer(r)
Timer(j) == TimerFires(j) \/ TimerAfterClose(j)

Next ==
  \/ \E j \in Job : Enqueue(j) \/ Timer(j)
  \/ \E r \in Runner : Serve(r) \/ Work(r)
  \/ Close \/ Stop

Spec == Init /\ [][Next]_vars

\* Every runner gets its turn and every job ends (attempts are bounded, and
\* SMTP connections time out); timers fire.  Nothing makes a request come or
\* the process stop.
Fairness ==
  /\ \A r \in Runner : WF_vars(Serve(r)) /\ WF_vars(Work(r))
  /\ \A j \in Job : WF_vars(Timer(j))

FairSpec == Spec /\ Fairness

-----------------------------------------------------------------------------
\* The jobs in the array, oldest first.
live == SubSeq(items, head + 1, Len(items))

Holding == {r \in Runner : runner[r] = "holding"}
Asking == {r \in Runner : runner[r] = "asking"}

(***************************************************************************)
(* Every accepted job is in exactly one place, and the queue loses none    *)
(* before it is closed: neither the hand-over to a woken runner nor a      *)
(* deferral to a queue that has filled up meanwhile drops or copies one.   *)
(* What a runner was given it sends, dead-letters or defers, unless a sink *)
(* throws (worker.js:57): such a job is forgotten, and no other is.  The   *)
(* counter that the depth is computed from agrees with the timers.         *)
(***************************************************************************)
OnePlaceEach ==
  /\ TypeOK
  /\ delayedCount = Cardinality(timers)
  /\ \A j \in Job :
       Cardinality({i \in head + 1 .. Len(items) : items[i] = j})
         + Cardinality({r \in Holding : held[r] = j})
         + Cardinality({k \in 1 .. 4 : j \in <<timers, done, dropped, forgotten>>[k]})
       = IF j \in accepted THEN 1 ELSE 0
  /\ ~closed => dropped = {}

(***************************************************************************)
(* What the process holds is bounded.  The jobs exceed QUEUE_MAX_SIZE by   *)
(* no more than the runners hold, although defer checks no capacity; and   *)
(* "Periodically compact to keep memory usage stable" (queue.js:45):       *)
(* however long the queue lives, the array with what it has handed out     *)
(* stays within two bounds of its parameters.                              *)
(***************************************************************************)
NeverOverfull ==
  /\ length + delayedCount + Cardinality(Holding) <= MaxSize + Cardinality(Runner)
  /\ Len(items) < MaxSize + (IF CompactAt > MaxSize THEN CompactAt ELSE MaxSize)

(***************************************************************************)
(* No lost wake-up: while a runner waits, every queued job has a runner    *)
(* that is about to look for it, whichever runner comes first.             *)
(***************************************************************************)
NoLostWakeup == waiters # <<>> => length <= Cardinality(Asking)

Buffer == INSTANCE BoundedFifo WITH contents <- live

\* The array with its head and its compaction is a bounded first-in first-out
\* buffer.
BufferKept == Buffer!Spec

InArray(j) == \E i \in head + 1 .. Len(items) : items[i] = j

\* A queued job is taken in the end: no runner sleeps on a queue with jobs.
EveryTaken == \A j \in Job : InArray(j) ~> ~InArray(j)

\* After a close every job that is still queued is handed out, and only then
\* does a runner leave, but every runner does: worker.stop, which waits for
\* all of them, returns.
AllStop ==
  /\ closed ~> \A r \in Runner : runner[r] = "stopped"
  /\ []((\E r \in Runner : runner[r] = "stopped") => closed /\ length = 0)
=============================================================================
