------------------------------ MODULE MCWorker ------------------------------
(* Model-checking instances of Worker.                                     *)
EXTENDS Worker, TLC

AllFaults == {"crash", "restart", "lapse", "redis", "store", "deadletter", "smtp"}
\* Faults after which every accepted job is settled in the end: not a failing
\* Redis command, which may leave a job in the processing list unleased.  (A
\* lost SMTP reply and a failing dead-letter insert only change what the
\* runner believes, not where the job goes next.)
SettlingFaults == {"crash", "restart", "lapse"}

\* What a step may depend on, and EveryLeaves speaks of: all but the history
\* variables that only the safety properties read.
Course == <<queueVars, life, pc, job, attempt, sends, deadLettered, abandoned, faults>>

\* What the safety properties speak of: with it the jobs that have a cause, of
\* whichever kind, since no property tells the kinds apart.
CourseAndCauses == <<Course, lapsed \cup usurped \cup misreported>>

Symmetry == Permutations(Job) \cup Permutations(Process)
=============================================================================
