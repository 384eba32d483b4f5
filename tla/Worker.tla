------------------------------- MODULE Worker -------------------------------
(***************************************************************************)
(* The workers (src/src/worker.js) on the Redis queue: each process runs   *)
(* one runner, an endless loop that dequeues a job, tries to send it, and  *)
(* acks, defers or dead-letters it, beside the queue's background scans.   *)
(* Processes start, drain, crash and restart independently.  A runner's    *)
(* step ends at an await or where a store may throw, so commands of other  *)
(* processes come between any two steps.                                   *)
(*                                                                         *)
(* Two runners of one process interleave like two processes do, except     *)
(* that they die together; a process without a runner (the API role) is    *)
(* one whose runner never finds a job.                                     *)
(***************************************************************************)
EXTENDS RedisMailQueue

CONSTANTS
  NoJob,        \* not a job: what an idle runner holds
  MaxAttempts,  \* RETRY_ATTEMPTS
  FaultKinds,   \* the kinds of fault that may happen
  MaxFaults     \* bound: how many faults happen in a behaviour

ASSUME NoJobAssumption == NoJob \notin Job
ASSUME MaxAttemptsAssumption == MaxAttempts \in Nat \ {0}
ASSUME MaxFaultsAssumption == MaxFaults \in Nat

VARIABLES
  life,         \* of each process: is it down, starting, up or draining
  pc,           \* of its runner: the step it takes next
  job,          \* the job its runner holds
  attempt,      \* the runner's attempt counter
  sends,        \* history: times SMTP took each job (2 stands for more)
  deadLettered, \* the dead_letter_jobs table, as the set of its jobs
  abandoned,    \* history: jobs whose dead-letter row could not be written
  lapsed,       \* history: jobs whose lease ran out, or that a start found orphaned
  usurped,      \* history: jobs a start took for orphans when they were none
  misreported,  \* history: jobs sent or deferred while the runner saw a failure
  faults        \* how many faults have happened

runnerVars == <<pc, job, attempt>>
outcomeVars == <<sends, deadLettered, abandoned, misreported>>
workerVars == <<life, pc, job, attempt, sends, deadLettered, abandoned, lapsed,
                usurped, misreported, faults>>
vars == <<queueVars, workerVars>>

Life == {"down", "starting", "up", "draining"}
Control == {"stopped", "idle", "lease", "touch", "permission", "defer", "send",
            "record", "deadletter", "ack", "unlease"}

TypeOK ==
  /\ QueueTypeOK
  /\ life \in [Process -> Life]
  /\ pc \in [Process -> Control]
  /\ job \in [Process -> Job \cup {NoJob}]
  /\ attempt \in [Process -> 1 .. MaxAttempts]
  /\ sends \in [Job -> 0 .. 2]
  /\ deadLettered \subseteq Job
  /\ abandoned \subseteq Job
  /\ lapsed \subseteq Job
  /\ usurped \subseteq Job
  /\ misreported \subseteq Job
  /\ faults \in 0 .. MaxFaults

Init ==
  /\ QueueInit
  /\ life = [p \in Process |-> "down"]
  /\ pc = [p \in Process |-> "stopped"]
  /\ job = [p \in Process |-> NoJob]
  /\ attempt = [p \in Process |-> 1]
  /\ sends = [j \in Job |-> 0]
  /\ deadLettered = {}
  /\ abandoned = {}
  /\ lapsed = {}
  /\ usurped = {}
  /\ misreported = {}
  /\ faults = 0

\* A fault of the environment: "crash", "restart" (a graceful stop), "lapse"
\* (a lease runs out on a live holder), "redis", "store" (SQLite throws),
\* "deadletter" (the dead-letter insert throws), "smtp" (the reply to an
\* accepted mail is lost).
Fault(kind) ==
  /\ kind \in FaultKinds
  /\ faults < MaxFaults
  /\ faults' = faults + 1

Goto(p, step) == pc' = [pc EXCEPT ![p] = step]

\* The runner is done with its job.  A draining one does not dequeue again.
Finish(p) ==
  /\ Goto(p, IF life[p] = "up" THEN "idle" ELSE "stopped")
  /\ job' = [job EXCEPT ![p] = NoJob]
  /\ UNCHANGED attempt

-----------------------------------------------------------------------------
(* POST /send on some API process.                                         *)

SendRequest(j) == Enqueue(j) /\ UNCHANGED workerVars

(* Start of a process: queue.start, with the scan for leaseless jobs, then *)
(* worker.start.                                                           *)

Start(p) ==
  /\ life[p] = "down"
  /\ life' = [life EXCEPT ![p] = "starting"]
  /\ LeaseScan(p)
  /\ UNCHANGED <<runnerVars, outcomeVars, lapsed, usurped, faults>>

StartLookup(p, j) ==
  /\ life[p] = "starting"
  /\ LeaseLookup(p, j)
  /\ UNCHANGED workerVars

Held(j) == \E p \in Process : job[p] = j

\* The scan adopts a job that its runner has left.  But between the reply to
\* ZSCORE and the ZADD the job may have been popped or leased, or have gone: a
\* runner that has just taken it loses its lease then, and nothing has failed.
StartLease(p, j) ==
  /\ life[p] = "starting"
  /\ LeaseAsExpired(p, j)
  /\ IF InProcessing(j) /\ ~Held(j)
     THEN lapsed' = lapsed \cup {j} /\ UNCHANGED usurped
     ELSE usurped' = usurped \cup {j} /\ UNCHANGED lapsed
  /\ UNCHANGED <<life, runnerVars, outcomeVars, faults>>

\* An error ends the scan, not the start.
StartScanFails(p) ==
  /\ life[p] = "starting"
  /\ Fault("redis")
  /\ DropScans(p)
  /\ UNCHANGED <<life, runnerVars, outcomeVars, lapsed, usurped>>

StartRunner(p) ==
  /\ life[p] = "starting"
  /\ scans[p].check = {} /\ scans[p].leaseless = {}
  /\ life' = [life EXCEPT ![p] = "up"]
  /\ Goto(p, "idle")
  /\ UNCHANGED <<queueVars, job, attempt, outcomeVars, lapsed, usurped, faults>>

(* Background scans of a process that is up; one in flight goes on while   *)
(* the process drains.                                                     *)

Reclaim(p) ==
  /\ life[p] \in {"up", "draining"}
  /\ ReclaimScan(p) \/ \E j \in Job : ReclaimOne(p, j)
  /\ UNCHANGED workerVars

Promote(p) ==
  /\ life[p] \in {"up", "draining"}
  /\ PromoteScan(p) \/ \E j \in Job : PromoteOne(p, j)
  /\ UNCHANGED workerVars

(* worker.stop closes the consumer; runners finish the job they hold, and  *)
(* only then does queue.stop end the connections.                          *)

Drain(p) ==
  /\ life[p] = "up"
  /\ Fault("restart")
  /\ life' = [life EXCEPT ![p] = "draining"]
  /\ UNCHANGED <<queueVars, runnerVars, outcomeVars, lapsed, usurped>>

RunnerStops(p) ==
  /\ life[p] = "draining"
  /\ pc[p] = "idle"
  /\ Goto(p, "stopped")
  /\ UNCHANGED <<queueVars, life, job, attempt, outcomeVars, lapsed, usurped, faults>>

Stop(p) ==
  /\ life[p] = "draining"
  /\ pc[p] = "stopped"
  /\ life' = [life EXCEPT ![p] = "down"]
  /\ DropScans(p)
  /\ UNCHANGED <<runnerVars, outcomeVars, lapsed, usurped, faults>>

\* Also the forced exit of a shutdown that takes too long.
Crash(p) ==
  /\ life[p] # "down"
  /\ Fault("crash")
  /\ life' = [life EXCEPT ![p] = "down"]
  /\ Goto(p, "stopped")
  /\ job' = [job EXCEPT ![p] = NoJob]
  /\ DropScans(p)
  /\ UNCHANGED <<attempt, outcomeVars, lapsed, usurped>>

-----------------------------------------------------------------------------
(* dequeue: the pop, then the lease as a command of its own.  A draining   *)
(* runner may still be answered by the pop it was blocked in.              *)

Dequeue(p) ==
  /\ pc[p] = "idle"
  /\ \E j \in Job : Pop(j) /\ job' = [job EXCEPT ![p] = j]
  /\ Goto(p, "lease")
  /\ UNCHANGED <<life, attempt, outcomeVars, lapsed, usurped, faults>>

LeaseJob(p) ==
  /\ pc[p] = "lease"
  /\ SetLease(job[p])
  /\ Goto(p, "touch")
  /\ attempt' = [attempt EXCEPT ![p] = 1]
  /\ UNCHANGED <<life, job, outcomeVars, lapsed, usurped, faults>>

\* The reply to the pop is lost, or the lease command fails (before or after
\* Redis ran it): dequeue waits and asks for another job, and leaves this one
\* in the processing list.
LeaseJobFails(p) ==
  /\ pc[p] = "lease"
  /\ Fault("redis")
  /\ \/ SetLease(job[p])
     \/ UNCHANGED queueVars
  /\ Finish(p)
  /\ UNCHANGED <<life, outcomeVars, lapsed, usurped>>

-----------------------------------------------------------------------------
(* processJob.                                                             *)

\* The catch block: a hard bounce and the last attempt give up, otherwise the
\* runner waits (holding the job, not touching it) and tries again.
AttemptFails(p, isHardBounce) ==
  IF attempt[p] >= MaxAttempts \/ isHardBounce
  THEN Goto(p, "deadletter") /\ UNCHANGED attempt
  ELSE Goto(p, "touch") /\ attempt' = [attempt EXCEPT ![p] = @ + 1]

TouchJob(p) ==
  /\ pc[p] = "touch"
  /\ Touch(job[p])
  /\ Goto(p, "permission")
  /\ UNCHANGED <<life, job, attempt, outcomeVars, lapsed, usurped, faults>>

TouchFails(p) ==
  /\ pc[p] = "touch"
  /\ Fault("redis")
  /\ AttemptFails(p, FALSE)
  /\ UNCHANGED <<queueVars, life, job, outcomeVars, lapsed, usurped>>

PermissionGiven(p) ==
  /\ pc[p] = "permission"
  /\ Goto(p, "send")
  /\ UNCHANGED <<queueVars, life, job, attempt, outcomeVars, lapsed, usurped, faults>>

PermissionDenied(p) ==
  /\ pc[p] = "permission"
  /\ Goto(p, "defer")
  /\ UNCHANGED <<queueVars, life, job, attempt, outcomeVars, lapsed, usurped, faults>>

\* The quota query, or the recording of the deferral, throws.
PermissionFails(p) ==
  /\ pc[p] = "permission"
  /\ Fault("store")
  /\ AttemptFails(p, FALSE)
  /\ UNCHANGED <<queueVars, life, job, outcomeVars, lapsed, usurped>>

DeferJob(p) ==
  /\ pc[p] = "defer"
  /\ Defer(job[p])
  /\ Finish(p)
  /\ UNCHANGED <<life, outcomeVars, lapsed, usurped, faults>>

\* The processing list has lost the job (QUEUE_DEFER_FAILED): the runner
\* waits and repeats the attempt, still holding the job.
DeferRefused(p) ==
  /\ pc[p] = "defer"
  /\ ~InProcessing(job[p])
  /\ Goto(p, "touch")
  /\ UNCHANGED <<queueVars, life, job, attempt, outcomeVars, lapsed, usurped, faults>>

\* The same when the command fails, before or after Redis ran it.
DeferFails(p) ==
  /\ pc[p] = "defer"
  /\ Fault("redis")
  /\ \/ Defer(job[p]) /\ misreported' = misreported \cup {job[p]}
     \/ UNCHANGED <<queueVars, misreported>>
  /\ Goto(p, "touch")
  /\ UNCHANGED <<life, job, attempt, sends, deadLettered, abandoned, lapsed, usurped>>

CountSend(p) == sends' = [sends EXCEPT ![job[p]] = IF @ < 2 THEN @ + 1 ELSE @]

SmtpAccepts(p) ==
  /\ pc[p] = "send"
  /\ CountSend(p)
  /\ Goto(p, "record")
  /\ UNCHANGED <<queueVars, life, job, attempt, deadLettered, abandoned, misreported,
                 lapsed, usurped, faults>>

\* SMTP refuses, or getTransporter finds no account.
SmtpRejects(p, isHardBounce) ==
  /\ pc[p] = "send"
  /\ AttemptFails(p, isHardBounce)
  /\ UNCHANGED <<queueVars, life, job, outcomeVars, lapsed, usurped, faults>>

SmtpReplyLost(p) ==
  /\ pc[p] = "send"
  /\ Fault("smtp")
  /\ CountSend(p)
  /\ misreported' = misreported \cup {job[p]}
  /\ AttemptFails(p, FALSE)
  /\ UNCHANGED <<queueVars, life, job, deadLettered, abandoned, lapsed, usurped>>

RecordDelivered(p) ==
  /\ pc[p] = "record"
  /\ Goto(p, "ack")
  /\ UNCHANGED <<queueVars, life, job, attempt, outcomeVars, lapsed, usurped, faults>>

\* The lifecycle or the event sink throws inside the try block of the send:
\* the delivered mail counts as a failed attempt.
RecordDeliveredFails(p) ==
  /\ pc[p] = "record"
  /\ Fault("store")
  /\ misreported' = misreported \cup {job[p]}
  /\ AttemptFails(p, FALSE)
  /\ UNCHANGED <<queueVars, life, job, sends, deadLettered, abandoned, lapsed, usurped>>

DeadLetter(p) ==
  /\ pc[p] = "deadletter"
  /\ deadLettered' = deadLettered \cup {job[p]}
  /\ Goto(p, "ack")
  /\ UNCHANGED <<queueVars, life, job, attempt, sends, abandoned, misreported, lapsed,
                 usurped, faults>>

\* The sink's error is logged, and the job is acked all the same.
DeadLetterFails(p) ==
  /\ pc[p] = "deadletter"
  /\ Fault("deadletter")
  /\ abandoned' = abandoned \cup {job[p]}
  /\ Goto(p, "ack")
  /\ UNCHANGED <<queueVars, life, job, attempt, sends, deadLettered, misreported, lapsed,
                 usurped>>

\* Mutant: the runner acks the job in its finally block.
JobCrashesAcked(p) ==
  /\ pc[p] \in {"touch", "deadletter"}
  /\ Fault("store")
  /\ AckRemove(job[p])
  /\ Finish(p)
  /\ UNCHANGED <<life, outcomeVars, lapsed, usurped>>

\* A sink throws outside the try block, at the start of the job, in the
\* recording of a retry or a bounce, or after the dead-letter row is written:
\* the runner drops the job without an ack.
JobCrashes(p) ==
  /\ pc[p] \in {"touch", "deadletter"}
  /\ Fault("store")
  /\ \/ UNCHANGED deadLettered
     \/ /\ pc[p] = "deadletter"
        /\ deadLettered' = deadLettered \cup {job[p]}
  /\ Finish(p)
  /\ UNCHANGED <<queueVars, life, sends, abandoned, misreported, lapsed, usurped>>

\* ackRaw: each of its two commands may fail, unnoticed.
Ack(p) ==
  /\ pc[p] = "ack"
  /\ \/ AckRemove(job[p]) /\ UNCHANGED faults
     \/ UNCHANGED queueVars /\ Fault("redis")
  /\ Goto(p, "unlease")
  /\ UNCHANGED <<life, job, attempt, outcomeVars, lapsed, usurped>>

Unlease(p) ==
  /\ pc[p] = "unlease"
  /\ \/ AckUnlease(job[p]) /\ UNCHANGED faults
     \/ UNCHANGED queueVars /\ Fault("redis")
  /\ Finish(p)
  /\ UNCHANGED <<life, outcomeVars, lapsed, usurped>>

-----------------------------------------------------------------------------
(* The clock.                                                              *)

VisibilityTimeout(j) ==
  /\ ~Held(j)
  /\ LeaseExpires(j)
  /\ lapsed' = lapsed \cup {j}
  /\ UNCHANGED <<usurped, life, runnerVars, outcomeVars, faults>>

\* A lease that runs out on a runner that is alive: sending, or the wait for
\* the next attempt (up to 30 minutes for a greylisted one), took longer than
\* QUEUE_VISIBILITY_TIMEOUT_MS.
Lapse(j) ==
  /\ Held(j)
  /\ Fault("lapse")
  /\ LeaseExpires(j)
  /\ lapsed' = lapsed \cup {j}
  /\ UNCHANGED <<usurped, life, runnerVars, outcomeVars>>

DeferralEnds(j) == DelayElapses(j) /\ UNCHANGED workerVars

-----------------------------------------------------------------------------
\* What a runner does when nothing fails: one step is possible at each pc.
Run(p) ==
  \/ Dequeue(p) \/ LeaseJob(p) \/ TouchJob(p)
  \/ PermissionGiven(p) \/ PermissionDenied(p)
  \/ DeferJob(p) \/ DeferRefused(p)
  \/ SmtpAccepts(p) \/ \E isHardBounce \in BOOLEAN : SmtpRejects(p, isHardBounce)
  \/ RecordDelivered(p) \/ DeadLetter(p) \/ Ack(p) \/ Unlease(p)

RunFails(p) ==
  \/ LeaseJobFails(p) \/ TouchFails(p) \/ PermissionFails(p) \/ DeferFails(p)
  \/ SmtpReplyLost(p) \/ RecordDeliveredFails(p) \/ DeadLetterFails(p)
  \/ JobCrashes(p)

Boot(p) ==
  \/ Start(p)
  \/ \E j \in Job : StartLookup(p, j) \/ StartLease(p, j)
  \/ StartRunner(p)

Shut(p) == RunnerStops(p) \/ Stop(p)

Next ==
  \/ \E j \in Job :
       SendRequest(j) \/ VisibilityTimeout(j) \/ Lapse(j) \/ DeferralEnds(j)
  \/ \E p \in Process :
       \/ Boot(p) \/ StartScanFails(p) \/ Reclaim(p) \/ Promote(p)
       \/ Run(p) \/ RunFails(p)
       \/ Drain(p) \/ Shut(p) \/ Crash(p)

Spec == Init /\ [][Next]_vars

(***************************************************************************)
(* Fairness.  Runners and background scans are event-loop callbacks that   *)
(* run when their reply or their timer is there; time passes; the service  *)
(* manager restarts a process that has stopped (Restart=always in          *)
(* install.sh).  The quota windows move on, so a job that asks for         *)
(* permission again and again is given it at last (strong fairness).       *)
(* Nothing is said of requests, of SMTP's answers or of faults.            *)
(***************************************************************************)
Fairness ==
  /\ \A p \in Process :
       /\ WF_vars(Run(p)) /\ WF_vars(Reclaim(p)) /\ WF_vars(Promote(p))
       /\ WF_vars(Boot(p)) /\ WF_vars(Shut(p))
       /\ SF_vars(PermissionGiven(p))
  /\ \A j \in Job : WF_vars(VisibilityTimeout(j)) /\ WF_vars(DeferralEnds(j))

FairSpec == Spec /\ Fairness

\* A provider that is asked without end takes the mail, or refuses it for
\* good, at some attempt.  Without this a job may live for ever: dequeue
\* restarts the attempt counter of a deferred job, so a job that is refused
\* temporarily and denied permission in turn never reaches its last attempt.
ProviderDecides == \A p \in Process : SF_vars(SmtpAccepts(p) \/ SmtpRejects(p, TRUE))

DecidedSpec == FairSpec /\ ProviderDecides

-----------------------------------------------------------------------------
Settled(j) == sends[j] > 0 \/ j \in deadLettered \/ j \in abandoned

(***************************************************************************)
(* At-least-once: whatever crashes, fails or runs late, an accepted job    *)
(* that Redis no longer stores was sent or given up (worker.js acks after  *)
(* a terminal state only, and acks of stale holders remove the copy of     *)
(* another runner).                                                        *)
(***************************************************************************)
NoJobLost == \A j \in accepted : Stored(j) \/ Settled(j)

Working == {"touch", "permission", "defer", "send", "record", "deadletter", "ack"}

(***************************************************************************)
(* The lease protects its holder, unless it once ran out, a deferral that  *)
(* Redis made was reported as failed, or a starting process took the job   *)
(* for an orphan (usurped: redisMailQueue.js:217-221, two commands apart). *)
(* Otherwise no other runner holds its job, and while it works on the job  *)
(* the lease is there, so that a crash now would be repaired by the        *)
(* reclaim scan.                                                           *)
(***************************************************************************)
LeaseProtects ==
  \A p \in Process :
    job[p] \notin {NoJob} \cup lapsed \cup usurped \cup misreported =>
      /\ \A q \in Process \ {p} : job[q] # job[p]
      /\ pc[p] \in Working => leases[job[p]] # "none"

(***************************************************************************)
(* A mail is sent twice for three reasons only.  A lease ran out, which is *)
(* how the crash of the durability note (ENTERPRISE_HARDENING.md:135)      *)
(* shows; the runner was told that a send or a deferral that had happened  *)
(* had failed; or a process that started put a lease of the past on a job  *)
(* that it wrongly took for an orphan.  The third needs no fault at all,   *)
(* and the note does not know it.                                          *)
(***************************************************************************)
DuplicateExplained ==
  \A j \in Job : sends[j] > 1 => j \in lapsed \cup usurped \cup misreported

Promise == INSTANCE MailDelivery WITH
  kept <- {j \in Job : Stored(j)},
  sent <- {j \in Job : sends[j] > 0}

\* The pipeline implements the promise of MailDelivery: a mail that was accepted
\* is kept until it was sent or given up, and never comes back once it is gone.
PromiseKept == Promise!Spec

(***************************************************************************)
(* "Expired processing jobs are requeued" (ENTERPRISE_HARDENING.md:47), so *)
(* every accepted job is settled in the end.                               *)
(***************************************************************************)
EverySettled == \A j \in Job : j \in accepted ~> Settled(j)

Stranded(j) == Settled(j) /\ InProcessing(j) /\ leases[j] = "none"

(***************************************************************************)
(* Every accepted job leaves Redis for good in the end, or all that stays  *)
(* is a copy of a settled job that no lease points at: the ack of a late   *)
(* runner may take away the lease of the next holder, who then dies.  So   *)
(* every accepted job is settled, and no mail is sent again without end.   *)
(***************************************************************************)
EveryLeaves == \A j \in Job : j \in accepted ~> [](Stored(j) => Stranded(j))
=============================================================================
