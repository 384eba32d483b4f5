-------------------------- MODULE DeadLetterReplay --------------------------
(***************************************************************************)
(* The replay of dead letters (src/src/app.js): the automatic cycle of     *)
(* each worker process and the manual POST /dead-letters/retry, over the   *)
(* rows of dead_letter_jobs (src/src/operationalStore.js), which all       *)
(* processes share.  A replay reads a row, waits for queue.enqueue, and    *)
(* then marks the row; another replay may come in between, and the UPDATE  *)
(* that marks takes only rows that bear no mark.                           *)
(*                                                                         *)
(* The worker is reduced to its outcomes: a queued job is sent, or fails   *)
(* for good and becomes a row, and with a fault it may be sent and stay,   *)
(* become a row and stay, or go without one.  A job keeps its mail and     *)
(* autoRetryCount.                                                         *)
(***************************************************************************)
EXTENDS Naturals, Sequences, FiniteSets, FiniteSetsExt

CONSTANTS
  Mail,       \* the mails that were accepted
  Suppressible, \* those of a category in SUPPRESSION_APPLIES_TO
  Cycle,      \* the worker processes, each with its automatic cycle
  Manual,     \* the manual retry requests, as far as they run at one time
  MaxAuto,    \* DLQ_AUTO_RETRY_MAX_ATTEMPTS
  BatchSize,  \* DLQ_AUTO_RETRY_BATCH_SIZE
  AutoForce,  \* DLQ_AUTO_RETRY_FORCE
  Forces,     \* the values of "force" that a manual request may have
  MaxRows, MaxRequests, MaxFaults   \* bounds of the model

ASSUME ReplayerAssumption == Cycle \cap Manual = {}
ASSUME SuppressibleAssumption == Suppressible \subseteq Mail
ASSUME LimitAssumption == MaxAuto \in Nat /\ BatchSize \in Nat \ {0}
ASSUME ForceAssumption == AutoForce \in BOOLEAN /\ Forces \subseteq BOOLEAN
ASSUME BoundAssumption == {MaxRows, MaxRequests, MaxFaults} \subseteq Nat

VARIABLES
  queue,      \* how many jobs of each mail with each autoRetryCount are queued
  rows,       \* dead_letter_jobs, in the order of their ids
  suppressed, \* the mails of which a recipient bounced hard
  replay,     \* what each replayer is doing
  requests,   \* how many manual requests came
  faults,     \* how many faults happened
  sent,       \* history: the mails that were sent
  autoPushes, \* history: how often the cycle has queued each mail
  excused,    \* history: mails for which a second copy has a known cause
  unacked     \* history: mails that SMTP took and whose job stayed queued

history == <<sent, autoPushes, excused, unacked>>
vars == <<queue, rows, suppressed, replay, requests, faults, history>>

Replayer == Cycle \cup Manual
Count == 0 .. MaxAuto

(***************************************************************************)
(* A row: its mail, its reason, the autoRetryCount of its job, and its two *)
(* marks.  The reason is the text of the last SMTP error: of one that the  *)
(* worker classified as a hard bounce ("hard"), of one with the word       *)
(* "complaint" in it, or of any other ("soft").  A replay: the rows it has *)
(* still to do, whether it is forced, and what it does with the first.     *)
(***************************************************************************)
Reason == {"soft", "hard", "complaint"}
Row == [mail : Mail, reason : Reason, count : Count, requeued : BOOLEAN, final : BOOLEAN]
Replay == [todo : SUBSET (1 .. MaxRows), force : BOOLEAN,
           step : {"idle", "reading", "giving up", "enqueueing", "marking"}]
Idle == [todo |-> {}, force |-> FALSE, step |-> "idle"]

TypeOK ==
  /\ queue \in [Mail -> [Count -> Nat]]
  /\ rows \in Seq(Row) /\ Len(rows) <= MaxRows
  /\ suppressed \subseteq Mail
  /\ replay \in [Replayer -> Replay]
  /\ \A r \in Replayer : replay[r].step # "idle" =>
       replay[r].todo # {} /\ replay[r].todo \subseteq 1 .. Len(rows)
  /\ requests \in 0 .. MaxRequests /\ faults \in 0 .. MaxFaults
  /\ sent \subseteq Mail /\ excused \subseteq Mail /\ unacked \subseteq Mail
  /\ autoPushes \in [Mail -> Nat]

Init ==
  /\ queue = [m \in Mail |-> [c \in Count |-> IF c = 0 THEN 1 ELSE 0]]
  /\ rows = <<>>
  /\ suppressed = {}
  /\ replay = [r \in Replayer |-> Idle]
  /\ requests = 0 /\ faults = 0
  /\ sent = {}
  /\ autoPushes = [m \in Mail |-> 0]
  /\ excused = {} /\ unacked = {}

-----------------------------------------------------------------------------
RowIds == 1 .. Len(rows)
Unmarked(i) == ~rows[i].requeued /\ ~rows[i].final

\* The oldest of the unmarked rows, as many as the limit allows.
PendingRows(limit) ==
  {i \in RowIds : Unmarked(i) /\ Cardinality({k \in 1 .. i - 1 : Unmarked(k)}) < limit}

\* A replay takes its rows in the order of their ids.
InHand(r) == Min(replay[r].todo)

\* The replayers that are at one of these steps with row i.
At(i, steps) == {r \in Replayer : replay[r].step \in steps /\ InHand(r) = i}

Fault == faults < MaxFaults /\ faults' = faults + 1

-----------------------------------------------------------------------------
(* The worker.                                                             *)

Deliver(m, c) ==
  /\ queue[m][c] > 0
  /\ queue' = [queue EXCEPT ![m][c] = @ - 1]
  /\ sent' = sent \cup {m}
  /\ UNCHANGED <<rows, suppressed, replay, requests, faults, autoPushes, excused, unacked>>

\* SMTP takes the mail, and its job stays queued: the worker dies before the
\* ack, or the ack fails; its lease had run out; or the reply is lost, or the
\* delivery cannot be recorded, so that the worker sees a failed attempt.  What
\* comes of the job then is open: it is sent again, or becomes a row.
DeliverUnacked(m, c) ==
  /\ queue[m][c] > 0
  /\ Fault
  /\ sent' = sent \cup {m}
  /\ unacked' = unacked \cup {m}
  /\ UNCHANGED <<queue, rows, suppressed, replay, requests, autoPushes, excused>>

\* insertDeadLetterJob.
InsertRow(m, c, reason) ==
  /\ Len(rows) < MaxRows
  /\ rows' = Append(rows, [mail |-> m, reason |-> reason, count |-> c,
                           requeued |-> FALSE, final |-> FALSE])

\* Mutant: the recipients of a hard bounce are not suppressed.
FailUnsuppressed(m, c, reason) ==
  /\ InsertRow(m, c, reason)
  /\ UNCHANGED suppressed

\* The last attempt fails: the recipients of a hard bounce are suppressed,
\* then the row is inserted.
Fail(m, c, reason) ==
  /\ InsertRow(m, c, reason)
  /\ suppressed' = IF reason = "hard" THEN suppressed \cup {m} ELSE suppressed

\* ... then the job is acked.
DeadLetter(m, c, reason) ==
  /\ queue[m][c] > 0
  /\ queue' = [queue EXCEPT ![m][c] = @ - 1]
  /\ Fail(m, c, reason)
  /\ UNCHANGED <<replay, requests, faults, history>>

\* The worker dies before the ack: the job is taken again.
DeadLetterUnacked(m, c, reason) ==
  /\ queue[m][c] > 0
  /\ Fault
  /\ Fail(m, c, reason)
  /\ excused' = excused \cup {m}
  /\ UNCHANGED <<queue, replay, requests, sent, autoPushes, unacked>>

\* The insert of the row throws: the job is acked all the same.
DeadLetterLost(m, c, reason) ==
  /\ queue[m][c] > 0
  /\ Fault
  /\ queue' = [queue EXCEPT ![m][c] = @ - 1]
  /\ suppressed' = IF reason = "hard" THEN suppressed \cup {m} ELSE suppressed
  /\ UNCHANGED <<rows, replay, requests, history>>

-----------------------------------------------------------------------------
(* The two ways to start a replay.                                         *)

\* runDeadLetterAutoRetryCycle; its flag lets one cycle run at a time.
StartCycle(r) ==
  /\ replay[r].step = "idle"
  /\ PendingRows(BatchSize) # {}
  /\ replay' = [replay EXCEPT ![r] = [todo |-> PendingRows(BatchSize), force |-> AutoForce,
                                      step |-> "reading"]]
  /\ UNCHANGED <<queue, rows, suppressed, requests, faults, history>>

\* POST /dead-letters/retry: with the id of a row, or for all unmarked rows.
StartRequest(r, force) ==
  /\ replay[r].step = "idle"
  /\ requests < MaxRequests
  /\ requests' = requests + 1
  /\ \E todo \in {{i} : i \in RowIds} \cup {PendingRows(MaxRows)} :
       /\ todo # {}
       /\ replay' = [replay EXCEPT ![r] = [todo |-> todo, force |-> force,
                                           step |-> "reading"]]
  /\ UNCHANGED <<queue, rows, suppressed, faults, history>>

-----------------------------------------------------------------------------
(* requeueDeadLetter.                                                      *)

Goto(r, step) == replay' = [replay EXCEPT ![r].step = step]

\* On to the next row.
Proceed(r) ==
  replay' = [replay EXCEPT ![r] =
    IF @.todo = {InHand(r)} THEN Idle
    ELSE [todo |-> @.todo \ {InHand(r)}, force |-> @.force, step |-> "reading"]]

Marked(r) ==
  LET row == rows[InHand(r)] IN row.requeued \/ (row.final /\ ~replay[r].force)
Exhausted(r) == r \in Cycle /\ rows[InHand(r)].count >= MaxAuto
\* isHardFailureReason looks for "hard_bounce" and "complaint" in the text of
\* the error, where the worker's classification does not appear.
HardFailure(r) == rows[InHand(r)].reason = "complaint" /\ ~replay[r].force
Suppressed(r) ==
  rows[InHand(r)].mail \in Suppressible \cap suppressed /\ ~replay[r].force

\* Already requeued, or final: nothing to do.
Skip(r) ==
  /\ replay[r].step = "reading"
  /\ Marked(r)
  /\ Proceed(r)
  /\ UNCHANGED <<queue, rows, suppressed, requests, faults, history>>

\* Exhausted, a hard failure, suppressed, or no longer sendable: a webhook may
\* have suppressed a recipient, or the SMTP account be gone.  The cycle calls
\* the row final, a request leaves it.
Reject(r) ==
  /\ replay[r].step = "reading"
  /\ ~Marked(r)
  /\ IF r \in Cycle THEN Goto(r, "giving up") ELSE Proceed(r)
  /\ UNCHANGED <<queue, rows, suppressed, requests, faults, history>>

\* Mutant: a row that is already requeued is not skipped.
AcceptMarked(r) ==
  /\ replay[r].step = "reading"
  /\ ~Exhausted(r) /\ ~HardFailure(r) /\ ~Suppressed(r)
  /\ Goto(r, "enqueueing")
  /\ excused' = IF \/ rows[InHand(r)].final
                   \/ At(InHand(r), {"enqueueing", "marking"}) # {}
                THEN excused \cup {rows[InHand(r)].mail} ELSE excused
  /\ UNCHANGED <<queue, rows, suppressed, requests, faults, sent, autoPushes, unacked>>

\* The row passes, and the replay calls queue.enqueue.  It knows nothing of
\* another replay that has read the row too, and a forced one may take a row
\* that is already final.
Accept(r) ==
  /\ replay[r].step = "reading"
  /\ ~Marked(r) /\ ~Exhausted(r) /\ ~HardFailure(r) /\ ~Suppressed(r)
  /\ Goto(r, "enqueueing")
  /\ excused' = IF \/ rows[InHand(r)].final
                   \/ At(InHand(r), {"enqueueing", "marking"}) # {}
                THEN excused \cup {rows[InHand(r)].mail} ELSE excused
  /\ UNCHANGED <<queue, rows, suppressed, requests, faults, sent, autoPushes, unacked>>

\* Mutant: the count stays what it was.
EnqueueUncounted(r) ==
  /\ queue' = [queue EXCEPT ![rows[InHand(r)].mail][rows[InHand(r)].count] = @ + 1]
  /\ autoPushes' = IF r \in Cycle THEN [autoPushes EXCEPT ![rows[InHand(r)].mail] = @ + 1]
                   ELSE autoPushes

\* The job that goes to the queue.
Enqueue(r) ==
  LET row == rows[InHand(r)]
      count == IF r \in Cycle THEN row.count + 1 ELSE row.count
  IN  /\ queue' = [queue EXCEPT ![row.mail][count] = @ + 1]
      /\ autoPushes' = IF r \in Cycle THEN [autoPushes EXCEPT ![row.mail] = @ + 1]
                       ELSE autoPushes

Enqueued(r) ==
  /\ replay[r].step = "enqueueing"
  /\ Enqueue(r)
  /\ Goto(r, "marking")
  /\ UNCHANGED <<rows, suppressed, requests, faults, sent, excused, unacked>>

\* "failed": the queue is full or unreachable.
EnqueueFails(r) ==
  /\ replay[r].step = "enqueueing"
  /\ Fault
  /\ Proceed(r)
  /\ UNCHANGED <<queue, rows, suppressed, requests, history>>

\* The same answer, although the queue has the job: its reply is lost.
ReplyLost(r) ==
  /\ replay[r].step = "marking"
  /\ Fault
  /\ Proceed(r)
  /\ excused' = excused \cup {rows[InHand(r)].mail}
  /\ UNCHANGED <<queue, rows, suppressed, requests, sent, autoPushes, unacked>>

\* Mutant: the UPDATE looks only at its own mark.
MarkRequeuedUnguarded(r) ==
  /\ replay[r].step = "marking"
  /\ rows' = [rows EXCEPT ![InHand(r)].requeued = TRUE]
  /\ Proceed(r)
  /\ UNCHANGED <<queue, suppressed, requests, faults, history>>

\* The result of the UPDATE is not looked at.
MarkRequeued(r) ==
  /\ replay[r].step = "marking"
  /\ rows' = IF Unmarked(InHand(r)) THEN [rows EXCEPT ![InHand(r)].requeued = TRUE] ELSE rows
  /\ Proceed(r)
  /\ UNCHANGED <<queue, suppressed, requests, faults, history>>

\* Mutant: a row that cannot be sent stays as it is.
MarkFinalNever(r) ==
  /\ replay[r].step = "giving up"
  /\ Proceed(r)
  /\ UNCHANGED <<queue, rows, suppressed, requests, faults, history>>

MarkFinal(r) ==
  /\ replay[r].step = "giving up"
  /\ rows' = IF Unmarked(InHand(r)) THEN [rows EXCEPT ![InHand(r)].final = TRUE] ELSE rows
  /\ Proceed(r)
  /\ UNCHANGED <<queue, suppressed, requests, faults, history>>

(***************************************************************************)
(* The replay ends before its row is marked: the store throws, or the      *)
(* process dies.  A job on its way to Redis may still arrive.              *)
(***************************************************************************)
Abort(r) ==
  /\ replay[r].step # "idle"
  /\ Fault
  /\ replay' = [replay EXCEPT ![r] = Idle]
  /\ \/ /\ replay[r].step = "enqueueing"
        /\ Enqueue(r)
        /\ excused' = excused \cup {rows[InHand(r)].mail}
     \/ /\ excused' = IF replay[r].step = "marking"
                       THEN excused \cup {rows[InHand(r)].mail} ELSE excused
        /\ UNCHANGED <<queue, autoPushes>>
  /\ UNCHANGED <<rows, suppressed, requests, sent, unacked>>

-----------------------------------------------------------------------------
Work(m, c) ==
  \/ Deliver(m, c)
  \/ \E reason \in Reason : DeadLetter(m, c, reason)

Turn(r) ==
  \/ Skip(r) \/ Reject(r) \/ Accept(r)
  \/ Enqueued(r) \/ MarkRequeued(r) \/ MarkFinal(r)

Next ==
  \/ \E m \in Mail, c \in Count :
       \/ Work(m, c) \/ DeliverUnacked(m, c)
       \/ \E reason \in Reason :
            DeadLetterUnacked(m, c, reason) \/ DeadLetterLost(m, c, reason)
  \/ \E r \in Cycle : StartCycle(r)
  \/ \E r \in Manual, force \in Forces : StartRequest(r, force)
  \/ \E r \in Replayer : Turn(r) \/ EnqueueFails(r) \/ ReplyLost(r) \/ Abort(r)

Spec == Init /\ [][Next]_vars

\* The worker works, the cycle's timer fires, and a replay that has started
\* comes to an end; no request need ever come.
Fairness ==
  /\ \A m \in Mail, c \in Count : WF_vars(Work(m, c))
  /\ \A r \in Cycle : WF_vars(StartCycle(r))
  /\ \A r \in Replayer : WF_vars(Turn(r))

FairSpec == Spec /\ Fairness

-----------------------------------------------------------------------------
\* A row from which a copy of its mail may still come: unmarked and not yet
\* queued, or already in the hands of a replay that will queue it.
LiveRow(i) ==
  \/ Unmarked(i) /\ At(i, {"marking"}) = {}
  \/ At(i, {"enqueueing"}) # {}

LiveRows(m) == {i \in RowIds : rows[i].mail = m /\ LiveRow(i)}
LiveJobs(m) == {c \in Count : queue[m][c] > 0}

(***************************************************************************)
(* A mail is replayed as one mail: it is queued once or waits as one row,  *)
(* unless two replays overlapped on a row, a forced one took a final row,  *)
(* or a crash, an error or a lost reply came between a queue write and its *)
(* mark.                                                                   *)
(***************************************************************************)
OneCopyUnlessExcused ==
  \A m \in Mail \ excused :
    /\ Cardinality(LiveRows(m)) + Cardinality(LiveJobs(m)) <= 1
    /\ \A c \in Count : queue[m][c] <= 1

\* "requeues them up to DLQ_AUTO_RETRY_MAX_ATTEMPTS" (README.md:89), with the
\* same excuses, however many manual replays of the mail come in between.
AutoBudget == \A m \in Mail \ excused : autoPushes[m] <= MaxAuto

(***************************************************************************)
(* A mail that bounced hard is not sent to its recipient again unless a    *)
(* replay is forced, if its category is under suppression: the worker's    *)
(* suppression is there when a replay of any process reads the row.        *)
(***************************************************************************)
SuppressedNotReplayed ==
  [][\A r \in Replayer : Accept(r) /\ rows[InHand(r)].mail \in Suppressible
       => rows[InHand(r)].reason # "hard" \/ replay[r].force]_vars

(***************************************************************************)
(* Every mail and every row has one end.  A mail that was sent is, with    *)
(* the same excuses, not waiting to be sent again, neither as a job nor as *)
(* a row, unless the worker did not come to the ack of the job that was    *)
(* sent (unacked); a row is never both requeued and final, although the    *)
(* two updates come from replays that read the row before either mark.     *)
(***************************************************************************)
OneFate ==
  /\ TypeOK
  /\ \A m \in sent \ (excused \cup unacked) : LiveRows(m) = {} /\ LiveJobs(m) = {}
  /\ \A i \in RowIds : ~(rows[i].requeued /\ rows[i].final)

\* Replays end: every mail is sent or given up for good, also one whose row
\* lies beyond the batch of a cycle, and no row keeps a cycle busy for ever.
EveryMailEnds ==
  \A m \in Mail : <>[](LiveJobs(m) = {} /\ LiveRows(m) = {})

(***************************************************************************)
(* What the documents say of marks and of hard bounces, and the code does  *)
(* not keep: README.md, section 6, says how.                               *)
(***************************************************************************)
\* "The retry flow keeps the original DLQ row for audit and marks it with the
\* new queued job id" (README.md:415): when the update that follows a queue
\* write is done, the row is marked requeued.
ReplayedRowMarked ==
  [][\A r \in Replayer : MarkRequeued(r) => rows'[InHand(r)].requeued]_vars

\* "Hard-bounce and suppressed recipients are skipped unless --force is used"
\* (README.md:415), whatever the category of the mail.
HardBounceSkipped ==
  [][\A r \in Replayer : Accept(r) => rows[InHand(r)].reason # "hard" \/ replay[r].force]_vars
=============================================================================
