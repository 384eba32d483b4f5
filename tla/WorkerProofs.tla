---------------------------- MODULE WorkerProofs ----------------------------
(***************************************************************************)
(* Theorems about the Redis queue and the workers on it, for every number  *)
(* of jobs, processes, attempts and faults.                                *)
(*                                                                         *)
(* QueueInv is the inductive invariant of the queue: the type invariant    *)
(* says what kind of value each key holds, OneCopyAtMost that the three    *)
(* stores are disjoint, and OnlyAcceptedStored is what makes the push of a *)
(* new job harmless.  WorkerInv is that of the system.  NoJobLost is not   *)
(* inductive: an ack may remove the only copy of its job, so the invariant *)
(* says that a runner that is about to ack holds a settled job, and that a *)
(* runner holds accepted jobs only.  LeaseInv says, of each job whose      *)
(* lease never ran out, that no start took for an orphan, and whose        *)
(* holders were told the truth, that it has one holder, and that no pop    *)
(* and no scan can take it away.                                           *)
(***************************************************************************)
EXTENDS Worker, SequenceTheorems, TLAPS

(* What the two operations on the pending list do to membership in it.     *)

\* RPUSH of a job that is not in the list: the list holds it and what it
\* held before, still without a copy.
LEMMA PushPending ==
  ASSUME NEW j \in Job, pending \in Seq(Job), NoCopyInPending,
         ~InPending(j), pending' = Append(pending, j)
  PROVE  /\ pending' \in Seq(Job)
         /\ NoCopyInPending'
         /\ \A k \in Job : InPending(k)' <=> InPending(k) \/ k = j
<1>1. pending' \in Seq(Job) /\ Len(pending') = Len(pending) + 1
  OBVIOUS
<1>2. /\ Len(pending) \in Nat
      /\ \A i \in 1 .. Len(pending) : pending'[i] = pending[i] /\ pending[i] # j
      /\ pending'[Len(pending) + 1] = j
  BY DEF InPending
<1>3. NoCopyInPending'
  BY <1>1, <1>2 DEF NoCopyInPending
<1>4. ASSUME NEW k \in Job
      PROVE  InPending(k)' <=> InPending(k) \/ k = j
  <2>1. InPending(k)' => InPending(k) \/ k = j
    BY <1>1, <1>2 DEF InPending
  <2>2. InPending(k) => InPending(k)'
    BY <1>1, <1>2 DEF InPending
  <2>3. k = j => InPending(k)'
    BY <1>1, <1>2 DEF InPending
  <2>. QED  BY <2>1, <2>2, <2>3
<1>. QED  BY <1>1, <1>3, <1>4

\* The pop half of BRPOPLPUSH: the list loses the job that was last, and
\* nothing else.
LEMMA PopPending ==
  ASSUME NEW j \in Job, pending \in Seq(Job), NoCopyInPending, pending # <<>>,
         j = pending[Len(pending)],
         pending' = SubSeq(pending, 1, Len(pending) - 1)
  PROVE  /\ pending' \in Seq(Job)
         /\ NoCopyInPending'
         /\ InPending(j)
         /\ \A k \in Job : InPending(k)' <=> InPending(k) /\ k # j
<1>1. Len(pending) \in Nat /\ Len(pending) > 0
  OBVIOUS
<1>2. /\ pending' \in Seq(Job)
      /\ Len(pending') = Len(pending) - 1
      /\ \A i \in 1 .. Len(pending) - 1 : pending'[i] = pending[i]
  <2>1. \A i \in 1 .. Len(pending) - 1 : pending[i] \in Job
    BY <1>1
  <2>2. 1 \in Int /\ Len(pending) - 1 \in Int
    BY <1>1
  <2>3. /\ pending' \in Seq(Job)
        /\ Len(pending') = IF 1 <= Len(pending) - 1 THEN Len(pending) - 1 - 1 + 1 ELSE 0
        /\ \A i \in 1 .. Len(pending) - 1 - 1 + 1 : pending'[i] = pending[1 + i - 1]
    BY <2>1, <2>2, SubSeqProperties
  <2>4. Len(pending') = Len(pending) - 1
    <3>1. \A n \in Nat : n > 0 => (IF 1 <= n - 1 THEN n - 1 - 1 + 1 ELSE 0) = n - 1
      OBVIOUS
    <3>. QED  BY <1>1, <2>3, <3>1, Zenon
  <2>5. ASSUME NEW i \in 1 .. Len(pending) - 1
        PROVE  pending'[i] = pending[i]
    <3>1. i \in 1 .. Len(pending) - 1 - 1 + 1 /\ 1 + i - 1 = i
      BY <1>1
    <3>. QED  BY <2>3, <3>1
  <2>. QED  BY <2>3, <2>4, <2>5
<1>3. NoCopyInPending'
  BY <1>1, <1>2 DEF NoCopyInPending
<1>4. InPending(j)
  BY <1>1 DEF InPending
<1>5. ASSUME NEW k \in Job
      PROVE  InPending(k)' <=> InPending(k) /\ k # j
  <2>1. InPending(k)' => InPending(k)
    BY <1>1, <1>2 DEF InPending
  <2>2. ~ InPending(j)'
    BY <1>1, <1>2 DEF InPending, NoCopyInPending
  <2>3. InPending(k) /\ k # j => InPending(k)'
    BY <1>1, <1>2 DEF InPending
  <2>. QED  BY <2>1, <2>2, <2>3
<1>. QED  BY <1>2, <1>3, <1>4, <1>5

LEMMA QueueInitInv == QueueInit => QueueInv
BY DEF QueueInit, QueueInv, QueueTypeOK, OneCopyAtMost, NoCopyInPending,
       OnlyAcceptedStored, Stored, InPending, InProcessing, InDelayed,
       Lease, Delay, Scan, NoScan

-----------------------------------------------------------------------------
(* Steps that leave the three stores alone.                                *)

LEMMA StoresUnchanged ==
  ASSUME QueueInv, UNCHANGED <<accepted, pending, processing, delayed>>,
         leases' \in [Job -> Lease], scans' \in [Process -> Scan]
  PROVE  QueueInv' /\ \A j \in Job : Stored(j)' <=> Stored(j)
BY DEF QueueInv, QueueTypeOK, OneCopyAtMost, NoCopyInPending,
       OnlyAcceptedStored, Stored, InPending, InProcessing, InDelayed

\* What every step does: it keeps the invariant, stores no accepted job that
\* was gone, and stores the jobs it accepts.
StepOK ==
  /\ QueueInv'
  /\ \A j \in Job : j \in accepted /\ ~Stored(j) => ~Stored(j)'
  /\ accepted \subseteq accepted'
  /\ \A j \in accepted' : j \in accepted \/ Stored(j)'

\* What every step but an ack does: it removes no job.
Keeps == \A j \in Job : Stored(j) => Stored(j)'

LEMMA EnqueueStep ==
  ASSUME QueueInv, NEW j \in Job, Enqueue(j)
  PROVE  StepOK /\ Keeps
<1>1. ~Stored(j)
  BY DEF QueueInv, OnlyAcceptedStored, Enqueue
<1>2. /\ pending' \in Seq(Job) /\ NoCopyInPending'
      /\ \A k \in Job : InPending(k)' <=> InPending(k) \/ k = j
  BY <1>1, PushPending
     DEF QueueInv, QueueTypeOK, OneCopyAtMost, Enqueue, Stored
<1>3. \A k \in Job : /\ InProcessing(k)' <=> InProcessing(k)
                     /\ InDelayed(k)' <=> InDelayed(k)
  BY DEF Enqueue, InProcessing, InDelayed
<1>4. QueueTypeOK'
  BY <1>2 DEF QueueInv, QueueTypeOK, Enqueue
<1>5. OneCopyAtMost'
  BY <1>1, <1>2, <1>3 DEF QueueInv, OneCopyAtMost, Enqueue, Stored
<1>6. OnlyAcceptedStored'
  BY <1>2, <1>3 DEF QueueInv, OnlyAcceptedStored, Enqueue, Stored
<1>. QED
  BY <1>2, <1>3, <1>4, <1>5, <1>6 DEF StepOK, Keeps, QueueInv, Stored, Enqueue

LEMMA PopStep ==
  ASSUME QueueInv, NEW j \in Job, Pop(j)
  PROVE  StepOK /\ Keeps
<1>1. /\ pending' \in Seq(Job) /\ NoCopyInPending' /\ InPending(j)
      /\ \A k \in Job : InPending(k)' <=> InPending(k) /\ k # j
  BY PopPending DEF QueueInv, QueueTypeOK, OneCopyAtMost, Pop
<1>2. processing[j] = 0 /\ ~InDelayed(j)
  BY <1>1 DEF QueueInv, QueueTypeOK, OneCopyAtMost, InProcessing
<1>3. /\ processing' \in [Job -> Nat] /\ processing'[j] = 1
      /\ \A k \in Job : k # j => processing'[k] = processing[k]
  BY <1>2 DEF QueueInv, QueueTypeOK, Pop
<1>4. \A k \in Job : /\ InProcessing(k)' <=> InProcessing(k) \/ k = j
                     /\ InDelayed(k)' <=> InDelayed(k)
  BY <1>3 DEF Pop, InProcessing, InDelayed
<1>5. QueueTypeOK'
  BY <1>1, <1>3 DEF QueueInv, QueueTypeOK, Pop
<1>6. OneCopyAtMost'
  BY <1>1, <1>2, <1>3, <1>4 DEF QueueInv, OneCopyAtMost
<1>7. \A k \in Job : Stored(k)' <=> Stored(k)
  BY <1>1, <1>4 DEF Stored
<1>8. OnlyAcceptedStored'
  BY <1>7 DEF QueueInv, OnlyAcceptedStored, Pop
<1>. QED  BY <1>5, <1>6, <1>7, <1>8 DEF StepOK, Keeps, QueueInv, Pop

LEMMA AckRemoveStep ==
  ASSUME QueueInv, NEW j \in Job, AckRemove(j)
  PROVE  StepOK /\ \A k \in Job : k # j /\ Stored(k) => Stored(k)'
<1>1. /\ processing' \in [Job -> Nat] /\ processing'[j] = 0
      /\ \A k \in Job : k # j => processing'[k] = processing[k]
  BY DEF QueueInv, QueueTypeOK, OneCopyAtMost, AckRemove
<1>2. \A k \in Job : /\ InPending(k)' <=> InPending(k)
                     /\ InProcessing(k)' <=> InProcessing(k) /\ k # j
                     /\ InDelayed(k)' <=> InDelayed(k)
  BY <1>1 DEF AckRemove, InPending, InProcessing, InDelayed
<1>3. QueueTypeOK'
  BY <1>1 DEF QueueInv, QueueTypeOK, AckRemove
<1>4. OneCopyAtMost'
  BY <1>1, <1>2 DEF QueueInv, OneCopyAtMost, NoCopyInPending, AckRemove
<1>5. OnlyAcceptedStored'
  BY <1>2 DEF QueueInv, OnlyAcceptedStored, Stored, AckRemove
<1>. QED  BY <1>2, <1>3, <1>4, <1>5 DEF StepOK, QueueInv, Stored, AckRemove

LEMMA DeferStep ==
  ASSUME QueueInv, NEW j \in Job, Defer(j)
  PROVE  StepOK /\ Keeps
<1>1. processing[j] = 1 /\ ~InPending(j) /\ ~InDelayed(j)
  BY DEF QueueInv, QueueTypeOK, OneCopyAtMost, Defer, InProcessing
<1>2. /\ processing' \in [Job -> Nat] /\ processing'[j] = 0
      /\ \A k \in Job : k # j => processing'[k] = processing[k]
  BY <1>1 DEF QueueInv, QueueTypeOK, Defer
<1>3. /\ delayed' \in [Job -> Delay] /\ delayed'[j] = "waiting"
      /\ \A k \in Job : k # j => delayed'[k] = delayed[k]
  BY DEF QueueInv, QueueTypeOK, Defer, Delay
<1>4. \A k \in Job : /\ InPending(k)' <=> InPending(k)
                     /\ InProcessing(k)' <=> InProcessing(k) /\ k # j
                     /\ InDelayed(k)' <=> InDelayed(k) \/ k = j
  BY <1>2, <1>3 DEF Defer, InPending, InProcessing, InDelayed
<1>5. QueueTypeOK'
  BY <1>2, <1>3 DEF QueueInv, QueueTypeOK, Defer, Lease
<1>6. OneCopyAtMost'
  BY <1>1, <1>2, <1>4 DEF QueueInv, OneCopyAtMost, NoCopyInPending, Defer
<1>7. \A k \in Job : Stored(k)' <=> Stored(k)
  BY <1>4 DEF Stored, Defer
<1>8. OnlyAcceptedStored'
  BY <1>7 DEF QueueInv, OnlyAcceptedStored, Defer
<1>. QED  BY <1>5, <1>6, <1>7, <1>8 DEF StepOK, Keeps, QueueInv, Defer

\* The two scripts that push: the copy they push is the one they removed.
LEMMA ReclaimOneStep ==
  ASSUME QueueInv, NEW p \in Process, NEW j \in Job, ReclaimOne(p, j)
  PROVE  StepOK /\ Keeps
<1>1. leases' \in [Job -> Lease] /\ scans' \in [Process -> Scan]
  BY DEF QueueInv, QueueTypeOK, ReclaimOne, Lease, Scan
<1>2. CASE ~InProcessing(j)
  BY <1>1, <1>2, StoresUnchanged DEF ReclaimOne, StepOK, Keeps
<1>3. CASE InProcessing(j)
  <2>1. processing[j] = 1 /\ ~InPending(j) /\ ~InDelayed(j)
    BY <1>3 DEF QueueInv, QueueTypeOK, OneCopyAtMost, InProcessing
  <2>2. /\ processing' \in [Job -> Nat] /\ processing'[j] = 0
        /\ \A k \in Job : k # j => processing'[k] = processing[k]
    BY <1>3, <2>1 DEF QueueInv, QueueTypeOK, ReclaimOne
  <2>3. /\ pending' \in Seq(Job) /\ NoCopyInPending'
        /\ \A k \in Job : InPending(k)' <=> InPending(k) \/ k = j
    BY <1>3, <2>1, PushPending DEF QueueInv, QueueTypeOK, OneCopyAtMost, ReclaimOne
  <2>4. \A k \in Job : /\ InProcessing(k)' <=> InProcessing(k) /\ k # j
                       /\ InDelayed(k)' <=> InDelayed(k)
    BY <2>2 DEF ReclaimOne, InProcessing, InDelayed
  <2>5. QueueTypeOK'
    BY <1>1, <2>2, <2>3 DEF QueueInv, QueueTypeOK, ReclaimOne
  <2>6. OneCopyAtMost'
    BY <2>1, <2>2, <2>3, <2>4 DEF QueueInv, OneCopyAtMost
  <2>7. \A k \in Job : Stored(k)' <=> Stored(k)
    BY <1>3, <2>3, <2>4 DEF Stored
  <2>8. OnlyAcceptedStored'
    BY <2>7 DEF QueueInv, OnlyAcceptedStored, ReclaimOne
  <2>. QED  BY <2>5, <2>6, <2>7, <2>8 DEF StepOK, Keeps, QueueInv, ReclaimOne
<1>. QED  BY <1>2, <1>3

LEMMA PromoteOneStep ==
  ASSUME QueueInv, NEW p \in Process, NEW j \in Job, PromoteOne(p, j)
  PROVE  StepOK /\ Keeps
<1>1. leases' \in [Job -> Lease] /\ scans' \in [Process -> Scan]
  BY DEF QueueInv, QueueTypeOK, PromoteOne, Scan
<1>2. CASE ~InDelayed(j)
  BY <1>1, <1>2, StoresUnchanged DEF PromoteOne, StepOK, Keeps
<1>3. CASE InDelayed(j)
  <2>1. ~InPending(j) /\ ~InProcessing(j)
    BY <1>3 DEF QueueInv, OneCopyAtMost
  <2>2. /\ delayed' \in [Job -> Delay] /\ delayed'[j] = "none"
        /\ \A k \in Job : k # j => delayed'[k] = delayed[k]
    BY <1>3 DEF QueueInv, QueueTypeOK, PromoteOne, Delay
  <2>3. /\ pending' \in Seq(Job) /\ NoCopyInPending'
        /\ \A k \in Job : InPending(k)' <=> InPending(k) \/ k = j
    BY <1>3, <2>1, PushPending DEF QueueInv, QueueTypeOK, OneCopyAtMost, PromoteOne
  <2>4. \A k \in Job : /\ InProcessing(k)' <=> InProcessing(k)
                       /\ InDelayed(k)' <=> InDelayed(k) /\ k # j
    BY <2>2 DEF PromoteOne, InProcessing, InDelayed
  <2>5. QueueTypeOK'
    BY <1>1, <2>2, <2>3 DEF QueueInv, QueueTypeOK, PromoteOne
  <2>6. OneCopyAtMost'
    BY <2>1, <2>3, <2>4 DEF QueueInv, OneCopyAtMost, PromoteOne
  <2>7. \A k \in Job : Stored(k)' <=> Stored(k)
    BY <1>3, <2>3, <2>4 DEF Stored
  <2>8. OnlyAcceptedStored'
    BY <2>7 DEF QueueInv, OnlyAcceptedStored, PromoteOne
  <2>. QED  BY <2>5, <2>6, <2>7, <2>8 DEF StepOK, Keeps, QueueInv, PromoteOne
<1>. QED  BY <1>2, <1>3

LEMMA DelayElapsesStep ==
  ASSUME QueueInv, NEW j \in Job, DelayElapses(j)
  PROVE  StepOK /\ Keeps
<1>1. /\ delayed' \in [Job -> Delay]
      /\ \A k \in Job : InDelayed(k)' <=> InDelayed(k)
  BY DEF QueueInv, QueueTypeOK, DelayElapses, Delay, InDelayed
<1>2. \A k \in Job : /\ InPending(k)' <=> InPending(k)
                     /\ InProcessing(k)' <=> InProcessing(k)
  BY DEF DelayElapses, InPending, InProcessing
<1>. QED
  BY <1>1, <1>2 DEF QueueInv, QueueTypeOK, OneCopyAtMost, NoCopyInPending,
     OnlyAcceptedStored, Stored, DelayElapses, StepOK, Keeps

\* Steps on the leases or on the replies only.
LEMMA BookkeepingStep ==
  ASSUME QueueInv,
         \/ \E j \in Job : SetLease(j) \/ AckUnlease(j) \/ LeaseExpires(j)
         \/ \E p \in Process : \/ ReclaimScan(p) \/ PromoteScan(p) \/ LeaseScan(p)
                               \/ DropScans(p)
                               \/ \E j \in Job : LeaseLookup(p, j) \/ LeaseAsExpired(p, j)
  PROVE  StepOK /\ Keeps
<1>1. UNCHANGED <<accepted, pending, processing, delayed>>
  BY DEF SetLease, AckUnlease, LeaseExpires, ReclaimScan, PromoteScan, LeaseScan,
         DropScans, LeaseLookup, LeaseAsExpired, redisVars
<1>2. leases' \in [Job -> Lease]
  BY DEF SetLease, AckUnlease, LeaseExpires, ReclaimScan, PromoteScan, LeaseScan,
         DropScans, LeaseLookup, LeaseAsExpired, redisVars, QueueInv, QueueTypeOK, Lease
<1>3. scans' \in [Process -> Scan]
  <2>1. CASE \E j \in Job : SetLease(j) \/ AckUnlease(j) \/ LeaseExpires(j)
    BY <2>1 DEF SetLease, AckUnlease, LeaseExpires, QueueInv, QueueTypeOK
  <2>2. ASSUME NEW p \in Process,
               ReclaimScan(p) \/ PromoteScan(p) \/ LeaseScan(p) \/ DropScans(p)
        PROVE  scans' \in [Process -> Scan]
    <3>1. CASE ReclaimScan(p)
      BY <3>1 DEF ReclaimScan, QueueInv, QueueTypeOK, Scan
    <3>2. CASE PromoteScan(p)
      BY <3>2 DEF PromoteScan, QueueInv, QueueTypeOK, Scan
    <3>3. CASE LeaseScan(p)
      BY <3>3 DEF LeaseScan, QueueInv, QueueTypeOK, Scan
    <3>4. CASE DropScans(p)
      BY <3>4 DEF DropScans, QueueInv, QueueTypeOK, Scan, NoScan
    <3>. QED  BY <2>2, <3>1, <3>2, <3>3, <3>4
  <2>3. ASSUME NEW p \in Process, NEW j \in Job, LeaseLookup(p, j)
        PROVE  scans' \in [Process -> Scan]
    <3>1. (IF leases[j] = "none" THEN {j} ELSE {}) \in SUBSET Job
      OBVIOUS
    <3>2. scans[p] \in Scan
      BY DEF QueueInv, QueueTypeOK
    <3>3. PICK miss \in SUBSET Job :
            scans' = [scans EXCEPT ![p] = [scans[p] EXCEPT !.check = @ \ {j},
                                                           !.leaseless = miss]]
      BY <2>3, <3>1 DEF LeaseLookup
    <3>4. [scans[p] EXCEPT !.check = @ \ {j}, !.leaseless = miss] \in Scan
      BY <3>2 DEF Scan
    <3>. QED  BY <3>3, <3>4 DEF QueueInv, QueueTypeOK
  <2>4. ASSUME NEW p \in Process, NEW j \in Job, LeaseAsExpired(p, j)
        PROVE  scans' \in [Process -> Scan]
    <3>1. scans' = [scans EXCEPT ![p] = [scans[p] EXCEPT !.leaseless = {}]]
      BY <2>4 DEF LeaseAsExpired
    <3>2. scans[p] \in Scan
      BY DEF QueueInv, QueueTypeOK
    <3>3. [scans[p] EXCEPT !.leaseless = {}] \in Scan
      BY <3>2 DEF Scan
    <3>. QED  BY <3>1, <3>3 DEF QueueInv, QueueTypeOK
  <2>. QED  BY <2>1, <2>2, <2>3, <2>4
<1>. QED  BY <1>1, <1>2, <1>3, StoresUnchanged DEF StepOK, Keeps

LEMMA QueueStep == QueueInv /\ [QueueNext]_queueVars => StepOK
<1>1. ASSUME QueueInv, UNCHANGED queueVars
      PROVE  StepOK
  BY <1>1, StoresUnchanged DEF queueVars, StepOK, QueueInv, QueueTypeOK
<1>2. ASSUME QueueInv, NEW j \in Job, Enqueue(j) \/ ConsumerStep(j)
      PROVE  StepOK
  BY <1>2, EnqueueStep, PopStep, AckRemoveStep, DeferStep, BookkeepingStep
     DEF ConsumerStep
<1>3. ASSUME QueueInv, NEW j \in Job, LeaseExpires(j) \/ DelayElapses(j)
      PROVE  StepOK
  BY <1>3, DelayElapsesStep, BookkeepingStep
<1>4. ASSUME QueueInv, NEW p \in Process, ScanStep(p)
      PROVE  StepOK
  BY <1>4, ReclaimOneStep, PromoteOneStep, BookkeepingStep DEF ScanStep
<1>. QED  BY <1>1, <1>2, <1>3, <1>4 DEF QueueNext

-----------------------------------------------------------------------------
\* The queue's invariant, for every number of jobs, processes and commands in
\* flight: a payload is stored at most once over the pending list, the
\* processing list and the delayed set, and only if enqueue pushed it.
THEOREM QueueInvariant == QueueSpec => []QueueInv
<1>1. QueueInv /\ [QueueNext]_queueVars => QueueInv'
  BY QueueStep DEF StepOK
<1>. QED  BY <1>1, QueueInitInv, PTL DEF QueueSpec

\* No command and no scan of any process stores a second copy of a job.
THEOREM SingleCopy == QueueSpec => []OneCopyAtMost
<1>1. QueueInv => OneCopyAtMost
  BY DEF QueueInv
<1>. QED  BY <1>1, QueueInvariant, PTL

\* A job that has been removed from Redis is never stored again, whatever
\* stale replies the processes still act on.
THEOREM GoneStaysGone == QueueSpec => GoneForGood
<1>1. QueueInv /\ [QueueNext]_queueVars
        => [\A j \in Job : j \in accepted /\ ~Stored(j) => ~Stored(j)']_queueVars
  BY QueueStep DEF StepOK
<1>. QED  BY <1>1, QueueInvariant, PTL DEF QueueSpec, GoneForGood

-----------------------------------------------------------------------------
(* The workers.                                                            *)

\* A runner holds a job that was accepted ...
HeldAccepted ==
  \A p \in Process : pc[p] \notin {"stopped", "idle"} => job[p] \in accepted

\* ... and comes to the ack of a job that was sent or given up only.
AckedSettled ==
  \A p \in Process : pc[p] \in {"record", "ack", "unlease"} => Settled(job[p])

WorkerInv == TypeOK /\ QueueInv /\ HeldAccepted /\ AckedSettled /\ NoJobLost

LEMMA WorkerInitInv == Init => WorkerInv
<1>. SUFFICES ASSUME Init PROVE WorkerInv
  OBVIOUS
<1>1. QueueInv
  BY QueueInitInv DEF Init
<1>2. TypeOK
  BY <1>1, MaxAttemptsAssumption, MaxFaultsAssumption
     DEF Init, QueueInv, TypeOK, Life, Control
<1>3. HeldAccepted /\ AckedSettled
  BY DEF Init, HeldAccepted, AckedSettled
<1>4. NoJobLost
  BY DEF Init, QueueInit, NoJobLost
<1>. QED  BY <1>1, <1>2, <1>3, <1>4 DEF WorkerInv

-----------------------------------------------------------------------------
(* What a step does to the queue.                                          *)

LEMMA QueueStutter ==
  ASSUME QueueInv, UNCHANGED queueVars
  PROVE  StepOK /\ Keeps
BY StoresUnchanged DEF queueVars, StepOK, Keeps, QueueInv, QueueTypeOK

\* Every step but an ack keeps every job that is stored.
LEMMA EnvironmentQueueStep ==
  ASSUME QueueInv, NEW j \in Job,
         SendRequest(j) \/ VisibilityTimeout(j) \/ Lapse(j) \/ DeferralEnds(j)
  PROVE  StepOK /\ Keeps
<1>1. CASE SendRequest(j)
  BY <1>1, EnqueueStep DEF SendRequest
<1>2. CASE VisibilityTimeout(j) \/ Lapse(j)
  BY <1>2, BookkeepingStep DEF VisibilityTimeout, Lapse
<1>3. CASE DeferralEnds(j)
  BY <1>3, DelayElapsesStep DEF DeferralEnds
<1>. QED  BY <1>1, <1>2, <1>3

LEMMA ProcessQueueStep ==
  ASSUME QueueInv, NEW p \in Process,
         \/ Boot(p) \/ StartScanFails(p) \/ Reclaim(p) \/ Promote(p)
         \/ Drain(p) \/ Shut(p) \/ Crash(p)
  PROVE  StepOK /\ Keeps
<1>1. CASE Boot(p)
  BY <1>1, BookkeepingStep, QueueStutter
     DEF Boot, Start, StartLookup, StartLease, StartRunner
<1>2. CASE StartScanFails(p) \/ Stop(p) \/ Crash(p)
  BY <1>2, BookkeepingStep DEF StartScanFails, Stop, Crash
<1>3. CASE Reclaim(p)
  BY <1>3, BookkeepingStep, ReclaimOneStep DEF Reclaim
<1>4. CASE Promote(p)
  BY <1>4, BookkeepingStep, PromoteOneStep DEF Promote
<1>5. CASE Drain(p) \/ RunnerStops(p)
  BY <1>5, QueueStutter DEF Drain, RunnerStops
<1>. QED  BY <1>1, <1>2, <1>3, <1>4, <1>5 DEF Shut

\* A runner that holds a job passes the queue a job in Job.
LEMMA RunnerQueueStep ==
  ASSUME WorkerInv, NEW p \in Process, Run(p) \/ RunFails(p), ~ Ack(p)
  PROVE  StepOK /\ Keeps
<1>1. QueueInv /\ (pc[p] \notin {"stopped", "idle"} => job[p] \in Job)
  BY DEF WorkerInv, HeldAccepted, QueueInv, QueueTypeOK
<1>2. CASE Dequeue(p)
  BY <1>1, <1>2, PopStep DEF Dequeue
<1>3. CASE LeaseJob(p) \/ LeaseJobFails(p) \/ TouchJob(p) \/ Unlease(p)
  BY <1>1, <1>3, BookkeepingStep, QueueStutter
     DEF LeaseJob, LeaseJobFails, TouchJob, Touch, Unlease
<1>4. CASE DeferJob(p) \/ DeferFails(p)
  BY <1>1, <1>4, DeferStep, QueueStutter DEF DeferJob, DeferFails, queueVars
<1>5. CASE \/ PermissionGiven(p) \/ PermissionDenied(p) \/ DeferRefused(p)
           \/ SmtpAccepts(p) \/ \E b \in BOOLEAN : SmtpRejects(p, b)
           \/ RecordDelivered(p) \/ DeadLetter(p)
           \/ TouchFails(p) \/ PermissionFails(p) \/ SmtpReplyLost(p)
           \/ RecordDeliveredFails(p) \/ DeadLetterFails(p) \/ JobCrashes(p)
  <2>1. UNCHANGED queueVars
    BY <1>5 DEF PermissionGiven, PermissionDenied, DeferRefused, SmtpAccepts,
       SmtpRejects, RecordDelivered, DeadLetter, TouchFails, PermissionFails,
       SmtpReplyLost, RecordDeliveredFails, DeadLetterFails, JobCrashes
  <2>. QED  BY <1>1, <2>1, QueueStutter
<1>. QED  BY <1>2, <1>3, <1>4, <1>5 DEF Run, RunFails

LEMMA AckQueueStep ==
  ASSUME WorkerInv, NEW p \in Process, Ack(p)
  PROVE  /\ StepOK
         /\ job[p] \in Job /\ Settled(job[p])
         /\ \A j \in Job : j # job[p] /\ Stored(j) => Stored(j)'
<1>1. QueueInv /\ job[p] \in Job /\ Settled(job[p])
  BY DEF WorkerInv, HeldAccepted, AckedSettled, QueueInv, QueueTypeOK, Ack
<1>. QED  BY <1>1, AckRemoveStep, QueueStutter DEF Ack, Keeps

\* A job leaves the queue only when it is settled.
LEMMA WorkerQueueStep ==
  ASSUME WorkerInv, [Next]_vars
  PROVE  StepOK /\ \A j \in Job : Stored(j) => Stored(j)' \/ Settled(j)
<1>1. CASE UNCHANGED vars
  BY <1>1, QueueStutter DEF vars, WorkerInv, Keeps
<1>2. CASE \E p \in Process : Ack(p)
  BY <1>2, AckQueueStep
<1>3. CASE Next /\ ~ \E p \in Process : Ack(p)
  <2>1. StepOK /\ Keeps
    BY <1>3, EnvironmentQueueStep, ProcessQueueStep, RunnerQueueStep DEF Next, WorkerInv
  <2>. QED  BY <2>1 DEF Keeps
<1>. QED  BY <1>1, <1>2, <1>3

-----------------------------------------------------------------------------
(* What a step does to the runners.                                        *)

\* The counter of attempts stays in range: the last attempt gives up.
LEMMA AttemptFailsStep ==
  ASSUME TypeOK, NEW p \in Process, NEW isHardBounce \in BOOLEAN,
         AttemptFails(p, isHardBounce)
  PROVE  /\ pc' \in [Process -> Control]
         /\ attempt' \in [Process -> 1 .. MaxAttempts]
         /\ pc'[p] \in {"touch", "deadletter"}
         /\ \A q \in Process : q # p => pc'[q] = pc[q]
BY MaxAttemptsAssumption DEF TypeOK, AttemptFails, Goto, Control

LEMMA FaultStep ==
  ASSUME TypeOK, NEW kind, Fault(kind)
  PROVE  faults' \in 0 .. MaxFaults
BY MaxFaultsAssumption DEF TypeOK, Fault

\* The shape of every step that moves the runner of p: its own pc and job
\* change, those of the others do not, and the rest keeps its type.
Moves(p) ==
  /\ pc' \in [Process -> Control]
  /\ job' \in [Process -> Job \cup {NoJob}]
  /\ attempt' \in [Process -> 1 .. MaxAttempts]
  /\ \A q \in Process : q # p => pc'[q] = pc[q] /\ job'[q] = job[q]
  /\ faults' \in 0 .. MaxFaults

\* What a runner that comes to hold its job, or holds it on, has to respect.
HoldsRightly(p) ==
  /\ pc'[p] \notin {"stopped", "idle"} => job'[p] \in accepted'
  /\ pc'[p] \in {"record", "ack", "unlease"} => Settled(job[p])'

\* The outcomes of a job are never taken back.
Outcomes ==
  /\ sends' \in [Job -> 0 .. 2]
  /\ deadLettered' \subseteq Job
  /\ abandoned' \subseteq Job
  /\ misreported' \subseteq Job
  /\ \A j \in Job : Settled(j) => Settled(j)'

LEMMA OutcomesUnchanged ==
  ASSUME TypeOK, UNCHANGED <<sends, deadLettered, abandoned>>, misreported' \subseteq Job
  PROVE  Outcomes
BY DEF TypeOK, Outcomes, Settled

\* One more send: the job it is counted for is settled.
LEMMA CountSendStep ==
  ASSUME TypeOK, NEW p \in Process, job[p] \in Job, CountSend(p),
         UNCHANGED <<job, deadLettered, abandoned>>, misreported' \subseteq Job
  PROVE  Outcomes /\ Settled(job[p])'
<1>1. /\ sends' \in [Job -> 0 .. 2]
      /\ sends'[job[p]] > 0
      /\ \A j \in Job : sends[j] > 0 => sends'[j] > 0
  BY DEF TypeOK, CountSend
<1>. QED  BY <1>1 DEF TypeOK, Outcomes, Settled

\* Steps that end with no job in the runner's hands.
LEMMA FinishStep ==
  ASSUME TypeOK, NEW p \in Process, Finish(p), faults' \in 0 .. MaxFaults
  PROVE  Moves(p) /\ HoldsRightly(p)
<1>1. /\ pc'[p] \in {"idle", "stopped"}
      /\ pc' \in [Process -> Control]
      /\ \A q \in Process : q # p => pc'[q] = pc[q]
  BY DEF TypeOK, Finish, Goto, Control
<1>2. /\ job' \in [Process -> Job \cup {NoJob}]
      /\ \A q \in Process : q # p => job'[q] = job[q]
  BY DEF TypeOK, Finish
<1>. QED  BY <1>1, <1>2 DEF TypeOK, Finish, Moves, HoldsRightly

\* Steps that try the job once more or give it up.
LEMMA RetryStep ==
  ASSUME TypeOK, NEW p \in Process, job[p] \in accepted, NEW isHardBounce \in BOOLEAN,
         AttemptFails(p, isHardBounce), UNCHANGED <<accepted, job>>,
         faults' \in 0 .. MaxFaults
  PROVE  Moves(p) /\ HoldsRightly(p)
BY AttemptFailsStep DEF TypeOK, Moves, HoldsRightly

\* Steps along processJob that keep the attempt.
LEMMA GotoStep ==
  ASSUME TypeOK, NEW p \in Process, job[p] \in accepted, NEW step \in Control,
         Goto(p, step), UNCHANGED <<accepted, job>>,
         attempt' \in [Process -> 1 .. MaxAttempts],
         step \in {"record", "ack", "unlease"} => Settled(job[p])',
         faults' \in 0 .. MaxFaults
  PROVE  Moves(p) /\ HoldsRightly(p)
<1>1. /\ pc'[p] = step /\ pc' \in [Process -> Control]
      /\ \A q \in Process : q # p => pc'[q] = pc[q]
  BY DEF TypeOK, Goto
<1>2. Moves(p)
  BY <1>1 DEF TypeOK, Moves
<1>. QED  BY <1>1, <1>2 DEF HoldsRightly

-----------------------------------------------------------------------------
(* Every runner step is a move of one runner, with the outcomes kept.      *)

LEMMA RunnerStep ==
  ASSUME WorkerInv, NEW p \in Process, Run(p) \/ RunFails(p)
  PROVE  /\ Moves(p) /\ HoldsRightly(p) /\ Outcomes
         /\ UNCHANGED <<life, lapsed, usurped>>
<1>1. TypeOK /\ QueueInv
  BY DEF WorkerInv
<1>2. faults' \in 0 .. MaxFaults
  BY <1>1, FaultStep
     DEF TypeOK, Run, RunFails, Dequeue, LeaseJob, TouchJob, PermissionGiven,
     PermissionDenied, DeferJob, DeferRefused, SmtpAccepts, SmtpRejects,
     RecordDelivered, DeadLetter, Ack, Unlease, LeaseJobFails, TouchFails,
     PermissionFails, DeferFails, SmtpReplyLost, RecordDeliveredFails,
     DeadLetterFails, JobCrashes
<1>3. pc[p] \notin {"stopped", "idle"} => job[p] \in accepted /\ job[p] \in Job
  BY DEF WorkerInv, HeldAccepted, QueueInv, QueueTypeOK
<1>4. pc[p] \in {"record", "ack", "unlease"} => Settled(job[p])
  BY DEF WorkerInv, AckedSettled
<1>5. CASE Dequeue(p)
  <2>1. PICK j \in Job : Pop(j) /\ job' = [job EXCEPT ![p] = j]
    BY <1>5 DEF Dequeue
  <2>2. j \in accepted /\ accepted' = accepted
    <3>1. InPending(j)
      BY <1>1, <2>1, PopPending DEF Pop, QueueInv, QueueTypeOK, OneCopyAtMost
    <3>. QED  BY <1>1, <2>1, <3>1 DEF QueueInv, OnlyAcceptedStored, Stored, Pop
  <2>3. Moves(p) /\ HoldsRightly(p)
    BY <1>1, <1>2, <1>5, <2>1, <2>2
       DEF TypeOK, Moves, HoldsRightly, Dequeue, Goto, Control
  <2>. QED
    BY <1>1, <1>5, <2>3, OutcomesUnchanged DEF Dequeue, outcomeVars, TypeOK
<1>6. CASE LeaseJob(p)
  <2>1. Moves(p) /\ HoldsRightly(p)
    <3>1. attempt' \in [Process -> 1 .. MaxAttempts]
      BY <1>1, <1>6, MaxAttemptsAssumption DEF LeaseJob, TypeOK
    <3>. QED
      BY <1>1, <1>2, <1>3, <1>6, <3>1, GotoStep DEF LeaseJob, SetLease, Control
  <2>. QED
    BY <1>1, <1>6, <2>1, OutcomesUnchanged DEF LeaseJob, outcomeVars, TypeOK
<1>7. CASE LeaseJobFails(p) \/ DeferJob(p) \/ Unlease(p)
  <2>1. Finish(p) /\ UNCHANGED <<life, lapsed, usurped, outcomeVars>>
    BY <1>7 DEF LeaseJobFails, DeferJob, Unlease
  <2>. QED
    BY <1>1, <1>2, <2>1, FinishStep, OutcomesUnchanged DEF outcomeVars, TypeOK
<1>8. CASE TouchFails(p) \/ PermissionFails(p) \/ \E b \in BOOLEAN : SmtpRejects(p, b)
  <2>1. /\ \E b \in BOOLEAN : AttemptFails(p, b)
        /\ pc[p] \notin {"stopped", "idle"}
        /\ UNCHANGED <<queueVars, job, life, lapsed, usurped, outcomeVars>>
    BY <1>8 DEF TouchFails, PermissionFails, SmtpRejects
  <2>2. Moves(p) /\ HoldsRightly(p)
    BY <1>1, <1>2, <1>3, <2>1, RetryStep DEF queueVars
  <2>. QED  BY <1>1, <2>1, <2>2, OutcomesUnchanged DEF outcomeVars, TypeOK
<1>9. CASE RecordDeliveredFails(p)
  <2>1. misreported' \subseteq Job
    BY <1>1, <1>3, <1>9 DEF RecordDeliveredFails, TypeOK
  <2>2. Moves(p) /\ HoldsRightly(p)
    BY <1>1, <1>2, <1>3, <1>9, RetryStep DEF RecordDeliveredFails, queueVars
  <2>. QED
    BY <1>1, <1>9, <2>1, <2>2, OutcomesUnchanged DEF RecordDeliveredFails
<1>10. CASE SmtpReplyLost(p)
  <2>1. misreported' \subseteq Job
    BY <1>1, <1>3, <1>10 DEF SmtpReplyLost, TypeOK
  <2>2. Moves(p) /\ HoldsRightly(p)
    BY <1>1, <1>2, <1>3, <1>10, RetryStep DEF SmtpReplyLost, queueVars
  <2>. QED
    BY <1>1, <1>3, <1>10, <2>1, <2>2, CountSendStep DEF SmtpReplyLost
<1>11. CASE SmtpAccepts(p)
  <2>1. Outcomes /\ Settled(job[p])'
    BY <1>1, <1>3, <1>11, CountSendStep DEF SmtpAccepts, TypeOK
  <2>2. Moves(p) /\ HoldsRightly(p)
    BY <1>1, <1>2, <1>3, <1>11, <2>1, GotoStep DEF SmtpAccepts, queueVars, TypeOK, Control
  <2>. QED  BY <1>11, <2>1, <2>2 DEF SmtpAccepts
<1>12. CASE \/ TouchJob(p) \/ PermissionGiven(p) \/ PermissionDenied(p)
            \/ DeferRefused(p)
  <2>1. /\ \E step \in {"permission", "send", "defer", "touch"} : Goto(p, step)
        /\ pc[p] \notin {"stopped", "idle"}
        /\ UNCHANGED <<accepted, job, attempt, life, lapsed, usurped, outcomeVars>>
    BY <1>12 DEF TouchJob, Touch, SetLease, PermissionGiven, PermissionDenied,
                 DeferRefused, queueVars
  <2>2. Moves(p) /\ HoldsRightly(p)
    BY <1>1, <1>2, <1>3, <2>1, GotoStep DEF TypeOK, Control
  <2>. QED  BY <1>1, <2>1, <2>2, OutcomesUnchanged DEF outcomeVars, TypeOK
<1>13. CASE DeferFails(p)
  <2>1. misreported' \subseteq Job
    BY <1>1, <1>3, <1>13 DEF DeferFails, TypeOK
  <2>2. accepted' = accepted
    BY <1>13 DEF DeferFails, Defer, queueVars
  <2>3. Moves(p) /\ HoldsRightly(p)
    BY <1>1, <1>2, <1>3, <1>13, <2>2, GotoStep DEF DeferFails, TypeOK, Control
  <2>. QED  BY <1>1, <1>13, <2>1, <2>3, OutcomesUnchanged DEF DeferFails
<1>14. CASE RecordDelivered(p) \/ Ack(p)
  <2>1. /\ \E step \in {"ack", "unlease"} : Goto(p, step)
        /\ pc[p] \in {"record", "ack"}
        /\ UNCHANGED <<accepted, job, attempt, life, lapsed, usurped, outcomeVars>>
    BY <1>14 DEF RecordDelivered, Ack, AckRemove, queueVars
  <2>2. Outcomes /\ Settled(job[p])'
    BY <1>1, <1>4, <2>1, OutcomesUnchanged DEF outcomeVars, TypeOK, Settled
  <2>3. Moves(p) /\ HoldsRightly(p)
    BY <1>1, <1>2, <1>3, <2>1, <2>2, GotoStep DEF TypeOK, Control
  <2>. QED  BY <2>1, <2>2, <2>3
<1>15. CASE DeadLetter(p) \/ DeadLetterFails(p)
  <2>1. Outcomes /\ Settled(job[p])'
    BY <1>1, <1>3, <1>15 DEF DeadLetter, DeadLetterFails, Outcomes, TypeOK, Settled
  <2>2. Goto(p, "ack") /\ UNCHANGED <<queueVars, job, attempt, life, lapsed, usurped>>
        /\ pc[p] = "deadletter"
    BY <1>15 DEF DeadLetter, DeadLetterFails
  <2>3. Moves(p) /\ HoldsRightly(p)
    BY <1>1, <1>2, <1>3, <2>1, <2>2, GotoStep DEF TypeOK, Control, queueVars
  <2>. QED  BY <2>1, <2>2, <2>3
<1>16. CASE JobCrashes(p)
  <2>1. Outcomes
    BY <1>1, <1>3, <1>16 DEF JobCrashes, Outcomes, TypeOK, Settled
  <2>. QED  BY <1>1, <1>2, <1>16, <2>1, FinishStep DEF JobCrashes
<1>. QED
  BY <1>5, <1>6, <1>7, <1>8, <1>9, <1>10, <1>11, <1>12, <1>13, <1>14, <1>15, <1>16
     DEF Run, RunFails

(* The steps of processes and of the clock take no job in hand.            *)

\* A runner is idle or stopped after the step, or as it was before it.
Rests ==
  /\ \A p \in Process : \/ pc'[p] \in {"stopped", "idle"}
                        \/ pc'[p] = pc[p] /\ job'[p] = job[p]
  /\ life' \in [Process -> Life]
  /\ pc' \in [Process -> Control]
  /\ job' \in [Process -> Job \cup {NoJob}]
  /\ attempt' = attempt
  /\ lapsed' \subseteq Job /\ usurped' \subseteq Job
  /\ faults' \in 0 .. MaxFaults

LEMMA EnvironmentStep ==
  ASSUME TypeOK, NEW j \in Job,
         SendRequest(j) \/ VisibilityTimeout(j) \/ Lapse(j) \/ DeferralEnds(j)
  PROVE  Rests /\ Outcomes
<1>1. UNCHANGED <<runnerVars, outcomeVars, life>>
  BY DEF SendRequest, VisibilityTimeout, Lapse, DeferralEnds, workerVars, runnerVars,
         outcomeVars
<1>2. lapsed' \subseteq Job /\ usurped' \subseteq Job /\ faults' \in 0 .. MaxFaults
  BY FaultStep DEF TypeOK, SendRequest, VisibilityTimeout, Lapse, DeferralEnds, workerVars
<1>3. Rests
  BY <1>1, <1>2 DEF Rests, TypeOK, runnerVars
<1>. QED  BY <1>1, <1>3, OutcomesUnchanged DEF outcomeVars, TypeOK

LEMMA ProcessStep ==
  ASSUME TypeOK, NEW p \in Process,
         \/ Boot(p) \/ StartScanFails(p) \/ Reclaim(p) \/ Promote(p)
         \/ Drain(p) \/ Shut(p) \/ Crash(p)
  PROVE  Rests /\ Outcomes
<1>1. UNCHANGED outcomeVars
  BY DEF Boot, Start, StartLookup, StartLease, StartRunner, StartScanFails, Reclaim,
         Promote, Drain, Shut, RunnerStops, Stop, Crash, workerVars, outcomeVars
<1>2. lapsed' \subseteq Job /\ usurped' \subseteq Job /\ faults' \in 0 .. MaxFaults
  BY FaultStep
     DEF TypeOK, Boot, Start, StartLookup, StartLease, StartRunner, StartScanFails,
         Reclaim, Promote, Drain, Shut, RunnerStops, Stop, Crash, workerVars
<1>3. life' \in [Process -> Life] /\ attempt' = attempt
  BY DEF TypeOK, Life, Boot, Start, StartLookup, StartLease, StartRunner, StartScanFails,
         Reclaim, Promote, Drain, Shut, RunnerStops, Stop, Crash, workerVars, runnerVars
<1>4. /\ pc' \in [Process -> Control]
      /\ job' \in [Process -> Job \cup {NoJob}]
      /\ \A q \in Process : \/ pc'[q] \in {"stopped", "idle"}
                            \/ pc'[q] = pc[q] /\ job'[q] = job[q]
  <2>1. CASE StartRunner(p)
    BY <2>1 DEF StartRunner, Goto, TypeOK, Control
  <2>2. CASE RunnerStops(p)
    BY <2>2 DEF RunnerStops, Goto, TypeOK, Control
  <2>3. CASE Crash(p)
    BY <2>3 DEF Crash, Goto, TypeOK, Control
  <2>4. CASE UNCHANGED <<pc, job>>
    BY <2>4 DEF TypeOK
  <2>. QED
    BY <2>1, <2>2, <2>3, <2>4
       DEF Boot, Start, StartLookup, StartLease, StartScanFails, Reclaim, Promote,
           Drain, Shut, Stop, workerVars, runnerVars
<1>. QED
  BY <1>1, <1>2, <1>3, <1>4, OutcomesUnchanged DEF Rests, outcomeVars, TypeOK

-----------------------------------------------------------------------------
(* The invariant is inductive.                                             *)

LEMMA RestsKeepsInv ==
  ASSUME WorkerInv, StepOK, Rests, Outcomes
  PROVE  TypeOK' /\ HeldAccepted' /\ AckedSettled'
<1>1. TypeOK'
  BY DEF WorkerInv, TypeOK, Rests, Outcomes, StepOK, QueueInv
<1>2. HeldAccepted'
  BY DEF WorkerInv, HeldAccepted, Rests, StepOK
<1>3. AckedSettled'
  <2>1. ASSUME NEW p \in Process, pc'[p] \in {"record", "ack", "unlease"}
        PROVE  Settled(job[p])'
    <3>1. pc'[p] = pc[p] /\ job'[p] = job[p]
      BY <2>1 DEF Rests
    <3>2. Settled(job[p]) /\ job[p] \in Job
      BY <2>1, <3>1 DEF WorkerInv, AckedSettled, HeldAccepted, QueueInv, QueueTypeOK
    <3>. QED  BY <3>1, <3>2 DEF Outcomes, Settled
  <2>. QED  BY <2>1 DEF AckedSettled
<1>. QED  BY <1>1, <1>2, <1>3

LEMMA MovesKeepsInv ==
  ASSUME WorkerInv, StepOK, NEW p \in Process, Moves(p), HoldsRightly(p), Outcomes,
         UNCHANGED <<life, lapsed, usurped>>
  PROVE  TypeOK' /\ HeldAccepted' /\ AckedSettled'
<1>1. TypeOK'
  BY DEF WorkerInv, TypeOK, Moves, Outcomes, StepOK, QueueInv
<1>2. HeldAccepted'
  BY DEF WorkerInv, HeldAccepted, Moves, HoldsRightly, StepOK
<1>3. AckedSettled'
  <2>1. ASSUME NEW q \in Process, q # p, pc'[q] \in {"record", "ack", "unlease"}
        PROVE  Settled(job[q])'
    <3>1. pc'[q] = pc[q] /\ job'[q] = job[q]
      BY <2>1 DEF Moves
    <3>2. Settled(job[q]) /\ job[q] \in Job
      BY <2>1, <3>1 DEF WorkerInv, AckedSettled, HeldAccepted, QueueInv, QueueTypeOK
    <3>. QED  BY <3>1, <3>2 DEF Outcomes, Settled
  <2>. QED  BY <2>1 DEF AckedSettled, HoldsRightly
<1>. QED  BY <1>1, <1>2, <1>3

LEMMA WorkerStep == WorkerInv /\ [Next]_vars => WorkerInv' /\ Outcomes
<1>. SUFFICES ASSUME WorkerInv, [Next]_vars
              PROVE  WorkerInv' /\ Outcomes
  OBVIOUS
<1>1. StepOK /\ \A j \in Job : Stored(j) => Stored(j)' \/ Settled(j)
  BY WorkerQueueStep
<1>2. TypeOK' /\ HeldAccepted' /\ AckedSettled' /\ Outcomes
  <2>1. CASE UNCHANGED vars
    <3>1. Outcomes
      BY <2>1, OutcomesUnchanged DEF WorkerInv, vars, workerVars, TypeOK
    <3>2. Rests
      BY <2>1 DEF WorkerInv, Rests, TypeOK, vars, workerVars
    <3>. QED  BY <1>1, <3>1, <3>2, RestsKeepsInv
  <2>2. ASSUME NEW j \in Job,
               SendRequest(j) \/ VisibilityTimeout(j) \/ Lapse(j) \/ DeferralEnds(j)
        PROVE  TypeOK' /\ HeldAccepted' /\ AckedSettled' /\ Outcomes
    BY <1>1, <2>2, EnvironmentStep, RestsKeepsInv DEF WorkerInv
  <2>3. ASSUME NEW p \in Process,
               \/ Boot(p) \/ StartScanFails(p) \/ Reclaim(p) \/ Promote(p)
               \/ Drain(p) \/ Shut(p) \/ Crash(p)
        PROVE  TypeOK' /\ HeldAccepted' /\ AckedSettled' /\ Outcomes
    BY <1>1, <2>3, ProcessStep, RestsKeepsInv DEF WorkerInv
  <2>4. ASSUME NEW p \in Process, Run(p) \/ RunFails(p)
        PROVE  TypeOK' /\ HeldAccepted' /\ AckedSettled' /\ Outcomes
    BY <1>1, <2>4, RunnerStep, MovesKeepsInv
  <2>. QED  BY <2>1, <2>2, <2>3, <2>4 DEF Next
<1>3. NoJobLost'
  <2>1. ASSUME NEW j \in accepted'
        PROVE  Stored(j)' \/ Settled(j)'
    <3>1. j \in Job
      BY <1>2 DEF TypeOK, QueueTypeOK
    <3>2. CASE j \notin accepted
      BY <1>1, <3>2 DEF StepOK
    <3>3. CASE j \in accepted
      BY <1>1, <1>2, <3>1, <3>3 DEF WorkerInv, NoJobLost, Outcomes
    <3>. QED  BY <3>2, <3>3
  <2>. QED  BY <2>1 DEF NoJobLost
<1>. QED  BY <1>1, <1>2, <1>3 DEF WorkerInv, StepOK

\* The inductive invariant of the worker: with the invariant of the queue, what a
\* runner holds was accepted, and what it acks was sent or given up.
THEOREM WorkerInvariant == Spec => []WorkerInv
<1>. QED  BY WorkerInitInv, WorkerStep, PTL DEF Spec

\* Every variable of the worker keeps its type, in particular each attempt counter.
THEOREM TypeCorrect == Spec => []TypeOK
<1>1. WorkerInv => TypeOK
  BY DEF WorkerInv
<1>. QED  BY <1>1, WorkerInvariant, PTL

\* At-least-once delivery: whatever the number of processes and whatever
\* crashes, fails or runs late, an accepted job is stored in Redis until it
\* has been sent or given up.
THEOREM AtLeastOnce == Spec => []NoJobLost
<1>1. WorkerInv => NoJobLost
  BY DEF WorkerInv
<1>. QED  BY <1>1, WorkerInvariant, PTL

-----------------------------------------------------------------------------
(* The workers implement MailDelivery.                                     *)

kept == {j \in Job : Stored(j)}
sent == {j \in Job : sends[j] > 0}

LEMMA PromiseInit == Init => Promise!Init
<1>. SUFFICES ASSUME Init PROVE Promise!Init
  OBVIOUS
<1>1. kept = {}
  BY DEF kept, Init, QueueInit, Stored, InPending, InProcessing, InDelayed
<1>2. sent = {}
  BY DEF sent, Init
<1>. QED  BY <1>1, <1>2 DEF Promise!Init, Init, QueueInit, kept, sent

\* Steps that neither accept, settle nor release a job are invisible.
LEMMA KeptUnchanged ==
  ASSUME QueueInv, StepOK, Keeps, accepted' = accepted
  PROVE  kept' = kept
BY DEF kept, QueueInv, StepOK, Keeps, OnlyAcceptedStored

LEMMA Invisible ==
  ASSUME QueueInv, StepOK, Keeps, UNCHANGED <<accepted, sends, deadLettered, abandoned>>
  PROVE  UNCHANGED Promise!vars
BY KeptUnchanged DEF Promise!vars, kept, sent

\* A send shows as Send, whether the runner learns of it or not.
LEMMA SendShows ==
  ASSUME WorkerInv, StepOK, Keeps, NEW p \in Process, job[p] \in accepted,
         job[p] \in Job, CountSend(p), UNCHANGED <<accepted, deadLettered, abandoned>>
  PROVE  Promise!Send(job[p])
<1>1. sent' = sent \cup {job[p]}
  BY DEF WorkerInv, TypeOK, CountSend, sent
<1>2. kept' = kept
  BY KeptUnchanged DEF WorkerInv
<1>. QED  BY <1>1, <1>2 DEF Promise!Send, kept, sent

LEMMA RunnerImplements ==
  ASSUME WorkerInv, StepOK, Keeps, NEW p \in Process, Run(p) \/ RunFails(p), ~ Ack(p)
  PROVE  [Promise!Next]_(Promise!vars)
<1>1. QueueInv /\ (pc[p] \notin {"stopped", "idle"} => job[p] \in accepted /\ job[p] \in Job)
  BY DEF WorkerInv, HeldAccepted, QueueInv, QueueTypeOK
<1>2. CASE SmtpAccepts(p) \/ SmtpReplyLost(p)
  <2>1. Promise!Send(job[p])
    BY <1>1, <1>2, SendShows DEF SmtpAccepts, SmtpReplyLost, queueVars
  <2>2. job[p] \in Job
    BY <1>1, <1>2 DEF SmtpAccepts, SmtpReplyLost
  <2>3. Promise!Next
    BY <2>1, <2>2 DEF Promise!Next, Promise!Send
  <2>. QED  BY <2>3
<1>3. CASE DeadLetter(p) \/ (JobCrashes(p) /\ deadLettered' = deadLettered \cup {job[p]})
  <2>1. /\ deadLettered' = deadLettered \cup {job[p]}
        /\ pc[p] \notin {"stopped", "idle"}
        /\ UNCHANGED <<queueVars, sends, abandoned>>
    BY <1>1, <1>3 DEF DeadLetter, JobCrashes
  <2>2. Promise!DeadLetter(job[p])
    BY <1>1, <2>1, KeptUnchanged DEF Promise!DeadLetter, queueVars, kept, sent
  <2>. QED  BY <1>1, <2>1, <2>2 DEF Promise!Next
<1>4. CASE DeadLetterFails(p)
  <2>1. Promise!Abandon(job[p])
    BY <1>1, <1>4, KeptUnchanged
       DEF Promise!Abandon, DeadLetterFails, queueVars, kept, sent
  <2>. QED  BY <1>1, <1>4, <2>1 DEF Promise!Next, DeadLetterFails
<1>5. CASE UNCHANGED <<accepted, sends, deadLettered, abandoned>>
  BY <1>1, <1>5, Invisible
<1>6. \/ SmtpAccepts(p) \/ SmtpReplyLost(p)
      \/ DeadLetter(p) \/ (JobCrashes(p) /\ deadLettered' = deadLettered \cup {job[p]})
      \/ DeadLetterFails(p)
      \/ UNCHANGED <<sends, deadLettered, abandoned>>
  BY DEF Run, RunFails, Dequeue, LeaseJob, TouchJob, PermissionGiven,
     PermissionDenied, DeferJob, DeferRefused, SmtpRejects, RecordDelivered, Unlease,
     LeaseJobFails, TouchFails, PermissionFails, DeferFails, RecordDeliveredFails,
     JobCrashes, outcomeVars
<1>7. accepted' = accepted
  BY DEF Run, RunFails, Dequeue, Pop, LeaseJob, TouchJob, Touch, SetLease,
     PermissionGiven, PermissionDenied, DeferJob, Defer, DeferRefused, SmtpAccepts,
     SmtpRejects, RecordDelivered, DeadLetter, Unlease, AckUnlease, LeaseJobFails,
     TouchFails, PermissionFails, DeferFails, SmtpReplyLost, RecordDeliveredFails,
     DeadLetterFails, JobCrashes, queueVars
<1>. QED  BY <1>2, <1>3, <1>4, <1>5, <1>6, <1>7

\* An ack shows as Release, or not at all when it finds no copy.
LEMMA AckImplements ==
  ASSUME WorkerInv, NEW p \in Process, Ack(p)
  PROVE  [Promise!Next]_(Promise!vars)
<1>1. /\ StepOK /\ job[p] \in Job /\ Settled(job[p])
      /\ \A j \in Job : j # job[p] /\ Stored(j) => Stored(j)'
  BY AckQueueStep
<1>2. UNCHANGED <<accepted, sends, deadLettered, abandoned>>
  BY DEF Ack, AckRemove, queueVars, outcomeVars
<1>3. \A j \in Job : Stored(j)' => Stored(j)
  BY <1>1, <1>2 DEF StepOK, QueueInv, OnlyAcceptedStored
<1>4. CASE kept' = kept
  BY <1>2, <1>4 DEF Promise!vars, kept, sent
<1>5. CASE kept' # kept
  <2>1. Stored(job[p]) /\ kept' = kept \ {job[p]}
    BY <1>1, <1>3, <1>5 DEF kept
  <2>2. Promise!Release(job[p])
    BY <1>1, <1>2, <2>1 DEF Promise!Release, Promise!Settled, Settled, kept, sent
  <2>. QED  BY <1>1, <2>2 DEF Promise!Next
<1>. QED  BY <1>4, <1>5

LEMMA EnvironmentImplements ==
  ASSUME WorkerInv, NEW j \in Job,
         SendRequest(j) \/ VisibilityTimeout(j) \/ Lapse(j) \/ DeferralEnds(j)
  PROVE  [Promise!Next]_(Promise!vars)
<1>1. QueueInv /\ StepOK /\ Keeps
  BY EnvironmentQueueStep DEF WorkerInv
<1>2. CASE SendRequest(j)
  <2>1. j \notin accepted /\ accepted' = accepted \cup {j}
    BY <1>2 DEF SendRequest, Enqueue
  <2>2. kept' = kept \cup {j}
    BY <1>1, <2>1 DEF kept, StepOK, Keeps, QueueInv, OnlyAcceptedStored
  <2>3. Promise!Accept(j)
    BY <1>2, <2>1, <2>2 DEF Promise!Accept, SendRequest, workerVars, kept, sent
  <2>. QED  BY <2>3 DEF Promise!Next
<1>3. CASE VisibilityTimeout(j) \/ Lapse(j) \/ DeferralEnds(j)
  BY <1>1, <1>3, Invisible
     DEF VisibilityTimeout, Lapse, LeaseExpires, DeferralEnds, DelayElapses,
         workerVars, outcomeVars
<1>. QED  BY <1>2, <1>3

LEMMA ProcessImplements ==
  ASSUME WorkerInv, NEW p \in Process,
         \/ Boot(p) \/ StartScanFails(p) \/ Reclaim(p) \/ Promote(p)
         \/ Drain(p) \/ Shut(p) \/ Crash(p)
  PROVE  [Promise!Next]_(Promise!vars)
<1>1. QueueInv /\ StepOK /\ Keeps
  BY ProcessQueueStep DEF WorkerInv
<1>2. UNCHANGED <<accepted, sends, deadLettered, abandoned>>
  BY DEF Boot, Start, StartLookup, StartLease, StartRunner, StartScanFails, Reclaim,
     ReclaimScan, ReclaimOne, Promote, PromoteScan, PromoteOne, Drain, Shut,
     RunnerStops, Stop, Crash, LeaseScan, LeaseLookup, LeaseAsExpired, DropScans,
     redisVars, queueVars, workerVars, outcomeVars
<1>. QED  BY <1>1, <1>2, Invisible

\* The pipeline, with its crashes, retries and late runners, is an
\* implementation of the abstract at-least-once delivery of MailDelivery.
THEOREM Delivers == Spec => PromiseKept
<1>1. WorkerInv /\ [Next]_vars => [Promise!Next]_(Promise!vars)
  <2>. SUFFICES ASSUME WorkerInv, [Next]_vars
                PROVE  [Promise!Next]_(Promise!vars)
    OBVIOUS
  <2>1. CASE UNCHANGED vars
    <3>1. QueueInv /\ StepOK /\ Keeps
      BY <2>1, QueueStutter DEF WorkerInv, vars
    <3>. QED  BY <2>1, <3>1, Invisible DEF vars, queueVars, workerVars
  <2>2. CASE \E p \in Process : Ack(p)
    BY <2>2, AckImplements
  <2>3. ASSUME NEW p \in Process, Run(p) \/ RunFails(p), ~ Ack(p)
        PROVE  [Promise!Next]_(Promise!vars)
    <3>1. StepOK /\ Keeps
      BY <2>3, RunnerQueueStep
    <3>. QED  BY <2>3, <3>1, RunnerImplements
  <2>. QED
    BY <2>1, <2>2, <2>3, EnvironmentImplements, ProcessImplements DEF Next
<1>. QED  BY <1>1, WorkerInvariant, PromiseInit, PTL DEF Spec, PromiseKept, Promise!Spec

-----------------------------------------------------------------------------
(* The lease protects its holder.                                          *)

\* An idle runner holds nothing, and only a process that has started has one
\* that is at work.
IdleInv ==
  \A p \in Process :
    /\ pc[p] \in {"stopped", "idle"} <=> job[p] = NoJob
    /\ life[p] \in {"down", "starting"} => pc[p] = "stopped"

\* No lease of j is in the past, nor is a reclaim of j on its way.
InTime(j) ==
  /\ leases[j] # "expired"
  /\ \A p \in Process : j \notin scans[p].reclaim

\* While a runner holds j, no pop can give it to another one ...
HeldAlone(j) ==
  \A p \in Process : job[p] = j =>
    /\ ~InPending(j) /\ ~InDelayed(j)
    /\ pc[p] # "unlease" => InProcessing(j)
    /\ pc[p] \in Working => leases[j] # "none"
    /\ \A q \in Process \ {p} : job[q] # j

\* ... nor once it was sent, whoever crashes then.
SentOnce(j) ==
  /\ sends[j] <= 1
  /\ sends[j] = 1 =>
       /\ j \in accepted /\ ~InPending(j) /\ ~InDelayed(j)
       /\ \A p \in Process : job[p] = j => pc[p] \in {"record", "ack", "unlease"}

Clean(j) == j \notin lapsed \cup usurped \cup misreported
JobSafe(j) == Clean(j) => InTime(j) /\ HeldAlone(j) /\ SentOnce(j)
LeaseInv == IdleInv /\ \A j \in Job : JobSafe(j)

\* What a command on another job leaves of j, and one on the leases of j.
Steady(j) ==
  /\ accepted \subseteq accepted'
  /\ InPending(j)' => InPending(j)
  /\ InDelayed(j)' => InDelayed(j)
  /\ InProcessing(j) => InProcessing(j)'
  /\ leases[j] # "none" => leases'[j] # "none"
  /\ InTime(j)'

LEMMA EnqueueSteady ==
  ASSUME QueueInv, NEW j \in Job, InTime(j), NEW k \in Job, k # j, Enqueue(k)
  PROVE  Steady(j)
<1>1. ~InPending(k)
  BY DEF QueueInv, OnlyAcceptedStored, Stored, Enqueue
<1>2. InPending(j)' <=> InPending(j)
  BY <1>1, PushPending DEF QueueInv, QueueTypeOK, OneCopyAtMost, Enqueue
<1>. QED  BY <1>2 DEF Enqueue, Steady, InTime, InProcessing, InDelayed

LEMMA PopSteady ==
  ASSUME QueueInv, NEW j \in Job, InTime(j), NEW k \in Job, k # j, Pop(k)
  PROVE  Steady(j)
<1>1. InPending(j)' <=> InPending(j)
  BY PopPending DEF QueueInv, QueueTypeOK, OneCopyAtMost, Pop
<1>2. processing'[j] = processing[j]
  BY DEF QueueInv, QueueTypeOK, Pop
<1>. QED  BY <1>1, <1>2 DEF Pop, Steady, InTime, InProcessing, InDelayed

\* Neither a pop of the queue nor a push.
LEMMA CommandSteady ==
  ASSUME QueueInv, NEW j \in Job, InTime(j), NEW k \in Job,
         \/ SetLease(k) \/ DelayElapses(k) \/ UNCHANGED queueVars
         \/ k # j /\ (AckRemove(k) \/ AckUnlease(k) \/ Defer(k) \/ LeaseExpires(k))
  PROVE  Steady(j)
<1>1. accepted' = accepted /\ pending' = pending /\ scans' = scans
  BY DEF SetLease, DelayElapses, AckRemove, AckUnlease, Defer, LeaseExpires, queueVars
<1>2. processing'[j] = processing[j]
  BY DEF SetLease, DelayElapses, AckRemove, AckUnlease, Defer, LeaseExpires, queueVars,
         QueueInv, QueueTypeOK
<1>3. delayed'[j] # "none" => delayed[j] # "none"
  BY DEF SetLease, DelayElapses, AckRemove, AckUnlease, Defer, LeaseExpires, queueVars,
         QueueInv, QueueTypeOK
<1>4. leases'[j] = leases[j] \/ leases'[j] = "live"
  BY DEF SetLease, DelayElapses, AckRemove, AckUnlease, Defer, LeaseExpires, queueVars,
         QueueInv, QueueTypeOK
<1>. QED
  BY <1>1, <1>2, <1>3, <1>4 DEF Steady, InTime, InPending, InProcessing, InDelayed

\* The scans: a reclaim finds the jobs in the past only.
LEMMA ScanSteady ==
  ASSUME QueueInv, NEW j \in Job, InTime(j), NEW p \in Process,
         \/ ReclaimScan(p) \/ PromoteScan(p) \/ LeaseScan(p) \/ DropScans(p)
         \/ \E k \in Job : LeaseLookup(p, k) \/ (LeaseAsExpired(p, k) /\ k # j)
  PROVE  Steady(j)
<1>1. UNCHANGED <<accepted, pending, processing, delayed>> /\ leases'[j] = leases[j]
  BY DEF ReclaimScan, PromoteScan, LeaseScan, DropScans, LeaseLookup, LeaseAsExpired,
         redisVars, QueueInv, QueueTypeOK
<1>2. \A q \in Process : j \notin scans'[q].reclaim
  <2>1. scans \in [Process -> Scan] /\ \A q \in Process : j \notin scans[q].reclaim
    BY DEF QueueInv, QueueTypeOK, InTime
  <2>2. CASE ReclaimScan(p)
    BY <2>1, <2>2 DEF ReclaimScan, Scan, InTime
  <2>3. CASE PromoteScan(p)
    BY <2>1, <2>3 DEF PromoteScan, Scan
  <2>4. CASE LeaseScan(p)
    BY <2>1, <2>4 DEF LeaseScan, Scan
  <2>5. CASE DropScans(p)
    BY <2>1, <2>5 DEF DropScans, NoScan
  <2>6. ASSUME NEW k \in Job, LeaseLookup(p, k) \/ LeaseAsExpired(p, k)
        PROVE  \A q \in Process : j \notin scans'[q].reclaim
    <3>1. \A q \in Process : scans'[q].reclaim = scans[q].reclaim
      BY <2>1, <2>6 DEF LeaseLookup, LeaseAsExpired, Scan
    <3>. QED  BY <2>1, <3>1
  <2>. QED  BY <2>2, <2>3, <2>4, <2>5, <2>6
<1>. QED  BY <1>1, <1>2 DEF Steady, InTime, InPending, InProcessing, InDelayed

LEMMA ReclaimOneSteady ==
  ASSUME QueueInv, NEW j \in Job, InTime(j), NEW p \in Process, NEW k \in Job,
         ReclaimOne(p, k)
  PROVE  Steady(j)
<1>1. k # j /\ accepted' = accepted /\ delayed' = delayed
  BY DEF ReclaimOne, InTime
<1>2. leases'[j] = leases[j] /\ processing'[j] = processing[j]
  BY <1>1 DEF ReclaimOne, QueueInv, QueueTypeOK
<1>3. InPending(j)' => InPending(j)
  <2>1. CASE InProcessing(k)
    <3>1. ~InPending(k)
      BY <2>1 DEF QueueInv, OneCopyAtMost
    <3>. QED
      BY <1>1, <2>1, <3>1, PushPending DEF QueueInv, QueueTypeOK, OneCopyAtMost, ReclaimOne
  <2>2. CASE ~InProcessing(k)
    BY <2>2 DEF ReclaimOne, InPending
  <2>. QED  BY <2>1, <2>2
<1>4. \A q \in Process : j \notin scans'[q].reclaim
  <2>1. scans \in [Process -> Scan] /\ \A q \in Process : j \notin scans[q].reclaim
    BY DEF QueueInv, QueueTypeOK, InTime
  <2>. QED  BY <2>1 DEF ReclaimOne, Scan
<1>. QED  BY <1>1, <1>2, <1>3, <1>4 DEF Steady, InTime, InProcessing, InDelayed

\* What a promotion does to a job, its own or another.
LEMMA PromoteOneEffect ==
  ASSUME QueueInv, NEW j \in Job, InTime(j), NEW p \in Process, NEW k \in Job,
         PromoteOne(p, k)
  PROVE  Steady(j) \/ (k = j /\ InDelayed(j) /\ ~InDelayed(j)' /\ InTime(j)')
<1>1. /\ accepted' = accepted /\ leases' = leases /\ processing' = processing
      /\ k # j => delayed'[j] = delayed[j]
  BY DEF PromoteOne, QueueInv, QueueTypeOK
<1>2. \A q \in Process : j \notin scans'[q].reclaim
  <2>1. scans \in [Process -> Scan] /\ \A q \in Process : j \notin scans[q].reclaim
    BY DEF QueueInv, QueueTypeOK, InTime
  <2>. QED  BY <2>1 DEF PromoteOne, Scan
<1>3. InTime(j)'
  BY <1>1, <1>2 DEF InTime
<1>4. CASE ~InDelayed(k)
  BY <1>1, <1>3, <1>4 DEF PromoteOne, Steady, InPending, InProcessing, InDelayed
<1>5. CASE InDelayed(k) /\ k # j
  <2>1. ~InPending(k)
    BY <1>5 DEF QueueInv, OneCopyAtMost
  <2>2. InPending(j)' <=> InPending(j)
    BY <1>5, <2>1, PushPending DEF QueueInv, QueueTypeOK, OneCopyAtMost, PromoteOne
  <2>. QED  BY <1>1, <1>3, <1>5, <2>2 DEF Steady, InProcessing, InDelayed
<1>6. CASE InDelayed(k) /\ k = j
  BY <1>3, <1>6 DEF PromoteOne, QueueInv, QueueTypeOK, InDelayed
<1>. QED  BY <1>4, <1>5, <1>6

-----------------------------------------------------------------------------
(* The runners: who holds what.                                            *)

\* A runner's step that leaves it at work with its job, or without any.
LEMMA RunnerIdle ==
  ASSUME TypeOK, IdleInv, NEW p \in Process, Run(p) \/ RunFails(p)
  PROVE  IdleInv'
<1>1. /\ life' = life /\ pc[p] # "stopped" /\ life[p] \in {"up", "draining"}
      /\ \A q \in Process \ {p} : pc'[q] = pc[q] /\ job'[q] = job[q]
      /\ pc'[p] # "stopped" => (pc'[p] = "idle" <=> job'[p] = NoJob)
      /\ pc'[p] = "stopped" => job'[p] = NoJob
  <2>1. life[p] \in {"down", "starting"} => pc[p] = "stopped"
    BY DEF IdleInv
  <2>2. pc[p] \notin {"stopped", "idle"} => job[p] # NoJob
    BY DEF IdleInv
  <2>3. CASE Dequeue(p)
    BY <2>1, <2>3, NoJobAssumption DEF Dequeue, Goto, TypeOK, Control, Life
  <2>4. CASE \/ LeaseJobFails(p) \/ DeferJob(p) \/ Unlease(p) \/ JobCrashes(p)
    BY <2>1, <2>4
       DEF LeaseJobFails, DeferJob, Unlease, JobCrashes, Finish, Goto, TypeOK, Control, Life
  <2>5. CASE \/ LeaseJob(p) \/ TouchJob(p) \/ PermissionGiven(p) \/ PermissionDenied(p)
             \/ DeferRefused(p) \/ SmtpAccepts(p) \/ RecordDelivered(p) \/ DeadLetter(p)
             \/ Ack(p) \/ DeferFails(p) \/ DeadLetterFails(p)
    BY <2>1, <2>2, <2>5
       DEF LeaseJob, TouchJob, PermissionGiven, PermissionDenied, DeferRefused, SmtpAccepts,
           RecordDelivered, DeadLetter, Ack, DeferFails, DeadLetterFails, Goto, TypeOK,
           Control, Life
  <2>6. CASE \/ TouchFails(p) \/ PermissionFails(p) \/ SmtpReplyLost(p)
             \/ RecordDeliveredFails(p) \/ \E b \in BOOLEAN : SmtpRejects(p, b)
    <3>1. /\ \E b \in BOOLEAN : AttemptFails(p, b)
          /\ pc[p] \notin {"stopped", "idle"} /\ UNCHANGED <<job, life>>
      BY <2>6 DEF TouchFails, PermissionFails, SmtpReplyLost, RecordDeliveredFails, SmtpRejects
    <3>. QED  BY <2>1, <2>2, <3>1, AttemptFailsStep DEF TypeOK, Life
  <2>. QED  BY <2>3, <2>4, <2>5, <2>6 DEF Run, RunFails
<1>. QED  BY <1>1 DEF IdleInv

LEMMA OthersIdle ==
  ASSUME TypeOK, IdleInv,
         \/ \E j \in Job :
              SendRequest(j) \/ VisibilityTimeout(j) \/ Lapse(j) \/ DeferralEnds(j)
         \/ \E p \in Process :
              \/ Boot(p) \/ StartScanFails(p) \/ Reclaim(p) \/ Promote(p)
              \/ Drain(p) \/ Shut(p) \/ Crash(p)
  PROVE  IdleInv'
<1>1. CASE UNCHANGED <<life, pc, job>>
  BY <1>1 DEF IdleInv
<1>2. ASSUME NEW p \in Process, Start(p) \/ StartRunner(p) \/ Drain(p) \/ RunnerStops(p)
                               \/ Stop(p) \/ Crash(p)
      PROVE  IdleInv'
  BY <1>2 DEF Start, StartRunner, Drain, RunnerStops, Stop, Crash, Goto, runnerVars,
              TypeOK, Control, Life, IdleInv
<1>. QED
  BY <1>1, <1>2 DEF SendRequest, VisibilityTimeout, Lapse, DeferralEnds, Boot, StartLookup,
     StartLease, StartScanFails, Reclaim, Promote, Shut, workerVars, runnerVars

-----------------------------------------------------------------------------
(* One job, while its lease never ran out and nobody was told wrong.       *)

\* Nobody takes j: whoever had it has it still, at the same step, or dropped it.
NoTaker(j) == \A p \in Process : job'[p] = j => job[p] = j /\ pc'[p] = pc[p]

LEMMA SteadyKeeps ==
  ASSUME NEW j \in Job, InTime(j), HeldAlone(j), SentOnce(j), Steady(j), NoTaker(j),
         sends'[j] = sends[j]
  PROVE  JobSafe(j)'
<1>1. HeldAlone(j)'
  BY DEF HeldAlone, Steady, NoTaker
<1>2. SentOnce(j)'
  BY DEF SentOnce, Steady, NoTaker
<1>. QED  BY <1>1, <1>2 DEF JobSafe, Steady

\* The only holder of j goes on with it.
LEMMA HolderKeeps ==
  ASSUME TypeOK, NEW j \in Job, HeldAlone(j), SentOnce(j),
         NEW p \in Process, job[p] = j, UNCHANGED job,
         \A q \in Process : q # p => pc'[q] = pc[q],
         accepted \subseteq accepted', InTime(j)',
         InPending(j)' => InPending(j), InDelayed(j)' => InDelayed(j),
         pc'[p] # "unlease" => InProcessing(j)',
         pc'[p] \in Working => leases'[j] # "none",
         \/ sends'[j] = sends[j]
            /\ (pc[p] \in {"record", "ack", "unlease"} =>
                  pc'[p] \in {"record", "ack", "unlease"})
         \/ sends[j] = 0 /\ sends'[j] = 1 /\ j \in accepted
            /\ pc'[p] \in {"record", "ack", "unlease"}
  PROVE  JobSafe(j)'
<1>1. HeldAlone(j)'
  BY DEF HeldAlone
<1>2. SentOnce(j)'
  BY DEF SentOnce, HeldAlone
<1>. QED  BY <1>1, <1>2 DEF JobSafe

LEMMA EnvironmentSafe ==
  ASSUME WorkerInv, IdleInv, NEW j \in Job, JobSafe(j), NEW k \in Job,
         SendRequest(k) \/ VisibilityTimeout(k) \/ Lapse(k) \/ DeferralEnds(k)
  PROVE  JobSafe(j)'
<1>. SUFFICES ASSUME Clean(j)'
              PROVE  JobSafe(j)'
  BY DEF JobSafe
<1>1. /\ UNCHANGED <<pc, job, sends, misreported>> /\ QueueInv
      /\ lapsed \subseteq lapsed' /\ usurped \subseteq usurped'
  BY DEF SendRequest, VisibilityTimeout, Lapse, DeferralEnds, workerVars, runnerVars,
         outcomeVars, WorkerInv
<1>2. InTime(j) /\ HeldAlone(j) /\ SentOnce(j)
  BY <1>1 DEF JobSafe, Clean
<1>3. NoTaker(j)
  BY <1>1 DEF NoTaker
<1>4. CASE SendRequest(k) /\ k = j
  <2>1. j \notin accepted /\ UNCHANGED <<processing, leases, delayed, scans>>
    BY <1>4 DEF SendRequest, Enqueue
  <2>2. \A p \in Process : job[p] # j
    BY <2>1, NoJobAssumption DEF WorkerInv, HeldAccepted, IdleInv
  <2>3. sends[j] # 1
    BY <1>2, <2>1 DEF SentOnce
  <2>. QED  BY <1>1, <1>2, <2>1, <2>2, <2>3 DEF JobSafe, InTime, HeldAlone, SentOnce
<1>5. CASE SendRequest(k) /\ k # j
  BY <1>1, <1>2, <1>3, <1>5, EnqueueSteady, SteadyKeeps DEF SendRequest
<1>6. CASE VisibilityTimeout(k) \/ Lapse(k)
  <2>1. k # j /\ LeaseExpires(k)
    BY <1>6 DEF VisibilityTimeout, Lapse, Clean
  <2>. QED  BY <1>1, <1>2, <1>3, <2>1, CommandSteady, SteadyKeeps
<1>7. CASE DeferralEnds(k)
  BY <1>1, <1>2, <1>3, <1>7, CommandSteady, SteadyKeeps DEF DeferralEnds
<1>. QED  BY <1>4, <1>5, <1>6, <1>7

LEMMA ProcessSafe ==
  ASSUME WorkerInv, IdleInv, NEW j \in Job, JobSafe(j), NEW p \in Process,
         \/ Boot(p) \/ StartScanFails(p) \/ Reclaim(p) \/ Promote(p)
         \/ Drain(p) \/ Shut(p) \/ Crash(p)
  PROVE  JobSafe(j)'
<1>. SUFFICES ASSUME Clean(j)'
              PROVE  JobSafe(j)'
  BY DEF JobSafe
<1>1. /\ UNCHANGED <<sends, misreported>> /\ QueueInv /\ TypeOK
      /\ lapsed \subseteq lapsed' /\ usurped \subseteq usurped'
  BY DEF Boot, Start, StartLookup, StartLease, StartRunner, StartScanFails, Reclaim,
         Promote, Drain, Shut, RunnerStops, Stop, Crash, workerVars, outcomeVars, WorkerInv
<1>2. InTime(j) /\ HeldAlone(j) /\ SentOnce(j)
  BY <1>1 DEF JobSafe, Clean
<1>3. NoTaker(j)
  <2>1. CASE StartRunner(p) \/ RunnerStops(p)
    <3>1. job[p] = NoJob /\ job' = job /\ \A q \in Process : q # p => pc'[q] = pc[q]
      BY <1>1, <2>1 DEF StartRunner, RunnerStops, Goto, IdleInv, TypeOK
    <3>. QED  BY <3>1, NoJobAssumption DEF NoTaker
  <2>2. CASE Crash(p)
    BY <1>1, <2>2, NoJobAssumption DEF Crash, Goto, TypeOK, NoTaker
  <2>3. CASE UNCHANGED <<pc, job>>
    BY <2>3 DEF NoTaker
  <2>. QED
    BY <2>1, <2>2, <2>3
       DEF Boot, Start, StartLookup, StartLease, StartScanFails, Reclaim, Promote,
           Drain, Shut, Stop, workerVars, runnerVars
<1>4. CASE Start(p) \/ StartScanFails(p) \/ Stop(p) \/ Crash(p) \/ \E k \in Job : StartLookup(p, k)
  <2>1. Steady(j)
    BY <1>1, <1>2, <1>4, ScanSteady DEF Start, StartLookup, StartScanFails, Stop, Crash
  <2>. QED  BY <1>1, <1>2, <1>3, <2>1, SteadyKeeps
<1>5. ASSUME NEW k \in Job, StartLease(p, k)
      PROVE  JobSafe(j)'
  <2>1. k # j /\ LeaseAsExpired(p, k)
    BY <1>5 DEF StartLease, Clean
  <2>2. Steady(j)
    BY <1>1, <1>2, <2>1, ScanSteady
  <2>. QED  BY <1>1, <1>2, <1>3, <2>2, SteadyKeeps
<1>6. CASE StartRunner(p) \/ Drain(p) \/ RunnerStops(p)
  <2>1. Steady(j)
    BY <1>1, <1>2, <1>6, CommandSteady DEF StartRunner, Drain, RunnerStops
  <2>. QED  BY <1>1, <1>2, <1>3, <2>1, SteadyKeeps
<1>7. CASE Reclaim(p)
  <2>1. Steady(j)
    BY <1>1, <1>2, <1>7, ScanSteady, ReclaimOneSteady DEF Reclaim
  <2>. QED  BY <1>1, <1>2, <1>3, <2>1, SteadyKeeps
<1>8. CASE Promote(p)
  <2>1. Steady(j) \/ (InDelayed(j) /\ InTime(j)')
    BY <1>1, <1>2, <1>8, ScanSteady, PromoteOneEffect DEF Promote
  <2>2. CASE Steady(j)
    BY <1>1, <1>2, <1>3, <2>2, SteadyKeeps
  <2>3. CASE InDelayed(j) /\ InTime(j)'
    <3>1. sends[j] # 1 /\ \A q \in Process : job[q] # j
      BY <1>2, <2>3 DEF HeldAlone, SentOnce
    <3>. QED  BY <1>1, <1>2, <1>3, <2>3, <3>1 DEF JobSafe, HeldAlone, SentOnce, NoTaker
  <2>. QED  BY <2>1, <2>2, <2>3
<1>. QED  BY <1>4, <1>5, <1>6, <1>7, <1>8 DEF Boot, Shut

LEMMA DequeueSafe ==
  ASSUME WorkerInv, NEW j \in Job, JobSafe(j), NEW p \in Process, Dequeue(p)
  PROVE  JobSafe(j)'
<1>. SUFFICES ASSUME Clean(j)'
              PROVE  JobSafe(j)'
  BY DEF JobSafe
<1>1. /\ UNCHANGED <<sends, misreported, lapsed, usurped>> /\ QueueInv /\ TypeOK
      /\ pc' = [pc EXCEPT ![p] = "lease"]
  BY DEF Dequeue, Goto, outcomeVars, WorkerInv
<1>2. InTime(j) /\ HeldAlone(j) /\ SentOnce(j)
  BY <1>1 DEF JobSafe, Clean
<1>3. PICK k \in Job : Pop(k) /\ job' = [job EXCEPT ![p] = k]
  BY DEF Dequeue
<1>4. CASE k # j
  <2>1. NoTaker(j)
    BY <1>1, <1>3, <1>4 DEF NoTaker, TypeOK
  <2>. QED  BY <1>1, <1>2, <1>3, <1>4, <2>1, PopSteady, SteadyKeeps
<1>5. CASE k = j
  <2>1. InPending(j) /\ ~InPending(j)' /\ ~InDelayed(j)
    BY <1>1, <1>3, <1>5, PopPending DEF QueueInv, QueueTypeOK, OneCopyAtMost, Pop
  <2>2. InProcessing(j)' /\ ~InDelayed(j)' /\ InTime(j)'
    BY <1>1, <1>2, <1>3, <1>5, <2>1
       DEF Pop, QueueInv, QueueTypeOK, InProcessing, InDelayed, InTime
  <2>3. sends'[j] # 1 /\ \A q \in Process : job[q] # j
    BY <1>1, <1>2, <2>1 DEF HeldAlone, SentOnce
  <2>4. HeldAlone(j)'
    BY <1>1, <1>3, <1>5, <2>1, <2>2, <2>3 DEF HeldAlone, TypeOK, Working
  <2>. QED  BY <1>1, <1>2, <2>2, <2>3, <2>4 DEF JobSafe, SentOnce
<1>. QED  BY <1>4, <1>5

\* The step of a runner that holds another job.
LEMMA OtherHolderSafe ==
  ASSUME WorkerInv, NEW j \in Job, JobSafe(j), NEW p \in Process,
         Run(p) \/ RunFails(p), ~Dequeue(p), job[p] # j
  PROVE  JobSafe(j)'
<1>. SUFFICES ASSUME Clean(j)'
              PROVE  JobSafe(j)'
  BY DEF JobSafe
<1>1. TypeOK /\ QueueInv /\ lapsed' = lapsed /\ usurped' = usurped
  BY RunnerStep DEF WorkerInv
<1>2. job[p] \in Job
  BY DEF Run, RunFails, LeaseJob, TouchJob, PermissionGiven, PermissionDenied, DeferJob,
     DeferRefused, SmtpAccepts, SmtpRejects, RecordDelivered, DeadLetter, Ack, Unlease,
     LeaseJobFails, TouchFails, PermissionFails, DeferFails, SmtpReplyLost,
     RecordDeliveredFails, DeadLetterFails, JobCrashes, WorkerInv, HeldAccepted, QueueInv,
     QueueTypeOK
<1>3. /\ misreported \subseteq misreported'
      /\ sends' = sends \/ CountSend(p)
      /\ job' = job \/ job' = [job EXCEPT ![p] = NoJob]
  BY DEF Run, RunFails, LeaseJob, TouchJob, PermissionGiven, PermissionDenied, DeferJob,
     DeferRefused, SmtpAccepts, SmtpRejects, RecordDelivered, DeadLetter, Ack, Unlease,
     LeaseJobFails, TouchFails, PermissionFails, DeferFails, SmtpReplyLost,
     RecordDeliveredFails, DeadLetterFails, JobCrashes, Finish, outcomeVars
<1>4. \/ UNCHANGED queueVars \/ SetLease(job[p]) \/ AckRemove(job[p]) \/ AckUnlease(job[p])
      \/ Defer(job[p])
  BY DEF Run, RunFails, LeaseJob, TouchJob, Touch, PermissionGiven, PermissionDenied, DeferJob,
     DeferRefused, SmtpAccepts, SmtpRejects, RecordDelivered, DeadLetter, Ack, Unlease,
     LeaseJobFails, TouchFails, PermissionFails, DeferFails, SmtpReplyLost,
     RecordDeliveredFails, DeadLetterFails, JobCrashes
<1>5. InTime(j) /\ HeldAlone(j) /\ SentOnce(j)
  BY <1>1, <1>3 DEF JobSafe, Clean
<1>6. sends'[j] = sends[j]
  BY <1>1, <1>2, <1>3 DEF CountSend, TypeOK
<1>7. NoTaker(j)
  <2>1. \A q \in Process : q # p => pc'[q] = pc[q] /\ job'[q] = job[q]
    BY RunnerStep DEF Moves
  <2>2. job'[p] # j
    BY <1>1, <1>3, NoJobAssumption DEF TypeOK
  <2>. QED  BY <2>1, <2>2 DEF NoTaker
<1>8. Steady(j)
  BY <1>1, <1>2, <1>4, <1>5, CommandSteady
<1>. QED  BY <1>5, <1>6, <1>7, <1>8, SteadyKeeps

\* The step of the runner that holds the job.
LEMMA HolderSafe ==
  ASSUME WorkerInv, NEW j \in Job, JobSafe(j), NEW p \in Process,
         Run(p) \/ RunFails(p), ~Dequeue(p), job[p] = j
  PROVE  JobSafe(j)'
<1>. SUFFICES ASSUME Clean(j)'
              PROVE  JobSafe(j)'
  BY DEF JobSafe
<1>1. TypeOK /\ QueueInv /\ lapsed' = lapsed /\ usurped' = usurped
      /\ \A q \in Process : q # p => pc'[q] = pc[q] /\ job'[q] = job[q]
  BY RunnerStep DEF WorkerInv, Moves
<1>2. misreported \subseteq misreported'
  BY DEF Run, RunFails, LeaseJob, TouchJob, PermissionGiven, PermissionDenied, DeferJob,
     DeferRefused, SmtpAccepts, SmtpRejects, RecordDelivered, DeadLetter, Ack, Unlease,
     LeaseJobFails, TouchFails, PermissionFails, DeferFails, SmtpReplyLost,
     RecordDeliveredFails, DeadLetterFails, JobCrashes, outcomeVars
<1>3. InTime(j) /\ HeldAlone(j) /\ SentOnce(j)
  BY <1>1, <1>2 DEF JobSafe, Clean
<1>4. /\ ~InPending(j) /\ ~InDelayed(j)
      /\ pc[p] # "unlease" => InProcessing(j)
      /\ pc[p] \in Working => leases[j] # "none"
      /\ \A q \in Process \ {p} : job[q] # j
  BY <1>3 DEF HeldAlone
\* The runner drops the job, after which nobody holds it.
<1>5. ASSUME Finish(p), sends' = sends, accepted' = accepted, InTime(j)',
             \/ ~InPending(j)' /\ ~InDelayed(j)'
             \/ sends[j] = 0
      PROVE  JobSafe(j)'
  <2>1. \A q \in Process : job'[q] # j
    BY <1>1, <1>4, <1>5, NoJobAssumption DEF Finish, TypeOK
  <2>. QED  BY <1>3, <1>5, <2>1 DEF JobSafe, HeldAlone, SentOnce
<1>6. CASE LeaseJob(p) \/ TouchJob(p)
  <2>1. /\ SetLease(j) /\ job' = job /\ sends' = sends
        /\ pc[p] \in {"lease", "touch"} /\ pc'[p] \in {"touch", "permission"}
    BY <1>1, <1>6 DEF LeaseJob, TouchJob, Touch, Goto, TypeOK, outcomeVars
  <2>2. Steady(j) /\ leases'[j] # "none"
    BY <1>1, <1>3, <2>1, CommandSteady DEF SetLease, QueueInv, QueueTypeOK
  <2>. QED  BY <1>1, <1>3, <1>4, <2>1, <2>2, HolderKeeps DEF Steady
<1>7. CASE LeaseJobFails(p) \/ JobCrashes(p) \/ Unlease(p)
  <2>1. /\ Finish(p) /\ sends' = sends
        /\ SetLease(j) \/ AckUnlease(j) \/ UNCHANGED queueVars
    BY <1>7 DEF LeaseJobFails, JobCrashes, Unlease, outcomeVars
  <2>2. /\ accepted' = accepted /\ pending' = pending /\ delayed' = delayed /\ scans' = scans
        /\ leases'[j] # "expired"
    BY <1>1, <1>3, <2>1 DEF SetLease, AckUnlease, queueVars, QueueInv, QueueTypeOK, InTime
  <2>3. InTime(j)' /\ ~InPending(j)' /\ ~InDelayed(j)'
    BY <1>3, <1>4, <2>2 DEF InTime, InPending, InDelayed
  <2>. QED  BY <1>5, <2>1, <2>2, <2>3
<1>8. CASE DeferJob(p)
  <2>1. Finish(p) /\ sends' = sends /\ Defer(j) /\ pc[p] = "defer"
    BY <1>8 DEF DeferJob, outcomeVars
  <2>2. InTime(j)' /\ accepted' = accepted
    BY <1>1, <1>3, <2>1 DEF Defer, QueueInv, QueueTypeOK, InTime
  <2>3. sends[j] = 0
    BY <1>1, <1>3, <2>1 DEF SentOnce, TypeOK
  <2>. QED  BY <1>5, <2>1, <2>2, <2>3
\* A failure of which the runner was told wrongly leaves the job unclean.
<1>9. CASE SmtpReplyLost(p) \/ RecordDeliveredFails(p)
  BY <1>9 DEF SmtpReplyLost, RecordDeliveredFails, Clean
<1>10. CASE DeferFails(p)
  <2>1. UNCHANGED queueVars /\ job' = job /\ sends' = sends
        /\ pc[p] = "defer" /\ pc'[p] = "touch"
    BY <1>1, <1>10 DEF DeferFails, Clean, Goto, TypeOK
  <2>2. Steady(j)
    BY <1>1, <1>3, <2>1, CommandSteady
  <2>. QED  BY <1>1, <1>3, <1>4, <2>1, <2>2, HolderKeeps DEF Steady, Working
<1>11. CASE \/ TouchFails(p) \/ PermissionFails(p) \/ \E b \in BOOLEAN : SmtpRejects(p, b)
  <2>1. /\ \E b \in BOOLEAN : AttemptFails(p, b)
        /\ pc[p] \in {"touch", "permission", "send"}
        /\ UNCHANGED queueVars /\ job' = job /\ sends' = sends
    BY <1>11 DEF TouchFails, PermissionFails, SmtpRejects, outcomeVars
  <2>2. pc'[p] \in {"touch", "deadletter"}
    BY <1>1, <2>1, AttemptFailsStep
  <2>3. Steady(j)
    BY <1>1, <1>3, <2>1, CommandSteady
  <2>. QED  BY <1>1, <1>3, <1>4, <2>1, <2>2, <2>3, HolderKeeps DEF Steady, Working
<1>12. CASE \/ PermissionGiven(p) \/ PermissionDenied(p) \/ DeferRefused(p)
            \/ RecordDelivered(p) \/ DeadLetter(p) \/ DeadLetterFails(p)
  <2>1. /\ UNCHANGED queueVars /\ job' = job /\ sends' = sends
        /\ pc[p] \in {"permission", "defer", "record", "deadletter"}
        /\ pc'[p] \in {"send", "defer", "touch", "ack"}
        /\ pc[p] = "record" => pc'[p] = "ack"
    BY <1>1, <1>12 DEF PermissionGiven, PermissionDenied, DeferRefused, RecordDelivered,
       DeadLetter, DeadLetterFails, Goto, TypeOK, outcomeVars
  <2>2. Steady(j)
    BY <1>1, <1>3, <2>1, CommandSteady
  <2>. QED  BY <1>1, <1>3, <1>4, <2>1, <2>2, HolderKeeps DEF Steady, Working
<1>13. CASE SmtpAccepts(p)
  <2>1. /\ UNCHANGED queueVars /\ job' = job /\ CountSend(p)
        /\ pc[p] = "send" /\ pc'[p] = "record"
    BY <1>1, <1>13 DEF SmtpAccepts, Goto, TypeOK
  <2>2. sends[j] = 0 /\ sends'[j] = 1 /\ j \in accepted
    BY <1>1, <1>3, <2>1 DEF SentOnce, CountSend, TypeOK, WorkerInv, HeldAccepted
  <2>3. Steady(j)
    BY <1>1, <1>3, <2>1, CommandSteady
  <2>. QED  BY <1>1, <1>3, <1>4, <2>1, <2>2, <2>3, HolderKeeps DEF Steady, Working
<1>14. CASE Ack(p)
  <2>1. /\ AckRemove(j) \/ UNCHANGED queueVars
        /\ job' = job /\ sends' = sends /\ pc[p] = "ack" /\ pc'[p] = "unlease"
    BY <1>1, <1>14 DEF Ack, Goto, TypeOK, outcomeVars
  <2>2. UNCHANGED <<accepted, pending, leases, delayed, scans>>
    BY <2>1 DEF AckRemove, queueVars
  <2>3. InTime(j)' /\ ~InPending(j)' /\ ~InDelayed(j)'
    BY <1>3, <1>4, <2>2 DEF InTime, InPending, InDelayed
  <2>. QED  BY <1>1, <1>3, <2>1, <2>2, <2>3, HolderKeeps DEF Working
<1>. QED
  BY <1>6, <1>7, <1>8, <1>9, <1>10, <1>11, <1>12, <1>13, <1>14 DEF Run, RunFails

LEMMA LeaseStep == WorkerInv /\ LeaseInv /\ [Next]_vars => LeaseInv'
<1>. SUFFICES ASSUME WorkerInv, LeaseInv, [Next]_vars
              PROVE  LeaseInv'
  OBVIOUS
<1>1. CASE UNCHANGED vars
  BY <1>1 DEF vars, queueVars, workerVars, LeaseInv, IdleInv, JobSafe, Clean, InTime,
     HeldAlone, SentOnce, InPending, InDelayed, InProcessing
<1>2. CASE Next
  <2>1. TypeOK /\ IdleInv /\ \A j \in Job : JobSafe(j)
    BY DEF WorkerInv, LeaseInv
  <2>2. IdleInv'
    BY <1>2, <2>1, RunnerIdle, OthersIdle DEF Next
  <2>3. ASSUME NEW j \in Job
        PROVE  JobSafe(j)'
    BY <1>2, <2>1, EnvironmentSafe, ProcessSafe, DequeueSafe, OtherHolderSafe, HolderSafe
       DEF Next
  <2>. QED  BY <2>2, <2>3 DEF LeaseInv
<1>. QED  BY <1>1, <1>2

\* What the lease is worth, job by job: until its lease runs out on a holder, or a
\* holder is told wrongly, a job has one holder, and nobody can take it from there.
THEOREM LeaseInvariant == Spec => []LeaseInv
<1>1. Init => LeaseInv
  BY NoJobAssumption DEF Init, QueueInit, LeaseInv, IdleInv, JobSafe, InTime, HeldAlone,
     SentOnce, NoScan
<1>. QED  BY <1>1, LeaseStep, WorkerInvariant, PTL DEF Spec

\* The lease protects its holder for any number of processes, jobs and faults: a
\* holder whose lease never lapsed, whose job no start took for an orphan, and who was
\* never told wrongly, is the only one, and its lease is there as long as it works on
\* the job.
THEOREM HolderProtected == Spec => []LeaseProtects
<1>1. WorkerInv /\ LeaseInv => LeaseProtects
  BY DEF WorkerInv, TypeOK, LeaseInv, JobSafe, Clean, HeldAlone, LeaseProtects
<1>. QED  BY <1>1, WorkerInvariant, LeaseInvariant, PTL

\* A mail is sent twice only after its lease has lapsed, after a runner was told of a
\* failure that had not happened, or after a starting process put a lease of the past
\* on a job that was no orphan, whatever else crashes or fails.
THEOREM DuplicatesHaveACause == Spec => []DuplicateExplained
<1>1. WorkerInv /\ LeaseInv => DuplicateExplained
  <2>. SUFFICES ASSUME WorkerInv, LeaseInv, NEW j \in Job, Clean(j)
                PROVE  ~(sends[j] > 1)
    BY DEF DuplicateExplained, Clean
  <2>1. sends[j] \in Nat
    BY DEF WorkerInv, TypeOK
  <2>2. sends[j] =< 1
    BY DEF LeaseInv, JobSafe, SentOnce
  <2>. QED  BY <2>1, <2>2
<1>. QED  BY <1>1, WorkerInvariant, LeaseInvariant, PTL
=============================================================================
