--------------------------- MODULE RedisMailQueue ---------------------------
(***************************************************************************)
(* The Redis mail queue (src/src/redisMailQueue.js): four keys shared by   *)
(* every process, and the three background scans that each process runs    *)
(* over them.  One action is one Redis command (a Lua script is one        *)
(* command); commands of different processes interleave freely.            *)
(*                                                                         *)
(* A job is identified with its raw payload, the string that all four keys *)
(* store: it holds a fresh uuid, so two jobs never have the same payload.  *)
(* Scores are abstracted to whether Date.now() has passed them.  A scan    *)
(* fetches at most 100 members; the model fetches all of them.             *)
(***************************************************************************)
EXTENDS Naturals, Sequences, FiniteSets

CONSTANTS Job,      \* the jobs the API may enqueue
          Process   \* the processes connected to Redis

VARIABLES
  accepted,    \* history: the jobs that enqueue has pushed
  pending,     \* the list at queueKey, left end first
  processing,  \* the list at processingKey: how many copies of each job
  leases,      \* the sorted set at leaseKey
  delayed,     \* the sorted set at delayedKey
  scans        \* what each process still holds of the replies to its scans

redisVars == <<accepted, pending, processing, leases, delayed>>
queueVars == <<accepted, pending, processing, leases, delayed, scans>>

Lease == {"none", "live", "expired"}
Delay == {"none", "waiting", "due"}

(***************************************************************************)
(* reclaim, promote: members read by reclaimExpiredLeases and              *)
(* promoteDueDelayed whose script has not run yet.  check: members of the  *)
(* processing list that ensureProcessingLeases has still to look up.       *)
(* leaseless: the member it found without a lease and is about to give one.*)
(***************************************************************************)
Scan == [reclaim : SUBSET Job, promote : SUBSET Job,
         check : SUBSET Job, leaseless : SUBSET Job]
NoScan == [reclaim |-> {}, promote |-> {}, check |-> {}, leaseless |-> {}]

QueueTypeOK ==
  /\ accepted \subseteq Job
  /\ pending \in Seq(Job)
  /\ processing \in [Job -> Nat]
  /\ leases \in [Job -> Lease]
  /\ delayed \in [Job -> Delay]
  /\ scans \in [Process -> Scan]

QueueInit ==
  /\ accepted = {}
  /\ pending = <<>>
  /\ processing = [j \in Job |-> 0]
  /\ leases = [j \in Job |-> "none"]
  /\ delayed = [j \in Job |-> "none"]
  /\ scans = [p \in Process |-> NoScan]

-----------------------------------------------------------------------------
(* Where a job is stored.                                                  *)

InPending(j) == \E i \in 1 .. Len(pending) : pending[i] = j
InProcessing(j) == processing[j] > 0
InDelayed(j) == delayed[j] # "none"
Stored(j) == InPending(j) \/ InProcessing(j) \/ InDelayed(j)

-----------------------------------------------------------------------------
(* The operations of the API and of the consumers.                         *)

\* RPUSH queueKey.
Enqueue(j) ==
  /\ j \notin accepted
  /\ accepted' = accepted \cup {j}
  /\ pending' = Append(pending, j)
  /\ UNCHANGED <<processing, leases, delayed, scans>>

\* BRPOPLPUSH queueKey processingKey: it takes the right end, the end at
\* which RPUSH writes, so the newest pending job is taken first.
Pop(j) ==
  /\ pending # <<>>
  /\ j = pending[Len(pending)]
  /\ pending' = SubSeq(pending, 1, Len(pending) - 1)
  /\ processing' = [processing EXCEPT ![j] = @ + 1]
  /\ UNCHANGED <<accepted, leases, delayed, scans>>

\* ZADD leaseKey with a time in the future.  Nothing checks that the job is
\* still in the processing list.
SetLease(j) ==
  /\ leases' = [leases EXCEPT ![j] = "live"]
  /\ UNCHANGED <<accepted, pending, processing, delayed, scans>>

\* touch() of an open queue is the same command.
Touch(j) == SetLease(j)

\* ackRaw sends two commands; each may fail alone, and neither checks who
\* holds the job.  First LREM processingKey 1 ...
AckRemove(j) ==
  /\ processing' = [processing EXCEPT ![j] = IF @ > 0 THEN @ - 1 ELSE @]
  /\ UNCHANGED <<accepted, pending, leases, delayed, scans>>

\* ... then ZREM leaseKey.
AckUnlease(j) ==
  /\ leases' = [leases EXCEPT ![j] = "none"]
  /\ UNCHANGED <<accepted, pending, processing, delayed, scans>>

\* The script of defer(): it moves the job only if the processing list has it.
Defer(j) ==
  /\ InProcessing(j)
  /\ processing' = [processing EXCEPT ![j] = @ - 1]
  /\ leases' = [leases EXCEPT ![j] = "none"]
  /\ delayed' = [delayed EXCEPT ![j] = "waiting"]
  /\ UNCHANGED <<accepted, pending, scans>>

-----------------------------------------------------------------------------
(* reclaimExpiredLeases: one reply, then one script per member of it.      *)

\* Mutant: the scan takes every lease, not those of the past.
ReclaimScanAll(p) ==
  /\ \E j \in Job : leases[j] # "none" /\ j \notin scans[p].reclaim
  /\ scans' = [scans EXCEPT ![p].reclaim = @ \cup {j \in Job : leases[j] # "none"}]
  /\ UNCHANGED redisVars

ReclaimScan(p) ==
  /\ \E j \in Job : leases[j] = "expired" /\ j \notin scans[p].reclaim
  /\ scans' = [scans EXCEPT ![p].reclaim = @ \cup {j \in Job : leases[j] = "expired"}]
  /\ UNCHANGED redisVars

\* Mutant: RPUSH without looking at what LREM returned.
ReclaimOneUnchecked(p, j) ==
  /\ j \in scans[p].reclaim
  /\ scans' = [scans EXCEPT ![p].reclaim = @ \ {j}]
  /\ leases' = [leases EXCEPT ![j] = "none"]
  /\ processing' = [processing EXCEPT ![j] = IF @ > 0 THEN @ - 1 ELSE @]
  /\ pending' = Append(pending, j)
  /\ UNCHANGED <<accepted, delayed>>

\* Mutant: no script; LREM runs and the RPUSH that follows is lost.
ReclaimOneDropping(p, j) ==
  /\ j \in scans[p].reclaim
  /\ scans' = [scans EXCEPT ![p].reclaim = @ \ {j}]
  /\ leases' = [leases EXCEPT ![j] = "none"]
  /\ processing' = [processing EXCEPT ![j] = IF @ > 0 THEN @ - 1 ELSE @]
  /\ UNCHANGED <<accepted, pending, delayed>>

\* The script does not read the lease again: the job may have been touched,
\* or even acked and deferred, since the scan.
ReclaimOne(p, j) ==
  /\ j \in scans[p].reclaim
  /\ scans' = [scans EXCEPT ![p].reclaim = @ \ {j}]
  /\ leases' = [leases EXCEPT ![j] = "none"]
  /\ IF InProcessing(j)
     THEN /\ processing' = [processing EXCEPT ![j] = @ - 1]
          /\ pending' = Append(pending, j)
     ELSE UNCHANGED <<processing, pending>>
  /\ UNCHANGED <<accepted, delayed>>

(* promoteDueDelayed, called by its timer and by every turn of dequeue.    *)

PromoteScan(p) ==
  /\ \E j \in Job : delayed[j] = "due" /\ j \notin scans[p].promote
  /\ scans' = [scans EXCEPT ![p].promote = @ \cup {j \in Job : delayed[j] = "due"}]
  /\ UNCHANGED redisVars

\* Mutant: RPUSH without looking at what ZREM returned.
PromoteOneUnchecked(p, j) ==
  /\ j \in scans[p].promote
  /\ scans' = [scans EXCEPT ![p].promote = @ \ {j}]
  /\ delayed' = [delayed EXCEPT ![j] = "none"]
  /\ pending' = Append(pending, j)
  /\ UNCHANGED <<accepted, processing, leases>>

\* The script checks that the job is still delayed, not that it is still due.
PromoteOne(p, j) ==
  /\ j \in scans[p].promote
  /\ scans' = [scans EXCEPT ![p].promote = @ \ {j}]
  /\ IF InDelayed(j)
     THEN /\ delayed' = [delayed EXCEPT ![j] = "none"]
          /\ pending' = Append(pending, j)
     ELSE UNCHANGED <<delayed, pending>>
  /\ UNCHANGED <<accepted, processing, leases>>

(* ensureProcessingLeases, once per start: LRANGE, then ZSCORE and perhaps *)
(* ZADD for each member.                                                   *)

LeaseScan(p) ==
  /\ scans' = [scans EXCEPT ![p].check = {j \in Job : InProcessing(j)}]
  /\ UNCHANGED redisVars

LeaseLookup(p, j) ==
  /\ j \in scans[p].check
  /\ scans[p].leaseless = {}
  /\ scans' = [scans EXCEPT ![p].check = @ \ {j},
                            ![p].leaseless = IF leases[j] = "none" THEN {j} ELSE {}]
  /\ UNCHANGED redisVars

\* Mutant: the scan finds the leaseless job and does nothing about it.
LeaseAsExpiredNever(p, j) ==
  /\ j \in scans[p].leaseless
  /\ scans' = [scans EXCEPT ![p].leaseless = {}]
  /\ UNCHANGED redisVars

\* ZADD with a time already past: the next reclaim scan returns the job.
LeaseAsExpired(p, j) ==
  /\ j \in scans[p].leaseless
  /\ scans' = [scans EXCEPT ![p].leaseless = {}]
  /\ leases' = [leases EXCEPT ![j] = "expired"]
  /\ UNCHANGED <<accepted, pending, processing, delayed>>

\* Every reply a process still holds is lost when it stops or crashes, or
\* when Redis answers a scan of its start with an error.
DropScans(p) ==
  /\ scans' = [scans EXCEPT ![p] = NoScan]
  /\ UNCHANGED redisVars

-----------------------------------------------------------------------------
(* The clock.                                                              *)

LeaseExpires(j) ==
  /\ leases[j] = "live"
  /\ leases' = [leases EXCEPT ![j] = "expired"]
  /\ UNCHANGED <<accepted, pending, processing, delayed, scans>>

DelayElapses(j) ==
  /\ delayed[j] = "waiting"
  /\ delayed' = [delayed EXCEPT ![j] = "due"]
  /\ UNCHANGED <<accepted, pending, processing, leases, scans>>

-----------------------------------------------------------------------------
(***************************************************************************)
(* The queue under any consumer: whoever has read a job keeps its payload  *)
(* and may touch, ack or defer it at any later time, whoever holds it now. *)
(***************************************************************************)
ConsumerStep(j) ==
  \/ Pop(j)
  \/ /\ j \in accepted
     /\ \/ SetLease(j)
        \/ AckRemove(j)
        \/ AckUnlease(j)
        \/ Defer(j)

ScanStep(p) ==
  \/ ReclaimScan(p)
  \/ \E j \in Job : ReclaimOne(p, j)
  \/ PromoteScan(p)
  \/ \E j \in Job : PromoteOne(p, j)
  \/ LeaseScan(p)
  \/ \E j \in Job : LeaseLookup(p, j)
  \/ \E j \in Job : LeaseAsExpired(p, j)
  \/ DropScans(p)

QueueNext ==
  \/ \E j \in Job : Enqueue(j) \/ ConsumerStep(j) \/ LeaseExpires(j) \/ DelayElapses(j)
  \/ \E p \in Process : ScanStep(p)

QueueSpec == QueueInit /\ [][QueueNext]_queueVars

-----------------------------------------------------------------------------
NoCopyInPending ==
  \A i, k \in 1 .. Len(pending) : pending[i] = pending[k] => i = k

(***************************************************************************)
(* Every job is stored at most once, in one of the three places: no        *)
(* interleaving of pops, acks, deferrals, reclaims and promotions of any   *)
(* number of processes copies a job, although no command but the scripts   *)
(* looks at more than one key.                                             *)
(***************************************************************************)
OneCopyAtMost ==
  /\ NoCopyInPending
  /\ \A j \in Job :
       /\ processing[j] <= 1
       /\ ~(InPending(j) /\ InProcessing(j))
       /\ ~(InPending(j) /\ InDelayed(j))
       /\ ~(InProcessing(j) /\ InDelayed(j))

(***************************************************************************)
(* A job that has left Redis never comes back: a reclaim, a promotion or a *)
(* deferral that works on an old reply finds it gone, and leaves it so.    *)
(* (Were it otherwise, an acked mail would be sent again with no crash and *)
(* no expired lease.)                                                      *)
(***************************************************************************)
GoneForGood ==
  [][\A j \in Job : j \in accepted /\ ~Stored(j) => ~Stored(j)']_queueVars

\* Only accepted jobs are stored: nothing but enqueue brings a job into Redis.
OnlyAcceptedStored == \A j \in Job : Stored(j) => j \in accepted

\* The conjunction that is inductive.
QueueInv == QueueTypeOK /\ OneCopyAtMost /\ OnlyAcceptedStored
=============================================================================
