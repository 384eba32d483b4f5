---------------------------- MODULE UpdaterProofs ----------------------------
(***************************************************************************)
(* Proofs about Updater, for any number of runs, versions, failures and    *)
(* crashes.  None of the properties is inductive: that two runs do not     *)
(* apply at once rests on who the lock names (OwnerInv), and what is true  *)
(* of tree, services and state file when nobody applies rests on what each *)
(* step of the one that does has established (TreeInv, CommitInv).         *)
(***************************************************************************)
EXTENDS Updater, FiniteSetTheorems, TLAPS

USE DEF Work, Locked

-----------------------------------------------------------------------------
(* What a step makes of the runs.                                          *)

\* One run goes on, the others stay where they are.
Moved(u, step, back) ==
  /\ run' \in [Run -> Record]
  /\ \A v \in Run : v # u => run'[v] = run[v]
  /\ run'[u].step = step /\ run'[u].back = back
  /\ run'[u].local = run[u].local /\ run'[u].target = run[u].target
  /\ run'[u].tagged = run[u].tagged

LEMMA GotoMoves ==
  ASSUME run \in [Run -> Record], NEW u \in Run, NEW step \in Step, Goto(u, step)
  PROVE  Moved(u, step, run[u].back)
<1>1. run[u] \in Record
  OBVIOUS
<1>2. run' = [run EXCEPT ![u] = [run[u] EXCEPT !.step = step]]
  BY DEF Goto
<1>3. [run[u] EXCEPT !.step = step] =
        [step |-> step, local |-> run[u].local, target |-> run[u].target,
         tagged |-> run[u].tagged, reversible |-> run[u].reversible, back |-> run[u].back]
  BY <1>1 DEF Record
<1>. QED  BY <1>1, <1>2, <1>3 DEF Moved, Record

LEMMA RecordStep ==
  ASSUME NEW r \in Record, NEW step \in Step
  PROVE  [r EXCEPT !.step = step] =
           [step |-> step, local |-> r.local, target |-> r.target,
            tagged |-> r.tagged, reversible |-> r.reversible, back |-> r.back]
BY DEF Record

LEMMA RecordBack ==
  ASSUME NEW r \in Record, NEW back \in BOOLEAN
  PROVE  [r EXCEPT !.back = back] =
           [step |-> r.step, local |-> r.local, target |-> r.target,
            tagged |-> r.tagged, reversible |-> r.reversible, back |-> back]
BY DEF Record

\* A run begins to roll back.
LEMMA RollbackMoves ==
  ASSUME run \in [Run -> Record], NEW u \in Run,
         run' = [run EXCEPT ![u] = [@ EXCEPT !.step = "resetting", !.back = TRUE]]
  PROVE  Moved(u, "resetting", TRUE)
<1>1. run[u] \in Record
  OBVIOUS
<1>2. run' = [run EXCEPT ![u] = [run[u] EXCEPT !.step = "resetting", !.back = TRUE]]
  OBVIOUS
<1>3. [run[u] EXCEPT !.step = "resetting", !.back = TRUE] =
        [[run[u] EXCEPT !.step = "resetting"] EXCEPT !.back = TRUE]
  OBVIOUS
<1> DEFINE r == [run[u] EXCEPT !.step = "resetting"]
<1>4. r = [step |-> "resetting", local |-> run[u].local, target |-> run[u].target,
           tagged |-> run[u].tagged, reversible |-> run[u].reversible, back |-> run[u].back]
  BY <1>1, RecordStep DEF Step
<1>5. r \in Record
  BY <1>1, <1>4 DEF Record, Step
<1>6. [r EXCEPT !.back = TRUE] =
        [step |-> r.step, local |-> r.local, target |-> r.target,
         tagged |-> r.tagged, reversible |-> r.reversible, back |-> TRUE]
  BY <1>5, RecordBack
<1>7. run' = [run EXCEPT ![u] = [r EXCEPT !.back = TRUE]]
  BY <1>2, <1>3
<1> HIDE DEF r
<1>8. [r EXCEPT !.back = TRUE] \in Record
  BY <1>5, <1>6 DEF Record
<1> DEFINE r2 == [r EXCEPT !.back = TRUE]
<1>9. /\ r2.step = "resetting" /\ r2.back = TRUE /\ r2.local = run[u].local
      /\ r2.target = run[u].target /\ r2.tagged = run[u].tagged /\ r2 \in Record
  BY <1>4, <1>6, <1>8
<1>10. run' = [run EXCEPT ![u] = r2]
  BY <1>7
<1> HIDE DEF r2
<1>11. run' \in [Run -> Record] /\ run'[u] = r2 /\ \A v \in Run : v # u => run'[v] = run[v]
  BY <1>9, <1>10
<1>. QED  BY <1>9, <1>11 DEF Moved

\* Every run that the restart of the panel finds is over; u is the run that
\* restarts, and goes on unless it is one of them.
Swept(u) ==
  /\ run' \in [Run -> Record]
  /\ \A v \in Run :
       /\ \/ v \in Killed /\ run'[v].step = "over"
          \/ v \notin Killed /\ v # u /\ run'[v].step = run[v].step
          \/ v \notin Killed /\ v = u /\ run'[v].step = "probing"
       /\ run'[v].back = run[v].back /\ run'[v].tagged = run[v].tagged
       /\ run'[v].local = run[v].local /\ run'[v].target = run[v].target

LEMMA RestartSweeps ==
  ASSUME run \in [Run -> Record], NEW u \in Run,
         run' = [v \in Run |-> IF v \in Killed THEN [run[v] EXCEPT !.step = "over"]
                               ELSE IF v = u THEN [run[v] EXCEPT !.step = "probing"]
                               ELSE run[v]]
  PROVE  Swept(u)
<1>1. "over" \in Step /\ "probing" \in Step
  BY DEF Step
<1>2. ASSUME NEW v \in Run
      PROVE  /\ run'[v] \in Record
             /\ \/ v \in Killed /\ run'[v].step = "over"
                \/ v \notin Killed /\ v # u /\ run'[v].step = run[v].step
                \/ v \notin Killed /\ v = u /\ run'[v].step = "probing"
             /\ run'[v].back = run[v].back /\ run'[v].tagged = run[v].tagged
             /\ run'[v].local = run[v].local /\ run'[v].target = run[v].target
  <2>1. run[v] \in Record
    OBVIOUS
  <2>2. CASE v \in Killed
    BY <1>1, <2>1, <2>2, RecordStep DEF Record
  <2>3. CASE v \notin Killed /\ v = u
    BY <1>1, <2>1, <2>3, RecordStep DEF Record
  <2>4. CASE v \notin Killed /\ v # u
    BY <2>1, <2>4
  <2>. QED  BY <2>2, <2>3, <2>4
<1>3. run' \in [Run -> Record]
  BY <1>2
<1>. QED  BY <1>2, <1>3 DEF Swept

\* The same for a deferred restart, which is no run's step.
LEMMA DeferredRestartSweeps ==
  ASSUME run \in [Run -> Record],
         run' = [v \in Run |-> IF v \in Killed THEN [run[v] EXCEPT !.step = "over"] ELSE run[v]]
  PROVE  Swept(Nobody)
<1>1. "over" \in Step
  BY DEF Step
<1>2. ASSUME NEW v \in Run
      PROVE  /\ run'[v] \in Record
             /\ \/ v \in Killed /\ run'[v].step = "over"
                \/ v \notin Killed /\ v # Nobody /\ run'[v].step = run[v].step
             /\ run'[v].back = run[v].back /\ run'[v].tagged = run[v].tagged
             /\ run'[v].local = run[v].local /\ run'[v].target = run[v].target
  <2>1. run[v] \in Record /\ v # Nobody
    BY RunAssumption
  <2>2. CASE v \in Killed
    BY <1>1, <2>1, <2>2, RecordStep DEF Record
  <2>3. CASE v \notin Killed
    BY <2>1, <2>3
  <2>. QED  BY <2>2, <2>3
<1>3. run' \in [Run -> Record]
  BY <1>2
<1>. QED  BY <1>2, <1>3 DEF Swept

-----------------------------------------------------------------------------
(* One lemma per action: it keeps the invariant.                           *)

LEMMA UpdaterInit == Init => UpdaterInv
<1> SUFFICES ASSUME Init
             PROVE  UpdaterInv
  OBVIOUS
<1>1. NewRun \in Record
  BY DEF NewRun, Record, Step
<1>2. \A u \in Run : run[u] = NewRun
  BY DEF Init
<1>3. TypeOK
  <2>1. 1 \in Version /\ 0 \in 0 .. MaxFailures /\ 0 \in 0 .. MaxCrashes
    BY BoundAssumption DEF Version
  <2>2. state \in [status : Status, previous : {0} \cup Version, target : {0} \cup Version]
    BY DEF Init, Status
  <2>3. run \in [Run -> Record] /\ base \in [Run -> {0} \cup Version]
    BY <1>1 DEF Init
  <2>. QED  BY <2>1, <2>2, <2>3 DEF Init, TypeOK
<1>4. OwnerInv /\ TreeInv /\ CheckInv /\ CommitInv
  BY <1>2 DEF Init, OwnerInv, TreeInv, CheckInv, CommitInv, Whole, Told, Some, NewRun
<1>. QED  BY <1>3, <1>4 DEF UpdaterInv

\* Two runs are at work at once only after a lock was removable.
LEMMA Alone ==
  ASSUME UpdaterInv, ~overtaken, NEW u \in Run, NEW v \in Run,
         run[u].step \in Locked, run[v].step \in Locked
  PROVE  u = v
BY DEF UpdaterInv, OwnerInv

\* Steps that only move a run, where nothing depends on the step.
LEMMA IdleMove ==
  ASSUME UpdaterInv, NEW u \in Run, NEW step \in Step, Goto(u, step),
         UNCHANGED <<remote, tracking, tree, lockVars, state, history, bounds>>,
         \/ run[u].step = "checked" /\ step \in {"over", "unlinking", "opening"}
         \/ run[u].step = "preparing" /\ step = "releasing"
         \/ run[u].step = "verifying" /\ step = "restarting"
  PROVE  UpdaterInv'
<1>1. Moved(u, step, run[u].back)
  BY GotoMoves DEF UpdaterInv, TypeOK
<1>2. /\ remote' = remote /\ tracking' = tracking /\ head' = head /\ deps' = deps
      /\ running' = running /\ restarts' = restarts /\ lock' = lock /\ stale' = stale
      /\ state' = state /\ base' = base /\ broken' = broken /\ overtaken' = overtaken
      /\ failures' = failures /\ crashes' = crashes
  BY DEF tree, lockVars, history, bounds
<1>3. TypeOK'
  BY <1>1, <1>2 DEF UpdaterInv, TypeOK, Moved
<1>4. OwnerInv'
  BY <1>1, <1>2 DEF UpdaterInv, OwnerInv, Moved
<1>5. TreeInv'
  BY <1>1, <1>2 DEF UpdaterInv, TreeInv, Whole, Some, Moved
<1>6. CheckInv'
  BY <1>1, <1>2 DEF UpdaterInv, CheckInv, Moved
<1>7. CommitInv'
  BY <1>1, <1>2 DEF UpdaterInv, CommitInv, Told, Some, Moved
<1>. QED  BY <1>3, <1>4, <1>5, <1>6, <1>7 DEF UpdaterInv

LEMMA PublishKeeps == UpdaterInv /\ Publish => UpdaterInv'
<1> SUFFICES ASSUME UpdaterInv, Publish
             PROVE  UpdaterInv'
  OBVIOUS
<1>1. /\ remote' = remote + 1 /\ remote < MaxVersion
      /\ tracking' = tracking /\ head' = head /\ deps' = deps
      /\ running' = running /\ restarts' = restarts /\ lock' = lock /\ stale' = stale
      /\ state' = state /\ run' = run /\ base' = base /\ broken' = broken /\ overtaken' = overtaken
      /\ failures' = failures /\ crashes' = crashes
  BY DEF Publish, tree, lockVars, history, bounds
<1>2. TypeOK'
  BY <1>1, BoundAssumption DEF UpdaterInv, TypeOK, Version
<1>3. OwnerInv' /\ TreeInv' /\ CommitInv'
  BY <1>1 DEF UpdaterInv, OwnerInv, TreeInv, CommitInv, Whole, Told, Some
<1>4. CheckInv'
  BY <1>1, BoundAssumption DEF UpdaterInv, TypeOK, Version, CheckInv
<1>. QED  BY <1>2, <1>3, <1>4 DEF UpdaterInv

LEMMA CheckKeeps ==
  ASSUME UpdaterInv, NEW u \in Run, Check(u)
  PROVE  UpdaterInv'
<1>1. PICK tagged \in BOOLEAN, reversible \in BOOLEAN, target \in 1 .. remote :
        /\ tagged \/ target = remote
        /\ run' = [run EXCEPT ![u] =
                     [step |-> IF target = head THEN "over" ELSE "checked",
                      local |-> head, target |-> target,
                      tagged |-> tagged, reversible |-> reversible, back |-> FALSE]]
  BY DEF Check
<1>2. /\ run[u].step = "new" /\ remote' = remote /\ tracking' = remote
      /\ head' = head /\ deps' = deps
      /\ running' = running /\ restarts' = restarts /\ lock' = lock /\ stale' = stale
      /\ state' = state /\ base' = base /\ broken' = broken /\ overtaken' = overtaken
      /\ failures' = failures /\ crashes' = crashes
  BY DEF Check, tree, lockVars, history, bounds
<1> DEFINE new == [step |-> IF target = head THEN "over" ELSE "checked",
                   local |-> head, target |-> target,
                   tagged |-> tagged, reversible |-> reversible, back |-> FALSE]
<1>3. remote \in Nat /\ tracking \in Nat /\ target \in Version /\ head \in Version
  <2>1. remote \in Version /\ tracking \in Version /\ head \in Version
    BY DEF UpdaterInv, TypeOK
  <2>. QED  BY <2>1, BoundAssumption DEF Version
<1>4. new \in Record
  BY <1>3 DEF Record, Step
<1>5. run' = [run EXCEPT ![u] = new]
  BY <1>1
<1>6. /\ new.step \in {"over", "checked"} /\ ~new.back /\ new.local = head
      /\ new.tagged \/ new.target = remote
  BY <1>1
<1> HIDE DEF new
<1>7. run' \in [Run -> Record] /\ run'[u] = new /\ \A v \in Run : v # u => run'[v] = run[v]
  BY <1>4, <1>5 DEF UpdaterInv, TypeOK
<1>8. TypeOK'
  BY <1>2, <1>3, <1>7 DEF UpdaterInv, TypeOK
<1>9. OwnerInv'
  BY <1>2, <1>6, <1>7 DEF UpdaterInv, OwnerInv
<1>10. TreeInv'
  BY <1>2, <1>6, <1>7 DEF UpdaterInv, TreeInv, Whole, Some
<1>11. CheckInv'
  <2>1. tracking <= remote /\ tracking' <= remote'
    BY <1>2, <1>3 DEF UpdaterInv, CheckInv
  <2>2. ASSUME NEW v \in Run
        PROVE  /\ run'[v].step # "new" =>
                    run'[v].local \in Version /\ (run'[v].tagged \/ run'[v].target <= tracking')
               /\ run'[v].step \in {"checked", "unlinking", "opening", "preparing", "merging"}
                    => ~run'[v].back
               /\ run'[v].step = "resetting" => run'[v].back
    <3>1. CASE v = u
      BY <1>2, <1>3, <1>6, <1>7, <3>1
    <3>2. CASE v # u
      <4>1. run[v].target \in Nat /\ run'[v] = run[v]
        BY <1>7, <3>2 DEF UpdaterInv, TypeOK, Record, Version
      <4>. QED  BY <1>2, <1>3, <2>1, <4>1 DEF UpdaterInv, CheckInv
    <3>. QED  BY <3>1, <3>2
  <2>. QED  BY <2>1, <2>2 DEF CheckInv
<1>12. CommitInv'
  BY <1>2, <1>6, <1>7 DEF UpdaterInv, CommitInv, Told, Some
<1>. QED  BY <1>8, <1>9, <1>10, <1>11, <1>12 DEF UpdaterInv

LEMMA UnlinkKeeps ==
  ASSUME UpdaterInv, NEW u \in Run, UnlinkLock(u)
  PROVE  UpdaterInv'
<1>1. Moved(u, "opening", run[u].back)
  BY GotoMoves DEF UpdaterInv, TypeOK, UnlinkLock, Step
<1>2. /\ run[u].step = "unlinking" /\ lock' = Nobody /\ stale' = FALSE
      /\ overtaken' = (overtaken \/ (lock # Nobody /\ ~stale))
      /\ remote' = remote /\ tracking' = tracking /\ head' = head /\ deps' = deps
      /\ running' = running /\ restarts' = restarts
      /\ state' = state /\ base' = base /\ broken' = broken
      /\ failures' = failures /\ crashes' = crashes
  BY DEF UnlinkLock, tree, bounds
<1>3. TypeOK'
  BY <1>1, <1>2 DEF UpdaterInv, TypeOK, Moved
<1>4. ~overtaken' => \A v \in Run : run[v].step \notin Locked
  <2> SUFFICES ASSUME ~overtaken', NEW v \in Run, run[v].step \in Locked
               PROVE  FALSE
    OBVIOUS
  <2>1. lock = v /\ ~stale
    BY <1>2 DEF UpdaterInv, OwnerInv
  <2>. QED  BY <1>2, <2>1, RunAssumption
<1>5. OwnerInv'
  BY <1>1, <1>2, <1>4 DEF OwnerInv, Moved
<1>6. TreeInv'
  BY <1>1, <1>2 DEF UpdaterInv, TreeInv, Whole, Some, Moved
<1>7. CheckInv'
  BY <1>1, <1>2 DEF UpdaterInv, CheckInv, Moved
<1>8. CommitInv'
  BY <1>1, <1>2 DEF UpdaterInv, CommitInv, Told, Some, Moved
<1>. QED  BY <1>3, <1>5, <1>6, <1>7, <1>8 DEF UpdaterInv

LEMMA OpenKeeps ==
  ASSUME UpdaterInv, NEW u \in Run, OpenLock(u)
  PROVE  UpdaterInv'
<1>1. /\ run[u].step = "opening"
      /\ remote' = remote /\ tracking' = tracking /\ head' = head /\ deps' = deps
      /\ running' = running /\ restarts' = restarts
      /\ state' = state /\ broken' = broken /\ overtaken' = overtaken
      /\ failures' = failures /\ crashes' = crashes
  BY DEF OpenLock, tree, bounds
<1>2. PICK step \in {"preparing", "over"} :
        /\ Moved(u, step, run[u].back)
        /\ \/ step = "preparing" /\ lock = Nobody /\ lock' = u /\ stale' = FALSE
                /\ base' = [base EXCEPT ![u] = head]
           \/ step = "over" /\ lock' = lock /\ stale' = stale /\ base' = base
  <2>1. CASE lock = Nobody
    BY <2>1, GotoMoves DEF UpdaterInv, TypeOK, OpenLock, Step
  <2>2. CASE lock # Nobody
    BY <2>2, GotoMoves DEF UpdaterInv, TypeOK, OpenLock, Step, lockVars
  <2>. QED  BY <2>1, <2>2
<1>3. base' \in [Run -> {0} \cup Version]
  BY <1>2 DEF UpdaterInv, TypeOK
<1>4. TypeOK'
  BY <1>1, <1>2, <1>3 DEF UpdaterInv, TypeOK, Moved
<1>5. OwnerInv'
  BY <1>1, <1>2, RunAssumption DEF UpdaterInv, OwnerInv, Moved
<1>6. TreeInv'
  BY <1>1, <1>2 DEF UpdaterInv, TreeInv, Whole, Some, Moved
<1>7. CheckInv'
  BY <1>1, <1>2 DEF UpdaterInv, CheckInv, Moved
<1>8. CommitInv'
  BY <1>1, <1>2 DEF UpdaterInv, CommitInv, Told, Some, Moved
<1>. QED  BY <1>4, <1>5, <1>6, <1>7, <1>8 DEF UpdaterInv

LEMMA ReleaseKeeps ==
  ASSUME UpdaterInv, NEW u \in Run, ReleaseLock(u)
  PROVE  UpdaterInv'
<1>1. Moved(u, "over", run[u].back)
  BY GotoMoves DEF UpdaterInv, TypeOK, ReleaseLock, Step
<1>2. /\ run[u].step = "releasing" /\ lock' = Nobody /\ stale' = FALSE
      /\ remote' = remote /\ tracking' = tracking /\ head' = head /\ deps' = deps
      /\ running' = running /\ restarts' = restarts
      /\ state' = state /\ base' = base /\ broken' = broken /\ overtaken' = overtaken
      /\ failures' = failures /\ crashes' = crashes
  BY DEF ReleaseLock, tree, history, bounds
<1>3. TypeOK'
  BY <1>1, <1>2 DEF UpdaterInv, TypeOK, Moved
<1>4. OwnerInv'
  BY <1>1, <1>2, Alone DEF OwnerInv, Moved
<1>5. TreeInv'
  BY <1>1, <1>2 DEF UpdaterInv, TreeInv, Whole, Some, Moved
<1>6. CheckInv'
  BY <1>1, <1>2 DEF UpdaterInv, CheckInv, Moved
<1>7. CommitInv'
  BY <1>1, <1>2 DEF UpdaterInv, CommitInv, Told, Some, Moved
<1>. QED  BY <1>3, <1>4, <1>5, <1>6, <1>7 DEF UpdaterInv

LEMMA AgeKeeps == UpdaterInv /\ LockAges => UpdaterInv'
<1> SUFFICES ASSUME UpdaterInv, LockAges
             PROVE  UpdaterInv'
  OBVIOUS
<1>1. /\ stale' = TRUE /\ lock' = lock
      /\ overtaken' = (overtaken \/ lock \in {u \in Run : run[u].step \in Locked})
      /\ remote' = remote /\ tracking' = tracking /\ head' = head /\ deps' = deps
      /\ running' = running /\ restarts' = restarts /\ run' = run
      /\ state' = state /\ base' = base /\ broken' = broken
      /\ failures' = failures /\ crashes' = crashes
  BY DEF LockAges, tree, bounds
<1>2. TypeOK'
  BY <1>1 DEF UpdaterInv, TypeOK
<1>3. OwnerInv'
  BY <1>1 DEF UpdaterInv, OwnerInv
<1>4. TreeInv' /\ CheckInv' /\ CommitInv'
  BY <1>1 DEF UpdaterInv, TreeInv, CheckInv, CommitInv, Whole, Told, Some
<1>. QED  BY <1>2, <1>3, <1>4 DEF UpdaterInv

-----------------------------------------------------------------------------
(* The steps under the lock.                                               *)

\* What WriteState writes is a record of the state file.
LEMMA StateType ==
  ASSUME UpdaterInv, NEW u \in Run, NEW status \in Status, WriteState(u, status)
  PROVE  /\ state' \in [status : Status, previous : {0} \cup Version, target : {0} \cup Version]
         /\ state'.status = status /\ state'.previous = run[u].local
         /\ state'.target = run[u].target
<1>1. run[u] \in Record
  BY DEF UpdaterInv, TypeOK
<1>. QED  BY <1>1 DEF WriteState, Record

LEMMA PrepareKeeps ==
  ASSUME UpdaterInv, NEW u \in Run, Prepare(u)
  PROVE  UpdaterInv'
<1>1. Moved(u, "merging", run[u].back)
  BY GotoMoves DEF UpdaterInv, TypeOK, Prepare, Step
<1>2. /\ run[u].step = "preparing" /\ lock' = lock /\ stale' = stale
      /\ remote' = remote /\ tracking' = tracking /\ head' = head /\ deps' = deps
      /\ running' = running /\ restarts' = restarts
      /\ base' = base /\ broken' = broken /\ overtaken' = overtaken
      /\ failures' = failures /\ crashes' = crashes
  BY DEF Prepare, tree, lockVars, history, bounds
<1>3. state' \in [status : Status, previous : {0} \cup Version, target : {0} \cup Version]
  BY StateType DEF Prepare, Status
<1>4. TypeOK'
  BY <1>1, <1>2, <1>3 DEF UpdaterInv, TypeOK, Moved
<1>5. OwnerInv'
  BY <1>1, <1>2 DEF UpdaterInv, OwnerInv, Moved
<1>6. TreeInv'
  BY <1>1, <1>2 DEF UpdaterInv, TreeInv, Whole, Some, Moved
<1>7. CheckInv'
  BY <1>1, <1>2 DEF UpdaterInv, CheckInv, Moved
<1>8. CommitInv'
  BY <1>1, <1>2 DEF UpdaterInv, CommitInv, Some, Moved
<1>. QED  BY <1>4, <1>5, <1>6, <1>7, <1>8 DEF UpdaterInv

LEMMA MergeKeeps ==
  ASSUME UpdaterInv, NEW u \in Run, Merge(u)
  PROVE  UpdaterInv'
<1> DEFINE commit == IF run[u].tagged THEN run[u].target ELSE tracking
<1>1. Moved(u, "installing", run[u].back)
  BY GotoMoves DEF UpdaterInv, TypeOK, Merge, Step
<1>2. /\ run[u].step = "merging" /\ lock' = lock /\ stale' = stale
      /\ head' = IF commit > head THEN commit ELSE head
      /\ remote' = remote /\ tracking' = tracking /\ deps' = deps
      /\ running' = running /\ restarts' = restarts
      /\ state' = state /\ base' = base /\ broken' = broken /\ overtaken' = overtaken
      /\ failures' = failures /\ crashes' = crashes
  BY DEF Merge, lockVars, history, bounds
<1>3. /\ run[u] \in Record /\ tracking \in Version /\ head \in Version
      /\ run[u].tagged \/ run[u].target <= tracking
      /\ ~run[u].back
  BY <1>2 DEF UpdaterInv, TypeOK, CheckInv
<1>4. head' \in Version /\ head' >= run[u].target
  BY <1>2, <1>3, BoundAssumption DEF Record, Version
<1>5. TypeOK'
  BY <1>1, <1>2, <1>4 DEF UpdaterInv, TypeOK, Moved
<1>6. OwnerInv'
  BY <1>1, <1>2 DEF UpdaterInv, OwnerInv, Moved
<1>7. ~overtaken => \A v \in Run : v # u => run'[v].step \notin Locked
  BY <1>1, <1>2, Alone DEF Moved
<1>8. TreeInv'
  BY <1>1, <1>2, <1>7 DEF TreeInv, Some, Moved
<1>9. CheckInv'
  BY <1>1, <1>2 DEF UpdaterInv, CheckInv, Moved
<1>10. CommitInv'
  BY <1>1, <1>2, <1>3, <1>4, <1>7 DEF CommitInv, Some, Moved
<1>. QED  BY <1>5, <1>6, <1>8, <1>9, <1>10 DEF UpdaterInv

LEMMA MergeFailsKeeps ==
  ASSUME UpdaterInv, NEW u \in Run, MergeFails(u)
  PROVE  UpdaterInv'
<1>1. Moved(u, "releasing", run[u].back)
  BY GotoMoves DEF UpdaterInv, TypeOK, MergeFails, Step
<1>2. /\ run[u].step = "merging" /\ lock' = lock /\ stale' = stale
      /\ remote' = remote /\ tracking' = tracking /\ head' = head /\ deps' = deps
      /\ running' = running /\ restarts' = restarts
      /\ base' = base /\ broken' = broken /\ overtaken' = overtaken
      /\ failures < MaxFailures /\ failures' = failures + 1 /\ crashes' = crashes
  BY DEF MergeFails, Failure, tree, lockVars, history
<1>3. /\ state' \in [status : Status, previous : {0} \cup Version, target : {0} \cup Version]
      /\ state'.status = "failed"
  BY StateType DEF MergeFails, Status
<1>4. failures' \in 0 .. MaxFailures
  BY <1>2, BoundAssumption DEF UpdaterInv, TypeOK
<1>5. TypeOK'
  BY <1>1, <1>2, <1>3, <1>4 DEF UpdaterInv, TypeOK, Moved
<1>6. OwnerInv'
  BY <1>1, <1>2 DEF UpdaterInv, OwnerInv, Moved
<1>7. TreeInv'
  BY <1>1, <1>2 DEF UpdaterInv, TreeInv, Whole, Some, Moved
<1>8. CheckInv'
  BY <1>1, <1>2 DEF UpdaterInv, CheckInv, Moved
<1>9. CommitInv'
  BY <1>1, <1>2, <1>3 DEF UpdaterInv, CommitInv, Told, Some, Moved
<1>. QED  BY <1>5, <1>6, <1>7, <1>8, <1>9 DEF UpdaterInv

LEMMA InstallKeeps ==
  ASSUME UpdaterInv, NEW u \in Run, Install(u)
  PROVE  UpdaterInv'
<1>1. Moved(u, "verifying", run[u].back)
  BY GotoMoves DEF UpdaterInv, TypeOK, Install, Step
<1>2. /\ run[u].step = "installing" /\ lock' = lock /\ stale' = stale
      /\ remote' = remote /\ tracking' = tracking /\ head' = head /\ deps' = head
      /\ running' = running /\ restarts' = restarts
      /\ state' = state /\ base' = base /\ broken' = broken /\ overtaken' = overtaken
      /\ failures' = failures /\ crashes' = crashes
  BY DEF Install, lockVars, history, bounds
<1>3. TypeOK'
  BY <1>1, <1>2 DEF UpdaterInv, TypeOK, Moved
<1>4. OwnerInv'
  BY <1>1, <1>2 DEF UpdaterInv, OwnerInv, Moved
<1>5. ~overtaken => \A v \in Run : v # u => run'[v].step \notin Locked
  BY <1>1, <1>2, Alone DEF Moved
<1>6. TreeInv'
  BY <1>1, <1>2, <1>5 DEF TreeInv, Some, Moved
<1>7. CheckInv'
  BY <1>1, <1>2 DEF UpdaterInv, CheckInv, Moved
<1>8. CommitInv'
  BY <1>1, <1>2 DEF UpdaterInv, CommitInv, Some, Moved
<1>. QED  BY <1>3, <1>4, <1>6, <1>7, <1>8 DEF UpdaterInv

LEMMA ResetKeeps ==
  ASSUME UpdaterInv, NEW u \in Run, Reset(u)
  PROVE  UpdaterInv'
<1>1. Moved(u, "installing", run[u].back)
  BY GotoMoves DEF UpdaterInv, TypeOK, Reset, Step
<1>2. /\ run[u].step = "resetting" /\ run[u].back /\ run[u].local \in Version
      /\ lock' = lock /\ stale' = stale
      /\ remote' = remote /\ tracking' = tracking /\ head' = run[u].local /\ deps' = deps
      /\ running' = running /\ restarts' = restarts
      /\ state' = state /\ base' = base /\ broken' = broken /\ overtaken' = overtaken
      /\ failures' = failures /\ crashes' = crashes
  BY DEF Reset, UpdaterInv, CheckInv, lockVars, history, bounds
<1>3. TypeOK'
  BY <1>1, <1>2 DEF UpdaterInv, TypeOK, Moved
<1>4. OwnerInv'
  BY <1>1, <1>2 DEF UpdaterInv, OwnerInv, Moved
<1>5. ~overtaken => \A v \in Run : v # u => run'[v].step \notin Locked
  BY <1>1, <1>2, Alone DEF Moved
<1>6. TreeInv'
  BY <1>1, <1>2, <1>5 DEF TreeInv, Some, Moved
<1>7. CheckInv'
  BY <1>1, <1>2 DEF UpdaterInv, CheckInv, Moved
<1>8. CommitInv'
  BY <1>1, <1>2, <1>5 DEF CommitInv, Some, Moved
<1>. QED  BY <1>3, <1>4, <1>6, <1>7, <1>8 DEF UpdaterInv

\* A restart changes nothing of what the runs have checked.
LEMMA SweptChecks ==
  ASSUME CheckInv, NEW u, Swept(u), u \in Run => run[u].step = "restarting",
         tracking' = tracking, remote' = remote
  PROVE  CheckInv'
<1>1. ASSUME NEW v \in Run
      PROVE  /\ run'[v].step # "new" =>
                  run'[v].local \in Version /\ (run'[v].tagged \/ run'[v].target <= tracking)
             /\ run'[v].step \in {"checked", "unlinking", "opening", "preparing", "merging"}
                  => ~run'[v].back
             /\ run'[v].step = "resetting" => run'[v].back
  <2>1. /\ run[v].step # "new" =>
             run[v].local \in Version /\ (run[v].tagged \/ run[v].target <= tracking)
        /\ run[v].step \in {"checked", "unlinking", "opening", "preparing", "merging"}
             => ~run[v].back
        /\ run[v].step = "resetting" => run[v].back
    BY DEF CheckInv
  <2>2. /\ run'[v].back = run[v].back /\ run'[v].tagged = run[v].tagged
        /\ run'[v].local = run[v].local /\ run'[v].target = run[v].target
        /\ \/ run[v].step # "new" /\ run'[v].step \in {"over", "probing"}
           \/ run'[v].step = run[v].step
    BY DEF Swept, Killed
  <2>. QED  BY <2>1, <2>2
<1>. QED  BY <1>1 DEF CheckInv

\* A restart that is deferred is only noted; one at once takes down the panel.
LEMMA RestartKeeps ==
  ASSUME UpdaterInv, NEW u \in Run, Restart(u)
  PROVE  UpdaterInv'
<1>1. /\ run[u].step = "restarting" /\ lock' = lock /\ stale' = stale
      /\ remote' = remote /\ tracking' = tracking /\ head' = head /\ deps' = deps
      /\ state' = state /\ base' = base /\ overtaken' = overtaken
      /\ failures' = failures /\ crashes' = crashes
  BY DEF Restart, lockVars, bounds
<1>2. ~overtaken => deps = head
  BY <1>1 DEF UpdaterInv, TreeInv, Some
<1>3. CASE u \in Web
  <2>1. /\ Moved(u, "probing", run[u].back)
        /\ restarts' = TRUE /\ running' = running /\ broken' = broken
    BY <1>3, GotoMoves DEF UpdaterInv, TypeOK, Restart, Step
  <2>2. TypeOK'
    BY <1>1, <2>1 DEF UpdaterInv, TypeOK, Moved
  <2>3. OwnerInv'
    BY <1>1, <2>1 DEF UpdaterInv, OwnerInv, Moved
  <2>4. TreeInv'
    BY <1>1, <1>2, <2>1 DEF TreeInv, Whole, Some, Moved
  <2>5. CheckInv'
    BY <1>1, <2>1 DEF UpdaterInv, CheckInv, Moved
  <2>6. CommitInv'
    BY <1>1, <2>1 DEF UpdaterInv, CommitInv, Some, Moved
  <2>. QED  BY <2>2, <2>3, <2>4, <2>5, <2>6 DEF UpdaterInv
<1>4. CASE u \notin Web
  <2>1. /\ Swept(u) /\ u \notin Killed
        /\ restarts' \in {FALSE, restarts} /\ running' = head
        /\ broken' = (broken \/ HalfDone(Killed))
    BY <1>4, RestartSweeps DEF UpdaterInv, TypeOK, Restart, Killed
  <2>2. restarts' \in BOOLEAN /\ broken' \in BOOLEAN
    BY <2>1 DEF UpdaterInv, TypeOK, HalfDone
  <2>3. TypeOK'
    BY <1>1, <2>1, <2>2 DEF UpdaterInv, TypeOK, Swept
  <2>4. \A v \in Run : run'[v].step \in Locked => run[v].step \in Locked
    BY <1>1, <2>1 DEF Swept
  <2>5. OwnerInv'
    BY <1>1, <2>4 DEF UpdaterInv, OwnerInv
  <2>6. TreeInv'
    BY <1>1, <1>2, <2>1 DEF TreeInv, Whole
  <2>7. CheckInv'
    BY <1>1, <2>1, SweptChecks DEF UpdaterInv
  <2>8. CommitInv'
    BY <1>1, <2>1 DEF UpdaterInv, CommitInv, Some, Swept
  <2>. QED  BY <2>3, <2>5, <2>6, <2>7, <2>8 DEF UpdaterInv
<1>. QED  BY <1>3, <1>4

LEMMA DeferredRestartKeeps == UpdaterInv /\ DeferredRestart => UpdaterInv'
<1> SUFFICES ASSUME UpdaterInv, DeferredRestart
             PROVE  UpdaterInv'
  OBVIOUS
<1>1. /\ restarts' = FALSE /\ running' = head /\ lock' = lock /\ stale' = stale
      /\ remote' = remote /\ tracking' = tracking /\ head' = head /\ deps' = deps
      /\ state' = state /\ base' = base /\ overtaken' = overtaken
      /\ broken' = (broken \/ HalfDone(Killed))
      /\ failures' = failures /\ crashes' = crashes
  BY DEF DeferredRestart, lockVars, bounds
<1>2. Swept(Nobody)
  BY DeferredRestartSweeps DEF UpdaterInv, TypeOK, DeferredRestart
<1>3. broken' \in BOOLEAN
  BY <1>1 DEF UpdaterInv, TypeOK, HalfDone
<1>4. TypeOK'
  BY <1>1, <1>2, <1>3 DEF UpdaterInv, TypeOK, Swept
<1>5. \A v \in Run : run'[v].step = "over" \/ run'[v].step = run[v].step
  BY <1>2, RunAssumption DEF Swept
<1>6. ~broken' => ~broken /\ \A v \in Run : run[v].step \in Work => run'[v].step = run[v].step
  BY <1>1, <1>2, RunAssumption DEF Swept, HalfDone
<1>7. OwnerInv'
  BY <1>1, <1>5 DEF UpdaterInv, OwnerInv
<1>8. TreeInv'
  BY <1>1, <1>5, <1>6 DEF UpdaterInv, TreeInv, Whole, Some
<1>9. CheckInv'
  BY <1>1, <1>2, RunAssumption, SweptChecks DEF UpdaterInv
<1>10. CommitInv'
  BY <1>1, <1>2, <1>5, <1>6 DEF UpdaterInv, CommitInv, Told, Some, Swept
<1>. QED  BY <1>4, <1>7, <1>8, <1>9, <1>10 DEF UpdaterInv

\* The report, which may also end what an earlier run had left half done.
LEMMA ReportKeeps ==
  ASSUME UpdaterInv, NEW u \in Run, Report(u)
  PROVE  UpdaterInv'
<1>1. Moved(u, "releasing", run[u].back)
  BY GotoMoves DEF UpdaterInv, TypeOK, Report, Step
<1>2. /\ run[u].step = "probing" /\ lock' = lock /\ stale' = stale
      /\ remote' = remote /\ tracking' = tracking /\ head' = head /\ deps' = deps
      /\ running' = running /\ restarts' = restarts
      /\ base' = base /\ broken' = (broken /\ overtaken) /\ overtaken' = overtaken
      /\ failures' = failures /\ crashes' = crashes
  BY DEF Report, tree, lockVars, bounds
<1>3. /\ state' \in [status : Status, previous : {0} \cup Version, target : {0} \cup Version]
      /\ state'.status = IF run[u].back THEN "rolled_back" ELSE "success"
      /\ state'.previous = run[u].local /\ state'.target = run[u].target
  <2>1. CASE run[u].back
    BY <2>1, StateType DEF Report, Status
  <2>2. CASE ~run[u].back
    BY <2>2, StateType DEF Report, Status
  <2>. QED  BY <2>1, <2>2
<1>4. TypeOK'
  BY <1>1, <1>2, <1>3 DEF UpdaterInv, TypeOK, Moved
<1>5. OwnerInv'
  BY <1>1, <1>2 DEF UpdaterInv, OwnerInv, Moved
<1>6. ~overtaken => Whole
  BY <1>2 DEF UpdaterInv, TreeInv, Some
<1>7. ~overtaken => \A v \in Run : v # u => run'[v].step \notin Locked
  BY <1>1, <1>2, Alone DEF Moved
<1>8. TreeInv'
  BY <1>1, <1>2, <1>6, <1>7 DEF TreeInv, Whole, Some, Moved
<1>9. CheckInv'
  BY <1>1, <1>2 DEF UpdaterInv, CheckInv, Moved
<1>10. ~overtaken => Told'
  BY <1>2, <1>3 DEF UpdaterInv, CommitInv, Told
<1>11. CommitInv'
  BY <1>1, <1>2, <1>7, <1>10 DEF CommitInv, Moved
<1>. QED  BY <1>4, <1>5, <1>8, <1>9, <1>11 DEF UpdaterInv

\* A failing step leads to the roll back, or leaves the update half done.
LEMMA StepFailsKeeps ==
  ASSUME UpdaterInv, NEW u \in Run, StepFails(u)
  PROVE  UpdaterInv'
<1>1. /\ run[u].step \in {"installing", "verifying", "restarting", "probing"}
      /\ lock' = lock /\ stale' = stale
      /\ remote' = remote /\ tracking' = tracking /\ head' = head
      /\ deps' \in {0, deps} /\ running' \in {0, head, running} /\ restarts' = restarts
      /\ base' = base /\ overtaken' = overtaken
      /\ failures < MaxFailures /\ failures' = failures + 1 /\ crashes' = crashes
  BY DEF StepFails, Failure, lockVars
<1>2. \/ /\ Moved(u, "releasing", run[u].back) /\ broken' = TRUE
         /\ \E status \in Status : WriteState(u, status)
      \/ Moved(u, "resetting", TRUE) /\ state' = state /\ broken' = broken
  <2>1. CASE run[u].back
    BY <2>1, GotoMoves DEF StepFails, AbandonRollback, UpdaterInv, TypeOK, Step, Status
  <2>2. CASE ~run[u].back /\ ~run[u].reversible
    BY <2>2, GotoMoves DEF StepFails, Abandon, UpdaterInv, TypeOK, Step, Status
  <2>3. CASE ~run[u].back /\ run[u].reversible
    BY <2>3, RollbackMoves DEF StepFails, Abandon, UpdaterInv, TypeOK
  <2>. QED  BY <2>1, <2>2, <2>3
<1>3. state' \in [status : Status, previous : {0} \cup Version, target : {0} \cup Version]
  BY <1>2, StateType DEF UpdaterInv, TypeOK
<1>4. failures' \in 0 .. MaxFailures
  BY <1>1, BoundAssumption DEF UpdaterInv, TypeOK
<1>5. TypeOK'
  BY <1>1, <1>2, <1>3, <1>4 DEF UpdaterInv, TypeOK, Moved
<1>6. OwnerInv'
  BY <1>1, <1>2 DEF UpdaterInv, OwnerInv, Moved
<1>7. ~overtaken => \A v \in Run : v # u => run'[v].step \notin Locked
  BY <1>1, <1>2, Alone DEF Moved
<1>8. TreeInv'
  BY <1>1, <1>2, <1>7 DEF TreeInv, Some, Moved
<1>9. CheckInv'
  BY <1>1, <1>2 DEF UpdaterInv, CheckInv, Moved
<1>10. CommitInv'
  BY <1>1, <1>2, <1>7 DEF CommitInv, Some, Moved
<1>. QED  BY <1>5, <1>6, <1>8, <1>9, <1>10 DEF UpdaterInv

LEMMA ResetFailsKeeps ==
  ASSUME UpdaterInv, NEW u \in Run, ResetFails(u)
  PROVE  UpdaterInv'
<1>1. Moved(u, "releasing", run[u].back)
  BY GotoMoves DEF UpdaterInv, TypeOK, ResetFails, Step
<1>2. /\ run[u].step = "resetting" /\ lock' = lock /\ stale' = stale
      /\ remote' = remote /\ tracking' = tracking /\ head' = head /\ deps' = deps
      /\ running' = running /\ restarts' = restarts
      /\ state' = state /\ base' = base /\ broken' = TRUE /\ overtaken' = overtaken
      /\ failures < MaxFailures /\ failures' = failures + 1 /\ crashes' = crashes
  BY DEF ResetFails, Failure, tree, lockVars
<1>3. failures' \in 0 .. MaxFailures
  BY <1>2, BoundAssumption DEF UpdaterInv, TypeOK
<1>4. TypeOK'
  BY <1>1, <1>2, <1>3 DEF UpdaterInv, TypeOK, Moved
<1>5. OwnerInv'
  BY <1>1, <1>2 DEF UpdaterInv, OwnerInv, Moved
<1>6. TreeInv'
  BY <1>1, <1>2 DEF UpdaterInv, TreeInv, Whole, Some, Moved
<1>7. CheckInv'
  BY <1>1, <1>2 DEF UpdaterInv, CheckInv, Moved
<1>8. CommitInv'
  BY <1>1, <1>2 DEF UpdaterInv, CommitInv, Moved
<1>. QED  BY <1>4, <1>5, <1>6, <1>7, <1>8 DEF UpdaterInv

LEMMA CrashKeeps ==
  ASSUME UpdaterInv, NEW u \in Run, Crash(u)
  PROVE  UpdaterInv'
<1>1. Moved(u, "over", run[u].back)
  BY GotoMoves DEF UpdaterInv, TypeOK, Crash, Step
<1>2. /\ run[u].step \notin {"new", "over"} /\ lock' = lock /\ stale' = stale
      /\ remote' = remote /\ tracking' = tracking /\ head' = head
      /\ deps' \in {0, deps} /\ (run[u].step # "installing" => deps' = deps)
      /\ running' = running /\ restarts' = restarts
      /\ state' = state /\ base' = base /\ overtaken' = overtaken
      /\ broken' = (broken \/ run[u].step \in Work)
      /\ failures' = failures /\ crashes < MaxCrashes /\ crashes' = crashes + 1
  BY DEF Crash, lockVars
<1>3. crashes' \in 0 .. MaxCrashes /\ broken' \in BOOLEAN
  BY <1>2, BoundAssumption DEF UpdaterInv, TypeOK
<1>4. TypeOK'
  BY <1>1, <1>2, <1>3 DEF UpdaterInv, TypeOK, Moved
<1>5. OwnerInv'
  BY <1>1, <1>2 DEF UpdaterInv, OwnerInv, Moved
<1>6. ~overtaken /\ run[u].step \in Locked => \A v \in Run : v # u => run'[v].step \notin Locked
  BY <1>1, Alone DEF Moved
<1>7. TreeInv'
  <2>1. CASE run[u].step = "installing"
    BY <1>1, <1>2, <1>6, <2>1 DEF TreeInv, Some, Moved
  <2>2. CASE run[u].step # "installing"
    BY <1>1, <1>2, <2>2 DEF UpdaterInv, TreeInv, Whole, Some, Moved
  <2>. QED  BY <2>1, <2>2
<1>8. CheckInv'
  BY <1>1, <1>2 DEF UpdaterInv, CheckInv, Moved
<1>9. CommitInv'
  BY <1>1, <1>2 DEF UpdaterInv, CommitInv, Told, Some, Moved
<1>. QED  BY <1>4, <1>5, <1>7, <1>8, <1>9 DEF UpdaterInv

-----------------------------------------------------------------------------
LEMMA StutterKeeps == UpdaterInv /\ UNCHANGED vars => UpdaterInv'
<1> SUFFICES ASSUME UpdaterInv, UNCHANGED vars
             PROVE  UpdaterInv'
  OBVIOUS
<1>1. /\ remote' = remote /\ tracking' = tracking /\ head' = head /\ deps' = deps
      /\ running' = running /\ restarts' = restarts /\ lock' = lock /\ stale' = stale
      /\ state' = state /\ run' = run /\ base' = base /\ broken' = broken
      /\ overtaken' = overtaken /\ failures' = failures /\ crashes' = crashes
  BY DEF vars, tree, lockVars, history, bounds
<1>. QED
  BY <1>1 DEF UpdaterInv, TypeOK, OwnerInv, TreeInv, CheckInv, CommitInv, Whole, Told, Some

LEMMA UpdaterStep == UpdaterInv /\ [Next]_vars => UpdaterInv'
<1> SUFFICES ASSUME UpdaterInv, [Next]_vars
             PROVE  UpdaterInv'
  OBVIOUS
<1>1. CASE Publish
  BY <1>1, PublishKeeps
<1>2. CASE LockAges
  BY <1>2, AgeKeeps
<1>3. CASE DeferredRestart
  BY <1>3, DeferredRestartKeeps
<1>4. ASSUME NEW u \in Run, Check(u) \/ Decline(u)
      PROVE  UpdaterInv'
  BY <1>4, CheckKeeps, IdleMove DEF Decline, Step
<1>5. ASSUME NEW u \in Run, Advance(u)
      PROVE  UpdaterInv'
  <2>1. CASE StatLock(u)
    BY <2>1, IdleMove DEF StatLock, Step
  <2>2. CASE UnlinkLock(u) \/ OpenLock(u) \/ ReleaseLock(u)
    BY <2>2, UnlinkKeeps, OpenKeeps, ReleaseKeeps
  <2>3. CASE PrepareFails(u)
    BY <2>3, IdleMove DEF PrepareFails, Step
  <2>4. CASE Verify(u)
    BY <2>4, IdleMove DEF Verify, Step
  <2>5. CASE Prepare(u) \/ Merge(u) \/ Install(u)
    BY <2>5, PrepareKeeps, MergeKeeps, InstallKeeps
  <2>6. CASE Restart(u) \/ Report(u) \/ Reset(u)
    BY <2>6, RestartKeeps, ReportKeeps, ResetKeeps
  <2>. QED  BY <1>5, <2>1, <2>2, <2>3, <2>4, <2>5, <2>6 DEF Advance
<1>6. ASSUME NEW u \in Run, MergeFails(u) \/ StepFails(u) \/ ResetFails(u) \/ Crash(u)
      PROVE  UpdaterInv'
  BY <1>6, MergeFailsKeeps, StepFailsKeeps, ResetFailsKeeps, CrashKeeps
<1>7. CASE UNCHANGED vars
  BY <1>7, StutterKeeps
<1>. QED  BY <1>1, <1>2, <1>3, <1>4, <1>5, <1>6, <1>7 DEF Next

\* As long as no lock was removable, the lock names the run at work, and what
\* that run has established stands.
THEOREM UpdaterInvariant == Spec => []UpdaterInv
BY UpdaterInit, UpdaterStep, PTL DEF Spec

\* Every variable keeps its type.
THEOREM UpdaterTypeCorrect == Spec => []TypeOK
<1>1. UpdaterInv => TypeOK
  BY DEF UpdaterInv
<1>. QED  BY <1>1, UpdaterInvariant, PTL

\* At most one run applies an update, unless a lock was removable while the
\* run that it stood for went on.
THEOREM OneApplier == Spec => []SoleApplier
<1>1. ASSUME UpdaterInv
      PROVE  SoleApplier
  <2> SUFFICES ASSUME ~overtaken
               PROVE  Cardinality(Applying) <= 1
    BY DEF SoleApplier
  <2>1. CASE Applying = {}
    BY <2>1, FS_EmptySet
  <2>2. CASE Applying # {}
    <3>1. PICK u \in Run : u \in Applying
      BY <2>2 DEF Applying
    <3>2. Applying = {u}
      BY <1>1, <3>1, Alone DEF Applying
    <3>. QED  BY <3>2, FS_Singleton
  <2>. QED  BY <2>1, <2>2
<1>. QED  BY <1>1, UpdaterInvariant, PTL

\* Between updates dependencies and services belong to the commit of the tree.
THEOREM InstallWhole == Spec => []WholeInstall
<1>1. UpdaterInv => WholeInstall
  BY DEF UpdaterInv, TreeInv, WholeInstall, Quiet, Applying, Some
<1>. QED  BY <1>1, UpdaterInvariant, PTL

\* Between updates the state file tells what became of the last one.
THEOREM StateIsTold == Spec => []StateTells
<1>1. UpdaterInv => StateTells
  BY DEF UpdaterInv, CommitInv, StateTells, Quiet, Applying, Some
<1>. QED  BY <1>1, UpdaterInvariant, PTL
=============================================================================
