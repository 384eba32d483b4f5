------------------------------- MODULE Updater -------------------------------
(***************************************************************************)
(* The updater (src/scripts/updater.js), run from the command line and by  *)
(* the web panel (src/src/web.js), any number of runs at a time in one     *)
(* installation.  A run checks for an update, takes the lock file, merges, *)
(* installs the dependencies, verifies, restarts the services, probes them *)
(* and reports; a step that fails after the merge rolls back.  One action  *)
(* is one command or one file operation; runs interleave between them.     *)
(*                                                                         *)
(* The published history is a line: version n is a fast-forward of every   *)
(* version up to n.  A commit, the dependencies installed for it and the   *)
(* services that run it go by its version; 0 is none of them.              *)
(***************************************************************************)
EXTENDS Naturals, FiniteSets

CONSTANTS
  Run,        \* the runs of the updater
  Web,        \* those that the web panel starts: they defer the restart
  Nobody,     \* no lock file
  Earlier,    \* a run that died before and left its lock file
  MaxVersion, MaxFailures, MaxCrashes   \* bounds of the model

ASSUME RunAssumption ==
  Web \subseteq Run /\ Nobody \notin Run \cup {Earlier} /\ Earlier \notin Run
ASSUME BoundAssumption == {MaxVersion, MaxFailures, MaxCrashes} \subseteq Nat /\ MaxVersion > 0

VARIABLES
  remote,     \* the newest version that is published
  tracking,   \* what the last fetch has seen of it
  head,       \* the commit of the working tree
  deps,       \* the commit for which node_modules is installed
  running,    \* the commit that the services run
  restarts,   \* whether a deferred restart is on its way
  lock,       \* updater.lock: who created it
  stale,      \* whether it is older than UPDATER_LOCK_STALE_MS
  state,      \* update-state.json
  run,        \* of each run: its step, what its check saw, its options, and
              \* whether it is rolling back
  base,       \* history: the commit at which each run found the tree
  broken,     \* history: an update was left half done
  overtaken,  \* history: the lock of a run that still went on was removable
  failures, crashes   \* how many so far, for the bounds

tree == <<head, deps, running, restarts>>
lockVars == <<lock, stale>>
history == <<base, broken, overtaken>>
bounds == <<failures, crashes>>
vars == <<remote, tracking, tree, lockVars, state, run, history, bounds>>

Version == 1 .. MaxVersion

\* From "merging" on a run holds the lock; "releasing" it ends that.
Work == {"merging", "installing", "verifying", "restarting", "probing", "resetting"}
Locked == {"preparing", "releasing"} \cup Work
Step == {"new", "checked", "unlinking", "opening", "over"} \cup Locked
Status == {"none", "started", "success", "failed", "rolled_back", "rollback_failed"}

\* tagged: in tag mode; otherwise it merges what the branch points to.
\* reversible: without --no-rollback and --allow-dirty.
Record == [step : Step, local : {0} \cup Version, target : {0} \cup Version,
           tagged : BOOLEAN, reversible : BOOLEAN, back : BOOLEAN]
NewRun == [step |-> "new", local |-> 0, target |-> 0,
           tagged |-> FALSE, reversible |-> TRUE, back |-> FALSE]

TypeOK ==
  /\ remote \in Version /\ tracking \in Version
  /\ head \in Version /\ {deps, running} \subseteq {0} \cup Version
  /\ restarts \in BOOLEAN
  /\ lock \in Run \cup {Nobody, Earlier} /\ stale \in BOOLEAN
  /\ state \in [status : Status, previous : {0} \cup Version, target : {0} \cup Version]
  /\ run \in [Run -> Record]
  /\ base \in [Run -> {0} \cup Version]
  /\ broken \in BOOLEAN /\ overtaken \in BOOLEAN
  /\ failures \in 0 .. MaxFailures /\ crashes \in 0 .. MaxCrashes

Init ==
  /\ remote = 1 /\ tracking = 1
  /\ head = 1 /\ deps = 1 /\ running = 1
  /\ restarts = FALSE
  /\ lock \in {Nobody, Earlier} /\ stale = FALSE
  /\ state = [status |-> "none", previous |-> 0, target |-> 0]
  /\ run = [u \in Run |-> NewRun]
  /\ base = [u \in Run |-> 0]
  /\ broken = FALSE /\ overtaken = FALSE
  /\ failures = 0 /\ crashes = 0

-----------------------------------------------------------------------------
Goto(u, step) == run' = [run EXCEPT ![u].step = step]

Failure == failures < MaxFailures /\ failures' = failures + 1 /\ UNCHANGED crashes

Publish ==
  /\ remote < MaxVersion
  /\ remote' = remote + 1
  /\ UNCHANGED <<tracking, tree, lockVars, state, run, history, bounds>>

(***************************************************************************)
(* checkForUpdate, without the lock: fetch, then compare.  The target is   *)
(* the branch, or a tag: the newest or an older one that was asked for.    *)
(* The panel never asks for a run without roll back.                       *)
(***************************************************************************)
Check(u) ==
  /\ run[u].step = "new"
  /\ tracking' = remote
  /\ \E tagged, reversible \in BOOLEAN, target \in 1 .. remote :
       /\ tagged \/ target = remote
       /\ reversible \/ u \notin Web
       /\ run' = [run EXCEPT ![u] =
                    [step |-> IF target = head THEN "over" ELSE "checked",
                     local |-> head, target |-> target,
                     tagged |-> tagged, reversible |-> reversible, back |-> FALSE]]
  /\ UNCHANGED <<remote, tree, lockVars, state, history, bounds>>

\* The run was only to check, or the user answers no.
Decline(u) ==
  /\ run[u].step = "checked"
  /\ Goto(u, "over")
  /\ UNCHANGED <<remote, tracking, tree, lockVars, state, history, bounds>>

-----------------------------------------------------------------------------
(* acquireLock: stat, perhaps unlink, then open with "wx".                 *)

StatLock(u) ==
  /\ run[u].step = "checked"
  /\ Goto(u, IF lock # Nobody /\ stale THEN "unlinking" ELSE "opening")
  /\ UNCHANGED <<remote, tracking, tree, lockVars, state, history, bounds>>

\* By now the stale file may be gone, and a new one of another run be there.
UnlinkLock(u) ==
  /\ run[u].step = "unlinking"
  /\ lock' = Nobody /\ stale' = FALSE
  /\ overtaken' = (overtaken \/ (lock # Nobody /\ ~stale))
  /\ Goto(u, "opening")
  /\ UNCHANGED <<remote, tracking, tree, state, base, broken, bounds>>

\* Mutant: the file is opened with "w".
OpenLockShared(u) ==
  /\ run[u].step = "opening"
  /\ lock' = u /\ stale' = FALSE
  /\ base' = [base EXCEPT ![u] = head]
  /\ Goto(u, "preparing")
  /\ UNCHANGED <<remote, tracking, tree, state, broken, overtaken, bounds>>

OpenLock(u) ==
  /\ run[u].step = "opening"
  /\ IF lock = Nobody
     THEN /\ lock' = u /\ stale' = FALSE
          /\ base' = [base EXCEPT ![u] = head]
          /\ Goto(u, "preparing")
     ELSE Goto(u, "over") /\ UNCHANGED <<lockVars, base>>   \* UPDATER_LOCKED
  /\ UNCHANGED <<remote, tracking, tree, state, broken, overtaken, bounds>>

\* The file of whoever has it now.
ReleaseLock(u) ==
  /\ run[u].step = "releasing"
  /\ lock' = Nobody /\ stale' = FALSE
  /\ Goto(u, "over")
  /\ UNCHANGED <<remote, tracking, tree, state, history, bounds>>

\* Nothing renews the time of the file while a run works.
LockAges ==
  /\ lock # Nobody /\ ~stale
  /\ stale' = TRUE
  /\ overtaken' = (overtaken \/ lock \in {u \in Run : run[u].step \in Locked})
  /\ UNCHANGED <<remote, tracking, tree, lock, state, run, base, broken, bounds>>

-----------------------------------------------------------------------------
(* applyUpdate.                                                            *)

WriteState(u, status) ==
  state' = [status |-> status, previous |-> run[u].local, target |-> run[u].target]

Prepare(u) ==
  /\ run[u].step = "preparing"
  /\ run[u].target > run[u].local
  /\ WriteState(u, "started")
  /\ Goto(u, "merging")
  /\ UNCHANGED <<remote, tracking, tree, lockVars, history, bounds>>

\* The tree has local changes, the target is no fast-forward, or the
\* preflight fails: nothing is written.
PrepareFails(u) ==
  /\ run[u].step = "preparing"
  /\ Goto(u, "releasing")
  /\ UNCHANGED <<remote, tracking, tree, lockVars, state, history, bounds>>

\* git merge --ff-only: of the ref, which another run's fetch may have moved
\* since the check; a commit behind the tree is "already up to date".
Merge(u) ==
  /\ run[u].step = "merging"
  /\ LET commit == IF run[u].tagged THEN run[u].target ELSE tracking
     IN  head' = IF commit > head THEN commit ELSE head
  /\ Goto(u, "installing")
  /\ UNCHANGED <<remote, tracking, deps, running, restarts, lockVars, state, history, bounds>>

MergeFails(u) ==
  /\ run[u].step = "merging"
  /\ Failure
  /\ WriteState(u, "failed")
  /\ Goto(u, "releasing")
  /\ UNCHANGED <<remote, tracking, tree, lockVars, history>>

\* Mutant: the dependencies are synchronised only on the way forward.
InstallForward(u) ==
  /\ run[u].step = "installing"
  /\ deps' = IF run[u].back THEN deps ELSE head
  /\ Goto(u, "verifying")
  /\ UNCHANGED <<remote, tracking, head, running, restarts, lockVars, state, history, bounds>>

\* npm ci.
Install(u) ==
  /\ run[u].step = "installing"
  /\ deps' = head
  /\ Goto(u, "verifying")
  /\ UNCHANGED <<remote, tracking, head, running, restarts, lockVars, state, history, bounds>>

\* The syntax checks and perhaps the tests.
Verify(u) ==
  /\ run[u].step = "verifying"
  /\ Goto(u, "restarting")
  /\ UNCHANGED <<remote, tracking, tree, lockVars, state, history, bounds>>

\* A restart takes down the web panel, and with it the runs that it started
\* and, where services are process groups, a deferred restart that waits.
Killed == {u \in Web : run[u].step \notin {"new", "over"}}
HalfDone(killed) == \E u \in killed : run[u].step \in Work

\* Mutant: a roll back in the web panel schedules no restart.
RestartForward(u) ==
  /\ run[u].step = "restarting"
  /\ IF u \in Web
     THEN /\ restarts' = (restarts \/ ~run[u].back)
          /\ Goto(u, "probing")
          /\ UNCHANGED <<running, broken>>
     ELSE /\ running' = head
          /\ run' = [v \in Run |-> IF v \in Killed THEN [run[v] EXCEPT !.step = "over"]
                                   ELSE IF v = u THEN [run[v] EXCEPT !.step = "probing"]
                                   ELSE run[v]]
          /\ broken' = (broken \/ HalfDone(Killed))
          /\ restarts' \in {FALSE, restarts}
  /\ UNCHANGED <<remote, tracking, head, deps, lockVars, state, base, overtaken, bounds>>

\* The option that defers the restart is cleared in a roll back, the
\* environment of a run of the panel, which says the same, is not.
Restart(u) ==
  /\ run[u].step = "restarting"
  /\ IF u \in Web
     THEN /\ restarts' = TRUE
          /\ Goto(u, "probing")
          /\ UNCHANGED <<running, broken>>
     ELSE /\ running' = head
          /\ run' = [v \in Run |-> IF v \in Killed THEN [run[v] EXCEPT !.step = "over"]
                                   ELSE IF v = u THEN [run[v] EXCEPT !.step = "probing"]
                                   ELSE run[v]]
          /\ broken' = (broken \/ HalfDone(Killed))
          /\ restarts' \in {FALSE, restarts}
  /\ UNCHANGED <<remote, tracking, head, deps, lockVars, state, base, overtaken, bounds>>

\* Two seconds later.
DeferredRestart ==
  /\ restarts
  /\ restarts' = FALSE
  /\ running' = head
  /\ run' = [v \in Run |-> IF v \in Killed THEN [run[v] EXCEPT !.step = "over"] ELSE run[v]]
  /\ broken' = (broken \/ HalfDone(Killed))
  /\ UNCHANGED <<remote, tracking, head, deps, lockVars, state, base, overtaken, bounds>>

\* The health checks, which a deferred restart skips, and the report.  A half
\* done update before this one is repaired by it.
Report(u) ==
  /\ run[u].step = "probing"
  /\ WriteState(u, IF run[u].back THEN "rolled_back" ELSE "success")
  /\ broken' = (broken /\ overtaken)
  /\ Goto(u, "releasing")
  /\ UNCHANGED <<remote, tracking, tree, lockVars, base, overtaken, bounds>>

-----------------------------------------------------------------------------
(* A step after the merge fails.                                           *)

\* The catch block of applyUpdate: it rolls back, or says that it does not.
Abandon(u) ==
  IF ~run[u].reversible
  THEN /\ WriteState(u, "failed")
       /\ Goto(u, "releasing")
       /\ broken' = TRUE
  ELSE /\ run' = [run EXCEPT ![u] = [@ EXCEPT !.step = "resetting", !.back = TRUE]]
       /\ UNCHANGED <<state, broken>>

\* The catch block of rollback.
AbandonRollback(u) ==
  /\ WriteState(u, "rollback_failed")
  /\ Goto(u, "releasing")
  /\ broken' = TRUE

\* What a failing step leaves: half an installation, or services that are
\* down or already run the new commit.
StepFails(u) ==
  /\ run[u].step \in {"installing", "verifying", "restarting"} \cup
       (IF u \in Web THEN {} ELSE {"probing"})
  /\ Failure
  /\ deps' = IF run[u].step = "installing" THEN 0 ELSE deps
  /\ \/ UNCHANGED running
     \/ run[u].step = "restarting" /\ u \notin Web /\ running' \in {0, head}
  /\ IF run[u].back THEN AbandonRollback(u) ELSE Abandon(u)
  /\ UNCHANGED <<remote, tracking, head, restarts, lockVars, base, overtaken>>

\* Mutant: back to the commit that was fetched.
ResetToTarget(u) ==
  /\ run[u].step = "resetting"
  /\ head' = run[u].target
  /\ Goto(u, "installing")
  /\ UNCHANGED <<remote, tracking, deps, running, restarts, lockVars, state, history, bounds>>

\* git reset --hard, to the commit that the check saw.
Reset(u) ==
  /\ run[u].step = "resetting"
  /\ head' = run[u].local
  /\ Goto(u, "installing")
  /\ UNCHANGED <<remote, tracking, deps, running, restarts, lockVars, state, history, bounds>>

\* It is outside the try block of rollback: the state file stays "started".
ResetFails(u) ==
  /\ run[u].step = "resetting"
  /\ Failure
  /\ Goto(u, "releasing")
  /\ broken' = TRUE
  /\ UNCHANGED <<remote, tracking, tree, lockVars, state, base, overtaken>>

\* The run is killed, by WEB_UPDATE_TIMEOUT_MS or from outside: nothing is
\* undone and the lock file stays.
Crash(u) ==
  /\ run[u].step \notin {"new", "over"}
  /\ crashes < MaxCrashes
  /\ crashes' = crashes + 1
  /\ Goto(u, "over")
  /\ deps' \in IF run[u].step = "installing" THEN {0, deps} ELSE {deps}
  /\ broken' = (broken \/ run[u].step \in Work)
  /\ UNCHANGED <<remote, tracking, head, running, restarts, lockVars, state, base, overtaken,
                 failures>>

-----------------------------------------------------------------------------
Advance(u) ==
  \/ StatLock(u) \/ UnlinkLock(u) \/ OpenLock(u) \/ ReleaseLock(u)
  \/ Prepare(u) \/ PrepareFails(u) \/ Merge(u) \/ Install(u) \/ Verify(u)
  \/ Restart(u) \/ Report(u) \/ Reset(u)

Next ==
  \/ Publish \/ LockAges \/ DeferredRestart
  \/ \E u \in Run :
       \/ Check(u) \/ Decline(u) \/ Advance(u)
       \/ MergeFails(u) \/ StepFails(u) \/ ResetFails(u) \/ Crash(u)

Spec == Init /\ [][Next]_vars

\* A run that has begun goes on, and a scheduled restart comes.
FairSpec == Spec /\ WF_vars(DeferredRestart) /\ \A u \in Run : WF_vars(Advance(u))
-----------------------------------------------------------------------------
Applying == {u \in Run : run[u].step \in Locked}
Quiet == Applying = {} /\ ~broken /\ ~overtaken

Whole == deps = head /\ (running = head \/ restarts)

Told ==
  /\ state.status \notin {"started", "rollback_failed"}
  /\ state.status = "success" => head >= state.target
  /\ state.status = "rolled_back" => head = state.previous

(***************************************************************************)
(* "Update apply uses a lock file" (API_DOCS.md:317): two runs apply at    *)
(* once only if the lock of one of them was there to be removed: it had    *)
(* grown old, or another run had found an old one in its place.            *)
(***************************************************************************)
SoleApplier == overtaken \/ Cardinality(Applying) <= 1

(***************************************************************************)
(* An update is complete or undone: between updates the dependencies       *)
(* belong to the commit of the tree, and the services run it or are about  *)
(* to, whichever step failed, whatever commit the run rolled back to, and  *)
(* also after a half done update that a later one has repaired.            *)
(***************************************************************************)
WholeInstall == Quiet => Whole

(***************************************************************************)
(* Between updates update-state.json tells what became of the last one: a  *)
(* success has brought at least its target, a roll back has brought back   *)
(* the commit it names, and none is left as started.                       *)
(***************************************************************************)
StateTells == Quiet => Told

-----------------------------------------------------------------------------
(***************************************************************************)
(* The strengthening that is inductive.  As long as no lock was removable, *)
(* the lock names the run at work, so what holds between two of its steps  *)
(* is not disturbed by another run.                                        *)
(***************************************************************************)
OwnerInv == ~overtaken => \A u \in Run : run[u].step \in Locked => lock = u /\ ~stale

Some(steps) == \E u \in Run : run[u].step \in steps

\* What a run has established by the step that it has reached.
TreeInv ==
  ~overtaken =>
    /\ Some({"verifying", "restarting", "probing"}) => deps = head
    /\ Some({"probing"}) => Whole
    /\ broken \/ Some({"installing", "verifying", "restarting", "resetting"}) \/ Whole

\* tracking never goes back, so that a branch has at least the commit that the
\* check saw.
CheckInv ==
  /\ tracking <= remote
  /\ \A u \in Run :
       /\ run[u].step # "new" =>
            run[u].local \in Version /\ (run[u].tagged \/ run[u].target <= tracking)
       /\ run[u].step \in {"checked", "unlinking", "opening", "preparing", "merging"} => ~run[u].back
       /\ run[u].step = "resetting" => run[u].back

CommitInv ==
  ~overtaken =>
    /\ \A u \in Run :
         run[u].step \in {"installing", "verifying", "restarting", "probing"} =>
           IF run[u].back THEN head = run[u].local ELSE head >= run[u].target
    /\ broken \/ Some(Work) \/ Told

UpdaterInv == TypeOK /\ OwnerInv /\ TreeInv /\ CheckInv /\ CommitInv

\* In the end the services run the commit of the tree.
ServicesCatchUp == <>[](broken \/ overtaken \/ running = head)

(***************************************************************************)
(* "Post-merge failures trigger rollback to the previous commit"           *)
(* (API_DOCS.md:319): to the one at which the run, once it had the lock,   *)
(* found the tree, as long as no lock was taken away from a run at work.   *)
(* The code does not keep it: README.md, section 6, says how.              *)
(***************************************************************************)
RollbackToPrevious == [][\A u \in Run : Reset(u) /\ ~overtaken => head' = base[u]]_vars
=============================================================================
