------------------------------ MODULE LoginLock ------------------------------
(***************************************************************************)
(* The record of failed log-ins that the web panel keeps for one address   *)
(* (src/src/webAuth.js: failuresByIp).  Failures are counted in a window   *)
(* that the first of them opens; MaxFailures of them lock the address.     *)
(* Addresses do not affect each other, so one is modelled.  A record that  *)
(* neither locks nor counts any more is the same as none, which is what    *)
(* pruneExpired makes of it.                                               *)
(***************************************************************************)
EXTENDS Naturals, FiniteSetsExt

CONSTANTS
  MaxFailures,   \* LOGIN_MAX_FAILURES
  Window         \* LOGIN_WINDOW_MS and LOGIN_LOCK_MS, in ticks of the clock

ASSUME LockAssumption == MaxFailures \in Nat \ {0, 1} /\ Window \in Nat \ {0}

VARIABLES
  count,      \* the failures of the record; 0: there is none
  age,        \* the ticks since its window was opened, up to Window
  lockLeft,   \* how many more ticks the address is locked
  recent      \* history: recent[a] log-ins failed a ticks ago, none succeeded since

lockVars == <<count, age, lockLeft, recent>>

Ages == 0 .. Window
Locked == lockLeft > 0

LockTypeOK ==
  /\ count \in 0 .. MaxFailures /\ age \in 0 .. Window
  /\ lockLeft \in 0 .. Window + 1
  /\ recent \in [Ages -> 0 .. MaxFailures]

LockInit ==
  /\ count = 0 /\ age = 0 /\ lockLeft = 0
  /\ recent = [a \in Ages |-> 0]

-----------------------------------------------------------------------------
Count == count' = count + 1 /\ age' = IF count = 0 THEN 0 ELSE age

\* Mutant: the lock comes one failure late.
RecordLate ==
  /\ Count
  /\ lockLeft' = IF count' > MaxFailures THEN Window + 1 ELSE 0
  /\ recent' = [recent EXCEPT ![0] = @ + 1]

\* recordLoginFailure; at lockedUntil itself the address is still locked.
RecordLoginFailure ==
  /\ Count
  /\ lockLeft' = IF count' >= MaxFailures THEN Window + 1 ELSE 0
  /\ recent' = [recent EXCEPT ![0] = @ + 1]

\* login, with a wrong password or second factor, and with the right ones.
LoginFails == ~Locked /\ RecordLoginFailure

LoginSucceeds ==
  /\ ~Locked
  /\ count' = 0 /\ age' = 0 /\ lockLeft' = 0
  /\ recent' = [a \in Ages |-> 0]

\* Mutant: an attempt on a locked address is a failure like the others.
RefuseAndCount ==
  /\ Locked
  /\ lockLeft' = Window + 1
  /\ UNCHANGED <<count, age, recent>>

\* LOGIN_LOCKED: whatever the password, nothing is recorded.
LoginRefused ==
  /\ Locked
  /\ UNCHANGED lockVars

\* Time passes.  The record ends with its window, and never before the lock.
LockTick ==
  LET left == IF Locked THEN lockLeft - 1 ELSE 0
      over == left = 0 /\ age >= Window
  IN  /\ lockLeft' = left
      /\ count' = IF over THEN 0 ELSE count
      /\ age' = IF over \/ count = 0 THEN 0 ELSE Min({age + 1, Window})
      /\ recent' = [a \in Ages |-> IF a = 0 THEN 0 ELSE recent[a - 1]]

LockNext == LoginFails \/ LoginSucceeds \/ LoginRefused \/ LockTick

LockSpec == LockInit /\ [][LockNext]_lockVars
-----------------------------------------------------------------------------
\* How many log-ins failed up to each age; a function and not a fold, because
\* a fold is more than the provers can unfold.
Failed(f) ==
  LET upTo[a \in Ages] == f[a] + (IF a = 0 THEN 0 ELSE upTo[a - 1])
  IN  upTo

(***************************************************************************)
(* The fixed windows hold any window of that length: between two log-ins   *)
(* that succeed, at most 2 * MaxFailures - 2 fail within one Window, though *)
(* some fail late in one window of the record and some early in the next.  *)
(***************************************************************************)
FailureBudget ==
  Failed(recent)[Window] <= 2 * MaxFailures - 2

(***************************************************************************)
(* A lock ends, however often the locked address is tried meanwhile.       *)
(***************************************************************************)
LockEnds == []<>~Locked
=============================================================================
