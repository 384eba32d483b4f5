---------------------------- MODULE BoundedFifo ----------------------------
(***************************************************************************)
(* What the in-memory queue promises (Tests/unit/queue.test.js): a bounded *)
(* first-in first-out buffer that refuses jobs when it is full or closed,  *)
(* and hands out after its close what it took before.                      *)
(***************************************************************************)
EXTENDS Naturals, Sequences

CONSTANTS Job, MaxSize

VARIABLES contents, closed
vars == <<contents, closed>>

Init == contents = <<>> /\ closed = FALSE

Put(j) ==
  /\ ~closed
  /\ Len(contents) < MaxSize
  /\ contents' = Append(contents, j)
  /\ UNCHANGED closed

Take ==
  /\ contents # <<>>
  /\ contents' = Tail(contents)
  /\ UNCHANGED closed

Close ==
  /\ closed' = TRUE
  /\ UNCHANGED contents

Next == (\E j \in Job : Put(j)) \/ Take \/ Close

Spec == Init /\ [][Next]_vars
=============================================================================
