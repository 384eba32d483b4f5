------------------------------ MODULE UpdateJob ------------------------------
(***************************************************************************)
(* What the web panel says of the updates that it starts (src/src/web.js). *)
(* A request for a job starts a child and returns; lines, exit and close   *)
(* of the child change the record of its job as they come in.  A request   *)
(* to apply waits for its child, at most WEB_UPDATE_TIMEOUT_MS.  What the  *)
(* child does is module Updater; here it may or may not write its result,  *)
(* and ends with code 0 or another, by a signal, or never comes to life.   *)
(***************************************************************************)
EXTENDS Naturals, Sequences, FiniteSets

CONSTANTS MaxJobs, MaxCalls, MaxPanels   \* bounds of the model

ASSUME JobBoundAssumption ==
  {MaxJobs, MaxCalls} \subseteq Nat /\ MaxPanels \in Nat \ {0}

VARIABLES
  jobs,      \* the records of the jobs, the last of which is updateJob
  calls,     \* the requests to apply
  outlived,  \* how many children of jobs live on after the panel that started them
  panels     \* history: how many times the panel has been started

jobVars == <<jobs, calls, outlived, panels>>

\* wrote: the result that the child has written; read: what of it has come in.
\* child: "closed" once its close was seen; "signal": killed.
Result == {"none", "ok", "bad"}
Ending == {"zero", "nonzero", "signal"}
Child == {"alive", "unborn", "never"} \cup Ending
Job == [status : {"running", "succeeded", "failed"}, child : Child, closed : BOOLEAN,
        wrote : Result, read : Result]
\* answer: what the body says; code: the status code that it is sent with.
Call == [answer : {"none", "ok", "failed"}, code : {"none", "200", "500"}, child : Child,
         closed : BOOLEAN, wrote : Result]

JobTypeOK ==
  /\ jobs \in Seq(Job) /\ Len(jobs) <= MaxJobs
  /\ calls \in Seq(Call) /\ Len(calls) <= MaxCalls
  /\ outlived \in Nat /\ panels \in 1 .. MaxPanels

JobInit == jobs = <<>> /\ calls = <<>> /\ outlived = 0 /\ panels = 1

-----------------------------------------------------------------------------
\* How the child may end: updater.js exits with 0 exactly if it is well, having
\* written its result; killed, it may have written it already.
Outcome ==
  {<<"zero", "ok">>, <<"nonzero", "bad">>, <<"nonzero", "none">>} \cup ({"signal"} \X Result)
Exits(c) ==
  {[c EXCEPT !.child = o[1], !.wrote = o[2]] : o \in {p \in Outcome : c.wrote \in {"none", p[2]}}}

\* A signal leaves no exit code: close passes null, and Number(null) is 0.
Code(c) == IF c.child \in {"zero", "signal"} THEN 0 ELSE 1

Running == jobs # <<>> /\ jobs[Len(jobs)].status = "running"

Fresh(child) ==
  Append(jobs, [status |-> "running", child |-> child, closed |-> child = "never",
                wrote |-> "none", read |-> "none"])

\* POST /update/start.  The record is there before the child: where spawn
\* throws ("never"), nothing will ever end it.  An "unborn" child could not be
\* started either, but says so in an event.
StartUpdateJob ==
  /\ ~Running /\ Len(jobs) < MaxJobs
  /\ \E child \in {"alive", "unborn", "never"} : jobs' = Fresh(child)
  /\ UNCHANGED <<calls, outlived, panels>>

\* A start while one is running is answered with its snapshot.
StartRefused == Running /\ UNCHANGED jobVars

\* The error event of a child that could not be started.
ChildError(i) ==
  /\ jobs[i].child = "unborn" /\ jobs[i].status = "running"
  /\ jobs' = [jobs EXCEPT ![i].status = "failed"]
  /\ UNCHANGED <<calls, outlived, panels>>

ResultWritten(i) ==
  /\ jobs[i].child = "alive" /\ jobs[i].wrote = "none"
  /\ \E result \in {"ok", "bad"} : jobs' = [jobs EXCEPT ![i].wrote = result]
  /\ UNCHANGED <<calls, outlived, panels>>

HandleProgressLine(i) ==
  /\ ~jobs[i].closed /\ jobs[i].read # jobs[i].wrote
  /\ jobs' = [jobs EXCEPT ![i].read = jobs[i].wrote]
  /\ UNCHANGED <<calls, outlived, panels>>

ChildExits(i) ==
  /\ jobs[i].child = "alive"
  /\ \E c \in Exits(jobs[i]) : jobs' = [jobs EXCEPT ![i] = c]
  /\ UNCHANGED <<calls, outlived, panels>>

Verdict(i) ==
  IF jobs[i].wrote # "none" THEN IF jobs[i].wrote = "ok" THEN "succeeded" ELSE "failed"
  ELSE IF jobs[i].child # "unborn" /\ Code(jobs[i]) = 0 THEN "succeeded" ELSE "failed"

\* The error of a child that was not started comes before its close.
Closable(c) == c.child \in Ending \cup {"unborn"} /\ ~c.closed
Closes(i) == Closable(jobs[i]) /\ (jobs[i].child = "unborn" => jobs[i].status = "failed")

\* Mutant: the close is put down to the job that is now the latest.
CloseLatest(i) ==
  /\ Closes(i)
  /\ jobs' = [jobs EXCEPT ![i].closed = TRUE, ![Len(jobs)].status = Verdict(i)]
  /\ UNCHANGED <<calls, outlived, panels>>

\* The rest of the output comes in first.
ChildCloses(i) ==
  /\ Closes(i)
  /\ jobs' = [jobs EXCEPT ![i].closed = TRUE, ![i].status = Verdict(i), ![i].read = jobs[i].wrote]
  /\ UNCHANGED <<calls, outlived, panels>>

-----------------------------------------------------------------------------
\* POST /update/apply.  A spawn that throws or fails answers 500 at once.
Apply ==
  /\ Len(calls) < MaxCalls
  /\ \E child \in {"alive", "unborn"} :
       calls' = Append(calls, [answer |-> IF child = "alive" THEN "none" ELSE "failed",
                               code |-> IF child = "alive" THEN "none" ELSE "500",
                               child |-> child, closed |-> child = "unborn", wrote |-> "none"])
  /\ UNCHANGED <<jobs, outlived, panels>>

\* The child ends, or the timeout sends it a signal.
CallExits(k) ==
  /\ calls[k].child = "alive"
  /\ \E c \in Exits(calls[k]) : calls' = [calls EXCEPT ![k] = c]
  /\ UNCHANGED <<jobs, outlived, panels>>

\* After the close: a failure if the exit code is not 0, and otherwise the result
\* that was written (parseJsonOutput), or without one a success.
AnswerOf(c) == IF Code(c) = 0 /\ c.wrote # "bad" THEN "ok" ELSE "failed"

\* The exit code alone decides between 200 and 500, so that a child that was
\* killed after it reported a failure gets that sent with a 200.
CallCloses(k) ==
  /\ Closable(calls[k])
  /\ calls' = [calls EXCEPT ![k].closed = TRUE, ![k].answer = AnswerOf(calls[k]),
                            ![k].code = IF Code(calls[k]) = 0 THEN "200" ELSE "500"]
  /\ UNCHANGED <<jobs, outlived, panels>>

Living == {i \in 1 .. Len(jobs) : jobs[i].child = "alive"}

\* The records are in the memory of the panel; the children are processes of
\* their own, and nothing in the code ends them with it.
PanelRestarts ==
  /\ panels < MaxPanels /\ panels' = panels + 1
  /\ outlived' = outlived + Cardinality(Living)
  /\ jobs' = <<>> /\ calls' = <<>>

OutlivedExits ==
  /\ outlived > 0 /\ outlived' = outlived - 1
  /\ UNCHANGED <<jobs, calls, panels>>

JobNext ==
  \/ StartUpdateJob \/ StartRefused \/ Apply
  \/ \E i \in 1 .. Len(jobs) :
       ChildError(i) \/ ResultWritten(i) \/ HandleProgressLine(i) \/ ChildExits(i) \/ ChildCloses(i)
  \/ \E k \in 1 .. Len(calls) : CallExits(k) \/ CallCloses(k)
  \/ PanelRestarts \/ OutlivedExits

JobSpec == JobInit /\ [][JobNext]_jobVars
-----------------------------------------------------------------------------
(***************************************************************************)
(* The panel tells the truth of its updates, whatever comes in late and    *)
(* whichever job is the latest by then: it reports a failure only of an    *)
(* update that did not report success, and a success only of one that did, *)
(* or that was killed before it reported, which it cannot tell from a      *)
(* success.  (The 200 of an answer is less: a killed child gets it with    *)
(* whatever it had reported.)  The children of two jobs run at once only   *)
(* if one of them has outlived the panel that started it: of those, each   *)
(* panel leaves one at most.                                               *)
(***************************************************************************)
JobTruth ==
  /\ JobTypeOK
  /\ \A i \in 1 .. Len(jobs) :
       /\ jobs[i].status = "failed" => jobs[i].wrote # "ok"
       /\ jobs[i].status = "succeeded" =>
            jobs[i].wrote = "ok" \/ (jobs[i].wrote = "none" /\ jobs[i].child = "signal")
  /\ \A k \in 1 .. Len(calls) :
       /\ calls[k].answer = "failed" => calls[k].wrote # "ok"
       /\ calls[k].answer = "ok" =>
            calls[k].wrote = "ok" \/ (calls[k].wrote = "none" /\ calls[k].child = "signal")
       /\ calls[k].code = "200" => calls[k].answer = "ok" \/ calls[k].child = "signal"
  /\ \A i, k \in Living : i = k
  /\ Cardinality(Living) + outlived <= panels
=============================================================================
