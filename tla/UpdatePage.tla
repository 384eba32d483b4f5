----------------------------- MODULE UpdatePage -----------------------------
(***************************************************************************)
(* The update page of the panel in a browser (its script in                *)
(* src/src/web.js): it asks for the status of the job when it is opened,   *)
(* checks for an update, starts one, and follows the job by polling.  Each *)
(* request is a message that the panel serves and whose answer comes in    *)
(* when it likes; the page does not wait for one before it sends the next. *)
(* What the panel's record of the job goes through is module UpdateJob;    *)
(* here only its status counts.                                            *)
(***************************************************************************)
EXTENDS Naturals, Bags

Bag == INSTANCE BagsExt

CONSTANTS MaxUnderWay, MaxPanelStarts   \* bounds of the model

ASSUME PageBoundAssumption ==
  MaxUnderWay \in Nat \ {0} /\ MaxPanelStarts \in Nat

VARIABLES
  job,          \* the status of the panel's job
  session,      \* of the browser: the one that the page was made in, or none
  underWay,     \* a bag: the requests of the page, and their answers
  following,    \* does the page poll?
  available,    \* updateAvailable
  buttons,      \* those that are enabled
  says,         \* what the page shows
  overlapped,   \* history: a request about the job was sent while one was out
  interrupted,  \* history: a check was sent while a poll was out
  panelStarts   \* how many so far, for the bound

pageVars ==
  <<job, session, underWay, following, available, buttons, says, overlapped, interrupted,
    panelStarts>>

Settled == {"succeeded", "failed"}
JobStatus == {"idle", "running"} \cup Settled
Request == [kind : {"boot", "check", "start", "status"},
            answer : {"none", "error", "update", "current"} \cup JobStatus]

PageTypeOK ==
  /\ job \in JobStatus /\ session \in {"page", "none", "later"}
  /\ IsABag(underWay) /\ BagToSet(underWay) \subseteq Request
  /\ following \in BOOLEAN /\ available \in BOOLEAN
  /\ overlapped \in BOOLEAN /\ interrupted \in BOOLEAN
  /\ buttons \subseteq {"check", "start"}
  /\ says \in {"nothing", "checking", "ready", "current", "starting", "error"} \cup JobStatus
  /\ panelStarts \in 0 .. MaxPanelStarts

Unanswered(kind) == [kind |-> kind, answer |-> "none"]
AboutJob(requests) == \E r \in BagToSet(requests) : r.kind # "check"
Polled(requests) == \E r \in BagToSet(requests) : r.kind = "status"

\* The page sends a request, besides those of others that are under way.
Ask(kind, others) ==
  /\ BagCardinality(others) < MaxUnderWay
  /\ underWay' = Bag!BagAdd(others, Unanswered(kind))
  /\ overlapped' = (overlapped \/ (kind # "check" /\ AboutJob(others)))
  /\ interrupted' = (interrupted \/ (kind = "check" /\ Polled(others)))

\* boot()
Opened ==
  /\ underWay = SetToBag({Unanswered("boot")})
  /\ following = FALSE /\ available = FALSE
  /\ buttons = {"check"} /\ says = "nothing"
  /\ overlapped = FALSE /\ interrupted = FALSE

PageInit == job = "idle" /\ session = "page" /\ Opened /\ panelStarts = 0

panel == <<job, session, panelStarts>>

-----------------------------------------------------------------------------
(* The panel.                                                              *)

\* A job that the page of another administrator starts, and the end of a job.
JobChanges ==
  /\ job' \in IF job = "running" THEN Settled ELSE {"running"}
  /\ UNCHANGED <<session, underWay, following, available, buttons, says, overlapped, interrupted,
                 panelStarts>>

\* Sessions and record are in its memory: requests fail until somebody logs in.
PanelStarts ==
  /\ panelStarts < MaxPanelStarts /\ panelStarts' = panelStarts + 1
  /\ job' = "idle" /\ session' = "none"
  /\ UNCHANGED <<underWay, following, available, buttons, says, overlapped, interrupted>>

\* Somebody logs in again, on another page of the browser.
SignIn ==
  /\ session = "none" /\ session' = "later"
  /\ UNCHANGED <<job, underWay, following, available, buttons, says, overlapped, interrupted,
                 panelStarts>>

\* What the panel answers, in the turn in which it serves the request, unless
\* an error comes instead.  A start needs the token of the page's session, and
\* begins a job unless one is running.
Answers(kind) ==
  IF session = "none" THEN {}
  ELSE CASE kind \in {"boot", "status"} -> {job}
         [] kind = "check" -> {"update", "current"}
         [] kind = "start" -> IF session = "page" THEN {"running"} ELSE {}

ServeRequest(r) ==
  /\ r.answer = "none"
  /\ \E answer \in Answers(r.kind) \cup {"error"} :
       /\ underWay' = Bag!BagAdd(Bag!BagRemove(underWay, r), [r EXCEPT !.answer = answer])
       /\ job' = IF r.kind = "start" /\ answer = "running" THEN "running" ELSE job
  /\ UNCHANGED <<session, following, available, buttons, says, overlapped, interrupted,
                 panelStarts>>

-----------------------------------------------------------------------------
(* The page.                                                               *)

\* A click, or what boot() goes on to.
CheckForUpdate(others) ==
  /\ Ask("check", others)
  /\ following' = FALSE /\ available' = FALSE
  /\ buttons' = buttons \ {"start"} /\ says' = "checking"
  /\ UNCHANGED panel

ClickCheck == "check" \in buttons /\ CheckForUpdate(underWay)

StartUpdate ==
  /\ "start" \in buttons /\ available
  /\ Ask("start", underWay)
  /\ buttons' = {} /\ says' = "starting"
  /\ UNCHANGED <<following, available, panel>>

PollStatus ==
  /\ following /\ Ask("status", underWay)
  /\ UNCHANGED <<following, available, buttons, says, panel>>

\* The answer to a request comes in.
CameIn(r, kind) == r.kind = kind /\ r.answer # "none"
Taken(r) == underWay' = Bag!BagRemove(underWay, r) /\ UNCHANGED <<overlapped, interrupted, panel>>

Booted(r) ==
  /\ CameIn(r, "boot")
  /\ IF r.answer = "running"
     THEN /\ Taken(r) /\ following' = TRUE /\ says' = "running"
          /\ UNCHANGED <<available, buttons>>
     ELSE CheckForUpdate(Bag!BagRemove(underWay, r))

\* An answer without an update leaves the button as it is.
Checked(r) ==
  /\ CameIn(r, "check") /\ Taken(r)
  /\ CASE r.answer = "update" ->
            available' = TRUE /\ buttons' = buttons \cup {"start"} /\ says' = "ready"
       [] r.answer = "current" ->
            available' = FALSE /\ says' = "current" /\ UNCHANGED buttons
       [] r.answer = "error" ->
            says' = "error" /\ UNCHANGED <<available, buttons>>
  /\ UNCHANGED following

\* Mutant: the page shows the job that it has started, and leaves it there.
StartedOnce(r) ==
  /\ CameIn(r, "start") /\ Taken(r)
  /\ IF r.answer = "error"
     THEN buttons' = {"check", "start"} /\ says' = "error"
     ELSE says' = r.answer /\ UNCHANGED buttons
  /\ UNCHANGED <<available, following>>

Started(r) ==
  /\ CameIn(r, "start") /\ Taken(r)
  /\ IF r.answer = "error"
     THEN buttons' = {"check", "start"} /\ says' = "error" /\ UNCHANGED following
     ELSE following' = TRUE /\ says' = r.answer /\ UNCHANGED buttons
  /\ UNCHANGED available

\* What comes in is shown, be the polling over; an error is passed over.
StatusRead(r) ==
  /\ CameIn(r, "status") /\ Taken(r)
  /\ says' = IF r.answer = "error" THEN says ELSE r.answer
  /\ IF r.answer \in Settled
     THEN following' = FALSE /\ buttons' = {"check"}
     ELSE UNCHANGED <<following, buttons>>
  /\ UNCHANGED available

\* The user, or the page itself after an update that restarts the panel.
Reload ==
  /\ session # "none" /\ session' = "page"
  /\ underWay' = SetToBag({Unanswered("boot")})
  /\ following' = FALSE /\ available' = FALSE
  /\ buttons' = {"check"} /\ says' = "nothing"
  /\ overlapped' = FALSE /\ interrupted' = FALSE
  /\ UNCHANGED <<job, panelStarts>>

PageNext ==
  \/ JobChanges \/ PanelStarts \/ SignIn
  \/ ClickCheck \/ StartUpdate \/ PollStatus \/ Reload
  \/ \E r \in BagToSet(underWay) :
       ServeRequest(r) \/ Booted(r) \/ Checked(r) \/ Started(r) \/ StatusRead(r)

PageSpec == PageInit /\ [][PageNext]_pageVars
-----------------------------------------------------------------------------
Quiet == ~following /\ underWay = EmptyBag

(***************************************************************************)
(* A page that is quiet, with no timer and nothing under way, is not left  *)
(* saying that it checks, or that an update starts or runs, and lets its   *)
(* user check again, whatever failed, came in late or was restarted - but  *)
(* for two causes.  A page that had two requests about the job under way   *)
(* at once may see their answers the other way round.  And one whose user  *)
(* asked for a check while a poll was out may be told "current" first, and *)
(* then by that poll, which no other follows, that the update runs         *)
(* (web.js:1758, 1827).                                                    *)
(***************************************************************************)
PageFollows ==
  /\ PageTypeOK
  /\ Quiet /\ ~overlapped /\ ~interrupted =>
       says \notin {"checking", "starting", "running"} /\ "check" \in buttons
=============================================================================
