----------------------------- MODULE MonitorPage -----------------------------
(***************************************************************************)
(* The monitor (src/src/monitor.js) and a page of it that is open.  The    *)
(* log of the core hands each entry to the monitor, which counts it.  The  *)
(* page has a stream of snapshots, which the core publishes on a timer and *)
(* the panel (src/src/web.js) passes on, and beside it requests a snapshot *)
(* when it is opened and, while the stream is broken, every five seconds.  *)
(*                                                                         *)
(* A snapshot is made in one turn, after its queue depths have come in, so *)
(* it is as good as how far the monitor was then: "counted" says how many  *)
(* entries and restarts there had been.  The history is that of the core;  *)
(* its counters begin again with each start.                               *)
(***************************************************************************)
EXTENDS Naturals, Sequences

CONSTANTS MaxCounted, MaxBreaks, MaxRequests, MaxStream   \* bounds of the model

ASSUME FeedBoundAssumption ==
  /\ {MaxCounted, MaxBreaks} \subseteq Nat
  /\ {MaxRequests, MaxStream} \subseteq Nat \ {0}

VARIABLES
  core,      \* does the core run?
  counted,   \* how far the monitor is
  source,    \* the EventSource of the page
  stream,    \* the snapshots under way on it
  polling,   \* does the timer of the page run?
  asked,     \* how many requests of the page have not been answered
  replies,   \* the snapshots under way to the page in answers
  shown,     \* the snapshot on the page
  breaks     \* failures of connections and requests so far, for the bound

feedVars == <<core, counted, source, stream, polling, asked, replies, shown, breaks>>

FeedTypeOK ==
  /\ core \in BOOLEAN /\ polling \in BOOLEAN
  /\ counted \in 0 .. MaxCounted /\ shown \in 0 .. counted
  /\ source \in {"connecting", "open", "closed"}
  /\ stream \in Seq(0 .. counted) /\ Len(stream) <= MaxStream
  /\ asked \in 0 .. MaxRequests /\ replies \subseteq 0 .. counted
  /\ breaks \in 0 .. MaxBreaks

\* connectSse, and the first refreshNow.
FeedInit ==
  /\ core = TRUE /\ counted = 0
  /\ source = "connecting" /\ stream = <<>>
  /\ polling = FALSE
  /\ asked = 1 /\ replies = {}
  /\ shown = 0 /\ breaks = 0

MayBreak == breaks < MaxBreaks /\ breaks' = breaks + 1

-----------------------------------------------------------------------------
(* The core.                                                               *)

\* Totals, timeline and accounts: whichever of them the entry is for.
UpdateCounters == counted' = counted + 1

IngestLogEntry ==
  /\ core /\ counted < MaxCounted
  /\ UpdateCounters
  /\ UNCHANGED <<core, source, stream, polling, asked, replies, shown, breaks>>

\* getSnapshot, which awaits nothing.
Snapshot == counted

\* Every few seconds a snapshot goes out, if the last ones do.
PublishSnapshot ==
  /\ core /\ source = "open" /\ Len(stream) < MaxStream
  /\ stream' = Append(stream, Snapshot)
  /\ UNCHANGED <<core, counted, source, polling, asked, replies, shown, breaks>>

CollectMonitorSnapshot ==
  /\ core /\ asked > 0
  /\ asked' = asked - 1 /\ replies' = replies \cup {Snapshot}
  /\ UNCHANGED <<core, counted, source, stream, polling, shown, breaks>>

\* The stream ends where it is; the browser says so, and connects again.
Disconnected == source' = "connecting" /\ stream' = <<>> /\ polling' = TRUE

CoreStops ==
  /\ core /\ counted < MaxCounted
  /\ core' = FALSE
  /\ IF source = "open" THEN Disconnected ELSE UNCHANGED <<source, stream, polling>>
  /\ UNCHANGED <<counted, asked, replies, shown, breaks>>

CoreStarts ==
  /\ ~core /\ core' = TRUE
  /\ counted' = counted + 1
  /\ UNCHANGED <<source, stream, polling, asked, replies, shown, breaks>>

-----------------------------------------------------------------------------
(* The page.                                                               *)

\* The first snapshot is sent before the timer of the stream is set.
StreamOpens ==
  /\ core /\ source = "connecting"
  /\ source' = "open" /\ stream' = <<Snapshot>>
  /\ UNCHANGED <<core, counted, polling, asked, replies, shown, breaks>>

\* Mutant: the page counts on the browser to connect again.
AwaitStream ==
  /\ source = "connecting"
  /\ IF core THEN MayBreak ELSE UNCHANGED breaks
  /\ source' \in {"connecting", "closed"}
  /\ polling' = (polling \/ source' = "connecting")
  /\ UNCHANGED <<core, counted, stream, asked, replies, shown>>

\* No connection: the browser will try again.  An error as the answer, as the
\* panel gives it while there is no core: the browser never tries again.
StreamFails ==
  /\ source = "connecting"
  /\ IF core THEN MayBreak ELSE UNCHANGED breaks
  /\ source' \in {"connecting", "closed"}
  /\ polling' = TRUE
  /\ UNCHANGED <<core, counted, stream, asked, replies, shown>>

StreamBreaks ==
  /\ source = "open" /\ MayBreak
  /\ Disconnected
  /\ UNCHANGED <<core, counted, asked, replies, shown>>

\* A snapshot of the stream is shown, and ends the polling.
StreamSnapshot ==
  /\ stream # <<>>
  /\ shown' = Head(stream) /\ stream' = Tail(stream)
  /\ polling' = FALSE
  /\ UNCHANGED <<core, counted, source, asked, replies, breaks>>

\* The timer does not wait for the last answer.
Poll ==
  /\ polling /\ asked < MaxRequests
  /\ asked' = asked + 1
  /\ UNCHANGED <<core, counted, source, stream, polling, replies, shown, breaks>>

\* What comes in is shown, be it older than what is.
RefreshNow(snapshot) ==
  /\ snapshot \in replies
  /\ replies' = replies \ {snapshot}
  /\ shown' = snapshot
  /\ UNCHANGED <<core, counted, source, stream, polling, asked, breaks>>

RefreshFails ==
  /\ asked > 0 /\ asked' = asked - 1
  /\ IF core THEN MayBreak ELSE UNCHANGED breaks
  /\ UNCHANGED <<core, counted, source, stream, polling, replies, shown>>

FeedNext ==
  \/ IngestLogEntry \/ PublishSnapshot \/ CollectMonitorSnapshot \/ CoreStops \/ CoreStarts
  \/ StreamOpens \/ StreamFails \/ StreamBreaks \/ StreamSnapshot
  \/ Poll \/ RefreshFails \/ \E snapshot \in replies : RefreshNow(snapshot)
-----------------------------------------------------------------------------
(***************************************************************************)
(* Once the log is quiet, what the page shows is what the monitor has      *)
(* counted, and stays so: over streams that break or are refused for good, *)
(* restarts of the core, requests that fail, and answers that come in      *)
(* after a newer snapshot.                                                 *)
(***************************************************************************)
PageCatchesUp == <>[](shown = counted)
=============================================================================
