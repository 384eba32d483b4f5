----------------------------- MODULE MCSystemLog -----------------------------
(***************************************************************************)
(* The log, and a page of the monitor that the log feeds.  What the log    *)
(* does with an entry after the monitor has counted it is nothing to the   *)
(* page, so each behaviour is one of one part, which the initial state     *)
(* picks, and the run has the sum of their states.                         *)
(***************************************************************************)
EXTENDS SystemLog, MonitorPage, TLC

VARIABLE part

bothVars == <<vars, feedVars, part>>

BothInit == part \in {"log", "page"} /\ Init /\ FeedInit

OfLog(A) == part = "log" /\ A /\ UNCHANGED <<feedVars, part>>
OfPage(A) == part = "page" /\ A /\ UNCHANGED <<vars, part>>

BothNext == OfLog(Next) \/ OfPage(FeedNext)

(***************************************************************************)
(* Timers fire, connections and requests are dealt with one way or the     *)
(* other, what was sent arrives, and a core that stopped is started again. *)
(* Nothing makes an entry come, a connection break or the core stop.       *)
(***************************************************************************)
BothSpec ==
  /\ BothInit /\ [][BothNext]_bothVars
  /\ WF_bothVars(OfLog(TimerFlush)) /\ WF_bothVars(OfLog(Leave))
  /\ WF_bothVars(OfLog(\E batch \in inFlight : Written(batch)))
  /\ WF_bothVars(OfPage(CoreStarts)) /\ WF_bothVars(OfPage(StreamOpens))
  /\ WF_bothVars(OfPage(PublishSnapshot)) /\ WF_bothVars(OfPage(StreamSnapshot))
  /\ WF_bothVars(OfPage(Poll)) /\ WF_bothVars(OfPage(CollectMonitorSnapshot))
  /\ WF_bothVars(OfPage(\E snapshot \in replies : RefreshNow(snapshot)))
=============================================================================
