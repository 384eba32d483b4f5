---------------------------- MODULE MailDelivery ----------------------------
(***************************************************************************)
(* What the delivery pipeline promises to whoever got a 202 from POST /send*)
(* (docs/ENTERPRISE_HARDENING.md, "At-least-once delivery" and "DLQ"): an  *)
(* accepted job is kept until it has been settled, a job may be sent more  *)
(* than once, and a job that is no longer kept never comes back.           *)
(***************************************************************************)
CONSTANT Job

VARIABLES
  accepted,      \* jobs pushed on the queue
  kept,          \* jobs that the queue still stores
  sent,          \* jobs that the SMTP provider took at least once
  deadLettered,  \* jobs with a dead-letter row
  abandoned      \* jobs whose dead-letter row could not be written

vars == <<accepted, kept, sent, deadLettered, abandoned>>

Settled == sent \cup deadLettered \cup abandoned

Init ==
  /\ accepted = {} /\ kept = {}
  /\ sent = {} /\ deadLettered = {} /\ abandoned = {}

Accept(j) ==
  /\ j \notin accepted
  /\ accepted' = accepted \cup {j}
  /\ kept' = kept \cup {j}
  /\ UNCHANGED <<sent, deadLettered, abandoned>>

\* Sending and giving up need not see the job kept: the process that does it
\* may hold a job that another process has settled meanwhile.
Send(j) ==
  /\ j \in accepted
  /\ sent' = sent \cup {j}
  /\ UNCHANGED <<accepted, kept, deadLettered, abandoned>>

DeadLetter(j) ==
  /\ j \in accepted
  /\ deadLettered' = deadLettered \cup {j}
  /\ UNCHANGED <<accepted, kept, sent, abandoned>>

Abandon(j) ==
  /\ j \in accepted
  /\ abandoned' = abandoned \cup {j}
  /\ UNCHANGED <<accepted, kept, sent, deadLettered>>

Release(j) ==
  /\ j \in kept
  /\ j \in Settled
  /\ kept' = kept \ {j}
  /\ UNCHANGED <<accepted, sent, deadLettered, abandoned>>

Next == \E j \in Job : Accept(j) \/ Send(j) \/ DeadLetter(j) \/ Abandon(j) \/ Release(j)

Spec == Init /\ [][Next]_vars
=============================================================================
