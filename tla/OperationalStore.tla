--------------------------- MODULE OperationalStore ---------------------------
(***************************************************************************)
(* Suppressions and audit events in the operational store                  *)
(* (src/src/operationalStore.js), which the processes of the API and of    *)
(* the worker and the web panel share.  A handler runs to its end in its   *)
(* own process, but it is a row of statements, each of which commits by    *)
(* itself: the other processes come in between, and any of them may fail   *)
(* (a locked file is an error at once) or be the last before a crash.  The *)
(* same holds for the migration that a process runs when it starts.        *)
(*                                                                         *)
(* The store is that of one recipient; Global is the tenant of all.        *)
(***************************************************************************)
EXTENDS Naturals, Sequences, FiniteSets

CONSTANTS
  Api, Worker, Panel,    \* the processes
  Tenant, Global,
  MaxRequests, MaxFaults \* bounds of the model

Process == Api \cup Worker \cup Panel

ASSUME StoreAssumption == Global \in Tenant /\ {MaxRequests, MaxFaults} \subseteq Nat

VARIABLES
  table,     \* the table of suppressions: of the "old" key, of the "new" one, or "absent"
  rows,      \* the tenants for which the recipient is suppressed in it
  legacy,    \* what is in the table that each process has renamed
  phase,     \* of each process, in opening the store
  todo,      \* of each process: the statements of its request that are to come
  request,   \* and what that is about: the tenant, and whether the answer will say
             \* that the recipient is suppressed, and for what
  seen,      \* the last audit event that each process has read
  audit,     \* of each audit event: the event whose hash it has; 0: GENESIS
  requests, faults,   \* how many so far
  promised,  \* history: the tenants for which an answer called the recipient
             \* suppressed, each with what that was for
  orphaned   \* history: a migration ended between renaming and copying

tables == <<table, rows, legacy>>
handling == <<todo, request, seen>>
storeVars == <<tables, phase, handling, audit, requests, faults, promised, orphaned>>

Migrating == {"rename", "create", "copy", "drop"}
Statement == {"row", "suppress", "read", "audit"}
\* An answer says "suppressed" because the request writes that, or because a
\* bounce is classified as a complaint.
Basis == {"suppression", "complaint"}
Request == [tenant : Tenant, says : {"nothing"} \cup Basis]
NoRequest == [tenant |-> Global, says |-> "nothing"]

StoreTypeOK ==
  /\ table \in {"old", "new", "absent"} /\ rows \subseteq Tenant
  /\ legacy \in [Process -> SUBSET Tenant]
  /\ phase \in [Process -> {"down", "opened", "up"} \cup Migrating]
  /\ todo \in [Process -> Seq(Statement)]
  /\ request \in [Process -> Request]
  /\ seen \in [Process -> Nat]
  /\ audit \in Seq(Nat)
  /\ requests \in 0 .. MaxRequests /\ faults \in 0 .. MaxFaults
  /\ promised \subseteq Tenant \X Basis /\ orphaned \in BOOLEAN

\* A store of before, where a recipient had one row, or none yet.
StoreInit ==
  /\ \/ table = "absent" /\ rows = {}
     \/ table = "old" /\ rows \in {{}} \cup {{t} : t \in Tenant}
  /\ legacy = [p \in Process |-> {}] /\ phase = [p \in Process |-> "down"]
  /\ todo = [p \in Process |-> <<>>] /\ request = [p \in Process |-> NoRequest]
  /\ seen = [p \in Process |-> 0] /\ audit = <<>>
  /\ requests = 0 /\ faults = 0
  /\ promised = rows \X {"suppression"} /\ orphaned = FALSE

-----------------------------------------------------------------------------
(* createOperationalStore.                                                 *)

To(p, next) == phase' = [phase EXCEPT ![p] = next]

\* What it has renamed and not copied yet stays behind.
Throws(p) ==
  /\ To(p, "down")
  /\ orphaned' = (orphaned \/ (phase[p] \in {"create", "copy"} /\ legacy[p] # {}))
  /\ legacy' = [legacy EXCEPT ![p] = {}]
  /\ UNCHANGED <<table, rows>>

\* CREATE TABLE IF NOT EXISTS.
Open(p) ==
  /\ phase[p] = "down"
  /\ To(p, "opened")
  /\ table' = IF table = "absent" THEN "new" ELSE table
  /\ UNCHANGED <<rows, legacy, orphaned, handling, audit, requests, faults, promised>>

\* PRAGMA table_info: only the new key is left alone.
CheckKey(p) ==
  /\ phase[p] = "opened"
  /\ To(p, IF table = "new" THEN "up" ELSE "rename")
  /\ UNCHANGED <<tables, orphaned, handling, audit, requests, faults, promised>>

Rename(p) ==
  /\ phase[p] = "rename"
  /\ IF table = "absent" THEN Throws(p)
     ELSE /\ To(p, "create")
          /\ table' = "absent" /\ rows' = {} /\ legacy' = [legacy EXCEPT ![p] = rows]
          /\ UNCHANGED orphaned
  /\ UNCHANGED <<handling, audit, requests, faults, promised>>

Create(p) ==
  /\ phase[p] = "create"
  /\ IF table # "absent" THEN Throws(p)
     ELSE To(p, "copy") /\ table' = "new" /\ UNCHANGED <<rows, legacy, orphaned>>
  /\ UNCHANGED <<handling, audit, requests, faults, promised>>

\* INSERT OR IGNORE ... SELECT.
Copy(p) ==
  /\ phase[p] = "copy"
  /\ IF table = "absent" THEN Throws(p)
     ELSE To(p, "drop") /\ rows' = rows \cup legacy[p] /\ UNCHANGED <<table, legacy, orphaned>>
  /\ UNCHANGED <<handling, audit, requests, faults, promised>>

Drop(p) ==
  /\ phase[p] = "drop"
  /\ To(p, "up")
  /\ legacy' = [legacy EXCEPT ![p] = {}]
  /\ UNCHANGED <<table, rows, orphaned, handling, audit, requests, faults, promised>>

-----------------------------------------------------------------------------
(* The requests, as rows of statements.                                    *)

\* The order of the rules of classifyBounce; several may fit one answer.
Classified(signs) ==
  CASE "complaint" \in signs -> "complaint"
    [] signs \cap {"complaint", "greylisted"} = {"greylisted"} -> "soft"
    [] signs \cap {"complaint", "greylisted", "hard"} = {"hard"} -> "hard"
    [] signs = {"soft"} -> "soft"
    [] OTHER -> "unknown"
Signs == SUBSET {"complaint", "greylisted", "hard", "soft"}

InsertAuditEvent == <<"read", "audit">>
AddSuppression == <<"suppress">> \o InsertAuditEvent
InsertBounceEvent(type) == <<"row">> \o IF type = "hard" THEN AddSuppression ELSE <<>>
InsertComplaintEvent == <<"row">> \o AddSuppression
RecordDeliveryEvent == <<"row">>
RecordJobLifecycle == <<"row">>

Begin(p, t, statements, says) ==
  /\ phase[p] = "up" /\ todo[p] = <<>>
  /\ requests < MaxRequests /\ requests' = requests + 1
  /\ todo' = [todo EXCEPT ![p] = statements]
  /\ request' = [request EXCEPT ![p] = [tenant |-> t, says |-> says]]
  /\ UNCHANGED <<tables, phase, seen, audit, faults, promised, orphaned>>

\* A link of List-Unsubscribe, or its form.
Unsubscribe(p, t) == p \in Api /\ Begin(p, t, AddSuppression, "suppression")

\* The answer of POST /webhooks/bounce: a complaint is "suppressed" like a hard
\* bounce, although insertBounceEvent suppresses hard bounces only.
BounceAnswer(type) ==
  CASE type = "hard" -> "suppression"
    [] type = "complaint" -> "complaint"
    [] OTHER -> "nothing"

BounceWebhookRequest(p, t) ==
  /\ p \in Api
  /\ \E signs \in Signs :
       LET type == Classified(signs) IN
       Begin(p, t, InsertBounceEvent(type) \o RecordDeliveryEvent \o InsertAuditEvent,
             BounceAnswer(type))

ComplaintWebhook(p, t) ==
  p \in Api /\ Begin(p, t, InsertComplaintEvent \o RecordDeliveryEvent \o InsertAuditEvent,
                      "suppression")

\* The worker has a hard bounce of a mail to the recipient.
SuppressRecipients == AddSuppression
SmtpBounce(p, t) ==
  p \in Worker /\ \E signs \in Signs :
    /\ Classified(signs) = "hard"
    /\ Begin(p, t, SuppressRecipients \o RecordJobLifecycle \o RecordDeliveryEvent, "nothing")

\* A change of the settings in the panel, and a mail queued by the API.
AuditOnly(p) == p \in Api \cup Panel /\ Begin(p, Global, InsertAuditEvent, "nothing")

-----------------------------------------------------------------------------
\* The statement of p is done; after the last one the answer is sent.
Done(p) ==
  /\ todo' = [todo EXCEPT ![p] = Tail(@)]
  /\ promised' = IF Len(todo[p]) = 1 /\ request[p].says # "nothing"
                 THEN promised \cup {<<request[p].tenant, request[p].says>>} ELSE promised
  /\ UNCHANGED <<table, legacy, phase, request, requests, faults, orphaned>>

Comes(p, statement) == todo[p] # <<>> /\ Head(todo[p]) = statement

InsertRow(p) == Comes(p, "row") /\ Done(p) /\ UNCHANGED <<rows, seen, audit>>

\* INSERT OR REPLACE; a table that another process has renamed is missing.
Suppress(p) ==
  /\ Comes(p, "suppress") /\ table # "absent"
  /\ rows' = rows \cup {request[p].tenant}
  /\ Done(p) /\ UNCHANGED <<seen, audit>>

\* insertAuditEvent: the hash of the last event, and then the new event.
ReadLastAudit(p) ==
  /\ Comes(p, "read")
  /\ seen' = [seen EXCEPT ![p] = Len(audit)]
  /\ Done(p) /\ UNCHANGED <<rows, audit>>

InsertAudit(p) ==
  /\ Comes(p, "audit")
  /\ audit' = Append(audit, seen[p])
  /\ Done(p) /\ UNCHANGED <<rows, seen>>

\* Mutant: a statement that fails is passed over.
PassOver(p) ==
  /\ todo[p] # <<>> /\ faults < MaxFaults /\ faults' = faults + 1
  /\ todo' = [todo EXCEPT ![p] = Tail(@)]
  /\ promised' = IF Len(todo[p]) = 1 /\ request[p].says # "nothing"
                 THEN promised \cup {<<request[p].tenant, request[p].says>>} ELSE promised
  /\ UNCHANGED <<tables, phase, request, seen, audit, requests, orphaned>>

\* It throws: the rest is not done, and the answer is an error.
StatementFails(p) ==
  /\ todo[p] # <<>> /\ faults < MaxFaults /\ faults' = faults + 1
  /\ todo' = [todo EXCEPT ![p] = <<>>]
  /\ UNCHANGED <<tables, phase, request, seen, audit, requests, promised, orphaned>>

NoTable(p) ==
  /\ Comes(p, "suppress") /\ table = "absent"
  /\ todo' = [todo EXCEPT ![p] = <<>>]
  /\ UNCHANGED <<tables, phase, request, seen, audit, requests, faults, promised, orphaned>>

Die(p) ==
  /\ phase[p] # "down" /\ faults < MaxFaults /\ faults' = faults + 1
  /\ Throws(p)
  /\ todo' = [todo EXCEPT ![p] = <<>>]
  /\ UNCHANGED <<request, seen, audit, requests, promised>>

\* getSuppression: the row of the tenant, or that of all.
GetSuppression(t) == rows \cap {t, Global}

\* findSuppressedRecipients, with which a mail of the tenant is refused.
Suppressed(t) == GetSuppression(t) # {}

StoreNext ==
  \E p \in Process :
    \/ Open(p) \/ CheckKey(p) \/ Rename(p) \/ Create(p) \/ Copy(p) \/ Drop(p)
    \/ \E t \in Tenant :
         Unsubscribe(p, t) \/ BounceWebhookRequest(p, t) \/ ComplaintWebhook(p, t) \/ SmtpBounce(p, t)
    \/ AuditOnly(p)
    \/ InsertRow(p) \/ Suppress(p) \/ ReadLastAudit(p) \/ InsertAudit(p)
    \/ StatementFails(p) \/ NoTable(p) \/ Die(p)

StoreSpec == StoreInit /\ [][StoreNext]_storeVars
-----------------------------------------------------------------------------
Moving == \E p \in Process : phase[p] \in {"create", "copy"} /\ legacy[p] # {}

(***************************************************************************)
(* A recipient whom an answer called suppressed, or who was in the store   *)
(* before the upgrade, is suppressed from then on, whichever statements of *)
(* whichever process come in between, fail, or are the last before a crash *)
(* - except while a migration has moved rows aside, and for good after one *)
(* that ended there, by a crash or because another process that started    *)
(* meanwhile had created the table.  One kind of answer is not kept: that  *)
(* to a complaint which came in as a bounce (app.js:1508), whose recipient *)
(* is suppressed only if something else suppresses it.                     *)
(***************************************************************************)
SuppressionKept ==
  Moving \/ orphaned
    \/ \A promise \in promised : Suppressed(promise[1]) \/ promise[2] = "complaint"

(***************************************************************************)
(* "Hash chain over append-only audit records": each event has the hash of *)
(* the event before it, so that none can be taken out unnoticed.           *)
(***************************************************************************)
ChainLinear == \A i \in 1 .. Len(audit) : audit[i] = i - 1
===============================================================================
