------------------------------ MODULE SendApi ------------------------------
(***************************************************************************)
(* POST /send (src/src/app.js) with its idempotency records                *)
(* (src/src/operationalStore.js), under concurrent requests to any number  *)
(* of API processes that share the store and the queue.  The code between  *)
(* two awaits is one action; the queue's answer to an enqueue, the answer  *)
(* to getDepth and everything another request does come in between.        *)
(*                                                                         *)
(* A key stands for a key with its tenant and actor.  A job carries a      *)
(* fresh uuid, so the request stands for the job that it enqueues.         *)
(* Validation, rate limits and authentication come before the first        *)
(* action; lifecycle, event and audit rows, which nothing reads back here, *)
(* are left out.                                                           *)
(***************************************************************************)
EXTENDS Naturals

CONSTANTS
  Request,    \* the requests that may arrive
  Key,        \* idempotency keys
  NoKey,      \* a request without one
  Body,       \* payloads, as far as hashRequest tells them apart
  NoBody,     \* no record
  Process,    \* the API processes
  MaxCrashes, MaxExpiries   \* bounds of the model

ASSUME KeyAssumption == NoKey \notin Key
ASSUME BodyAssumption == NoBody \notin Body
ASSUME BoundsAssumption == MaxCrashes \in Nat /\ MaxExpiries \in Nat

VARIABLES
  request,    \* of each request: its state, key, body and process
  record,     \* idempotency_records: the body of the unexpired record of a key
  queued,     \* the requests whose job the queue has taken
  excused,    \* history: keys for which a second queue write has a known cause
  crashes, expiries   \* how many so far, for the bounds

vars == <<request, record, queued, excused, crashes, expiries>>

-----------------------------------------------------------------------------
(***************************************************************************)
(* "new": has not come.  "enqueueing": waits for queue.enqueue.  "recording"*)
(* : enqueued, and waits for its reply or for queue.getDepth.  "lost": died *)
(* with its process.  The rest are answers: 202, a replayed 202, 409 (key   *)
(* conflict or suppressed recipient), 503 and 500.                          *)
(***************************************************************************)
InFlight == {"enqueueing", "recording"}
Accepted == {"accepted", "replayed"}
Refused == {"conflict", "suppressed", "full"}
State == {"new"} \cup InFlight \cup Accepted \cup Refused \cup {"failed", "lost"}

TypeOK ==
  /\ request \in [Request -> [state : State, key : Key \cup {NoKey},
                              body : Body \cup {NoBody}, at : Process]]
  /\ record \in [Key -> Body \cup {NoBody}]
  /\ queued \subseteq Request
  /\ excused \subseteq Key
  /\ crashes \in 0 .. MaxCrashes
  /\ expiries \in 0 .. MaxExpiries

Init ==
  /\ request \in [Request -> [state : {"new"}, key : {NoKey}, body : {NoBody}, at : Process]]
  /\ record = [k \in Key |-> NoBody]
  /\ queued = {}
  /\ excused = {}
  /\ crashes = 0
  /\ expiries = 0

\* The requests with key k that are between their lookup and their record.
Pending(k) == {r \in Request : request[r].state \in InFlight /\ request[r].key = k}

Answer(r, state) == request' = [request EXCEPT ![r].state = state]

Receive(r, k, b, state) ==
  request' = [request EXCEPT ![r] = [state |-> state, key |-> k, body |-> b, at |-> @.at]]

-----------------------------------------------------------------------------
(* The handler up to queue.enqueue.                                        *)

Known(k) == k \in Key /\ record[k] # NoBody

\* Mutant: the hash of the request is not compared.
ReplayAnyBody(r, k, b) ==
  /\ request[r].state = "new"
  /\ Known(k)
  /\ Receive(r, k, b, "replayed")
  /\ UNCHANGED <<record, queued, excused, crashes, expiries>>

\* The stored status and body are sent again.
Replay(r, k, b) ==
  /\ request[r].state = "new"
  /\ Known(k)
  /\ record[k] = b
  /\ Receive(r, k, b, "replayed")
  /\ UNCHANGED <<record, queued, excused, crashes, expiries>>

Conflict(r, k, b) ==
  /\ request[r].state = "new"
  /\ Known(k)
  /\ record[k] # b
  /\ Receive(r, k, b, "conflict")
  /\ UNCHANGED <<record, queued, excused, crashes, expiries>>

\* The suppression list, which webhooks and workers change at any time, has
\* one of the recipients.
Suppressed(r, k, b) ==
  /\ request[r].state = "new"
  /\ ~Known(k)
  /\ Receive(r, k, b, "suppressed")
  /\ UNCHANGED <<record, queued, excused, crashes, expiries>>

\* Mutant: the lookup is left out.
StartUnseen(r, k, b) ==
  /\ request[r].state = "new"
  /\ Receive(r, k, b, "enqueueing")
  /\ excused' = IF k \in Key /\ Pending(k) # {} THEN excused \cup {k} ELSE excused
  /\ UNCHANGED <<record, queued, crashes, expiries>>

\* No record: the handler calls queue.enqueue.  Nothing tells it of another
\* request with the same key that has not come to its record yet.
Start(r, k, b) ==
  /\ request[r].state = "new"
  /\ ~Known(k)
  /\ Receive(r, k, b, "enqueueing")
  /\ excused' = IF k \in Key /\ Pending(k) # {} THEN excused \cup {k} ELSE excused
  /\ UNCHANGED <<record, queued, crashes, expiries>>

-----------------------------------------------------------------------------
(* queue.enqueue.                                                          *)

Taken(r) ==
  /\ request[r].state = "enqueueing"
  /\ queued' = queued \cup {r}
  /\ Answer(r, "recording")
  /\ UNCHANGED <<record, excused, crashes, expiries>>

\* The memory queue throws QUEUE_FULL.
Full(r) ==
  /\ request[r].state = "enqueueing"
  /\ Answer(r, "full")
  /\ UNCHANGED <<record, queued, excused, crashes, expiries>>

\* Any other error goes to next(): Redis did not take the job, or it did and
\* the connection broke before it said so.
EnqueueFails(r) ==
  /\ request[r].state \in InFlight
  /\ Answer(r, "failed")
  /\ excused' = excused \cup {k \in Key : r \in queued /\ request[r].key = k}
  /\ UNCHANGED <<record, queued, crashes, expiries>>

-----------------------------------------------------------------------------
(* After queue.getDepth, whose error is swallowed.                         *)

\* INSERT OR REPLACE, then 202 (which the client may never receive).
Finish(r) ==
  /\ request[r].state = "recording"
  /\ record' = [k \in Key |-> IF k = request[r].key THEN request[r].body ELSE record[k]]
  /\ Answer(r, "accepted")
  /\ UNCHANGED <<queued, excused, crashes, expiries>>

(***************************************************************************)
(* A process ends: killed, at the end of its drain time, or because the    *)
(* store threw inside the handler, whose promise nobody catches.  A job    *)
(* that it had sent to Redis may still arrive there.                       *)
(***************************************************************************)
Crash(p) ==
  LET dying == {r \in Request : request[r].state \in InFlight /\ request[r].at = p}
  IN  /\ crashes < MaxCrashes
      /\ dying # {}
      /\ crashes' = crashes + 1
      /\ \E late \in SUBSET {r \in dying : request[r].state = "enqueueing"} :
           queued' = queued \cup late
      /\ request' = [r \in Request |->
                       IF r \in dying THEN [request[r] EXCEPT !.state = "lost"] ELSE request[r]]
      /\ excused' = excused \cup {k \in Key : \E r \in dying \cap queued' : request[r].key = k}
      /\ UNCHANGED <<record, expiries>>

\* IDEMPOTENCY_TTL_MS after it was written, the lookup no longer sees a record.
Expire(k) ==
  /\ expiries < MaxExpiries
  /\ record[k] # NoBody
  /\ expiries' = expiries + 1
  /\ record' = [record EXCEPT ![k] = NoBody]
  /\ excused' = excused \cup {k}
  /\ UNCHANGED <<request, queued, crashes>>

-----------------------------------------------------------------------------
Arrive(r, k, b) ==
  Replay(r, k, b) \/ Conflict(r, k, b) \/ Suppressed(r, k, b) \/ Start(r, k, b)

Next ==
  \/ \E r \in Request, k \in Key \cup {NoKey}, b \in Body : Arrive(r, k, b)
  \/ \E r \in Request : Taken(r) \/ Full(r) \/ EnqueueFails(r) \/ Finish(r)
  \/ \E p \in Process : Crash(p)
  \/ \E k \in Key : Expire(k)

Spec == Init /\ [][Next]_vars

-----------------------------------------------------------------------------
SameKey(r, q) == request[r].key = request[q].key /\ request[r].key \in Key
WritesOf(k) == {r \in queued : request[r].key = k}

(***************************************************************************)
(* Two queue writes for one key have one of four causes: requests that     *)
(* overlapped, a process that died, or an enqueue whose reply was lost,    *)
(* after the queue took the job, or a record that expired.  A client that  *)
(* retries after any other answer causes none.                             *)
(***************************************************************************)
SecondWriteExplained ==
  \A k \in Key \ excused : \A r, q \in WritesOf(k) : r = q

\* The client that is told 202 has its mail in the queue: its own, or for a
\* replay one with the same key and the same content.
AcceptedIsQueued ==
  \A r \in Request : request[r].state \in Accepted =>
    \E q \in queued : r = q \/ (SameKey(r, q) /\ request[r].body = request[q].body)

\* The client that is told to come again or to change its request has written
\* nothing: a retry under another key does not send the mail twice.
RefusedNotQueued == \A r \in Request : request[r].state \in Refused => r \notin queued

\* An unexpired record stands for a mail in the queue.
RecordIsQueued ==
  \A k \in Key : record[k] # NoBody =>
    \E q \in queued : request[q].key = k /\ request[q].body = record[k]

(***************************************************************************)
(* The API tells its clients the truth, however requests, crashes, replies *)
(* of Redis and expiries interleave: of a mail that was accepted, of one   *)
(* that was refused, and of what a later request with the key will be told.*)
(***************************************************************************)
AnswersTrue == AcceptedIsQueued /\ RefusedNotQueued /\ RecordIsQueued

-----------------------------------------------------------------------------
(***************************************************************************)
(* The strengthening that is inductive: of a key without an excuse one     *)
(* request at most is pending or written; a write whose request is over    *)
(* has left its record; and no request is pending beside a record.         *)
(***************************************************************************)
SoleRequest ==
  \A k \in Key \ excused :
    /\ \A r, q \in WritesOf(k) \cup Pending(k) : r = q
    /\ \A r \in WritesOf(k) : r \in Pending(k) \/ Known(k)
    /\ Known(k) => Pending(k) = {}

\* Who is in the queue, by the state of its request.
QueuedByState ==
  \A r \in Request :
    /\ request[r].state \in {"recording", "accepted"} => r \in queued
    /\ request[r].state \in {"new", "enqueueing", "replayed"} \cup Refused => r \notin queued

\* A request has its body as long as it is on its way to the record.
BodiesKnown == \A r \in Request : request[r].state \in InFlight => request[r].body # NoBody

ApiInv ==
  /\ TypeOK
  /\ SoleRequest
  /\ QueuedByState
  /\ BodiesKnown
  /\ RecordIsQueued
  /\ AcceptedIsQueued
=============================================================================
