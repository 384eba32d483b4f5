--------------------------- MODULE SendApiProofs ---------------------------
(***************************************************************************)
(* Theorems about POST /send, for every set of requests, keys, bodies and  *)
(* processes and any number of crashes and expiries.  Neither              *)
(* SecondWriteExplained nor AcceptedIsQueued is inductive: a request that  *)
(* is only pending will write later, and a replay answers on the word of a *)
(* record.  The invariant ApiInv of SendApi says what pending requests and *)
(* records stand for.                                                      *)
(***************************************************************************)
EXTENDS SendApi, TLAPS

LEMMA ApiInitInv == Init => ApiInv
BY KeyAssumption, BodyAssumption, BoundsAssumption
   DEF Init, ApiInv, TypeOK, SoleRequest, QueuedByState, BodiesKnown, RecordIsQueued, AcceptedIsQueued,
       State, InFlight, Accepted, Refused, WritesOf, Pending, Known, SameKey

-----------------------------------------------------------------------------
(* What the two ways of changing a request do to it.                       *)

LEMMA ReceiveShape ==
  ASSUME TypeOK, NEW r \in Request, NEW k \in Key \cup {NoKey}, NEW b \in Body,
         NEW s \in State, Receive(r, k, b, s)
  PROVE  /\ request' \in [Request -> [state : State, key : Key \cup {NoKey},
                                     body : Body \cup {NoBody}, at : Process]]
         /\ request'[r].state = s /\ request'[r].key = k /\ request'[r].body = b
         /\ \A q \in Request \ {r} : request'[q] = request[q]
<1>1. request[r] \in [state : State, key : Key \cup {NoKey},
                     body : Body \cup {NoBody}, at : Process]
  BY DEF TypeOK
<1>2. request' = [request EXCEPT ![r] = [state |-> s, key |-> k, body |-> b,
                                         at |-> request[r].at]]
  BY DEF Receive, TypeOK
<1>. QED  BY <1>1, <1>2 DEF TypeOK

LEMMA AnswerShape ==
  ASSUME TypeOK, NEW r \in Request, NEW s \in State, Answer(r, s)
  PROVE  /\ request' \in [Request -> [state : State, key : Key \cup {NoKey},
                                     body : Body \cup {NoBody}, at : Process]]
         /\ request'[r].state = s
         /\ request'[r].key = request[r].key /\ request'[r].body = request[r].body
         /\ \A q \in Request \ {r} : request'[q] = request[q]
<1>1. request[r] \in [state : State, key : Key \cup {NoKey},
                     body : Body \cup {NoBody}, at : Process]
  BY DEF TypeOK
<1>2. [request[r] EXCEPT !.state = s]
        = [state |-> s, key |-> request[r].key, body |-> request[r].body,
           at |-> request[r].at]
  BY <1>1
<1>3. request' = [request EXCEPT ![r] = [state |-> s, key |-> request[r].key,
                                         body |-> request[r].body, at |-> request[r].at]]
  BY <1>2 DEF Answer
<1>. QED  BY <1>1, <1>3 DEF TypeOK

LEMMA CrashShape ==
  ASSUME TypeOK, NEW p \in Process, Crash(p)
  PROVE  /\ request' \in [Request -> [state : State, key : Key \cup {NoKey},
                                     body : Body \cup {NoBody}, at : Process]]
         /\ \A r \in Request :
              /\ request'[r].key = request[r].key /\ request'[r].body = request[r].body
              /\ \/ request'[r].state = request[r].state
                 \/ request'[r].state = "lost" /\ request[r].state \in InFlight
<1>. DEFINE dying == {r \in Request : request[r].state \in InFlight /\ request[r].at = p}
<1>1. request' = [r \in Request |->
                    IF r \in dying THEN [request[r] EXCEPT !.state = "lost"] ELSE request[r]]
  BY DEF Crash
<1>2. ASSUME NEW r \in Request
      PROVE  /\ request[r] \in [state : State, key : Key \cup {NoKey},
                                body : Body \cup {NoBody}, at : Process]
             /\ [request[r] EXCEPT !.state = "lost"]
                  = [state |-> "lost", key |-> request[r].key,
                     body |-> request[r].body, at |-> request[r].at]
  BY DEF TypeOK
<1>3. request' = [r \in Request |->
                    IF r \in dying THEN [state |-> "lost", key |-> request[r].key,
                                         body |-> request[r].body, at |-> request[r].at]
                    ELSE request[r]]
  BY <1>1, <1>2
<1>. HIDE DEF dying
<1>4. "lost" \in State
  BY DEF State
<1>5. request' \in [Request -> [state : State, key : Key \cup {NoKey},
                               body : Body \cup {NoBody}, at : Process]]
  BY <1>2, <1>3, <1>4
<1>6. ASSUME NEW r \in Request
      PROVE  /\ request'[r].key = request[r].key /\ request'[r].body = request[r].body
             /\ \/ request'[r].state = request[r].state
                \/ request'[r].state = "lost" /\ r \in dying
  BY <1>3
<1>. QED  BY <1>5, <1>6 DEF dying

-----------------------------------------------------------------------------
LEMMA TypeStep == TypeOK /\ [Next]_vars => TypeOK'
<1>. SUFFICES ASSUME TypeOK, [Next]_vars PROVE TypeOK'
  OBVIOUS
<1>0. /\ {"replayed", "conflict", "suppressed", "enqueueing"} \subseteq State
      /\ {"recording", "full", "failed", "accepted"} \subseteq State
  BY DEF State, InFlight, Accepted, Refused
<1>1. ASSUME NEW r \in Request, NEW k \in Key \cup {NoKey}, NEW b \in Body, Arrive(r, k, b)
      PROVE  TypeOK'
  <2>1. /\ record' = record /\ queued' = queued /\ crashes' = crashes
        /\ expiries' = expiries /\ excused' \subseteq Key
    BY <1>1 DEF Arrive, Replay, Conflict, Suppressed, Start, TypeOK
  <2>2. PICK s \in State : Receive(r, k, b, s)
    BY <1>1, <1>0 DEF Arrive, Replay, Conflict, Suppressed, Start
  <2>. QED  BY <2>1, <2>2, ReceiveShape DEF TypeOK
<1>2. ASSUME NEW r \in Request, Taken(r) \/ Full(r) \/ EnqueueFails(r) \/ Finish(r)
      PROVE  TypeOK'
  <2>1. /\ crashes' = crashes /\ expiries' = expiries
        /\ queued' \subseteq Request /\ excused' \subseteq Key
    BY <1>2 DEF Taken, Full, EnqueueFails, Finish, TypeOK
  <2>2. PICK s \in State : Answer(r, s)
    BY <1>2, <1>0 DEF Taken, Full, EnqueueFails, Finish
  <2>3. record' \in [Key -> Body \cup {NoBody}]
    <3>1. request[r].body \in Body \cup {NoBody}
      BY DEF TypeOK
    <3>. QED  BY <1>2, <3>1 DEF Taken, Full, EnqueueFails, Finish, TypeOK
  <2>. QED  BY <2>1, <2>2, <2>3, AnswerShape DEF TypeOK
<1>3. ASSUME NEW p \in Process, Crash(p)
      PROVE  TypeOK'
  <2>1. /\ record' = record /\ expiries' = expiries /\ crashes' \in 0 .. MaxCrashes
        /\ queued' \subseteq Request /\ excused' \subseteq Key
    BY <1>3, BoundsAssumption DEF Crash, TypeOK
  <2>. QED  BY <1>3, <2>1, CrashShape DEF TypeOK
<1>4. ASSUME NEW k \in Key, Expire(k)
      PROVE  TypeOK'
  BY <1>4, BoundsAssumption DEF Expire, TypeOK
<1>5. CASE UNCHANGED vars
  BY <1>5 DEF vars, TypeOK
<1>. QED  BY <1>1, <1>2, <1>3, <1>4, <1>5 DEF Next
-----------------------------------------------------------------------------
(* The strengthening, action by action.                                    *)

LEMMA SoleArrive ==
  ASSUME ApiInv, NEW r \in Request, NEW k \in Key \cup {NoKey}, NEW b \in Body, Arrive(r, k, b)
  PROVE  SoleRequest'
<1>. USE DEF ApiInv
<1>1. request[r].state = "new" /\ r \notin queued
  BY DEF Arrive, Replay, Conflict, Suppressed, Start, QueuedByState
<1>2. record' = record /\ queued' = queued /\ excused \subseteq excused'
  BY DEF Arrive, Replay, Conflict, Suppressed, Start
<1>3. PICK s \in State : Receive(r, k, b, s) /\ (s \in InFlight => Start(r, k, b))
  BY DEF Arrive, Replay, Conflict, Suppressed, Start, State, InFlight, Accepted, Refused
<1>4. /\ request'[r].state = s /\ request'[r].key = k
      /\ \A q \in Request \ {r} : request'[q] = request[q]
  <2>1. Receive(r, k, b, s) /\ TypeOK
    BY <1>3
  <2>. QED  BY <2>1, ReceiveShape
<1>5. ASSUME NEW i \in Key \ excused'
      PROVE  /\ \A q, t \in (WritesOf(i) \cup Pending(i))' : q = t
             /\ \A q \in WritesOf(i)' : q \in Pending(i)' \/ Known(i)'
             /\ Known(i)' => Pending(i)' = {}
  <2>1. WritesOf(i)' = WritesOf(i) /\ Known(i)' = Known(i)
    BY <1>1, <1>2, <1>4 DEF WritesOf, Known, TypeOK
  <2>2. i \in Key \ excused
    BY <1>2
  <2>3. CASE s \in InFlight /\ i = k
    <3>0. Start(r, i, b) /\ i \notin excused'
      BY <1>3, <2>3
    <3>1. Pending(i) = {} /\ ~Known(i)
      BY <3>0 DEF Start
    <3>2. WritesOf(i) = {}
      BY <3>1, <2>2 DEF SoleRequest
    <3>3. Pending(i)' = {r}
      BY <1>1, <1>4, <2>3, <3>1 DEF Pending
    <3>. QED  BY <2>1, <3>1, <3>2, <3>3
  <2>4. CASE ~(s \in InFlight /\ i = k)
    <3>1. Pending(i)' = Pending(i)
      BY <1>1, <1>4, <2>4 DEF Pending, InFlight
    <3>. QED  BY <2>1, <2>2, <3>1 DEF SoleRequest
  <2>. QED  BY <2>3, <2>4
<1>. QED  BY <1>5 DEF SoleRequest

LEMMA SoleQueue ==
  ASSUME ApiInv, NEW r \in Request, Taken(r) \/ Full(r) \/ EnqueueFails(r)
  PROVE  SoleRequest'
<1>. USE DEF ApiInv
<1>1. record' = record /\ queued \subseteq queued' /\ excused \subseteq excused'
  BY DEF Taken, Full, EnqueueFails
<1>2. PICK s \in State : Answer(r, s)
  BY DEF Taken, Full, EnqueueFails, State, InFlight, Accepted, Refused
<1>3. /\ request'[r].state = s /\ request'[r].key = request[r].key
      /\ \A q \in Request \ {r} : request'[q] = request[q]
  BY <1>2, AnswerShape
<1>4. ASSUME NEW i \in Key \ excused'
      PROVE  /\ \A q, t \in (WritesOf(i) \cup Pending(i))' : q = t
             /\ \A q \in WritesOf(i)' : q \in Pending(i)' \/ Known(i)'
             /\ Known(i)' => Pending(i)' = {}
  <2>1. i \in Key \ excused /\ Known(i)' = Known(i)
    BY <1>1 DEF Known
  <2>2. CASE Taken(r)
    <3>1. request[r].state = "enqueueing" /\ s = "recording" /\ queued' = queued \cup {r}
      BY <2>2, <1>2, AnswerShape, <1>3 DEF Taken, State, InFlight
    <3>2. Pending(i)' = Pending(i)
      BY <1>3, <3>1 DEF Pending, InFlight
    <3>3. WritesOf(i)' \subseteq WritesOf(i) \cup Pending(i)
      BY <1>3, <3>1 DEF WritesOf, Pending, InFlight, TypeOK
    <3>. QED  BY <2>1, <3>2, <3>3 DEF SoleRequest
  <2>3. CASE Full(r)
    <3>1. request[r].state = "enqueueing" /\ s \notin InFlight /\ r \notin queued
      BY <2>3, <1>2, <1>3, AnswerShape DEF Full, State, InFlight, Refused, QueuedByState
    <3>2. queued' = queued
      BY <2>3 DEF Full
    <3>3. WritesOf(i)' = WritesOf(i) /\ r \notin WritesOf(i)
      BY <1>3, <3>1, <3>2 DEF WritesOf, TypeOK
    <3>4. Pending(i)' = Pending(i) \ {r}
      BY <1>3, <3>1 DEF Pending
    <3>. QED  BY <2>1, <3>3, <3>4 DEF SoleRequest
  <2>4. CASE EnqueueFails(r)
    <3>1. request[r].state \in InFlight /\ s \notin InFlight /\ queued' = queued
      BY <2>4, <1>2, <1>3, AnswerShape DEF EnqueueFails, State, InFlight
    <3>2. WritesOf(i)' = WritesOf(i) /\ r \notin WritesOf(i)
      BY <2>4, <1>3, <3>1 DEF WritesOf, TypeOK, EnqueueFails
    <3>3. Pending(i)' = Pending(i) \ {r}
      BY <1>3, <3>1 DEF Pending
    <3>. QED  BY <2>1, <3>2, <3>3 DEF SoleRequest
  <2>. QED  BY <2>2, <2>3, <2>4
<1>. QED  BY <1>4 DEF SoleRequest

LEMMA SoleFinish ==
  ASSUME ApiInv, NEW r \in Request, Finish(r)
  PROVE  SoleRequest'
<1>. USE DEF ApiInv
<1>1. /\ request[r].state = "recording" /\ queued' = queued /\ excused' = excused
      /\ record' = [k \in Key |-> IF k = request[r].key THEN request[r].body ELSE record[k]]
  BY DEF Finish
<1>2. /\ request'[r].state = "accepted" /\ request'[r].key = request[r].key
      /\ \A q \in Request \ {r} : request'[q] = request[q]
  BY AnswerShape DEF Finish, State, Accepted
<1>3. ASSUME NEW i \in Key \ excused'
      PROVE  /\ \A q, t \in (WritesOf(i) \cup Pending(i))' : q = t
             /\ \A q \in WritesOf(i)' : q \in Pending(i)' \/ Known(i)'
             /\ Known(i)' => Pending(i)' = {}
  <2>1. WritesOf(i)' = WritesOf(i) /\ Pending(i)' = Pending(i) \ {r}
    BY <1>1, <1>2 DEF WritesOf, Pending, InFlight, TypeOK
  <2>2. CASE request[r].key = i
    <3>1. r \in Pending(i)
      BY <1>1, <2>2 DEF Pending, InFlight
    <3>2. Pending(i) = {r} /\ WritesOf(i) \subseteq {r}
      BY <1>1, <3>1 DEF SoleRequest
    <3>3. request[r].body # NoBody
      BY <1>1 DEF BodiesKnown, InFlight
    <3>4. Known(i)'
      BY <1>1, <2>2, <3>3 DEF Known
    <3>. QED  BY <2>1, <3>2, <3>4
  <2>3. CASE request[r].key # i
    <3>1. Known(i)' = Known(i) /\ r \notin Pending(i)
      BY <1>1, <2>3 DEF Known, Pending
    <3>. QED  BY <1>1, <2>1, <3>1 DEF SoleRequest
  <2>. QED  BY <2>2, <2>3
<1>. QED  BY <1>3 DEF SoleRequest

LEMMA SoleCrash ==
  ASSUME ApiInv, NEW p \in Process, Crash(p)
  PROVE  SoleRequest'
<1>. USE DEF ApiInv
<1>. DEFINE dying == {r \in Request : request[r].state \in InFlight /\ request[r].at = p}
<1>1. /\ record' = record /\ queued \subseteq queued' /\ queued' \subseteq queued \cup dying
      /\ excused' = excused \cup {k \in Key : \E r \in dying \cap queued' : request[r].key = k}
  BY DEF Crash
<1>2. /\ \A r \in Request : request'[r].key = request[r].key
      /\ \A r \in Request : request'[r].state \in InFlight => request[r].state \in InFlight
      /\ \A r \in Request : request[r].state \in InFlight /\ r \notin dying
                           => request'[r].state \in InFlight
  <2>1. \A r \in Request \ dying : request'[r] = request[r]
    BY DEF Crash
  <2>2. "lost" \notin InFlight
    BY DEF InFlight
  <2>. QED  BY <2>1, <2>2, CrashShape
<1>. HIDE DEF dying
<1>3. ASSUME NEW i \in Key \ excused'
      PROVE  /\ \A q, t \in (WritesOf(i) \cup Pending(i))' : q = t
             /\ \A q \in WritesOf(i)' : q \in Pending(i)' \/ Known(i)'
             /\ Known(i)' => Pending(i)' = {}
  <2>1. i \in Key \ excused /\ Known(i)' = Known(i)
    BY <1>1 DEF Known
  <2>2. WritesOf(i)' = WritesOf(i) /\ WritesOf(i) \cap dying = {}
    BY <1>1, <1>2 DEF WritesOf, TypeOK, dying
  <2>3. Pending(i)' \subseteq Pending(i) /\ Pending(i) \ dying \subseteq Pending(i)'
    BY <1>2 DEF Pending
  <2>. QED  BY <2>1, <2>2, <2>3 DEF SoleRequest
<1>. QED  BY <1>3 DEF SoleRequest

LEMMA SoleExpire ==
  ASSUME ApiInv, NEW k \in Key, Expire(k)
  PROVE  SoleRequest'
<1>1. /\ request' = request /\ queued' = queued /\ excused' = excused \cup {k}
      /\ \A i \in Key \ {k} : record'[i] = record[i]
  BY DEF Expire, ApiInv, TypeOK
<1>. QED  BY <1>1 DEF ApiInv, SoleRequest, WritesOf, Pending, Known

LEMMA SoleStep == ApiInv /\ [Next]_vars => SoleRequest'
<1>. SUFFICES ASSUME ApiInv, [Next]_vars PROVE SoleRequest'
  OBVIOUS
<1>1. CASE UNCHANGED vars
  BY <1>1 DEF vars, ApiInv, SoleRequest, WritesOf, Pending, Known
<1>. QED  BY <1>1, SoleArrive, SoleQueue, SoleFinish, SoleCrash, SoleExpire DEF Next

-----------------------------------------------------------------------------
(* Who is in the queue, and what the records and the answers stand for.    *)

LEMMA QueuedStep == ApiInv /\ [Next]_vars => QueuedByState' /\ BodiesKnown'
<1>. SUFFICES ASSUME ApiInv, [Next]_vars PROVE QueuedByState' /\ BodiesKnown'
  OBVIOUS
<1>. USE DEF ApiInv, QueuedByState, BodiesKnown, InFlight, Accepted, Refused, State
<1>1. ASSUME NEW r \in Request, NEW k \in Key \cup {NoKey}, NEW b \in Body, Arrive(r, k, b)
      PROVE  QueuedByState' /\ BodiesKnown'
  <2>1. queued' = queued /\ request[r].state = "new"
    BY <1>1 DEF Arrive, Replay, Conflict, Suppressed, Start
  <2>2. PICK s \in {"replayed", "conflict", "suppressed", "enqueueing"} : Receive(r, k, b, s)
    BY <1>1 DEF Arrive, Replay, Conflict, Suppressed, Start
  <2>3. /\ request'[r].state = s /\ request'[r].body = b
        /\ \A q \in Request \ {r} : request'[q] = request[q]
    BY <2>2, ReceiveShape
  <2>. QED  BY <2>1, <2>3, BodyAssumption
<1>2. ASSUME NEW r \in Request, Taken(r) \/ Full(r) \/ EnqueueFails(r) \/ Finish(r)
      PROVE  QueuedByState' /\ BodiesKnown'
  <2>1. CASE Taken(r)
    BY <2>1, AnswerShape DEF Taken
  <2>2. CASE Full(r)
    BY <2>2, AnswerShape DEF Full
  <2>3. CASE EnqueueFails(r)
    BY <2>3, AnswerShape DEF EnqueueFails
  <2>4. CASE Finish(r)
    BY <2>4, AnswerShape DEF Finish
  <2>. QED  BY <1>2, <2>1, <2>2, <2>3, <2>4
<1>3. ASSUME NEW p \in Process, Crash(p)
      PROVE  QueuedByState' /\ BodiesKnown'
  <2>1. PICK late \in SUBSET {r \in Request : request[r].state = "enqueueing"
                                             /\ request[r].at = p} :
          queued' = queued \cup late
    BY <1>3 DEF Crash
  <2>2. \A r \in late : request'[r].state = "lost"
    BY <1>3, <2>1 DEF Crash, TypeOK
  <2>. QED  BY <1>3, <2>1, <2>2, CrashShape
<1>4. ASSUME NEW k \in Key, Expire(k)
      PROVE  QueuedByState' /\ BodiesKnown'
  BY <1>4 DEF Expire
<1>5. CASE UNCHANGED vars
  BY <1>5 DEF vars
<1>. QED  BY <1>1, <1>2, <1>3, <1>4, <1>5 DEF Next

\* A queued job keeps its key and its body, and stays queued.
LEMMA QueuedKept ==
  ASSUME ApiInv, [Next]_vars, NEW q \in queued
  PROVE  /\ q \in Request /\ q \in queued'
         /\ request'[q].key = request[q].key /\ request'[q].body = request[q].body
<1>. USE DEF ApiInv
<1>. DEFINE Kept == /\ request'[q].key = request[q].key /\ request'[q].body = request[q].body
                    /\ q \in queued'
<1>1. q \in Request /\ request[q].state # "new"
  BY DEF QueuedByState, TypeOK
<1>2. ASSUME NEW r \in Request, NEW k \in Key \cup {NoKey}, NEW b \in Body, Arrive(r, k, b)
      PROVE  Kept
  <2>1. request[r].state = "new" /\ queued' = queued
    BY <1>2 DEF Arrive, Replay, Conflict, Suppressed, Start
  <2>2. \E s \in State : Receive(r, k, b, s)
    BY <1>2 DEF Arrive, Replay, Conflict, Suppressed, Start, State, InFlight, Accepted, Refused
  <2>. QED  BY <1>1, <2>1, <2>2, ReceiveShape
<1>3. ASSUME NEW r \in Request, Taken(r) \/ Full(r) \/ EnqueueFails(r) \/ Finish(r)
      PROVE  Kept
  <2>1. queued \subseteq queued'
    BY <1>3 DEF Taken, Full, EnqueueFails, Finish
  <2>2. \E s \in State : Answer(r, s)
    BY <1>3 DEF Taken, Full, EnqueueFails, Finish, State, InFlight, Accepted, Refused
  <2>. QED  BY <1>1, <2>1, <2>2, AnswerShape
<1>4. ASSUME NEW p \in Process, Crash(p)
      PROVE  Kept
  <2>1. queued \subseteq queued'
    BY <1>4 DEF Crash
  <2>. QED  BY <1>1, <1>4, <2>1, CrashShape
<1>5. ASSUME NEW k \in Key, Expire(k)
      PROVE  Kept
  BY <1>5 DEF Expire
<1>6. ASSUME UNCHANGED vars
      PROVE  Kept
  BY <1>6 DEF vars
<1>7. Kept
  <2>. HIDE DEF Kept, ApiInv
  <2>. QED  BY <1>2, <1>3, <1>4, <1>5, <1>6 DEF Next
<1>. QED  BY <1>1, <1>7

LEMMA RecordStep == ApiInv /\ [Next]_vars => RecordIsQueued'
<1>. SUFFICES ASSUME ApiInv, [Next]_vars, NEW k \in Key, record'[k] # NoBody
              PROVE  \E q \in queued' : request'[q].key = k /\ request'[q].body = record'[k]
  BY DEF RecordIsQueued
<1>1. CASE record'[k] = record[k]
  BY <1>1, QueuedKept DEF ApiInv, RecordIsQueued
<1>2. CASE record'[k] # record[k]
  <2>1. PICK r \in Request : Finish(r)
    BY <1>2 DEF Next, vars, Arrive, Replay, Conflict, Suppressed, Start, Taken, Full,
                EnqueueFails, Crash, Expire, ApiInv, TypeOK
  <2>2. request[r].key = k /\ record'[k] = request[r].body
    BY <1>2, <2>1 DEF Finish
  <2>3. r \in queued
    BY <2>1 DEF Finish, ApiInv, QueuedByState
  <2>. QED  BY <2>2, <2>3, QueuedKept
<1>. QED  BY <1>1, <1>2

\* What a step does to one request: it leaves key and body of one that has
\* come, and accepts one by a replay or by the end of the handler only.
LEMMA RequestStep ==
  ASSUME ApiInv, [Next]_vars, NEW t \in Request
  PROVE  /\ request[t].state # "new" =>
              request'[t].key = request[t].key /\ request'[t].body = request[t].body
         /\ request'[t].state \in Accepted =>
              \/ request[t].state \in Accepted
              \/ \E k \in Key \cup {NoKey}, b \in Body : Replay(t, k, b)
              \/ Finish(t)
<1>. DEFINE Kept == request[t].state # "new" =>
                      request'[t].key = request[t].key /\ request'[t].body = request[t].body
            Accepting == request'[t].state \in Accepted =>
                           \/ request[t].state \in Accepted
                           \/ \E k \in Key \cup {NoKey}, b \in Body : Replay(t, k, b)
                           \/ Finish(t)
<1>1. ASSUME NEW r \in Request, NEW k \in Key \cup {NoKey}, NEW b \in Body, Arrive(r, k, b)
      PROVE  Kept /\ Accepting
  <2>1. request[r].state = "new"
    BY <1>1 DEF Arrive, Replay, Conflict, Suppressed, Start
  <2>2. PICK s \in State : Receive(r, k, b, s) /\ (s \in Accepted => Replay(r, k, b))
    BY <1>1 DEF Arrive, Replay, Conflict, Suppressed, Start, State, InFlight, Accepted, Refused
  <2>3. request'[r].state = s /\ \A q \in Request \ {r} : request'[q] = request[q]
    BY <2>2, ReceiveShape DEF ApiInv
  <2>. QED  BY <2>1, <2>2, <2>3
<1>2. ASSUME NEW r \in Request, Taken(r) \/ Full(r) \/ EnqueueFails(r) \/ Finish(r)
      PROVE  Kept /\ Accepting
  <2>1. PICK s \in State : Answer(r, s) /\ (s \in Accepted => Finish(r))
    BY <1>2 DEF Taken, Full, EnqueueFails, Finish, State, InFlight, Accepted, Refused
  <2>. QED  BY <2>1, AnswerShape DEF ApiInv
<1>3. ASSUME NEW p \in Process, Crash(p)
      PROVE  Kept /\ Accepting
  <2>1. "lost" \notin Accepted
    BY DEF Accepted
  <2>. QED  BY <1>3, <2>1, CrashShape DEF ApiInv
<1>4. ASSUME NEW k \in Key, Expire(k)
      PROVE  Kept /\ Accepting
  BY <1>4 DEF Expire
<1>5. CASE UNCHANGED vars
  BY <1>5 DEF vars
<1>. QED  BY <1>1, <1>2, <1>3, <1>4, <1>5 DEF Next

LEMMA AcceptedStep == ApiInv /\ [Next]_vars => AcceptedIsQueued'
<1>. SUFFICES ASSUME ApiInv, [Next]_vars, NEW t \in Request, request'[t].state \in Accepted
              PROVE  \E q \in queued' :
                       t = q \/ (SameKey(t, q)' /\ request'[t].body = request'[q].body)
  BY DEF AcceptedIsQueued
<1>. USE DEF ApiInv
<1>1. CASE request[t].state \in Accepted
  <2>1. PICK q \in queued : t = q \/ (SameKey(t, q) /\ request[t].body = request[q].body)
    BY <1>1 DEF AcceptedIsQueued
  <2>2. request'[t].key = request[t].key /\ request'[t].body = request[t].body
    BY <1>1, RequestStep DEF Accepted
  <2>. QED  BY <2>1, <2>2, QueuedKept DEF SameKey
<1>2. CASE request[t].state \notin Accepted
  <2>1. CASE \E k \in Key \cup {NoKey}, b \in Body : Replay(t, k, b)
    <3>1. PICK k \in Key \cup {NoKey}, b \in Body : Replay(t, k, b)
      BY <2>1
    <3>2. k \in Key /\ record[k] = b /\ record[k] # NoBody
      BY <3>1 DEF Replay, Known
    <3>3. request'[t].key = k /\ request'[t].body = b
      BY <3>1, ReceiveShape DEF Replay, State, Accepted
    <3>4. PICK q \in queued : request[q].key = k /\ request[q].body = b
      BY <3>2 DEF RecordIsQueued
    <3>. QED  BY <3>2, <3>3, <3>4, QueuedKept DEF SameKey
  <2>2. CASE Finish(t)
    BY <2>2, QueuedKept DEF Finish, QueuedByState
  <2>3. \/ \E k \in Key \cup {NoKey}, b \in Body : Replay(t, k, b)
        \/ Finish(t)
    BY <1>2, RequestStep
  <2>. QED  BY <2>1, <2>2, <2>3
<1>. QED  BY <1>1, <1>2
-----------------------------------------------------------------------------
LEMMA ApiStepInv == ApiInv /\ [Next]_vars => ApiInv'
BY TypeStep, SoleStep, QueuedStep, RecordStep, AcceptedStep DEF ApiInv

\* The inductive invariant of POST /send: of a key without an excuse one request
\* at most is pending or written; records, answers and queue agree.
THEOREM ApiInvariant == Spec => []ApiInv
<1>1. Init => ApiInv
  BY ApiInitInv
<1>2. ApiInv /\ [Next]_vars => ApiInv'
  BY ApiStepInv
<1>. QED  BY <1>1, <1>2, PTL DEF Spec

\* A key is written to the queue twice for the four causes only (the lookup
\* of app.js:333 and the record of app.js:445).
THEOREM KeyWrittenOnce == Spec => []SecondWriteExplained
<1>1. ApiInv => SecondWriteExplained
  BY DEF ApiInv, SoleRequest, SecondWriteExplained
<1>. QED  BY <1>1, ApiInvariant, PTL

\* Every 202, replayed or not, stands for a queued mail of the same content
\* (app.js:346-348, 476), a 409 or a 503 for none (app.js:335-345, 371, 416),
\* and every record for one with its content.
THEOREM ApiTellsTheTruth == Spec => []AnswersTrue
<1>1. ApiInv => AcceptedIsQueued /\ RecordIsQueued
  BY DEF ApiInv
<1>2. ApiInv => RefusedNotQueued
  BY DEF ApiInv, QueuedByState, RefusedNotQueued
<1>3. ApiInv => AnswersTrue
  BY <1>1, <1>2 DEF AnswersTrue
<1>. QED  BY <1>3, ApiInvariant, PTL
=============================================================================
