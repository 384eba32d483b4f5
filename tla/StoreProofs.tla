---------------------------- MODULE StoreProofs ----------------------------
(***************************************************************************)
(* Proofs about the operational store, for any number of processes and     *)
(* tenants, and about the quota that counts its delivery events, for any   *)
(* number of runners and any limits.                                       *)
(*                                                                         *)
(* SuppressionKept is not inductive: a promise is made at the last of a    *)
(* row of statements, long after the one that keeps it, and what keeps it  *)
(* may be with a migration meanwhile.  The invariant says of each promise  *)
(* where it is kept, and of each request that will make one that it is     *)
(* kept already, or that the statement which does is still to come.  The   *)
(* answer to a complaint that came in as a bounce is no such promise.      *)
(*                                                                         *)
(* QuotaOvershoot is inductive: an attempt begins below the limit, where   *)
(* even all runners together add no more than what the bound allows, and   *)
(* when it is recorded the runner no longer counts as sending.             *)
(***************************************************************************)
EXTENDS OperationalStore, DeliveryPolicy, FiniteSetTheorems, SequenceTheorems, TLAPS

-----------------------------------------------------------------------------
(* The invariant.                                                          *)

Has(statements) == \E i \in 1 .. Len(statements) : statements[i] = "suppress"

\* A migration has the suppression aside.
Aside(t) ==
  \E p \in Process : phase[p] \in {"create", "copy"} /\ legacy[p] \cap {t, Global} # {}

Kept(t) == orphaned \/ Suppressed(t) \/ Aside(t)

PromisesKept == \A t \in Tenant : <<t, "suppression">> \in promised => Kept(t)

WillBeKept ==
  \A p \in Process :
    todo[p] # <<>> /\ request[p].says = "suppression" => Has(todo[p]) \/ Kept(request[p].tenant)

StoreInv == StoreTypeOK /\ PromisesKept /\ WillBeKept

-----------------------------------------------------------------------------
(* Rows of statements.                                                     *)

LEMMA Elements ==
  /\ <<"row">> \in Seq(Statement) /\ <<"suppress">> \in Seq(Statement)
  /\ InsertAuditEvent \in Seq(Statement) /\ <<>> \in Seq(Statement)
  /\ Has(<<"suppress">>)
BY DEF Statement, InsertAuditEvent, Has

LEMMA HasConcat ==
  ASSUME NEW s \in Seq(Statement), NEW t \in Seq(Statement)
  PROVE  /\ s \o t \in Seq(Statement)
         /\ Has(s) \/ Has(t) => Has(s \o t)
<1>1. /\ s \o t \in Seq(Statement) /\ Len(s \o t) = Len(s) + Len(t)
      /\ \A i \in 1 .. Len(s) + Len(t) :
           (s \o t)[i] = IF i <= Len(s) THEN s[i] ELSE t[i - Len(s)]
  BY ConcatProperties
<1>2. Len(s) \in Nat /\ Len(t) \in Nat
  OBVIOUS
<1>3. ASSUME Has(s) PROVE Has(s \o t)
  <2>1. PICK i \in 1 .. Len(s) : s[i] = "suppress"
    BY <1>3 DEF Has
  <2>2. i \in 1 .. Len(s) + Len(t) /\ (s \o t)[i] = s[i]
    BY <1>1, <1>2
  <2>. QED  BY <1>1, <2>1, <2>2 DEF Has
<1>4. ASSUME Has(t) PROVE Has(s \o t)
  <2>1. PICK i \in 1 .. Len(t) : t[i] = "suppress"
    BY <1>4 DEF Has
  <2>2. i + Len(s) \in 1 .. Len(s) + Len(t) /\ ~(i + Len(s) <= Len(s)) /\ i + Len(s) - Len(s) = i
    BY <1>2
  <2>3. (s \o t)[i + Len(s)] = t[i]
    BY <1>1, <2>2
  <2>. QED  BY <1>1, <2>1, <2>2, <2>3 DEF Has
<1>. QED  BY <1>1, <1>3, <1>4

\* What is left of a row after a statement that suppresses nobody.
LEMMA HasTail ==
  ASSUME NEW s \in Seq(Statement), s # <<>>
  PROVE  /\ Tail(s) \in Seq(Statement)
         /\ Len(s) = 1 => Tail(s) = <<>>
         /\ Has(s) /\ Head(s) # "suppress" => Has(Tail(s)) /\ Len(s) # 1
<1>1. /\ Tail(s) \in Seq(Statement) /\ Len(Tail(s)) = Len(s) - 1
      /\ \A i \in 1 .. Len(Tail(s)) : Tail(s)[i] = s[i + 1]
  BY HeadTailProperties
<1>2. Len(s) \in Nat /\ Len(s) # 0 /\ Head(s) = s[1]
  OBVIOUS
<1>3. Len(s) = 1 => Tail(s) = <<>>
  <2>1. \A u \in Seq(Statement) : Len(u) = 0 => u = <<>>
    BY EmptySeq
  <2>2. Len(s) = 1 => Len(Tail(s)) = 0
    BY <1>1, <1>2
  <2>. QED  BY <1>1, <2>1, <2>2
<1>4. ASSUME Has(s), Head(s) # "suppress"
      PROVE  Has(Tail(s)) /\ Len(s) # 1
  <2>1. PICK i \in 1 .. Len(s) : s[i] = "suppress"
    BY <1>4 DEF Has
  <2>2. i # 1
    BY <1>2, <1>4, <2>1
  <2>3. i - 1 \in 1 .. Len(Tail(s)) /\ (i - 1) + 1 = i
    BY <1>1, <1>2, <2>2
  <2>4. Tail(s)[i - 1] = "suppress"
    BY <1>1, <2>1, <2>3
  <2>. QED  BY <1>2, <2>2, <2>3, <2>4 DEF Has
<1>. QED  BY <1>1, <1>3, <1>4

LEMMA RowsOfStatements ==
  /\ AddSuppression \in Seq(Statement) /\ Has(AddSuppression)
  /\ \A type \in {"complaint", "soft", "hard", "unknown"} :
       /\ InsertBounceEvent(type) \in Seq(Statement)
       /\ type = "hard" => Has(InsertBounceEvent(type))
  /\ InsertComplaintEvent \in Seq(Statement) /\ Has(InsertComplaintEvent)
<1>1. AddSuppression \in Seq(Statement) /\ Has(AddSuppression)
  BY Elements, HasConcat DEF AddSuppression
<1>2. InsertComplaintEvent \in Seq(Statement) /\ Has(InsertComplaintEvent)
  BY <1>1, Elements, HasConcat DEF InsertComplaintEvent
<1>3. ASSUME NEW type \in {"complaint", "soft", "hard", "unknown"}
      PROVE  /\ InsertBounceEvent(type) \in Seq(Statement)
             /\ type = "hard" => Has(InsertBounceEvent(type))
  <2>1. CASE type = "hard"
    BY <1>1, <2>1, Elements, HasConcat DEF InsertBounceEvent
  <2>2. CASE type # "hard"
    BY <2>2, Elements, HasConcat DEF InsertBounceEvent
  <2>. QED  BY <2>1, <2>2
<1>. QED  BY <1>1, <1>2, <1>3

-----------------------------------------------------------------------------
(* Every step keeps every promise: the steps of the migration hand the     *)
(* rows on, and the others only add to them.                               *)

LEMMA SameKept ==
  ASSUME StoreTypeOK, NEW t \in Tenant, Kept(t), rows \subseteq rows',
         UNCHANGED <<legacy, phase, orphaned>>
  PROVE  Kept(t)'
BY DEF Kept, Suppressed, GetSuppression, Aside

\* A process that goes on in opening the store, with nothing aside.
LEMMA PhaseKept ==
  ASSUME StoreTypeOK, NEW t \in Tenant, Kept(t), NEW p \in Process, NEW next,
         phase[p] \notin {"create", "copy"}, To(p, next),
         \A q \in Process \ {p} : legacy'[q] = legacy[q],
         UNCHANGED <<rows, orphaned>>
  PROVE  Kept(t)'
BY DEF Kept, Suppressed, GetSuppression, Aside, To, StoreTypeOK

LEMMA ThrowsKept ==
  ASSUME StoreTypeOK, NEW t \in Tenant, Kept(t), NEW p \in Process, Throws(p)
  PROVE  Kept(t)'
<1>1. CASE orphaned \/ Suppressed(t)
  BY <1>1 DEF Kept, Suppressed, GetSuppression, Throws
<1>2. CASE Aside(t)
  <2>1. PICK q \in Process : phase[q] \in {"create", "copy"} /\ legacy[q] \cap {t, Global} # {}
    BY <1>2 DEF Aside
  <2>2. CASE q = p
    BY <2>1, <2>2 DEF Throws, Kept
  <2>3. CASE q # p
    <3>1. phase'[q] = phase[q] /\ legacy'[q] = legacy[q]
      BY <2>3 DEF Throws, To, StoreTypeOK
    <3>. QED  BY <2>1, <3>1 DEF Kept, Aside
  <2>. QED  BY <2>2, <2>3
<1>. QED  BY <1>1, <1>2 DEF Kept

LEMMA RenameKept ==
  ASSUME StoreTypeOK, NEW t \in Tenant, Kept(t), NEW p \in Process, Rename(p)
  PROVE  Kept(t)'
<1>1. CASE table = "absent"
  BY <1>1, ThrowsKept DEF Rename
<1>2. CASE table # "absent"
  <2>1. /\ phase[p] = "rename" /\ To(p, "create") /\ rows' = {}
        /\ legacy' = [legacy EXCEPT ![p] = rows] /\ orphaned' = orphaned
    BY <1>2 DEF Rename
  <2>2. phase'[p] = "create" /\ legacy'[p] = rows
    BY <2>1 DEF To, StoreTypeOK
  <2>3. \A q \in Process \ {p} : phase'[q] = phase[q] /\ legacy'[q] = legacy[q]
    BY <2>1 DEF To, StoreTypeOK
  <2>4. CASE orphaned
    BY <2>1, <2>4 DEF Kept
  <2>5. CASE Suppressed(t)
    BY <2>2, <2>5 DEF Kept, Suppressed, GetSuppression, Aside
  <2>6. CASE Aside(t)
    BY <2>1, <2>3, <2>6 DEF Kept, Aside
  <2>. QED  BY <2>4, <2>5, <2>6 DEF Kept
<1>. QED  BY <1>1, <1>2

LEMMA CreateKept ==
  ASSUME StoreTypeOK, NEW t \in Tenant, Kept(t), NEW p \in Process, Create(p)
  PROVE  Kept(t)'
<1>1. CASE table # "absent"
  BY <1>1, ThrowsKept DEF Create
<1>2. CASE table = "absent"
  <2>1. To(p, "copy") /\ UNCHANGED <<rows, legacy, orphaned>>
    BY <1>2 DEF Create
  <2>2. phase'[p] = "copy" /\ \A q \in Process \ {p} : phase'[q] = phase[q]
    BY <2>1 DEF To, StoreTypeOK
  <2>. QED  BY <2>1, <2>2 DEF Kept, Suppressed, GetSuppression, Aside
<1>. QED  BY <1>1, <1>2

LEMMA CopyKept ==
  ASSUME StoreTypeOK, NEW t \in Tenant, Kept(t), NEW p \in Process, Copy(p)
  PROVE  Kept(t)'
<1>1. CASE table = "absent"
  BY <1>1, ThrowsKept DEF Copy
<1>2. CASE table # "absent"
  <2>1. To(p, "drop") /\ rows' = rows \cup legacy[p] /\ UNCHANGED <<legacy, orphaned>>
    BY <1>2 DEF Copy
  <2>2. \A q \in Process \ {p} : phase'[q] = phase[q]
    BY <2>1 DEF To, StoreTypeOK
  <2>3. CASE orphaned \/ Suppressed(t)
    BY <2>1, <2>3 DEF Kept, Suppressed, GetSuppression
  <2>4. CASE Aside(t)
    <3>1. PICK q \in Process : phase[q] \in {"create", "copy"} /\ legacy[q] \cap {t, Global} # {}
      BY <2>4 DEF Aside
    <3>2. CASE q = p
      BY <2>1, <3>1, <3>2 DEF Kept, Suppressed, GetSuppression
    <3>3. CASE q # p
      BY <2>1, <2>2, <3>1, <3>3 DEF Kept, Aside
    <3>. QED  BY <3>2, <3>3
  <2>. QED  BY <2>3, <2>4 DEF Kept
<1>. QED  BY <1>1, <1>2

-----------------------------------------------------------------------------
(* The shapes of a step.                                                   *)

\* A step of a migration, or of one that ends it.
Opening(p) == Open(p) \/ CheckKey(p) \/ Rename(p) \/ Create(p) \/ Copy(p) \/ Drop(p)

\* Requests and promises stay, but for rows of statements that are given up.
LEMMA GivenUp ==
  ASSUME StoreInv, \A t \in Tenant : Kept(t) => Kept(t)',
         UNCHANGED <<request, promised>>,
         \A p \in Process : todo'[p] = todo[p] \/ todo'[p] = <<>>
  PROVE  PromisesKept' /\ WillBeKept'
<1>1. \A p \in Process : request[p].tenant \in Tenant
  BY DEF StoreInv, StoreTypeOK, Request
<1>2. PromisesKept'
  BY <1>1 DEF StoreInv, PromisesKept
<1>3. ASSUME NEW p \in Process, todo'[p] # <<>>, request'[p].says = "suppression"
      PROVE  Has(todo'[p]) \/ Kept(request[p].tenant)'
  <2>1. todo'[p] = todo[p] /\ request[p].says = "suppression"
    BY <1>3
  <2>2. Has(todo[p]) \/ Kept(request[p].tenant)
    BY <1>3, <2>1 DEF StoreInv, WillBeKept
  <2>. QED  BY <1>1, <2>1, <2>2
<1>. QED  BY <1>2, <1>3 DEF WillBeKept

LEMMA OpeningStep ==
  ASSUME StoreInv, NEW p \in Process, Opening(p)
  PROVE  StoreInv'
<1>1. StoreTypeOK'
  <2>1. CASE Open(p)
    BY <2>1 DEF Open, To, StoreInv, StoreTypeOK, handling, Migrating
  <2>2. CASE CheckKey(p)
    BY <2>2 DEF CheckKey, To, StoreInv, StoreTypeOK, handling, tables, Migrating
  <2>3. CASE Rename(p)
    BY <2>3 DEF Rename, Throws, To, StoreInv, StoreTypeOK, handling, Migrating
  <2>4. CASE Create(p)
    BY <2>4 DEF Create, Throws, To, StoreInv, StoreTypeOK, handling, Migrating
  <2>5. CASE Copy(p)
    BY <2>5 DEF Copy, Throws, To, StoreInv, StoreTypeOK, handling, Migrating
  <2>6. CASE Drop(p)
    BY <2>6 DEF Drop, To, StoreInv, StoreTypeOK, handling, Migrating
  <2>. QED  BY <2>1, <2>2, <2>3, <2>4, <2>5, <2>6 DEF Opening
<1>2. ASSUME NEW t \in Tenant, Kept(t)
      PROVE  Kept(t)'
  <2>1. CASE Open(p)
    BY <1>2, <2>1, PhaseKept DEF Open, StoreInv
  <2>2. CASE CheckKey(p)
    <3>1. To(p, "up") \/ To(p, "rename")
      BY <2>2 DEF CheckKey
    <3>. QED  BY <1>2, <2>2, <3>1, PhaseKept DEF CheckKey, StoreInv, tables
  <2>3. CASE Rename(p)
    BY <1>2, <2>3, RenameKept DEF StoreInv
  <2>4. CASE Create(p)
    BY <1>2, <2>4, CreateKept DEF StoreInv
  <2>5. CASE Copy(p)
    BY <1>2, <2>5, CopyKept DEF StoreInv
  <2>6. CASE Drop(p)
    <3>1. \A q \in Process \ {p} : legacy'[q] = legacy[q]
      BY <2>6 DEF Drop, StoreInv, StoreTypeOK
    <3>. QED  BY <1>2, <2>6, <3>1, PhaseKept DEF Drop, StoreInv
  <2>. QED  BY <2>1, <2>2, <2>3, <2>4, <2>5, <2>6 DEF Opening
<1>3. UNCHANGED <<todo, request, promised>>
  BY DEF Opening, Open, CheckKey, Rename, Create, Copy, Drop, handling
<1>. QED  BY <1>1, <1>2, <1>3, GivenUp DEF StoreInv

\* A promise of the same tenant is kept in the same way.
LEMMA SameRequest ==
  ASSUME NEW q \in Process, NEW u \in Tenant, request'[q].tenant = u, Kept(u)'
  PROVE  Kept(request[q].tenant)'
BY DEF Kept, Suppressed, GetSuppression, Aside

LEMMA BeginStep ==
  ASSUME StoreInv, NEW p \in Process, NEW t \in Tenant, NEW statements \in Seq(Statement),
         NEW says \in {"nothing"} \cup Basis, says = "suppression" => Has(statements),
         Begin(p, t, statements, says)
  PROVE  StoreInv'
<1>1. StoreTypeOK'
  BY StoreAssumption DEF Begin, StoreInv, StoreTypeOK, Request, tables
<1>2. /\ todo'[p] = statements /\ request'[p].says = says
      /\ \A q \in Process \ {p} : todo'[q] = todo[q] /\ request'[q] = request[q]
  BY DEF Begin, StoreInv, StoreTypeOK, Request
<1>3. \A u \in Tenant : Kept(u) => Kept(u)'
  BY SameKept DEF Begin, StoreInv, tables
<1>4. PromisesKept'
  BY <1>3 DEF Begin, StoreInv, PromisesKept, StoreTypeOK
<1>5. WillBeKept'
  <2> SUFFICES ASSUME NEW q \in Process, todo'[q] # <<>>, request'[q].says = "suppression"
               PROVE  (Has(todo[q]) \/ Kept(request[q].tenant))'
    BY DEF WillBeKept
  <2>1. CASE q = p
    BY <1>2, <2>1
  <2>2. CASE q # p
    <3>1. Has(todo[q]) \/ Kept(request[q].tenant)
      BY <1>2, <2>2 DEF StoreInv, WillBeKept
    <3>2. request[q].tenant \in Tenant
      BY DEF StoreInv, StoreTypeOK, Request
    <3>. QED  BY <1>2, <1>3, <2>2, <3>1, <3>2, SameRequest
  <2>. QED  BY <2>1, <2>2
<1>. QED  BY <1>1, <1>4, <1>5 DEF StoreInv

\* A statement that is done: it suppresses the tenant of the request, or is
\* another one, after which that is still to come or done already.
LEMMA DoneStep ==
  ASSUME StoreInv, NEW p \in Process, NEW statement \in Statement, Comes(p, statement), Done(p),
         rows \subseteq rows', UNCHANGED orphaned, rows' \subseteq Tenant,
         seen' \in [Process -> Nat], audit' \in Seq(Nat),
         statement = "suppress" => request[p].tenant \in rows'
  PROVE  StoreInv'
<1>1. /\ todo[p] \in Seq(Statement) /\ todo[p] # <<>> /\ Head(todo[p]) = statement
      /\ request[p].tenant \in Tenant
  BY DEF Comes, StoreInv, StoreTypeOK, Request
<1>2. /\ Tail(todo[p]) \in Seq(Statement)
      /\ Len(todo[p]) = 1 => Tail(todo[p]) = <<>>
      /\ Has(todo[p]) /\ Head(todo[p]) # "suppress" => Has(Tail(todo[p])) /\ Len(todo[p]) # 1
  BY <1>1, HasTail
<1>3. todo'[p] = Tail(todo[p]) /\ \A q \in Process \ {p} : todo'[q] = todo[q]
  BY DEF Done, StoreInv, StoreTypeOK
<1>4. StoreTypeOK'
  <2>1. todo' \in [Process -> Seq(Statement)]
    BY <1>2 DEF Done, StoreInv, StoreTypeOK
  <2>2. promised' \subseteq Tenant \X Basis
    <3>1. request[p].says \in {"nothing"} \cup Basis
      BY DEF StoreInv, StoreTypeOK, Request
    <3>. QED  BY <1>1, <3>1 DEF Done, StoreInv, StoreTypeOK
  <2>. QED  BY <2>1, <2>2 DEF Done, StoreInv, StoreTypeOK
<1>5. \A u \in Tenant : Kept(u) => Kept(u)'
  BY SameKept DEF Done, StoreInv
<1>6. ASSUME request[p].says = "suppression", ~(Has(Tail(todo[p])) /\ Len(todo[p]) # 1)
      PROVE  \A u \in Tenant : u = request[p].tenant => Kept(u)'
  <2>1. CASE statement = "suppress"
    BY <2>1 DEF Kept, Suppressed, GetSuppression
  <2>2. CASE statement # "suppress"
    <3>1. ~Has(todo[p])
      BY <1>1, <1>2, <1>6, <2>2
    <3>2. Kept(request[p].tenant)
      BY <1>1, <1>6, <3>1 DEF StoreInv, WillBeKept
    <3>. QED  BY <1>5, <3>2
  <2>. QED  BY <2>1, <2>2
<1>7. PromisesKept'
  <2> SUFFICES ASSUME NEW u \in Tenant, <<u, "suppression">> \in promised'
               PROVE  Kept(u)'
    BY DEF PromisesKept
  <2>1. CASE <<u, "suppression">> \in promised
    BY <1>5, <2>1 DEF StoreInv, PromisesKept
  <2>2. CASE <<u, "suppression">> \notin promised
    <3>1. Len(todo[p]) = 1 /\ request[p].says = "suppression" /\ u = request[p].tenant
      BY <2>2 DEF Done
    <3>. QED  BY <1>1, <1>6, <3>1
  <2>. QED  BY <2>1, <2>2
<1>8. WillBeKept'
  <2> SUFFICES ASSUME NEW q \in Process, todo'[q] # <<>>, request'[q].says = "suppression"
               PROVE  (Has(todo[q]) \/ Kept(request[q].tenant))'
    BY DEF WillBeKept
  <2>1. request' = request /\ request[q].tenant \in Tenant
    BY DEF Done, StoreInv, StoreTypeOK, Request
  <2>2. CASE q = p
    <3>1. CASE Has(Tail(todo[p]))
      BY <1>3, <2>2, <3>1
    <3>2. CASE ~Has(Tail(todo[p]))
      BY <1>1, <1>6, <2>1, <2>2, <3>2, SameRequest
    <3>. QED  BY <3>1, <3>2
  <2>3. CASE q # p
    <3>1. Has(todo[q]) \/ Kept(request[q].tenant)
      BY <1>3, <2>1, <2>3 DEF StoreInv, WillBeKept
    <3>. QED  BY <1>3, <1>5, <2>1, <2>3, <3>1, SameRequest
  <2>. QED  BY <2>2, <2>3
<1>. QED  BY <1>4, <1>7, <1>8 DEF StoreInv

-----------------------------------------------------------------------------
(* Every action.                                                           *)

LEMMA RequestStep ==
  ASSUME StoreInv, NEW p \in Process, NEW t \in Tenant,
         Unsubscribe(p, t) \/ BounceWebhookRequest(p, t) \/ ComplaintWebhook(p, t) \/ SmtpBounce(p, t)
  PROVE  StoreInv'
<1>1. CASE Unsubscribe(p, t)
  BY <1>1, RowsOfStatements, BeginStep DEF Unsubscribe, Basis
<1>2. CASE BounceWebhookRequest(p, t)
  <2>1. PICK signs \in Signs :
          Begin(p, t, InsertBounceEvent(Classified(signs)) \o RecordDeliveryEvent \o InsertAuditEvent,
                BounceAnswer(Classified(signs)))
    BY <1>2 DEF BounceWebhookRequest
  <2> DEFINE type == Classified(signs)
             first == InsertBounceEvent(type)
             statements == first \o RecordDeliveryEvent \o InsertAuditEvent
  <2>2. type \in {"complaint", "soft", "hard", "unknown"}
    BY DEF Classified
  <2>3. first \in Seq(Statement) /\ (type = "hard" => Has(first))
    BY <2>2, RowsOfStatements
  <2> HIDE DEF first, type
  <2>4. statements \in Seq(Statement) /\ (type = "hard" => Has(statements))
    BY <2>3, Elements, HasConcat DEF RecordDeliveryEvent
  <2> HIDE DEF statements
  <2>5. Begin(p, t, statements, BounceAnswer(type))
    BY <2>1 DEF statements, first, type
  <2>6. /\ BounceAnswer(type) \in {"nothing"} \cup Basis
        /\ BounceAnswer(type) = "suppression" => type = "hard"
    BY <2>2 DEF BounceAnswer, Basis
  <2>. QED  BY <2>4, <2>5, <2>6, BeginStep
<1>3. CASE ComplaintWebhook(p, t)
  <2> DEFINE statements == InsertComplaintEvent \o RecordDeliveryEvent \o InsertAuditEvent
  <2>1. statements \in Seq(Statement) /\ Has(statements)
    BY RowsOfStatements, Elements, HasConcat DEF RecordDeliveryEvent
  <2> HIDE DEF statements
  <2>2. Begin(p, t, statements, "suppression")
    BY <1>3 DEF ComplaintWebhook, statements
  <2>. QED  BY <2>1, <2>2, BeginStep DEF Basis
<1>4. CASE SmtpBounce(p, t)
  <2> DEFINE statements == SuppressRecipients \o RecordJobLifecycle \o RecordDeliveryEvent
  <2>1. statements \in Seq(Statement)
    BY RowsOfStatements, Elements, HasConcat
       DEF SuppressRecipients, RecordJobLifecycle, RecordDeliveryEvent
  <2> HIDE DEF statements
  <2>2. Begin(p, t, statements, "nothing")
    BY <1>4 DEF SmtpBounce, statements
  <2>. QED  BY <2>1, <2>2, BeginStep
<1>. QED  BY <1>1, <1>2, <1>3, <1>4

LEMMA StatementStep ==
  ASSUME StoreInv, NEW p \in Process,
         InsertRow(p) \/ Suppress(p) \/ ReadLastAudit(p) \/ InsertAudit(p)
  PROVE  StoreInv'
<1>1. CASE InsertRow(p)
  BY <1>1, DoneStep DEF InsertRow, Done, Statement, StoreInv, StoreTypeOK
<1>2. CASE Suppress(p)
  <2>1. request[p].tenant \in Tenant
    BY DEF StoreInv, StoreTypeOK, Request
  <2>. QED  BY <1>2, <2>1, DoneStep DEF Suppress, Done, Statement, StoreInv, StoreTypeOK
<1>3. CASE ReadLastAudit(p)
  <2>1. seen' \in [Process -> Nat]
    BY <1>3 DEF ReadLastAudit, StoreInv, StoreTypeOK
  <2>. QED  BY <1>3, <2>1, DoneStep DEF ReadLastAudit, Done, Statement, StoreInv, StoreTypeOK
<1>4. CASE InsertAudit(p)
  <2>1. audit' \in Seq(Nat)
    BY <1>4, AppendProperties DEF InsertAudit, StoreInv, StoreTypeOK
  <2>. QED  BY <1>4, <2>1, DoneStep DEF InsertAudit, Done, Statement, StoreInv, StoreTypeOK
<1>. QED  BY <1>1, <1>2, <1>3, <1>4

LEMMA FailureStep ==
  ASSUME StoreInv, NEW p \in Process, StatementFails(p) \/ NoTable(p) \/ Die(p)
  PROVE  StoreInv'
<1>1. StoreTypeOK'
  <2>1. CASE StatementFails(p)
    BY <2>1, Elements, StoreAssumption DEF StatementFails, StoreInv, StoreTypeOK, tables
  <2>2. CASE NoTable(p)
    BY <2>2, Elements DEF NoTable, StoreInv, StoreTypeOK, tables
  <2>3. CASE Die(p)
    BY <2>3, Elements, StoreAssumption DEF Die, Throws, To, StoreInv, StoreTypeOK
  <2>. QED  BY <2>1, <2>2, <2>3
<1>2. ASSUME NEW t \in Tenant, Kept(t)
      PROVE  Kept(t)'
  <2>1. CASE StatementFails(p) \/ NoTable(p)
    BY <1>2, <2>1, SameKept DEF StatementFails, NoTable, StoreInv, tables
  <2>2. CASE Die(p)
    BY <1>2, <2>2, ThrowsKept DEF Die, StoreInv
  <2>. QED  BY <2>1, <2>2
<1>3. UNCHANGED <<request, promised>>
  BY DEF StatementFails, NoTable, Die
<1>4. \A q \in Process : todo'[q] = todo[q] \/ todo'[q] = <<>>
  BY DEF StatementFails, NoTable, Die, StoreInv, StoreTypeOK
<1>. QED  BY <1>1, <1>2, <1>3, <1>4, GivenUp DEF StoreInv

(***************************************************************************)
(* The inductive invariant of the store: of every promise, and of every    *)
(* request that will make one, it says where it is kept.                   *)
(***************************************************************************)
THEOREM StoreInvariant == StoreSpec => []StoreInv
<1>1. StoreInit => StoreInv
  <2> SUFFICES ASSUME StoreInit PROVE StoreInv
    OBVIOUS
  <2>1. StoreTypeOK
    <3>1. NoRequest \in Request
      BY StoreAssumption DEF NoRequest, Request
    <3>2. rows \subseteq Tenant /\ promised \subseteq Tenant \X Basis
      BY DEF StoreInit, Basis
    <3>3. 0 \in 0 .. MaxRequests /\ 0 \in 0 .. MaxFaults
      BY StoreAssumption
    <3>4. <<>> \in Seq(Nat)
      BY EmptySeq
    <3>. QED  BY <3>1, <3>2, <3>3, <3>4, Elements DEF StoreInit, StoreTypeOK
  <2>2. PromisesKept
    BY DEF StoreInit, PromisesKept, Kept, Suppressed, GetSuppression
  <2>3. WillBeKept
    BY DEF StoreInit, WillBeKept
  <2>. QED  BY <2>1, <2>2, <2>3 DEF StoreInv
<1>2. StoreInv /\ [StoreNext]_storeVars => StoreInv'
  <2> SUFFICES ASSUME StoreInv, [StoreNext]_storeVars
               PROVE  StoreInv'
    OBVIOUS
  <2>1. CASE UNCHANGED storeVars
    <3>1. StoreTypeOK'
      BY <2>1 DEF storeVars, tables, handling, StoreInv, StoreTypeOK
    <3>2. \A t \in Tenant : Kept(t) => Kept(t)'
      BY <2>1, SameKept DEF storeVars, tables, StoreInv
    <3>. QED  BY <2>1, <3>1, <3>2, GivenUp DEF storeVars, handling, StoreInv
  <2>2. CASE StoreNext
    <3>1. PICK p \in Process :
            \/ Opening(p)
            \/ \E t \in Tenant :
                 Unsubscribe(p, t) \/ BounceWebhookRequest(p, t) \/ ComplaintWebhook(p, t) \/ SmtpBounce(p, t)
            \/ AuditOnly(p)
            \/ InsertRow(p) \/ Suppress(p) \/ ReadLastAudit(p) \/ InsertAudit(p)
            \/ StatementFails(p) \/ NoTable(p) \/ Die(p)
      BY <2>2 DEF StoreNext, Opening
    <3>2. CASE Opening(p)
      BY <3>2, OpeningStep
    <3>3. ASSUME NEW t \in Tenant,
                 Unsubscribe(p, t) \/ BounceWebhookRequest(p, t) \/ ComplaintWebhook(p, t) \/ SmtpBounce(p, t)
          PROVE  StoreInv'
      BY <3>3, RequestStep
    <3>4. CASE AuditOnly(p)
      BY <3>4, Elements, StoreAssumption, BeginStep DEF AuditOnly
    <3>5. CASE InsertRow(p) \/ Suppress(p) \/ ReadLastAudit(p) \/ InsertAudit(p)
      BY <3>5, StatementStep
    <3>6. CASE StatementFails(p) \/ NoTable(p) \/ Die(p)
      BY <3>6, FailureStep
    <3>. QED  BY <3>1, <3>2, <3>3, <3>4, <3>5, <3>6
  <2>. QED  BY <2>1, <2>2
<1>. QED  BY <1>1, <1>2, PTL DEF StoreSpec

(***************************************************************************)
(* For any number of processes, tenants, requests and failures: a recipient *)
(* whom an answer called suppressed is suppressed, but while a migration   *)
(* has moved rows aside, for good after one that ended there, and but for  *)
(* a complaint that came in as a bounce.                                   *)
(***************************************************************************)
THEOREM PromisedIsSuppressed == StoreSpec => []SuppressionKept
<1>1. StoreInv => SuppressionKept
  <2> SUFFICES ASSUME StoreInv, ~Moving, ~orphaned, NEW promise \in promised,
                      promise[2] # "complaint"
               PROVE  Suppressed(promise[1])
    BY DEF SuppressionKept
  <2>1. promise[1] \in Tenant /\ promise = <<promise[1], "suppression">>
    BY DEF StoreInv, StoreTypeOK, Basis
  <2>2. Kept(promise[1])
    BY <2>1 DEF StoreInv, PromisesKept
  <2>. QED  BY <2>2 DEF Kept, Aside, Moving
<1>. QED  BY <1>1, StoreInvariant, PTL

-----------------------------------------------------------------------------
(* The quota of deliveries.                                                *)

\* QuotaOvershoot counts the rows that the attempts under way may add with those of
\* the window, so that it is inductive.
QuotaInv == QuotaTypeOK /\ QuotaOvershoot

-----------------------------------------------------------------------------
(* Runners that are sending.                                               *)

LEMMA RunnersFinite == IsFiniteSet(Runner) /\ MaxRecipients \in Nat
BY PolicyAssumption

LEMMA LimitType == Limit \in [Window -> Nat]
BY PolicyAssumption DEF Limit

LEMMA SendingBounded ==
  /\ IsFiniteSet(Sending) /\ Cardinality(Sending) \in Nat /\ Cardinality(Runner) \in Nat
  /\ Cardinality(Sending) <= Cardinality(Runner)
<1>1. Sending \subseteq Runner
  BY DEF Sending
<1>. QED  BY <1>1, RunnersFinite, FS_Subset, FS_CardinalityType

\* The same of the next state, for whatever the runners are at then.
LEMMA SendingBoundedNext ==
  /\ IsFiniteSet(Sending') /\ Cardinality(Sending') \in Nat
  /\ Cardinality(Sending') <= Cardinality(Runner)
<1>1. Sending' \subseteq Runner
  BY DEF Sending
<1>. QED  BY <1>1, RunnersFinite, FS_Subset, FS_CardinalityType

\* A runner that stops sending.
LEMMA OneLess ==
  ASSUME QuotaTypeOK, NEW r \in Runner, runner[r] = "sending",
         NEW step \in {"idle", "recorded"}, Goto(r, step)
  PROVE  Cardinality(Sending') = Cardinality(Sending) - 1
<1>1. Sending' = Sending \ {r}
  BY DEF Sending, Goto, QuotaTypeOK
<1>2. r \in Sending
  BY DEF Sending
<1>. QED  BY <1>1, <1>2, SendingBounded, FS_RemoveElement

\* A runner that goes to another step than sending.
LEMMA NoMore ==
  ASSUME QuotaTypeOK, NEW r \in Runner, NEW step \in {"idle", "recorded"}, Goto(r, step)
  PROVE  Cardinality(Sending') <= Cardinality(Sending)
<1>1. Sending' \subseteq Sending
  BY DEF Sending, Goto, QuotaTypeOK
<1>. QED  BY <1>1, SendingBounded, FS_Subset

-----------------------------------------------------------------------------
(* Arithmetic of the bound.                                                *)

LEMMA ProductGrows ==
  ASSUME NEW m \in Nat, NEW a \in Nat, NEW b \in Nat, a <= b
  PROVE  m * a \in Nat /\ m * b \in Nat /\ m * a <= m * b
OBVIOUS

LEMMA ProductLess ==
  ASSUME NEW m \in Nat, NEW a \in Nat, NEW b \in Nat, b = a - 1
  PROVE  m * a \in Nat /\ m * b \in Nat /\ m * b + m = m * a
OBVIOUS

-----------------------------------------------------------------------------
(* Types.                                                                  *)

LEMMA RecordedType ==
  ASSUME NEW f \in Counts, NEW n \in Nat
  PROVE  Recorded(f, n) \in Counts
BY DEF Counts, Recorded

LEMMA ExpiredType ==
  ASSUME NEW f \in Counts, NEW w \in Window, Oldest(f, w)
  PROVE  Expired(f, w) \in Counts /\ \A v \in Window : Expired(f, w)[v] <= f[v]
<1>1. f[w] - 1 \in Nat /\ f[w] - 1 <= f[w]
  BY DEF Counts, Oldest
<1>. QED  BY <1>1 DEF Counts, Expired

LEMMA GotoType ==
  ASSUME QuotaTypeOK, NEW r \in Runner, NEW step \in {"idle", "sending", "recorded"}, Goto(r, step)
  PROVE  runner' \in [Runner -> {"idle", "sending", "recorded"}]
BY DEF QuotaTypeOK, Goto

(***************************************************************************)
(* Every variable of the quota keeps its type: no count becomes negative   *)
(* when rows leave their window.                                           *)
(***************************************************************************)
THEOREM QuotaTypeCorrect == QuotaSpec => []QuotaTypeOK
<1>1. QuotaInit => QuotaTypeOK
  BY DEF QuotaInit, QuotaTypeOK, Counts
<1>2. ASSUME QuotaTypeOK, [QuotaNext]_quotaVars
      PROVE  QuotaTypeOK'
  <2>1. ASSUME NEW r \in Runner, Attempt(r)
        PROVE  QuotaTypeOK'
    BY <1>2, <2>1, GotoType DEF Attempt, QuotaTypeOK, Counts
  <2>2. ASSUME NEW r \in Runner, Deferred(r)
        PROVE  QuotaTypeOK'
    BY <1>2, <2>2 DEF Deferred, quotaVars, QuotaTypeOK, Counts
  <2>3. ASSUME NEW r \in Runner, Over(r) \/ RecordedOnce(r)
        PROVE  QuotaTypeOK'
    <3>1. PICK n \in 0 .. MaxRecipients : tried' = Recorded(tried, n)
      BY <2>3 DEF Over, RecordedOnce
    <3>2. tried' \in Counts
      BY <1>2, <3>1, RecordedType, RunnersFinite DEF QuotaTypeOK
    <3>3. runner' \in [Runner -> {"idle", "sending", "recorded"}]
      BY <1>2, <2>3, GotoType DEF Over, RecordedOnce
    <3>. QED  BY <1>2, <2>3, <3>2, <3>3 DEF Over, RecordedOnce, QuotaTypeOK, Counts
  <2>4. ASSUME NEW r \in Runner, RecordedAgain(r)
        PROVE  QuotaTypeOK'
    <3>1. PICK n \in 0 .. MaxRecipients : again' = Recorded(again, n)
      BY <2>4 DEF RecordedAgain
    <3>2. again' \in Counts
      BY <1>2, <3>1, RecordedType, RunnersFinite DEF QuotaTypeOK
    <3>3. runner' \in [Runner -> {"idle", "sending", "recorded"}]
      BY <1>2, <2>4, GotoType DEF RecordedAgain
    <3>. QED  BY <1>2, <2>4, <3>2, <3>3 DEF RecordedAgain, QuotaTypeOK, Counts
  <2>5. ASSUME NEW r \in Runner, Lost(r)
        PROVE  QuotaTypeOK'
    BY <1>2, <2>5, GotoType DEF Lost, QuotaTypeOK, Counts
  <2>6. CASE BounceWebhook
    <3>1. hooked' \in Counts
      BY <1>2, <2>6, RecordedType DEF BounceWebhook, QuotaTypeOK
    <3>2. hooks' \in Nat
      BY <1>2, <2>6 DEF BounceWebhook, QuotaTypeOK
    <3>. QED  BY <1>2, <2>6, <3>1, <3>2 DEF BounceWebhook, QuotaTypeOK, Counts
  <2>7. ASSUME NEW w \in Window, TriedExpires(w) \/ AgainExpires(w) \/ HookedExpires(w)
        PROVE  QuotaTypeOK'
    BY <1>2, <2>7, ExpiredType
       DEF TriedExpires, AgainExpires, HookedExpires, QuotaTypeOK
  <2>8. CASE UNCHANGED quotaVars
    BY <1>2, <2>8 DEF quotaVars, QuotaTypeOK, Counts
  <2>. QED  BY <1>2, <2>1, <2>2, <2>3, <2>4, <2>5, <2>6, <2>7, <2>8 DEF QuotaNext
<1>. QED  BY <1>1, <1>2, PTL DEF QuotaSpec

-----------------------------------------------------------------------------
(* The quota.                                                              *)

\* It needs no more than that counts and runners that send do not grow.
LEMMA BoundKept ==
  ASSUME QuotaTypeOK, QuotaTypeOK', QuotaOvershoot,
         \A w \in Window : tried'[w] <= tried[w],
         Cardinality(Sending') <= Cardinality(Sending)
  PROVE  QuotaOvershoot'
<1> SUFFICES ASSUME NEW w \in Window, Limit[w] # 0
             PROVE  tried'[w] + MaxRecipients * Cardinality(Sending')
                      < Limit[w] + MaxRecipients * Cardinality(Runner)
  BY DEF QuotaOvershoot, Limit
<1> DEFINE now == MaxRecipients * Cardinality(Sending)
           next == MaxRecipients * Cardinality(Sending')
           all == MaxRecipients * Cardinality(Runner)
<1>1. tried[w] + now < Limit[w] + all
  BY DEF QuotaOvershoot
<1>2. now \in Nat /\ next \in Nat /\ next <= now
  BY RunnersFinite, SendingBounded, SendingBoundedNext, ProductGrows
<1>3. all \in Nat
  BY RunnersFinite, SendingBounded, ProductGrows
<1>4. tried[w] \in Nat /\ tried'[w] \in Nat /\ tried'[w] <= tried[w] /\ Limit[w] \in Nat
  BY LimitType DEF QuotaTypeOK, Counts
<1> HIDE DEF now, next, all
<1>5. tried'[w] + next < Limit[w] + all
  BY <1>1, <1>2, <1>3, <1>4
<1>. QED  BY <1>5 DEF next, all

\* An attempt that begins is allowed: the limit is not reached.
LEMMA BoundAttempt ==
  ASSUME QuotaTypeOK, NEW r \in Runner, Attempt(r)
  PROVE  QuotaOvershoot'
<1> SUFFICES ASSUME NEW w \in Window, Limit[w] # 0
             PROVE  tried'[w] + MaxRecipients * Cardinality(Sending')
                      < Limit[w] + MaxRecipients * Cardinality(Runner)
  BY DEF QuotaOvershoot, Limit
<1> DEFINE next == MaxRecipients * Cardinality(Sending')
           all == MaxRecipients * Cardinality(Runner)
<1>1. tried[w] + again[w] + hooked[w] < Limit[w]
  BY DEF Attempt, Permitted, Count
<1>2. tried[w] \in Nat /\ again[w] \in Nat /\ hooked[w] \in Nat /\ Limit[w] \in Nat
  BY LimitType DEF QuotaTypeOK, Counts
<1>3. tried' = tried
  BY DEF Attempt
<1>4. next \in Nat /\ all \in Nat /\ next <= all
  BY RunnersFinite, SendingBounded, SendingBoundedNext, ProductGrows
<1> HIDE DEF next, all
<1>5. tried'[w] + next < Limit[w] + all
  BY <1>1, <1>2, <1>3, <1>4
<1>. QED  BY <1>5 DEF next, all

\* An attempt that is recorded: what it adds it no longer may add.
LEMMA BoundRecorded ==
  ASSUME QuotaTypeOK, QuotaOvershoot, NEW r \in Runner, Over(r) \/ RecordedOnce(r)
  PROVE  QuotaOvershoot'
<1>1. PICK n \in 0 .. MaxRecipients : tried' = Recorded(tried, n)
  BY DEF Over, RecordedOnce
<1>2. Cardinality(Sending') = Cardinality(Sending) - 1
  BY OneLess DEF Over, RecordedOnce
<1> SUFFICES ASSUME NEW w \in Window, Limit[w] # 0
             PROVE  tried'[w] + MaxRecipients * Cardinality(Sending')
                      < Limit[w] + MaxRecipients * Cardinality(Runner)
  BY DEF QuotaOvershoot, Limit
<1> DEFINE now == MaxRecipients * Cardinality(Sending)
           next == MaxRecipients * Cardinality(Sending')
           all == MaxRecipients * Cardinality(Runner)
<1>3. tried[w] + now < Limit[w] + all
  BY DEF QuotaOvershoot
<1>4. now \in Nat /\ next \in Nat /\ next + MaxRecipients = now
  BY <1>2, RunnersFinite, SendingBounded, SendingBoundedNext, ProductLess
<1>5. all \in Nat
  BY RunnersFinite, SendingBounded, ProductGrows
<1>6. tried[w] \in Nat /\ Limit[w] \in Nat
  BY LimitType DEF QuotaTypeOK, Counts
<1>7. tried'[w] = tried[w] + n
  BY <1>1 DEF Recorded
<1> HIDE DEF now, next, all
<1>8. tried'[w] + next < Limit[w] + all
  BY <1>3, <1>4, <1>5, <1>6, <1>7, RunnersFinite
<1>. QED  BY <1>8 DEF next, all

(***************************************************************************)
(* For any number of runners, limits and recipients of a mail: the rows of *)
(* attempts that a limited window holds, with those that the attempts      *)
(* under way may add, are fewer than the limit and one mail's recipients   *)
(* for every runner.                                                       *)
(***************************************************************************)
THEOREM QuotaHolds == QuotaSpec => []QuotaOvershoot
<1>1. QuotaInit => QuotaInv
  <2> SUFFICES ASSUME QuotaInit PROVE QuotaInv
    OBVIOUS
  <2>1. QuotaTypeOK
    BY DEF QuotaInit, QuotaTypeOK, Counts
  <2>2. Sending = {}
    BY DEF QuotaInit, Sending
  <2>3. Cardinality(Sending) = 0
    BY <2>2, FS_EmptySet
  <2> SUFFICES ASSUME NEW w \in Window, Limit[w] # 0
               PROVE  tried[w] + MaxRecipients * Cardinality(Sending)
                        < Limit[w] + MaxRecipients * Cardinality(Runner)
    BY <2>1 DEF QuotaInv, QuotaOvershoot
  <2> DEFINE all == MaxRecipients * Cardinality(Runner)
  <2>4. all \in Nat /\ MaxRecipients * Cardinality(Sending) = 0
    BY <2>3, RunnersFinite, SendingBounded, ProductGrows
  <2>5. tried[w] = 0 /\ Limit[w] \in Nat
    BY LimitType DEF QuotaInit
  <2> HIDE DEF all
  <2>6. 0 + 0 < Limit[w] + all
    BY <2>4, <2>5
  <2>. QED  BY <2>4, <2>5, <2>6 DEF all
<1>2. ASSUME QuotaTypeOK, QuotaTypeOK', QuotaOvershoot, [QuotaNext]_quotaVars
      PROVE  QuotaOvershoot'
  <2>1. ASSUME NEW r \in Runner, Attempt(r)
        PROVE  QuotaOvershoot'
    BY <1>2, <2>1, BoundAttempt
  <2>2. ASSUME NEW r \in Runner, Over(r) \/ RecordedOnce(r)
        PROVE  QuotaOvershoot'
    BY <1>2, <2>2, BoundRecorded
  <2>3. ASSUME NEW r \in Runner, RecordedAgain(r) \/ Lost(r)
        PROVE  QuotaOvershoot'
    <3>1. Cardinality(Sending') <= Cardinality(Sending)
      BY <1>2, <2>3, NoMore DEF RecordedAgain, Lost
    <3>2. \A w \in Window : tried'[w] <= tried[w]
      BY <1>2, <2>3 DEF RecordedAgain, Lost, QuotaTypeOK, Counts
    <3>. QED  BY <1>2, <3>1, <3>2, BoundKept
  <2>4. ASSUME runner' = runner, \A w \in Window : tried'[w] <= tried[w]
        PROVE  QuotaOvershoot'
    <3>1. Sending' = Sending
      BY <2>4 DEF Sending
    <3>2. Cardinality(Sending') <= Cardinality(Sending)
      BY <3>1, SendingBounded
    <3>. QED  BY <1>2, <2>4, <3>2, BoundKept
  <2>5. \A w \in Window : tried[w] <= tried[w]
    BY <1>2 DEF QuotaTypeOK, Counts
  <2>6. ASSUME NEW r \in Runner, Deferred(r)
        PROVE  QuotaOvershoot'
    BY <2>4, <2>5, <2>6 DEF Deferred, quotaVars
  <2>7. CASE BounceWebhook
    BY <2>4, <2>5, <2>7 DEF BounceWebhook
  <2>8. ASSUME NEW w \in Window, AgainExpires(w) \/ HookedExpires(w)
        PROVE  QuotaOvershoot'
    BY <2>4, <2>5, <2>8 DEF AgainExpires, HookedExpires
  <2>9. ASSUME NEW w \in Window, TriedExpires(w)
        PROVE  QuotaOvershoot'
    BY <1>2, <2>4, <2>9, ExpiredType DEF TriedExpires, QuotaTypeOK
  <2>10. CASE UNCHANGED quotaVars
    BY <2>4, <2>5, <2>10 DEF quotaVars
  <2>. QED  BY <1>2, <2>1, <2>2, <2>3, <2>6, <2>7, <2>8, <2>9, <2>10 DEF QuotaNext
<1>. QED  BY <1>1, <1>2, QuotaTypeCorrect, PTL DEF QuotaSpec, QuotaInv
=============================================================================
