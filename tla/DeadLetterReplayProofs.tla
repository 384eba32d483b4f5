----------------------- MODULE DeadLetterReplayProofs -----------------------
(***************************************************************************)
(* Theorems about the replay of dead letters, for any mails, cycles and    *)
(* requests, any budget and batch, and any number of faults.               *)
(*                                                                         *)
(* The copies of a mail are not inductive as they stand: a queue write is  *)
(* harmless only because the row it comes from counted as a copy until     *)
(* then.  ReplayInv says, of each mail without an excuse, that one replay  *)
(* at most is between the decision on a row and its mark, that what is     *)
(* live of the mail is one row or one job, and that this one bears the     *)
(* count of all automatic replays of the mail so far.                      *)
(***************************************************************************)
EXTENDS DeadLetterReplay, FiniteSetTheorems, SequenceTheorems, TLAPS

Busy == {"enqueueing", "marking"}

\* What a cycle queues has not used up its attempts.
HandOK ==
  \A r \in Cycle : replay[r].step = "enqueueing" => rows[InHand(r)].count < MaxAuto

HardSuppressed == \A i \in RowIds : rows[i].reason = "hard" => rows[i].mail \in suppressed

OneMark == \A i \in RowIds : ~(rows[i].requeued /\ rows[i].final)

NoOverlap(m) ==
  \A r, s \in Replayer :
    /\ replay[r].step \in Busy /\ replay[s].step \in Busy
    /\ InHand(r) = InHand(s) /\ rows[InHand(r)].mail = m
    => r = s

OneLive(m) ==
  /\ \A i, k \in LiveRows(m) : i = k
  /\ LiveRows(m) # {} => LiveJobs(m) = {}
  /\ \A c \in Count : queue[m][c] <= 1

CountKept(m) ==
  /\ \A i \in LiveRows(m) : rows[i].count = autoPushes[m]
  /\ \A c \in LiveJobs(m) : c = autoPushes[m]
  /\ autoPushes[m] <= MaxAuto

GoneWhenSent(m) == m \in sent \ unacked => LiveRows(m) = {} /\ LiveJobs(m) = {}

MailInv(m) == NoOverlap(m) /\ OneLive(m) /\ CountKept(m) /\ GoneWhenSent(m)

ReplayInv ==
  /\ TypeOK /\ HandOK /\ HardSuppressed /\ OneMark
  /\ \A m \in Mail \ excused : MailInv(m)

-----------------------------------------------------------------------------
(* The row in hand.                                                        *)

\* A non-empty set of numbers has a least one: the intervals up to its members are
\* ordered by inclusion, which is well-founded on finite sets.
LEMMA LeastExists ==
  ASSUME NEW S \in SUBSET Nat, S # {}
  PROVE  Min(S) \in S /\ \A y \in S : Min(S) <= y
<1>. DEFINE R == StrictSubsetOrdering(Nat)
            T == {0 .. k : k \in S}
<1>1. IsWellFoundedOn(R, FiniteSubsetsOf(Nat))
  BY FS_StrictSubsetOrderingWellFounded
<1>2. T \subseteq FiniteSubsetsOf(Nat) /\ T # {}
  <2>1. \A k \in S : 0 .. k \in SUBSET Nat /\ IsFiniteSet(0 .. k)
    BY FS_Interval
  <2>. QED  BY <2>1 DEF FiniteSubsetsOf
<1>. HIDE DEF R, T
<1>3. \E t \in T : \A u \in T : ~ (<<u, t>> \in R)
  BY <1>1, <1>2, WFMin
<1>4. PICK x \in S : \A y \in S : ~ (<<0 .. y, 0 .. x>> \in R)
  BY <1>3 DEF T
<1>5. ASSUME NEW y \in S PROVE x <= y
  <2>. SUFFICES ASSUME y < x PROVE FALSE
    OBVIOUS
  <2>1. 0 .. y \subseteq 0 .. x /\ 0 .. y # 0 .. x /\ 0 .. y \subseteq Nat /\ 0 .. x \subseteq Nat
    <3>1. x \in 0 .. x /\ x \notin 0 .. y
      OBVIOUS
    <3>. QED  BY <3>1
  <2>2. <<0 .. y, 0 .. x>> \in R
    BY <2>1 DEF R, StrictSubsetOrdering
  <2>. QED  BY <2>2, <1>4
<1>6. \E z \in S : \A y \in S : z <= y
  BY <1>5
<1>. QED  BY <1>6 DEF Min

LEMMA Hand ==
  ASSUME TypeOK, NEW r \in Replayer, replay[r].step # "idle"
  PROVE  InHand(r) \in RowIds /\ InHand(r) \in replay[r].todo
<1>1. replay[r].todo # {} /\ replay[r].todo \subseteq 1 .. Len(rows)
  BY DEF TypeOK
<1>2. replay[r].todo \subseteq Nat
  BY <1>1
<1>3. Min(replay[r].todo) \in replay[r].todo
  BY <1>1, <1>2, LeastExists
<1>. QED  BY <1>1, <1>3 DEF InHand, RowIds

ReplaysOK ==
  /\ replay \in [Replayer -> Replay]
  /\ \A r \in Replayer : replay[r].step # "idle" =>
       replay[r].todo # {} /\ replay[r].todo \subseteq 1 .. Len(rows)

LEMMA RowTypes ==
  ASSUME TypeOK, NEW i \in RowIds
  PROVE  /\ rows[i] \in Row /\ rows[i].mail \in Mail /\ rows[i].reason \in Reason
         /\ rows[i].count \in Count
         /\ rows[i].requeued \in BOOLEAN /\ rows[i].final \in BOOLEAN
<1>1. rows \in Seq(Row) /\ i \in 1 .. Len(rows)
  BY DEF TypeOK, RowIds
<1>2. rows[i] \in Row
  BY <1>1, ElementOfSeq
<1>. QED  BY <1>2 DEF Row

LEMMA LimitTypes ==
  MaxAuto \in Nat /\ MaxRows \in Nat /\ MaxRequests \in Nat /\ MaxFaults \in Nat
BY LimitAssumption, BoundAssumption

\* A replay goes on to its next row, or is over.
LEMMA ProceedMoves ==
  ASSUME TypeOK, NEW r \in Replayer, replay[r].step # "idle", Proceed(r),
         Len(rows') = Len(rows)
  PROVE  /\ ReplaysOK'
         /\ \A q \in Replayer : q # r => replay'[q] = replay[q]
         /\ replay'[r].step \in {"idle", "reading"}
<1>. DEFINE next == IF replay[r].todo = {InHand(r)} THEN Idle
                    ELSE [todo |-> replay[r].todo \ {InHand(r)},
                          force |-> replay[r].force, step |-> "reading"]
<1>1. replay' = [replay EXCEPT ![r] = next]
  BY DEF Proceed
<1>2. /\ replay[r] \in Replay /\ replay[r].todo \subseteq 1 .. Len(rows)
      /\ InHand(r) \in replay[r].todo
  BY Hand DEF TypeOK
<1>3. /\ next \in Replay /\ next.step \in {"idle", "reading"}
      /\ next.step # "idle" => next.todo # {} /\ next.todo \subseteq 1 .. Len(rows)
  BY <1>2 DEF Replay, Idle
<1>. HIDE DEF next
<1>. QED  BY <1>1, <1>3 DEF TypeOK, ReplaysOK

\* A replay takes its next step on the row it has.
LEMMA GotoMoves ==
  ASSUME TypeOK, NEW r \in Replayer, replay[r].step # "idle",
         NEW step \in {"reading", "giving up", "enqueueing", "marking"}, Goto(r, step),
         Len(rows') = Len(rows)
  PROVE  /\ ReplaysOK'
         /\ \A q \in Replayer : q # r => replay'[q] = replay[q]
         /\ replay'[r].step = step /\ replay'[r].todo = replay[r].todo
<1>. DEFINE next == [replay[r] EXCEPT !.step = step]
<1>1. replay' = [replay EXCEPT ![r] = next]
  BY DEF Goto, TypeOK
<1>2. /\ replay[r] \in Replay /\ replay[r].todo \subseteq 1 .. Len(rows)
      /\ replay[r].todo # {}
  BY DEF TypeOK
<1>3. next \in Replay /\ next.step = step /\ next.todo = replay[r].todo
  BY <1>2 DEF Replay
<1>. HIDE DEF next
<1>. QED  BY <1>1, <1>2, <1>3 DEF TypeOK, ReplaysOK

LEMMA IdleMoves ==
  ASSUME TypeOK, NEW r \in Replayer, replay' = [replay EXCEPT ![r] = Idle],
         Len(rows') = Len(rows)
  PROVE  /\ ReplaysOK'
         /\ \A q \in Replayer : q # r => replay'[q] = replay[q]
         /\ replay'[r].step = "idle"
<1>1. Idle \in Replay /\ Idle.step = "idle"
  BY DEF Idle, Replay
<1>. QED  BY <1>1 DEF TypeOK, ReplaysOK

\* The rows that a replay sets out with.
LEMMA StartMoves ==
  ASSUME TypeOK, NEW r \in Replayer, NEW todo \in SUBSET RowIds, todo # {},
         NEW force \in BOOLEAN, Len(rows') = Len(rows),
         replay' = [replay EXCEPT ![r] = [todo |-> todo, force |-> force, step |-> "reading"]]
  PROVE  /\ ReplaysOK'
         /\ \A q \in Replayer : q # r => replay'[q] = replay[q]
         /\ replay'[r].step = "reading"
<1>. DEFINE next == [todo |-> todo, force |-> force, step |-> "reading"]
<1>1. todo \subseteq 1 .. Len(rows) /\ 1 .. Len(rows) \subseteq 1 .. MaxRows
  BY LimitTypes DEF RowIds, TypeOK
<1>2. next \in Replay /\ next.step = "reading" /\ next.todo = todo
  BY <1>1 DEF Replay
<1>. HIDE DEF next
<1>3. replay' = [replay EXCEPT ![r] = next]
  BY DEF next
<1>. QED  BY <1>1, <1>2, <1>3 DEF TypeOK, ReplaysOK

-----------------------------------------------------------------------------
(* What a step leaves of the copies of a mail.                             *)

\* The rows are the same but for marks that were added.
RowsKept ==
  /\ rows' \in Seq(Row) /\ Len(rows') = Len(rows)
  /\ \A i \in RowIds :
       /\ rows'[i].mail = rows[i].mail /\ rows'[i].reason = rows[i].reason
       /\ rows'[i].count = rows[i].count
       /\ Unmarked(i)' => Unmarked(i)
       /\ ~(rows'[i].requeued /\ rows'[i].final)

LEMMA SameRowsKept ==
  ASSUME TypeOK, OneMark, rows' = rows
  PROVE  RowsKept
BY DEF RowsKept, TypeOK, OneMark, RowIds, Unmarked

LEMMA MarkKeepsRows ==
  ASSUME TypeOK, OneMark, NEW i \in RowIds,
         \/ rows' = [rows EXCEPT ![i].requeued = TRUE]
         \/ rows' = [rows EXCEPT ![i].final = TRUE],
         Unmarked(i)
  PROVE  RowsKept /\ ~Unmarked(i)'
<1>1. rows \in Seq(Row) /\ i \in 1 .. Len(rows) /\ rows[i] \in Row
  BY RowTypes DEF TypeOK, RowIds
<1>2. PICK row \in Row :
        /\ rows' = [rows EXCEPT ![i] = row]
        /\ row.mail = rows[i].mail /\ row.reason = rows[i].reason /\ row.count = rows[i].count
        /\ row.requeued \/ row.final
        /\ ~(row.requeued /\ row.final)
  <2>1. ~rows[i].requeued /\ ~rows[i].final
    BY DEF Unmarked
  <2>2. CASE rows' = [rows EXCEPT ![i].requeued = TRUE]
    <3>. DEFINE row == [rows[i] EXCEPT !.requeued = TRUE]
    <3>1. /\ row \in Row /\ row.mail = rows[i].mail /\ row.reason = rows[i].reason
          /\ row.count = rows[i].count /\ row.requeued /\ row.final = rows[i].final
      BY <1>1 DEF Row
    <3>2. rows' = [rows EXCEPT ![i] = row]
      BY <1>1, <2>2
    <3>. HIDE DEF row
    <3>. QED  BY <2>1, <3>1, <3>2
  <2>3. CASE rows' = [rows EXCEPT ![i].final = TRUE]
    <3>. DEFINE row == [rows[i] EXCEPT !.final = TRUE]
    <3>1. /\ row \in Row /\ row.mail = rows[i].mail /\ row.reason = rows[i].reason
          /\ row.count = rows[i].count /\ row.final /\ row.requeued = rows[i].requeued
      BY <1>1 DEF Row
    <3>2. rows' = [rows EXCEPT ![i] = row]
      BY <1>1, <2>3
    <3>. HIDE DEF row
    <3>. QED  BY <2>1, <3>1, <3>2
  <2>. QED  BY <2>2, <2>3
<1>3. /\ rows' \in Seq(Row) /\ Len(rows') = Len(rows)
      /\ \A k \in 1 .. Len(rows) : rows'[k] = IF k = i THEN row ELSE rows[k]
  BY <1>1, <1>2, ExceptSeq
<1>. QED  BY <1>1, <1>2, <1>3 DEF RowsKept, RowIds, Unmarked, OneMark

\* Copies that were there already, or fewer, with the hands that were on them.
LEMMA Shrinks ==
  ASSUME TypeOK, NEW m \in Mail, MailInv(m),
         \A q \in Replayer : replay'[q].step \in Busy =>
           /\ replay[q].step \in Busy /\ replay'[q].todo = replay[q].todo
           /\ rows'[InHand(q)].mail = rows[InHand(q)].mail,
         LiveRows(m)' \subseteq LiveRows(m),
         \A i \in LiveRows(m) : rows'[i].count = rows[i].count,
         \A c \in Count : queue'[m][c] \in Nat /\ queue'[m][c] <= queue[m][c],
         autoPushes'[m] = autoPushes[m],
         m \in sent' \ unacked' => m \in sent \ unacked \/ (LiveRows(m)' = {} /\ LiveJobs(m)' = {})
  PROVE  MailInv(m)'
<1>1. LiveJobs(m)' \subseteq LiveJobs(m)
  BY DEF LiveJobs, TypeOK
<1>2. NoOverlap(m)'
  BY DEF MailInv, NoOverlap, InHand
<1>3. OneLive(m)'
  BY <1>1 DEF MailInv, OneLive, TypeOK
<1>4. CountKept(m)'
  BY <1>1 DEF MailInv, CountKept
<1>5. GoneWhenSent(m)'
  BY <1>1 DEF MailInv, GoneWhenSent
<1>. QED  BY <1>2, <1>3, <1>4, <1>5 DEF MailInv

\* A replay that has not queued a row leaves it: what was live may be so still.
LEMMA StepsBack ==
  ASSUME TypeOK, RowsKept, NEW m \in Mail, MailInv(m),
         NEW r \in Replayer, \A q \in Replayer : q # r => replay'[q] = replay[q],
         replay[r].step # "marking", replay'[r].step \notin Busy,
         UNCHANGED <<queue, autoPushes, sent, unacked>>
  PROVE  MailInv(m)'
<1>1. ASSUME NEW i \in RowIds, LiveRow(i)' PROVE LiveRow(i)
  <2>1. /\ At(i, {"enqueueing"})' \subseteq At(i, {"enqueueing"})
        /\ At(i, {"marking"})' = At(i, {"marking"})
    BY DEF At, InHand, Busy
  <2>. QED  BY <1>1, <2>1 DEF LiveRow, RowsKept
<1>2. LiveRows(m)' \subseteq LiveRows(m) /\ \A i \in LiveRows(m) : i \in RowIds
  BY <1>1 DEF LiveRows, RowIds, RowsKept
<1>3. ASSUME NEW q \in Replayer, replay'[q].step \in Busy
      PROVE  /\ replay[q].step \in Busy /\ replay'[q].todo = replay[q].todo
             /\ rows'[InHand(q)].mail = rows[InHand(q)].mail
  <2>1. replay'[q] = replay[q]
    BY <1>3
  <2>2. InHand(q) \in RowIds
    BY <1>3, <2>1, Hand DEF Busy
  <2>. QED  BY <1>3, <2>1, <2>2 DEF RowsKept
<1>4. \A c \in Count : queue'[m][c] \in Nat /\ queue'[m][c] <= queue[m][c]
  BY DEF TypeOK
<1>. QED  BY <1>2, <1>3, <1>4, Shrinks DEF RowsKept

\* A replay moves that has a row of another mail in hand.
LEMMA Elsewhere ==
  ASSUME TypeOK, RowsKept, NEW m \in Mail, MailInv(m),
         NEW r \in Replayer, \A q \in Replayer : q # r => replay'[q] = replay[q],
         replay[r].step # "idle", rows[InHand(r)].mail # m,
         replay'[r].step \in Busy => replay'[r].todo = replay[r].todo,
         UNCHANGED <<sent, unacked>>, queue'[m] = queue[m], autoPushes'[m] = autoPushes[m]
  PROVE  MailInv(m)'
<1>1. InHand(r) \in RowIds
  BY Hand
<1>2. replay'[r].step \in Busy => InHand(r)' = InHand(r)
  BY DEF InHand
<1>3. ASSUME NEW i \in RowIds, rows[i].mail = m, LiveRow(i)' PROVE LiveRow(i)
  <2>1. i # InHand(r)
    BY <1>3
  <2>2. /\ At(i, {"enqueueing"})' = At(i, {"enqueueing"})
        /\ At(i, {"marking"})' = At(i, {"marking"})
    BY <1>2, <2>1 DEF At, InHand, Busy
  <2>. QED  BY <1>3, <2>2 DEF LiveRow, RowsKept
<1>4. LiveRows(m)' \subseteq LiveRows(m) /\ \A i \in LiveRows(m) : i \in RowIds
  BY <1>3 DEF LiveRows, RowIds, RowsKept
<1>5. NoOverlap(m)'
  <2>. SUFFICES ASSUME NEW q \in Replayer, NEW s \in Replayer,
                       replay'[q].step \in Busy, replay'[s].step \in Busy,
                       InHand(q)' = InHand(s)', rows'[InHand(q)'].mail = m
                PROVE  q = s
    BY DEF NoOverlap
  <2>1. ASSUME NEW t \in Replayer, t # r, replay'[t].step \in Busy
        PROVE  /\ replay[t].step \in Busy /\ InHand(t)' = InHand(t)
               /\ rows'[InHand(t)].mail = rows[InHand(t)].mail
    <3>1. InHand(t) \in RowIds
      BY <2>1, Hand DEF Busy
    <3>. QED  BY <2>1, <3>1 DEF InHand, RowsKept
  <2>2. rows'[InHand(r)].mail # m
    BY <1>1 DEF RowsKept
  <2>3. q # r /\ s # r
    BY <1>2, <2>2
  <2>. QED  BY <2>1, <2>3 DEF MailInv, NoOverlap
<1>6. /\ LiveJobs(m)' = LiveJobs(m)
      /\ OneLive(m)'
  BY <1>4 DEF MailInv, OneLive, LiveJobs
<1>7. CountKept(m)' /\ GoneWhenSent(m)'
  BY <1>4, <1>6 DEF MailInv, CountKept, GoneWhenSent, RowsKept
<1>. QED  BY <1>5, <1>6, <1>7 DEF MailInv

\* What is said of all rows and replays, after the move of one.
BaseInv == TypeOK /\ HandOK /\ HardSuppressed /\ OneMark

LEMMA BaseKept ==
  ASSUME BaseInv, RowsKept, ReplaysOK',
         NEW r \in Replayer, \A q \in Replayer : q # r => replay'[q] = replay[q],
         r \in Cycle /\ replay'[r].step = "enqueueing" =>
           /\ replay[r].step # "idle" /\ replay'[r].todo = replay[r].todo
           /\ rows[InHand(r)].count < MaxAuto,
         suppressed' = suppressed, queue' \in [Mail -> [Count -> Nat]],
         requests' \in 0 .. MaxRequests, faults' \in 0 .. MaxFaults,
         sent' \subseteq Mail, unacked' \subseteq Mail, excused' \subseteq Mail, autoPushes' \in [Mail -> Nat]
  PROVE  BaseInv'
<1>1. TypeOK /\ HandOK /\ HardSuppressed /\ OneMark
  BY DEF BaseInv
<1>2. TypeOK'
  BY <1>1 DEF TypeOK, RowsKept, ReplaysOK
<1>3. HandOK'
  <2>. SUFFICES ASSUME NEW q \in Cycle, replay'[q].step = "enqueueing"
                PROVE  rows'[InHand(q)'].count < MaxAuto
    BY DEF HandOK
  <2>1. q \in Replayer
    BY DEF Replayer
  <2>2. /\ replay[q].step # "idle" /\ replay'[q].todo = replay[q].todo
        /\ rows[InHand(q)].count < MaxAuto
    BY <1>1, <2>1 DEF HandOK
  <2>3. InHand(q) \in RowIds /\ InHand(q)' = InHand(q)
    BY <1>1, <2>1, <2>2, Hand DEF InHand
  <2>. QED  BY <2>2, <2>3 DEF RowsKept
<1>4. HardSuppressed' /\ OneMark'
  BY <1>1 DEF HardSuppressed, OneMark, RowsKept, RowIds
<1>. QED  BY <1>2, <1>3, <1>4 DEF BaseInv

LEMMA InvIs == ReplayInv <=> BaseInv /\ \A m \in Mail \ excused : MailInv(m)
BY DEF ReplayInv, BaseInv

LEMMA InvIsNext == ReplayInv' <=> BaseInv' /\ \A m \in Mail \ excused' : MailInv(m)'
BY DEF ReplayInv, BaseInv

LEMMA ReplayInit == Init => ReplayInv
<1>. SUFFICES ASSUME Init PROVE ReplayInv
  OBVIOUS
<1>1. rows = <<>> /\ rows \in Seq(Row) /\ Len(rows) = 0 /\ RowIds = {}
  BY EmptySeq DEF Init, RowIds
<1>2. queue \in [Mail -> [Count -> Nat]]
  BY DEF Init
<1>3. replay \in [Replayer -> Replay] /\ \A r \in Replayer : replay[r].step = "idle"
  BY DEF Init, Idle, Replay
<1>4. TypeOK
  BY <1>1, <1>2, <1>3, LimitTypes DEF Init, TypeOK
<1>5. HandOK /\ HardSuppressed /\ OneMark
  BY <1>1, <1>3 DEF HandOK, HardSuppressed, OneMark, Replayer
<1>6. ASSUME NEW m \in Mail PROVE MailInv(m)
  <2>1. LiveRows(m) = {}
    BY <1>1 DEF LiveRows
  <2>2. NoOverlap(m)
    BY <1>3 DEF NoOverlap, Busy
  <2>3. \A c \in Count : queue[m][c] = IF c = 0 THEN 1 ELSE 0
    BY DEF Init
  <2>4. OneLive(m)
    BY <2>1, <2>3 DEF OneLive
  <2>5. autoPushes[m] = 0
    BY DEF Init
  <2>6. CountKept(m)
    BY <2>1, <2>3, <2>5, LimitTypes DEF CountKept, LiveJobs
  <2>7. GoneWhenSent(m)
    BY DEF GoneWhenSent, Init
  <2>. QED  BY <2>2, <2>4, <2>6, <2>7 DEF MailInv
<1>. QED  BY <1>4, <1>5, <1>6 DEF ReplayInv

-----------------------------------------------------------------------------
(* The worker.                                                             *)

LEMMA TakenFromQueue ==
  ASSUME TypeOK, NEW m \in Mail, NEW c \in Count, queue[m][c] > 0,
         queue' = [queue EXCEPT ![m][c] = @ - 1]
  PROVE  /\ queue' \in [Mail -> [Count -> Nat]]
         /\ \A n \in Mail : n # m => queue'[n] = queue[n]
         /\ \A d \in Count : queue'[m][d] = IF d = c THEN queue[m][c] - 1 ELSE queue[m][d]
BY DEF TypeOK

\* The only copy of a mail is taken.
LEMMA OnlyCopyTaken ==
  ASSUME TypeOK, NEW m \in Mail, MailInv(m), NEW c \in Count, queue[m][c] > 0,
         queue' = [queue EXCEPT ![m][c] = @ - 1]
  PROVE  /\ c = autoPushes[m] /\ m \notin sent \ unacked
         /\ LiveRows(m) = {} /\ LiveJobs(m)' = {}
         /\ \A d \in Count : queue'[m][d] = 0
<1>1. c \in LiveJobs(m)
  BY DEF LiveJobs
<1>2. LiveRows(m) = {} /\ m \notin sent \ unacked /\ \A d \in LiveJobs(m) : d = c
  BY <1>1 DEF MailInv, OneLive, CountKept, GoneWhenSent
<1>3. c = autoPushes[m]
  BY <1>1 DEF MailInv, CountKept
<1>4. \A d \in Count : queue[m][d] = IF d = c THEN 1 ELSE 0
  BY <1>2 DEF MailInv, OneLive, LiveJobs, TypeOK
<1>5. \A d \in Count : queue'[m][d] = 0
  <2>1. \A d \in Count : queue'[m][d] = IF d = c THEN queue[m][c] - 1 ELSE queue[m][d]
    BY TakenFromQueue
  <2>. QED  BY <1>4, <2>1
<1>. QED  BY <1>2, <1>3, <1>5 DEF LiveJobs

LEMMA DeliverStep ==
  ASSUME ReplayInv, NEW m \in Mail, NEW c \in Count, Deliver(m, c)
  PROVE  ReplayInv'
<1>1. /\ BaseInv /\ TypeOK /\ \A n \in Mail \ excused : MailInv(n)
      /\ queue[m][c] > 0 /\ queue' = [queue EXCEPT ![m][c] = @ - 1]
      /\ sent' = sent \cup {m}
      /\ UNCHANGED <<rows, suppressed, replay, requests, faults, autoPushes, excused,
                     unacked>>
  BY InvIs DEF Deliver, BaseInv
<1>2. /\ queue' \in [Mail -> [Count -> Nat]]
      /\ \A n \in Mail : n # m => queue'[n] = queue[n]
      /\ \A d \in Count : queue'[m][d] = IF d = c THEN queue[m][c] - 1 ELSE queue[m][d]
  BY <1>1, TakenFromQueue
<1>3. BaseInv'
  BY <1>1, <1>2 DEF BaseInv, TypeOK, HandOK, HardSuppressed, OneMark, InHand, RowIds
<1>4. \A n \in Mail : LiveRows(n)' = LiveRows(n)
  BY <1>1 DEF LiveRows, RowIds, LiveRow, Unmarked, At, InHand
<1>5. ASSUME NEW n \in Mail \ excused PROVE MailInv(n)'
  <2>1. \A d \in Count : queue'[n][d] \in Nat /\ queue'[n][d] <= queue[n][d]
    BY <1>1, <1>2 DEF TypeOK
  <2>2. n = m => LiveRows(n)' = {} /\ LiveJobs(n)' = {}
    BY <1>1, <1>4, <1>5, OnlyCopyTaken
  <2>. QED  BY <1>1, <1>4, <1>5, <2>1, <2>2, Shrinks
<1>. QED  BY <1>1, <1>3, <1>5, InvIsNext

\* SMTP has the mail and its job stays: it is the same copy.
LEMMA DeliverUnackedStep ==
  ASSUME ReplayInv, NEW m \in Mail, NEW c \in Count, DeliverUnacked(m, c)
  PROVE  ReplayInv'
<1>1. /\ BaseInv /\ TypeOK /\ \A n \in Mail \ excused : MailInv(n)
      /\ faults < MaxFaults /\ faults' = faults + 1
      /\ sent' = sent \cup {m} /\ unacked' = unacked \cup {m}
      /\ UNCHANGED <<queue, rows, suppressed, replay, requests, autoPushes, excused>>
  BY InvIs DEF DeliverUnacked, BaseInv, Fault
<1>2. BaseInv'
  BY <1>1, LimitTypes DEF BaseInv, TypeOK, HandOK, HardSuppressed, OneMark, InHand, RowIds
<1>3. \A n \in Mail : LiveRows(n)' = LiveRows(n)
  BY <1>1 DEF LiveRows, RowIds, LiveRow, Unmarked, At, InHand
<1>4. ASSUME NEW n \in Mail \ excused PROVE MailInv(n)'
  <2>1. \A d \in Count : queue'[n][d] \in Nat /\ queue'[n][d] <= queue[n][d]
    BY <1>1 DEF TypeOK
  <2>. QED  BY <1>1, <1>3, <1>4, <2>1, Shrinks
<1>. QED  BY <1>1, <1>2, <1>4, InvIsNext

\* The only copy of the mail is dropped.
LEMMA DeadLetterLostStep ==
  ASSUME ReplayInv, NEW m \in Mail, NEW c \in Count, NEW reason \in Reason,
         DeadLetterLost(m, c, reason)
  PROVE  ReplayInv'
<1>1. /\ BaseInv /\ TypeOK /\ \A n \in Mail \ excused : MailInv(n)
      /\ queue[m][c] > 0 /\ queue' = [queue EXCEPT ![m][c] = @ - 1]
      /\ faults < MaxFaults /\ faults' = faults + 1
      /\ suppressed' = IF reason = "hard" THEN suppressed \cup {m} ELSE suppressed
      /\ UNCHANGED <<rows, replay, requests, sent, unacked, autoPushes, excused>>
  BY InvIs DEF DeadLetterLost, BaseInv, Fault, history
<1>2. /\ queue' \in [Mail -> [Count -> Nat]]
      /\ \A n \in Mail : n # m => queue'[n] = queue[n]
      /\ \A d \in Count : queue'[m][d] = IF d = c THEN queue[m][c] - 1 ELSE queue[m][d]
  BY <1>1, TakenFromQueue
<1>3. BaseInv'
  BY <1>1, <1>2, LimitTypes
     DEF BaseInv, TypeOK, HandOK, HardSuppressed, OneMark, InHand, RowIds
<1>4. \A n \in Mail : LiveRows(n)' = LiveRows(n)
  BY <1>1 DEF LiveRows, RowIds, LiveRow, Unmarked, At, InHand
<1>5. ASSUME NEW n \in Mail \ excused PROVE MailInv(n)'
  <2>1. \A d \in Count : queue'[n][d] \in Nat /\ queue'[n][d] <= queue[n][d]
    BY <1>1, <1>2 DEF TypeOK
  <2>. QED  BY <1>1, <1>4, <1>5, <2>1, Shrinks
<1>. QED  BY <1>1, <1>3, <1>5, InvIsNext

LEMMA FailGrows ==
  ASSUME BaseInv, NEW m \in Mail, NEW c \in Count, NEW reason \in Reason,
         Fail(m, c, reason), replay' = replay,
         queue' \in [Mail -> [Count -> Nat]], faults' \in 0 .. MaxFaults,
         excused' \subseteq Mail, UNCHANGED <<requests, sent, unacked, autoPushes>>
  PROVE  /\ BaseInv'
         /\ RowIds' = RowIds \cup {Len(rows) + 1} /\ Len(rows) + 1 \notin RowIds
         /\ \A i \in RowIds : rows'[i] = rows[i]
         /\ rows'[Len(rows) + 1].mail = m /\ rows'[Len(rows) + 1].count = c
         /\ \A i \in RowIds : LiveRow(i)' <=> LiveRow(i)
         /\ \A r \in Replayer : replay[r].step # "idle" => InHand(r) \in RowIds
<1>. DEFINE row == [mail |-> m, reason |-> reason, count |-> c,
                    requeued |-> FALSE, final |-> FALSE]
            new == Len(rows) + 1
<1>1. /\ TypeOK /\ HandOK /\ HardSuppressed /\ OneMark
      /\ Len(rows) < MaxRows /\ rows' = Append(rows, row)
      /\ suppressed' = IF reason = "hard" THEN suppressed \cup {m} ELSE suppressed
  BY DEF BaseInv, Fail, InsertRow
<1>2. /\ row \in Row /\ row.mail = m /\ row.reason = reason /\ row.count = c
      /\ ~row.requeued /\ ~row.final
  BY DEF Row
<1>. HIDE DEF row
<1>3. /\ rows' \in Seq(Row) /\ Len(rows) \in Nat /\ Len(rows') = Len(rows) + 1
      /\ \A i \in 1 .. Len(rows) : rows'[i] = rows[i]
      /\ rows'[new] = row
  BY <1>1, <1>2, AppendProperties DEF TypeOK
<1>4. /\ RowIds' = RowIds \cup {new} /\ new \notin RowIds
      /\ \A i \in RowIds : rows'[i] = rows[i]
  BY <1>3 DEF RowIds
<1>5. \A r \in Replayer : replay[r].step # "idle" => InHand(r) \in RowIds
  BY <1>1, Hand
<1>6. ReplaysOK'
  BY <1>1, <1>3 DEF TypeOK, ReplaysOK
<1>7. TypeOK'
  BY <1>1, <1>3, <1>6, LimitTypes DEF TypeOK, ReplaysOK
<1>8. HandOK'
  BY <1>1, <1>4, <1>5 DEF HandOK, InHand, Replayer
<1>9. HardSuppressed' /\ OneMark'
  BY <1>1, <1>2, <1>3, <1>4 DEF HardSuppressed, OneMark
<1>10. \A i \in RowIds : LiveRow(i)' <=> LiveRow(i)
  BY <1>4 DEF LiveRow, Unmarked, At, InHand
<1>. QED  BY <1>2, <1>3, <1>4, <1>5, <1>7, <1>8, <1>9, <1>10 DEF BaseInv

\* The new row is the copy that the job was.
LEMMA DeadLetterStep ==
  ASSUME ReplayInv, NEW m \in Mail, NEW c \in Count, NEW reason \in Reason,
         DeadLetter(m, c, reason)
  PROVE  ReplayInv'
<1>. DEFINE new == Len(rows) + 1
<1>1. /\ BaseInv /\ TypeOK /\ \A n \in Mail \ excused : MailInv(n)
      /\ queue[m][c] > 0 /\ queue' = [queue EXCEPT ![m][c] = @ - 1]
      /\ Fail(m, c, reason)
      /\ UNCHANGED <<replay, requests, faults, sent, unacked, autoPushes, excused>>
  BY InvIs DEF DeadLetter, BaseInv, history
<1>2. /\ queue' \in [Mail -> [Count -> Nat]]
      /\ \A n \in Mail : n # m => queue'[n] = queue[n]
  BY <1>1, TakenFromQueue
<1>3. /\ BaseInv'
      /\ RowIds' = RowIds \cup {new} /\ new \notin RowIds
      /\ \A i \in RowIds : rows'[i] = rows[i]
      /\ rows'[new].mail = m /\ rows'[new].count = c
      /\ \A i \in RowIds : LiveRow(i)' <=> LiveRow(i)
      /\ \A r \in Replayer : replay[r].step # "idle" => InHand(r) \in RowIds
  <2>1. faults' \in 0 .. MaxFaults /\ excused' \subseteq Mail
    BY <1>1 DEF TypeOK
  <2>. QED  BY <1>1, <1>2, <2>1, FailGrows
<1>. HIDE DEF new
<1>4. ASSUME NEW n \in Mail \ excused, n # m PROVE MailInv(n)'
  <2>1. LiveRows(n)' \subseteq LiveRows(n) /\ \A i \in LiveRows(n) : i \in RowIds
    BY <1>3, <1>4 DEF LiveRows
  <2>2. ASSUME NEW q \in Replayer, replay'[q].step \in Busy
        PROVE  /\ replay[q].step \in Busy /\ replay'[q].todo = replay[q].todo
               /\ rows'[InHand(q)].mail = rows[InHand(q)].mail
    BY <1>1, <1>3, <2>2 DEF Busy
  <2>3. \A d \in Count : queue'[n][d] \in Nat /\ queue'[n][d] <= queue[n][d]
    BY <1>1, <1>2, <1>4 DEF TypeOK
  <2>. QED  BY <1>1, <1>3, <1>4, <2>1, <2>2, <2>3, Shrinks
<1>5. ASSUME m \notin excused PROVE MailInv(m)'
  <2>1. /\ MailInv(m) /\ c = autoPushes[m] /\ m \notin sent \ unacked
        /\ LiveRows(m) = {} /\ LiveJobs(m)' = {}
        /\ \A d \in Count : queue'[m][d] = 0
    BY <1>1, <1>5, OnlyCopyTaken
  <2>2. LiveRows(m)' \subseteq {new}
    BY <1>3, <2>1 DEF LiveRows
  <2>3. NoOverlap(m)'
    <3>. SUFFICES ASSUME NEW q \in Replayer, NEW s \in Replayer,
                         replay'[q].step \in Busy, replay'[s].step \in Busy,
                         InHand(q)' = InHand(s)', rows'[InHand(q)'].mail = m
                  PROVE  q = s
      BY DEF NoOverlap
    <3>1. /\ replay[q].step \in Busy /\ replay[s].step \in Busy
          /\ InHand(q)' = InHand(q) /\ InHand(s)' = InHand(s)
      BY <1>1 DEF InHand
    <3>2. rows[InHand(q)].mail = m
      BY <1>3, <3>1 DEF Busy
    <3>. QED  BY <2>1, <3>1, <3>2 DEF MailInv, NoOverlap
  <2>4. OneLive(m)'
    BY <2>1, <2>2 DEF OneLive
  <2>5. CountKept(m)'
    BY <1>1, <1>3, <2>1, <2>2 DEF CountKept, MailInv
  <2>6. GoneWhenSent(m)'
    BY <1>1, <2>1 DEF GoneWhenSent
  <2>. QED  BY <2>3, <2>4, <2>5, <2>6 DEF MailInv
<1>. QED  BY <1>1, <1>3, <1>4, <1>5, InvIsNext

LEMMA DeadLetterUnackedStep ==
  ASSUME ReplayInv, NEW m \in Mail, NEW c \in Count, NEW reason \in Reason,
         DeadLetterUnacked(m, c, reason)
  PROVE  ReplayInv'
<1>. DEFINE new == Len(rows) + 1
<1>1. /\ BaseInv /\ TypeOK /\ \A n \in Mail \ excused : MailInv(n)
      /\ Fail(m, c, reason)
      /\ faults < MaxFaults /\ faults' = faults + 1 /\ excused' = excused \cup {m}
      /\ UNCHANGED <<queue, replay, requests, sent, unacked, autoPushes>>
  BY InvIs DEF DeadLetterUnacked, BaseInv, Fault
<1>2. /\ BaseInv'
      /\ RowIds' = RowIds \cup {new} /\ new \notin RowIds
      /\ \A i \in RowIds : rows'[i] = rows[i]
      /\ rows'[new].mail = m
      /\ \A i \in RowIds : LiveRow(i)' <=> LiveRow(i)
      /\ \A r \in Replayer : replay[r].step # "idle" => InHand(r) \in RowIds
  <2>1. /\ queue' \in [Mail -> [Count -> Nat]] /\ faults' \in 0 .. MaxFaults
        /\ excused' \subseteq Mail
    BY <1>1, LimitTypes DEF TypeOK
  <2>. QED  BY <1>1, <2>1, FailGrows
<1>. HIDE DEF new
<1>3. ASSUME NEW n \in Mail \ excused, n # m PROVE MailInv(n)'
  <2>1. LiveRows(n)' \subseteq LiveRows(n) /\ \A i \in LiveRows(n) : i \in RowIds
    BY <1>2, <1>3 DEF LiveRows
  <2>2. ASSUME NEW q \in Replayer, replay'[q].step \in Busy
        PROVE  /\ replay[q].step \in Busy /\ replay'[q].todo = replay[q].todo
               /\ rows'[InHand(q)].mail = rows[InHand(q)].mail
    BY <1>1, <1>2, <2>2 DEF Busy
  <2>3. \A d \in Count : queue'[n][d] \in Nat /\ queue'[n][d] <= queue[n][d]
    BY <1>1 DEF TypeOK
  <2>. QED  BY <1>1, <1>2, <1>3, <2>1, <2>2, <2>3, Shrinks
<1>. QED  BY <1>1, <1>2, <1>3, InvIsNext

-----------------------------------------------------------------------------
(* The replays.                                                            *)

\* A replay begins, gives a row up, or leaves one that it has not queued.
LEMMA BackStep ==
  ASSUME ReplayInv, RowsKept, ReplaysOK',
         NEW r \in Replayer, \A q \in Replayer : q # r => replay'[q] = replay[q],
         replay[r].step # "marking", replay'[r].step \notin Busy,
         requests' \in 0 .. MaxRequests, faults' \in 0 .. MaxFaults,
         UNCHANGED <<queue, suppressed, sent, unacked, autoPushes, excused>>
  PROVE  ReplayInv'
<1>1. BaseInv /\ TypeOK /\ \A n \in Mail \ excused : MailInv(n)
  BY InvIs DEF BaseInv
<1>2. BaseInv'
  BY <1>1, BaseKept DEF TypeOK, Busy
<1>3. \A n \in Mail \ excused : MailInv(n)'
  BY <1>1, StepsBack
<1>. QED  BY <1>2, <1>3, InvIsNext

\* A replay leaves a row whose mail has an excuse from now on.
LEMMA ExcusedStep ==
  ASSUME ReplayInv, RowsKept, ReplaysOK',
         NEW r \in Replayer, \A q \in Replayer : q # r => replay'[q] = replay[q],
         replay[r].step # "idle", replay'[r].step \notin Busy,
         faults' \in 0 .. MaxFaults,
         excused' = excused \cup {rows[InHand(r)].mail},
         queue' \in [Mail -> [Count -> Nat]], autoPushes' \in [Mail -> Nat],
         \A n \in Mail : n # rows[InHand(r)].mail =>
           queue'[n] = queue[n] /\ autoPushes'[n] = autoPushes[n],
         UNCHANGED <<suppressed, requests, sent, unacked>>
  PROVE  ReplayInv'
<1>1. BaseInv /\ TypeOK /\ \A n \in Mail \ excused : MailInv(n)
  BY InvIs DEF BaseInv
<1>2. rows[InHand(r)].mail \in Mail
  BY <1>1, Hand, RowTypes
<1>3. BaseInv'
  BY <1>1, <1>2, BaseKept DEF TypeOK, Busy
<1>4. ASSUME NEW n \in Mail \ excused' PROVE MailInv(n)'
  BY <1>1, <1>4, Elsewhere
<1>. QED  BY <1>3, <1>4, InvIsNext

LEMMA PendingAreRows == \A limit : PendingRows(limit) \subseteq RowIds
BY DEF PendingRows

LEMMA StartStep ==
  ASSUME ReplayInv, NEW r \in Replayer,
         \/ r \in Cycle /\ StartCycle(r)
         \/ r \in Manual /\ \E force \in Forces : StartRequest(r, force)
  PROVE  ReplayInv'
<1>1. TypeOK /\ OneMark
  BY DEF ReplayInv
<1>2. /\ replay[r].step = "idle" /\ UNCHANGED <<queue, rows, suppressed, faults, history>>
      /\ requests' \in 0 .. MaxRequests
  BY <1>1, LimitTypes DEF StartCycle, StartRequest, TypeOK
<1>3. PICK todo \in SUBSET RowIds, force \in BOOLEAN :
        /\ todo # {}
        /\ replay' = [replay EXCEPT ![r] = [todo |-> todo, force |-> force, step |-> "reading"]]
  <2>1. CASE StartCycle(r)
    BY <2>1, PendingAreRows, ForceAssumption DEF StartCycle
  <2>2. CASE \E force \in Forces : StartRequest(r, force)
    <3>1. PICK force \in Forces : StartRequest(r, force)
      BY <2>2
    <3>2. force \in BOOLEAN
      BY ForceAssumption
    <3>3. PICK todo \in {{i} : i \in RowIds} \cup {PendingRows(MaxRows)} :
            /\ todo # {}
            /\ replay' = [replay EXCEPT ![r] = [todo |-> todo, force |-> force,
                                                step |-> "reading"]]
      BY <3>1 DEF StartRequest
    <3>4. todo \in SUBSET RowIds
      BY PendingAreRows
    <3>. QED  BY <3>2, <3>3, <3>4
  <2>. QED  BY <2>1, <2>2
<1>4. /\ ReplaysOK'
      /\ \A q \in Replayer : q # r => replay'[q] = replay[q]
      /\ replay'[r].step = "reading"
  BY <1>1, <1>2, <1>3, StartMoves
<1>5. RowsKept /\ faults' \in 0 .. MaxFaults
  BY <1>1, <1>2, SameRowsKept DEF TypeOK
<1>. QED  BY <1>2, <1>4, <1>5, BackStep DEF Busy, history

LEMMA LeaveStep ==
  ASSUME ReplayInv, NEW r \in Replayer,
         Skip(r) \/ Reject(r) \/ EnqueueFails(r)
  PROVE  ReplayInv'
<1>1. TypeOK /\ OneMark
  BY DEF ReplayInv
<1>2. /\ replay[r].step \in {"reading", "enqueueing"}
      /\ UNCHANGED <<queue, rows, suppressed, requests, history>>
      /\ faults' \in 0 .. MaxFaults
      /\ Proceed(r) \/ Goto(r, "giving up")
  <2>1. faults \in 0 .. MaxFaults
    BY <1>1 DEF TypeOK
  <2>2. CASE Skip(r)
    BY <2>1, <2>2 DEF Skip
  <2>3. CASE Reject(r)
    BY <2>1, <2>3 DEF Reject
  <2>4. CASE EnqueueFails(r)
    BY <2>1, <2>4, LimitTypes DEF EnqueueFails, Fault
  <2>. QED  BY <2>2, <2>3, <2>4
<1>3. RowsKept /\ requests' \in 0 .. MaxRequests
  BY <1>1, <1>2, SameRowsKept DEF TypeOK
<1>4. /\ ReplaysOK'
      /\ \A q \in Replayer : q # r => replay'[q] = replay[q]
      /\ replay'[r].step \in {"idle", "reading", "giving up"}
  BY <1>1, <1>2, ProceedMoves, GotoMoves
<1>. QED  BY <1>2, <1>3, <1>4, BackStep DEF Busy, history

LEMMA MarkFinalStep ==
  ASSUME ReplayInv, NEW r \in Replayer, MarkFinal(r)
  PROVE  ReplayInv'
<1>1. TypeOK /\ OneMark
  BY DEF ReplayInv
<1>2. /\ replay[r].step = "giving up" /\ Proceed(r)
      /\ rows' = IF Unmarked(InHand(r)) THEN [rows EXCEPT ![InHand(r)].final = TRUE] ELSE rows
      /\ UNCHANGED <<queue, suppressed, requests, faults, history>>
  BY DEF MarkFinal
<1>3. RowsKept /\ Len(rows') = Len(rows)
  <2>1. InHand(r) \in RowIds
    BY <1>1, <1>2, Hand
  <2>. QED  BY <1>1, <1>2, <2>1, SameRowsKept, MarkKeepsRows DEF RowsKept
<1>4. /\ ReplaysOK'
      /\ \A q \in Replayer : q # r => replay'[q] = replay[q]
      /\ replay'[r].step \in {"idle", "reading"}
  BY <1>1, <1>2, <1>3, ProceedMoves
<1>5. requests' \in 0 .. MaxRequests /\ faults' \in 0 .. MaxFaults
  BY <1>1, <1>2 DEF TypeOK
<1>. QED  BY <1>2, <1>3, <1>4, <1>5, BackStep DEF Busy, history

\* A replay takes a row that is live and in no other hands, or excuses its mail.
LEMMA AcceptStep ==
  ASSUME ReplayInv, NEW r \in Replayer, Accept(r)
  PROVE  ReplayInv'
<1>1. /\ BaseInv /\ TypeOK /\ OneMark /\ \A n \in Mail \ excused : MailInv(n)
      /\ replay[r].step = "reading"
  BY InvIs DEF BaseInv, Accept
<1>2. PICK i \in RowIds, m \in Mail :
        i = InHand(r) /\ m = rows[i].mail /\ rows[i] \in Row /\ rows[i].count \in Count
  BY <1>1, Hand, RowTypes
<1>3. /\ replay[r].step = "reading" /\ ~Marked(r) /\ ~Exhausted(r)
      /\ Goto(r, "enqueueing")
      /\ excused' = IF rows[i].final \/ At(i, Busy) # {} THEN excused \cup {m} ELSE excused
      /\ UNCHANGED <<queue, rows, suppressed, requests, faults, sent, unacked, autoPushes>>
  BY <1>2 DEF Accept, Busy
<1>4. RowsKept /\ Len(rows') = Len(rows)
  BY <1>1, <1>3, SameRowsKept
<1>5. /\ ReplaysOK'
      /\ \A q \in Replayer : q # r => replay'[q] = replay[q]
      /\ replay'[r].step = "enqueueing" /\ replay'[r].todo = replay[r].todo
  BY <1>1, <1>3, <1>4, GotoMoves
<1>6. r \in Cycle => rows[i].count < MaxAuto
  BY <1>3, <1>2, LimitTypes DEF Exhausted, Count
<1>7. BaseInv'
  <2>1. /\ requests' \in 0 .. MaxRequests /\ faults' \in 0 .. MaxFaults
        /\ sent' \subseteq Mail /\ unacked' \subseteq Mail /\ excused' \subseteq Mail
        /\ autoPushes' \in [Mail -> Nat]
        /\ queue' \in [Mail -> [Count -> Nat]]
    BY <1>1, <1>3, <1>2 DEF TypeOK
  <2>. QED  BY <1>1, <1>3, <1>2, <1>4, <1>5, <1>6, <2>1, BaseKept
<1>8. ASSUME NEW n \in Mail \ excused, n # m PROVE MailInv(n)'
  BY <1>1, <1>3, <1>2, <1>4, <1>5, <1>8, Elsewhere
<1>9. ASSUME m \notin excused' PROVE MailInv(m)'
  <2>1. /\ m \notin excused /\ MailInv(m) /\ ~rows[i].final
        /\ \A q \in Replayer : ~(replay[q].step \in Busy /\ InHand(q) = i)
    BY <1>1, <1>3, <1>2, <1>9 DEF At
  <2>2. Unmarked(i)
    BY <1>3, <1>2, <2>1 DEF Marked, Unmarked
  <2>3. LiveRow(i)
    BY <2>1, <2>2 DEF LiveRow, At, Busy
  <2>4. InHand(r)' = i
    BY <1>2, <1>5 DEF InHand
  <2>5. ASSUME NEW k \in RowIds, LiveRow(k)' PROVE LiveRow(k)
    <3>1. CASE k = i
      BY <3>1, <2>3
    <3>2. CASE k # i
      <4>1. /\ At(k, {"enqueueing"})' = At(k, {"enqueueing"})
            /\ At(k, {"marking"})' = At(k, {"marking"})
        BY <1>3, <1>5, <2>4, <3>2 DEF At, InHand
      <4>. QED  BY <2>5, <4>1, <1>3 DEF LiveRow, Unmarked
    <3>. QED  BY <3>1, <3>2
  <2>6. LiveRows(m)' \subseteq LiveRows(m) /\ RowIds' = RowIds
    BY <1>3, <2>5 DEF LiveRows, RowIds
  <2>7. NoOverlap(m)'
    <3>. SUFFICES ASSUME NEW q \in Replayer, NEW t \in Replayer,
                         replay'[q].step \in Busy, replay'[t].step \in Busy,
                         InHand(q)' = InHand(t)', rows'[InHand(q)'].mail = m
                  PROVE  q = t
      BY <1>3 DEF NoOverlap
    <3>1. CASE q = r \/ t = r
      BY <1>5, <2>1, <2>4, <3>1 DEF InHand
    <3>2. CASE q # r /\ t # r
      BY <1>3, <1>5, <2>1, <3>2 DEF InHand, MailInv, NoOverlap
    <3>. QED  BY <3>1, <3>2
  <2>8. LiveJobs(m)' = LiveJobs(m) /\ OneLive(m)'
    BY <1>3, <1>2, <2>1, <2>6 DEF MailInv, OneLive, LiveJobs
  <2>9. CountKept(m)' /\ GoneWhenSent(m)'
    BY <1>3, <1>2, <2>1, <2>6, <2>8 DEF MailInv, CountKept, GoneWhenSent
  <2>. QED  BY <1>3, <2>7, <2>8, <2>9 DEF MailInv
<1>10. excused \subseteq excused'
  BY <1>3
<1>11. \A n \in Mail \ excused' : MailInv(n)'
  BY <1>3, <1>8, <1>9, <1>10
<1>. QED  BY <1>7, <1>11, InvIsNext

\* The queue has one job more of the mail in hand.
LEMMA EnqueueEffect ==
  ASSUME BaseInv, NEW r \in Replayer, replay[r].step = "enqueueing", Enqueue(r)
  PROVE  LET i == InHand(r)
             m == rows[i].mail
             c == IF r \in Cycle THEN rows[i].count + 1 ELSE rows[i].count
         IN  /\ m \in Mail /\ c \in Count
             /\ queue' \in [Mail -> [Count -> Nat]] /\ autoPushes' \in [Mail -> Nat]
             /\ \A n \in Mail : n # m => queue'[n] = queue[n] /\ autoPushes'[n] = autoPushes[n]
             /\ \A d \in Count : queue'[m][d] = IF d = c THEN queue[m][c] + 1 ELSE queue[m][d]
             /\ autoPushes'[m] = IF r \in Cycle THEN autoPushes[m] + 1 ELSE autoPushes[m]
<1>. DEFINE i == InHand(r)
            m == rows[i].mail
            c == IF r \in Cycle THEN rows[i].count + 1 ELSE rows[i].count
<1>1. TypeOK /\ HandOK
  BY DEF BaseInv
<1>2. i \in RowIds /\ m \in Mail /\ rows[i].count \in Count
  BY <1>1, Hand, RowTypes
<1>3. c \in Count
  BY <1>1, <1>2, LimitTypes DEF HandOK, Count
<1>4. /\ queue' = [queue EXCEPT ![m][c] = @ + 1]
      /\ autoPushes' = IF r \in Cycle THEN [autoPushes EXCEPT ![m] = @ + 1] ELSE autoPushes
  BY DEF Enqueue
<1>. HIDE DEF m, c
<1>5. queue \in [Mail -> [Count -> Nat]] /\ autoPushes \in [Mail -> Nat]
  BY <1>1 DEF TypeOK
<1>6. /\ queue' \in [Mail -> [Count -> Nat]]
      /\ \A n \in Mail : n # m => queue'[n] = queue[n]
      /\ \A d \in Count : queue'[m][d] = IF d = c THEN queue[m][c] + 1 ELSE queue[m][d]
  BY <1>2, <1>3, <1>4, <1>5
<1>7. /\ autoPushes' \in [Mail -> Nat]
      /\ \A n \in Mail : n # m => autoPushes'[n] = autoPushes[n]
      /\ autoPushes'[m] = IF r \in Cycle THEN autoPushes[m] + 1 ELSE autoPushes[m]
  BY <1>2, <1>4, <1>5
<1>. QED  BY <1>2, <1>3, <1>6, <1>7 DEF m, c

\* The job is the copy that its row was.
LEMMA EnqueuedStep ==
  ASSUME ReplayInv, NEW r \in Replayer, Enqueued(r)
  PROVE  ReplayInv'
<1>1. BaseInv /\ TypeOK /\ HandOK /\ OneMark /\ \A n \in Mail \ excused : MailInv(n)
  BY InvIs DEF BaseInv
<1>2. /\ replay[r].step = "enqueueing" /\ Enqueue(r) /\ Goto(r, "marking")
      /\ UNCHANGED <<rows, suppressed, requests, faults, sent, unacked, excused>>
  BY DEF Enqueued
<1>3. PICK i \in RowIds, m \in Mail, c \in Count :
      /\ i = InHand(r) /\ m = rows[i].mail /\ rows[i].count \in Count
      /\ c = IF r \in Cycle THEN rows[i].count + 1 ELSE rows[i].count
      /\ queue' \in [Mail -> [Count -> Nat]] /\ autoPushes' \in [Mail -> Nat]
      /\ \A n \in Mail : n # m => queue'[n] = queue[n] /\ autoPushes'[n] = autoPushes[n]
      /\ \A d \in Count : queue'[m][d] = IF d = c THEN queue[m][c] + 1 ELSE queue[m][d]
      /\ autoPushes'[m] = IF r \in Cycle THEN autoPushes[m] + 1 ELSE autoPushes[m]
  BY <1>1, <1>2, EnqueueEffect, Hand, RowTypes
<1>4. r \in Cycle => rows[i].count < MaxAuto
  BY <1>1, <1>2, <1>3 DEF HandOK
<1>5. RowsKept /\ Len(rows') = Len(rows)
  BY <1>1, <1>2, SameRowsKept
<1>6. /\ ReplaysOK'
      /\ \A q \in Replayer : q # r => replay'[q] = replay[q]
      /\ replay'[r].step = "marking" /\ replay'[r].todo = replay[r].todo
  BY <1>1, <1>2, <1>5, GotoMoves
<1>7. BaseInv'
  <2>1. /\ requests' \in 0 .. MaxRequests /\ faults' \in 0 .. MaxFaults
        /\ sent' \subseteq Mail /\ unacked' \subseteq Mail /\ excused' \subseteq Mail
    BY <1>1, <1>2 DEF TypeOK
  <2>. QED  BY <1>1, <1>2, <1>3, <1>5, <1>6, <2>1, BaseKept
<1>8. ASSUME NEW n \in Mail \ excused, n # m PROVE MailInv(n)'
  BY <1>1, <1>2, <1>3, <1>5, <1>6, <1>8, Elsewhere
<1>9. ASSUME m \notin excused PROVE MailInv(m)'
  <2>1. MailInv(m)
    BY <1>1, <1>3, <1>9
  <2>2. i \in LiveRows(m)
    BY <1>2, <1>3 DEF LiveRows, LiveRow, At
  <2>3. /\ LiveJobs(m) = {} /\ \A k \in LiveRows(m) : k = i
        /\ rows[i].count = autoPushes[m] /\ m \notin sent \ unacked
    BY <2>1, <2>2 DEF MailInv, OneLive, CountKept, GoneWhenSent
  <2>4. \A d \in Count : queue[m][d] = 0
    BY <1>1, <1>3, <2>3 DEF LiveJobs, TypeOK
  <2>5. \A d \in Count : queue'[m][d] = IF d = c THEN 1 ELSE 0
    BY <1>3, <2>4
  <2>6. InHand(r)' = i
    BY <1>3, <1>6 DEF InHand
  <2>7. ASSUME NEW k \in RowIds, rows[k].mail = m PROVE ~LiveRow(k)'
    <3>1. CASE k = i
      <4>1. r \in At(i, {"marking"})'
        BY <1>6, <2>6 DEF At
      <4>2. At(i, {"enqueueing"})' = {}
        <5>. SUFFICES ASSUME NEW q \in Replayer, replay'[q].step = "enqueueing",
                             InHand(q)' = i
                      PROVE  FALSE
          BY DEF At
        <5>1. q # r /\ replay[q].step = "enqueueing" /\ InHand(q) = i
          BY <1>6 DEF InHand
        <5>. QED  BY <1>2, <1>3, <2>1, <5>1 DEF MailInv, NoOverlap, Busy
      <4>. QED  BY <3>1, <4>1, <4>2 DEF LiveRow
    <3>2. CASE k # i
      <4>1. /\ At(k, {"enqueueing"})' = At(k, {"enqueueing"})
            /\ At(k, {"marking"})' = At(k, {"marking"})
        BY <1>2, <1>6, <2>6, <3>2 DEF At, InHand
      <4>2. ~LiveRow(k)
        BY <2>3, <2>7, <3>2 DEF LiveRows
      <4>. QED  BY <1>2, <4>1, <4>2 DEF LiveRow, Unmarked
    <3>. QED  BY <3>1, <3>2
  <2>8. LiveRows(m)' = {}
    BY <1>2, <2>7 DEF LiveRows, RowIds
  <2>9. NoOverlap(m)'
    BY <1>2, <1>6, <2>1 DEF InHand, MailInv, NoOverlap, Busy
  <2>10. c = autoPushes'[m] /\ autoPushes'[m] <= MaxAuto
    BY <1>3, <1>4, <2>1, <2>3, LimitTypes DEF MailInv, CountKept, Count
  <2>11. OneLive(m)' /\ CountKept(m)'
    BY <2>5, <2>8, <2>10 DEF OneLive, CountKept, LiveJobs
  <2>12. GoneWhenSent(m)'
    BY <1>2, <2>3 DEF GoneWhenSent
  <2>. QED  BY <1>2, <2>9, <2>11, <2>12 DEF MailInv
<1>. QED  BY <1>2, <1>7, <1>8, <1>9, InvIsNext

\* The row of a job that is queued is marked, or bears a mark already.
LEMMA MarkRequeuedStep ==
  ASSUME ReplayInv, NEW r \in Replayer, MarkRequeued(r)
  PROVE  ReplayInv'
<1>1. /\ BaseInv /\ TypeOK /\ OneMark /\ \A n \in Mail \ excused : MailInv(n)
      /\ replay[r].step = "marking" /\ Proceed(r)
      /\ UNCHANGED <<queue, suppressed, requests, faults, sent, unacked, autoPushes, excused>>
  BY InvIs DEF BaseInv, MarkRequeued, history
<1>2. PICK i \in RowIds, m \in Mail : i = InHand(r) /\ m = rows[i].mail
  BY <1>1, Hand, RowTypes
<1>3. RowsKept /\ ~Unmarked(i)' /\ Len(rows') = Len(rows)
  <2>1. rows' = IF Unmarked(i) THEN [rows EXCEPT ![i].requeued = TRUE] ELSE rows
    BY <1>2 DEF MarkRequeued
  <2>2. CASE Unmarked(i)
    BY <1>1, <2>1, <2>2, MarkKeepsRows DEF RowsKept
  <2>3. CASE ~Unmarked(i)
    <3>1. rows' = rows
      BY <2>1, <2>3
    <3>2. ~Unmarked(i)'
      BY <2>3, <3>1 DEF Unmarked
    <3>. QED  BY <1>1, <3>1, <3>2, SameRowsKept
  <2>. QED  BY <2>2, <2>3
<1>4. /\ ReplaysOK'
      /\ \A q \in Replayer : q # r => replay'[q] = replay[q]
      /\ replay'[r].step \in {"idle", "reading"}
  BY <1>1, <1>3, ProceedMoves
<1>5. BaseInv'
  <2>1. /\ requests' \in 0 .. MaxRequests /\ faults' \in 0 .. MaxFaults
        /\ sent' \subseteq Mail /\ unacked' \subseteq Mail /\ excused' \subseteq Mail
        /\ autoPushes' \in [Mail -> Nat]
        /\ queue' \in [Mail -> [Count -> Nat]]
    BY <1>1 DEF TypeOK
  <2>. QED  BY <1>1, <1>3, <1>4, <2>1, BaseKept
<1>6. ASSUME NEW n \in Mail \ excused, n # m PROVE MailInv(n)'
  BY <1>1, <1>2, <1>3, <1>4, <1>6, Elsewhere DEF Busy
<1>7. ASSUME m \notin excused PROVE MailInv(m)'
  <2>1. MailInv(m)
    BY <1>1, <1>7
  <2>2. ASSUME NEW q \in Replayer, replay'[q].step \in Busy
        PROVE  q # r /\ replay[q] = replay'[q] /\ InHand(q) \in RowIds
    <3>1. q # r /\ replay[q] = replay'[q]
      BY <1>4, <2>2 DEF Busy
    <3>. QED  BY <1>1, <2>2, <3>1, Hand DEF Busy
  <2>3. ASSUME NEW k \in RowIds, rows[k].mail = m, LiveRow(k)' PROVE LiveRow(k)
    <3>1. CASE k = i
      <4>1. At(i, {"enqueueing"})' # {}
        BY <1>3, <2>3, <3>1 DEF LiveRow
      <4>2. PICK q \in Replayer : replay'[q].step = "enqueueing" /\ InHand(q)' = i
        BY <4>1 DEF At
      <4>3. q # r /\ replay[q].step = "enqueueing" /\ InHand(q) = i
        BY <2>2, <4>2 DEF InHand, Busy
      <4>. QED  BY <1>1, <1>2, <2>1, <4>3 DEF MailInv, NoOverlap, Busy
    <3>2. CASE k # i
      <4>1. /\ At(k, {"enqueueing"})' = At(k, {"enqueueing"})
            /\ At(k, {"marking"})' = At(k, {"marking"})
        BY <1>1, <1>2, <1>4, <3>2 DEF At, InHand
      <4>. QED  BY <1>3, <2>3, <4>1 DEF LiveRow, RowsKept
    <3>. QED  BY <3>1, <3>2
  <2>4. LiveRows(m)' \subseteq LiveRows(m) /\ \A k \in LiveRows(m) : k \in RowIds
    BY <1>3, <2>3 DEF LiveRows, RowIds, RowsKept
  <2>5. ASSUME NEW q \in Replayer, replay'[q].step \in Busy
        PROVE  /\ replay[q].step \in Busy /\ replay'[q].todo = replay[q].todo
               /\ rows'[InHand(q)].mail = rows[InHand(q)].mail
    BY <1>3, <2>2, <2>5 DEF RowsKept
  <2>6. \A d \in Count : queue'[m][d] \in Nat /\ queue'[m][d] <= queue[m][d]
    BY <1>1 DEF TypeOK
  <2>. QED  BY <1>1, <1>3, <2>1, <2>4, <2>5, <2>6, Shrinks DEF RowsKept
<1>. QED  BY <1>1, <1>5, <1>6, <1>7, InvIsNext

LEMMA ReplyLostStep ==
  ASSUME ReplayInv, NEW r \in Replayer, ReplyLost(r)
  PROVE  ReplayInv'
<1>1. /\ TypeOK /\ OneMark /\ replay[r].step = "marking" /\ Proceed(r)
      /\ faults < MaxFaults /\ faults' = faults + 1
      /\ excused' = excused \cup {rows[InHand(r)].mail}
      /\ UNCHANGED <<queue, rows, suppressed, requests, sent, unacked, autoPushes>>
  BY DEF ReplayInv, ReplyLost, Fault
<1>2. RowsKept /\ Len(rows') = Len(rows)
  BY <1>1, SameRowsKept
<1>3. /\ ReplaysOK'
      /\ \A q \in Replayer : q # r => replay'[q] = replay[q]
      /\ replay'[r].step \in {"idle", "reading"}
  BY <1>1, <1>2, ProceedMoves
<1>4. /\ faults' \in 0 .. MaxFaults
      /\ queue' \in [Mail -> [Count -> Nat]] /\ autoPushes' \in [Mail -> Nat]
  BY <1>1, LimitTypes DEF TypeOK
<1>. QED  BY <1>1, <1>2, <1>3, <1>4, ExcusedStep DEF Busy

LEMMA AbortStep ==
  ASSUME ReplayInv, NEW r \in Replayer, Abort(r)
  PROVE  ReplayInv'
<1>1. /\ TypeOK /\ OneMark /\ BaseInv /\ replay[r].step # "idle"
      /\ faults < MaxFaults /\ faults' = faults + 1
      /\ replay' = [replay EXCEPT ![r] = Idle]
      /\ UNCHANGED <<rows, suppressed, requests, sent, unacked>>
  BY InvIs DEF ReplayInv, Abort, Fault
<1>2. RowsKept /\ Len(rows') = Len(rows)
  BY <1>1, SameRowsKept
<1>3. /\ ReplaysOK'
      /\ \A q \in Replayer : q # r => replay'[q] = replay[q]
      /\ replay'[r].step = "idle"
  BY <1>1, <1>2, IdleMoves
<1>4. faults' \in 0 .. MaxFaults /\ requests' \in 0 .. MaxRequests
  BY <1>1, LimitTypes DEF TypeOK
<1>5. CASE /\ replay[r].step = "enqueueing" /\ Enqueue(r)
           /\ excused' = excused \cup {rows[InHand(r)].mail}
  <2>1. /\ queue' \in [Mail -> [Count -> Nat]] /\ autoPushes' \in [Mail -> Nat]
        /\ \A n \in Mail : n # rows[InHand(r)].mail =>
             queue'[n] = queue[n] /\ autoPushes'[n] = autoPushes[n]
    BY <1>1, <1>5, EnqueueEffect
  <2>. QED  BY <1>1, <1>2, <1>3, <1>4, <1>5, <2>1, ExcusedStep DEF Busy
<1>6. CASE /\ replay[r].step = "marking"
           /\ excused' = excused \cup {rows[InHand(r)].mail}
           /\ UNCHANGED <<queue, autoPushes>>
  <2>1. queue' \in [Mail -> [Count -> Nat]] /\ autoPushes' \in [Mail -> Nat]
    BY <1>1, <1>6 DEF TypeOK
  <2>. QED  BY <1>1, <1>2, <1>3, <1>4, <1>6, <2>1, ExcusedStep DEF Busy
<1>7. CASE /\ replay[r].step # "marking"
           /\ UNCHANGED <<queue, autoPushes, excused>>
  BY <1>1, <1>2, <1>3, <1>4, <1>7, BackStep DEF Busy
<1>. QED  BY <1>5, <1>6, <1>7 DEF Abort

-----------------------------------------------------------------------------
LEMMA ReplayStep == ReplayInv /\ [Next]_vars => ReplayInv'
<1>. SUFFICES ASSUME ReplayInv, [Next]_vars PROVE ReplayInv'
  OBVIOUS
<1>1. CASE \E m \in Mail, c \in Count :
             \/ Work(m, c) \/ DeliverUnacked(m, c)
             \/ \E reason \in Reason :
                  DeadLetterUnacked(m, c, reason) \/ DeadLetterLost(m, c, reason)
  BY <1>1, DeliverStep, DeadLetterStep, DeadLetterUnackedStep, DeliverUnackedStep,
     DeadLetterLostStep DEF Work
<1>2. CASE \E r \in Cycle : StartCycle(r)
  BY <1>2, StartStep DEF Replayer
<1>3. CASE \E r \in Manual, force \in Forces : StartRequest(r, force)
  BY <1>3, StartStep DEF Replayer
<1>4. ASSUME NEW r \in Replayer, Turn(r) \/ EnqueueFails(r) \/ ReplyLost(r) \/ Abort(r)
      PROVE  ReplayInv'
  BY <1>4, LeaveStep, AcceptStep, EnqueuedStep, MarkRequeuedStep, MarkFinalStep,
     ReplyLostStep, AbortStep DEF Turn
<1>5. CASE UNCHANGED vars
  <2>1. UNCHANGED <<queue, rows, suppressed, replay, requests, faults, sent, unacked, autoPushes, excused>>
    BY <1>5 DEF vars, history
  <2>2. UNCHANGED BaseInv
    BY <2>1 DEF BaseInv, TypeOK, HandOK, HardSuppressed, OneMark, RowIds, InHand
  <2>3. ASSUME NEW m \in Mail PROVE LiveRows(m)' = LiveRows(m) /\ LiveJobs(m)' = LiveJobs(m)
    BY <2>1 DEF LiveRows, LiveRow, LiveJobs, RowIds, Unmarked, At, InHand
  <2>4. ASSUME NEW m \in Mail, MailInv(m) PROVE MailInv(m)'
    BY <2>1, <2>3, <2>4 DEF MailInv, NoOverlap, OneLive, CountKept, GoneWhenSent, InHand
  <2>. QED  BY <2>1, <2>2, <2>4, InvIs, InvIsNext
<1>. QED  BY <1>1, <1>2, <1>3, <1>4, <1>5 DEF Next

(***************************************************************************)
(* The inductive invariant: whatever workers, cycles and requests do and   *)
(* however often they fail, a mail without an excuse is one live row or    *)
(* one job, which bears the count of its automatic replays, and no two     *)
(* replays are between the decision on its row and the mark.               *)
(***************************************************************************)
THEOREM ReplayInvariant == Spec => []ReplayInv
<1>. QED  BY ReplayInit, ReplayStep, PTL DEF Spec

(***************************************************************************)
(* A dead letter is replayed as one mail: at no moment are there two jobs  *)
(* of it, two rows that a replay may still queue, or a row beside a job,   *)
(* unless its mail has one of the excuses.                                 *)
(***************************************************************************)
THEOREM SingleReplay == Spec => []OneCopyUnlessExcused
<1>1. ReplayInv => OneCopyUnlessExcused
  <2>. SUFFICES ASSUME ReplayInv, NEW m \in Mail \ excused
                PROVE  /\ Cardinality(LiveRows(m)) + Cardinality(LiveJobs(m)) <= 1
                       /\ \A c \in Count : queue[m][c] <= 1
    BY DEF OneCopyUnlessExcused
  <2>1. OneLive(m) /\ CountKept(m)
    BY DEF ReplayInv, MailInv
  <2>2. LiveRows(m) = {} \/ \E i \in LiveRows(m) : LiveRows(m) = {i}
    BY <2>1 DEF OneLive
  <2>3. LiveJobs(m) = {} \/ LiveJobs(m) = {autoPushes[m]}
    BY <2>1 DEF CountKept
  <2>4. /\ Cardinality(LiveRows(m)) \in {0, 1} /\ Cardinality(LiveJobs(m)) \in {0, 1}
        /\ LiveRows(m) # {} => Cardinality(LiveJobs(m)) = 0
        /\ LiveRows(m) = {} => Cardinality(LiveRows(m)) = 0
    BY <2>1, <2>2, <2>3, FS_EmptySet, FS_Singleton DEF OneLive
  <2>. QED  BY <2>1, <2>4 DEF OneLive
<1>. QED  BY <1>1, ReplayInvariant, PTL

(***************************************************************************)
(* DLQ_AUTO_RETRY_MAX_ATTEMPTS bounds the automatic replays of a mail over *)
(* all its rows, through the count that its jobs carry, also when manual   *)
(* requests replay it in between and in whichever process a cycle runs.    *)
(***************************************************************************)
THEOREM BudgetHolds == Spec => []AutoBudget
<1>1. ReplayInv => AutoBudget
  BY DEF ReplayInv, MailInv, CountKept, AutoBudget
<1>. QED  BY <1>1, ReplayInvariant, PTL

(***************************************************************************)
(* A mail that was sent waits nowhere to be sent again, neither as a job   *)
(* nor as a row, unless it is excused or the worker did not come to the    *)
(* ack of the job it had sent; and the guard of the two updates keeps a    *)
(* row from both marks.                                                    *)
(***************************************************************************)
THEOREM FateIsOne == Spec => []OneFate
<1>1. ReplayInv => OneFate
  <2>1. TypeOK => sent \subseteq Mail
    BY DEF TypeOK
  <2>. QED  BY <2>1 DEF ReplayInv, MailInv, GoneWhenSent, OneMark, OneFate
<1>. QED  BY <1>1, ReplayInvariant, PTL

(***************************************************************************)
(* No replay that is not forced queues a mail that bounced hard, if its    *)
(* category is under suppression: the suppression that the worker stores   *)
(* is there before the row is, so that any replay that reads the row finds *)
(* it.                                                                     *)
(***************************************************************************)
THEOREM SuppressionBinds == Spec => SuppressedNotReplayed
<1>1. ReplayInv => [\A r \in Replayer : Accept(r) /\ rows[InHand(r)].mail \in Suppressible
                      => rows[InHand(r)].reason # "hard" \/ replay[r].force]_vars
  <2>. SUFFICES ASSUME ReplayInv, NEW r \in Replayer, Accept(r),
                       rows[InHand(r)].mail \in Suppressible, ~replay[r].force
                PROVE  rows[InHand(r)].reason # "hard"
    OBVIOUS
  <2>1. InHand(r) \in RowIds
    BY Hand DEF ReplayInv, Accept
  <2>2. rows[InHand(r)].mail \notin suppressed
    BY DEF Accept, Suppressed
  <2>. QED  BY <2>1, <2>2 DEF ReplayInv, HardSuppressed
<1>. QED  BY <1>1, ReplayInvariant, PTL DEF SuppressedNotReplayed
=============================================================================
