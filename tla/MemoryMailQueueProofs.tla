----------------------- MODULE MemoryMailQueueProofs -----------------------
(***************************************************************************)
(* Theorems about the memory queue, for any jobs, any finite number of     *)
(* runners, any capacity and any threshold of the compaction.              *)
(*                                                                         *)
(* What the array with its head and its holes stands for is the sequence   *)
(* live.  Two lemmas say what a push and a take do to it, whether they     *)
(* compact or not; all else is about live, and so is the refinement of     *)
(* BoundedFifo.  The invariant MemoryInv says where each job is, and of    *)
(* the runners that the ones in waiters, each there once, are waiting:     *)
(* without it a push might wake a runner that holds a job, or none.        *)
(***************************************************************************)
EXTENDS MemoryMailQueue, SequenceTheorems, FiniteSetTheorems, TLAPS

\* Who is in waiters waits, and who holds a job is holding.
Roster ==
  /\ \A i \in 1 .. Len(waiters) : runner[waiters[i]] = "waiting"
  /\ \A i, k \in 1 .. Len(waiters) : waiters[i] = waiters[k] => i = k
  /\ \A r \in Runner : runner[r] = "holding" <=> held[r] # NoJob

\* No hole is live, and the head is behind the compaction or in the first half.
ArrayInv ==
  /\ live \in Seq(Job)
  /\ Len(live) <= MaxSize
  /\ head < CompactAt \/ head < Len(live)

\* No job is twice in the array, none is with two runners.
NoTwice ==
  /\ \A i, k \in 1 .. Len(live) : live[i] = live[k] => i = k
  /\ \A r, s \in Runner : held[r] = held[s] /\ held[r] # NoJob => r = s

InLive(j) == \E i \in 1 .. Len(live) : live[i] = j
Holds(j) == \E r \in Runner : held[r] = j
Away(j) == j \in timers \cup done \cup dropped \cup forgotten

OnePlace(j) ==
  /\ j \in accepted <=> InLive(j) \/ Holds(j) \/ Away(j)
  /\ InLive(j) => ~Holds(j) /\ ~Away(j)
  /\ Holds(j) => ~Away(j)
  /\ j \in timers => j \notin done \cup dropped \cup forgotten
  /\ j \in done => j \notin dropped \cup forgotten
  /\ j \in dropped => j \notin forgotten

Places == \A j \in Job : OnePlace(j)

Counts ==
  /\ IsFiniteSet(timers) /\ delayedCount = Cardinality(timers)
  /\ Len(live) + delayedCount + Cardinality(Holding) <= MaxSize + Cardinality(Runner)
  /\ ~closed => dropped = {}

NoSleeper == waiters # <<>> => Len(live) <= Cardinality(Asking)

MemoryInv == TypeOK /\ Roster /\ ArrayInv /\ NoTwice /\ Places /\ Counts /\ NoSleeper

-----------------------------------------------------------------------------
(* The array and what is live in it.                                       *)

LEMMA ConstantTypes ==
  /\ MaxSize \in Nat \ {0} /\ CompactAt \in Nat \ {0} /\ NoJob \notin Job
BY MaxSizeAssumption, CompactAtAssumption, NoJobAssumption

\* What is behind the head of an array.
LEMMA Behind ==
  ASSUME NEW S, NEW s \in Seq(S), NEW h \in 0 .. Len(s)
  PROVE  /\ SubSeq(s, h + 1, Len(s)) \in Seq(S)
         /\ Len(SubSeq(s, h + 1, Len(s))) = Len(s) - h /\ Len(s) - h \in Nat
         /\ \A i \in 1 .. Len(s) - h : SubSeq(s, h + 1, Len(s))[i] = s[h + i]
<1>1. Len(s) \in Nat /\ h + 1 \in Int /\ \A i \in h + 1 .. Len(s) : s[i] \in S
  OBVIOUS
<1>2. /\ SubSeq(s, h + 1, Len(s)) \in Seq(S)
      /\ Len(SubSeq(s, h + 1, Len(s)))
           = IF h + 1 <= Len(s) THEN Len(s) - (h + 1) + 1 ELSE 0
      /\ \A i \in 1 .. Len(s) - (h + 1) + 1 :
           SubSeq(s, h + 1, Len(s))[i] = s[h + 1 + i - 1]
  BY <1>1, SubSeqProperties
<1>. QED  BY <1>1, <1>2

LEMMA LiveIs ==
  ASSUME items \in Seq(Job \cup {NoJob}), head \in 0 .. Len(items)
  PROVE  /\ live \in Seq(Job \cup {NoJob})
         /\ Len(live) = length /\ length \in Nat
         /\ \A i \in 1 .. Len(live) : live[i] = items[head + i]
BY Behind DEF live, length

\* The same of the next state.
LEMMA LiveIsNext ==
  ASSUME items' \in Seq(Job \cup {NoJob}), head' \in 0 .. Len(items')
  PROVE  /\ live' \in Seq(Job \cup {NoJob})
         /\ Len(live') = Len(items') - head' /\ Len(live') \in Nat
         /\ \A i \in 1 .. Len(live') : live'[i] = items'[head' + i]
BY Behind DEF live

\* A push appends to live.
LEMMA PushLive ==
  ASSUME TypeOK, ArrayInv, NEW j \in Job, Push(j)
  PROVE  /\ items' \in Seq(Job \cup {NoJob}) /\ head' \in 0 .. Len(items')
         /\ Len(live) < MaxSize
         /\ live' = Append(live, j)
         /\ ArrayInv'
<1>. DEFINE S == Job \cup {NoJob}
<1>1. items \in Seq(S) /\ head \in 0 .. Len(items) /\ Len(items) \in Nat
  BY DEF TypeOK
<1>2. items' = Append(items, j) /\ head' = head /\ length < MaxSize
  BY DEF Push
<1>3. /\ items' \in Seq(S) /\ Len(items') = Len(items) + 1
      /\ \A i \in 1 .. Len(items) : items'[i] = items[i]
      /\ items'[Len(items) + 1] = j
  BY <1>1, <1>2
<1>4. head' \in 0 .. Len(items')
  BY <1>1, <1>2, <1>3
<1>5. /\ live \in Seq(Job) /\ Len(live) = Len(items) - head /\ Len(live) \in Nat
      /\ \A i \in 1 .. Len(live) : live[i] = items[head + i]
  BY <1>1, LiveIs DEF ArrayInv, length
<1>6. /\ live' \in Seq(S) /\ Len(live') = Len(live) + 1
      /\ \A i \in 1 .. Len(live') : live'[i] = items'[head + i]
  <2>1. Len(live') = Len(items') - head'
    BY <1>3, <1>4, LiveIsNext
  <2>. QED  BY <2>1, <1>1, <1>2, <1>3, <1>4, <1>5, LiveIsNext
<1>7. live' = Append(live, j)
  <2>. DEFINE t == Append(live, j)
  <2>1. /\ t \in Seq(S) /\ Len(t) = Len(live) + 1
        /\ \A i \in 1 .. Len(live) : t[i] = live[i]
        /\ t[Len(live) + 1] = j
    BY <1>5
  <2>2. ASSUME NEW i \in 1 .. Len(live') PROVE live'[i] = t[i]
    <3>1. CASE i \in 1 .. Len(live)
      BY <3>1, <2>1, <1>1, <1>3, <1>5, <1>6
    <3>2. CASE i = Len(live) + 1
      BY <3>2, <2>1, <1>1, <1>3, <1>5, <1>6
    <3>. QED  BY <3>1, <3>2, <1>5, <1>6
  <2>. HIDE DEF t
  <2>3. live' = t
    BY <2>1, <2>2, <1>6, SeqEqual
  <2>. QED  BY <2>3 DEF t
<1>8. live' \in Seq(Job) /\ Len(live') <= MaxSize
  BY <1>2, <1>5, <1>6, <1>7, ConstantTypes DEF length
<1>9. head' < CompactAt \/ head' < Len(live')
  BY <1>1, <1>2, <1>5, <1>6, ConstantTypes DEF ArrayInv
<1>. QED  BY <1>2, <1>3, <1>4, <1>5, <1>7, <1>8, <1>9 DEF ArrayInv, length

\* A take hands out the head of live and leaves its tail, compacted or not.
LEMMA TakeLive ==
  ASSUME TypeOK, ArrayInv, NEW r \in Runner, Take(r)
  PROVE  /\ items' \in Seq(Job \cup {NoJob}) /\ head' \in 0 .. Len(items')
         /\ live # <<>> /\ live' = Tail(live)
         /\ Len(live) \in Nat \ {0} /\ Len(live') = Len(live) - 1
         /\ held' = [held EXCEPT ![r] = live[1]]
         /\ ArrayInv'
<1>. DEFINE S == Job \cup {NoJob}
            next == head + 1
            hollow == [items EXCEPT ![next] = NoJob]
            compacts == next >= CompactAt /\ next * 2 >= Len(items)
<1>1. items \in Seq(S) /\ head \in 0 .. Len(items) /\ Len(items) \in Nat
  BY DEF TypeOK
<1>2. /\ length > 0
      /\ items' = IF compacts THEN SubSeq(hollow, next + 1, Len(items)) ELSE hollow
      /\ head' = IF compacts THEN 0 ELSE next
      /\ held' = [held EXCEPT ![r] = items[next]]
  BY DEF Take
<1>3. next \in 1 .. Len(items)
  BY <1>1, <1>2 DEF length
<1>4. /\ hollow \in Seq(S) /\ Len(hollow) = Len(items)
      /\ \A i \in 1 .. Len(items) : i # next => hollow[i] = items[i]
  BY <1>1, <1>3
<1>5. /\ live \in Seq(Job) /\ Len(live) = Len(items) - head /\ Len(live) \in Nat
      /\ \A i \in 1 .. Len(live) : live[i] = items[head + i]
  BY <1>1, LiveIs DEF ArrayInv, length
<1>. HIDE DEF hollow
<1>6. /\ items' \in Seq(S) /\ head' \in 0 .. Len(items')
      /\ Len(items') - head' = Len(live) - 1
      /\ \A i \in 1 .. Len(live) - 1 : items'[head' + i] = items[next + i]
      /\ head' < CompactAt \/ head' < Len(live) - 1
  <2>1. CASE compacts
    <3>1. next + 1 \in Int /\ \A i \in next + 1 .. Len(items) : hollow[i] \in S
      BY <1>1, <1>3, <1>4
    <3>2. /\ items' \in Seq(S)
          /\ Len(items') = IF next + 1 <= Len(items) THEN Len(items) - (next + 1) + 1 ELSE 0
          /\ \A i \in 1 .. Len(items) - (next + 1) + 1 : items'[i] = hollow[next + 1 + i - 1]
      BY <2>1, <1>1, <1>2, <3>1, SubSeqProperties
    <3>3. head' = 0 /\ Len(items') = Len(live) - 1
      BY <2>1, <1>1, <1>2, <1>3, <1>5, <3>2
    <3>4. ASSUME NEW i \in 1 .. Len(live) - 1 PROVE items'[head' + i] = items[next + i]
      <4>1. i \in 1 .. Len(items) - (next + 1) + 1 /\ head' + i = i
        BY <1>1, <1>5, <3>3
      <4>2. items'[i] = hollow[next + i]
        BY <4>1, <1>1, <1>3, <3>2
      <4>3. next + i \in 1 .. Len(items) /\ next + i # next
        BY <4>1, <1>1, <1>3
      <4>. QED  BY <4>1, <4>2, <4>3, <1>4
    <3>. QED  BY <3>2, <3>3, <3>4, <1>5, ConstantTypes
  <2>2. CASE ~compacts
    <3>1. items' = hollow /\ head' = next
      BY <2>2, <1>2
    <3>2. next < CompactAt \/ next * 2 < Len(items)
      BY <2>2, <1>1, <1>3, ConstantTypes
    <3>3. next < CompactAt \/ next < Len(live) - 1
      BY <3>2, <1>1, <1>3, <1>5, ConstantTypes
    <3>. QED  BY <3>1, <3>3, <1>1, <1>3, <1>4, <1>5
  <2>. QED  BY <2>1, <2>2
<1>. HIDE DEF next, compacts
<1>7. /\ live' \in Seq(S) /\ Len(live') = Len(live) - 1
      /\ \A i \in 1 .. Len(live') : live'[i] = items'[head' + i]
  BY <1>6, LiveIsNext
<1>8. live # <<>> /\ Len(live) \in Nat \ {0}
  BY <1>1, <1>2, <1>5 DEF length
<1>9. live' = Tail(live)
  <2>1. /\ Tail(live) \in Seq(S) /\ Len(Tail(live)) = Len(live) - 1
        /\ \A i \in 1 .. Len(Tail(live)) : Tail(live)[i] = live[i + 1]
    BY <1>5, <1>8, HeadTailProperties
  <2>2. ASSUME NEW i \in 1 .. Len(live') PROVE live'[i] = Tail(live)[i]
    BY <2>1, <1>1, <1>5, <1>6, <1>7 DEF next
  <2>. QED  BY <2>1, <2>2, <1>7, SeqEqual
<1>10. live' \in Seq(Job) /\ Len(live') <= MaxSize
  BY <1>5, <1>7, <1>8, <1>9, ConstantTypes, HeadTailProperties DEF ArrayInv
<1>11. live[1] = items[next]
  BY <1>1, <1>5, <1>8 DEF next
<1>. QED  BY <1>2, <1>6, <1>7, <1>8, <1>9, <1>10, <1>11 DEF ArrayInv

\* The jobs behind a push, and behind a take.
LEMMA PushJobs ==
  ASSUME TypeOK, ArrayInv, NoTwice, NEW j \in Job, Push(j), ~InLive(j)
  PROVE  /\ Len(live') = Len(live) + 1 /\ Len(live) \in Nat
         /\ \A i, k \in 1 .. Len(live') : live'[i] = live'[k] => i = k
         /\ \A k \in Job : InLive(k)' <=> InLive(k) \/ k = j
<1>1. live \in Seq(Job) /\ live' = Append(live, j) /\ Len(live) \in Nat
  BY PushLive DEF ArrayInv
<1>2. /\ Len(live') = Len(live) + 1
      /\ \A i \in 1 .. Len(live) : live'[i] = live[i] /\ live[i] # j
      /\ live'[Len(live) + 1] = j
  BY <1>1 DEF InLive
<1>3. \A i \in 1 .. Len(live') : i \in 1 .. Len(live) \/ i = Len(live) + 1
  BY <1>1, <1>2
<1>4. \A i, k \in 1 .. Len(live') : live'[i] = live'[k] => i = k
  BY <1>2, <1>3 DEF NoTwice
<1>5. 1 .. Len(live) \subseteq 1 .. Len(live') /\ Len(live) + 1 \in 1 .. Len(live')
  BY <1>1, <1>2
<1>6. \A k \in Job : InLive(k)' <=> InLive(k) \/ k = j
  BY <1>2, <1>3, <1>5 DEF InLive
<1>. QED  BY <1>1, <1>2, <1>4, <1>6

LEMMA TakeJobs ==
  ASSUME TypeOK, ArrayInv, NoTwice, NEW r \in Runner, Take(r)
  PROVE  /\ live[1] \in Job /\ InLive(live[1])
         /\ held' = [held EXCEPT ![r] = live[1]]
         /\ Len(live) \in Nat /\ Len(live') = Len(live) - 1
         /\ \A i, k \in 1 .. Len(live') : live'[i] = live'[k] => i = k
         /\ \A k \in Job : InLive(k)' <=> InLive(k) /\ k # live[1]
<1>1. /\ live \in Seq(Job) /\ live # <<>> /\ live' = Tail(live)
      /\ Len(live) \in Nat \ {0} /\ Len(live') = Len(live) - 1
      /\ held' = [held EXCEPT ![r] = live[1]]
  BY TakeLive DEF ArrayInv
<1>2. \A i \in 1 .. Len(live') : live'[i] = live[i + 1]
  BY <1>1, HeadTailProperties
<1>3. 1 \in 1 .. Len(live) /\ \A i \in 1 .. Len(live') : i + 1 \in 1 .. Len(live) /\ i + 1 # 1
  BY <1>1
<1>4. \A i \in 1 .. Len(live) : i = 1 \/ (i - 1 \in 1 .. Len(live') /\ (i - 1) + 1 = i)
  BY <1>1
<1>5. live[1] \in Job /\ InLive(live[1])
  BY <1>1, <1>3 DEF InLive
<1>6. \A i, k \in 1 .. Len(live') : live'[i] = live'[k] => i = k
  <2>. SUFFICES ASSUME NEW i \in 1 .. Len(live'), NEW k \in 1 .. Len(live'),
                       live'[i] = live'[k]
                PROVE  i = k
    OBVIOUS
  <2>1. i + 1 = k + 1
    BY <1>2, <1>3 DEF NoTwice
  <2>. QED  BY <2>1, <1>1
<1>7. ASSUME NEW k \in Job PROVE InLive(k)' <=> InLive(k) /\ k # live[1]
  <2>1. ASSUME NEW i \in 1 .. Len(live'), live'[i] = k
        PROVE  InLive(k) /\ k # live[1]
    BY <2>1, <1>2, <1>3 DEF InLive, NoTwice
  <2>2. ASSUME NEW i \in 1 .. Len(live), live[i] = k, k # live[1]
        PROVE  \E m \in 1 .. Len(live') : live'[m] = k
    <3>1. i - 1 \in 1 .. Len(live') /\ (i - 1) + 1 = i
      BY <2>2, <1>4
    <3>. QED  BY <2>2, <3>1, <1>2
  <2>. QED  BY <2>1, <2>2 DEF InLive
<1>. QED  BY <1>1, <1>5, <1>6, <1>7

\* The array is as it was.
LEMMA ArrayUnchanged ==
  ASSUME items' = items, head' = head
  PROVE  /\ live' = live /\ (ArrayInv => ArrayInv')
         /\ \A k \in Job : InLive(k)' <=> InLive(k)
<1>1. live' = live
  BY DEF live
<1>. QED  BY <1>1 DEF ArrayInv, InLive

-----------------------------------------------------------------------------
(* How many runners do what.                                               *)

Who(state) == {r \in Runner : runner[r] = state}

LEMMA Counted ==
  ASSUME NEW state
  PROVE  /\ IsFiniteSet(Who(state)) /\ Cardinality(Who(state)) \in Nat
         /\ Cardinality(Runner) \in Nat
         /\ Cardinality(Who(state)) <= Cardinality(Runner)
<1>1. Who(state) \subseteq Runner
  BY DEF Who
<1>. QED  BY <1>1, RunnerAssumption, FS_Subset, FS_CardinalityType

LEMMA Joins ==
  ASSUME TypeOK, NEW r \in Runner, NEW state, runner[r] # state,
         runner' = [runner EXCEPT ![r] = state]
  PROVE  Cardinality(Who(state)') = Cardinality(Who(state)) + 1
<1>1. Who(state)' = Who(state) \cup {r} /\ r \notin Who(state)
  BY DEF Who, TypeOK
<1>. QED  BY <1>1, Counted, FS_AddElement

LEMMA Parts ==
  ASSUME TypeOK, NEW r \in Runner, NEW state, NEW other, runner[r] = state, other # state,
         runner' = [runner EXCEPT ![r] = other]
  PROVE  Cardinality(Who(state)') = Cardinality(Who(state)) - 1
<1>1. Who(state)' = Who(state) \ {r} /\ r \in Who(state)
  BY DEF Who, TypeOK
<1>. QED  BY <1>1, Counted, FS_RemoveElement

LEMMA Named == Holding = Who("holding") /\ Asking = Who("asking")
BY DEF Holding, Asking, Who

LEMMA NamedNext == Holding' = Who("holding")' /\ Asking' = Who("asking")'
BY DEF Holding, Asking, Who

\* A push wakes the first of the waiting runners, if there is one.
LEMMA PushRunners ==
  ASSUME TypeOK, Roster, NEW j \in Job, Push(j), held' = held
  PROVE  /\ waiters' \in Seq(Runner)
         /\ runner' \in [Runner -> {"asking", "waiting", "holding", "stopped"}]
         /\ Roster' /\ Holding' = Holding
         /\ waiters' # <<>> => /\ waiters # <<>>
                               /\ Cardinality(Asking') = Cardinality(Asking) + 1
<1>1. CASE waiters = <<>>
  BY <1>1 DEF Push, TypeOK, Roster, Holding
<1>2. CASE waiters # <<>>
  <2>. DEFINE first == Head(waiters)
  <2>1. /\ waiters' = Tail(waiters) /\ runner' = [runner EXCEPT ![first] = "asking"]
    BY <1>2 DEF Push
  <2>2. /\ waiters \in Seq(Runner) /\ first \in Runner /\ first = waiters[1]
        /\ 1 \in 1 .. Len(waiters)
    BY <1>2 DEF TypeOK
  <2>3. runner[first] = "waiting"
    BY <2>2 DEF Roster
  <2>4. /\ waiters' \in Seq(Runner) /\ Len(waiters') = Len(waiters) - 1
        /\ \A i \in 1 .. Len(waiters') : waiters'[i] = waiters[i + 1]
    BY <1>2, <2>1, <2>2, HeadTailProperties
  <2>5. \A i \in 1 .. Len(waiters') : i + 1 \in 1 .. Len(waiters) /\ i + 1 # 1
    BY <2>2, <2>4
  <2>6. \A i \in 1 .. Len(waiters') : waiters'[i] # first /\ waiters'[i] \in Runner
    BY <2>2, <2>4, <2>5 DEF Roster
  <2>7. \A i \in 1 .. Len(waiters') : runner'[waiters'[i]] = "waiting"
    BY <2>1, <2>2, <2>4, <2>5, <2>6 DEF Roster, TypeOK
  <2>8. \A i, k \in 1 .. Len(waiters') : waiters'[i] = waiters'[k] => i = k
    <3>. SUFFICES ASSUME NEW i \in 1 .. Len(waiters'), NEW k \in 1 .. Len(waiters'),
                         waiters'[i] = waiters'[k]
                  PROVE  i = k
      OBVIOUS
    <3>1. i + 1 = k + 1
      BY <2>4, <2>5 DEF Roster
    <3>. QED  BY <3>1
  <2>9. \A r \in Runner : runner'[r] = "holding" <=> runner[r] = "holding"
    BY <2>1, <2>2, <2>3 DEF TypeOK
  <2>10. Roster' /\ Holding' = Holding
    BY <2>7, <2>8, <2>9 DEF Roster, Holding
  <2>11. Cardinality(Asking') = Cardinality(Asking) + 1
    BY <2>1, <2>2, <2>3, Joins, Named, NamedNext
  <2>. QED  BY <1>2, <2>1, <2>2, <2>4, <2>10, <2>11 DEF TypeOK
<1>. QED  BY <1>1, <1>2

-----------------------------------------------------------------------------
(* Every step keeps the invariant.                                         *)

LEMMA MemoryInit == Init => MemoryInv
<1>. SUFFICES ASSUME Init PROVE MemoryInv
  OBVIOUS
<1>1. TypeOK
  <2>1. items \in Seq(Job \cup {NoJob}) /\ waiters \in Seq(Runner) /\ Len(items) = 0
    BY EmptySeq DEF Init
  <2>2. head \in 0 .. Len(items) /\ timers \subseteq Job /\ delayedCount \in Nat
    BY <2>1 DEF Init
  <2>3. /\ runner \in [Runner -> {"asking", "waiting", "holding", "stopped"}]
        /\ held \in [Runner -> Job \cup {NoJob}]
    BY DEF Init
  <2>4. /\ accepted \subseteq Job /\ done \subseteq Job
        /\ dropped \subseteq Job /\ forgotten \subseteq Job
    BY DEF Init
  <2>. QED  BY <2>1, <2>2, <2>3, <2>4 DEF Init, TypeOK
<1>2. live = <<>>
  <2>1. items \in Seq(Job \cup {NoJob}) /\ head \in 0 .. Len(items) /\ length = 0
    BY DEF Init, length
  <2>. QED  BY <2>1, LiveIs, EmptySeq
<1>3. ArrayInv
  BY <1>2, ConstantTypes DEF Init, ArrayInv
<1>4. Roster /\ NoTwice /\ NoSleeper
  BY <1>2 DEF Init, Roster, NoTwice, NoSleeper
<1>5. Places
  BY <1>2, ConstantTypes DEF Init, Places, OnePlace, InLive, Holds, Away
<1>6. Counts
  <2>1. Holding = {}
    BY DEF Init, Holding
  <2>2. Cardinality(Runner) \in Nat
    BY Counted
  <2>. QED  BY <1>2, <2>1, <2>2, ConstantTypes, FS_EmptySet DEF Init, Counts
<1>. QED  BY <1>1, <1>3, <1>4, <1>5, <1>6 DEF MemoryInv

LEMMA EnqueueStep ==
  ASSUME MemoryInv, NEW j \in Job, Enqueue(j)
  PROVE  MemoryInv'
<1>1. /\ TypeOK /\ Roster /\ ArrayInv /\ NoTwice /\ Places /\ Counts /\ NoSleeper
      /\ Push(j) /\ length + delayedCount < MaxSize
      /\ j \notin accepted /\ accepted' = accepted \cup {j}
      /\ UNCHANGED <<head, closed, held, timers, delayedCount, done, dropped,
                     forgotten>>
  BY DEF MemoryInv, Enqueue, Push, delayVars
<1>2. ~InLive(j) /\ ~Holds(j) /\ ~Away(j)
  BY <1>1 DEF Places, OnePlace
<1>3. /\ items' \in Seq(Job \cup {NoJob}) /\ head' \in 0 .. Len(items') /\ ArrayInv'
      /\ Len(live) < MaxSize
  BY <1>1, PushLive
<1>4. /\ Len(live') = Len(live) + 1 /\ Len(live) \in Nat
      /\ \A i, k \in 1 .. Len(live') : live'[i] = live'[k] => i = k
      /\ \A k \in Job : InLive(k)' <=> InLive(k) \/ k = j
  BY <1>1, <1>2, PushJobs
<1>5. /\ waiters' \in Seq(Runner)
      /\ runner' \in [Runner -> {"asking", "waiting", "holding", "stopped"}]
      /\ Roster' /\ Holding' = Holding
      /\ waiters' # <<>> => /\ waiters # <<>>
                            /\ Cardinality(Asking') = Cardinality(Asking) + 1
  BY <1>1, PushRunners
<1>6. TypeOK'
  BY <1>1, <1>3, <1>5 DEF TypeOK
<1>7. NoTwice'
  BY <1>1, <1>4 DEF NoTwice
<1>8. Places'
  <2>. SUFFICES ASSUME NEW k \in Job PROVE OnePlace(k)'
    BY DEF Places
  <2>1. OnePlace(k) /\ (Holds(k)' <=> Holds(k)) /\ (Away(k)' <=> Away(k))
    BY <1>1 DEF Places, Holds, Away
  <2>. QED  BY <1>1, <1>2, <1>4, <2>1 DEF OnePlace, Away
<1>9. Counts'
  <2>1. /\ Cardinality(Holding) \in Nat /\ Cardinality(Runner) \in Nat
        /\ Cardinality(Holding) <= Cardinality(Runner)
    BY Counted, Named
  <2>2. Len(live) + delayedCount < MaxSize
    BY <1>1, LiveIs DEF TypeOK
  <2>. QED  BY <1>1, <1>4, <1>5, <2>1, <2>2, ConstantTypes DEF Counts, TypeOK
<1>10. NoSleeper'
  <2>1. Cardinality(Asking) \in Nat
    BY Counted, Named
  <2>. QED  BY <1>1, <1>4, <1>5, <2>1 DEF NoSleeper
<1>. QED  BY <1>3, <1>5, <1>6, <1>7, <1>8, <1>9, <1>10 DEF MemoryInv

LEMMA TakeOffTimer ==
  ASSUME TypeOK, Counts, NEW j \in timers
  PROVE  /\ IsFiniteSet(timers \ {j}) /\ Cardinality(timers \ {j}) = delayedCount - 1
         /\ delayedCount > 0
<1>1. Cardinality(timers \ {j}) = Cardinality(timers) - 1 /\ IsFiniteSet(timers \ {j})
  BY FS_RemoveElement DEF Counts
<1>2. Cardinality(timers \ {j}) \in Nat
  BY <1>1, FS_CardinalityType
<1>. QED  BY <1>1, <1>2 DEF Counts, TypeOK

LEMMA TimerFiresStep ==
  ASSUME MemoryInv, NEW j \in Job, TimerFires(j)
  PROVE  MemoryInv'
<1>1. /\ TypeOK /\ Roster /\ ArrayInv /\ NoTwice /\ Places /\ Counts /\ NoSleeper
      /\ Push(j) /\ j \in timers /\ timers' = timers \ {j}
      /\ delayedCount' = IF delayedCount > 0 THEN delayedCount - 1 ELSE 0
      /\ UNCHANGED <<head, closed, held, accepted, done, dropped,
                     forgotten>>
  BY DEF MemoryInv, TimerFires, Push, history
<1>2. ~InLive(j) /\ ~Holds(j) /\ j \notin done \cup dropped \cup forgotten /\ j \in accepted
  BY <1>1 DEF Places, OnePlace, Away
<1>3. items' \in Seq(Job \cup {NoJob}) /\ head' \in 0 .. Len(items') /\ ArrayInv'
  BY <1>1, PushLive
<1>4. /\ Len(live') = Len(live) + 1 /\ Len(live) \in Nat
      /\ \A i, k \in 1 .. Len(live') : live'[i] = live'[k] => i = k
      /\ \A k \in Job : InLive(k)' <=> InLive(k) \/ k = j
  BY <1>1, <1>2, PushJobs
<1>5. /\ waiters' \in Seq(Runner)
      /\ runner' \in [Runner -> {"asking", "waiting", "holding", "stopped"}]
      /\ Roster' /\ Holding' = Holding
      /\ waiters' # <<>> => /\ waiters # <<>>
                            /\ Cardinality(Asking') = Cardinality(Asking) + 1
  BY <1>1, PushRunners
<1>6. /\ IsFiniteSet(timers') /\ delayedCount' = Cardinality(timers')
      /\ delayedCount' = delayedCount - 1 /\ delayedCount' \in Nat
  <2>1. /\ IsFiniteSet(timers \ {j}) /\ Cardinality(timers \ {j}) = delayedCount - 1
        /\ delayedCount > 0
    BY <1>1, TakeOffTimer
  <2>2. delayedCount' = delayedCount - 1 /\ delayedCount' \in Nat
    BY <1>1, <2>1 DEF TypeOK
  <2>. QED  BY <1>1, <2>1, <2>2
<1>7. TypeOK'
  BY <1>1, <1>3, <1>5, <1>6 DEF TypeOK
<1>8. NoTwice'
  BY <1>1, <1>4 DEF NoTwice
<1>9. Places'
  <2>. SUFFICES ASSUME NEW k \in Job PROVE OnePlace(k)'
    BY DEF Places
  <2>1. OnePlace(k) /\ (Holds(k)' <=> Holds(k)) /\ (Away(k)' <=> Away(k) /\ k # j)
    BY <1>1, <1>2 DEF Places, Holds, Away
  <2>. QED  BY <1>1, <1>2, <1>4, <2>1 DEF OnePlace, Away
<1>10. Counts'
  <2>1. Cardinality(Holding) \in Nat /\ Cardinality(Runner) \in Nat
    BY Counted, Named
  <2>. QED  BY <1>1, <1>4, <1>5, <1>6, <2>1, ConstantTypes DEF Counts, TypeOK
<1>11. NoSleeper'
  <2>1. Cardinality(Asking) \in Nat
    BY Counted, Named
  <2>. QED  BY <1>1, <1>4, <1>5, <2>1 DEF NoSleeper
<1>. QED  BY <1>3, <1>5, <1>7, <1>8, <1>9, <1>10, <1>11 DEF MemoryInv

LEMMA TakeStep ==
  ASSUME MemoryInv, NEW r \in Runner, Take(r)
  PROVE  MemoryInv'
<1>. DEFINE j == live[1]
<1>1. /\ TypeOK /\ Roster /\ ArrayInv /\ NoTwice /\ Places /\ Counts /\ NoSleeper
      /\ runner[r] = "asking" /\ runner' = [runner EXCEPT ![r] = "holding"]
      /\ UNCHANGED <<waiters, closed, timers, delayedCount, accepted, done, dropped,
                     forgotten>>
  BY DEF MemoryInv, Take, delayVars, history
<1>2. /\ items' \in Seq(Job \cup {NoJob}) /\ head' \in 0 .. Len(items') /\ ArrayInv'
      /\ Len(live) \in Nat \ {0}
  BY <1>1, TakeLive
<1>3. /\ j \in Job /\ InLive(j) /\ held' = [held EXCEPT ![r] = j]
      /\ Len(live') = Len(live) - 1
      /\ \A i, k \in 1 .. Len(live') : live'[i] = live'[k] => i = k
      /\ \A k \in Job : InLive(k)' <=> InLive(k) /\ k # j
  BY <1>1, TakeJobs
<1>. HIDE DEF j
<1>4. ~Holds(j) /\ ~Away(j) /\ j \in accepted
  BY <1>1, <1>3 DEF Places, OnePlace
<1>5. TypeOK'
  BY <1>1, <1>2, <1>3 DEF TypeOK
<1>6. held[r] = NoJob
  BY <1>1 DEF Roster
<1>7. Roster'
  <2>1. \A i \in 1 .. Len(waiters) : waiters[i] \in Runner /\ waiters[i] # r
    BY <1>1 DEF Roster, TypeOK
  <2>. QED  BY <1>1, <1>3, <2>1, ConstantTypes DEF Roster, TypeOK
<1>8. NoTwice'
  <2>1. \A q \in Runner : q # r => held'[q] = held[q] /\ held[q] # j
    BY <1>1, <1>3, <1>4 DEF Holds, TypeOK
  <2>2. held'[r] = j
    BY <1>1, <1>3 DEF TypeOK
  <2>. QED  BY <1>1, <1>3, <2>1, <2>2 DEF NoTwice
<1>9. Places'
  <2>. SUFFICES ASSUME NEW k \in Job PROVE OnePlace(k)'
    BY DEF Places
  <2>1. OnePlace(k) /\ (Away(k)' <=> Away(k))
    BY <1>1 DEF Places, Away
  <2>2. Holds(k)' <=> Holds(k) \/ k = j
    BY <1>1, <1>3, <1>6, ConstantTypes DEF Holds, TypeOK
  <2>. QED  BY <1>1, <1>3, <1>4, <2>1, <2>2 DEF OnePlace, Away
<1>10. Cardinality(Holding') = Cardinality(Holding) + 1
  BY <1>1, Joins, Named, NamedNext
<1>11. Cardinality(Asking') = Cardinality(Asking) - 1
  BY <1>1, Parts, Named, NamedNext
<1>12. /\ Cardinality(Holding) \in Nat /\ Cardinality(Runner) \in Nat
       /\ Cardinality(Asking) \in Nat
  BY Counted, Named
<1>13. Counts'
  <2>1. IsFiniteSet(timers') /\ delayedCount' = Cardinality(timers')
    BY <1>1 DEF Counts
  <2>2. Len(live') + delayedCount' + Cardinality(Holding') <= MaxSize + Cardinality(Runner)
    BY <1>1, <1>2, <1>3, <1>10, <1>12, ConstantTypes DEF Counts, TypeOK
  <2>. QED  BY <1>1, <2>1, <2>2 DEF Counts
<1>14. NoSleeper'
  BY <1>1, <1>2, <1>3, <1>11, <1>12 DEF NoSleeper
<1>. QED  BY <1>2, <1>5, <1>7, <1>8, <1>9, <1>13, <1>14 DEF MemoryInv

\* A runner puts its job away: it is done with it, or leaves it to a timer.
LEMMA HandsOver ==
  ASSUME MemoryInv, NEW r \in Runner, runner[r] = "holding",
         runner' = [runner EXCEPT ![r] = "asking"], held' = [held EXCEPT ![r] = NoJob],
         UNCHANGED <<queueVars, accepted, dropped>>
  PROVE  /\ held[r] \in Job /\ held[r] \in accepted
         /\ Holds(held[r]) /\ ~InLive(held[r]) /\ ~Away(held[r])
         /\ live' = live /\ Roster' /\ ArrayInv' /\ NoTwice' /\ NoSleeper'
         /\ \A k \in Job : InLive(k)' <=> InLive(k)
         /\ \A k \in Job : Holds(k)' <=> Holds(k) /\ k # held[r]
         /\ Cardinality(Holding') = Cardinality(Holding) - 1
<1>1. /\ TypeOK /\ Roster /\ ArrayInv /\ NoTwice /\ Places /\ NoSleeper
      /\ UNCHANGED <<items, head, waiters, closed>>
  BY DEF MemoryInv, queueVars
<1>2. /\ live' = live /\ ArrayInv'
      /\ \A k \in Job : InLive(k)' <=> InLive(k)
  BY <1>1, ArrayUnchanged
<1>3. held[r] \in Job /\ Holds(held[r])
  BY <1>1 DEF TypeOK, Roster, Holds
<1>4. held[r] \in accepted /\ ~InLive(held[r]) /\ ~Away(held[r])
  BY <1>1, <1>3 DEF Places, OnePlace
<1>5. Roster'
  <2>1. \A i \in 1 .. Len(waiters) : waiters[i] \in Runner /\ waiters[i] # r
    BY <1>1 DEF Roster, TypeOK
  <2>. QED  BY <1>1, <2>1, ConstantTypes DEF Roster, TypeOK
<1>6. /\ held'[r] = NoJob /\ \A q \in Runner : q # r => held'[q] = held[q]
      /\ \A q \in Runner : q # r => held[q] # held[r]
  BY <1>1, <1>3, ConstantTypes DEF TypeOK, NoTwice
<1>7. NoTwice'
  BY <1>1, <1>2, <1>6 DEF NoTwice
<1>8. \A k \in Job : Holds(k)' <=> Holds(k) /\ k # held[r]
  BY <1>6, ConstantTypes DEF Holds
<1>9. /\ Cardinality(Holding') = Cardinality(Holding) - 1
      /\ Cardinality(Asking') = Cardinality(Asking) + 1
  BY <1>1, Joins, Parts, Named, NamedNext
<1>10. NoSleeper'
  <2>1. Cardinality(Asking) \in Nat /\ Len(live) \in Nat
    BY <1>1, Counted, Named, LiveIs DEF TypeOK
  <2>. QED  BY <1>1, <1>2, <1>9, <2>1 DEF NoSleeper
<1>. QED  BY <1>2, <1>3, <1>4, <1>5, <1>7, <1>8, <1>9, <1>10

LEMMA SizesAreNumbers ==
  ASSUME TypeOK
  PROVE  /\ Len(live) \in Nat /\ delayedCount \in Nat
         /\ Cardinality(Holding) \in Nat /\ Cardinality(Runner) \in Nat
BY Counted, Named, LiveIs DEF TypeOK

\* The runner is done with its job, whether it is sent, dead-lettered or forgotten.
LEMMA FinishStep ==
  ASSUME MemoryInv, NEW r \in Runner, Finish(r) \/ Forget(r)
  PROVE  MemoryInv'
<1>1. /\ TypeOK /\ Places /\ Counts
      /\ runner[r] = "holding" /\ runner' = [runner EXCEPT ![r] = "asking"]
      /\ held' = [held EXCEPT ![r] = NoJob]
      /\ UNCHANGED <<queueVars, accepted, dropped>>
      /\ \/ done' = done \cup {held[r]} /\ forgotten' = forgotten
         \/ done' = done /\ forgotten' = forgotten \cup {held[r]}
      /\ UNCHANGED <<timers, delayedCount>>
  BY DEF MemoryInv, Finish, Forget, delayVars
<1>2. /\ held[r] \in Job /\ held[r] \in accepted
      /\ Holds(held[r]) /\ ~InLive(held[r]) /\ ~Away(held[r])
      /\ live' = live /\ Roster' /\ ArrayInv' /\ NoTwice' /\ NoSleeper'
      /\ \A k \in Job : InLive(k)' <=> InLive(k)
      /\ \A k \in Job : Holds(k)' <=> Holds(k) /\ k # held[r]
      /\ Cardinality(Holding') = Cardinality(Holding) - 1
  BY <1>1, HandsOver
<1>3. TypeOK'
  BY <1>1, <1>2 DEF TypeOK, queueVars
<1>4. Places'
  <2>. SUFFICES ASSUME NEW k \in Job PROVE OnePlace(k)'
    BY DEF Places
  <2>1. OnePlace(k) /\ (Away(k)' <=> Away(k) \/ k = held[r])
    BY <1>1 DEF Places, Away
  <2>. QED  BY <1>1, <1>2, <2>1 DEF OnePlace, Away
<1>5. Counts'
  <2>1. IsFiniteSet(timers') /\ delayedCount' = Cardinality(timers')
    BY <1>1 DEF Counts
  <2>2. Len(live') + delayedCount' + Cardinality(Holding') <= MaxSize + Cardinality(Runner)
    BY <1>1, <1>2, SizesAreNumbers, ConstantTypes DEF Counts
  <2>. QED  BY <1>1, <2>1, <2>2 DEF Counts, queueVars
<1>. QED  BY <1>2, <1>3, <1>4, <1>5 DEF MemoryInv

LEMMA DeferStep ==
  ASSUME MemoryInv, NEW r \in Runner, Defer(r)
  PROVE  MemoryInv'
<1>1. /\ TypeOK /\ Places /\ Counts
      /\ runner[r] = "holding" /\ runner' = [runner EXCEPT ![r] = "asking"]
      /\ held' = [held EXCEPT ![r] = NoJob]
      /\ UNCHANGED <<queueVars, accepted, dropped>>
      /\ timers' = timers \cup {held[r]} /\ delayedCount' = delayedCount + 1
      /\ done' = done /\ forgotten' = forgotten
  BY DEF MemoryInv, Defer, history
<1>2. /\ held[r] \in Job /\ held[r] \in accepted
      /\ Holds(held[r]) /\ ~InLive(held[r]) /\ ~Away(held[r])
      /\ live' = live /\ Roster' /\ ArrayInv' /\ NoTwice' /\ NoSleeper'
      /\ \A k \in Job : InLive(k)' <=> InLive(k)
      /\ \A k \in Job : Holds(k)' <=> Holds(k) /\ k # held[r]
      /\ Cardinality(Holding') = Cardinality(Holding) - 1
  BY <1>1, HandsOver
<1>3. TypeOK'
  BY <1>1, <1>2 DEF TypeOK, queueVars
<1>4. Places'
  <2>. SUFFICES ASSUME NEW k \in Job PROVE OnePlace(k)'
    BY DEF Places
  <2>1. OnePlace(k) /\ (Away(k)' <=> Away(k) \/ k = held[r])
    BY <1>1 DEF Places, Away
  <2>. QED  BY <1>1, <1>2, <2>1 DEF OnePlace, Away
<1>5. Counts'
  <2>1. held[r] \notin timers
    BY <1>2 DEF Away
  <2>2. /\ IsFiniteSet(timers \cup {held[r]})
        /\ Cardinality(timers \cup {held[r]}) = delayedCount + 1
    BY <1>1, <2>1, FS_AddElement DEF Counts
  <2>3. Len(live') + delayedCount' + Cardinality(Holding') <= MaxSize + Cardinality(Runner)
    BY <1>1, <1>2, SizesAreNumbers, ConstantTypes DEF Counts
  <2>. QED  BY <1>1, <2>2, <2>3 DEF Counts, queueVars
<1>. QED  BY <1>2, <1>3, <1>4, <1>5 DEF MemoryInv

\* A runner finds nothing and stops, or waits.
LEMMA FindsNothing ==
  ASSUME MemoryInv, NEW r \in Runner, RunnerStops(r) \/ Wait(r)
  PROVE  MemoryInv'
<1>1. /\ TypeOK /\ Roster /\ ArrayInv /\ NoTwice /\ Places /\ Counts
      /\ runner[r] = "asking" /\ length = 0
      /\ UNCHANGED <<items, head, closed, held, timers, delayedCount, accepted, done, dropped,
                     forgotten>>
  BY DEF MemoryInv, RunnerStops, Wait, queueVars, delayVars, history
<1>2. \/ runner' = [runner EXCEPT ![r] = "stopped"] /\ waiters' = waiters
      \/ runner' = [runner EXCEPT ![r] = "waiting"] /\ waiters' = Append(waiters, r)
  BY DEF RunnerStops, Wait, queueVars
<1>3. /\ live' = live /\ ArrayInv' /\ Len(live) = 0
      /\ \A k \in Job : InLive(k)' <=> InLive(k)
  BY <1>1, ArrayUnchanged, LiveIs DEF TypeOK
<1>4. TypeOK'
  <2>1. waiters' \in Seq(Runner)
    BY <1>1, <1>2 DEF TypeOK
  <2>2. runner' \in [Runner -> {"asking", "waiting", "holding", "stopped"}]
    BY <1>1, <1>2 DEF TypeOK
  <2>. QED  BY <1>1, <2>1, <2>2 DEF TypeOK
<1>5. \A q \in Runner : runner'[q] = "holding" <=> runner[q] = "holding"
  BY <1>1, <1>2 DEF TypeOK
<1>6. Roster'
  <2>1. \A i \in 1 .. Len(waiters) : waiters[i] \in Runner /\ waiters[i] # r
    BY <1>1 DEF Roster, TypeOK
  <2>2. CASE waiters' = waiters /\ runner' = [runner EXCEPT ![r] = "stopped"]
    BY <1>1, <1>5, <2>1, <2>2 DEF Roster, TypeOK
  <2>3. CASE waiters' = Append(waiters, r) /\ runner' = [runner EXCEPT ![r] = "waiting"]
    <3>1. /\ Len(waiters) \in Nat /\ Len(waiters') = Len(waiters) + 1
          /\ \A i \in 1 .. Len(waiters) : waiters'[i] = waiters[i]
          /\ waiters'[Len(waiters) + 1] = r
      BY <1>1, <2>3 DEF TypeOK
    <3>2. \A i \in 1 .. Len(waiters') : i \in 1 .. Len(waiters) \/ i = Len(waiters) + 1
      BY <3>1
    <3>3. \A i \in 1 .. Len(waiters') : runner'[waiters'[i]] = "waiting"
      BY <1>1, <2>1, <2>3, <3>1, <3>2 DEF Roster, TypeOK
    <3>4. \A i, k \in 1 .. Len(waiters') : waiters'[i] = waiters'[k] => i = k
      BY <1>1, <2>1, <3>1, <3>2 DEF Roster
    <3>. QED  BY <1>1, <1>5, <3>3, <3>4 DEF Roster
  <2>. QED  BY <1>2, <2>2, <2>3
<1>7. NoTwice'
  BY <1>1, <1>3 DEF NoTwice
<1>8. Places'
  BY <1>1, <1>3 DEF Places, OnePlace, Holds, Away
<1>9. Counts'
  <2>1. Holding' = Holding
    BY <1>5 DEF Holding
  <2>. QED  BY <1>1, <1>3, <2>1 DEF Counts
<1>10. NoSleeper'
  <2>1. Cardinality(Who("asking")') \in Nat
    <3>1. Who("asking")' \subseteq Runner
      BY DEF Who
    <3>. QED  BY <3>1, RunnerAssumption, FS_Subset, FS_CardinalityType
  <2>. QED  BY <1>3, <2>1, NamedNext DEF NoSleeper
<1>. QED  BY <1>3, <1>4, <1>6, <1>7, <1>8, <1>9, <1>10 DEF MemoryInv

LEMMA TimerAfterCloseStep ==
  ASSUME MemoryInv, NEW j \in Job, TimerAfterClose(j)
  PROVE  MemoryInv'
<1>1. /\ TypeOK /\ Roster /\ ArrayInv /\ NoTwice /\ Places /\ Counts /\ NoSleeper
      /\ j \in timers /\ timers' = timers \ {j} /\ dropped' = dropped \cup {j} /\ closed
      /\ delayedCount' = IF delayedCount > 0 THEN delayedCount - 1 ELSE 0
      /\ UNCHANGED <<items, head, waiters, closed, runner, held, accepted, done, forgotten>>
  BY DEF MemoryInv, TimerAfterClose, queueVars
<1>2. /\ live' = live /\ ArrayInv'
      /\ \A k \in Job : InLive(k)' <=> InLive(k)
  BY <1>1, ArrayUnchanged
<1>3. /\ IsFiniteSet(timers') /\ delayedCount' = Cardinality(timers')
      /\ delayedCount' = delayedCount - 1 /\ delayedCount' \in Nat
  <2>1. /\ IsFiniteSet(timers \ {j}) /\ Cardinality(timers \ {j}) = delayedCount - 1
        /\ delayedCount > 0
    BY <1>1, TakeOffTimer
  <2>2. delayedCount' = delayedCount - 1 /\ delayedCount' \in Nat
    BY <1>1, <2>1 DEF TypeOK
  <2>. QED  BY <1>1, <2>1, <2>2
<1>4. TypeOK'
  BY <1>1, <1>3 DEF TypeOK
<1>5. Roster' /\ NoTwice' /\ Holding' = Holding /\ Asking' = Asking
  BY <1>1, <1>2 DEF Roster, NoTwice, Holding, Asking
<1>6. Places'
  BY <1>1, <1>2 DEF Places, OnePlace, Holds, Away
<1>7. Counts'
  <2>1. Len(live') + delayedCount' + Cardinality(Holding') <= MaxSize + Cardinality(Runner)
    BY <1>1, <1>2, <1>3, <1>5, SizesAreNumbers, ConstantTypes DEF Counts
  <2>. QED  BY <1>1, <1>3, <2>1 DEF Counts
<1>8. NoSleeper'
  BY <1>1, <1>2, <1>5 DEF NoSleeper
<1>. QED  BY <1>2, <1>4, <1>5, <1>6, <1>7, <1>8 DEF MemoryInv

\* A close and the stop behind it: the jobs with a timer are lost, and whoever
\* waited asks again.
LEMMA CloseStep ==
  ASSUME MemoryInv, Close \/ Stop
  PROVE  MemoryInv'
<1>1. /\ TypeOK /\ Roster /\ ArrayInv /\ NoTwice /\ Places /\ Counts /\ NoSleeper
      /\ dropped' = dropped \cup timers /\ timers' = {} /\ delayedCount' = 0
      /\ closed' = TRUE
      /\ UNCHANGED <<items, head, held, accepted, done, forgotten>>
  BY DEF MemoryInv, Close, Stop, ClearDelayedTimers, queueVars, TypeOK
<1>2. /\ live' = live /\ ArrayInv'
      /\ \A k \in Job : InLive(k)' <=> InLive(k)
  BY <1>1, ArrayUnchanged
<1>3. /\ waiters' \in Seq(Runner)
      /\ runner' \in [Runner -> {"asking", "waiting", "holding", "stopped"}]
      /\ \A r \in Runner : runner'[r] = "holding" <=> runner[r] = "holding"
      /\ Roster' /\ NoSleeper'
  <2>1. CASE Close
    <3>1. waiters' = <<>> /\ waiters' \in Seq(Runner) /\ Len(waiters') = 0
      BY <2>1, EmptySeq DEF Close
    <3>2. runner' = [r \in Runner |-> IF \E i \in 1 .. Len(waiters) : waiters[i] = r
                                      THEN "asking" ELSE runner[r]]
      BY <2>1 DEF Close
    <3>3. runner' \in [Runner -> {"asking", "waiting", "holding", "stopped"}]
      BY <1>1, <3>2 DEF TypeOK
    <3>4. \A r \in Runner : runner'[r] = "holding" <=> runner[r] = "holding"
      BY <1>1, <3>2 DEF Roster
    <3>5. Roster'
      BY <1>1, <3>1, <3>4 DEF Roster
    <3>. QED  BY <3>1, <3>3, <3>4, <3>5 DEF NoSleeper
  <2>2. CASE Stop
    <3>1. waiters' = waiters /\ runner' = runner
      BY <2>2 DEF Stop, queueVars
    <3>. QED  BY <1>1, <1>2, <3>1 DEF Roster, NoSleeper, Asking, TypeOK
  <2>. QED  BY <2>1, <2>2
<1>4. TypeOK'
  BY <1>1, <1>3 DEF TypeOK
<1>5. NoTwice' /\ Holding' = Holding
  BY <1>1, <1>2, <1>3 DEF NoTwice, Holding
<1>6. Places'
  BY <1>1, <1>2 DEF Places, OnePlace, Holds, Away
<1>7. Counts'
  <2>1. IsFiniteSet(timers') /\ delayedCount' = Cardinality(timers')
    BY <1>1, FS_EmptySet
  <2>2. Len(live') + delayedCount' + Cardinality(Holding') <= MaxSize + Cardinality(Runner)
    BY <1>1, <1>2, <1>5, SizesAreNumbers, ConstantTypes DEF Counts
  <2>. QED  BY <1>1, <2>1, <2>2 DEF Counts
<1>. QED  BY <1>2, <1>3, <1>4, <1>5, <1>6, <1>7 DEF MemoryInv

LEMMA MemoryStep == MemoryInv /\ [Next]_vars => MemoryInv'
<1>. SUFFICES ASSUME MemoryInv, [Next]_vars PROVE MemoryInv'
  OBVIOUS
<1>1. ASSUME NEW j \in Job, Enqueue(j) \/ Timer(j) PROVE MemoryInv'
  BY <1>1, EnqueueStep, TimerFiresStep, TimerAfterCloseStep DEF Timer
<1>2. ASSUME NEW r \in Runner, Serve(r) \/ Work(r) PROVE MemoryInv'
  BY <1>2, TakeStep, FindsNothing, FinishStep, DeferStep DEF Serve, Work
<1>3. CASE Close \/ Stop
  BY <1>3, CloseStep
<1>4. CASE UNCHANGED vars
  <2>1. /\ UNCHANGED <<items, head, waiters, closed, runner, held, timers, delayedCount,
                       accepted, done, dropped,
                     forgotten>>
        /\ live' = live
    BY <1>4, ArrayUnchanged DEF vars, queueVars, delayVars, history
  <2>. QED  BY <2>1 DEF MemoryInv, TypeOK, Roster, ArrayInv, NoTwice, Places, OnePlace,
                InLive, Holds, Away, Counts, NoSleeper, Holding, Asking
<1>. QED  BY <1>1, <1>2, <1>3, <1>4 DEF Next

\* The array, its holes and its compaction, the timers and the runners keep every
\* job in one place, for any capacity and any number of runners.
THEOREM MemoryInvariant == Spec => []MemoryInv
BY MemoryInit, MemoryStep, PTL DEF Spec

-----------------------------------------------------------------------------
(* What the runs check.                                                    *)

LEMMA ArrayPlaces ==
  ASSUME MemoryInv, NEW j \in Job
  PROVE  Cardinality({i \in head + 1 .. Len(items) : items[i] = j})
           = IF InLive(j) THEN 1 ELSE 0
<1>. DEFINE S == {i \in head + 1 .. Len(items) : items[i] = j}
<1>1. /\ head \in Nat /\ Len(items) \in Nat /\ Len(live) = Len(items) - head
      /\ Len(live) \in Nat
      /\ \A i \in 1 .. Len(live) : live[i] = items[head + i]
  BY LiveIs DEF MemoryInv, TypeOK, length
<1>2. \A i \in head + 1 .. Len(items) : i - head \in 1 .. Len(live) /\ live[i - head] = items[i]
  BY <1>1
<1>3. ASSUME NEW k \in 1 .. Len(live), live[k] = j PROVE S = {head + k}
  <2>1. head + k \in S
    BY <1>1, <1>3
  <2>2. ASSUME NEW i \in S PROVE i = head + k
    <3>1. i - head = k
      BY <1>2, <1>3, <2>2 DEF MemoryInv, NoTwice
    <3>. QED  BY <3>1, <1>1
  <2>. QED  BY <2>1, <2>2
<1>4. InLive(j) => \E x : S = {x}
  BY <1>3 DEF InLive
<1>5. ~InLive(j) => S = {}
  BY <1>2 DEF InLive
<1>. HIDE DEF S
<1>6. Cardinality(S) = IF InLive(j) THEN 1 ELSE 0
  BY <1>4, <1>5, FS_EmptySet, FS_Singleton
<1>. QED  BY <1>6 DEF S

LEMMA RunnerPlaces ==
  ASSUME MemoryInv, NEW j \in Job
  PROVE  Cardinality({r \in Holding : held[r] = j}) = IF Holds(j) THEN 1 ELSE 0
<1>. DEFINE S == {r \in Holding : held[r] = j}
<1>1. Holding = {r \in Runner : held[r] # NoJob}
  BY DEF MemoryInv, Roster, Holding
<1>2. ASSUME NEW r \in Runner, held[r] = j PROVE S = {r}
  BY <1>1, <1>2, ConstantTypes DEF MemoryInv, NoTwice
<1>3. Holds(j) => \E x : S = {x}
  BY <1>2 DEF Holds
<1>4. ~Holds(j) => S = {}
  BY <1>1 DEF Holds
<1>. HIDE DEF S
<1>5. Cardinality(S) = IF Holds(j) THEN 1 ELSE 0
  BY <1>3, <1>4, FS_EmptySet, FS_Singleton
<1>. QED  BY <1>5 DEF S

LEMMA OtherPlaces ==
  ASSUME MemoryInv, NEW j \in Job
  PROVE  Cardinality({k \in 1 .. 4 : j \in <<timers, done, dropped, forgotten>>[k]})
           = IF Away(j) THEN 1 ELSE 0
<1>. DEFINE S == {k \in 1 .. 4 : j \in <<timers, done, dropped, forgotten>>[k]}
<1>1. /\ 1 \in S <=> j \in timers
      /\ 2 \in S <=> j \in done
      /\ 3 \in S <=> j \in dropped
      /\ 4 \in S <=> j \in forgotten
      /\ S \subseteq {1, 2, 3, 4}
  OBVIOUS
<1>2. OnePlace(j)
  BY DEF MemoryInv, Places
<1>. HIDE DEF S
<1>3. Away(j) => \E x : S = {x}
  <2>1. CASE j \in timers
    <3>1. S = {1}
      BY <1>1, <1>2, <2>1 DEF OnePlace
    <3>. QED  BY <3>1
  <2>2. CASE j \in done
    <3>1. S = {2}
      BY <1>1, <1>2, <2>2 DEF OnePlace
    <3>. QED  BY <3>1
  <2>3. CASE j \in dropped
    <3>1. S = {3}
      BY <1>1, <1>2, <2>3 DEF OnePlace
    <3>. QED  BY <3>1
  <2>4. CASE j \in forgotten
    <3>1. S = {4}
      BY <1>1, <1>2, <2>4 DEF OnePlace
    <3>. QED  BY <3>1
  <2>. QED  BY <2>1, <2>2, <2>3, <2>4 DEF Away
<1>4. ~Away(j) => S = {}
  BY <1>1 DEF Away
<1>5. Cardinality(S) = IF Away(j) THEN 1 ELSE 0
  BY <1>3, <1>4, FS_EmptySet, FS_Singleton
<1>. QED  BY <1>5 DEF S

\* The hand-over between the array, the runners and the timers loses and copies no
\* job, whatever the compaction does.
THEOREM EachInOnePlace == Spec => []OnePlaceEach
<1>1. MemoryInv => OnePlaceEach
  <2>. SUFFICES ASSUME MemoryInv PROVE OnePlaceEach
    OBVIOUS
  <2>1. ASSUME NEW j \in Job
        PROVE  Cardinality({i \in head + 1 .. Len(items) : items[i] = j})
                 + Cardinality({r \in Holding : held[r] = j})
                 + Cardinality({k \in 1 .. 4 : j \in <<timers, done, dropped, forgotten>>[k]})
               = IF j \in accepted THEN 1 ELSE 0
    <3>1. OnePlace(j)
      BY DEF MemoryInv, Places
    <3>. QED  BY <3>1, ArrayPlaces, RunnerPlaces, OtherPlaces DEF OnePlace
  <2>. QED  BY <2>1 DEF OnePlaceEach, MemoryInv, Counts
<1>. QED  BY <1>1, MemoryInvariant, PTL

\* Deferred jobs and those in hand exceed the capacity by no more than the runners,
\* and the array with its holes stays within its two bounds, for good.
THEOREM MemoryIsBounded == Spec => []NeverOverfull
<1>1. MemoryInv => NeverOverfull
  <2>. SUFFICES ASSUME MemoryInv PROVE NeverOverfull
    OBVIOUS
  <2>1. Len(live) = length /\ Len(live) \in Nat /\ head \in Nat /\ Len(items) \in Nat
    BY LiveIs DEF MemoryInv, TypeOK
  <2>2. Len(items) = head + Len(live)
    BY <2>1 DEF length
  <2>3. Len(live) <= MaxSize /\ (head < CompactAt \/ head < Len(live))
    BY DEF MemoryInv, ArrayInv
  <2>4. Len(items) < MaxSize + (IF CompactAt > MaxSize THEN CompactAt ELSE MaxSize)
    BY <2>1, <2>2, <2>3, ConstantTypes
  <2>. QED  BY <2>1, <2>4 DEF NeverOverfull, MemoryInv, Counts
<1>. QED  BY <1>1, MemoryInvariant, PTL

\* A runner that sleeps is one for whom no job is left, for any number of runners.
THEOREM NobodySleeps == Spec => []NoLostWakeup
<1>1. MemoryInv => NoLostWakeup
  BY LiveIs DEF MemoryInv, TypeOK, NoSleeper, NoLostWakeup
<1>. QED  BY <1>1, MemoryInvariant, PTL

-----------------------------------------------------------------------------
(* The refinement of BoundedFifo.                                          *)

LEMMA FifoInit == Init => Buffer!Init
<1>. SUFFICES ASSUME Init PROVE Buffer!Init
  OBVIOUS
<1>1. items \in Seq(Job \cup {NoJob}) /\ head \in 0 .. Len(items) /\ length = 0
  BY EmptySeq DEF Init, length
<1>2. live = <<>>
  BY <1>1, LiveIs, EmptySeq
<1>. QED  BY <1>2 DEF Init, Buffer!Init

LEMMA FifoStep == MemoryInv /\ [Next]_vars => [Buffer!Next]_Buffer!vars
<1>. SUFFICES ASSUME MemoryInv, [Next]_vars PROVE [Buffer!Next]_Buffer!vars
  OBVIOUS
<1>. USE DEF Buffer!Next, Buffer!vars
<1>1. TypeOK /\ ArrayInv
  BY DEF MemoryInv
<1>2. ASSUME NEW j \in Job, Push(j) PROVE Buffer!Put(j)
  <2>1. Len(live) < MaxSize /\ live' = Append(live, j)
    BY <1>1, <1>2, PushLive
  <2>2. ~closed /\ closed' = closed
    BY <1>2 DEF Push
  <2>. QED  BY <2>1, <2>2 DEF Buffer!Put
<1>3. ASSUME NEW r \in Runner, Take(r) PROVE Buffer!Take
  <2>1. live # <<>> /\ live' = Tail(live)
    BY <1>1, <1>3, TakeLive
  <2>2. closed' = closed
    BY <1>3 DEF Take
  <2>. QED  BY <2>1, <2>2 DEF Buffer!Take
<1>4. CASE Close
  <2>1. live' = live /\ closed' = TRUE
    BY <1>4, ArrayUnchanged DEF Close
  <2>. QED  BY <2>1 DEF Buffer!Close
<1>5. CASE UNCHANGED <<items, head, closed>>
  BY <1>5, ArrayUnchanged
<1>6. ASSUME NEW j \in Job, Enqueue(j) \/ Timer(j) PROVE [Buffer!Next]_Buffer!vars
  <2>1. Push(j) \/ UNCHANGED <<items, head, closed>>
    BY <1>6 DEF Enqueue, Timer, TimerFires, TimerAfterClose, queueVars
  <2>. QED  BY <2>1, <1>2, <1>5
<1>7. ASSUME NEW r \in Runner, Serve(r) \/ Work(r) PROVE [Buffer!Next]_Buffer!vars
  <2>1. Take(r) \/ UNCHANGED <<items, head, closed>>
    BY <1>7 DEF Serve, RunnerStops, Wait, Work, Finish, Forget, Defer, queueVars
  <2>. QED  BY <2>1, <1>3, <1>5
<1>8. CASE Stop \/ UNCHANGED vars
  BY <1>8, <1>5 DEF Stop, vars, queueVars
<1>. QED  BY <1>4, <1>6, <1>7, <1>8 DEF Next

\* The queue of the code, seen through live, is a bounded first-in first-out buffer:
\* every step is one of its steps or changes nothing that it shows.
THEOREM IsAFifo == Spec => BufferKept
<1>1. MemoryInv /\ [Next]_vars => [Buffer!Next]_Buffer!vars
  BY FifoStep
<1>. QED  BY <1>1, FifoInit, MemoryInvariant, PTL DEF Spec, BufferKept, Buffer!Spec
=============================================================================
