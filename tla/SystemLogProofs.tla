--------------------------- MODULE SystemLogProofs ---------------------------
(***************************************************************************)
(* Proofs about SystemLog, for every capacity, threshold and bound.  That  *)
(* the sinks are in order is not inductive: an append writes a batch that  *)
(* was taken earlier, behind which others may have been logged.  LogInv    *)
(* adds that sink, batch and buffer follow each other, and that one flush  *)
(* at most is at work, which is what the flag `flushing` is for.           *)
(***************************************************************************)
EXTENDS SystemLog, SequenceTheorems, FiniteSetTheorems, TLAPS

-----------------------------------------------------------------------------
(* Sequences of numbers.                                                   *)

\* What comes behind a sequence that it exceeds keeps it ascending.
LEMMA ConcatOrder ==
  ASSUME NEW s \in Seq(Nat), NEW t \in Seq(Nat), Ascending(s), Ascending(t), Below(s, t)
  PROVE  /\ s \o t \in Seq(Nat)
         /\ Ascending(s \o t)
         /\ \A n \in Nat : AtMost(s, n) /\ AtMost(t, n) => AtMost(s \o t, n)
         /\ \A u \in Seq(Nat) : Below(s, u) /\ Below(t, u) => Below(s \o t, u)
<1>1. /\ s \o t \in Seq(Nat)
      /\ Len(s \o t) = Len(s) + Len(t)
      /\ \A i \in 1 .. Len(s) + Len(t) : (s \o t)[i] = IF i <= Len(s) THEN s[i] ELSE t[i - Len(s)]
  BY ConcatProperties
<1>2. Len(s) \in Nat /\ Len(t) \in Nat
  BY LenProperties
<1>3. \A i \in 1 .. Len(s \o t) :
        \/ i \in 1 .. Len(s) /\ (s \o t)[i] = s[i]
        \/ i > Len(s) /\ i - Len(s) \in 1 .. Len(t) /\ (s \o t)[i] = t[i - Len(s)]
  BY <1>1, <1>2
<1>4. Ascending(s \o t)
  <2> SUFFICES ASSUME NEW i \in 1 .. Len(s \o t), NEW k \in 1 .. Len(s \o t), i < k
               PROVE  (s \o t)[i] < (s \o t)[k]
    BY DEF Ascending
  <2>1. i \in Nat /\ k \in Nat
    BY <1>1, <1>2
  <2>2. CASE k \in 1 .. Len(s)
    BY <2>1, <2>2, <1>1, <1>2, <1>3 DEF Ascending
  <2>3. CASE i > Len(s)
    <3>1. /\ i - Len(s) \in 1 .. Len(t) /\ (s \o t)[i] = t[i - Len(s)]
          /\ k - Len(s) \in 1 .. Len(t) /\ (s \o t)[k] = t[k - Len(s)]
      BY <2>1, <2>3, <1>1, <1>2
    <3>2. i - Len(s) < k - Len(s)
      BY <2>1, <1>2
    <3>. QED  BY <3>1, <3>2 DEF Ascending
  <2>4. CASE i \in 1 .. Len(s) /\ k > Len(s)
    BY <2>1, <2>4, <1>1, <1>2, <1>3 DEF Below
  <2>. QED  BY <2>1, <2>2, <2>3, <2>4, <1>1, <1>2
<1>5. ASSUME NEW n \in Nat, AtMost(s, n), AtMost(t, n)
      PROVE  AtMost(s \o t, n)
  BY <1>3, <1>5 DEF AtMost
<1>6. ASSUME NEW u \in Seq(Nat), Below(s, u), Below(t, u)
      PROVE  Below(s \o t, u)
  BY <1>3, <1>6 DEF Below
<1>. QED  BY <1>1, <1>4, <1>5, <1>6

\* The beginning of a batch, which is all that an append may have written.
LEMMA PrefixOrder ==
  ASSUME NEW s \in Seq(Nat), NEW n \in 0 .. Len(s), Ascending(s)
  PROVE  /\ SubSeq(s, 1, n) \in Seq(Nat)
         /\ Ascending(SubSeq(s, 1, n))
         /\ \A m \in Nat : AtMost(s, m) => AtMost(SubSeq(s, 1, n), m)
         /\ \A u \in Seq(Nat) : Below(s, u) => Below(SubSeq(s, 1, n), u)
         /\ \A u \in Seq(Nat) : Below(u, s) => Below(u, SubSeq(s, 1, n))
<1>1. Len(s) \in Nat /\ n \in Nat
  BY LenProperties
<1>2. \A i \in 1 .. n : s[i] \in Nat
  BY <1>1, ElementOfSeq
<1>3. /\ SubSeq(s, 1, n) \in Seq(Nat)
      /\ Len(SubSeq(s, 1, n)) = IF 1 <= n THEN n - 1 + 1 ELSE 0
      /\ \A i \in 1 .. n - 1 + 1 : SubSeq(s, 1, n)[i] = s[1 + i - 1]
  BY <1>1, <1>2, SubSeqProperties
<1>4. Len(SubSeq(s, 1, n)) = n
  BY <1>1, <1>3
<1>5. \A i \in 1 .. n : i \in 1 .. Len(s) /\ SubSeq(s, 1, n)[i] = s[i]
  BY <1>1, <1>3
<1>. QED  BY <1>1, <1>3, <1>4, <1>5 DEF Ascending, AtMost, Below

\* Without its first entry.
LEMMA TailOrder ==
  ASSUME NEW s \in Seq(Nat), s # <<>>, Ascending(s)
  PROVE  /\ Tail(s) \in Seq(Nat) /\ Len(Tail(s)) = Len(s) - 1
         /\ Ascending(Tail(s))
         /\ \A n \in Nat : AtMost(s, n) => AtMost(Tail(s), n)
         /\ \A u \in Seq(Nat) : Below(u, s) => Below(u, Tail(s))
<1>1. Tail(s) \in Seq(Nat) /\ Len(Tail(s)) = Len(s) - 1
  BY HeadTailProperties
<1>2. Len(s) \in Nat
  BY LenProperties
<1>3. \A i \in 1 .. Len(Tail(s)) : i + 1 \in 1 .. Len(s) /\ Tail(s)[i] = s[i + 1]
  BY <1>1, <1>2, HeadTailProperties
<1>4. Ascending(Tail(s))
  BY <1>1, <1>2, <1>3 DEF Ascending
<1>. QED  BY <1>1, <1>2, <1>3, <1>4 DEF AtMost, Below

\* One more entry, with the next number.
LEMMA AppendOrder ==
  ASSUME NEW s \in Seq(Nat), NEW n \in Nat, Ascending(s), AtMost(s, n)
  PROVE  /\ Append(s, n + 1) \in Seq(Nat) /\ Len(Append(s, n + 1)) = Len(s) + 1
         /\ Append(s, n + 1) # <<>>
         /\ Ascending(Append(s, n + 1)) /\ AtMost(Append(s, n + 1), n + 1)
         /\ \A u \in Seq(Nat) : Below(u, s) /\ AtMost(u, n) => Below(u, Append(s, n + 1))
<1>1. Len(s) \in Nat /\ \A i \in 1 .. Len(s) : s[i] \in Nat
  BY LenProperties, ElementOfSeq
<1>2. Append(s, n + 1) \in Seq(Nat) /\ Len(Append(s, n + 1)) = Len(s) + 1
  BY AppendProperties
<1>3. \A i \in 1 .. Len(s) + 1 : Append(s, n + 1)[i] = IF i <= Len(s) THEN s[i] ELSE n + 1
  BY <1>1, AppendProperties
<1>4. Append(s, n + 1) # <<>>
  BY AppendProperties
<1>5. Ascending(Append(s, n + 1)) /\ AtMost(Append(s, n + 1), n + 1)
  BY <1>1, <1>2, <1>3 DEF Ascending, AtMost
<1>6. ASSUME NEW u \in Seq(Nat), Below(u, s), AtMost(u, n)
      PROVE  Below(u, Append(s, n + 1))
  <2>1. Len(u) \in Nat /\ \A i \in 1 .. Len(u) : u[i] \in Nat
    BY LenProperties, ElementOfSeq
  <2> SUFFICES ASSUME NEW i \in 1 .. Len(u), NEW k \in 1 .. Len(s) + 1
               PROVE  u[i] < Append(s, n + 1)[k]
    BY <1>2 DEF Below
  <2>2. CASE k <= Len(s)
    BY <1>1, <1>3, <1>6, <2>2 DEF Below
  <2>3. CASE k = Len(s) + 1
    <3>1. u[i] \in Nat /\ u[i] <= n
      BY <1>6, <2>1 DEF AtMost
    <3>2. Append(s, n + 1)[k] = n + 1
      BY <1>1, <1>3, <2>3
    <3>. QED  BY <3>1, <3>2
  <2>. QED  BY <1>1, <2>2, <2>3
<1>. QED  BY <1>2, <1>4, <1>5, <1>6

-----------------------------------------------------------------------------
(* Types.                                                                  *)

LEMMA EntriesAreNumbers ==
  ASSUME NEW s \in Seq(Entry)
  PROVE  s \in Seq(Nat)
<1>1. Entry \subseteq Nat
  BY DEF Entry
<1>. QED  BY <1>1, SeqMonotonic

\* One batch at most, said in two ways.
LEMMA OneBatch ==
  ASSUME NEW batches, \A b, c \in batches : b = c
  PROVE  IsFiniteSet(batches) /\ Cardinality(batches) <= 1
<1>1. CASE batches = {}
  BY <1>1, FS_EmptySet
<1>2. CASE batches # {}
  <2>1. PICK b : batches = {b}
    BY <1>2
  <2>2. IsFiniteSet({b}) /\ Cardinality({b}) = 1
    BY FS_Singleton
  <2>. QED  BY <2>1, <2>2
<1>. QED  BY <1>1, <1>2

\* What the history variable is given are entries.
LEMMA ExcuseType ==
  ASSUME TypeOK, NEW fromFile \in SUBSET Entry, NEW fromTable \in SUBSET Entry,
         Excuse(fromFile, fromTable)
  PROVE  excused' \in [{"file", "table"} -> SUBSET Entry]
<1>1. excused["file"] \subseteq Entry /\ excused["table"] \subseteq Entry
  BY DEF TypeOK
<1>2. DOMAIN excused' = {"file", "table"} /\ excused' = [x \in {"file", "table"} |-> excused'[x]]
  BY DEF Excuse
<1>3. excused'["file"] \subseteq Entry /\ excused'["table"] \subseteq Entry
  BY <1>1 DEF Excuse
<1>. QED  BY <1>2, <1>3

LEMMA ElementsAreEntries ==
  ASSUME NEW s \in Seq(Entry)
  PROVE  ToSet(s) \subseteq Entry
BY LenProperties, ElementOfSeq DEF ToSet

LEMMA WaitingAreEntries ==
  ASSUME TypeOK
  PROVE  Waiting \subseteq Entry
BY ElementsAreEntries DEF TypeOK, Waiting

-----------------------------------------------------------------------------
(* The helpers of the actions.                                             *)

\* The first half of a flush, whatever it was given.
LEMMA FlushKeeps ==
  ASSUME NEW entries \in Seq(Entry), Len(entries) <= Capacity, NEW wanted \in BOOLEAN, NEW n,
         LogAssumption, inFlight \subseteq Seq(Entry), Flush(entries, wanted),
         Queued(inFlight, entries, n)
  PROVE  /\ buffer' \in Seq(Entry) /\ Len(buffer') <= Capacity
         /\ inFlight' \subseteq Seq(Entry)
         /\ Queued(inFlight', buffer', n)
         /\ \A s : Precedes(s, inFlight, entries, n) => Precedes(s, inFlight', buffer', n)
<1>1. CASE buffer' = entries /\ inFlight' = inFlight
  BY <1>1
<1>2. CASE buffer' = <<>> /\ inFlight' = {entries}
  <2>1. Len(<<>>) = 0 /\ <<>> \in Seq(Entry)
    BY EmptySeq
  <2>2. \A s : Below(s, <<>>)
    BY <2>1 DEF Below
  <2>3. Ascending(<<>>) /\ AtMost(<<>>, n)
    BY <2>1 DEF Ascending, AtMost
  <2>4. Queued({entries}, <<>>, n)
    BY <2>2, <2>3 DEF Queued
  <2>. QED  BY <1>2, <2>1, <2>2, <2>4 DEF Precedes, LogAssumption
<1>. QED  BY <1>1, <1>2 DEF Flush

\* log(): the buffer loses its oldest entry when it is full, and gains one.
LEMMA PushKeeps ==
  ASSUME LogAssumption, LogInv, Push
  PROVE  /\ logged' \in 0 .. MaxEntries
         /\ buffer' \in Seq(Entry) /\ Len(buffer') <= Capacity
         /\ inFlight' \subseteq Seq(Entry)
         /\ excused' \in [{"file", "table"} -> SUBSET Entry]
         /\ Queued(inFlight', buffer', logged')
         /\ Precedes(file, inFlight', buffer', logged')
         /\ Precedes(table, inFlight', buffer', logged')
<1> DEFINE full == Len(buffer) >= Capacity
           kept == IF full THEN Tail(buffer) ELSE buffer
           oldest == IF full THEN {Head(buffer)} ELSE {}
           entries == Append(kept, logged + 1)
<1>1. /\ logged \in Nat /\ logged + 1 \in Entry /\ logged' = logged + 1
      /\ buffer \in Seq(Entry) /\ Len(buffer) \in Nat /\ Len(buffer) <= Capacity
      /\ inFlight \subseteq Seq(Entry) /\ Capacity \in Nat \ {0}
      /\ file \in Seq(Nat) /\ table \in Seq(Nat)
  BY LenProperties, EntriesAreNumbers DEF LogInv, TypeOK, Push, Entry, LogAssumption
<1>2. full => buffer # <<>>
  BY <1>1, EmptySeq
<1>3. kept \in Seq(Entry) /\ Len(kept) < Capacity /\ oldest \subseteq Entry
  BY <1>1, <1>2, HeadTailProperties
<1>4. /\ kept \in Seq(Nat) /\ Ascending(kept) /\ AtMost(kept, logged)
      /\ \A u \in Seq(Nat) : Below(u, buffer) => Below(u, kept)
  BY <1>1, <1>2, EntriesAreNumbers, TailOrder DEF LogInv, Queued
<1>5. entries \in Seq(Entry) /\ Len(entries) <= Capacity
  BY <1>1, <1>3, AppendProperties, LenProperties
<1>6. /\ Ascending(entries) /\ AtMost(entries, logged + 1)
      /\ \A u \in Seq(Nat) : Below(u, kept) /\ AtMost(u, logged) => Below(u, entries)
  BY <1>1, <1>4, AppendOrder
<1>7. \A u \in Seq(Nat) : AtMost(u, logged) => AtMost(u, logged + 1)
  <2> SUFFICES ASSUME NEW u \in Seq(Nat), AtMost(u, logged), NEW i \in 1 .. Len(u)
               PROVE  u[i] <= logged + 1
    BY DEF AtMost
  <2>1. u[i] \in Nat /\ u[i] <= logged
    BY ElementOfSeq DEF AtMost
  <2>. QED  BY <2>1, <1>1
<1>8. \A b \in inFlight : b \in Seq(Nat)
  BY <1>1, EntriesAreNumbers
<1>9. Queued(inFlight, entries, logged + 1)
  BY <1>4, <1>6, <1>7, <1>8 DEF LogInv, Queued
<1>10. Precedes(file, inFlight, entries, logged + 1)
  BY <1>1, <1>4, <1>6, <1>7 DEF LogInv, Precedes
<1>11. Precedes(table, inFlight, entries, logged + 1)
  BY <1>1, <1>4, <1>6, <1>7 DEF LogInv, Precedes
<1>12. Excuse(oldest, oldest)
  BY <1>1 DEF Push
<1>13. \E wanted \in BOOLEAN : Flush(entries, wanted)
  BY <1>1 DEF Push
<1>14. excused' \in [{"file", "table"} -> SUBSET Entry]
  BY <1>3, <1>12, ExcuseType DEF LogInv
<1> HIDE DEF full, kept, oldest, entries
<1>15. /\ buffer' \in Seq(Entry) /\ Len(buffer') <= Capacity
       /\ inFlight' \subseteq Seq(Entry)
       /\ Queued(inFlight', buffer', logged + 1)
       /\ Precedes(file, inFlight', buffer', logged + 1)
       /\ Precedes(table, inFlight', buffer', logged + 1)
  BY <1>1, <1>5, <1>9, <1>10, <1>11, <1>13, FlushKeeps
<1>16. logged' \in 0 .. MaxEntries
  BY <1>1 DEF Entry
<1>. QED  BY <1>1, <1>14, <1>15, <1>16

\* A sink after an append of what was in flight, or of a part of it.
LEMMA AppendedKeeps ==
  ASSUME LogInv, NEW s \in Seq(Entry), Precedes(s, inFlight, buffer, logged),
         NEW batch \in inFlight, NEW written \in 0 .. Len(batch)
  PROVE  /\ s \o SubSeq(batch, 1, written) \in Seq(Entry)
         /\ Precedes(s \o SubSeq(batch, 1, written), {}, buffer, logged)
<1> DEFINE prefix == SubSeq(batch, 1, written)
<1>1. batch \in Seq(Entry) /\ buffer \in Seq(Entry) /\ logged \in Nat
  BY DEF LogInv, TypeOK
<1>2. s \in Seq(Nat) /\ batch \in Seq(Nat) /\ buffer \in Seq(Nat)
  BY <1>1, EntriesAreNumbers
<1>3. /\ Ascending(s) /\ AtMost(s, logged) /\ Below(s, buffer) /\ Below(s, batch)
      /\ Ascending(batch) /\ AtMost(batch, logged) /\ Below(batch, buffer)
  BY DEF LogInv, Precedes, Queued
<1>4. /\ prefix \in Seq(Nat) /\ Ascending(prefix) /\ AtMost(prefix, logged)
      /\ Below(prefix, buffer) /\ Below(s, prefix)
  BY <1>1, <1>2, <1>3, PrefixOrder
<1>5. prefix \in Seq(Entry)
  <2>1. written \in Int /\ 1 \in Int /\ \A i \in 1 .. written : batch[i] \in Entry
    BY <1>1, LenProperties, ElementOfSeq
  <2>. QED  BY <2>1, SubSeqProperties
<1> HIDE DEF prefix
<1>6. s \o prefix \in Seq(Entry)
  BY <1>5, ConcatProperties
<1>7. /\ Ascending(s \o prefix) /\ AtMost(s \o prefix, logged) /\ Below(s \o prefix, buffer)
  BY <1>1, <1>2, <1>3, <1>4, ConcatOrder
<1>8. Precedes(s \o prefix, {}, buffer, logged)
  BY <1>7 DEF Precedes
<1>. QED  BY <1>6, <1>8 DEF prefix

\* An empty set of batches and the same buffer are in order as before.
LEMMA DoneKeeps ==
  ASSUME LogInv
  PROVE  /\ Queued({}, buffer, logged)
         /\ Precedes(file, {}, buffer, logged)
         /\ Precedes(table, {}, buffer, logged)
BY DEF LogInv, Queued, Precedes

\* An empty buffer comes after everything.
LEMMA EmptiedKeeps ==
  ASSUME NEW s, NEW n, Precedes(s, {}, buffer, n)
  PROVE  /\ Queued({}, <<>>, n)
         /\ Precedes(s, {}, <<>>, n)
<1>1. Len(<<>>) = 0
  BY EmptySeq
<1>. QED  BY <1>1 DEF Queued, Precedes, Ascending, AtMost, Below

\* The end of a flush.
LEMMA WrittenKeeps ==
  ASSUME LogAssumption, LogInv, NEW batch \in inFlight, Written(batch)
  PROVE  LogInv'
<1>1. PICK written \in 0 .. Len(batch), stored \in BOOLEAN :
        LET fine == written = Len(batch) /\ stored
        IN  /\ fine \/ failures < MaxFailures
            /\ failures' = IF fine THEN failures ELSE failures + 1
            /\ file' = file \o SubSeq(batch, 1, written)
            /\ table' = IF stored THEN table \o batch ELSE table
            /\ Excuse(ToSet(SubSeq(batch, written + 1, Len(batch))),
                      IF stored THEN {} ELSE ToSet(batch))
  BY DEF Written
<1>2. /\ inFlight' = {}
      /\ logged' = logged /\ buffer' = buffer /\ phase' = phase /\ exits' = exits
  BY DEF Written, LogInv, Queued
<1>3. /\ batch \in Seq(Entry) /\ Len(batch) \in Nat
      /\ file \in Seq(Entry) /\ table \in Seq(Entry)
  BY LenProperties DEF LogInv, TypeOK
<1>4. file' \in Seq(Entry) /\ Precedes(file', {}, buffer, logged)
  BY <1>1, <1>3, AppendedKeeps DEF LogInv
<1>5. table' \in Seq(Entry) /\ Precedes(table', {}, buffer, logged)
  <2>1. CASE stored
    <3>1. SubSeq(batch, 1, Len(batch)) = batch
      BY <1>3, SubSeqFull
    <3>2. Len(batch) \in 0 .. Len(batch)
      BY <1>3
    <3>3. table' = table \o SubSeq(batch, 1, Len(batch))
      BY <1>1, <2>1, <3>1
    <3>4. Precedes(table, inFlight, buffer, logged)
      BY DEF LogInv
    <3>. QED  BY <1>3, <3>2, <3>3, <3>4, AppendedKeeps
  <2>2. CASE ~stored
    BY <1>1, <1>3, <2>2, DoneKeeps
  <2>. QED  BY <2>1, <2>2
<1>6. excused' \in [{"file", "table"} -> SUBSET Entry]
  <2>1. ToSet(SubSeq(batch, written + 1, Len(batch))) \subseteq Entry
    <3>1. \A i \in written + 1 .. Len(batch) : batch[i] \in Entry
      BY <1>3, ElementOfSeq
    <3>2. SubSeq(batch, written + 1, Len(batch)) \in Seq(Entry)
      BY <1>3, <3>1, SubSeqProperties
    <3>. QED  BY <3>2, ElementsAreEntries
  <2>2. ToSet(batch) \subseteq Entry
    BY <1>3, ElementsAreEntries
  <2>3. (IF stored THEN {} ELSE ToSet(batch)) \subseteq Entry
    BY <2>2
  <2>4. TypeOK
    BY DEF LogInv
  <2>5. Excuse(ToSet(SubSeq(batch, written + 1, Len(batch))),
               IF stored THEN {} ELSE ToSet(batch))
    BY <1>1
  <2> DEFINE unwritten == ToSet(SubSeq(batch, written + 1, Len(batch)))
             unstored == IF stored THEN {} ELSE ToSet(batch)
  <2>6. unwritten \in SUBSET Entry /\ unstored \in SUBSET Entry /\ Excuse(unwritten, unstored)
    BY <2>1, <2>3, <2>5
  <2> HIDE DEF unwritten, unstored
  <2>. QED  BY <2>4, <2>6, ExcuseType
<1>7. failures' \in 0 .. MaxFailures
  BY <1>1 DEF LogInv, TypeOK, LogAssumption
<1>8. Cardinality({}) <= 1
  BY FS_EmptySet
<1>9. TypeOK'
  BY <1>2, <1>3, <1>4, <1>5, <1>6, <1>7, <1>8 DEF LogInv, TypeOK
<1>. QED  BY <1>2, <1>4, <1>5, <1>9, DoneKeeps DEF LogInv

\* The end of the process.
LEMMA GoneKeeps ==
  ASSUME LogAssumption, LogInv, NEW lost \in SUBSET Entry, Gone(lost)
  PROVE  LogInv'
<1>1. /\ inFlight' = {} /\ buffer' = <<>> /\ phase' = "gone"
      /\ logged' = logged /\ table' = table /\ failures' = failures
      /\ exits' \in 0 .. MaxExits
  BY DEF Gone, LogInv, TypeOK, LogAssumption
<1>2. file \in Seq(Entry) /\ table \in Seq(Entry)
  BY DEF LogInv, TypeOK
<1>3. file' \in Seq(Entry) /\ Precedes(file', {}, buffer, logged)
  <2>1. CASE inFlight = {}
    BY <1>2, <2>1, DoneKeeps DEF Gone
  <2>2. CASE inFlight # {}
    <3>1. PICK batch \in inFlight : \E written \in 0 .. Len(batch) :
            file' = file \o SubSeq(batch, 1, written)
      BY <2>2 DEF Gone
    <3>2. Precedes(file, inFlight, buffer, logged)
      BY DEF LogInv
    <3>. QED  BY <1>2, <3>1, <3>2, AppendedKeeps
  <2>. QED  BY <2>1, <2>2
<1>4. Queued({}, <<>>, logged) /\ Precedes(file', {}, <<>>, logged)
  BY <1>3, EmptiedKeeps
<1>5. Precedes(table', {}, <<>>, logged)
  BY <1>1, DoneKeeps, EmptiedKeeps
<1>6. excused' \in [{"file", "table"} -> SUBSET Entry]
  <2>1. Excuse(lost, lost) /\ TypeOK
    BY DEF Gone, LogInv
  <2>. QED  BY <2>1, ExcuseType
<1>7. Cardinality({}) <= 1 /\ <<>> \in Seq(Entry) /\ Len(<<>>) = 0
  BY FS_EmptySet, EmptySeq
<1>8. TypeOK'
  BY <1>1, <1>2, <1>3, <1>6, <1>7 DEF LogInv, TypeOK, Phase, LogAssumption
<1>. QED  BY <1>1, <1>4, <1>5, <1>8 DEF LogInv

-----------------------------------------------------------------------------
LEMMA LogInitInv == LogAssumption /\ Init => LogInv
<1> SUFFICES ASSUME LogAssumption, Init
             PROVE  LogInv
  OBVIOUS
<1>1. Len(<<>>) = 0 /\ <<>> \in Seq(Entry)
  BY EmptySeq
<1>2. Cardinality({}) <= 1
  BY FS_EmptySet
<1>3. TypeOK
  BY <1>1, <1>2 DEF Init, TypeOK, LogAssumption, Phase
<1>. QED  BY <1>1, <1>3 DEF Init, LogInv, Queued, Precedes, Ascending, AtMost, Below

\* The steps that only push or only begin a flush leave the sinks alone.
LEMMA PushStep ==
  ASSUME LogAssumption, LogInv, Push, UNCHANGED <<sinks, bounds>>, phase' \in Phase
  PROVE  LogInv'
<1>1. Cardinality(inFlight') <= 1
  BY PushKeeps, OneBatch DEF Queued
<1>2. file' = file /\ table' = table /\ failures' = failures /\ exits' = exits
  BY DEF sinks, bounds
<1>3. TypeOK'
  BY <1>1, <1>2, PushKeeps DEF LogInv, TypeOK
<1>. QED  BY <1>2, <1>3, PushKeeps DEF LogInv

LEMMA FlushStep ==
  ASSUME LogAssumption, LogInv, Flush(buffer, TRUE),
         UNCHANGED <<logged, sinks, excused, bounds>>, phase' \in Phase
  PROVE  LogInv'
<1>1. /\ buffer \in Seq(Entry) /\ Len(buffer) <= Capacity /\ inFlight \subseteq Seq(Entry)
      /\ Queued(inFlight, buffer, logged)
      /\ Precedes(file, inFlight, buffer, logged)
      /\ Precedes(table, inFlight, buffer, logged)
  BY DEF LogInv, TypeOK
<1>2. /\ buffer' \in Seq(Entry) /\ Len(buffer') <= Capacity /\ inFlight' \subseteq Seq(Entry)
      /\ Queued(inFlight', buffer', logged)
      /\ Precedes(file, inFlight', buffer', logged)
      /\ Precedes(table, inFlight', buffer', logged)
  BY <1>1, FlushKeeps
<1>3. Cardinality(inFlight') <= 1
  BY <1>2, OneBatch DEF Queued
<1>4. /\ file' = file /\ table' = table /\ failures' = failures /\ exits' = exits
      /\ logged' = logged /\ excused' = excused
  BY DEF sinks, bounds
<1>5. TypeOK'
  BY <1>2, <1>3, <1>4 DEF LogInv, TypeOK
<1>. QED  BY <1>2, <1>4, <1>5 DEF LogInv

LEMMA LogStep == LogAssumption /\ LogInv /\ [Next]_vars => LogInv'
<1> SUFFICES ASSUME LogAssumption, LogInv, [Next]_vars
             PROVE  LogInv'
  OBVIOUS
<1>1. phase \in Phase /\ buffer \in Seq(Entry) /\ Waiting \subseteq Entry /\ {} \subseteq Entry
  BY WaitingAreEntries DEF LogInv, TypeOK
<1>2. CASE Log
  BY <1>1, <1>2, PushStep DEF Log
<1>3. CASE TimerFlush
  BY <1>1, <1>3, FlushStep DEF TimerFlush
<1>4. CASE \E batch \in inFlight : Written(batch)
  BY <1>4, WrittenKeeps
<1>5. CASE Die
  BY <1>1, <1>5, GoneKeeps DEF Die
<1>6. CASE Drain
  BY <1>6, PushStep DEF Drain, Phase
<1>7. CASE Close
  <2>1. CASE inFlight # {} \/ buffer = <<>>
    <3>1. Gone(IF inFlight = {} THEN {} ELSE Waiting)
      BY <1>7, <2>1 DEF Close
    <3>2. (IF inFlight = {} THEN {} ELSE Waiting) \subseteq Entry
      BY <1>1
    <3>. QED  BY <3>1, <3>2, GoneKeeps
  <2>2. CASE ~(inFlight # {} \/ buffer = <<>>)
    BY <1>7, <2>2, FlushStep DEF Close, Phase
  <2>. QED  BY <2>1, <2>2
<1>8. CASE Leave
  BY <1>1, <1>8, ElementsAreEntries, GoneKeeps DEF Leave
<1>9. CASE Boot
  BY <1>9 DEF Boot, sinks, bounds, LogInv, TypeOK, Phase
<1>10. CASE UNCHANGED vars
  BY <1>10 DEF vars, sinks, bounds, LogInv, TypeOK
<1>. QED  BY <1>2, <1>3, <1>4, <1>5, <1>6, <1>7, <1>8, <1>9, <1>10 DEF Next

\* The invariant of the system log, for every size of the buffer.
THEOREM LogInvariant == Spec => []LogInv
<1>. QED  BY LogAssumption, LogInitInv, LogStep, PTL DEF Spec

\* The buffer stays within its capacity, and one flush at most is at work.
THEOREM LogTypeCorrect == Spec => []TypeOK
<1>1. LogInv => TypeOK
  BY DEF LogInv
<1>. QED  BY <1>1, LogInvariant, PTL

\* The file and the table hold the entries in the order in which they were
\* logged, each at most once, over failing writes, crashes and shutdowns.
THEOREM SinksInOrder == Spec => []InOrder
<1>1. LogInv => InOrder
  BY DEF LogInv, Precedes, InOrder
<1>. QED  BY <1>1, LogInvariant, PTL
-----------------------------------------------------------------------------
(* What becomes of each entry: LossExplained follows from itself and from  *)
(* the one batch of LogInv.                                                *)

LEMMA NoElements == ToSet(<<>>) = {}
BY EmptySeq DEF ToSet

\* The entries of a batch are in what an append has written, or in the rest.
LEMMA ConcatElements ==
  ASSUME NEW s \in Seq(Entry), NEW t \in Seq(Entry)
  PROVE  ToSet(s \o t) = ToSet(s) \cup ToSet(t)
<1>1. /\ Len(s) \in Nat /\ Len(t) \in Nat
      /\ DOMAIN s = 1 .. Len(s) /\ DOMAIN t = 1 .. Len(t)
  BY LenProperties
<1>2. /\ s \o t \in Seq(Entry) /\ Len(s \o t) = Len(s) + Len(t)
      /\ \A i \in 1 .. Len(s) + Len(t) : (s \o t)[i] = IF i <= Len(s) THEN s[i] ELSE t[i - Len(s)]
  BY ConcatProperties
<1>3. DOMAIN (s \o t) = 1 .. Len(s) + Len(t)
  BY <1>2, LenProperties
<1>4. ASSUME NEW x \in ToSet(s \o t)
      PROVE  x \in ToSet(s) \cup ToSet(t)
  <2>1. PICK i \in 1 .. Len(s) + Len(t) : x = (s \o t)[i]
    BY <1>3, <1>4 DEF ToSet
  <2>2. CASE i <= Len(s)
    BY <1>1, <1>2, <2>1, <2>2 DEF ToSet
  <2>3. CASE i > Len(s)
    <3>1. i - Len(s) \in 1 .. Len(t) /\ x = t[i - Len(s)]
      BY <1>1, <1>2, <2>1, <2>3
    <3>. QED  BY <1>1, <3>1 DEF ToSet
  <2>. QED  BY <1>1, <2>1, <2>2, <2>3
<1>5. ASSUME NEW x \in ToSet(s)
      PROVE  x \in ToSet(s \o t)
  <2>1. PICK i \in 1 .. Len(s) : x = s[i]
    BY <1>1, <1>5 DEF ToSet
  <2>2. i \in 1 .. Len(s) + Len(t) /\ (s \o t)[i] = x
    BY <1>1, <1>2, <2>1
  <2>. QED  BY <1>3, <2>2 DEF ToSet
<1>6. ASSUME NEW x \in ToSet(t)
      PROVE  x \in ToSet(s \o t)
  <2>1. PICK i \in 1 .. Len(t) : x = t[i]
    BY <1>1, <1>6 DEF ToSet
  <2>2. Len(s) + i \in 1 .. Len(s) + Len(t) /\ (s \o t)[Len(s) + i] = x
    BY <1>1, <1>2, <2>1
  <2>. QED  BY <1>3, <2>2 DEF ToSet
<1>. QED  BY <1>4, <1>5, <1>6

LEMMA SplitElements ==
  ASSUME NEW s \in Seq(Entry), NEW n \in 0 .. Len(s)
  PROVE  /\ SubSeq(s, 1, n) \in Seq(Entry)
         /\ ToSet(s) \subseteq ToSet(SubSeq(s, 1, n)) \cup ToSet(SubSeq(s, n + 1, Len(s)))
<1>1. Len(s) \in Nat /\ n \in Nat /\ DOMAIN s = 1 .. Len(s) /\ \A i \in 1 .. Len(s) : s[i] \in Entry
  BY LenProperties, ElementOfSeq
<1>2. /\ SubSeq(s, 1, n) \in Seq(Entry)
      /\ Len(SubSeq(s, 1, n)) = n
      /\ \A i \in 1 .. n : SubSeq(s, 1, n)[i] = s[i]
  <2>1. 1 \in Int /\ n \in Int /\ \A i \in 1 .. n : s[i] \in Entry
    BY <1>1
  <2>2. /\ SubSeq(s, 1, n) \in Seq(Entry)
        /\ Len(SubSeq(s, 1, n)) = IF 1 <= n THEN n - 1 + 1 ELSE 0
        /\ \A i \in 1 .. n - 1 + 1 : SubSeq(s, 1, n)[i] = s[1 + i - 1]
    BY <2>1, SubSeqProperties
  <2>. QED  BY <1>1, <2>2
<1>3. /\ SubSeq(s, n + 1, Len(s)) \in Seq(Entry)
      /\ Len(SubSeq(s, n + 1, Len(s))) = Len(s) - n
      /\ \A i \in 1 .. Len(s) - n : SubSeq(s, n + 1, Len(s))[i] = s[n + i]
  <2>1. n + 1 \in Int /\ Len(s) \in Int /\ \A i \in n + 1 .. Len(s) : s[i] \in Entry
    BY <1>1
  <2>2. /\ SubSeq(s, n + 1, Len(s)) \in Seq(Entry)
        /\ Len(SubSeq(s, n + 1, Len(s))) =
             IF n + 1 <= Len(s) THEN Len(s) - (n + 1) + 1 ELSE 0
        /\ \A i \in 1 .. Len(s) - (n + 1) + 1 : SubSeq(s, n + 1, Len(s))[i] = s[n + 1 + i - 1]
    BY <2>1, SubSeqProperties
  <2>3. Len(SubSeq(s, n + 1, Len(s))) = Len(s) - n
    <3>1. \A k \in Nat : \A i \in 0 .. k : (IF i + 1 <= k THEN k - (i + 1) + 1 ELSE 0) = k - i
      OBVIOUS
    <3>2. (IF n + 1 <= Len(s) THEN Len(s) - (n + 1) + 1 ELSE 0) = Len(s) - n
      BY <1>1, <3>1
    <3>. QED  BY <2>2, <3>2
  <2>4. ASSUME NEW i \in 1 .. Len(s) - n
        PROVE  SubSeq(s, n + 1, Len(s))[i] = s[n + i]
    <3>1. i \in 1 .. Len(s) - (n + 1) + 1 /\ n + 1 + i - 1 = n + i
      BY <1>1
    <3>. QED  BY <2>2, <3>1
  <2>. QED  BY <2>2, <2>3, <2>4
<1>4. ASSUME NEW x \in ToSet(s)
      PROVE  x \in ToSet(SubSeq(s, 1, n)) \cup ToSet(SubSeq(s, n + 1, Len(s)))
  <2>1. PICK i \in 1 .. Len(s) : x = s[i]
    BY <1>1, <1>4 DEF ToSet
  <2>2. CASE i <= n
    <3>1. i \in DOMAIN SubSeq(s, 1, n) /\ SubSeq(s, 1, n)[i] = x
      BY <1>1, <1>2, <2>1, <2>2, LenProperties
    <3>. QED  BY <3>1 DEF ToSet
  <2>3. CASE i > n
    <3>1. i - n \in 1 .. Len(s) - n /\ n + (i - n) = i
      BY <1>1, <2>1, <2>3
    <3>2. i - n \in DOMAIN SubSeq(s, n + 1, Len(s)) /\ SubSeq(s, n + 1, Len(s))[i - n] = x
      BY <1>3, <2>1, <3>1, LenProperties
    <3>. QED  BY <3>2 DEF ToSet
  <2>. QED  BY <1>1, <2>1, <2>2, <2>3
<1>. QED  BY <1>2, <1>4

\* The entries of the buffer after log() has made room and put one in.
LEMMA AppendElements ==
  ASSUME NEW s \in Seq(Entry), NEW e \in Entry
  PROVE  ToSet(s) \cup {e} \subseteq ToSet(Append(s, e))
<1>1. Len(s) \in Nat /\ DOMAIN s = 1 .. Len(s)
  BY LenProperties
<1>2. /\ Append(s, e) \in Seq(Entry) /\ Len(Append(s, e)) = Len(s) + 1
      /\ \A i \in 1 .. Len(s) + 1 : Append(s, e)[i] = IF i <= Len(s) THEN s[i] ELSE e
  BY <1>1, AppendProperties
<1>3. DOMAIN Append(s, e) = 1 .. Len(s) + 1
  BY <1>2, LenProperties
<1>4. e \in ToSet(Append(s, e))
  <2>1. Len(s) + 1 \in 1 .. Len(s) + 1 /\ Append(s, e)[Len(s) + 1] = e
    BY <1>1, <1>2
  <2>. QED  BY <1>3, <2>1 DEF ToSet
<1>5. ASSUME NEW x \in ToSet(s)
      PROVE  x \in ToSet(Append(s, e))
  <2>1. PICK i \in 1 .. Len(s) : x = s[i]
    BY <1>1, <1>5 DEF ToSet
  <2>2. i \in 1 .. Len(s) + 1 /\ Append(s, e)[i] = x
    BY <1>1, <1>2, <2>1
  <2>. QED  BY <1>3, <2>2 DEF ToSet
<1>. QED  BY <1>4, <1>5

LEMMA TailElements ==
  ASSUME NEW s \in Seq(Entry), s # <<>>
  PROVE  ToSet(s) \subseteq {Head(s)} \cup ToSet(Tail(s))
<1>1. /\ Len(s) \in Nat /\ DOMAIN s = 1 .. Len(s)
      /\ Tail(s) \in Seq(Entry) /\ Len(Tail(s)) = Len(s) - 1 /\ Head(s) = s[1]
      /\ \A i \in 1 .. Len(Tail(s)) : Tail(s)[i] = s[i + 1]
  BY LenProperties, HeadTailProperties
<1>2. ASSUME NEW x \in ToSet(s), x # Head(s)
      PROVE  x \in ToSet(Tail(s))
  <2>1. PICK i \in 1 .. Len(s) : x = s[i]
    BY <1>1, <1>2 DEF ToSet
  <2>2. i - 1 \in 1 .. Len(Tail(s)) /\ (i - 1) + 1 = i
    BY <1>1, <1>2, <2>1
  <2>3. i - 1 \in DOMAIN Tail(s) /\ Tail(s)[i - 1] = x
    BY <1>1, <2>1, <2>2, LenProperties
  <2>. QED  BY <2>3 DEF ToSet
<1>. QED  BY <1>2

\* A flush only moves what waits from the buffer to the batch.
LEMMA FlushWaiting ==
  ASSUME NEW entries, NEW wanted \in BOOLEAN, Flush(entries, wanted)
  PROVE  Waiting' = ToSet(entries) \cup UNION {ToSet(batch) : batch \in inFlight}
<1>1. CASE buffer' = entries /\ inFlight' = inFlight
  BY <1>1 DEF Waiting
<1>2. CASE buffer' = <<>> /\ inFlight' = {entries} /\ inFlight = {}
  BY <1>2, NoElements DEF Waiting
<1>. QED  BY <1>1, <1>2 DEF Flush

\* To show LossExplained after a step: nothing that waited, and nothing that
\* was just logged, is in no sink, no longer waits and has no excuse.
LEMMA Accounted ==
  ASSUME LogInv, LossExplained, logged' \in {logged, logged + 1},
         logged' # logged => logged' \in Waiting',
         ToSet(file) \subseteq ToSet(file)', ToSet(table) \subseteq ToSet(table)',
         excused["file"] \subseteq excused'["file"], excused["table"] \subseteq excused'["table"],
         Waiting \subseteq ToSet(file)' \cup Waiting' \cup excused'["file"],
         Waiting \subseteq ToSet(table)' \cup Waiting' \cup excused'["table"]
  PROVE  LossExplained'
<1>1. logged \in Nat
  BY DEF LogInv, TypeOK
<1> SUFFICES ASSUME NEW entry \in 1 .. logged'
             PROVE  /\ entry \in ToSet(file)' \cup Waiting' \cup excused'["file"]
                    /\ entry \in ToSet(table)' \cup Waiting' \cup excused'["table"]
  BY DEF LossExplained
<1>2. CASE entry \in 1 .. logged
  BY <1>2 DEF LossExplained
<1>3. CASE entry \notin 1 .. logged
  <2>1. entry = logged' /\ logged' # logged
    BY <1>1, <1>3
  <2>. QED  BY <2>1
<1>. QED  BY <1>2, <1>3

\* log(): what falls out of a full buffer has an excuse, the new entry waits.
LEMMA PushExplains ==
  ASSUME LogAssumption, LogInv, LossExplained, Push, UNCHANGED sinks
  PROVE  LossExplained'
<1> DEFINE full == Len(buffer) >= Capacity
           kept == IF full THEN Tail(buffer) ELSE buffer
           oldest == IF full THEN {Head(buffer)} ELSE {}
           entries == Append(kept, logged + 1)
           flying == UNION {ToSet(batch) : batch \in inFlight}
<1>1. /\ logged \in Nat /\ logged + 1 \in Entry /\ logged' = logged + 1
      /\ buffer \in Seq(Entry) /\ Len(buffer) \in Nat /\ Capacity \in Nat \ {0}
  BY LenProperties DEF LogInv, TypeOK, Push, Entry, LogAssumption
<1>2. full => buffer # <<>>
  BY <1>1, EmptySeq
<1>3. kept \in Seq(Entry) /\ ToSet(buffer) \subseteq oldest \cup ToSet(kept)
  BY <1>1, <1>2, HeadTailProperties, TailElements
<1>4. ToSet(kept) \cup {logged + 1} \subseteq ToSet(entries)
  BY <1>1, <1>3, AppendElements
<1>5. Excuse(oldest, oldest)
  BY <1>1 DEF Push
<1>6. \E wanted \in BOOLEAN : Flush(entries, wanted)
  BY <1>1 DEF Push
<1> HIDE DEF full, kept, oldest, entries
<1>7. Waiting' = ToSet(entries) \cup flying
  BY <1>6, FlushWaiting
<1>8. Waiting = ToSet(buffer) \cup flying
  BY DEF Waiting
<1>9. /\ excused'["file"] = excused["file"] \cup oldest
      /\ excused'["table"] = excused["table"] \cup oldest
  BY <1>5 DEF Excuse
<1>10. file' = file /\ table' = table
  BY DEF sinks
<1> HIDE DEF flying
<1>11. Waiting \subseteq oldest \cup Waiting'
  BY <1>3, <1>4, <1>7, <1>8
<1>12. logged' \in Waiting'
  BY <1>1, <1>4, <1>7
<1>. QED  BY <1>1, <1>9, <1>10, <1>11, <1>12, Accounted

\* Neither the first half of a flush nor the next process loses anything.
LEMMA FlushExplains ==
  ASSUME LogInv, LossExplained, Flush(buffer, TRUE), UNCHANGED <<logged, sinks, excused>>
  PROVE  LossExplained'
<1>1. Waiting' = Waiting
  BY FlushWaiting DEF Waiting
<1>. QED  BY <1>1 DEF LossExplained, sinks

\* The end of a flush: each entry of the batch is in the sink, or excused there.
LEMMA WrittenExplains ==
  ASSUME LogInv, LossExplained, NEW batch \in inFlight, Written(batch)
  PROVE  LossExplained'
<1>1. PICK written \in 0 .. Len(batch), stored \in BOOLEAN :
        /\ file' = file \o SubSeq(batch, 1, written)
        /\ table' = IF stored THEN table \o batch ELSE table
        /\ Excuse(ToSet(SubSeq(batch, written + 1, Len(batch))),
                  IF stored THEN {} ELSE ToSet(batch))
  BY DEF Written
<1> DEFINE unwritten == ToSet(SubSeq(batch, written + 1, Len(batch)))
           unstored == IF stored THEN {} ELSE ToSet(batch)
<1>2. /\ inFlight = {batch} /\ inFlight' = {} /\ logged' = logged /\ buffer' = buffer
  BY DEF Written, LogInv, Queued
<1>3. batch \in Seq(Entry) /\ file \in Seq(Entry) /\ table \in Seq(Entry)
  BY DEF LogInv, TypeOK
<1>4. /\ excused'["file"] = excused["file"] \cup unwritten
      /\ excused'["table"] = excused["table"] \cup unstored
  BY <1>1 DEF Excuse
<1>5. Waiting = Waiting' \cup ToSet(batch)
  BY <1>2 DEF Waiting
<1>6. /\ SubSeq(batch, 1, written) \in Seq(Entry)
      /\ ToSet(batch) \subseteq ToSet(SubSeq(batch, 1, written)) \cup unwritten
  BY <1>3, SplitElements
<1>7. ToSet(file)' = ToSet(file) \cup ToSet(SubSeq(batch, 1, written))
  BY <1>1, <1>3, <1>6, ConcatElements
<1>8. ToSet(table)' \cup unstored = ToSet(table) \cup ToSet(batch)
  BY <1>1, <1>3, ConcatElements
<1>9. ToSet(table) \subseteq ToSet(table)'
  BY <1>1, <1>3, ConcatElements
<1> HIDE DEF unwritten, unstored
<1>10. /\ Waiting \subseteq ToSet(file)' \cup Waiting' \cup excused'["file"]
       /\ Waiting \subseteq ToSet(table)' \cup Waiting' \cup excused'["table"]
  BY <1>4, <1>5, <1>6, <1>7, <1>8
<1>. QED  BY <1>2, <1>4, <1>7, <1>9, <1>10, Accounted

\* The end of the process, when what waits then is excused.
LEMMA GoneExplains ==
  ASSUME LogInv, LossExplained, NEW lost, Waiting \subseteq lost, Gone(lost)
  PROVE  LossExplained'
<1>1. /\ logged' = logged /\ table' = table
      /\ excused'["file"] = excused["file"] \cup lost
      /\ excused'["table"] = excused["table"] \cup lost
  BY DEF Gone, Excuse
<1>2. ToSet(file) \subseteq ToSet(file)'
  <2>1. CASE inFlight = {}
    BY <2>1 DEF Gone
  <2>2. CASE inFlight # {}
    <3>1. PICK batch \in inFlight : \E written \in 0 .. Len(batch) :
            file' = file \o SubSeq(batch, 1, written)
      BY <2>2 DEF Gone
    <3>2. PICK written \in 0 .. Len(batch) : file' = file \o SubSeq(batch, 1, written)
      BY <3>1
    <3>3. batch \in Seq(Entry) /\ file \in Seq(Entry)
      BY DEF LogInv, TypeOK
    <3>4. SubSeq(batch, 1, written) \in Seq(Entry)
      BY <3>3, SplitElements
    <3>. QED  BY <3>2, <3>3, <3>4, ConcatElements
  <2>. QED  BY <2>1, <2>2
<1>. QED  BY <1>1, <1>2, Accounted

LEMMA LossStep == LogInv /\ LossExplained /\ [Next]_vars => LossExplained'
<1> SUFFICES ASSUME LogInv, LossExplained, [Next]_vars
             PROVE  LossExplained'
  OBVIOUS
<1>1. CASE Log
  BY <1>1, LogAssumption, PushExplains DEF Log
<1>2. CASE TimerFlush
  BY <1>2, FlushExplains DEF TimerFlush
<1>3. CASE \E batch \in inFlight : Written(batch)
  BY <1>3, WrittenExplains
<1>4. CASE Die
  BY <1>4, GoneExplains DEF Die
<1>5. CASE Drain
  BY <1>5, LogAssumption, PushExplains DEF Drain
<1>6. CASE Close
  <2>1. CASE inFlight # {} \/ buffer = <<>>
    <3>1. Gone(IF inFlight = {} THEN {} ELSE Waiting)
      BY <1>6, <2>1 DEF Close
    <3>2. Waiting \subseteq IF inFlight = {} THEN {} ELSE Waiting
      <4>1. inFlight = {} /\ buffer = <<>> => Waiting = {}
        BY NoElements DEF Waiting
      <4>. QED  BY <2>1, <4>1
    <3>. QED  BY <3>1, <3>2, GoneExplains
  <2>2. CASE ~(inFlight # {} \/ buffer = <<>>)
    BY <1>6, <2>2, FlushExplains DEF Close
  <2>. QED  BY <2>1, <2>2
<1>7. CASE Leave
  <2>1. Waiting = ToSet(buffer)
    BY <1>7 DEF Leave, Ending, Waiting
  <2>. QED  BY <1>7, <2>1, GoneExplains DEF Leave
<1>8. CASE Boot
  BY <1>8 DEF Boot, sinks, LossExplained, Waiting
<1>9. CASE UNCHANGED vars
  BY <1>9 DEF vars, sinks, LossExplained, Waiting
<1>. QED  BY <1>1, <1>2, <1>3, <1>4, <1>5, <1>6, <1>7, <1>8, <1>9 DEF Next

\* "All runtime logs are persisted", but for those with a named cause: for every
\* capacity and threshold and any number of failing writes and ends of the
\* process, an entry is in a sink, waits, or has its excuse there.
THEOREM LossHasACause == Spec => []LossExplained
<1>1. Init => LossExplained
  BY DEF Init, LossExplained
<1>2. LogInv /\ LossExplained /\ [Next]_vars => LossExplained'
  BY LossStep
<1>. QED  BY <1>1, <1>2, LogInvariant, PTL DEF Spec

=============================================================================
