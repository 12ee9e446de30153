--------------------------- MODULE IoBufferProofs ---------------------------
(***************************************************************************)
(* Proofs about RingBuffer and IoBuffer.  The ring buffer: for every       *)
(* capacity, every number of writes and every set of readers and calls;    *)
(* its last theorem is about one reader.  The io buffer: for every         *)
(* capacity, number of sinks and cores, the source and the sinks use the   *)
(* ring buffer as RingBuffer specifies it, a notification wakes everybody  *)
(* who sleeps, getNew() returns newer and newer elements, and the sinks on *)
(* the core of the source neither spin for ever nor sleep on data that is  *)
(* there.                                                                  *)
(***************************************************************************)
EXTENDS IoBuffer, TLAPS

(***************************************************************************)
(* Arithmetic of slots.                                                    *)
(***************************************************************************)

\* The slot of an index, index % capacity, is a slot of the ring.
LEMMA SlotInRange == \A i \in Nat : Slot(i) \in Slots
  BY CapacityAssumption DEF Slot, Slots

\* The division by the capacity behind index % capacity.
LEMMA Euclid ==
  \A i \in Nat : i \div Capacity \in Nat /\ i = Capacity * (i \div Capacity) + Slot(i)
  BY CapacityAssumption DEF Slot

\* Multiples of the capacity are at least a capacity apart.
LEMMA MultiplesApart ==
  ASSUME NEW p \in Int, NEW q \in Int, p < q
  PROVE  Capacity * q >= Capacity * p + Capacity
  <1> DEFINE d == q - p - 1
  <1>1. d \in Nat /\ q = p + 1 + d
    OBVIOUS
  <1>2. Capacity * q = Capacity * p + Capacity + Capacity * d
    BY <1>1, CapacityAssumption
  <1>3. Capacity * d >= 0
    BY <1>1, CapacityAssumption
  <1> HIDE DEF d
  <1> QED BY <1>1, <1>2, <1>3, CapacityAssumption

\* Two indexes that share a slot of the ring are at least a capacity apart.
LEMMA SameSlotApart ==
  ASSUME NEW i \in Nat, NEW j \in Nat, i < j, Slot(i) = Slot(j)
  PROVE  j >= i + Capacity
  <1> DEFINE p == i \div Capacity
             q == j \div Capacity
             m == Slot(i)
  <1>1. p \in Nat /\ q \in Nat
    BY Euclid
  <1>2. i = Capacity * p + m /\ j = Capacity * q + m
    BY Euclid
  <1>3. m \in Int
    BY SlotInRange, CapacityAssumption DEF Slots
  <1>4. Capacity * p \in Int /\ Capacity * q \in Int
    BY <1>1, CapacityAssumption
  <1> HIDE DEF p, q, m
  <1>5. Capacity * p < Capacity * q
    BY <1>2, <1>3, <1>4
  <1>6. p # q
    BY <1>5, <1>4
  <1>7. ~(q < p)
    BY <1>5, <1>1, <1>4, MultiplesApart, CapacityAssumption
  <1>8. Capacity * q >= Capacity * p + Capacity
    BY <1>6, <1>7, <1>1, MultiplesApart
  <1> QED BY <1>2, <1>3, <1>4, <1>8, CapacityAssumption

\* A number below the capacity that an index exceeds by a multiple of the
\* capacity is the slot of the index.
LEMMA SlotUnique ==
  ASSUME NEW j \in Nat, NEW p \in Int, NEW m \in Slots, j = Capacity * p + m
  PROVE  Slot(j) = m
  <1> DEFINE q == j \div Capacity
             n == Slot(j)
  <1>1. q \in Nat /\ j = Capacity * q + n
    BY Euclid
  <1>2. m \in 0 .. Capacity - 1 /\ n \in 0 .. Capacity - 1
    BY SlotInRange DEF Slots
  <1>3. Capacity * p \in Int /\ Capacity * q \in Int
    BY <1>1, CapacityAssumption
  <1> HIDE DEF q, n
  <1>4. ~(p < q)
    BY <1>1, <1>2, <1>3, MultiplesApart, CapacityAssumption
  <1>5. ~(q < p)
    BY <1>1, <1>2, <1>3, MultiplesApart, CapacityAssumption
  <1>6. p = q
    BY <1>1, <1>4, <1>5
  <1>7. m = n
    BY <1>1, <1>2, <1>3, <1>6
  <1> QED BY <1>7 DEF n

\* k indexes later the slot is k further, until the end of the ring is passed.
LEMMA SlotShift ==
  ASSUME NEW i \in Nat, NEW k \in Nat, k <= Capacity
  PROVE  Slot(i + k) = IF Slot(i) + k < Capacity THEN Slot(i) + k ELSE Slot(i) + k - Capacity
  <1> DEFINE p == i \div Capacity
             m == Slot(i)
  <1>1. p \in Nat /\ i = Capacity * p + m
    BY Euclid
  <1>2. m \in 0 .. Capacity - 1
    BY SlotInRange DEF Slots
  <1>3. Capacity * p \in Int /\ Capacity * (p + 1) = Capacity * p + Capacity
    BY <1>1, CapacityAssumption
  <1> HIDE DEF p
  <1>4. CASE m + k < Capacity
    <2>1. m + k \in Slots /\ i + k = Capacity * p + (m + k)
      BY <1>1, <1>2, <1>3, <1>4, CapacityAssumption DEF Slots
    <2>2. Slot(i + k) = m + k
      BY <2>1, <1>1, SlotUnique
    <2> QED BY <2>2, <1>4
  <1>5. CASE ~(m + k < Capacity)
    <2>1. m + k - Capacity \in Slots /\ i + k = Capacity * (p + 1) + (m + k - Capacity)
      BY <1>1, <1>2, <1>3, <1>5, CapacityAssumption DEF Slots
    <2>2. Slot(i + k) = m + k - Capacity
      BY <2>1, <1>1, SlotUnique
    <2> QED BY <2>2, <1>5
  <1> QED BY <1>4, <1>5

\* An index and the index one capacity later share a slot of the ring.
LEMMA SlotWraps == \A i \in Nat : Slot(i + Capacity) = Slot(i)
  <1> SUFFICES ASSUME NEW i \in Nat PROVE Slot(i + Capacity) = Slot(i)
    OBVIOUS
  <1>1. Slot(i) \in 0 .. Capacity - 1
    BY SlotInRange DEF Slots
  <1> QED BY <1>1, SlotShift, CapacityAssumption
-----------------------------------------------------------------------------
(***************************************************************************)
(* Type correctness.                                                       *)
(***************************************************************************)

\* What a callable accepts is a non-empty range of published indexes.
LEMMA RangeType ==
  ASSUME NEW q \in Request, NEW b \in Nat, NEW e \in Nat, Accepts(q, b, e)
  PROVE  /\ RangeBegin(q, b, e) \in Nat
         /\ RangeEnd(q, b, e) \in Nat
         /\ RangeBegin(q, b, e) < RangeEnd(q, b, e)
         /\ RangeEnd(q, b, e) <= e
  <1>1. q.op \in {"last", "first", "spansFirst", "spansLast"} /\ q.start \in Nat /\ q.count \in Nat
    BY DEF Request
  <1> QED BY <1>1 DEF Accepts, RangeBegin, RangeEnd, From

\* The operations of a lock word yield lock words.
LEMMA WordType ==
  /\ 0 \in Word /\ LockValue \in Word
  /\ \A w \in Word : Increment(w) \in Word /\ Decrement(w) \in Word /\ SharedCount(w) \in Word
  BY LockValueAssumption DEF Word, Increment, Decrement, SharedCount, IsExclusive

\* Every step keeps the types.
LEMMA TypeInductive ==
  ASSUME TypeOK, [Next]_vars
  PROVE  TypeOK'
  <1> USE DEF TypeOK, readerVars
  <1>1. CASE WriterLock
    BY <1>1, WordType, SlotInRange DEF WriterLock
  <1>2. CASE WriterDropOldest
    BY <1>2 DEF WriterDropOldest
  <1>3. CASE WriterStore
    BY <1>3, SlotInRange DEF WriterStore
  <1>4. CASE WriterUnlock
    BY <1>4, WordType, SlotInRange DEF WriterUnlock
  <1>5. CASE WriterPublish
    BY <1>5 DEF WriterPublish
  <1>6. ASSUME NEW r \in Readers, NEW q \in Requests, ReaderCall(r, q) PROVE TypeOK'
    BY <1>6 DEF ReaderCall
  <1>7. ASSUME NEW r \in Readers, ReaderLoadBegin(r) PROVE TypeOK'
    BY <1>7 DEF ReaderLoadBegin
  <1>8. ASSUME NEW r \in Readers, ReaderLoadEnd(r) PROVE TypeOK'
    <2>1. req[r] \in Request /\ begin[r] \in Nat /\ write \in Nat
      BY RequestsAssumption
    <2>2. CASE Accepts(req[r], begin[r], write)
      <3>1. /\ RangeBegin(req[r], begin[r], write) \in Nat
            /\ RangeEnd(req[r], begin[r], write) \in Nat
        BY <2>1, <2>2, RangeType
      <3> QED BY <1>8, <2>2, <3>1 DEF ReaderLoadEnd
    <2>3. CASE ~Accepts(req[r], begin[r], write)
      BY <1>8, <2>3 DEF ReaderLoadEnd
    <2> QED BY <2>2, <2>3
  <1>9. ASSUME NEW r \in Readers, ReaderLockLoad(r) PROVE TypeOK'
    BY <1>9, WordType, SlotInRange DEF ReaderLockLoad
  <1>10. ASSUME NEW r \in Readers, ReaderLockCas(r) PROVE TypeOK'
    BY <1>10, WordType, SlotInRange DEF ReaderLockCas
  <1>11. ASSUME NEW r \in Readers, ReaderCheck(r) PROVE TypeOK'
    BY <1>11 DEF ReaderCheck
  <1>12. ASSUME NEW r \in Readers, ReaderOutdated(r) PROVE TypeOK'
    BY <1>12, WordType, SlotInRange DEF ReaderOutdated
  <1>13. ASSUME NEW r \in Readers, ReaderRelease(r) PROVE TypeOK'
    BY <1>13, WordType, SlotInRange DEF ReaderRelease
  <1>14. CASE UNCHANGED vars
    BY <1>14 DEF vars
  <1> QED
    BY <1>1, <1>2, <1>3, <1>4, <1>5, <1>6, <1>7, <1>8, <1>9, <1>10, <1>11, <1>12, <1>13, <1>14
    DEF Next, WriterFinish, ReaderStep

\* Every variable of the ring buffer keeps its type.
THEOREM TypeCorrect == Spec => []TypeOK
  <1>1. Init => TypeOK
    BY CapacityAssumption, RequestsAssumption, WordType DEF Init, TypeOK, NoElement, Word
  <1> QED BY <1>1, TypeInductive, PTL DEF Spec
-----------------------------------------------------------------------------
(***************************************************************************)
(* The size of the ring and the results handed to the readers.             *)
(*                                                                         *)
(* A reader loads read_, then write_, then takes a lock, then looks at     *)
(* read_ again, while the writer moves both.  What a reader knows between  *)
(* these steps is only that its range lies below write_; the last look at  *)
(* read_, with SizeBounded, bounds its length.                             *)
(***************************************************************************)
RangeKnown ==
  \A r \in Readers :
     rpc[r] \in {"lockLoad", "lockCas", "check", "outdated", "reading"} =>
        begin[r] < end[r] /\ end[r] <= write

SizeInv == SizeBounded /\ RangeKnown /\ ResultFits

\* The parts of the invariant about sizes are inductive together.
LEMMA SizeInvInductive == TypeOK /\ TypeOK' /\ SizeInv /\ [Next]_vars => SizeInv'
  <1> SUFFICES ASSUME TypeOK, TypeOK', SizeInv, [Next]_vars PROVE SizeInv'
    OBVIOUS
  <1> USE CapacityAssumption DEF TypeOK, readerVars, SizeInv, SizeBounded, RangeKnown, ResultFits
  <1>1. CASE WriterLock
    BY <1>1 DEF WriterLock
  <1>2. CASE WriterDropOldest
    BY <1>2 DEF WriterDropOldest
  <1>3. CASE WriterStore
    BY <1>3 DEF WriterStore
  <1>4. CASE WriterUnlock
    BY <1>4 DEF WriterUnlock
  <1>5. CASE WriterPublish
    BY <1>5 DEF WriterPublish
  <1>6. ASSUME NEW r \in Readers, NEW q \in Requests, ReaderCall(r, q) PROVE SizeInv'
    BY <1>6 DEF ReaderCall
  <1>7. ASSUME NEW r \in Readers, ReaderLoadBegin(r) PROVE SizeInv'
    BY <1>7 DEF ReaderLoadBegin
  <1>8. ASSUME NEW r \in Readers, ReaderLoadEnd(r) PROVE SizeInv'
    <2>1. req[r] \in Request /\ begin[r] \in Nat /\ write \in Nat
      BY RequestsAssumption
    <2>2. CASE Accepts(req[r], begin[r], write)
      <3>1. /\ RangeBegin(req[r], begin[r], write) < RangeEnd(req[r], begin[r], write)
            /\ RangeEnd(req[r], begin[r], write) <= write
        BY <2>1, <2>2, RangeType
      <3> QED BY <1>8, <2>2, <3>1 DEF ReaderLoadEnd
    <2>3. CASE ~Accepts(req[r], begin[r], write)
      BY <1>8, <2>3 DEF ReaderLoadEnd
    <2> QED BY <2>2, <2>3
  <1>9. ASSUME NEW r \in Readers, ReaderLockLoad(r) PROVE SizeInv'
    BY <1>9 DEF ReaderLockLoad
  <1>10. ASSUME NEW r \in Readers, ReaderLockCas(r) PROVE SizeInv'
    BY <1>10 DEF ReaderLockCas
  <1>11. ASSUME NEW r \in Readers, ReaderCheck(r) PROVE SizeInv'
    BY <1>11 DEF ReaderCheck
  <1>12. ASSUME NEW r \in Readers, ReaderOutdated(r) PROVE SizeInv'
    BY <1>12 DEF ReaderOutdated
  <1>13. ASSUME NEW r \in Readers, ReaderRelease(r) PROVE SizeInv'
    BY <1>13 DEF ReaderRelease
  <1>14. CASE UNCHANGED vars
    BY <1>14 DEF vars
  <1> QED
    BY <1>1, <1>2, <1>3, <1>4, <1>5, <1>6, <1>7, <1>8, <1>9, <1>10, <1>11, <1>12, <1>13, <1>14
    DEF Next, WriterFinish, ReaderStep

\* SizeInv holds in every behaviour of the ring buffer.
LEMMA SizeInvHolds == Spec => []SizeInv
  <1>1. Init => SizeInv
    BY CapacityAssumption DEF Init, SizeInv, SizeBounded, RangeKnown, ResultFits
  <1> QED BY <1>1, TypeCorrect, SizeInvInductive, PTL DEF Spec

\* size() never exceeds the capacity, whatever the readers do.
THEOREM SizeIsBounded == Spec => []SizeBounded
  BY SizeInvHolds, PTL DEF SizeInv

\* The assertion of makeSpans() never fails: a result has between one and
\* capacity elements, all of them published.
THEOREM ResultsFit == Spec => []ResultFits
  BY SizeInvHolds, PTL DEF SizeInv

\* The spans of makeSpans() are exactly the range, for every capacity and
\* wherever the range wraps around.
THEOREM SpansAreExact == Spec => []SpansExact
  <1>1. TypeOK /\ ResultFits => SpansExact
    <2> SUFFICES ASSUME TypeOK, ResultFits, NEW r \in Readers, rpc[r] = "reading"
                 PROVE  /\ FirstSpan(begin[r], end[r]) + SecondSpan(begin[r], end[r]) = end[r] - begin[r]
                        /\ \A k \in 0 .. end[r] - begin[r] - 1 :
                              SpanSlot(begin[r], end[r], k) = Slot(begin[r] + k)
      BY DEF SpansExact
    <2> DEFINE b == begin[r]
               e == end[r]
               n == e - b
    <2>1. b \in Nat /\ e \in Nat /\ n \in 1 .. Capacity /\ e = b + n
      BY CapacityAssumption DEF TypeOK, ResultFits
    <2> HIDE DEF b, e, n
    <2>2. Slot(b) \in 0 .. Capacity - 1
      BY <2>1, SlotInRange DEF Slots
    <2>3. Slot(e) = IF Slot(b) + n < Capacity THEN Slot(b) + n ELSE Slot(b) + n - Capacity
      BY <2>1, SlotShift, CapacityAssumption
    <2>4. FirstSpan(b, e) = IF Slot(b) + n < Capacity THEN n ELSE Capacity - Slot(b)
      BY <2>1, <2>2, <2>3, CapacityAssumption DEF FirstSpan
    <2>5. FirstSpan(b, e) + SecondSpan(b, e) = n
      BY <2>1, <2>2, <2>3, <2>4, CapacityAssumption DEF SecondSpan
    <2>6. ASSUME NEW k \in 0 .. n - 1 PROVE SpanSlot(b, e, k) = Slot(b + k)
      <3>1. Slot(b + k) = IF Slot(b) + k < Capacity THEN Slot(b) + k ELSE Slot(b) + k - Capacity
        BY <2>1, SlotShift, CapacityAssumption
      <3> QED BY <3>1, <2>1, <2>2, <2>4, CapacityAssumption DEF SpanSlot
    <2> QED BY <2>5, <2>6, <2>1 DEF b, e, n
  <1> QED BY <1>1, TypeCorrect, ResultsFit, PTL

\* What the ring hands out is exact, for any number of readers: size() stays
\* within the capacity, every result is a published range that fits, and
\* makeSpans() describes it (ring_buffer.hh:259-300).
THEOREM RangesAreExact == Spec => []RangesExact
  <1>1. SizeBounded /\ ResultFits /\ SpansExact => RangesExact
    BY DEF RangesExact
  <1> QED BY <1>1, SizeIsBounded, ResultsFit, SpansAreExact, PTL
-----------------------------------------------------------------------------
(***************************************************************************)
(* With a single reader the results are stable.                            *)
(*                                                                         *)
(* The argument: a lock word says exactly who owns the slot (LocksExact),  *)
(* so the writer and the reader never own the same slot.  To drop the      *)
(* element read_ the writer must own the slot of read_ + capacity, which   *)
(* is the slot of read_; hence read_ does not move past the begin of a     *)
(* live result (HeldIsReadable), and all elements from read_ to write_     *)
(* are in the storage (ReadableStored).  With two readers LocksExact is    *)
(* lost: unlock() of an outdated reader clears the count of the other one. *)
(***************************************************************************)
LocksExact ==
  \A s \in Slots :
     /\ WriterOwns(s) => locks[s] = LockValue
     /\ \A r \in Readers : ReaderOwns(r, s) => locks[s] = 1
     /\ ~WriterOwns(s) /\ (\A r \in Readers : ~ReaderOwns(r, s)) => locks[s] = 0

ExpectedShared == \A r \in Readers : rpc[r] = "lockCas" => expected[r] < LockValue

HeldIsReadable == \A r \in Readers : rpc[r] = "reading" => read <= begin[r]

ReadableStored ==
  /\ \A i \in read .. write - 1 : storage[Slot(i)] = i
  /\ wpc \in {"written", "publish"} => storage[Slot(write)] = write

StableInv == LocksExact /\ ExpectedShared /\ HeldIsReadable /\ ReadableStored

OneReader == \A r1, r2 \in Readers : r1 = r2

\* The writer and the reader never own the same slot at the same time.
LEMMA Exclusion ==
  ASSUME LocksExact, NEW r \in Readers, NEW s \in Slots
  PROVE  ~(WriterOwns(s) /\ ReaderOwns(r, s))
  BY LockValueAssumption DEF LocksExact

\* What one reader's ring buffer preserves.
LEMMA StableInvInductive ==
  ASSUME OneReader, TypeOK, TypeOK', SizeInv, SizeInv', StableInv, [Next]_vars
  PROVE  StableInv'
  <1> USE CapacityAssumption, LockValueAssumption DEF TypeOK, readerVars
  <1>0. Slot(write) \in Slots /\ (\A r \in Readers : Slot(begin[r]) \in Slots)
    BY SlotInRange
  <1>1. CASE WriterLock
    <2>1. LocksExact'
      BY <1>0, <1>1 DEF WriterLock, StableInv, LocksExact, WriterOwns, ReaderOwns
    <2>2. HeldIsReadable' /\ ExpectedShared'
      BY <1>1 DEF WriterLock, StableInv, HeldIsReadable, ExpectedShared
    <2>3. ReadableStored'
      BY <1>1 DEF WriterLock, StableInv, ReadableStored
    <2> QED BY <2>1, <2>2, <2>3 DEF StableInv
  <1>2. CASE WriterDropOldest
    <2>1. LocksExact'
      BY <1>0, <1>2 DEF WriterDropOldest, StableInv, LocksExact, WriterOwns, ReaderOwns
    <2>2. HeldIsReadable' /\ ExpectedShared'
      <3> SUFFICES ASSUME NEW r \in Readers, rpc[r] = "reading", write - read >= Capacity
                   PROVE  begin[r] # read
        BY <1>2 DEF WriterDropOldest, StableInv, HeldIsReadable, ExpectedShared
      <3>1. write = read + Capacity
        BY DEF SizeInv, SizeBounded
      <3>2. Slot(write) = Slot(read)
        BY <3>1, SlotWraps
      <3>3. WriterOwns(Slot(write))
        BY <1>2 DEF WriterDropOldest, WriterOwns
      <3>4. ReaderOwns(r, Slot(begin[r]))
        BY DEF ReaderOwns
      <3> QED BY <1>0, <3>2, <3>3, <3>4, Exclusion DEF StableInv
    <2>3. ReadableStored'
      BY <1>2 DEF WriterDropOldest, StableInv, ReadableStored
    <2> QED BY <2>1, <2>2, <2>3 DEF StableInv
  <1>3. CASE WriterStore
    <2>1. LocksExact' /\ HeldIsReadable' /\ ExpectedShared'
      BY <1>0, <1>3 DEF WriterStore, StableInv, LocksExact, HeldIsReadable, ExpectedShared, WriterOwns, ReaderOwns
    <2>2. ReadableStored'
      <3>1. \A i \in read .. write - 1 : Slot(i) # Slot(write)
        BY <1>3, SameSlotApart DEF WriterStore, SizeInv, SizeBounded
      <3>2. \A i \in read .. write - 1 : Slot(i) \in Slots
        BY SlotInRange
      <3> QED BY <1>0, <1>3, <3>1, <3>2 DEF WriterStore, StableInv, ReadableStored
    <2> QED BY <2>1, <2>2 DEF StableInv
  <1>4. CASE WriterUnlock
    <2>1. LocksExact'
      <3>1. WriterOwns(Slot(write))
        BY <1>4 DEF WriterUnlock, WriterOwns
      <3>2. \A r \in Readers : ~ReaderOwns(r, Slot(write))
        BY <1>0, <3>1, Exclusion DEF StableInv
      <3> QED BY <1>0, <1>4, <3>2 DEF WriterUnlock, StableInv, LocksExact, WriterOwns, ReaderOwns
    <2>2. HeldIsReadable' /\ ExpectedShared' /\ ReadableStored'
      BY <1>4 DEF WriterUnlock, StableInv, HeldIsReadable, ExpectedShared, ReadableStored
    <2> QED BY <2>1, <2>2 DEF StableInv
  <1>5. CASE WriterPublish
    <2>1. LocksExact' /\ HeldIsReadable' /\ ExpectedShared'
      BY <1>0, <1>5 DEF WriterPublish, StableInv, LocksExact, HeldIsReadable, ExpectedShared, WriterOwns, ReaderOwns
    <2>2. ReadableStored'
      BY <1>5 DEF WriterPublish, StableInv, ReadableStored
    <2> QED BY <2>1, <2>2 DEF StableInv
  <1>6. ASSUME NEW r \in Readers, NEW q \in Requests, ReaderCall(r, q) PROVE StableInv'
    BY <1>6 DEF ReaderCall, StableInv, LocksExact, HeldIsReadable, ExpectedShared, ReadableStored, WriterOwns, ReaderOwns
  <1>7. ASSUME NEW r \in Readers, ReaderLoadBegin(r) PROVE StableInv'
    BY <1>7 DEF ReaderLoadBegin, StableInv, LocksExact, HeldIsReadable, ExpectedShared, ReadableStored, WriterOwns, ReaderOwns
  <1>8. ASSUME NEW r \in Readers, ReaderLoadEnd(r) PROVE StableInv'
    BY <1>8 DEF ReaderLoadEnd, StableInv, LocksExact, HeldIsReadable, ExpectedShared, ReadableStored, WriterOwns, ReaderOwns
  <1>9. ASSUME NEW r \in Readers, ReaderLockLoad(r) PROVE StableInv'
    <2>1. LocksExact' /\ HeldIsReadable' /\ ReadableStored'
      BY <1>9 DEF ReaderLockLoad, StableInv, LocksExact, HeldIsReadable, ReadableStored, WriterOwns, ReaderOwns
    <2>2. ExpectedShared'
      <3>1. locks[Slot(begin[r])] \in Word
        BY <1>0
      <3>2. SharedCount(locks[Slot(begin[r])]) < LockValue
        BY <3>1 DEF Word, SharedCount, IsExclusive
      <3> QED BY <1>9, <3>2 DEF ReaderLockLoad, StableInv, ExpectedShared
    <2> QED BY <2>1, <2>2 DEF StableInv
  <1>10. ASSUME NEW r \in Readers, ReaderLockCas(r) PROVE StableInv'
    <2> DEFINE s == Slot(begin[r])
    <2>1. CASE locks[s] = expected[r]
      <3>1. expected[r] < LockValue
        BY <1>10 DEF ReaderLockCas, StableInv, ExpectedShared
      <3>2. ~WriterOwns(s)
        BY <1>0, <2>1, <3>1 DEF StableInv, LocksExact
      <3>3. \A x \in Readers, t \in Slots : ~ReaderOwns(x, t)
        BY <1>10 DEF ReaderLockCas, ReaderOwns, OneReader
      <3>4. locks[s] = 0
        BY <1>0, <3>2, <3>3 DEF StableInv, LocksExact
      <3>5. locks' = [locks EXCEPT ![s] = 1]
        BY <1>10, <2>1, <3>4 DEF ReaderLockCas, Increment
      <3>6. rpc' = [rpc EXCEPT ![r] = "check"]
        BY <1>10, <2>1 DEF ReaderLockCas
      <3>7. LocksExact'
        <4>1. UNCHANGED <<wpc, write, begin>>
          BY <1>10 DEF ReaderLockCas
        <4> QED BY <1>0, <3>2, <3>3, <3>5, <3>6, <4>1 DEF StableInv, LocksExact, WriterOwns, ReaderOwns
      <3>8. HeldIsReadable' /\ ExpectedShared' /\ ReadableStored'
        BY <1>10, <3>6 DEF ReaderLockCas, StableInv, HeldIsReadable, ExpectedShared, ReadableStored
      <3> QED BY <3>7, <3>8 DEF StableInv
    <2>2. CASE locks[s] # expected[r]
      BY <1>10, <2>2
      DEF ReaderLockCas, StableInv, LocksExact, HeldIsReadable, ExpectedShared, ReadableStored,
          WriterOwns, ReaderOwns
    <2> QED BY <2>1, <2>2
  <1>11. ASSUME NEW r \in Readers, ReaderCheck(r) PROVE StableInv'
    BY <1>11 DEF ReaderCheck, StableInv, LocksExact, HeldIsReadable, ExpectedShared, ReadableStored, WriterOwns, ReaderOwns
  <1>12. ASSUME NEW r \in Readers, ReaderOutdated(r) PROVE StableInv'
    <2> DEFINE s == Slot(begin[r])
    <2>1. ReaderOwns(r, s)
      BY <1>12 DEF ReaderOutdated, ReaderOwns
    <2>2. locks[s] = 1 /\ ~WriterOwns(s)
      BY <1>0, <2>1, Exclusion DEF StableInv, LocksExact
    <2>3. locks' = [locks EXCEPT ![s] = 0] /\ rpc' = [rpc EXCEPT ![r] = "loadBegin"]
      BY <1>12, <2>2 DEF ReaderOutdated
    <2>4. UNCHANGED <<wpc, write, read, begin, expected, storage>>
      BY <1>12 DEF ReaderOutdated
    <2>5. LocksExact'
      <3>1. \A x \in Readers, t \in Slots : ~ReaderOwns(x, t)'
        BY <2>3, <2>4 DEF ReaderOwns, OneReader
      <3>2. \A t \in Slots : ReaderOwns(r, t) => t = s
        BY DEF ReaderOwns
      <3> QED BY <1>0, <2>2, <2>3, <2>4, <3>1, <3>2 DEF StableInv, LocksExact, WriterOwns, OneReader
    <2>6. HeldIsReadable' /\ ExpectedShared' /\ ReadableStored'
      BY <2>3, <2>4 DEF StableInv, HeldIsReadable, ExpectedShared, ReadableStored
    <2> QED BY <2>5, <2>6 DEF StableInv
  <1>13. ASSUME NEW r \in Readers, ReaderRelease(r) PROVE StableInv'
    <2> DEFINE s == Slot(begin[r])
    <2>1. ReaderOwns(r, s)
      BY <1>13 DEF ReaderRelease, ReaderOwns
    <2>2. locks[s] = 1 /\ ~WriterOwns(s)
      BY <1>0, <2>1, Exclusion DEF StableInv, LocksExact
    <2>3. locks' = [locks EXCEPT ![s] = 0] /\ rpc' = [rpc EXCEPT ![r] = "idle"]
      BY <1>13, <2>2 DEF ReaderRelease, Decrement
    <2>4. UNCHANGED <<wpc, write, read, begin, expected, storage>>
      BY <1>13 DEF ReaderRelease
    <2>5. LocksExact'
      <3>1. \A x \in Readers, t \in Slots : ~ReaderOwns(x, t)'
        BY <2>3, <2>4 DEF ReaderOwns, OneReader
      <3>2. \A t \in Slots : ReaderOwns(r, t) => t = s
        BY DEF ReaderOwns
      <3> QED BY <1>0, <2>2, <2>3, <2>4, <3>1, <3>2 DEF StableInv, LocksExact, WriterOwns, OneReader
    <2>6. HeldIsReadable' /\ ExpectedShared' /\ ReadableStored'
      BY <2>3, <2>4 DEF StableInv, HeldIsReadable, ExpectedShared, ReadableStored
    <2> QED BY <2>5, <2>6 DEF StableInv
  <1>14. CASE UNCHANGED vars
    BY <1>14 DEF vars, StableInv, LocksExact, HeldIsReadable, ExpectedShared, ReadableStored, WriterOwns, ReaderOwns
  <1> QED
    BY <1>1, <1>2, <1>3, <1>4, <1>5, <1>6, <1>7, <1>8, <1>9, <1>10, <1>11, <1>12, <1>13, <1>14
    DEF Next, WriterFinish, ReaderStep

\* With one reader, what a live result refers to is never overwritten, though
\* only the first slot of it is locked.
THEOREM ResultsStable == OneReader /\ Spec => []ResultStable
  <1> SUFFICES ASSUME OneReader PROVE Spec => []ResultStable
    OBVIOUS
  <1>1. Init => StableInv
    BY CapacityAssumption, SlotInRange
    DEF Init, StableInv, LocksExact, HeldIsReadable, ExpectedShared, ReadableStored, WriterOwns, ReaderOwns
  <1>2. TypeOK /\ TypeOK' /\ SizeInv /\ SizeInv' /\ StableInv /\ [Next]_vars => StableInv'
    BY StableInvInductive
  <1>3. TypeOK /\ SizeInv /\ StableInv => ResultStable
    <2> SUFFICES ASSUME TypeOK, SizeInv, StableInv,
                        NEW r \in Readers, rpc[r] = "reading",
                        NEW i \in begin[r] .. end[r] - 1
                 PROVE  storage[Slot(i)] = i /\ ~WriterOwns(Slot(i))
      BY DEF ResultStable
    <2> USE CapacityAssumption DEF TypeOK
    <2>1. read <= begin[r] /\ end[r] <= write
      BY DEF StableInv, HeldIsReadable, SizeInv, ResultFits
    <2>2. i \in read .. write - 1 /\ i \in Nat
      BY <2>1
    <2>3. storage[Slot(i)] = i
      BY <2>2 DEF StableInv, ReadableStored
    <2>4. ASSUME WriterOwns(Slot(i)) PROVE FALSE
      <3>1. Slot(i) = Slot(write)
        BY <2>4 DEF WriterOwns
      <3>2. write >= i + Capacity
        BY <2>2, <3>1, SameSlotApart
      <3>3. i = begin[r]
        BY <2>1, <2>2, <3>2 DEF SizeInv, SizeBounded
      <3>4. ReaderOwns(r, Slot(i))
        BY <3>3 DEF ReaderOwns
      <3> QED BY <2>2, <2>4, <3>4, Exclusion, SlotInRange DEF StableInv
    <2> QED BY <2>3, <2>4
  <1> QED BY <1>1, <1>2, <1>3, TypeCorrect, SizeInvHolds, PTL DEF Spec

-----------------------------------------------------------------------------
(* The source and the sinks.                                               *)

\* The sinks beside the source, on its core.
Local(r) == CoreOf[r] = CoreOf[Source]

\* A core other than the one of the source has at most one sink.
OneSinkPerOtherCore == \A q, r \in Readers : CoreOf[q] = CoreOf[r] => q = r \/ Local(r)

\* The writer stays within the bound.
WriteBounded == write <= MaxWrites /\ (wpc # "idle" => write < MaxWrites)

\* index_ counts published elements.
IndexInv == \A r \in Readers : index[r] <= write

\* A sink is in a call of the ring buffer, or holds its result; what tryGetNew()
\* is about to return it has not returned before.
CallInv ==
  \A r \in Readers :
    /\ spc[r] \in SinkCalls <=> rpc[r] \notin {"idle", "reading"}
    /\ spc[r] = "holding" <=> rpc[r] = "reading"
    /\ spc[r] \in SinkCalls => req[r] = RequestOf(r, spc[r])
    /\ spc[r] \in {"tryGetNew", "getNew"} /\ rpc[r] \in {"lockLoad", "lockCas", "check"} => index[r] <= begin[r]

\* Who holds mutex_, and who is in suspended_.
MutexInv ==
  /\ npc = "locked" <=> mutex = Source
  /\ \A r \in Readers : mutex = r <=> spc[r] \in {"waitCheck", "yielded"}
  /\ npc # "none" => wpc = "written"
  /\ \A r \in Readers : r \in suspended <=> spc[r] = "asleep"

\* A coroutine that does not run is at a place where it was left.
ParkInv == \A c \in Coroutines : ~Runs(c) => Suspends(c)

IoInv == IoTypeOK /\ SizeInv /\ WriteBounded /\ IndexInv /\ CallInv /\ MutexInv /\ ParkInv

\* What a reader knows of read_, and that a ring of more than one slot is not
\* empty any more once it has been written.
ReadInv ==
  /\ \A r \in Readers : rpc[r] = "loadEnd" => begin[r] <= read
  /\ Capacity > 1 /\ write > 0 => read < write

\* A sink beside the source that has found nothing is up to date, it never yields,
\* and nobody goes to sleep between the notification and the publication.
LocalInv ==
  \A r \in Readers : Local(r) =>
    /\ spc[r] \in {"waitLock", "waitCheck", "asleep"} => write <= index[r]
    /\ spc[r] # "yielded"
    /\ spc[r] = "asleep" => npc # "done" /\ wpc # "publish"
    /\ spc[r] = "ready" => write > index[r] \/ npc = "done" \/ wpc = "publish"
-----------------------------------------------------------------------------
(***************************************************************************)
(* The ring buffer: each step is one of RingBuffer or leaves it alone.     *)
(***************************************************************************)
\* The calls of the sinks are calls of the ring buffer.
LEMMA RequestsMade ==
  ASSUME IoInv, NEW r \in Readers, NEW call
  PROVE  RequestOf(r, call) \in Requests
  <1>1. index[r] \in 0 .. MaxWrites /\ 0 \in 0 .. MaxWrites
    BY MaxWritesAssumption DEF IoInv, IoTypeOK, TypeOK, IndexInv, WriteBounded
  <1> QED BY <1>1, SinkRequestsAssumption DEF RequestOf

\* Every step of the buffer is a step of its ring buffer or leaves it alone.
LEMMA RingStep ==
  ASSUME IoInv, [IoNext]_allVars
  PROVE  [Next]_vars
  <1>1. CASE SourceSet \/ SourceStep
    BY <1>1 DEF SourceSet, SourceStep, SourceWrite, NotifyLock, NotifyScan, SourceUnlock, SourcePublish,
                Next, WriterFinish
  <1>2. ASSUME NEW r \in Readers, NEW call \in SinkCalls, SinkCall(r, call) PROVE [Next]_vars
    BY <1>2, RequestsMade DEF SinkCall, Next
  <1>3. ASSUME NEW r \in Readers, SinkStep(r) PROVE [Next]_vars
    <2>1. CASE WaitReturn(r)
      BY <2>1, RequestsMade DEF WaitReturn, Next
    <2>2. CASE SinkAcquire(r) \/ SinkLoadEnd(r) \/ SinkCheck(r) \/ SinkRelease(r)
      BY <2>2 DEF SinkAcquire, SinkLoadEnd, SinkCheck, SinkRelease, Next, ReaderStep
    <2>3. CASE WaitLock(r) \/ WaitSuspend(r) \/ WaitYield(r)
      BY <2>3 DEF WaitLock, WaitSuspend, WaitYield
    <2> QED BY <1>3, <2>1, <2>2, <2>3 DEF SinkStep
  <1>4. ASSUME NEW r \in Readers, WaitCancel(r) PROVE [Next]_vars
    BY <1>4 DEF WaitCancel
  <1>5. ASSUME NEW c \in Coroutines, Resume(c) PROVE [Next]_vars
    BY <1>5 DEF Resume
  <1>6. CASE UNCHANGED allVars
    BY <1>6 DEF allVars
  <1> QED BY <1>1, <1>2, <1>3, <1>4, <1>5, <1>6 DEF IoNext

\* The steps, one by one.
LEMMA IoSteps ==
  ASSUME [IoNext]_allVars
  PROVE  \/ SourceSet \/ SourceWrite \/ NotifyLock \/ NotifyScan \/ SourceUnlock \/ SourcePublish
         \/ \E r \in Readers : \/ \E call \in SinkCalls : SinkCall(r, call)
                               \/ SinkAcquire(r) \/ SinkLoadEnd(r) \/ SinkCheck(r) \/ SinkRelease(r)
                               \/ WaitLock(r) \/ WaitSuspend(r) \/ WaitYield(r) \/ WaitReturn(r) \/ WaitCancel(r)
         \/ \E c \in Coroutines : Resume(c)
         \/ UNCHANGED allVars
  BY DEF IoNext, SourceStep, SinkStep

\* The steps of the sinks in the ring buffer leave write_ and read_ alone, and
\* those of the source leave the sinks alone.
LEMMA RingVars ==
  /\ WriterLock \/ WriterDropOldest \/ WriterStore \/ WriterUnlock \/ WriterPublish
       => UNCHANGED <<rpc, req, begin, end>>
  /\ \A r \in Readers : ReaderStep(r) \/ (\E q \in Requests : ReaderCall(r, q)) => UNCHANGED <<write, read, wpc>>
  BY DEF readerVars, WriterLock, WriterDropOldest, WriterStore, WriterUnlock, WriterPublish, ReaderStep,
         ReaderCall, ReaderLoadBegin, ReaderLoadEnd, ReaderLockLoad, ReaderLockCas, ReaderCheck,
         ReaderOutdated, ReaderRelease

\* Every step keeps the types.
LEMMA TypesKept ==
  ASSUME IoInv, [IoNext]_allVars
  PROVE  IoTypeOK'
  <1>1. TypeOK' /\ TypeOK
    BY RingStep, TypeInductive DEF IoInv, IoTypeOK
  <1> DEFINE Rest == /\ mutex \in Coroutines \cup {NoOne}
                     /\ suspended \subseteq Readers
                     /\ index \in [Readers -> Nat]
                     /\ spc \in [Readers -> SinkCalls \cup {"idle", "holding", "waitLock", "waitCheck",
                                                            "asleep", "ready", "yielded"}]
                     /\ npc \in {"none", "locked", "done"}
                     /\ running \in [Cores -> Coroutines]
  <1>2. Rest /\ Readers \subseteq Coroutines /\ Source \in Coroutines
    BY DEF Coroutines, IoInv, IoTypeOK
  <1>3. begin \in [Readers -> Nat]
    BY <1>1 DEF TypeOK
  <1>4. ASSUME UNCHANGED ioVars PROVE Rest'
    BY <1>2, <1>4 DEF ioVars
  <1>5. ASSUME NotifyLock \/ NotifyScan \/ SourceUnlock PROVE Rest'
    <2>1. CASE NotifyLock
      BY <1>2, <2>1 DEF NotifyLock
    <2>2. CASE NotifyScan
      BY <1>2, <2>2 DEF NotifyScan
    <2>3. CASE SourceUnlock
      BY <1>2, <2>3 DEF SourceUnlock
    <2> QED BY <1>5, <2>1, <2>2, <2>3
  <1>6. ASSUME NEW r \in Readers,
               (\E call \in SinkCalls : SinkCall(r, call)) \/ SinkAcquire(r) \/ SinkLoadEnd(r) \/ SinkRelease(r)
        PROVE  Rest'
    BY <1>2, <1>6 DEF SinkCall, SinkAcquire, SinkLoadEnd, SinkRelease, ioVars
  <1>7. ASSUME NEW r \in Readers, SinkCheck(r) PROVE Rest'
    BY <1>2, <1>3, <1>7 DEF SinkCheck
  <1>8. ASSUME NEW r \in Readers, WaitLock(r) \/ WaitSuspend(r) \/ WaitYield(r) \/ WaitReturn(r) \/ WaitCancel(r)
        PROVE  Rest'
    BY <1>2, <1>8 DEF WaitLock, WaitSuspend, WaitYield, WaitReturn, WaitCancel, SinkCalls
  <1>9. ASSUME NEW c \in Coroutines, Resume(c) PROVE Rest'
    BY <1>2, <1>9 DEF Resume, Cores
  <1>10. Rest'
    BY <1>4, <1>5, <1>6, <1>7, <1>8, <1>9, IoSteps
       DEF SourceSet, SourceWrite, SourcePublish, allVars
  <1> QED BY <1>1, <1>10 DEF IoTypeOK
-----------------------------------------------------------------------------
(***************************************************************************)
(* The invariant, part by part.                                            *)
(***************************************************************************)
\* What each step does to the indexes of the ring.
LEMMA WriteStep ==
  ASSUME IoInv, [IoNext]_allVars
  PROVE  /\ WriteBounded'
         /\ write' = write \/ write' = write + 1
         /\ \A r \in Readers : begin[r] < write => begin[r] < write'
  <1> USE DEF IoInv, WriteBounded, IoTypeOK, TypeOK
  <1>1. [Next]_vars
    BY RingStep
  <1>2. CASE UNCHANGED <<write, wpc>>
    BY <1>2
  <1>3. CASE WriterLock \/ WriterFinish
    BY <1>3, MaxWritesAssumption
       DEF WriterLock, WriterFinish, WriterDropOldest, WriterStore, WriterUnlock, WriterPublish
  <1>4. UNCHANGED <<write, wpc>> \/ WriterLock \/ WriterFinish
    BY <1>1, RingVars DEF Next, vars
  <1> QED BY <1>2, <1>3, <1>4

\* Every step keeps the index of a sink behind what was written.
LEMMA IndexKept ==
  ASSUME IoInv, [IoNext]_allVars
  PROVE  IndexInv'
  <1> USE DEF IoInv, IndexInv, IoTypeOK, TypeOK
  <1>1. CASE UNCHANGED index
    BY <1>1, WriteStep
  <1>2. ASSUME NEW r \in Readers, SinkCheck(r) PROVE IndexInv'
    <2>1. begin[r] + 1 <= write /\ write' = write
      BY <1>2 DEF SinkCheck, ReaderCheck, SizeInv, RangeKnown
    <2> QED BY <1>2, <2>1 DEF SinkCheck
  <1> QED BY <1>1, <1>2, IoSteps
          DEF SourceSet, SourceWrite, NotifyLock, NotifyScan, SourceUnlock, SourcePublish, SinkCall,
              SinkAcquire, SinkLoadEnd, SinkRelease, WaitLock, WaitSuspend, WaitYield, WaitReturn,
              WaitCancel, Resume, allVars, ioVars

\* The steps that touch neither the sinks nor what they have read.
LEMMA SinksAlone ==
  ASSUME [IoNext]_allVars
  PROVE  \/ UNCHANGED <<spc, rpc, req, begin, index>>
         \/ NotifyScan
         \/ \E r \in Readers : \/ \E call \in SinkCalls : SinkCall(r, call)
                               \/ SinkAcquire(r) \/ SinkLoadEnd(r) \/ SinkCheck(r) \/ SinkRelease(r)
                               \/ WaitLock(r) \/ WaitSuspend(r) \/ WaitYield(r) \/ WaitReturn(r) \/ WaitCancel(r)
  BY IoSteps, RingVars
     DEF SourceSet, SourceWrite, NotifyLock, SourceUnlock, SourcePublish, Resume, allVars, ioVars, vars

\* Every step keeps what a call in progress says of its reader.
LEMMA CallKept ==
  ASSUME IoInv, [IoNext]_allVars
  PROVE  CallInv'
  <1>0. /\ CallInv
        /\ rpc \in [Readers -> {"idle", "loadBegin", "loadEnd", "lockLoad", "lockCas", "check", "outdated", "reading"}]
        /\ spc \in [Readers -> SinkCalls \cup {"idle", "holding", "waitLock", "waitCheck", "asleep", "ready", "yielded"}]
        /\ req \in [Readers -> Requests] /\ begin \in [Readers -> Nat] /\ index \in [Readers -> Nat] /\ write \in Nat
    BY DEF IoInv, IoTypeOK, TypeOK
  <1> USE DEF CallInv, SinkCalls
  <1>1. CASE UNCHANGED <<spc, rpc, req, begin, index>>
    BY <1>0, <1>1 DEF RequestOf
  <1>2. CASE NotifyScan
    <2>1. \A q \in Readers : spc'[q] = spc[q] \/ (spc[q] = "asleep" /\ spc'[q] = "ready")
      BY <1>2 DEF NotifyScan, IoInv, MutexInv
    <2> QED BY <1>0, <1>2, <2>1 DEF NotifyScan, vars, RequestOf
  <1>3. ASSUME NEW r \in Readers, NEW call \in SinkCalls, SinkCall(r, call) PROVE CallInv'
    BY <1>0, <1>3 DEF SinkCall, ReaderCall, RequestOf
  <1>4. ASSUME NEW r \in Readers, SinkAcquire(r) PROVE CallInv'
    <2>1. CASE ReaderLoadBegin(r)
      BY <1>0, <1>4, <2>1 DEF SinkAcquire, ioVars, ReaderLoadBegin, RequestOf
    <2>2. CASE ReaderLockLoad(r)
      BY <1>0, <1>4, <2>2 DEF SinkAcquire, ioVars, ReaderLockLoad, RequestOf
    <2>3. CASE ReaderLockCas(r)
      BY <1>0, <1>4, <2>3 DEF SinkAcquire, ioVars, ReaderLockCas, RequestOf
    <2>4. CASE ReaderOutdated(r)
      BY <1>0, <1>4, <2>4 DEF SinkAcquire, ioVars, ReaderOutdated, RequestOf
    <2> QED BY <1>4, <2>1, <2>2, <2>3, <2>4 DEF SinkAcquire
  <1>5. ASSUME NEW r \in Readers, SinkLoadEnd(r) PROVE CallInv'
    <2>1. CASE Accepts(req[r], begin[r], write)
      <3>1. /\ begin' = [begin EXCEPT ![r] = RangeBegin(req[r], begin[r], write)]
            /\ rpc[r] = "loadEnd" /\ rpc' = [rpc EXCEPT ![r] = "lockLoad"] /\ spc' = spc
            /\ req' = req /\ index' = index
        BY <1>0, <1>5, <2>1 DEF SinkLoadEnd, ReaderLoadEnd
      <3>2. spc[r] \in {"tryGetNew", "getNew"} => index[r] <= begin'[r]
        BY <1>0, <2>1, <3>1 DEF RequestOf, Accepts, RangeBegin
      <3> QED BY <1>0, <3>1, <3>2 DEF RequestOf
    <2>2. CASE ~Accepts(req[r], begin[r], write)
      <3>1. /\ rpc[r] = "loadEnd" /\ rpc' = [rpc EXCEPT ![r] = "idle"]
            /\ spc' = [spc EXCEPT ![r] = IF @ = "getNew" THEN "waitLock" ELSE "idle"]
            /\ req' = req /\ index' = index /\ begin' = begin
        BY <1>0, <1>5, <2>2 DEF SinkLoadEnd, ReaderLoadEnd
      <3> QED BY <1>0, <3>1 DEF RequestOf
    <2> QED BY <2>1, <2>2
  <1>6. ASSUME NEW r \in Readers, SinkCheck(r) PROVE CallInv'
    BY <1>0, <1>6 DEF SinkCheck, ReaderCheck, RequestOf
  <1>7. ASSUME NEW r \in Readers, SinkRelease(r) PROVE CallInv'
    BY <1>0, <1>7 DEF SinkRelease, ReaderRelease, RequestOf
  <1>8. ASSUME NEW r \in Readers, WaitLock(r) \/ WaitSuspend(r) \/ WaitYield(r) \/ WaitCancel(r) PROVE CallInv'
    BY <1>0, <1>8 DEF WaitLock, WaitSuspend, WaitYield, WaitCancel, vars, RequestOf
  <1>9. ASSUME NEW r \in Readers, WaitReturn(r) PROVE CallInv'
    BY <1>0, <1>9 DEF WaitReturn, ReaderCall, RequestOf
  <1> QED BY <1>1, <1>2, <1>3, <1>4, <1>5, <1>6, <1>7, <1>8, <1>9, SinksAlone

\* Every step keeps the holder of the mutex the only one inside.
LEMMA MutexKept ==
  ASSUME IoInv, [IoNext]_allVars
  PROVE  MutexInv'
  <1>0. /\ MutexInv /\ CallInv /\ Source \notin Readers /\ Source # NoOne /\ NoOne \notin Readers
        /\ rpc \in [Readers -> {"idle", "loadBegin", "loadEnd", "lockLoad", "lockCas", "check", "outdated", "reading"}]
        /\ spc \in [Readers -> SinkCalls \cup {"idle", "holding", "waitLock", "waitCheck", "asleep", "ready", "yielded"}]
    BY SourceAssumption DEF IoInv, IoTypeOK, TypeOK
  <1> USE DEF MutexInv
  <1>1. CASE SourceSet
    BY <1>0, <1>1 DEF SourceSet, ioVars, WriterLock
  <1>2. CASE SourceWrite
    BY <1>0, <1>2 DEF SourceWrite, ioVars, WriterDropOldest, WriterStore
  <1>3. CASE NotifyLock
    BY <1>0, <1>3 DEF NotifyLock, vars
  <1>4. CASE NotifyScan
    BY <1>0, <1>4 DEF NotifyScan, vars
  <1>5. CASE SourceUnlock
    BY <1>0, <1>5 DEF SourceUnlock
  <1>6. CASE SourcePublish
    BY <1>0, <1>6 DEF SourcePublish, ioVars, WriterPublish
  <1>7. ASSUME NEW r \in Readers, NEW call \in SinkCalls, SinkCall(r, call) PROVE MutexInv'
    BY <1>0, <1>7 DEF SinkCall, ReaderCall, SinkCalls
  <1>8. ASSUME NEW r \in Readers, SinkAcquire(r) PROVE MutexInv'
    BY <1>0, <1>8, RingVars DEF SinkAcquire, ioVars, ReaderStep
  <1>9. ASSUME NEW r \in Readers, SinkLoadEnd(r) \/ SinkCheck(r) \/ SinkRelease(r) PROVE MutexInv'
    <2>1. /\ spc[r] \in SinkCalls \cup {"holding"} /\ wpc' = wpc
          /\ \E p \in SinkCalls \cup {"holding", "waitLock", "idle"} : spc' = [spc EXCEPT ![r] = p]
          /\ UNCHANGED <<mutex, suspended, npc>>
      <3>1. CASE SinkLoadEnd(r)
        <4>1. spc[r] \in SinkCalls
          BY <1>0, <3>1 DEF SinkLoadEnd, ReaderLoadEnd, CallInv
        <4>2. spc' = [spc EXCEPT ![r] = spc[r]] \/ spc' = [spc EXCEPT ![r] = "waitLock"] \/ spc' = [spc EXCEPT ![r] = "idle"]
          BY <1>0, <3>1 DEF SinkLoadEnd
        <4> QED BY <3>1, <4>1, <4>2, RingVars DEF SinkLoadEnd, ReaderStep
      <3>2. CASE SinkCheck(r)
        <4>1. spc[r] \in SinkCalls
          BY <1>0, <3>2 DEF SinkCheck, ReaderCheck, CallInv
        <4>2. spc' = [spc EXCEPT ![r] = spc[r]] \/ spc' = [spc EXCEPT ![r] = "holding"]
          BY <1>0, <3>2 DEF SinkCheck
        <4> QED BY <3>2, <4>1, <4>2, RingVars DEF SinkCheck, ReaderStep
      <3>3. CASE SinkRelease(r)
        <4>1. spc[r] = "holding"
          BY <1>0, <3>3 DEF SinkRelease, ReaderRelease, CallInv
        <4> QED BY <3>3, <4>1, RingVars DEF SinkRelease, ReaderStep
      <3> QED BY <1>9, <3>1, <3>2, <3>3
    <2> QED BY <1>0, <2>1 DEF SinkCalls
  <1>10. ASSUME NEW r \in Readers, WaitLock(r) PROVE MutexInv'
    BY <1>0, <1>10 DEF WaitLock, vars
  <1>11. ASSUME NEW r \in Readers, WaitSuspend(r) PROVE MutexInv'
    BY <1>0, <1>11 DEF WaitSuspend, vars
  <1>12. ASSUME NEW r \in Readers, WaitYield(r) PROVE MutexInv'
    BY <1>0, <1>12 DEF WaitYield, vars
  <1>13. ASSUME NEW r \in Readers, WaitReturn(r) PROVE MutexInv'
    <2>1. wpc' = wpc /\ spc' = [spc EXCEPT ![r] = "getNew"] /\ UNCHANGED <<suspended, npc>>
      BY <1>13 DEF WaitReturn, ReaderCall
    <2>2. CASE spc[r] = "yielded"
      BY <1>0, <1>13, <2>1, <2>2 DEF WaitReturn
    <2>3. CASE spc[r] = "ready"
      BY <1>0, <1>13, <2>1, <2>3 DEF WaitReturn
    <2> QED BY <1>13, <2>2, <2>3 DEF WaitReturn
  <1>14. ASSUME NEW r \in Readers, WaitCancel(r) PROVE MutexInv'
    BY <1>0, <1>14 DEF WaitCancel, vars
  <1>15. CASE UNCHANGED allVars \/ \E c \in Coroutines : Resume(c)
    BY <1>0, <1>15 DEF allVars, ioVars, vars, Resume
  <1> QED BY <1>1, <1>2, <1>3, <1>4, <1>5, <1>6, <1>7, <1>8, <1>9, <1>10, <1>11, <1>12, <1>13, <1>14, <1>15, IoSteps

\* A step of a coroutine needs its core; the other coroutines stay where they are.
LEMMA ParkKept ==
  ASSUME IoInv, [IoNext]_allVars
  PROVE  ParkInv'
  <1>0. /\ ParkInv /\ MutexInv /\ Source \notin Readers /\ Coroutines = {Source} \cup Readers
        /\ running \in [Cores -> Coroutines] /\ \A c \in Coroutines : CoreOf[c] \in Cores
        /\ spc \in [Readers -> SinkCalls \cup {"idle", "holding", "waitLock", "waitCheck", "asleep", "ready", "yielded"}]
    BY SourceAssumption DEF IoInv, IoTypeOK, Coroutines, Cores
  <1>1. ASSUME running' = running, Runs(Source), spc' = spc PROVE ParkInv'
    BY <1>0, <1>1 DEF ParkInv, Runs, Suspends
  <1>2. ASSUME NEW r \in Readers, running' = running, Runs(r), wpc' = wpc,
               \A q \in Readers : q # r => spc'[q] = spc[q]
        PROVE  ParkInv'
    BY <1>0, <1>2 DEF ParkInv, Runs, Suspends
  <1>3. CASE SourceSet \/ SourceWrite \/ NotifyLock \/ SourceUnlock \/ SourcePublish
    BY <1>1, <1>3 DEF SourceSet, SourceWrite, NotifyLock, SourceUnlock, SourcePublish, ioVars
  <1>4. CASE NotifyScan
    <2>1. \A q \in Readers : spc'[q] = spc[q] \/ (spc[q] = "asleep" /\ spc'[q] = "ready")
      BY <1>0, <1>4 DEF NotifyScan, MutexInv
    <2> QED BY <1>0, <1>4, <2>1 DEF NotifyScan, vars, ParkInv, Runs, Suspends
  <1>5. ASSUME NEW r \in Readers, NEW call \in SinkCalls, SinkCall(r, call) PROVE ParkInv'
    BY <1>0, <1>2, <1>5 DEF SinkCall, ReaderCall
  <1>6. ASSUME NEW r \in Readers, SinkAcquire(r) \/ SinkLoadEnd(r) \/ SinkCheck(r) \/ SinkRelease(r) PROVE ParkInv'
    <2>1. Runs(r) /\ running' = running /\ ReaderStep(r)
      BY <1>6 DEF SinkAcquire, SinkLoadEnd, SinkCheck, SinkRelease, ioVars, ReaderStep
    <2>2. wpc' = wpc
      BY <2>1, RingVars
    <2>3. \A q \in Readers : q # r => spc'[q] = spc[q]
      BY <1>0, <1>6 DEF SinkAcquire, SinkLoadEnd, SinkCheck, SinkRelease, ioVars
    <2> QED BY <1>2, <2>1, <2>2, <2>3
  <1>7. ASSUME NEW r \in Readers, WaitLock(r) \/ WaitSuspend(r) \/ WaitYield(r) PROVE ParkInv'
    BY <1>0, <1>2, <1>7 DEF WaitLock, WaitSuspend, WaitYield, vars
  <1>8. ASSUME NEW r \in Readers, WaitReturn(r) PROVE ParkInv'
    BY <1>0, <1>2, <1>8 DEF WaitReturn, ReaderCall
  <1>9. ASSUME NEW r \in Readers, WaitCancel(r) PROVE ParkInv'
    BY <1>0, <1>9 DEF WaitCancel, vars, ParkInv, Runs, Suspends
  <1>10. ASSUME NEW c \in Coroutines, Resume(c) PROVE ParkInv'
    <2>1. /\ running' = [running EXCEPT ![CoreOf[c]] = c] /\ Suspends(running[CoreOf[c]])
          /\ UNCHANGED <<wpc, spc>>
      BY <1>10 DEF Resume, vars
    <2>2. \A d \in Coroutines : Suspends(d)' <=> Suspends(d)
      BY <2>1 DEF Suspends
    <2>3. ASSUME NEW d \in Coroutines, ~Runs(d)' PROVE Suspends(d)
      BY <1>0, <2>1, <2>3 DEF Runs, ParkInv
    <2> QED BY <2>2, <2>3 DEF ParkInv
  <1>11. CASE UNCHANGED allVars
    BY <1>0, <1>11 DEF allVars, ioVars, vars, ParkInv, Runs, Suspends
  <1> QED BY <1>3, <1>4, <1>5, <1>6, <1>7, <1>8, <1>9, <1>10, <1>11, IoSteps

\* The inductive invariant.
LEMMA IoInvariance == IoSpec => []IoInv
  <1>1. IoInit => IoInv
    <2> SUFFICES ASSUME IoInit PROVE IoInv
      OBVIOUS
    <2>1. Init
      BY DEF IoInit
    <2>2. TypeOK
      BY <2>1, CapacityAssumption, RequestsAssumption, WordType DEF Init, TypeOK, NoElement, Word
    <2>3. SizeInv
      BY <2>1, CapacityAssumption DEF Init, SizeInv, SizeBounded, RangeKnown, ResultFits
    <2>4. IoTypeOK
      BY <2>2 DEF IoInit, IoTypeOK
    <2>5. WriteBounded /\ IndexInv /\ CallInv
      BY <2>1, MaxWritesAssumption DEF IoInit, Init, WriteBounded, IndexInv, CallInv, SinkCalls
    <2>6. MutexInv
      BY <2>1, SourceAssumption DEF IoInit, Init, MutexInv
    <2>7. ParkInv
      BY <2>1 DEF IoInit, Init, ParkInv, Suspends, Coroutines
    <2> QED BY <2>3, <2>4, <2>5, <2>6, <2>7 DEF IoInv
  <1>2. IoInv /\ [IoNext]_allVars => IoInv'
    <2> SUFFICES ASSUME IoInv, [IoNext]_allVars PROVE IoInv'
      OBVIOUS
    <2>1. IoTypeOK' /\ WriteBounded' /\ IndexInv' /\ CallInv' /\ MutexInv' /\ ParkInv'
      BY TypesKept, WriteStep, IndexKept, CallKept, MutexKept, ParkKept
    <2>2. SizeInv'
      BY <2>1, RingStep, SizeInvInductive DEF IoInv, IoTypeOK
    <2> QED BY <2>1, <2>2 DEF IoInv
  <1> QED BY <1>1, <1>2, PTL DEF IoSpec

\* The buffer, the source and the sinks keep their types, for every capacity and set of sinks.
THEOREM IoTypeCorrect == IoSpec => []IoTypeOK
  <1>1. IoInv => IoTypeOK
    BY DEF IoInv
  <1> QED BY <1>1, IoInvariance, PTL

\* The source and the sinks of a Buffer use its ring buffer as RingBuffer specifies it, whatever
\* notifications, cancellations and changes of coroutines come in between.
THEOREM ImplementsRing == IoSpec => Spec
  <1>1. IoInit => Init
    BY DEF IoInit
  <1>2. IoInv /\ [IoNext]_allVars => [Next]_vars
    BY RingStep
  <1> QED BY <1>1, <1>2, IoInvariance, PTL DEF IoSpec, Spec

\* Hence what tryGetNew(), tryGetNew(count), tryGetLast() and getNew() return is a published range that fits
\* in the ring and is described by its spans.
THEOREM SinkRangesAreExact == IoSpec => []RangesExact
  BY ImplementsRing, RangesAreExact, PTL

\* notifyNewData() passes over nobody: index_ of a sleeping sink never exceeds write_.
THEOREM NotifyWakes == IoSpec => NotifyWakesAll
  <1>1. IoInv /\ [IoNext]_allVars => [npc = "locked" /\ npc' = "done" => suspended' = {}]_allVars
    <2> SUFFICES ASSUME IoInv, [IoNext]_allVars, npc = "locked", npc' = "done" PROVE suspended' = {}
      OBVIOUS
    <2>1. NotifyScan
      BY IoSteps
         DEF SourceSet, SourceWrite, NotifyLock, SourceUnlock, SourcePublish, SinkCall, SinkAcquire,
             SinkLoadEnd, SinkCheck, SinkRelease, WaitLock, WaitSuspend, WaitYield, WaitReturn,
             WaitCancel, Resume, allVars, ioVars
    <2>2. \A r \in suspended : write >= index[r]
      BY DEF IoInv, IoTypeOK, TypeOK, IndexInv
    <2> QED BY <2>1, <2>2 DEF NotifyScan
  <1> QED BY <1>1, IoInvariance, PTL DEF IoSpec, NotifyWakesAll

\* Whatever tryGetNew() and getNew() return is newer than all they returned before.
THEOREM NewsAreNewer == IoSpec => NewIsNewer
  <1> DEFINE Newer == \A r \in Readers :
                        spc[r] \in {"tryGetNew", "getNew"} /\ spc'[r] = "holding" =>
                          index[r] <= begin[r] /\ index'[r] = begin[r] + 1
  <1>1. IoInv /\ [IoNext]_allVars => [Newer]_allVars
    <2> SUFFICES ASSUME IoInv, [IoNext]_allVars,
                        NEW r \in Readers, spc[r] \in {"tryGetNew", "getNew"}, spc'[r] = "holding"
                 PROVE  index[r] <= begin[r] /\ index'[r] = begin[r] + 1
      OBVIOUS
    <2>0. /\ spc \in [Readers -> SinkCalls \cup {"idle", "holding", "waitLock", "waitCheck", "asleep",
                                                 "ready", "yielded"}]
          /\ index \in [Readers -> Nat]
          /\ rpc \in [Readers -> {"idle", "loadBegin", "loadEnd", "lockLoad", "lockCas", "check", "outdated", "reading"}]
      BY DEF IoInv, IoTypeOK, TypeOK
    <2>1. SinkCheck(r)
      <3>1. spc'[r] # spc[r]
        OBVIOUS
      <3>2. ~NotifyScan /\ \A q \in Readers : ~SinkLoadEnd(q) /\ ~SinkCall(q, "getNew")
        BY <2>0, <3>1 DEF NotifyScan, SinkLoadEnd, SinkCall
      <3>3. \A q \in Readers : /\ \A call \in SinkCalls : ~SinkCall(q, call)
                               /\ ~SinkRelease(q) /\ ~WaitLock(q) /\ ~WaitSuspend(q) /\ ~WaitYield(q)
                               /\ ~WaitReturn(q) /\ ~WaitCancel(q)
        BY <2>0, <3>1 DEF SinkCall, SinkRelease, WaitLock, WaitSuspend, WaitYield, WaitReturn, WaitCancel,
                          SinkCalls
      <3>4. PICK q \in Readers : SinkCheck(q)
        BY <3>1, <3>2, <3>3, IoSteps
           DEF SourceSet, SourceWrite, NotifyLock, SourceUnlock, SourcePublish, SinkAcquire, Resume,
               allVars, ioVars
      <3> QED BY <2>0, <3>1, <3>4 DEF SinkCheck
    <2>2. rpc[r] = "check" /\ rpc'[r] = "reading"
      BY <2>0, <2>1 DEF SinkCheck, ReaderCheck
    <2> QED BY <2>0, <2>1, <2>2 DEF SinkCheck, IoInv, CallInv
  <1> QED BY <1>1, IoInvariance, PTL DEF IoSpec, NewIsNewer
-----------------------------------------------------------------------------
(***************************************************************************)
(* The sinks beside the source.  The source does not suspend between its   *)
(* notification and the publication of the element, so a sink of its core  *)
(* runs before both or after both.  That it then finds an element needs a  *)
(* ring of more than one slot: with a single one, trySet() leaves nothing  *)
(* to read while the element is being written.                             *)
(***************************************************************************)
LEMMA ReadKept ==
  ASSUME IoInv, ReadInv, [IoNext]_allVars
  PROVE  ReadInv'
  <1>0. /\ write \in Nat /\ read \in Nat /\ begin \in [Readers -> Nat] /\ Capacity \in Nat \ {0}
        /\ rpc \in [Readers -> {"idle", "loadBegin", "loadEnd", "lockLoad", "lockCas", "check", "outdated", "reading"}]
        /\ read <= write
    BY CapacityAssumption DEF IoInv, IoTypeOK, TypeOK, SizeInv, SizeBounded
  <1> USE DEF ReadInv
  <1>1. [Next]_vars
    BY RingStep
  <1>2. CASE WriterDropOldest
    BY <1>0, <1>2 DEF WriterDropOldest, readerVars
  <1>3. CASE WriterPublish
    BY <1>0, <1>3 DEF WriterPublish, readerVars
  <1>4. CASE WriterLock \/ WriterStore \/ WriterUnlock \/ UNCHANGED vars
    BY <1>4 DEF WriterLock, WriterStore, WriterUnlock, readerVars, vars
  <1>5. ASSUME NEW r \in Readers, NEW q \in Requests, ReaderCall(r, q) PROVE ReadInv'
    BY <1>0, <1>5 DEF ReaderCall
  <1>6. ASSUME NEW r \in Readers, ReaderLoadBegin(r) PROVE ReadInv'
    BY <1>0, <1>6 DEF ReaderLoadBegin
  <1>7. ASSUME NEW r \in Readers, ReaderLoadEnd(r) PROVE ReadInv'
    BY <1>0, <1>7 DEF ReaderLoadEnd
  <1>8. ASSUME NEW r \in Readers, ReaderLockLoad(r) \/ ReaderCheck(r) \/ ReaderOutdated(r) \/ ReaderRelease(r)
        PROVE  ReadInv'
    BY <1>0, <1>8 DEF ReaderLockLoad, ReaderCheck, ReaderOutdated, ReaderRelease
  <1>9. ASSUME NEW r \in Readers, ReaderLockCas(r) PROVE ReadInv'
    BY <1>0, <1>9 DEF ReaderLockCas
  <1> QED BY <1>1, <1>2, <1>3, <1>4, <1>5, <1>6, <1>7, <1>8, <1>9 DEF Next, WriterFinish, ReaderStep

\* getNew() finds nothing only when there is nothing that it has not returned yet.
LEMMA EmptyIsUpToDate ==
  ASSUME Capacity > 1, IoInv, ReadInv, NEW r \in Readers, spc[r] = "getNew", rpc[r] = "loadEnd",
         ~Accepts(req[r], begin[r], write)
  PROVE  write <= index[r]
  <1>1. write \in Nat /\ read \in Nat /\ begin[r] \in Nat /\ index[r] \in Nat
    BY DEF IoInv, IoTypeOK, TypeOK
  <1>2. req[r] = [op |-> "last", start |-> index[r], count |-> 0]
    BY DEF IoInv, CallInv, RequestOf, SinkCalls
  <1>3. ~(write > begin[r] /\ write - 1 >= index[r])
    BY <1>2 DEF Accepts
  <1>4. begin[r] <= read /\ (write > 0 => read < write)
    BY DEF ReadInv
  <1> QED BY <1>1, <1>3, <1>4

\* A sink beside the source and the source do not run at the same time.
LEMMA OneRuns ==
  ASSUME IoInv, NEW r \in Readers, Local(r), Runs(r)
  PROVE  ~Runs(Source) /\ wpc \in {"idle", "writing"} /\ npc = "none"
  <1>1. ~Runs(Source)
    BY SourceAssumption DEF Local, Runs
  <1>2. Suspends(Source)
    BY <1>1 DEF IoInv, ParkInv, Coroutines
  <1> QED BY <1>1, <1>2 DEF Suspends, IoInv, MutexInv, IoTypeOK

\* Every step keeps what is known of the sink on the core of the source.
LEMMA LocalKept ==
  ASSUME Capacity > 1, IoInv, ReadInv, LocalInv, [IoNext]_allVars
  PROVE  LocalInv'
  <1>0. /\ write \in Nat /\ index \in [Readers -> Nat] /\ suspended \subseteq Readers
        /\ spc \in [Readers -> SinkCalls \cup {"idle", "holding", "waitLock", "waitCheck", "asleep", "ready", "yielded"}]
        /\ IndexInv /\ MutexInv /\ CallInv /\ npc \in {"none", "locked", "done"}
    BY DEF IoInv, IoTypeOK, TypeOK
  <1> USE DEF LocalInv, Local
  <1>1. CASE SourceSet \/ SourceWrite \/ NotifyLock
    <2>1. UNCHANGED <<write, index, spc>> /\ (npc' = "done" => npc = "done") /\ (wpc' = "publish" => wpc = "publish")
          /\ (npc = "done" => npc' = "done") /\ wpc # "publish"
      BY <1>1 DEF SourceSet, SourceWrite, NotifyLock, ioVars, vars, WriterLock, WriterDropOldest, WriterStore
    <2> QED BY <1>0, <2>1
  <1>2. CASE NotifyScan
    <2>1. \A r \in Readers : r \in suspended => write >= index[r]
      BY <1>0 DEF IndexInv
    <2>2. \A r \in Readers : IF spc[r] = "asleep" THEN spc'[r] = "ready" ELSE spc'[r] = spc[r]
      BY <1>0, <1>2, <2>1 DEF NotifyScan, MutexInv
    <2>3. npc' = "done" /\ UNCHANGED <<write, index>>
      BY <1>2 DEF NotifyScan, vars
    <2> QED BY <1>0, <2>2, <2>3
  <1>3. CASE SourceUnlock
    <2>1. npc = "done" /\ npc' = "none" /\ wpc' = "publish" /\ UNCHANGED <<write, index, spc>>
      BY <1>3 DEF SourceUnlock, WriterUnlock
    <2> QED BY <1>0, <2>1
  <1>4. CASE SourcePublish
    <2>1. wpc = "publish" /\ wpc' = "idle" /\ write' = write + 1 /\ UNCHANGED <<index, spc, npc>>
      BY <1>4 DEF SourcePublish, WriterPublish, ioVars
    <2>2. \A r \in Readers : Local(r) => spc[r] \notin {"waitLock", "waitCheck", "asleep"}
      <3> SUFFICES ASSUME NEW r \in Readers, Local(r), spc[r] \in {"waitLock", "waitCheck"} PROVE FALSE
        BY <2>1
      <3>1. Runs(r)
        BY SourceAssumption DEF IoInv, ParkInv, Suspends, Coroutines
      <3> QED BY <2>1, <3>1, OneRuns
    <2>3. \A r \in Readers : index[r] <= write /\ index[r] \in Nat
      BY <1>0 DEF IndexInv
    <2> QED BY <1>0, <2>1, <2>2, <2>3
  <1>5. ASSUME NEW r \in Readers, NEW call \in SinkCalls, SinkCall(r, call) PROVE LocalInv'
    BY <1>0, <1>5 DEF SinkCall, ReaderCall, SinkCalls
  <1>6. ASSUME NEW r \in Readers, SinkAcquire(r) PROVE LocalInv'
    BY <1>0, <1>6, RingVars DEF SinkAcquire, ioVars, ReaderStep
  <1>7. ASSUME NEW r \in Readers, SinkLoadEnd(r) PROVE LocalInv'
    <2>1. UNCHANGED <<write, wpc, index, npc>>
      BY <1>7 DEF SinkLoadEnd, ReaderLoadEnd
    <2>2. CASE spc' = [spc EXCEPT ![r] = "waitLock"] /\ spc[r] = "getNew" /\ rpc[r] = "loadEnd" /\ ~Accepts(req[r], begin[r], write)
      <3>1. write <= index[r]
        BY <2>2, EmptyIsUpToDate
      <3> QED BY <1>0, <2>1, <2>2, <3>1
    <2>3. CASE \A q \in Readers : spc'[q] = spc[q] \/ spc'[q] = "idle"
      BY <1>0, <2>1, <2>3
    <2>4. rpc[r] = "loadEnd" /\ rpc' = [rpc EXCEPT ![r] = IF Accepts(req[r], begin[r], write) THEN "lockLoad" ELSE "idle"]
      BY <1>7 DEF SinkLoadEnd, ReaderLoadEnd
    <2>5. rpc'[r] # "idle" \/ ~Accepts(req[r], begin[r], write)
      BY <2>4 DEF IoInv, IoTypeOK, TypeOK
    <2> QED BY <1>0, <1>7, <2>2, <2>3, <2>4, <2>5 DEF SinkLoadEnd
  <1>8. ASSUME NEW r \in Readers, SinkCheck(r) PROVE LocalInv'
    <2>1. UNCHANGED <<write, wpc, npc>> /\ spc[r] \in SinkCalls
      BY <1>0, <1>8 DEF SinkCheck, ReaderCheck, CallInv
    <2>2. spc'[r] = spc[r] \/ spc'[r] = "holding"
      BY <1>0, <1>8 DEF SinkCheck
    <2>3. \A q \in Readers : q # r => spc'[q] = spc[q] /\ index'[q] = index[q]
      BY <1>0, <1>8 DEF SinkCheck
    <2> QED BY <1>0, <2>1, <2>2, <2>3 DEF SinkCalls
  <1>9. ASSUME NEW r \in Readers, SinkRelease(r) PROVE LocalInv'
    BY <1>0, <1>9 DEF SinkRelease, ReaderRelease
  <1>10. ASSUME NEW r \in Readers, WaitLock(r) PROVE LocalInv'
    BY <1>0, <1>10 DEF WaitLock, vars
  <1>11. ASSUME NEW r \in Readers, WaitSuspend(r) PROVE LocalInv'
    <2>1. Local(r) => npc = "none" /\ wpc # "publish"
      BY <1>11, OneRuns DEF WaitSuspend
    <2> QED BY <1>0, <1>11, <2>1 DEF WaitSuspend, vars
  <1>12. ASSUME NEW r \in Readers, WaitYield(r) PROVE LocalInv'
    <2>1. ~Local(r)
      BY <1>0, <1>12 DEF WaitYield
    <2> QED BY <1>0, <1>12, <2>1 DEF WaitYield, vars
  <1>13. ASSUME NEW r \in Readers, WaitReturn(r) PROVE LocalInv'
    BY <1>0, <1>13 DEF WaitReturn, ReaderCall
  <1>14. ASSUME NEW r \in Readers, WaitCancel(r) PROVE LocalInv'
    BY <1>0, <1>14 DEF WaitCancel, vars
  <1>15. CASE UNCHANGED allVars \/ \E c \in Coroutines : Resume(c)
    BY <1>0, <1>15 DEF allVars, ioVars, vars, Resume
  <1> QED BY <1>1, <1>2, <1>3, <1>4, <1>5, <1>6, <1>7, <1>8, <1>9, <1>10, <1>11, <1>12, <1>13, <1>14, <1>15, IoSteps

\* What the invariants say of the places where a coroutine could be stuck.
LEMMA SafeThere ==
  ASSUME OneSinkPerOtherCore, IoInv, LocalInv
  PROVE  SinksSafe
  <1>0. /\ MutexInv /\ ParkInv /\ Source \notin Readers /\ NoOne \notin Readers
        /\ Coroutines = {Source} \cup Readers /\ mutex \in Coroutines \cup {NoOne}
    BY SourceAssumption DEF IoInv, IoTypeOK, Coroutines
  <1>1. NoSpinDeadlock
    <2> SUFFICES ASSUME NEW c \in Coroutines, Runs(c), mutex \notin {NoOne, c}, CoreOf[mutex] = CoreOf[c]
                 PROVE  FALSE
      BY DEF NoSpinDeadlock, Spins
    <2>1. ~Runs(mutex) /\ mutex \in Coroutines
      BY <1>0 DEF Runs
    <2>2. Suspends(mutex)
      BY <1>0, <2>1 DEF ParkInv
    <2>3. CASE mutex = Source
      BY <1>0, <2>2, <2>3 DEF MutexInv, Suspends
    <2>4. CASE mutex # Source
      <3>1. mutex \in Readers /\ spc[mutex] = "yielded"
        BY <1>0, <2>1, <2>2, <2>4 DEF MutexInv, Suspends
      <3>2. ~Local(mutex)
        BY <3>1 DEF LocalInv
      <3>3. c \in Readers
        BY <1>0, <3>2 DEF Local
      <3> QED BY <3>1, <3>2, <3>3 DEF OneSinkPerOtherCore
    <2> QED BY <2>3, <2>4
  <1>2. LocalSleepersUpToDate
    BY <1>0 DEF LocalSleepersUpToDate, LocalInv, Local, MutexInv, IoInv, IoTypeOK
  <1>3. LocalWokenFindsNew
    BY OneRuns DEF LocalWokenFindsNew, LocalInv, Local
  <1> QED BY <1>1, <1>2, <1>3 DEF SinksSafe

\* In a buffer of more than one slot, as long as two sinks only share a core when it is the one of the
\* source: no coroutine spins on mutex_ while its holder waits for the same core, and on the core of the source
\* no sink sleeps on data that is there and one that is woken finds something new (buffer.hh:36-76).
THEOREM SinksAreSafe == OneSinkPerOtherCore /\ Capacity > 1 /\ IoSpec => []SinksSafe
  <1> SUFFICES ASSUME OneSinkPerOtherCore, Capacity > 1 PROVE IoSpec => []SinksSafe
    OBVIOUS
  <1>1. IoInit => ReadInv /\ LocalInv
    BY DEF IoInit, Init, ReadInv, LocalInv
  <1>2. IoInv /\ ReadInv /\ LocalInv /\ [IoNext]_allVars => ReadInv' /\ LocalInv'
    BY ReadKept, LocalKept
  <1>3. IoInv /\ LocalInv => SinksSafe
    BY SafeThere
  <1> QED BY <1>1, <1>2, <1>3, IoInvariance, PTL DEF IoSpec
=============================================================================
