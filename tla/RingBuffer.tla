----------------------------- MODULE RingBuffer -----------------------------
(***************************************************************************)
(* The single-producer, multi-consumer ring buffer of                      *)
(* cc/bzd/container/threadsafe/ring_buffer.hh together with the            *)
(* SpinSharedMutex that protects each of its slots.                        *)
(*                                                                         *)
(* Every atomic operation of the code is one step: one writer runs         *)
(* nextForWriting() and later destroys its result, any number of readers   *)
(* run lastForReading(), firstForReading() or asSpansForReading() and      *)
(* later destroy theirs.  The operations are sequentially consistent, as   *)
(* read_ and write_ are in the code.  Indexes are Sizes that grow for ever *)
(* in the code; here they stop at MaxWrites.                               *)
(***************************************************************************)
EXTENDS Integers

CONSTANTS Capacity,   \* number of slots
          Readers,    \* threads that read
          LockValue,  \* the exclusive bit of a lock word, 2^31 in the code
          Requests,   \* the calls that the readers make
          MaxWrites   \* bound: how many elements are written

\* A call: "last" is lastForReading(start), "first" is firstForReading(start),
\* "spansFirst" and "spansLast" are asSpansForReading(count, first, start) with
\* first set or not.
Request == [op : {"last", "first", "spansFirst", "spansLast"}, start : Nat, count : Nat]

ASSUME CapacityAssumption == Capacity \in Nat \ {0}
ASSUME LockValueAssumption == LockValue \in Nat \ {0, 1}
ASSUME RequestsAssumption == Requests \subseteq Request /\ Requests # {}
ASSUME MaxWritesAssumption == MaxWrites \in Nat

VARIABLES
  write,    \* write_: index of the next element to write
  read,     \* read_: index of the oldest element that is still there
  locks,    \* locks_: the lock word of each slot
  storage,  \* storage_: the index of the element each slot was last filled with
  wpc,      \* where the writer is
  rpc,      \* where each reader is
  req,      \* the call each reader is in
  begin,    \* the local or result begin of each reader
  end,      \* the local or result end of each reader
  expected  \* the local expected of tryLockShared() of each reader

readerVars == <<rpc, req, begin, end, expected>>
vars == <<write, read, locks, storage, wpc, rpc, req, begin, end, expected>>

Slots == 0 .. Capacity - 1
Slot(i) == i % Capacity
NoElement == -1

\* The lock words: the low half counts the shared owners, the top bit is
\* the exclusive one.
Word == 0 .. 2 * LockValue - 1
IsExclusive(w) == w >= LockValue
SharedCount(w) == IF IsExclusive(w) THEN w - LockValue ELSE w
Increment(w) == IF w = 2 * LockValue - 1 THEN 0 ELSE w + 1
Decrement(w) == IF w = 0 THEN 2 * LockValue - 1 ELSE w - 1

Init ==
  /\ write = 0
  /\ read = 0
  /\ locks = [s \in Slots |-> 0]
  /\ storage = [s \in Slots |-> NoElement]
  /\ wpc = "idle"
  /\ rpc = [r \in Readers |-> "idle"]
  /\ req = [r \in Readers |-> CHOOSE q \in Requests : TRUE]
  /\ begin = [r \in Readers |-> 0]
  /\ end = [r \in Readers |-> 0]
  /\ expected = [r \in Readers |-> 0]
-----------------------------------------------------------------------------
(***************************************************************************)
(* The writer: nextForWriting(), then the destruction of its result.  Only *)
(* the writer changes write_ and read_, so that its own copies of them are *)
(* never stale.                                                            *)
(***************************************************************************)

\* Mutant: the lock only looks at the exclusive bit.
WriterLockIgnoringReaders ==
  /\ wpc = "idle"
  /\ write < MaxWrites
  /\ ~IsExclusive(locks[Slot(write)])
  /\ locks' = [locks EXCEPT ![Slot(write)] = LockValue]
  /\ wpc' = "locked"
  /\ UNCHANGED <<write, read, storage, readerVars>>

\* tryLock() on the slot of write_.  When the slot is owned, nextForWriting()
\* returns an empty result and nothing has changed.
WriterLock ==
  /\ wpc = "idle"
  /\ write < MaxWrites
  /\ locks[Slot(write)] = 0
  /\ locks' = [locks EXCEPT ![Slot(write)] = LockValue]
  /\ wpc' = "locked"
  /\ UNCHANGED <<write, read, storage, readerVars>>

\* Mutant: the comparison with the capacity is off by one.
WriterDropOldestLate ==
  /\ wpc = "locked"
  /\ read' = IF write - read > Capacity THEN read + 1 ELSE read
  /\ wpc' = "writing"
  /\ UNCHANGED <<write, locks, storage, readerVars>>

\* The written entry was a readable one: drop it from the readable ones.
WriterDropOldest ==
  /\ wpc = "locked"
  /\ read' = IF write - read >= Capacity THEN read + 1 ELSE read
  /\ wpc' = "writing"
  /\ UNCHANGED <<write, locks, storage, readerVars>>

\* The owner of the result assigns the element.
WriterStore ==
  /\ wpc = "writing"
  /\ storage' = [storage EXCEPT ![Slot(write)] = write]
  /\ wpc' = "written"
  /\ UNCHANGED <<write, read, locks, readerVars>>

\* Mutant: the exclusive lock is not given back.
WriterUnlockForgotten ==
  /\ wpc = "written"
  /\ wpc' = "publish"
  /\ UNCHANGED <<write, read, locks, storage, readerVars>>

\* ~RingBufferResult(): unlock() ...
WriterUnlock ==
  /\ wpc = "written"
  /\ locks' = [locks EXCEPT ![Slot(write)] = 0]
  /\ wpc' = "publish"
  /\ UNCHANGED <<write, read, storage, readerVars>>

\* ... and then ++(*counter_), which makes the element visible.
WriterPublish ==
  /\ wpc = "publish"
  /\ write' = write + 1
  /\ wpc' = "idle"
  /\ UNCHANGED <<read, locks, storage, readerVars>>

WriterFinish == WriterDropOldest \/ WriterStore \/ WriterUnlock \/ WriterPublish
-----------------------------------------------------------------------------
(***************************************************************************)
(* What the callables passed to tryAcquireLockForReading() make of the     *)
(* indexes [b, e) that were loaded: whether to go on and with which range. *)
(***************************************************************************)
From(q, b) == IF b > q.start THEN b ELSE q.start

\* Mutant: the newest element is accepted whatever start is.
AcceptsIgnoringStart(q, b, e) ==
  CASE q.op = "last"  -> e > b
    [] q.op = "first" -> e > From(q, b)
    [] OTHER          -> IF q.count > 0 THEN e >= From(q, b) + q.count ELSE e > From(q, b)

Accepts(q, b, e) ==
  CASE q.op = "last"  -> e > b /\ e - 1 >= q.start
    [] q.op = "first" -> e > From(q, b)
    [] OTHER          -> IF q.count > 0 THEN e >= From(q, b) + q.count ELSE e > From(q, b)

\* Mutant: the last elements start one too early.
RangeBeginEarly(q, b, e) ==
  CASE q.op = "last"                     -> e - 1
    [] q.op = "spansLast" /\ q.count > 0 -> e - q.count - 1
    [] OTHER                             -> From(q, b)

RangeBegin(q, b, e) ==
  CASE q.op = "last"                     -> e - 1
    [] q.op = "spansLast" /\ q.count > 0 -> e - q.count
    [] OTHER                             -> From(q, b)

RangeEnd(q, b, e) ==
  IF q.op = "spansFirst" /\ q.count > 0 THEN From(q, b) + q.count ELSE e

\* Mutant: a full ring, whose ends share a slot, is taken for one span.
FirstSpanEmpty(b, e) == IF Slot(e) >= Slot(b) THEN Slot(e) - Slot(b) ELSE Capacity - Slot(b)

\* makeSpans(): the sizes of the two spans, and the slot of the k-th element of
\* them.  The first one starts at the slot of b, the second one at slot 0.
FirstSpan(b, e) == IF Slot(e) > Slot(b) THEN Slot(e) - Slot(b) ELSE Capacity - Slot(b)
SecondSpan(b, e) == IF Slot(e) <= Slot(b) THEN Slot(e) ELSE 0
SpanSlot(b, e, k) == IF k < FirstSpan(b, e) THEN Slot(b) + k ELSE k - FirstSpan(b, e)
-----------------------------------------------------------------------------
(***************************************************************************)
(* A reader: the loop of tryAcquireLockForReading(callable), and later the *)
(* destruction of the result.                                              *)
(***************************************************************************)
ReaderCall(r, q) ==
  /\ rpc[r] = "idle"
  /\ req' = [req EXCEPT ![r] = q]
  /\ rpc' = [rpc EXCEPT ![r] = "loadBegin"]
  /\ UNCHANGED <<write, read, locks, storage, wpc, begin, end, expected>>

\* begin = read_.load()
ReaderLoadBegin(r) ==
  /\ rpc[r] = "loadBegin"
  /\ begin' = [begin EXCEPT ![r] = read]
  /\ rpc' = [rpc EXCEPT ![r] = "loadEnd"]
  /\ UNCHANGED <<write, read, locks, storage, wpc, req, end, expected>>

\* end = write_.load(), then callable(begin, end); an empty result is returned
\* when it refuses.
ReaderLoadEnd(r) ==
  /\ rpc[r] = "loadEnd"
  /\ \/ /\ Accepts(req[r], begin[r], write)
        /\ begin' = [begin EXCEPT ![r] = RangeBegin(req[r], begin[r], write)]
        /\ end' = [end EXCEPT ![r] = RangeEnd(req[r], begin[r], write)]
        /\ rpc' = [rpc EXCEPT ![r] = "lockLoad"]
     \/ /\ ~Accepts(req[r], begin[r], write)
        /\ rpc' = [rpc EXCEPT ![r] = "idle"]
        /\ UNCHANGED <<begin, end>>
  /\ UNCHANGED <<write, read, locks, storage, wpc, req, expected>>

\* tryLockShared(): expected = lock_.load() & lockSharedMask
ReaderLockLoad(r) ==
  /\ rpc[r] = "lockLoad"
  /\ expected' = [expected EXCEPT ![r] = SharedCount(locks[Slot(begin[r])])]
  /\ rpc' = [rpc EXCEPT ![r] = "lockCas"]
  /\ UNCHANGED <<write, read, locks, storage, wpc, req, begin, end>>

\* tryLockShared(): the compare and exchange.  It fails for good when the slot
\* is exclusively locked, otherwise it starts over.
ReaderLockCas(r) ==
  LET s == Slot(begin[r])
  IN  /\ rpc[r] = "lockCas"
      /\ \/ /\ locks[s] = expected[r]
            /\ locks' = [locks EXCEPT ![s] = Increment(expected[r])]
            /\ rpc' = [rpc EXCEPT ![r] = "check"]
         \/ /\ locks[s] # expected[r]
            /\ rpc' = [rpc EXCEPT ![r] = IF IsExclusive(locks[s]) THEN "loadBegin" ELSE "lockLoad"]
            /\ UNCHANGED locks
      /\ UNCHANGED <<write, read, storage, wpc, req, begin, end, expected>>

\* Mutant: the entry is not checked again once it is locked.
ReaderCheckSkipped(r) ==
  /\ rpc[r] = "check"
  /\ rpc' = [rpc EXCEPT ![r] = "reading"]
  /\ UNCHANGED <<write, read, locks, storage, wpc, req, begin, end, expected>>

\* Ensure the entry is still valid.
ReaderCheck(r) ==
  /\ rpc[r] = "check"
  /\ rpc' = [rpc EXCEPT ![r] = IF read > begin[r] THEN "outdated" ELSE "reading"]
  /\ UNCHANGED <<write, read, locks, storage, wpc, req, begin, end, expected>>

\* Mutant: an outdated entry stays locked.
ReaderOutdatedLeak(r) ==
  /\ rpc[r] = "outdated"
  /\ rpc' = [rpc EXCEPT ![r] = "loadBegin"]
  /\ UNCHANGED <<write, read, locks, storage, wpc, req, begin, end, expected>>

\* The entry is outdated: the code calls unlock(), the release of an exclusive
\* owner, and tries again.
ReaderOutdated(r) ==
  /\ rpc[r] = "outdated"
  /\ locks' = [locks EXCEPT ![Slot(begin[r])] = 0]
  /\ rpc' = [rpc EXCEPT ![r] = "loadBegin"]
  /\ UNCHANGED <<write, read, storage, wpc, req, begin, end, expected>>

\* ~RingBufferResult(): unlockShared()
ReaderRelease(r) ==
  /\ rpc[r] = "reading"
  /\ locks' = [locks EXCEPT ![Slot(begin[r])] = Decrement(locks[Slot(begin[r])])]
  /\ rpc' = [rpc EXCEPT ![r] = "idle"]
  /\ UNCHANGED <<write, read, storage, wpc, req, begin, end, expected>>

ReaderStep(r) ==
  \/ ReaderLoadBegin(r) \/ ReaderLoadEnd(r)
  \/ ReaderLockLoad(r) \/ ReaderLockCas(r) \/ ReaderCheck(r) \/ ReaderOutdated(r)
  \/ ReaderRelease(r)

Next ==
  \/ WriterLock \/ WriterFinish
  \/ \E r \in Readers : (\E q \in Requests : ReaderCall(r, q)) \/ ReaderStep(r)

Spec == Init /\ [][Next]_vars

\* Threads that run are scheduled: a result is destroyed at some point and a
\* call that was started goes on.  Nobody has to start a call.
FairSpec == Spec /\ WF_vars(WriterFinish) /\ \A r \in Readers : WF_vars(ReaderStep(r))
-----------------------------------------------------------------------------
\* The indexes and lock words of the ring, and where its threads are in the code.
TypeOK ==
  /\ write \in Nat
  /\ read \in Nat
  /\ locks \in [Slots -> Word]
  /\ storage \in [Slots -> Nat \cup {NoElement}]
  /\ wpc \in {"idle", "locked", "writing", "written", "publish"}
  /\ rpc \in [Readers -> {"idle", "loadBegin", "loadEnd", "lockLoad", "lockCas",
                          "check", "outdated", "reading"}]
  /\ req \in [Readers -> Requests]
  /\ begin \in [Readers -> Nat]
  /\ end \in [Readers -> Nat]
  /\ expected \in [Readers -> Word]

WriterOwns(s) == wpc \in {"locked", "writing", "written"} /\ Slot(write) = s
ReaderOwns(r, s) == rpc[r] \in {"check", "outdated", "reading"} /\ Slot(begin[r]) = s

\* The number of readable elements, size(), never exceeds the capacity, and
\* while an element is being written there is room for it, so that
\* publishing it cannot overflow the ring.
SizeBounded ==
  /\ read <= write
  /\ write - read <= Capacity
  /\ wpc \in {"writing", "written", "publish"} => write - read < Capacity

\* What makeSpans() asserts, although begin and end are loaded at different
\* times while the writer runs: the range handed to a reader is not empty,
\* has at most capacity elements and all of them were published.
ResultFits ==
  \A r \in Readers : rpc[r] = "reading" =>
     /\ begin[r] < end[r]
     /\ end[r] - begin[r] <= Capacity
     /\ end[r] <= write

\* The two spans of makeSpans() are the elements of the range, all of them and
\* in their order, wherever the range wraps around.
SpansExact ==
  \A r \in Readers : rpc[r] = "reading" =>
     /\ FirstSpan(begin[r], end[r]) + SecondSpan(begin[r], end[r]) = end[r] - begin[r]
     /\ \A k \in 0 .. end[r] - begin[r] - 1 :
           SpanSlot(begin[r], end[r], k) = Slot(begin[r] + k)

\* No element of a result is overwritten while the result is alive: the
\* writer never writes to a slot of the range, each slot still holds the
\* element that the range stands for.  The code locks the first slot only.
ResultStable ==
  \A r \in Readers : rpc[r] = "reading" =>
     \A i \in begin[r] .. end[r] - 1 :
        /\ storage[Slot(i)] = i
        /\ ~WriterOwns(Slot(i))

\* A call for reading returns, whether or not it finds an element, once the
\* writer stops overwriting what it is about to lock.
ReadReturns ==
  \A r \in Readers : rpc[r] = "loadBegin" ~> rpc[r] \in {"idle", "reading"}

\* Whoever holds the slot that the writer needs gives it back.
WriterUnblocked ==
  (wpc = "idle" /\ locks[Slot(write)] # 0) ~> locks[Slot(write)] = 0

\* What the ring hands out is exact: it never holds more than its capacity, and every result is a range
\* of published elements that fits in the ring and is described by its two spans (ring_buffer.hh:259-300).
RangesExact ==
  /\ SizeBounded
  /\ ResultFits
  /\ SpansExact

\* Nobody is left waiting: a read returns, and the slots that were locked are given back.
CallsReturn ==
  /\ ReadReturns
  /\ WriterUnblocked
=============================================================================
