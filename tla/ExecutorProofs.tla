--------------------------- MODULE ExecutorProofs ---------------------------
(***************************************************************************)
(* Proofs about Executor, for every finite set of cores and executables:   *)
(* an executable is in one place, and the counters that decide when run()  *)
(* ends are exact.                                                         *)
(***************************************************************************)
EXTENDS Executor, TLAPS, FiniteSetTheorems, SequenceTheorems, WellFoundedInduction

\* The places of a core in run() at which it works on an executable.
Holding == {"count", "resume", "push", "pushSkipped", "fork", "forkPush"}

\* What a core works on, read off where it is.
HeldInv ==
  \A c \in Cores :
    /\ current[c] # None <=> pc[c] \in Holding
    /\ pushing[c] # None <=> pc[c] = "forkPush"
    /\ pc[c] \in {"fork", "forkPush"} => current[c] = Root
    /\ pc[c] = "forkPush" => pushing[c] \in unforked

\* An executable is in the queue or held by a core.
Distinct(s) == \A i, j \in DOMAIN s : s[i] = s[j] => i = j
In(e, s) == \E i \in DOMAIN s : s[i] = e
Queued(e) == In(e, ring)
Held(e) == \E c \in Cores : current[c] = e
Placed(e) == Queued(e) \/ Held(e)

\* The queue has no element twice, a held executable is with one core and not in
\* the queue, and a child that was not scheduled is nowhere.
PlaceInv ==
  /\ Distinct(ring)
  /\ \A c, d \in Cores : current[c] = current[d] /\ current[c] # None => c = d
  /\ \A c \in Cores : ~Queued(current[c])
  /\ \A k \in unforked : ~Placed(k)

Active == \E c \in Cores : pc[c] # "stopped"

\* A skipped executable is in the queue or about to be; who may be scheduled by an
\* event is skipped, what a core resumes is not.
SkipInv ==
  /\ \A e \in asleep : skip[e] /\ waking # e
  /\ waking # None => skip[waking]
  /\ \A c \in Cores : pc[c] \in Holding \ {"pushSkipped"} => ~skip[current[c]]
  /\ Active => \A e \in Executables : skip[e] => Placed(e)

\* The children that have terminated.
Ended == {k \in Children : k \notin unforked /\ ~Placed(k)}

\* counter_ counts them; the caller is nowhere between its last schedule() and
\* the last termination, nor after its own.
JoinInv ==
  Active =>
    /\ counter = Cardinality(Ended)
    /\ unforked = {} /\ Ended # Children => ~Placed(Root)
    /\ active = 0 => ~Placed(Root) /\ unforked = {} /\ Ended = Children

ExecutorInv == TypeOK /\ HeldInv /\ PlaceInv /\ SkipInv /\ JoinInv /\ CountersExact

\* An executable that is to run and that no core has counted off.
IsPending(e) ==
  \/ Queued(e) /\ ~skip[e]
  \/ waking = e
  \/ \E c \in Cores : \/ current[c] = e /\ pc[c] \in {"count", "push"}
                      \/ current[c] = e /\ pc[c] = "pushSkipped" /\ ~skip[e]
                      \/ pushing[c] = e /\ pc[c] = "forkPush"
-----------------------------------------------------------------------------
(***************************************************************************)
(* The queue: what taking an element out and appending one do.             *)
(***************************************************************************)
\* popFront() rotates the ring and takes one element out: the others stay.
LEMMA TakeOut ==
  ASSUME NEW S, NEW s \in Seq(S), NEW i \in 1 .. Len(s), Distinct(s)
  PROVE  LET t == SubSeq(s, i + 1, Len(s)) \o SubSeq(s, 1, i - 1)
         IN  /\ t \in Seq(S) /\ Distinct(t)
             /\ \A e : In(e, t) <=> In(e, s) /\ e # s[i]
  <1> DEFINE n == Len(s)
             u == SubSeq(s, i + 1, n)
             v == SubSeq(s, 1, i - 1)
             t == u \o v
  <1>1. n \in Nat /\ i \in 1 .. n /\ (\A k \in 1 .. n : s[k] \in S) /\ DOMAIN s = 1 .. n
    BY LenProperties, ElementOfSeq
  <1> HIDE DEF n
  <1>2. u \in Seq(S) /\ Len(u) = n - i /\ \A k \in 1 .. n - i : u[k] = s[k + i]
    <2>1. \A k \in i + 1 .. n : s[k] \in S
      BY <1>1
    <2>2. /\ u \in Seq(S)
          /\ Len(u) = IF i + 1 <= n THEN n - (i + 1) + 1 ELSE 0
          /\ \A k \in 1 .. n - (i + 1) + 1 : u[k] = s[(i + 1) + k - 1]
      <3>1. i + 1 \in Int /\ n \in Int
        BY <1>1
      <3> QED BY <2>1, <3>1, SubSeqProperties
    <2> HIDE DEF u
    <2>3. Len(u) = n - i
      BY <1>1, <2>2
    <2>4. ASSUME NEW k \in 1 .. n - i PROVE u[k] = s[k + i]
      <3>1. k \in 1 .. n - (i + 1) + 1 /\ (i + 1) + k - 1 = k + i
        BY <1>1
      <3> QED BY <2>2, <3>1
    <2> QED BY <2>2, <2>3, <2>4
  <1>3. v \in Seq(S) /\ Len(v) = i - 1 /\ \A k \in 1 .. i - 1 : v[k] = s[k]
    <2>1. \A k \in 1 .. i - 1 : s[k] \in S
      BY <1>1
    <2>2. /\ v \in Seq(S)
          /\ Len(v) = IF 1 <= i - 1 THEN (i - 1) - 1 + 1 ELSE 0
          /\ \A k \in 1 .. (i - 1) - 1 + 1 : v[k] = s[1 + k - 1]
      BY <1>1, <2>1, SubSeqProperties
    <2> HIDE DEF v
    <2> QED BY <1>1, <2>2
  <1> HIDE DEF u, v
  <1>8. /\ t \in Seq(S) /\ Len(t) = Len(u) + Len(v)
        /\ \A k \in 1 .. Len(u) + Len(v) : t[k] = IF k <= Len(u) THEN u[k] ELSE v[k - Len(u)]
    BY <1>2, <1>3, ConcatProperties
  <1> HIDE DEF t
  <1>4. t \in Seq(S) /\ Len(t) = n - 1 /\ DOMAIN t = 1 .. n - 1
    <2>1. Len(t) = n - 1
      BY <1>1, <1>2, <1>3, <1>8
    <2> QED BY <2>1, <1>8, LenProperties
  <1>5. \A k \in 1 .. n - 1 : t[k] = IF k <= n - i THEN s[k + i] ELSE s[k - (n - i)]
    <2> SUFFICES ASSUME NEW k \in 1 .. n - 1
                 PROVE  t[k] = IF k <= n - i THEN s[k + i] ELSE s[k - (n - i)]
      OBVIOUS
    <2>1. CASE k <= n - i
      BY <1>1, <1>2, <1>3, <1>8, <2>1
    <2>2. CASE k > n - i
      <3>1. k - (n - i) \in 1 .. i - 1
        BY <1>1, <2>2
      <3> QED BY <1>1, <1>2, <1>3, <1>8, <2>2, <3>1
    <2> QED BY <1>1, <2>1, <2>2
  <1>6. Distinct(t)
    <2> SUFFICES ASSUME NEW j \in 1 .. n - 1, NEW k \in 1 .. n - 1, t[j] = t[k] PROVE j = k
      BY <1>4 DEF Distinct
    <2> DEFINE old(m) == IF m <= n - i THEN m + i ELSE m - (n - i)
    <2>1. old(j) \in 1 .. n /\ old(k) \in 1 .. n
      BY <1>1
    <2>2. t[j] = s[old(j)] /\ t[k] = s[old(k)]
      BY <1>5
    <2>3. old(j) = old(k)
      <3> HIDE DEF old
      <3> QED BY <1>1, <2>1, <2>2 DEF Distinct
    <2> QED BY <1>1, <2>3
  <1>7. ASSUME NEW e PROVE In(e, t) <=> In(e, s) /\ e # s[i]
    <2>1. ASSUME In(e, t) PROVE In(e, s) /\ e # s[i]
      <3>1. PICK k \in 1 .. n - 1 : t[k] = e
        BY <1>4, <2>1 DEF In
      <3>2. CASE k <= n - i
        <4>1. k + i \in 1 .. n /\ k + i # i /\ s[k + i] = e
          BY <1>1, <1>5, <3>1, <3>2
        <4> QED BY <1>1, <4>1 DEF In, Distinct
      <3>3. CASE k > n - i
        <4>1. k - (n - i) \in 1 .. n /\ k - (n - i) # i /\ s[k - (n - i)] = e
          BY <1>1, <1>5, <3>1, <3>3
        <4> QED BY <1>1, <4>1 DEF In, Distinct
      <3> QED BY <1>1, <3>2, <3>3
    <2>2. ASSUME NEW k \in 1 .. n, s[k] = e, k # i PROVE In(e, t)
      <3>1. CASE k > i
        <4>1. k - i \in 1 .. n - 1 /\ t[k - i] = e
          BY <1>1, <1>5, <2>2, <3>1
        <4> QED BY <4>1, <1>4 DEF In
      <3>2. CASE k < i
        <4>1. k + (n - i) \in 1 .. n - 1 /\ t[k + (n - i)] = e
          BY <1>1, <1>5, <2>2, <3>2
        <4> QED BY <4>1, <1>4 DEF In
      <3> QED BY <1>1, <2>2, <3>1, <3>2
    <2> QED BY <1>1, <2>1, <2>2 DEF In
  <1> QED BY <1>4, <1>6, <1>7 DEF t, u, v, n

\* pushBack() appends an element.
LEMMA PutBack ==
  ASSUME NEW S, NEW s \in Seq(S), NEW x \in S, Distinct(s), ~In(x, s)
  PROVE  /\ Append(s, x) \in Seq(S) /\ Distinct(Append(s, x))
         /\ \A e : In(e, Append(s, x)) <=> In(e, s) \/ e = x
  <1> DEFINE n == Len(s)
             t == Append(s, x)
  <1>1. n \in Nat /\ DOMAIN s = 1 .. n
    BY LenProperties
  <1>2. t \in Seq(S) /\ Len(t) = n + 1 /\ DOMAIN t = 1 .. n + 1
    BY LenProperties
  <1>3. \A k \in 1 .. n + 1 : t[k] = IF k <= n THEN s[k] ELSE x
    BY <1>1
  <1> HIDE DEF t, n
  <1>4. Distinct(t)
    BY <1>1, <1>2, <1>3 DEF Distinct, In
  <1>5. \A e : In(e, t) <=> In(e, s) \/ e = x
    <2>1. t[n + 1] = x /\ n + 1 \in DOMAIN t
      BY <1>1, <1>2, <1>3
    <2>2. \A k \in DOMAIN s : k \in DOMAIN t /\ t[k] = s[k]
      BY <1>1, <1>2, <1>3
    <2>3. ASSUME NEW k \in DOMAIN t PROVE t[k] = x \/ (k \in DOMAIN s /\ t[k] = s[k])
      BY <1>1, <1>2, <1>3
    <2> QED BY <2>1, <2>2, <2>3 DEF In
  <1> QED BY <1>2, <1>4, <1>5 DEF t

\* The smallest element of a set of numbers, which Min is.
LEMMA MinIsIn ==
  ASSUME NEW T \in SUBSET Nat, T # {}
  PROVE  Min(T) \in T
  <1>1. PICK x \in T : \A y \in T : ~(<<y, x>> \in OpToRel(<, Nat))
    BY WFMin, NatLessThanWellFounded
  <1>2. \A y \in T : x <= y
    <2> SUFFICES ASSUME NEW y \in T, y < x PROVE FALSE
      OBVIOUS
    <2>1. <<y, x>> \in Nat \X Nat /\ <<y, x>>[1] = y /\ <<y, x>>[2] = x
      OBVIOUS
    <2> QED BY <1>1, <2>1, Zenon DEF OpToRel
  <1> QED BY <1>2 DEF Min

\* popFront() finds an element that is ready, if it finds one.
LEMMA FirstReady ==
  ASSUME TypeOK, NEW c \in Cores,
         SelectInSeq(ring, LAMBDA e : IsReadyToBeScheduled(e, c)) # 0
  PROVE  LET i == SelectInSeq(ring, LAMBDA e : IsReadyToBeScheduled(e, c))
         IN  i \in 1 .. Len(ring) /\ ring[i] \in Executables /\ ~skip[ring[i]]
  <1> DEFINE T == {i \in 1 .. Len(ring) : IsReadyToBeScheduled(ring[i], c)}
             first == SelectInSeq(ring, LAMBDA e : IsReadyToBeScheduled(e, c))
  <1>1. first = IF T # {} THEN Min(T) ELSE 0
    BY DEF SelectInSeq
  <1>2. Len(ring) \in Nat /\ (\A i \in 1 .. Len(ring) : ring[i] \in Executables \cup {Dummy})
    BY LenProperties, ElementOfSeq DEF TypeOK
  <1> HIDE DEF first
  <1>3. first \in T
    <2>1. T \in SUBSET Nat /\ T # {}
      BY <1>1, <1>2 DEF first
    <2> HIDE DEF T
    <2> QED BY <1>1, <2>1, MinIsIn
  <1> QED BY <1>2, <1>3 DEF IsReadyToBeScheduled, first

\* pop() takes the first executable of the queue that is ready for its core, if there is one.
LEMMA PopTakes ==
  ASSUME TypeOK, PlaceInv, NEW c \in Cores, Pop(c)
  PROVE  \/ Goto(c, "tick") /\ UNCHANGED <<ring, pin, current>>
         \/ \E e \in Executables :
              /\ Queued(e) /\ ~skip[e]
              /\ ring' \in Seq(Executables \cup {Dummy}) /\ Distinct(ring')
              /\ \A x : Queued(x)' <=> Queued(x) /\ x # e
              /\ pin' = [pin EXCEPT ![e] = c]
              /\ current' = [current EXCEPT ![c] = e]
              /\ Goto(c, "count")
  <1> DEFINE i == SelectInSeq(ring, LAMBDA e : IsReadyToBeScheduled(e, c))
  <1>1. CASE i = 0
    BY <1>1 DEF Pop
  <1>2. CASE i # 0
    <2>1. i \in 1 .. Len(ring) /\ ring[i] \in Executables /\ ~skip[ring[i]]
      BY <1>2, FirstReady
    <2>2. /\ ring' = SubSeq(ring, i + 1, Len(ring)) \o SubSeq(ring, 1, i - 1)
          /\ pin' = [pin EXCEPT ![ring[i]] = c]
          /\ current' = [current EXCEPT ![c] = ring[i]]
          /\ Goto(c, "count")
      BY <1>2 DEF Pop
    <2> HIDE DEF i
    <2>3. /\ ring' \in Seq(Executables \cup {Dummy}) /\ Distinct(ring')
          /\ \A x : In(x, ring') <=> In(x, ring) /\ x # ring[i]
      BY <2>1, <2>2, TakeOut DEF TypeOK, PlaceInv
    <2>4. In(ring[i], ring)
      BY <2>1, LenProperties DEF TypeOK, In
    <2> QED BY <2>1, <2>2, <2>3, <2>4 DEF Queued
  <1> QED BY <1>1, <1>2

\* push() puts back what the core holds.
LEMMA PushPuts ==
  ASSUME TypeOK, HeldInv, PlaceInv, NEW c \in Cores, Push(c)
  PROVE  /\ current[c] \in Executables
         /\ ring' \in Seq(Executables \cup {Dummy}) /\ Distinct(ring')
         /\ \A x : Queued(x)' <=> Queued(x) \/ x = current[c]
  <1>1. current[c] \in Executables
    BY DEF TypeOK, HeldInv, Push, Holding
  <1>2. ring' = Append(ring, current[c])
    BY DEF Push
  <1>3. ring \in Seq(Executables \cup {Dummy}) /\ Distinct(ring) /\ ~In(current[c], ring)
    BY DEF TypeOK, PlaceInv, Queued
  <1> QED BY <1>1, <1>2, <1>3, PutBack DEF Queued

\* enqueueAsyncs() puts the child that it counted.
LEMMA ForkPuts ==
  ASSUME TypeOK, HeldInv, PlaceInv, NEW c \in Cores, ForkPush(c)
  PROVE  /\ pushing[c] \in unforked /\ pushing[c] \in Children
         /\ ring' \in Seq(Executables \cup {Dummy}) /\ Distinct(ring')
         /\ \A x : Queued(x)' <=> Queued(x) \/ x = pushing[c]
  <1>1. pushing[c] \in unforked /\ pushing[c] \in Children /\ pushing[c] \in Executables
    BY DEF TypeOK, HeldInv, ForkPush, Executables, Workloads
  <1>2. ring' = Append(ring, pushing[c])
    BY DEF ForkPush
  <1>3. ring \in Seq(Executables \cup {Dummy}) /\ Distinct(ring) /\ ~In(pushing[c], ring)
    BY <1>1 DEF TypeOK, PlaceInv, Placed, Queued
  <1> QED BY <1>1, <1>2, <1>3, PutBack DEF Queued
-----------------------------------------------------------------------------
(***************************************************************************)
(* The counters: a step changes who is pending by at most one executable.  *)
(***************************************************************************)
LEMMA PendingSet ==
  /\ \A S : Pending(S) = {e \in S : IsPending(e)}
  /\ \A S : Pending(S)' = {e \in S : IsPending(e)'}
  BY DEF Pending, IsPending, Queued, In, Range

\* What makes an executable pending, when a step is about another one.
LEMMA PendingSame ==
  ASSUME NEW x, Queued(x)' <=> Queued(x), waking' = x <=> waking = x, skip'[x] <=> skip[x],
         \A d \in Cores :
           /\ current'[d] = x /\ pc'[d] \in {"count", "push"} <=> current[d] = x /\ pc[d] \in {"count", "push"}
           /\ current'[d] = x /\ pc'[d] = "pushSkipped" <=> current[d] = x /\ pc[d] = "pushSkipped"
           /\ pushing'[d] = x /\ pc'[d] = "forkPush" <=> pushing[d] = x /\ pc[d] = "forkPush"
  PROVE  IsPending(x)' <=> IsPending(x)
  BY DEF IsPending

\* The queue holds executables and the dummy.
LEMMA NoneNowhere ==
  ASSUME TypeOK
  PROVE  /\ ~Queued(None) /\ Root \in Executables /\ None \notin Executables
         /\ \A x : Queued(x) => x \in Executables \cup {Dummy}
  <1>1. \A i \in DOMAIN ring : ring[i] \in Executables \cup {Dummy}
    BY LenProperties, ElementOfSeq DEF TypeOK
  <1>2. None \notin Executables \cup {Dummy}
    BY ExecutablesAssumption DEF None, Dummy
  <1>3. Root \in Executables
    BY DEF Executables, Workloads
  <1> QED BY <1>1, <1>2, <1>3 DEF Queued, In

\* The executables and the cores are finitely many.
LEMMA FiniteSets ==
  /\ IsFiniteSet(Cores) /\ IsFiniteSet(Executables) /\ IsFiniteSet(Workloads) /\ IsFiniteSet(Children)
  /\ Workloads \subseteq Executables /\ Children \subseteq Workloads
  /\ \A S \in SUBSET Executables : IsFiniteSet(S) /\ Cardinality(S) \in Nat
  <1>1. Workloads \subseteq Executables /\ Children \subseteq Workloads
    BY DEF Executables, Workloads
  <1> QED BY <1>1, CoresAssumption, ExecutablesAssumption, FS_Subset, FS_CardinalityType

\* The counters stay exact when neither they nor what they count change.
LEMMA CountSame ==
  ASSUME CountersExact, Active' => Active, workloadCount' = workloadCount, queueCount' = queueCount,
         \A x \in Executables : IsPending(x)' <=> IsPending(x)
  PROVE  CountersExact'
  <1>1. Pending(Workloads)' = Pending(Workloads) /\ Pending(Executables)' = Pending(Executables)
    BY PendingSet, FiniteSets
  <1> QED BY <1>1 DEF CountersExact, Active

\* The counters stay exact when an executable becomes pending and is counted.
LEMMA CountUp ==
  ASSUME CountersExact, Active' => Active, NEW e \in Executables, Count(e, 1), ~IsPending(e),
         \A x \in Executables : IsPending(x)' <=> IsPending(x) \/ x = e
  PROVE  CountersExact'
  <1> SUFFICES ASSUME Active, Active' PROVE CountersExact'
    BY DEF CountersExact, Active
  <1>1. ASSUME NEW S \in SUBSET Executables
        PROVE  Cardinality(Pending(S))' = Cardinality(Pending(S)) + (IF e \in S THEN 1 ELSE 0)
    <2>1. Pending(S)' = IF e \in S THEN Pending(S) \cup {e} ELSE Pending(S)
      BY PendingSet
    <2>2. Pending(S) \in SUBSET Executables /\ e \notin Pending(S)
      BY PendingSet
    <2>3. IsFiniteSet(Pending(S)) /\ Cardinality(Pending(S)) \in Nat
      BY <2>2, FiniteSets
    <2>4. Cardinality(Pending(S) \cup {e}) = Cardinality(Pending(S)) + 1
      BY <2>2, <2>3, FS_AddElement
    <2> QED BY <2>1, <2>3, <2>4
  <1>2. workloadCount = Cardinality(Pending(Workloads)) /\ queueCount = Cardinality(Pending(Executables))
    BY DEF CountersExact, Active
  <1>3. Workloads \in SUBSET Executables /\ Executables \in SUBSET Executables
    BY FiniteSets
  <1> QED BY <1>1, <1>2, <1>3 DEF CountersExact, Count

\* The counters stay exact when an executable is no longer pending and is counted off.
LEMMA CountDown ==
  ASSUME CountersExact, Active' => Active, NEW e \in Executables, Count(e, -1), IsPending(e),
         \A x \in Executables : IsPending(x)' <=> IsPending(x) /\ x # e
  PROVE  CountersExact'
  <1> SUFFICES ASSUME Active, Active' PROVE CountersExact'
    BY DEF CountersExact, Active
  <1>1. ASSUME NEW S \in SUBSET Executables
        PROVE  Cardinality(Pending(S))' = Cardinality(Pending(S)) + (IF e \in S THEN -1 ELSE 0)
    <2>1. Pending(S)' = IF e \in S THEN Pending(S) \ {e} ELSE Pending(S)
      BY PendingSet
    <2>2. Pending(S) \in SUBSET Executables /\ (e \in S => e \in Pending(S))
      BY PendingSet
    <2>3. IsFiniteSet(Pending(S)) /\ Cardinality(Pending(S)) \in Nat
      BY <2>2, FiniteSets
    <2> QED BY <2>1, <2>2, <2>3, FS_RemoveElement
  <1>2. workloadCount = Cardinality(Pending(Workloads)) /\ queueCount = Cardinality(Pending(Executables))
    BY DEF CountersExact, Active
  <1>3. Workloads \in SUBSET Executables /\ Executables \in SUBSET Executables
    BY FiniteSets
  <1> QED BY <1>1, <1>2, <1>3 DEF CountersExact, Count
-----------------------------------------------------------------------------
(***************************************************************************)
(* Each step keeps the invariant.  What remains when the types are left    *)
(* aside is Kept.                                                          *)
(***************************************************************************)
Kept == HeldInv /\ PlaceInv /\ SkipInv /\ JoinInv /\ CountersExact

\* A step of run() that does not touch what the invariant is about.
LEMMA QuietStep ==
  ASSUME ExecutorInv, NEW c \in Cores, NEW p, p \notin Holding, pc[c] \notin Holding, pc[c] # "stopped",
         Goto(c, p),
         UNCHANGED <<ring, skip, workloadCount, queueCount, current, pushing, unforked, counter,
                     active, asleep, waking>>
  PROVE  Kept'
  <1> USE DEF ExecutorInv
  <1>1. Active /\ (\A d \in Cores : pc'[d] = IF d = c THEN p ELSE pc[d])
    BY DEF Active, Goto, TypeOK
  <1>2. \A d \in Cores : pc'[d] \in Holding => pc'[d] = pc[d] /\ pc[d] \in Holding
    BY <1>1
  <1>3. HeldInv'
    <2> SUFFICES ASSUME NEW d \in Cores
                 PROVE  /\ current[d] # None <=> pc'[d] \in Holding
                        /\ pushing[d] # None <=> pc'[d] = "forkPush"
                        /\ pc'[d] \in {"fork", "forkPush"} => current[d] = Root
                        /\ pc'[d] = "forkPush" => pushing[d] \in unforked
      BY DEF HeldInv
    <2>1. CASE d = c
      BY <1>1, <2>1 DEF HeldInv, Holding
    <2>2. CASE d # c
      BY <1>1, <2>2 DEF HeldInv
    <2> QED BY <2>1, <2>2
  <1>4. \A x : (Queued(x)' <=> Queued(x)) /\ (Placed(x)' <=> Placed(x))
    BY DEF Queued, Placed, Held
  <1>5. PlaceInv'
    BY <1>4 DEF PlaceInv
  <1>6. SkipInv'
    BY <1>1, <1>2, <1>4 DEF SkipInv, Active
  <1>7. JoinInv'
    <2>1. Ended' = Ended
      BY <1>4 DEF Ended
    <2> QED BY <1>1, <1>4, <2>1 DEF JoinInv
  <1>8. CountersExact'
    <2>1. \A x \in Executables : IsPending(x)' <=> IsPending(x)
      BY <1>1, <1>4 DEF IsPending, Holding
    <2> QED BY <1>1, <2>1, CountSame
  <1> QED BY <1>3, <1>5, <1>6, <1>7, <1>8 DEF Kept

\* Who is held and who is skipped when a core is at an executable.
LEMMA HeldFacts ==
  ASSUME ExecutorInv, NEW c \in Cores, pc[c] \in Holding
  PROVE  /\ current[c] \in Executables /\ Held(current[c]) /\ Placed(current[c])
         /\ ~Queued(current[c]) /\ current[c] \notin unforked
         /\ \A d \in Cores : current[d] = current[c] => d = c
         /\ \A d \in Cores : pushing[d] # current[c] \/ pc[d] # "forkPush"
         /\ pc[c] # "pushSkipped" => ~skip[current[c]] /\ waking # current[c] /\ current[c] \notin asleep
  <1> USE DEF ExecutorInv
  <1>1. current[c] \in Executables /\ current[c] # None
    BY DEF HeldInv, TypeOK
  <1>2. Held(current[c]) /\ Placed(current[c]) /\ ~Queued(current[c])
    BY DEF Held, Placed, PlaceInv
  <1>3. current[c] \notin unforked
    BY <1>2 DEF PlaceInv
  <1>4. \A d \in Cores : current[d] = current[c] => d = c
    BY <1>1 DEF PlaceInv
  <1>5. \A d \in Cores : pushing[d] # current[c] \/ pc[d] # "forkPush"
    BY <1>3 DEF HeldInv
  <1>6. pc[c] # "pushSkipped" => ~skip[current[c]]
    BY DEF SkipInv
  <1>7. pc[c] # "pushSkipped" => waking # current[c] /\ current[c] \notin asleep
    BY <1>1, <1>6 DEF SkipInv
  <1> QED BY <1>1, <1>2, <1>3, <1>4, <1>5, <1>6, <1>7

\* At these places the executable is not pending: it runs.
LEMMA RunningNotPending ==
  ASSUME ExecutorInv, NEW c \in Cores, pc[c] \in {"resume", "fork", "forkPush"}
  PROVE  ~IsPending(current[c])
  <1>1. pc[c] \in Holding /\ pc[c] # "pushSkipped"
    BY DEF Holding
  <1> QED BY <1>1, HeldFacts DEF IsPending

\* The parents wait for the same children when nobody is placed or ends.
LEMMA SamePlaces ==
  ASSUME ExecutorInv, Active, \A x \in Executables : Placed(x)' <=> Placed(x),
         UNCHANGED <<unforked, counter, active>>
  PROVE  JoinInv'
  <1>1. Ended' = Ended
    BY FiniteSets DEF Ended
  <1>2. Root \in Executables
    BY DEF Executables, Workloads
  <1> QED BY <1>1, <1>2 DEF ExecutorInv, JoinInv, Active

\* pop().
LEMMA PopStep ==
  ASSUME ExecutorInv, NEW c \in Cores, Pop(c)
  PROVE  Kept'
  <1> USE DEF ExecutorInv
  <1>0. pc[c] = "pop" /\ pc[c] \notin Holding /\ pc[c] # "stopped" /\ Active
    BY DEF Pop, Holding, Active
  <1>1. UNCHANGED <<skip, workloadCount, queueCount, pushing, unforked, counter, active, asleep, waking>>
    BY DEF Pop, runVars, programVars, eventVars
  <1>2. CASE Goto(c, "tick") /\ UNCHANGED <<ring, pin, current>>
    <2>1. "tick" \notin Holding
      BY DEF Holding
    <2> QED BY <1>0, <1>1, <1>2, <2>1, QuietStep
  <1>3. ASSUME NEW e \in Executables,
               Queued(e), ~skip[e],
               ring' \in Seq(Executables \cup {Dummy}), Distinct(ring'),
               \A x : Queued(x)' <=> Queued(x) /\ x # e,
               current' = [current EXCEPT ![c] = e],
               Goto(c, "count")
        PROVE  Kept'
    <2>1. \A d \in Cores : /\ current'[d] = IF d = c THEN e ELSE current[d]
                           /\ pc'[d] = IF d = c THEN "count" ELSE pc[d]
      BY <1>3 DEF Goto, TypeOK
    <2>2. e # None /\ e \notin unforked /\ \A d \in Cores : current[d] # e
      BY <1>3, ExecutablesAssumption DEF PlaceInv, Placed
    <2>3. current[c] = None
      BY <1>0 DEF HeldInv
    <2>4. HeldInv'
      <3> SUFFICES ASSUME NEW d \in Cores
                   PROVE  /\ current'[d] # None <=> pc'[d] \in Holding
                          /\ pushing[d] # None <=> pc'[d] = "forkPush"
                          /\ pc'[d] \in {"fork", "forkPush"} => current'[d] = Root
                          /\ pc'[d] = "forkPush" => pushing[d] \in unforked
        BY <1>1 DEF HeldInv
      <3>1. CASE d = c
        BY <1>0, <2>1, <2>2, <3>1 DEF HeldInv, Holding
      <3>2. CASE d # c
        BY <2>1, <3>2 DEF HeldInv
      <3> QED BY <3>1, <3>2
    <2>5. \A x \in Executables : Placed(x)' <=> Placed(x)
      <3> SUFFICES ASSUME NEW x \in Executables PROVE Placed(x)' <=> Placed(x)
        OBVIOUS
      <3>1. x # None
        BY ExecutablesAssumption
      <3>2. Held(x)' <=> Held(x) \/ x = e
        BY <2>1, <2>3, <3>1 DEF Held
      <3> QED BY <1>3, <3>2 DEF Placed
    <2>6. PlaceInv'
      <3>1. Distinct(ring)' /\ (\A k \in unforked' : ~Placed(k)')
        BY <1>1, <1>3, <2>5, FiniteSets DEF PlaceInv, TypeOK, Distinct
      <3>2. \A d \in Cores : ~Queued(current[d])'
        BY <1>3, <2>1 DEF PlaceInv, Queued
      <3>3. \A a, b \in Cores : current'[a] = current'[b] /\ current'[a] # None => a = b
        BY <2>1, <2>2 DEF PlaceInv
      <3> QED BY <3>1, <3>2, <3>3 DEF PlaceInv
    <2>7. SkipInv'
      <3>1. \A d \in Cores : pc'[d] \in Holding \ {"pushSkipped"} => ~skip[current'[d]]
        BY <1>3, <2>1 DEF SkipInv
      <3> QED BY <1>0, <1>1, <2>5, <3>1 DEF SkipInv
    <2>8. JoinInv'
      BY <1>0, <1>1, <2>5, SamePlaces
    <2>9. CountersExact'
      <3>1. ASSUME NEW x \in Executables PROVE IsPending(x)' <=> IsPending(x)
        <4>1. CASE x = e
          <5>1. IsPending(e)
            BY <1>3 DEF IsPending
          <5>2. IsPending(e)'
            BY <2>1 DEF IsPending
          <5> QED BY <4>1, <5>1, <5>2
        <4>2. CASE x # e
          <5>1. Queued(x)' <=> Queued(x)
            BY <1>3, <4>2
          <5>2. \A d \in Cores : current'[d] = x /\ pc'[d] \in {"count", "push"} <=> current[d] = x /\ pc[d] \in {"count", "push"}
            BY <1>0, <2>1, <4>2
          <5>3. \A d \in Cores : current'[d] = x /\ pc'[d] = "pushSkipped" <=> current[d] = x /\ pc[d] = "pushSkipped"
            BY <1>0, <2>1, <4>2
          <5>4. \A d \in Cores : pc'[d] = "forkPush" <=> pc[d] = "forkPush"
            BY <1>0, <2>1
          <5> QED BY <1>1, <5>1, <5>2, <5>3, <5>4 DEF IsPending
        <4> QED BY <4>1, <4>2
      <3> QED BY <1>0, <1>1, <3>1, CountSame
    <2> QED BY <2>4, <2>6, <2>7, <2>8, <2>9 DEF Kept
  <1> QED BY <1>2, <1>3, PopTakes

\* The core goes on with the executable that it holds.
LEMMA HoldsOn ==
  ASSUME ExecutorInv, NEW c \in Cores, NEW p \in Holding \ {"fork", "forkPush"},
         pc[c] \in Holding \ {"forkPush"}, Goto(c, p),
         UNCHANGED <<ring, current, pushing, unforked, counter, active>>
  PROVE  /\ HeldInv' /\ PlaceInv' /\ JoinInv' /\ Active
         /\ \A d \in Cores : pc'[d] = IF d = c THEN p ELSE pc[d]
         /\ \A x : (Queued(x)' <=> Queued(x)) /\ (Placed(x)' <=> Placed(x))
  <1> USE DEF ExecutorInv
  <1>1. Active
    BY DEF Active, Holding
  <1>2. \A d \in Cores : pc'[d] = IF d = c THEN p ELSE pc[d]
    BY DEF Goto, TypeOK
  <1>3. \A x : (Queued(x)' <=> Queued(x)) /\ (Placed(x)' <=> Placed(x))
    BY DEF Queued, Placed, Held
  <1>4. HeldInv'
    <2> SUFFICES ASSUME NEW d \in Cores
                 PROVE  /\ current[d] # None <=> pc'[d] \in Holding
                        /\ pushing[d] # None <=> pc'[d] = "forkPush"
                        /\ pc'[d] \in {"fork", "forkPush"} => current[d] = Root
                        /\ pc'[d] = "forkPush" => pushing[d] \in unforked
      BY DEF HeldInv
    <2>1. CASE d = c
      BY <1>2, <2>1 DEF HeldInv
    <2>2. CASE d # c
      BY <1>2, <2>2 DEF HeldInv
    <2> QED BY <2>1, <2>2
  <1>5. PlaceInv'
    BY <1>3 DEF PlaceInv
  <1>6. JoinInv'
    BY <1>1, <1>3, SamePlaces
  <1> QED BY <1>1, <1>2, <1>3, <1>4, <1>5, <1>6

\* The counters after pop().
LEMMA PopCountStep ==
  ASSUME ExecutorInv, NEW c \in Cores, PopCount(c)
  PROVE  Kept'
  <1> DEFINE e == current[c]
  <1>1. pc[c] = "count" /\ Goto(c, "resume") /\ Count(e, -1)
    BY DEF PopCount
  <1>2. UNCHANGED <<ring, skip, current, pushing, unforked, counter, active, asleep, waking>>
    BY DEF PopCount, runVars, programVars, eventVars
  <1>3. pc[c] \in Holding \ {"forkPush"} /\ "resume" \in Holding \ {"fork", "forkPush"}
    BY <1>1 DEF Holding
  <1>4. /\ HeldInv' /\ PlaceInv' /\ JoinInv' /\ Active
        /\ \A d \in Cores : pc'[d] = IF d = c THEN "resume" ELSE pc[d]
        /\ \A x : (Queued(x)' <=> Queued(x)) /\ (Placed(x)' <=> Placed(x))
    BY <1>1, <1>2, <1>3, HoldsOn
  <1>5. /\ e \in Executables /\ ~Queued(e) /\ waking # e /\ ~skip[e]
        /\ \A d \in Cores : current[d] = e => d = c
        /\ \A d \in Cores : pushing[d] # e \/ pc[d] # "forkPush"
    BY <1>1, <1>3, HeldFacts
  <1>6. SkipInv'
    BY <1>2, <1>4, <1>5 DEF ExecutorInv, SkipInv
  <1>7. CountersExact'
    <2>1. IsPending(e)
      BY <1>1 DEF IsPending
    <2>2. ASSUME NEW x \in Executables PROVE IsPending(x)' <=> IsPending(x) /\ x # e
      <3>1. CASE x = e
        BY <1>2, <1>4, <1>5, <3>1 DEF IsPending
      <3>2. CASE x # e
        <4>1. /\ Queued(x)' <=> Queued(x)
              /\ \A d \in Cores :
                   /\ current'[d] = x /\ pc'[d] \in {"count", "push"} <=> current[d] = x /\ pc[d] \in {"count", "push"}
                   /\ current'[d] = x /\ pc'[d] = "pushSkipped" <=> current[d] = x /\ pc[d] = "pushSkipped"
                   /\ pushing'[d] = x /\ pc'[d] = "forkPush" <=> pushing[d] = x /\ pc[d] = "forkPush"
          BY <1>1, <1>2, <1>4, <3>2
        <4> QED BY <1>2, <3>2, <4>1, PendingSame
      <3> QED BY <3>1, <3>2
    <2> QED BY <1>1, <1>4, <1>5, <2>1, <2>2, CountDown DEF ExecutorInv
  <1> QED BY <1>4, <1>6, <1>7 DEF Kept

\* An executable that yields.
LEMMA YieldStep ==
  ASSUME ExecutorInv, NEW c \in Cores, Yield(c)
  PROVE  Kept'
  <1> DEFINE e == current[c]
  <1>1. pc[c] = "resume" /\ Goto(c, "push") /\ Count(e, 1)
    BY DEF Yield
  <1>2. UNCHANGED <<ring, skip, current, pushing, unforked, counter, active, asleep, waking>>
    BY DEF Yield, runVars, eventVars
  <1>3. pc[c] \in Holding \ {"forkPush"} /\ "push" \in Holding \ {"fork", "forkPush"}
    BY <1>1 DEF Holding
  <1>4. /\ HeldInv' /\ PlaceInv' /\ JoinInv' /\ Active
        /\ \A d \in Cores : pc'[d] = IF d = c THEN "push" ELSE pc[d]
        /\ \A x : (Queued(x)' <=> Queued(x)) /\ (Placed(x)' <=> Placed(x))
    BY <1>1, <1>2, <1>3, HoldsOn
  <1>5. e \in Executables /\ ~skip[e] /\ ~IsPending(e)
    BY <1>1, <1>3, HeldFacts, RunningNotPending
  <1>6. SkipInv'
    BY <1>2, <1>4, <1>5 DEF ExecutorInv, SkipInv
  <1>7. CountersExact'
    <2>1. ASSUME NEW x \in Executables PROVE IsPending(x)' <=> IsPending(x) \/ x = e
      <3>1. CASE x = e
        BY <1>2, <1>4, <3>1 DEF IsPending
      <3>2. CASE x # e
        <4>1. /\ Queued(x)' <=> Queued(x)
              /\ \A d \in Cores :
                   /\ current'[d] = x /\ pc'[d] \in {"count", "push"} <=> current[d] = x /\ pc[d] \in {"count", "push"}
                   /\ current'[d] = x /\ pc'[d] = "pushSkipped" <=> current[d] = x /\ pc[d] = "pushSkipped"
                   /\ pushing'[d] = x /\ pc'[d] = "forkPush" <=> pushing[d] = x /\ pc[d] = "forkPush"
          BY <1>1, <1>2, <1>4, <3>2
        <4> QED BY <1>2, <3>2, <4>1, PendingSame
      <3> QED BY <3>1, <3>2
    <2> QED BY <1>1, <1>4, <1>5, <2>1, CountUp DEF ExecutorInv
  <1> QED BY <1>4, <1>6, <1>7 DEF Kept

\* An executable that suspends.
LEMMA SuspendStep ==
  ASSUME ExecutorInv, NEW c \in Cores, Suspend(c)
  PROVE  Kept'
  <1> DEFINE e == current[c]
  <1>1. /\ pc[c] = "resume" /\ Goto(c, "pushSkipped")
        /\ skip' = [skip EXCEPT ![e] = TRUE] /\ asleep' = asleep \cup {e}
    BY DEF Suspend
  <1>2. UNCHANGED <<ring, workloadCount, queueCount, current, pushing, unforked, counter, active, waking>>
    BY DEF Suspend
  <1>3. pc[c] \in Holding \ {"forkPush"} /\ "pushSkipped" \in Holding \ {"fork", "forkPush"}
    BY <1>1 DEF Holding
  <1>4. /\ HeldInv' /\ PlaceInv' /\ JoinInv' /\ Active
        /\ \A d \in Cores : pc'[d] = IF d = c THEN "pushSkipped" ELSE pc[d]
        /\ \A x : (Queued(x)' <=> Queued(x)) /\ (Placed(x)' <=> Placed(x))
    BY <1>1, <1>2, <1>3, HoldsOn
  <1>5. /\ e \in Executables /\ ~skip[e] /\ ~IsPending(e) /\ waking # e /\ Placed(e) /\ ~Queued(e)
        /\ \A d \in Cores : current[d] = e => d = c
        /\ \A d \in Cores : pushing[d] # e \/ pc[d] # "forkPush"
    BY <1>1, <1>3, HeldFacts, RunningNotPending
  <1>6. \A x \in Executables : skip'[x] = IF x = e THEN TRUE ELSE skip[x]
    BY <1>1 DEF ExecutorInv, TypeOK
  <1>7. SkipInv'
    <2>1. \A x \in asleep' : skip'[x] /\ waking' # x
      BY <1>1, <1>2, <1>5, <1>6, FiniteSets DEF ExecutorInv, SkipInv, TypeOK
    <2>2. waking' # None => skip'[waking']
      BY <1>2, <1>5, <1>6, FiniteSets DEF ExecutorInv, SkipInv, TypeOK
    <2>3. ASSUME NEW d \in Cores, pc'[d] \in Holding \ {"pushSkipped"} PROVE ~skip'[current'[d]]
      <3>1. d # c /\ pc[d] \in Holding \ {"pushSkipped"}
        BY <1>4, <2>3
      <3>2. current[d] \in Executables /\ ~skip[current[d]] /\ current[d] # e
        BY <1>5, <3>1, HeldFacts
      <3> QED BY <1>2, <1>6, <3>2
    <2>4. \A x \in Executables : skip'[x] => Placed(x)'
      BY <1>4, <1>5, <1>6 DEF ExecutorInv, SkipInv
    <2> QED BY <2>1, <2>2, <2>3, <2>4 DEF SkipInv
  <1>8. CountersExact'
    <2>1. ASSUME NEW x \in Executables PROVE IsPending(x)' <=> IsPending(x)
      <3>1. CASE x = e
        BY <1>2, <1>4, <1>5, <1>6, <3>1 DEF IsPending
      <3>2. CASE x # e
        <4>1. /\ Queued(x)' <=> Queued(x)
              /\ skip'[x] <=> skip[x]
              /\ \A d \in Cores :
                   /\ current'[d] = x /\ pc'[d] \in {"count", "push"} <=> current[d] = x /\ pc[d] \in {"count", "push"}
                   /\ current'[d] = x /\ pc'[d] = "pushSkipped" <=> current[d] = x /\ pc[d] = "pushSkipped"
                   /\ pushing'[d] = x /\ pc'[d] = "forkPush" <=> pushing[d] = x /\ pc[d] = "forkPush"
          BY <1>1, <1>2, <1>4, <1>6, <3>2
        <4> QED BY <1>2, <4>1, PendingSame
      <3> QED BY <3>1, <3>2
    <2> QED BY <1>2, <1>4, <2>1, CountSame DEF ExecutorInv
  <1> QED BY <1>4, <1>7, <1>8 DEF Kept

\* push() after a yield.
LEMMA PushStep ==
  ASSUME ExecutorInv, NEW c \in Cores, Push(c)
  PROVE  Kept'
  <1> USE DEF ExecutorInv
  <1> DEFINE e == current[c]
  <1>1. pc[c] \in {"push", "pushSkipped"} /\ Goto(c, "tick") /\ Drop(c)
    BY DEF Push
  <1>2. UNCHANGED <<skip, workloadCount, queueCount, pushing, unforked, counter, active, asleep, waking>>
    BY DEF Push, runVars, programVars, eventVars
  <1>3. pc[c] \in Holding /\ Active /\ "tick" \notin Holding
    BY <1>1 DEF Holding, Active
  <1>4. /\ e \in Executables /\ ring' \in Seq(Executables \cup {Dummy}) /\ Distinct(ring')
        /\ \A x : Queued(x)' <=> Queued(x) \/ x = e
    BY PushPuts
  <1>5. \A d \in Cores : /\ current'[d] = IF d = c THEN None ELSE current[d]
                         /\ pc'[d] = IF d = c THEN "tick" ELSE pc[d]
    BY <1>1 DEF Goto, Drop, TypeOK
  <1>6. /\ Held(e) /\ ~Queued(e) /\ (\A d \in Cores : current[d] = e => d = c)
        /\ \A d \in Cores : pushing[d] # e \/ pc[d] # "forkPush"
    BY <1>3, HeldFacts
  <1>7. \A x \in Executables : Placed(x)' <=> Placed(x)
    <2> SUFFICES ASSUME NEW x \in Executables PROVE Placed(x)' <=> Placed(x)
      OBVIOUS
    <2>1. x # None
      BY ExecutablesAssumption
    <2>2. Held(x)' <=> Held(x) /\ x # e
      BY <1>5, <1>6, <2>1 DEF Held
    <2> QED BY <1>4, <1>6, <2>2 DEF Placed
  <1>8. HeldInv'
    <2> SUFFICES ASSUME NEW d \in Cores
                 PROVE  /\ current'[d] # None <=> pc'[d] \in Holding
                        /\ pushing[d] # None <=> pc'[d] = "forkPush"
                        /\ pc'[d] \in {"fork", "forkPush"} => current'[d] = Root
                        /\ pc'[d] = "forkPush" => pushing[d] \in unforked
      BY <1>2 DEF HeldInv
    <2>1. CASE d = c
      BY <1>1, <1>3, <1>5, <2>1 DEF HeldInv
    <2>2. CASE d # c
      BY <1>5, <2>2 DEF HeldInv
    <2> QED BY <2>1, <2>2
  <1>9. PlaceInv'
    <2>1. Distinct(ring)' /\ (\A k \in unforked' : ~Placed(k)')
      BY <1>2, <1>4, <1>7, FiniteSets DEF PlaceInv, TypeOK, Distinct
    <2>2. ASSUME NEW d \in Cores PROVE ~Queued(current[d])'
      <3>1. CASE d = c
        <4>1. ~Queued(None) /\ None # e
          BY <1>4, NoneNowhere
        <4> QED BY <1>4, <1>5, <3>1, <4>1 DEF Queued
      <3>2. CASE d # c
        BY <1>4, <1>5, <1>6, <3>2 DEF PlaceInv, Queued
      <3> QED BY <3>1, <3>2
    <2>3. \A a, b \in Cores : current'[a] = current'[b] /\ current'[a] # None => a = b
      BY <1>5 DEF PlaceInv
    <2> QED BY <2>1, <2>2, <2>3 DEF PlaceInv
  <1>10. SkipInv'
    <2>1. \A d \in Cores : pc'[d] \in Holding \ {"pushSkipped"} => ~skip[current'[d]]
      BY <1>3, <1>5 DEF SkipInv
    <2> QED BY <1>2, <1>3, <1>7, <2>1 DEF SkipInv
  <1>11. JoinInv'
    BY <1>2, <1>3, <1>7, SamePlaces
  <1>12. CountersExact'
    <2>1. ASSUME NEW x \in Executables PROVE IsPending(x)' <=> IsPending(x)
      <3>1. CASE x = e
        <4>1. IsPending(e) <=> waking = e \/ ~skip[e]
          <5>1. pc[c] = "push" => ~skip[e]
            BY <1>3, HeldFacts
          <5> QED BY <1>1, <1>6, <5>1 DEF IsPending
        <4>2. IsPending(x)' <=> waking = e \/ ~skip[e]
          <5>1. \A d \in Cores : current'[d] # e /\ (pushing[d] # e \/ pc'[d] # "forkPush")
            BY <1>4, <1>5, <1>6, ExecutablesAssumption
          <5> QED BY <1>2, <1>4, <3>1, <5>1 DEF IsPending
        <4> QED BY <3>1, <4>1, <4>2
      <3>2. CASE x # e
        <4>1. x # None /\ (Queued(x)' <=> Queued(x))
          BY <1>4, <3>2, ExecutablesAssumption
        <4>2. \A d \in Cores :
                /\ current'[d] = x /\ pc'[d] \in {"count", "push"} <=> current[d] = x /\ pc[d] \in {"count", "push"}
                /\ current'[d] = x /\ pc'[d] = "pushSkipped" <=> current[d] = x /\ pc[d] = "pushSkipped"
                /\ pushing'[d] = x /\ pc'[d] = "forkPush" <=> pushing[d] = x /\ pc[d] = "forkPush"
          BY <1>1, <1>2, <1>5, <3>2, <4>1
        <4> QED BY <1>2, <4>1, <4>2, PendingSame
      <3> QED BY <3>1, <3>2
    <2> QED BY <1>2, <1>3, <2>1, CountSame
  <1> QED BY <1>8, <1>9, <1>10, <1>11, <1>12 DEF Kept

\* The core lets go of an executable that runs and is over.
LEMMA LetsGo ==
  ASSUME ExecutorInv, NEW c \in Cores, NEW p, p \notin Holding,
         pc[c] = "resume", Drop(c), Goto(c, p),
         UNCHANGED <<ring, skip, workloadCount, queueCount, pushing, unforked, asleep, waking>>
  PROVE  /\ HeldInv' /\ PlaceInv' /\ SkipInv' /\ CountersExact' /\ Active
         /\ \A x \in Executables : Placed(x)' <=> Placed(x) /\ x # current[c]
  <1> USE DEF ExecutorInv
  <1> DEFINE e == current[c]
  <1>1. pc[c] \in Holding /\ Active
    BY DEF Holding, Active
  <1>2. \A d \in Cores : /\ current'[d] = IF d = c THEN None ELSE current[d]
                         /\ pc'[d] = IF d = c THEN p ELSE pc[d]
    BY DEF Goto, Drop, TypeOK
  <1>3. /\ e \in Executables /\ Held(e) /\ ~Queued(e) /\ ~skip[e] /\ waking # e
        /\ \A d \in Cores : current[d] = e => d = c
        /\ \A d \in Cores : pushing[d] # e \/ pc[d] # "forkPush"
    BY <1>1, HeldFacts
  <1>4. \A x : Queued(x)' <=> Queued(x)
    BY DEF Queued
  <1>5. \A x \in Executables : Placed(x)' <=> Placed(x) /\ x # e
    <2> SUFFICES ASSUME NEW x \in Executables PROVE Placed(x)' <=> Placed(x) /\ x # e
      OBVIOUS
    <2>1. x # None
      BY ExecutablesAssumption
    <2>2. Held(x)' <=> Held(x) /\ x # e
      BY <1>2, <1>3, <2>1 DEF Held
    <2> QED BY <1>3, <1>4, <2>2 DEF Placed
  <1>6. HeldInv'
    <2> SUFFICES ASSUME NEW d \in Cores
                 PROVE  /\ current'[d] # None <=> pc'[d] \in Holding
                        /\ pushing[d] # None <=> pc'[d] = "forkPush"
                        /\ pc'[d] \in {"fork", "forkPush"} => current'[d] = Root
                        /\ pc'[d] = "forkPush" => pushing[d] \in unforked
      BY DEF HeldInv
    <2>1. CASE d = c
      BY <1>1, <1>2, <2>1 DEF HeldInv, Holding
    <2>2. CASE d # c
      BY <1>2, <2>2 DEF HeldInv
    <2> QED BY <2>1, <2>2
  <1>7. PlaceInv'
    <2>1. Distinct(ring)' /\ (\A k \in unforked' : ~Placed(k)')
      BY <1>5, FiniteSets DEF PlaceInv, TypeOK, Distinct
    <2>2. \A d \in Cores : ~Queued(current[d])'
      BY <1>2, <1>4, NoneNowhere DEF PlaceInv, Queued
    <2>3. \A a, b \in Cores : current'[a] = current'[b] /\ current'[a] # None => a = b
      BY <1>2 DEF PlaceInv
    <2> QED BY <2>1, <2>2, <2>3 DEF PlaceInv
  <1>8. SkipInv'
    <2>1. \A d \in Cores : pc'[d] \in Holding \ {"pushSkipped"} => ~skip[current'[d]]
      BY <1>1, <1>2 DEF SkipInv
    <2>2. \A x \in Executables : skip[x] => Placed(x)'
      BY <1>1, <1>3, <1>5 DEF SkipInv
    <2> QED BY <2>1, <2>2 DEF SkipInv
  <1>9. CountersExact'
    <2>1. ASSUME NEW x \in Executables PROVE IsPending(x)' <=> IsPending(x)
      <3>1. x # None
        BY ExecutablesAssumption
      <3>2. \A d \in Cores :
              /\ current'[d] = x /\ pc'[d] \in {"count", "push"} <=> current[d] = x /\ pc[d] \in {"count", "push"}
              /\ current'[d] = x /\ pc'[d] = "pushSkipped" <=> current[d] = x /\ pc[d] = "pushSkipped"
              /\ pushing'[d] = x /\ pc'[d] = "forkPush" <=> pushing[d] = x /\ pc[d] = "forkPush"
        BY <1>1, <1>2, <3>1 DEF Holding
      <3> QED BY <1>4, <3>2, PendingSame
    <2> QED BY <1>1, <2>1, CountSame
  <1> QED BY <1>1, <1>5, <1>6, <1>7, <1>8, <1>9

\* A child that terminates was counted neither before nor by another one.
LEMMA ChildEnded ==
  ASSUME ExecutorInv, NEW c \in Cores, pc[c] = "resume", current[c] \in Children
  PROVE  /\ Active /\ current[c] \notin Ended /\ current[c] \notin unforked
         /\ Ended \cup {current[c]} \subseteq Children
         /\ Cardinality(Ended \cup {current[c]}) = counter + 1
         /\ counter + 1 <= Cardinality(Children)
         /\ counter + 1 = Cardinality(Children) => Ended \cup {current[c]} = Children
         /\ active # 0
  <1> DEFINE e == current[c]
             T == Ended \cup {e}
  <1>1. pc[c] \in Holding /\ Active
    BY DEF Holding, Active
  <1>2. Placed(e) /\ e \notin unforked
    BY <1>1, HeldFacts
  <1>3. e \notin Ended /\ Ended \subseteq Children /\ T \subseteq Children
    BY <1>2 DEF Ended
  <1>4. counter = Cardinality(Ended) /\ (active = 0 => Ended = Children)
    BY <1>1 DEF ExecutorInv, JoinInv
  <1>5. IsFiniteSet(Ended) /\ Cardinality(Ended) \in Nat
    BY <1>3, FiniteSets, FS_Subset, FS_CardinalityType
  <1>6. Cardinality(T) = Cardinality(Ended) + 1
    BY <1>3, <1>5, FS_AddElement
  <1>7. Cardinality(T) <= Cardinality(Children) /\ (Cardinality(Children) = Cardinality(T) => Children = T)
    <2> HIDE DEF T
    <2> QED BY <1>3, FiniteSets, FS_Subset
  <1> QED BY <1>1, <1>2, <1>3, <1>4, <1>6, <1>7

\* A child that ends, the last of which resumes its parent.
LEMMA ChildEndsStep ==
  ASSUME ExecutorInv, NEW c \in Cores, ChildEnds(c)
  PROVE  Kept'
  <1> USE DEF ExecutorInv
  <1> DEFINE e == current[c]
  <1>1. pc[c] = "resume" /\ e \in Children /\ counter' = counter + 1
    BY DEF ChildEnds
  <1>2. UNCHANGED <<ring, skip, workloadCount, queueCount, pushing, unforked, active, asleep, waking>>
    BY DEF ChildEnds, queueVars, eventVars
  <1>3. pc[c] \in Holding /\ e # Root
    BY <1>1, ExecutablesAssumption DEF Holding
  <1>4. /\ Active /\ e \notin Ended /\ e \notin unforked
        /\ Cardinality(Ended \cup {e}) = counter + 1
        /\ counter + 1 = Cardinality(Children) => Ended \cup {e} = Children
        /\ active # 0
    BY <1>1, ChildEnded
  <1>5. /\ e \in Executables /\ Held(e) /\ ~Queued(e)
        /\ \A d \in Cores : current[d] = e => d = c
    BY <1>3, HeldFacts
  <1>6. Root \in Executables /\ Root # None /\ \A k \in Children : k \in Executables /\ k # Root
    BY NoneNowhere, FiniteSets, ExecutablesAssumption
  <1>7. CASE counter + 1 # Cardinality(Children)
    <2>1. Drop(c) /\ Goto(c, "tick") /\ "tick" \notin Holding
      BY <1>1, <1>7 DEF ChildEnds, Holding
    <2>2. /\ HeldInv' /\ PlaceInv' /\ SkipInv' /\ CountersExact'
          /\ \A x \in Executables : Placed(x)' <=> Placed(x) /\ x # e
      BY <1>1, <1>2, <2>1, LetsGo
    <2>3. Ended' = Ended \cup {e}
      BY <1>1, <1>2, <1>4, <1>6, <2>2 DEF Ended
    <2>4. JoinInv'
      <3>1. unforked = {} /\ Ended' # Children => ~Placed(Root)'
        <4>1. Ended # Children
          BY <1>1, <1>4
        <4> QED BY <1>4, <1>6, <2>2, <4>1 DEF JoinInv
      <3> QED BY <1>1, <1>2, <1>4, <2>3, <3>1 DEF JoinInv
    <2> QED BY <2>2, <2>4 DEF Kept
  <1>8. CASE counter + 1 = Cardinality(Children)
    <2>1. current' = [current EXCEPT ![c] = Root] /\ pc' = pc
      BY <1>1, <1>8 DEF ChildEnds
    <2>2. Ended \cup {e} = Children /\ unforked = {} /\ Ended # Children
      BY <1>1, <1>4, <1>8 DEF TypeOK, Ended
    <2>3. ~Placed(Root)
      BY <1>4, <2>2 DEF JoinInv
    <2>4. \A d \in Cores : current'[d] = IF d = c THEN Root ELSE current[d]
      BY <2>1 DEF TypeOK
    <2>5. \A x : Queued(x)' <=> Queued(x)
      BY <1>2 DEF Queued
    <2>6. \A x \in Executables : Placed(x)' <=> (Placed(x) /\ x # e) \/ x = Root
      <3> SUFFICES ASSUME NEW x \in Executables PROVE Placed(x)' <=> (Placed(x) /\ x # e) \/ x = Root
        OBVIOUS
      <3>1. Held(x)' <=> (Held(x) /\ x # e) \/ x = Root
        BY <1>5, <2>4 DEF Held
      <3> QED BY <1>5, <2>5, <3>1 DEF Placed
    <2>7. HeldInv'
      BY <1>1, <1>2, <1>3, <1>6, <2>1, <2>4 DEF HeldInv
    <2>8. PlaceInv'
      <3>1. Distinct(ring)' /\ (\A k \in unforked' : ~Placed(k)')
        BY <1>2, <2>2 DEF PlaceInv, Distinct
      <3>2. \A d \in Cores : ~Queued(current[d])'
        BY <2>3, <2>4, <2>5 DEF PlaceInv, Placed, Queued
      <3>3. \A a, b \in Cores : current'[a] = current'[b] /\ current'[a] # None => a = b
        BY <2>3, <2>4 DEF PlaceInv, Placed, Held
      <3> QED BY <3>1, <3>2, <3>3 DEF PlaceInv
    <2>9. SkipInv'
      <3>1. ~skip[Root] /\ ~skip[e]
        BY <1>1, <1>3, <1>4, <1>6, <2>3, HeldFacts DEF SkipInv
      <3>2. \A d \in Cores : pc[d] \in Holding \ {"pushSkipped"} => ~skip[current'[d]]
        BY <2>4, <3>1 DEF SkipInv
      <3>3. \A x \in Executables : skip[x] => Placed(x)'
        BY <1>4, <2>6, <3>1 DEF SkipInv
      <3> QED BY <1>2, <2>1, <3>2, <3>3 DEF SkipInv
    <2>10. JoinInv'
      <3>1. Ended' = Children
        <4>1. \A k \in Children : ~Placed(k)'
          BY <1>6, <2>2, <2>6 DEF Ended
        <4> QED BY <1>2, <2>2, <4>1 DEF Ended
      <3> QED BY <1>1, <1>2, <1>4, <1>8, <3>1 DEF JoinInv
    <2>11. CountersExact'
      <3>1. ASSUME NEW x \in Executables PROVE IsPending(x)' <=> IsPending(x)
        <4>1. \A d \in Cores :
                /\ current'[d] = x /\ pc'[d] \in {"count", "push"} <=> current[d] = x /\ pc[d] \in {"count", "push"}
                /\ current'[d] = x /\ pc'[d] = "pushSkipped" <=> current[d] = x /\ pc[d] = "pushSkipped"
                /\ pushing'[d] = x /\ pc'[d] = "forkPush" <=> pushing[d] = x /\ pc[d] = "forkPush"
          BY <1>1, <1>2, <2>1, <2>4
        <4> QED BY <1>2, <2>5, <4>1, PendingSame
      <3> QED BY <1>2, <1>4, <3>1, CountSame
    <2> QED BY <2>7, <2>8, <2>9, <2>10, <2>11 DEF Kept
  <1> QED BY <1>7, <1>8

\* The caller terminates after all its children.
LEMMA RootEnded ==
  ASSUME ExecutorInv, NEW c \in Cores, pc[c] = "resume", current[c] = Root, unforked = {}
  PROVE  Active /\ Ended = Children /\ active = 1
  <1>1. pc[c] \in Holding /\ Active
    BY DEF Holding, Active
  <1>2. Placed(Root)
    BY <1>1, HeldFacts
  <1> QED BY <1>1, <1>2 DEF ExecutorInv, JoinInv, TypeOK

\* The end of the workload the executor runs.
LEMMA RootEndsStep ==
  ASSUME ExecutorInv, NEW c \in Cores, RootEnds(c)
  PROVE  Kept'
  <1> USE DEF ExecutorInv
  <1>1. /\ pc[c] = "resume" /\ current[c] = Root /\ unforked = {} /\ active' = active - 1
        /\ Drop(c) /\ Goto(c, "shutdown")
    BY DEF RootEnds
  <1>2. UNCHANGED <<ring, skip, workloadCount, queueCount, pushing, unforked, counter, asleep, waking>>
    BY DEF RootEnds, queueVars, eventVars
  <1>3. Active /\ Ended = Children /\ active = 1
    BY <1>1, RootEnded
  <1>4. /\ HeldInv' /\ PlaceInv' /\ SkipInv' /\ CountersExact'
        /\ \A x \in Executables : Placed(x)' <=> Placed(x) /\ x # Root
    <2>1. "shutdown" \notin Holding
      BY DEF Holding
    <2> QED BY <1>1, <1>2, <2>1, LetsGo
  <1>5. JoinInv'
    <2>1. Ended' = Ended
      BY <1>2, <1>4, FiniteSets, ExecutablesAssumption DEF Ended
    <2> QED BY <1>1, <1>2, <1>3, <1>4, <2>1, NoneNowhere DEF JoinInv
  <1> QED BY <1>4, <1>5 DEF Kept

\* enqueueAsyncs() counts a child before it is in the queue.
LEMMA ForkStep ==
  ASSUME ExecutorInv, NEW c \in Cores, Fork(c)
  PROVE  Kept'
  <1> USE DEF ExecutorInv
  <1>1. PICK k \in unforked :
          /\ pc[c] \in {"resume", "fork"} /\ current[c] = Root
          /\ Count(k, 1)
          /\ pushing' = [pushing EXCEPT ![c] = k]
          /\ Goto(c, "forkPush")
          /\ UNCHANGED <<ring, skip, current, unforked, counter, active, asleep, waking>>
    BY DEF Fork, runVars, eventVars
  <1>2. pc[c] \in Holding \ {"pushSkipped"} /\ Active
    BY <1>1 DEF Holding, Active
  <1>3. \A d \in Cores : /\ pushing'[d] = IF d = c THEN k ELSE pushing[d]
                         /\ pc'[d] = IF d = c THEN "forkPush" ELSE pc[d]
    BY <1>1 DEF Goto, TypeOK
  <1>4. k \in Children /\ k \in Executables /\ k # None /\ ~Placed(k)
    BY FiniteSets, ExecutablesAssumption DEF TypeOK, PlaceInv
  <1>5. \A x : (Queued(x)' <=> Queued(x)) /\ (Placed(x)' <=> Placed(x))
    BY <1>1 DEF Queued, Placed, Held
  <1>6. HeldInv'
    <2> SUFFICES ASSUME NEW d \in Cores
                 PROVE  /\ current[d] # None <=> pc'[d] \in Holding
                        /\ pushing'[d] # None <=> pc'[d] = "forkPush"
                        /\ pc'[d] \in {"fork", "forkPush"} => current[d] = Root
                        /\ pc'[d] = "forkPush" => pushing'[d] \in unforked
      BY <1>1 DEF HeldInv
    <2>1. CASE d = c
      BY <1>1, <1>2, <1>3, <1>4, <2>1 DEF HeldInv, Holding
    <2>2. CASE d # c
      BY <1>3, <2>2 DEF HeldInv
    <2> QED BY <2>1, <2>2
  <1>7. PlaceInv'
    BY <1>1, <1>5 DEF PlaceInv
  <1>8. SkipInv'
    <2>1. \A d \in Cores : pc'[d] \in Holding \ {"pushSkipped"} => ~skip[current[d]]
      BY <1>2, <1>3 DEF SkipInv
    <2> QED BY <1>1, <1>2, <1>5, <2>1 DEF SkipInv
  <1>9. JoinInv'
    BY <1>1, <1>2, <1>5, SamePlaces
  <1>10. CountersExact'
    <2>1. ~IsPending(k)
      <3>1. waking # k
        BY <1>2, <1>4 DEF SkipInv
      <3>2. \A d \in Cores : pushing[d] # k \/ pc[d] # "forkPush"
        <4> SUFFICES ASSUME NEW d \in Cores, pc[d] = "forkPush", pushing[d] = k PROVE FALSE
          OBVIOUS
        <4>1. current[d] = Root /\ Root # None
          BY NoneNowhere DEF HeldInv
        <4> QED BY <1>1, <4>1 DEF PlaceInv
      <3> QED BY <1>4, <3>1, <3>2 DEF IsPending, Placed, Held
    <2>2. ASSUME NEW x \in Executables PROVE IsPending(x)' <=> IsPending(x) \/ x = k
      <3>1. CASE x = k
        BY <1>3, <3>1 DEF IsPending
      <3>2. CASE x # k
        <4>1. \A d \in Cores :
                /\ current'[d] = x /\ pc'[d] \in {"count", "push"} <=> current[d] = x /\ pc[d] \in {"count", "push"}
                /\ current'[d] = x /\ pc'[d] = "pushSkipped" <=> current[d] = x /\ pc[d] = "pushSkipped"
                /\ pushing'[d] = x /\ pc'[d] = "forkPush" <=> pushing[d] = x /\ pc[d] = "forkPush"
          BY <1>1, <1>3, <3>2
        <4> QED BY <1>1, <1>5, <3>2, <4>1, PendingSame
      <3> QED BY <3>1, <3>2
    <2> QED BY <1>1, <1>2, <1>4, <2>1, <2>2, CountUp
  <1> QED BY <1>6, <1>7, <1>8, <1>9, <1>10 DEF Kept

\* Who forks is alone in doing so.
LEMMA OneForks ==
  ASSUME ExecutorInv, NEW c \in Cores, pc[c] \in {"fork", "forkPush"}
  PROVE  \A d \in Cores : pc[d] \in {"fork", "forkPush"} => d = c
  BY NoneNowhere DEF ExecutorInv, HeldInv, PlaceInv

\* ... then it is in the queue, and the caller waits after the last one.
LEMMA ForkPushStep ==
  ASSUME ExecutorInv, NEW c \in Cores, ForkPush(c)
  PROVE  Kept'
  <1> USE DEF ExecutorInv
  <1> DEFINE k == pushing[c]
             last == unforked \ {k} = {}
  <1>1. /\ pc[c] = "forkPush"
        /\ unforked' = unforked \ {k}
        /\ pushing' = [pushing EXCEPT ![c] = None]
        /\ UNCHANGED <<skip, workloadCount, queueCount, counter, active, asleep, waking>>
    BY DEF ForkPush, runVars, eventVars
  <1>2. /\ k \in unforked /\ k \in Children /\ Distinct(ring')
        /\ \A x : Queued(x)' <=> Queued(x) \/ x = k
    BY ForkPuts
  <1>3. \A d \in Cores : /\ current'[d] = IF d = c /\ last THEN None ELSE current[d]
                         /\ pushing'[d] = IF d = c THEN None ELSE pushing[d]
                         /\ pc'[d] = IF d = c THEN (IF last THEN "tick" ELSE "fork") ELSE pc[d]
    BY <1>1 DEF ForkPush, Goto, Drop, TypeOK
  <1>4. pc[c] \in Holding \ {"pushSkipped"} /\ Active /\ current[c] = Root
    BY <1>1 DEF Holding, Active, HeldInv
  <1>5. /\ Root \in Executables /\ Root # None /\ Held(Root) /\ ~Queued(Root) /\ ~skip[Root]
        /\ \A d \in Cores : current[d] = Root => d = c
    BY <1>4, HeldFacts, NoneNowhere
  <1>6. k \in Executables /\ k # None /\ k # Root /\ ~Placed(k)
    BY <1>2, FiniteSets, ExecutablesAssumption DEF PlaceInv
  <1>7. \A d \in Cores : d # c => pc[d] \notin {"fork", "forkPush"}
    BY <1>1, OneForks
  <1>8. \A x \in Executables : Placed(x)' <=> (Placed(x) /\ ~(last /\ x = Root)) \/ x = k
    <2> SUFFICES ASSUME NEW x \in Executables
                 PROVE  Placed(x)' <=> (Placed(x) /\ ~(last /\ x = Root)) \/ x = k
      OBVIOUS
    <2>1. x # None
      BY ExecutablesAssumption
    <2>2. Held(x)' <=> Held(x) /\ ~(last /\ x = Root)
      <3> HIDE DEF last
      <3> QED BY <1>3, <1>4, <1>5, <2>1 DEF Held
    <2> QED BY <1>2, <1>5, <2>2 DEF Placed
  <1>9. HeldInv'
    <2> SUFFICES ASSUME NEW d \in Cores
                 PROVE  /\ current'[d] # None <=> pc'[d] \in Holding
                        /\ pushing'[d] # None <=> pc'[d] = "forkPush"
                        /\ pc'[d] \in {"fork", "forkPush"} => current'[d] = Root
                        /\ pc'[d] = "forkPush" => pushing'[d] \in unforked'
      BY DEF HeldInv
    <2> HIDE DEF last
    <2>1. CASE d = c
      BY <1>3, <1>4, <1>5, <2>1 DEF Holding
    <2>2. CASE d # c
      BY <1>3, <1>7, <2>2 DEF HeldInv
    <2> QED BY <2>1, <2>2
  <1>10. PlaceInv'
    <2> HIDE DEF last, k
    <2>1. \A x \in unforked' : ~Placed(x)'
      BY <1>1, <1>8, FiniteSets DEF PlaceInv, TypeOK
    <2>2. ASSUME NEW d \in Cores PROVE ~Queued(current[d])'
      <3>1. current'[d] # k /\ ~Queued(current'[d])
        BY <1>3, <1>6, NoneNowhere DEF PlaceInv, Placed, Held
      <3> QED BY <1>2, <3>1 DEF Queued
    <2>3. \A a, b \in Cores : current'[a] = current'[b] /\ current'[a] # None => a = b
      BY <1>3 DEF PlaceInv
    <2>4. Distinct(ring)'
      BY <1>2 DEF Distinct
    <2> QED BY <2>1, <2>2, <2>3, <2>4 DEF PlaceInv
  <1>11. SkipInv'
    <2> HIDE DEF last, k
    <2>1. \A d \in Cores : pc'[d] \in Holding \ {"pushSkipped"} => ~skip[current'[d]]
      BY <1>3, <1>4 DEF SkipInv, Holding
    <2>2. \A x \in Executables : skip[x] => Placed(x)'
      BY <1>4, <1>5, <1>8 DEF SkipInv
    <2> QED BY <1>1, <2>1, <2>2 DEF SkipInv
  <1>12. JoinInv'
    <2>1. Ended' = Ended
      <3> SUFFICES ASSUME NEW x \in Children
                   PROVE  x \notin unforked' /\ ~Placed(x)' <=> x \notin unforked /\ ~Placed(x)
        BY DEF Ended
      <3>1. x \in Executables /\ x # Root
        BY FiniteSets, ExecutablesAssumption
      <3> HIDE DEF last, k
      <3> QED BY <1>1, <1>2, <1>8, <3>1
    <2>2. unforked' = {} => ~Placed(Root)'
      BY <1>1, <1>5, <1>6, <1>8
    <2>3. active # 0
      BY <1>4, <1>5 DEF JoinInv, Placed
    <2> QED BY <1>1, <1>4, <2>1, <2>2, <2>3 DEF JoinInv
  <1>13. CountersExact'
    <2> HIDE DEF last
    <2>1. ASSUME NEW x \in Executables PROVE IsPending(x)' <=> IsPending(x)
      <3>1. CASE x = k
        <4>1. IsPending(k)
          BY <1>1 DEF IsPending
        <4>2. ~skip[k]
          <5>1. skip[k] => Placed(k)
            BY <1>4, <1>6 DEF SkipInv
          <5> QED BY <1>6, <5>1
        <4>3. IsPending(x)'
          BY <1>1, <1>2, <3>1, <4>2 DEF IsPending
        <4> QED BY <3>1, <4>1, <4>3
      <3>2. CASE x # k
        <4>1. x # None
          BY ExecutablesAssumption
        <4>2. \A d \in Cores :
                /\ current'[d] = x /\ pc'[d] \in {"count", "push"} <=> current[d] = x /\ pc[d] \in {"count", "push"}
                /\ current'[d] = x /\ pc'[d] = "pushSkipped" <=> current[d] = x /\ pc[d] = "pushSkipped"
                /\ pushing'[d] = x /\ pc'[d] = "forkPush" <=> pushing[d] = x /\ pc[d] = "forkPush"
          BY <1>1, <1>3, <3>2, <4>1
        <4> QED BY <1>1, <1>2, <3>2, <4>2, PendingSame
      <3> QED BY <3>1, <3>2
    <2> QED BY <1>1, <1>4, <2>1, CountSame
  <1> QED BY <1>9, <1>10, <1>11, <1>12, <1>13 DEF Kept

\* What an event schedules is skipped: it is counted before it is seen.
LEMMA WakeStep ==
  ASSUME ExecutorInv, NEW e \in Workloads, Wake(e)
  PROVE  Kept'
  <1> USE DEF ExecutorInv
  <1>1. e \in asleep /\ waking = None /\ asleep' = asleep \ {e} /\ waking' = e /\ Count(e, 1)
    BY DEF Wake
  <1>2. UNCHANGED <<ring, skip, pc, current, pushing, unforked, counter, active>>
    BY DEF Wake, runVars, programVars
  <1>3. e \in Executables /\ e # None /\ skip[e]
    BY <1>1, FiniteSets, ExecutablesAssumption DEF SkipInv
  <1>4. \A x : (Queued(x)' <=> Queued(x)) /\ (Placed(x)' <=> Placed(x))
    BY <1>2 DEF Queued, Placed, Held
  <1>5. HeldInv'
    BY <1>2 DEF HeldInv
  <1>6. PlaceInv'
    BY <1>2, <1>4 DEF PlaceInv
  <1>7. SkipInv'
    BY <1>1, <1>2, <1>3, <1>4 DEF SkipInv, Active
  <1>8. JoinInv'
    <2>1. Ended' = Ended
      BY <1>2, <1>4 DEF Ended
    <2> QED BY <1>2, <1>4, <2>1 DEF JoinInv, Active
  <1>9. CountersExact'
    <2>1. ~IsPending(e)
      <3>1. \A d \in Cores : current[d] = e => pc[d] \notin {"count", "push"}
        BY <1>3 DEF SkipInv, Holding
      <3>2. \A d \in Cores : pc[d] = "forkPush" => pushing[d] # e
        BY <1>3 DEF SkipInv, PlaceInv, HeldInv, Active
      <3> QED BY <1>1, <1>3, <3>1, <3>2 DEF IsPending
    <2>2. \A x \in Executables : IsPending(x)' <=> IsPending(x) \/ x = e
      BY <1>1, <1>2, <1>4, ExecutablesAssumption DEF IsPending
    <2>3. Active' => Active
      BY <1>2 DEF Active
    <2> QED BY <1>1, <1>3, <2>1, <2>2, <2>3, CountUp
  <1> QED BY <1>5, <1>6, <1>7, <1>8, <1>9 DEF Kept

\* An event that makes a suspended executable schedulable again.
LEMMA UnskipStep ==
  ASSUME ExecutorInv, Unskip
  PROVE  Kept'
  <1> USE DEF ExecutorInv
  <1> DEFINE w == waking
  <1>1. w # None /\ skip' = [skip EXCEPT ![w] = FALSE] /\ waking' = None
    BY DEF Unskip
  <1>2. UNCHANGED <<ring, workloadCount, queueCount, pc, current, pushing, unforked, counter, active, asleep>>
    BY DEF Unskip, runVars, programVars
  <1>3. w \in Executables /\ skip[w] /\ w \notin asleep
    BY <1>1, FiniteSets DEF TypeOK, SkipInv
  <1>4. \A x \in Executables : skip'[x] = IF x = w THEN FALSE ELSE skip[x]
    BY <1>1 DEF TypeOK
  <1>5. \A x : (Queued(x)' <=> Queued(x)) /\ (Placed(x)' <=> Placed(x))
    BY <1>2 DEF Queued, Placed, Held
  <1>6. HeldInv' /\ PlaceInv'
    BY <1>2, <1>5 DEF HeldInv, PlaceInv
  <1>7. SkipInv'
    <2>1. \A x \in asleep : x \in Executables /\ skip'[x]
      BY <1>3, <1>4, FiniteSets DEF SkipInv, TypeOK
    <2>2. \A d \in Cores : pc[d] \in Holding \ {"pushSkipped"} => ~skip'[current[d]]
      BY <1>4, HeldFacts DEF SkipInv
    <2>3. Active => \A x \in Executables : skip'[x] => Placed(x)
      BY <1>4 DEF SkipInv
    <2>4. \A x \in asleep : x # None
      BY <2>1, ExecutablesAssumption
    <2> QED BY <1>1, <1>2, <1>5, <2>1, <2>2, <2>3, <2>4 DEF SkipInv, Active
  <1>8. JoinInv'
    <2>1. Ended' = Ended
      BY <1>2, <1>5 DEF Ended
    <2> QED BY <1>2, <1>5, <2>1 DEF JoinInv, Active
  <1>9. CountersExact'
    <2> SUFFICES ASSUME Active PROVE CountersExact'
      BY <1>2 DEF CountersExact, Active
    <2>1. ASSUME NEW x \in Executables PROVE IsPending(x)' <=> IsPending(x)
      <3>1. CASE x = w
        <4>1. IsPending(x)
          BY <3>1 DEF IsPending
        <4>2. ~skip'[x]
          BY <1>4, <3>1
        <4>3. Queued(w) \/ Held(w)
          BY <1>3 DEF SkipInv, Placed
        <4>4. CASE Queued(w)
          <5>1. Queued(x)'
            BY <1>5, <3>1, <4>4
          <5> QED BY <4>1, <4>2, <5>1 DEF IsPending
        <4>5. CASE Held(w)
          <5>1. PICK d \in Cores : current[d] = w
            BY <4>5 DEF Held
          <5>2. pc[d] \in Holding
            BY <1>1, <5>1 DEF HeldInv
          <5>3. pc[d] = "pushSkipped"
            BY <1>3, <5>1, <5>2 DEF SkipInv
          <5>4. current'[d] = x /\ pc'[d] = "pushSkipped"
            BY <1>2, <3>1, <5>1, <5>3
          <5> QED BY <4>1, <4>2, <5>4 DEF IsPending
        <4> QED BY <4>3, <4>4, <4>5
      <3>2. CASE x # w
        <4>1. x # None /\ (skip'[x] <=> skip[x])
          BY <1>4, <3>2, ExecutablesAssumption
        <4> QED BY <1>1, <1>2, <1>5, <3>2, <4>1, PendingSame
      <3> QED BY <3>1, <3>2
    <2> QED BY <1>2, <2>1, CountSame DEF Active
  <1> QED BY <1>6, <1>7, <1>8, <1>9 DEF Kept

\* stop() clears the queue when no core runs.
LEMMA StopStep ==
  ASSUME ExecutorInv, Stop
  PROVE  Kept'
  <1> USE DEF ExecutorInv
  <1>1. /\ \A c \in Cores : pc[c] = "stopped"
        /\ ring' = <<Dummy>>
        /\ UNCHANGED <<skip, pc, current, pushing, unforked, asleep, waking>>
    BY DEF Stop, programVars, eventVars
  <1>2. ~Active' /\ \A c \in Cores : current[c] = None
    BY <1>1 DEF Active, HeldInv, Holding
  <1>3. Distinct(ring') /\ \A x : Queued(x)' <=> x = Dummy
    BY <1>1 DEF Distinct, Queued, In
  <1>4. PlaceInv'
    <2>1. \A k \in unforked : k # Dummy /\ k # None
      BY FiniteSets, ExecutablesAssumption DEF TypeOK
    <2>2. \A k \in unforked' : ~Placed(k)'
      BY <1>1, <1>2, <1>3, <2>1 DEF Placed, Held
    <2>3. \A c \in Cores : ~Queued(current[c])'
      BY <1>1, <1>2 DEF Queued, In, None, Dummy
    <2> QED BY <1>1, <1>2, <1>3, <2>2, <2>3 DEF PlaceInv, Distinct
  <1>5. HeldInv' /\ SkipInv' /\ JoinInv' /\ CountersExact'
    <2>1. HeldInv'
      BY <1>1 DEF HeldInv
    <2>2. SkipInv'
      BY <1>1, <1>2 DEF SkipInv, Holding
    <2>3. JoinInv' /\ CountersExact'
      BY <1>2 DEF JoinInv, CountersExact, Active
    <2> QED BY <2>1, <2>2, <2>3
  <1> QED BY <1>4, <1>5 DEF Kept

\* A step that changes nothing of what the invariant is about.
LEMMA NoStep ==
  ASSUME ExecutorInv,
         UNCHANGED <<ring, skip, workloadCount, queueCount, pc, current, pushing, unforked, counter,
                     active, asleep, waking>>
  PROVE  Kept'
  <1> USE DEF ExecutorInv
  <1>1. \A x : (Queued(x)' <=> Queued(x)) /\ (Placed(x)' <=> Placed(x)) /\ (IsPending(x)' <=> IsPending(x))
    BY DEF Queued, Placed, Held, IsPending
  <1>2. HeldInv' /\ PlaceInv' /\ SkipInv'
    BY <1>1 DEF HeldInv, PlaceInv, SkipInv, Active
  <1>3. JoinInv'
    <2>1. Ended' = Ended
      BY <1>1 DEF Ended
    <2> QED BY <1>1, <2>1 DEF JoinInv, Active
  <1>4. CountersExact'
    BY <1>1, CountSame DEF Active
  <1> QED BY <1>2, <1>3, <1>4 DEF Kept

\* Every step keeps the parts of the inductive invariant.
LEMMA StepKeeps ==
  ASSUME ExecutorInv, [Next]_vars
  PROVE  Kept'
  <1>1. ASSUME NEW c \in Cores, CoreStep(c) PROVE Kept'
    <2> USE DEF queueVars, runVars, programVars, eventVars
    <2> DEFINE Quiet(p) == pc[c] \notin Holding /\ pc[c] # "stopped" /\ p \notin Holding /\ Goto(c, p)
               Same == UNCHANGED <<ring, skip, workloadCount, queueCount, current, pushing, unforked,
                                   counter, active, asleep, waking>>
    <2>1. ASSUME NEW p, Quiet(p), Same PROVE Kept'
      BY <2>1, QuietStep
    <2>2. CASE Register(c)
      BY <2>1, <2>2 DEF Register, Holding
    <2>3. CASE UpdateMax(c)
      BY <2>1, <2>3 DEF UpdateMax, Holding
    <2>4. CASE SetStatus(c)
      BY <2>1, <2>4 DEF SetStatus, Holding
    <2>5. CASE LoadMin(c)
      BY <2>1, <2>5 DEF LoadMin, Holding
    <2>6. CASE Test(c)
      <3>1. Same /\ (Quiet("testStatus") \/ Quiet("unregister"))
        BY <2>6 DEF Test, Holding
      <3> QED BY <2>1, <3>1
    <2>7. CASE TestStatus(c)
      <3>1. Same /\ (Quiet("unregister") \/ Quiet("pop"))
        BY <2>7 DEF TestStatus, Holding
      <3> QED BY <2>1, <3>1
    <2>8. CASE Tick(c)
      BY <2>1, <2>8 DEF Tick, Holding
    <2>9. CASE Unregister(c)
      BY <2>1, <2>9 DEF Unregister, Holding
    <2>10. CASE Idle(c)
      <3>1. Same /\ (Quiet("register") \/ Quiet("stopped"))
        BY <2>10 DEF Idle, Holding
      <3> QED BY <2>1, <3>1
    <2>11. CASE RequestShutdown(c)
      BY <2>1, <2>11 DEF RequestShutdown, Holding
    <2>12. CASE Pop(c) \/ PopCount(c) \/ Push(c)
      BY <2>12, PopStep, PopCountStep, PushStep
    <2>13. CASE Yield(c) \/ Suspend(c)
      BY <2>13, YieldStep, SuspendStep
    <2>14. CASE Fork(c) \/ ForkPush(c)
      BY <2>14, ForkStep, ForkPushStep
    <2>15. CASE ChildEnds(c) \/ RootEnds(c)
      BY <2>15, ChildEndsStep, RootEndsStep
    <2> QED BY <1>1, <2>2, <2>3, <2>4, <2>5, <2>6, <2>7, <2>8, <2>9, <2>10, <2>11, <2>12, <2>13, <2>14,
               <2>15 DEF CoreStep
  <1>2. CASE EventStep
    BY <1>2, WakeStep, UnskipStep DEF EventStep
  <1>3. CASE RequestAbort
    BY <1>3, NoStep DEF RequestAbort, queueVars, programVars
  <1>4. CASE Stop
    BY <1>4, StopStep
  <1>5. CASE UNCHANGED vars
    BY <1>5, NoStep DEF vars, queueVars, programVars, eventVars
  <1> QED BY <1>1, <1>2, <1>3, <1>4, <1>5 DEF Next
-----------------------------------------------------------------------------
(***************************************************************************)
(* The types.  That the counters stay within theirs follows from the       *)
(* invariant: queueCount is a cardinality while a core runs, counter_      *)
(* counts children, and the caller terminates once.                        *)
(***************************************************************************)
LEMMA MaxOfTwo ==
  ASSUME NEW a \in Int, NEW b \in Int
  PROVE  Max({a, b}) = IF a >= b THEN a ELSE b
  BY DEF Max

\* The smaller of two numbers.
LEMMA MinOfTwo ==
  ASSUME NEW a \in Int, NEW b \in Int
  PROVE  Min({a, b}) = IF a <= b THEN a ELSE b
  BY DEF Min

\* The types of what a core does in run() besides the executables.
RunTypes ==
  /\ status \in {"idle", "running", "shutdownRequested", "abortRequested"}
  /\ context \subseteq Cores /\ maxRunning \in 0 .. Cardinality(Cores)
  /\ tick \in [Cores -> Nat] /\ min \in [Cores -> Nat]

\* Every step keeps the types of the cores.
LEMMA RunTypesStep ==
  ASSUME ExecutorInv, [Next]_vars
  PROVE  RunTypes'
  <1> USE DEF ExecutorInv, TypeOK, RunTypes
  <1>1. ASSUME NEW c \in Cores, CoreStep(c) PROVE RunTypes'
    <2>1. CASE UNCHANGED runVars
      BY <2>1 DEF runVars
    <2>2. CASE Register(c)
      BY <2>2 DEF Register
    <2>3. CASE UpdateMax(c)
      <3>1. Cardinality(context) \in Nat /\ Cardinality(context) <= Cardinality(Cores) /\ Cardinality(Cores) \in Nat
        BY CoresAssumption, FS_Subset, FS_CardinalityType
      <3>2. maxRunning' \in 0 .. Cardinality(Cores)
        <4>1. maxRunning \in Int /\ Cardinality(context) \in Int
          BY <3>1
        <4>2. maxRunning' = Max({maxRunning, Cardinality(context)})
          BY <2>3 DEF UpdateMax
        <4>3. maxRunning' = IF maxRunning >= Cardinality(context) THEN maxRunning ELSE Cardinality(context)
          BY <4>1, <4>2, MaxOfTwo
        <4> QED BY <3>1, <4>3
      <3> QED BY <2>3, <3>2 DEF UpdateMax
    <2>4. CASE SetStatus(c)
      BY <2>4 DEF SetStatus
    <2>5. CASE LoadMin(c)
      <3>1. queueCount = Cardinality(Pending(Executables))
        BY <2>5 DEF LoadMin, CountersExact
      <3>2. Pending(Executables) \in SUBSET Executables
        BY PendingSet
      <3>3. queueCount \in Nat
        BY <3>1, <3>2, FiniteSets
      <3> QED BY <2>5, <3>3 DEF LoadMin
    <2>6. CASE Tick(c)
      <3>1. Min({tick[c] + 1, min[c] + 1}) \in Nat
        <4>1. tick[c] + 1 \in Nat /\ min[c] + 1 \in Nat
          OBVIOUS
        <4>2. \A a, b \in Nat : Min({a, b}) \in Nat
          <5> TAKE a, b \in Nat
          <5>1. Min({a, b}) = IF a <= b THEN a ELSE b
            BY MinOfTwo
          <5> QED BY <5>1
        <4> QED BY <4>1, <4>2
      <3> QED BY <2>6, <3>1 DEF Tick
    <2>7. CASE Unregister(c)
      BY <2>7 DEF Unregister
    <2>8. CASE RequestShutdown(c)
      BY <2>8 DEF RequestShutdown
    <2>9. \/ UNCHANGED runVars \/ Register(c) \/ UpdateMax(c) \/ SetStatus(c) \/ LoadMin(c) \/ Tick(c)
          \/ Unregister(c) \/ RequestShutdown(c)
      BY <1>1 DEF CoreStep, Test, TestStatus, Pop, PopCount, Push, Idle, Yield, Suspend, Fork, ForkPush,
                  ChildEnds, RootEnds
    <2> QED BY <2>1, <2>2, <2>3, <2>4, <2>5, <2>6, <2>7, <2>8, <2>9
  <1>2. CASE EventStep
    BY <1>2 DEF EventStep, Wake, Unskip, runVars
  <1>3. CASE RequestAbort
    BY <1>3 DEF RequestAbort
  <1>4. CASE Stop \/ UNCHANGED vars
    BY <1>4 DEF Stop, vars, runVars
  <1> QED BY <1>1, <1>2, <1>3, <1>4 DEF Next

\* The types of the queue, the flags and the counters of the executor.
QueueTypes ==
  /\ ring \in Seq(Executables \cup {Dummy})
  /\ skip \in [Executables -> BOOLEAN] /\ pin \in [Executables -> Cores \cup {AnyCore}]
  /\ workloadCount \in Int /\ queueCount \in Int

\* Every step keeps the types of the queue and of the counters.
LEMMA QueueTypesStep ==
  ASSUME ExecutorInv, [Next]_vars
  PROVE  QueueTypes'
  <1> USE DEF ExecutorInv, QueueTypes
  <1>0. QueueTypes
    BY DEF TypeOK
  <1>1. ASSUME NEW c \in Cores, CoreStep(c) PROVE QueueTypes'
    <2>1. CASE UNCHANGED queueVars
      BY <1>0, <2>1 DEF queueVars
    <2>2. CASE Pop(c)
      <3>1. UNCHANGED <<skip, workloadCount, queueCount>>
        BY <2>2 DEF Pop
      <3> QED BY <1>0, <2>2, <3>1, PopTakes
    <2>3. CASE PopCount(c)
      BY <1>0, <2>3 DEF PopCount, Count
    <2>4. CASE Push(c)
      <3>1. ring' \in Seq(Executables \cup {Dummy})
        BY <2>4, PushPuts
      <3> QED BY <1>0, <2>4, <3>1 DEF Push
    <2>5. CASE Yield(c)
      BY <1>0, <2>5 DEF Yield, Count
    <2>6. CASE Suspend(c)
      BY <1>0, <2>6 DEF Suspend
    <2>7. CASE Fork(c)
      <3>1. PICK k \in unforked : /\ pin' = [pin EXCEPT ![k] = IF Parallel THEN AnyCore ELSE pin[Root]]
                                  /\ Count(k, 1) /\ UNCHANGED <<ring, skip>>
        BY <2>7 DEF Fork
      <3>2. pin[Root] \in Cores \cup {AnyCore}
        BY <1>0, NoneNowhere
      <3>3. k \in Executables
        BY FiniteSets DEF TypeOK
      <3>4. pin' \in [Executables -> Cores \cup {AnyCore}]
        BY <1>0, <3>1, <3>2, <3>3
      <3>5. workloadCount' \in Int /\ queueCount' \in Int
        BY <1>0, <3>1 DEF Count
      <3> QED BY <1>0, <3>1, <3>4, <3>5
    <2>8. CASE ForkPush(c)
      <3>1. ring' \in Seq(Executables \cup {Dummy})
        BY <2>8, ForkPuts
      <3> QED BY <1>0, <2>8, <3>1 DEF ForkPush
    <2>9. \/ UNCHANGED queueVars \/ Pop(c) \/ PopCount(c) \/ Push(c) \/ Yield(c) \/ Suspend(c) \/ Fork(c)
          \/ ForkPush(c)
      BY <1>1 DEF CoreStep, Register, UpdateMax, SetStatus, LoadMin, Test, TestStatus, Tick, Unregister,
                  Idle, ChildEnds, RootEnds, RequestShutdown
    <2> QED BY <2>1, <2>2, <2>3, <2>4, <2>5, <2>6, <2>7, <2>8, <2>9
  <1>2. CASE EventStep
    <2>1. CASE Unskip
      BY <1>0, <2>1 DEF Unskip
    <2>2. ASSUME NEW e \in Workloads, Wake(e) PROVE QueueTypes'
      <3>1. workloadCount' \in Int /\ queueCount' \in Int
        BY <1>0, <2>2 DEF Wake, Count
      <3> QED BY <1>0, <2>2, <3>1 DEF Wake
    <2> QED BY <1>2, <2>1, <2>2 DEF EventStep
  <1>3. CASE RequestAbort \/ UNCHANGED vars
    BY <1>0, <1>3 DEF RequestAbort, vars, queueVars
  <1>4. CASE Stop
    <2>1. <<Dummy>> \in Seq(Executables \cup {Dummy})
      OBVIOUS
    <2> QED BY <1>0, <1>4, <2>1 DEF Stop
  <1> QED BY <1>1, <1>2, <1>3, <1>4 DEF Next

\* The types of the cores, the program and the events.
ProgramTypes ==
  /\ pc \in [Cores -> {"register", "max", "status", "min", "test", "testStatus", "pop", "count",
                       "resume", "push", "pushSkipped", "fork", "forkPush", "shutdown", "tick",
                       "unregister", "idle", "stopped"}]
  /\ current \in [Cores -> Executables \cup {None}] /\ pushing \in [Cores -> Children \cup {None}]
  /\ left \in [Workloads -> 0 .. MaxYields]
  /\ unforked \subseteq Children /\ counter \in 0 .. Cardinality(Children) /\ active \in 0 .. 1
  /\ asleep \subseteq Workloads /\ waking \in Workloads \cup {None} /\ aborts \in 0 .. MaxAborts

\* Every step keeps the types of the workload.
LEMMA ProgramTypesStep ==
  ASSUME ExecutorInv, [Next]_vars
  PROVE  ProgramTypes'
  <1> USE DEF ExecutorInv, ProgramTypes
  <1>0. ProgramTypes
    BY DEF TypeOK
  <1>1. ASSUME NEW c \in Cores, CoreStep(c) PROVE ProgramTypes'
    <2>0. UNCHANGED aborts
      BY <1>1 DEF CoreStep, Register, UpdateMax, SetStatus, LoadMin, Test, TestStatus, Pop, PopCount, Push,
                  Tick, Unregister, Idle, Yield, Suspend, Fork, ForkPush, ChildEnds, RootEnds,
                  RequestShutdown, eventVars
    <2> USE DEF Goto, Drop, programVars, eventVars
    <2>1. CASE Register(c) \/ UpdateMax(c) \/ SetStatus(c) \/ LoadMin(c)
      BY <1>0, <2>1 DEF Register, UpdateMax, SetStatus, LoadMin
    <2>2. CASE Test(c) \/ TestStatus(c) \/ Tick(c)
      BY <1>0, <2>2 DEF Test, TestStatus, Tick
    <2>3. CASE Unregister(c) \/ Idle(c) \/ RequestShutdown(c)
      BY <1>0, <2>3 DEF Unregister, Idle, RequestShutdown
    <2>4. CASE Pop(c)
      <3>1. UNCHANGED <<pushing, left, unforked, counter, active, asleep, waking, aborts>>
        BY <2>4 DEF Pop
      <3>2. \/ Goto(c, "tick") /\ current' = current
            \/ \E e \in Executables : Goto(c, "count") /\ current' = [current EXCEPT ![c] = e]
        BY <2>4, PopTakes
      <3> QED BY <1>0, <3>1, <3>2
    <2>5. CASE PopCount(c) \/ Push(c)
      BY <1>0, <2>5 DEF PopCount, Push
    <2>6. CASE Yield(c) \/ Suspend(c)
      <3>1. current[c] \in Workloads => left[current[c]] > 0
        BY <2>6 DEF Yield, Suspend
      <3>2. left' \in [Workloads -> 0 .. MaxYields]
        <4>1. Spend(current[c])
          BY <2>6 DEF Yield, Suspend
        <4>2. CASE current[c] \in Workloads
          <5>1. left[current[c]] - 1 \in 0 .. MaxYields
            BY <1>0, <3>1, <4>2, BoundsAssumption
          <5> QED BY <1>0, <4>1, <4>2, <5>1 DEF Spend
        <4>3. CASE current[c] \notin Workloads
          BY <1>0, <4>1, <4>3 DEF Spend
        <4> QED BY <4>2, <4>3
      <3> QED BY <1>0, <2>6, <3>2 DEF Yield, Suspend
    <2>7. CASE Fork(c)
      BY <1>0, <2>7 DEF Fork
    <2>8. CASE ForkPush(c)
      BY <1>0, <2>8 DEF ForkPush
    <2>9. CASE ChildEnds(c)
      <3>1. pc[c] = "resume" /\ current[c] \in Children /\ counter' = counter + 1
        BY <2>9 DEF ChildEnds
      <3>2. counter' \in 0 .. Cardinality(Children)
        <4>1. counter + 1 <= Cardinality(Children)
          BY <3>1, ChildEnded
        <4>2. Cardinality(Children) \in Nat
          BY FiniteSets, FS_CardinalityType
        <4> QED BY <1>0, <3>1, <4>1, <4>2
      <3> QED BY <1>0, <2>9, <3>2, NoneNowhere DEF ChildEnds
    <2>10. CASE RootEnds(c)
      <3>1. active = 1
        BY <2>10, RootEnded DEF RootEnds
      <3> QED BY <1>0, <2>10, <3>1 DEF RootEnds
    <2> QED BY <1>1, <2>1, <2>2, <2>3, <2>4, <2>5, <2>6, <2>7, <2>8, <2>9, <2>10 DEF CoreStep
  <1>2. CASE EventStep
    BY <1>0, <1>2 DEF EventStep, Wake, Unskip, programVars
  <1>3. CASE RequestAbort
    BY <1>0, <1>3, BoundsAssumption DEF RequestAbort, programVars
  <1>4. CASE Stop \/ UNCHANGED vars
    BY <1>0, <1>4 DEF Stop, vars, programVars, eventVars
  <1> QED BY <1>1, <1>2, <1>3, <1>4 DEF Next

\* Every step keeps the types.
LEMMA TypesKept ==
  ASSUME ExecutorInv, [Next]_vars
  PROVE  TypeOK'
  <1>1. RunTypes' /\ QueueTypes' /\ ProgramTypes'
    BY RunTypesStep, QueueTypesStep, ProgramTypesStep
  <1> QED BY <1>1 DEF RunTypes, QueueTypes, ProgramTypes, TypeOK
-----------------------------------------------------------------------------
(***************************************************************************)
(* The initial states, and the theorems.                                   *)
(***************************************************************************)
\* schedule() put each of its executables into the queue once.
LEMMA QueueAtStart ==
  ASSUME NEW S, IsFiniteSet(S), S \subseteq Executables, NEW s \in SetToSeqs(S)
  PROVE  LET r == <<Dummy>> \o s
         IN  /\ r \in Seq(Executables \cup {Dummy}) /\ Distinct(r)
             /\ \A e : In(e, r) <=> e = Dummy \/ e \in S
  <1> DEFINE n == Cardinality(S)
             r == <<Dummy>> \o s
  <1>1. n \in Nat /\ s \in [1 .. n -> S] /\ \A i, j \in 1 .. n : i # j => s[i] # s[j]
    BY FS_CardinalityType DEF SetToSeqs
  <1>2. \A e \in S : \E i \in 1 .. n : s[i] = e
    <2>1. s \in Injection(1 .. n, S)
      BY <1>1 DEF Injection, IsInjective
    <2>2. Cardinality(1 .. n) = n
      BY <1>1, FS_Interval
    <2>3. s \in Surjection(1 .. n, S)
      BY <2>1, <2>2, FS_Injection
    <2> QED BY <2>3 DEF Surjection
  <1> HIDE DEF n
  <1>3. s \in Seq(Executables \cup {Dummy}) /\ Len(s) = n
    <2>1. s \in [1 .. n -> Executables \cup {Dummy}]
      BY <1>1
    <2> QED BY <1>1, <2>1
  <1>4. /\ r \in Seq(Executables \cup {Dummy}) /\ Len(r) = n + 1
        /\ \A k \in 1 .. n + 1 : r[k] = IF k = 1 THEN Dummy ELSE s[k - 1]
    BY <1>1, <1>3
  <1> HIDE DEF r
  <1>5. DOMAIN r = 1 .. n + 1
    BY <1>4
  <1>6. Distinct(r)
    <2> SUFFICES ASSUME NEW i \in 1 .. n + 1, NEW j \in 1 .. n + 1, r[i] = r[j] PROVE i = j
      BY <1>5 DEF Distinct
    <2>1. Dummy \notin S
      BY ExecutablesAssumption
    <2>2. \A k \in 1 .. n + 1 : k # 1 => k - 1 \in 1 .. n /\ s[k - 1] \in S
      BY <1>1
    <2> QED BY <1>1, <1>4, <2>1, <2>2
  <1>7. \A e : In(e, r) <=> e = Dummy \/ e \in S
    <2>1. r[1] = Dummy /\ 1 \in DOMAIN r
      BY <1>1, <1>4, <1>5
    <2>2. \A k \in 1 .. n : k + 1 \in DOMAIN r /\ r[k + 1] = s[k]
      BY <1>1, <1>4, <1>5
    <2>3. \A k \in DOMAIN r : r[k] = Dummy \/ r[k] \in S
      BY <1>1, <1>4, <1>5
    <2> QED BY <1>2, <2>1, <2>2, <2>3 DEF In
  <1> QED BY <1>4, <1>6, <1>7 DEF r

\* The inductive invariant holds when the cores start.
LEMMA InitHolds ==
  ASSUME Init
  PROVE  ExecutorInv
  <1> DEFINE S == {Root} \cup Services
  <1>1. S \subseteq Executables /\ IsFiniteSet(S) /\ IsFiniteSet(Services) /\ Root \notin Services
    BY ExecutablesAssumption, FS_Subset DEF Executables, Workloads
  <1>2. PICK s \in SetToSeqs(S) : ring = <<Dummy>> \o s
    BY DEF Init
  <1>3. /\ ring \in Seq(Executables \cup {Dummy}) /\ Distinct(ring)
        /\ \A e : Queued(e) <=> e = Dummy \/ e \in S
    <2> HIDE DEF S
    <2> QED BY <1>1, <1>2, QueueAtStart DEF Queued
  <1>4. /\ current = [c \in Cores |-> None] /\ pushing = [c \in Cores |-> None]
        /\ pc = [c \in Cores |-> "register"] /\ skip = [e \in Executables |-> FALSE]
        /\ unforked = Children /\ counter = 0 /\ active = 1 /\ asleep = {} /\ waking = None
        /\ workloadCount = 1 /\ queueCount = 1 + Cardinality(Services)
    BY DEF Init
  <1>5. Cardinality(Cores) \in Nat /\ Cardinality(Children) \in Nat /\ Cardinality(Services) \in Nat
    BY <1>1, CoresAssumption, FiniteSets, FS_CardinalityType
  <1>6. TypeOK
    BY <1>3, <1>5, BoundsAssumption DEF Init, TypeOK
  <1>7. \A e \in Executables : ~Held(e) /\ (Placed(e) <=> e \in S)
    BY <1>3, <1>4, ExecutablesAssumption DEF Held, Placed
  <1>8. HeldInv
    BY <1>4 DEF HeldInv, Holding
  <1>9. PlaceInv
    <2>1. \A k \in unforked : ~Placed(k)
      BY <1>4, <1>7, FiniteSets, ExecutablesAssumption
    <2>2. \A c \in Cores : ~Queued(current[c])
      BY <1>4, <1>6, NoneNowhere
    <2> QED BY <1>3, <1>4, <2>1, <2>2 DEF PlaceInv
  <1>10. SkipInv
    BY <1>4 DEF SkipInv, Holding
  <1>11. JoinInv
    <2>1. Ended = {}
      BY <1>4 DEF Ended
    <2>2. unforked = {} => Ended = Children
      BY <1>4, <2>1
    <2> QED BY <1>4, <2>1, <2>2, FS_EmptySet DEF JoinInv
  <1>12. CountersExact
    <2>1. \A e \in Executables : IsPending(e) <=> e \in S
      BY <1>3, <1>4, ExecutablesAssumption DEF IsPending
    <2>2. Pending(Workloads) = {Root}
      BY <2>1, PendingSet, FiniteSets, ExecutablesAssumption DEF Workloads
    <2>3. Pending(Executables) = Services \cup {Root}
      BY <1>1, <2>1, PendingSet
    <2>4. Cardinality({Root}) = 1
      BY FS_Singleton
    <2>5. Cardinality(Services \cup {Root}) = Cardinality(Services) + 1
      BY <1>1, FS_AddElement
    <2>6. workloadCount = Cardinality(Pending(Workloads)) /\ queueCount = Cardinality(Pending(Executables))
      BY <1>4, <1>5, <2>2, <2>3, <2>4, <2>5
    <2> QED BY <2>6 DEF CountersExact
  <1> QED BY <1>6, <1>8, <1>9, <1>10, <1>11, <1>12 DEF ExecutorInv

\* The invariant says that an executable is in one place.
LEMMA InvGivesOnePlace ==
  ASSUME ExecutorInv
  PROVE  OnePlace
  <1> SUFFICES ASSUME NEW e \in Executables
               PROVE  Cardinality({i \in DOMAIN ring : ring[i] = e})
                        + Cardinality({c \in Cores : current[c] = e}) <= 1
    BY DEF OnePlace
  <1> DEFINE I == {i \in DOMAIN ring : ring[i] = e}
             C == {c \in Cores : current[c] = e}
  <1>1. e # None
    BY ExecutablesAssumption
  <1>2. CASE \E i \in DOMAIN ring : ring[i] = e
    <2>1. PICK i \in DOMAIN ring : ring[i] = e
      BY <1>2
    <2>2. I = {i} /\ C = {}
      BY <2>1 DEF ExecutorInv, PlaceInv, Distinct, Queued, In
    <2>3. Cardinality(I) = 1
      BY <2>2, FS_Singleton, Zenon
    <2>4. Cardinality(C) = 0
      BY <2>2, FS_EmptySet, Zenon
    <2>5. Cardinality(I) + Cardinality(C) <= 1
      <3> HIDE DEF I, C
      <3> QED BY <2>3, <2>4
    <2> QED BY <2>5
  <1>3. CASE \A i \in DOMAIN ring : ring[i] # e
    <2>1. I = {}
      BY <1>3
    <2>2. C = {} \/ \E c \in Cores : C = {c}
      BY <1>1 DEF ExecutorInv, PlaceInv
    <2>3. Cardinality(I) = 0
      BY <2>1, FS_EmptySet, Zenon
    <2>4. Cardinality(C) = 0 \/ Cardinality(C) = 1
      BY <2>2, FS_EmptySet, FS_Singleton, Zenon
    <2>5. Cardinality(I) + Cardinality(C) <= 1
      <3> HIDE DEF I, C
      <3> QED BY <2>3, <2>4
    <2> QED BY <2>5
  <1> QED BY <1>2, <1>3

THEOREM Invariance == Spec => []ExecutorInv
  <1>1. Init => ExecutorInv
    BY InitHolds
  <1>2. ExecutorInv /\ [Next]_vars => ExecutorInv'
    BY StepKeeps, TypesKept DEF Kept, ExecutorInv
  <1> QED BY <1>1, <1>2, PTL DEF Spec

\* Executor and EnqueueAll only reach the states that their types allow: counter_ never counts more
\* terminations than there are children, and workloadCount_ of the component is not decremented below
\* zero, for any number of cores, children and services.
THEOREM TypeCorrect == Spec => []TypeOK
  <1>1. ExecutorInv => TypeOK
    BY DEF ExecutorInv
  <1> QED BY <1>1, Invariance, PTL

\* The executor's queue and counters agree with its cores: pop() gives an executable to one core only, so
\* that no coroutine is resumed by two threads, and workloadCount_ and queueCount_, by which run() decides to go
\* on, are the numbers of executables that are to run, so that no core leaves run() too early.
THEOREM QueueIsExact == Spec => []QueueExact
  <1>1. ExecutorInv => QueueExact
    BY InvGivesOnePlace DEF ExecutorInv, QueueExact
  <1> QED BY <1>1, Invariance, PTL
=============================================================================
