---------------------------- MODULE EnqueueProofs ----------------------------
(***************************************************************************)
(* any() and all() resume their caller safely, for every number of asyncs. *)
(*                                                                         *)
(* The argument is a count: counter_ is the number of asyncs that went     *)
(* through their callback, and for any() one more once the first of them   *)
(* has triggered the token.  Its last value is therefore reached by a      *)
(* single increment, after which nobody is left in the callback.           *)
(***************************************************************************)
EXTENDS Enqueue, FiniteSetTheorems, TLAPS

Counted == {c \in Asyncs : pc[c] \in {"trigger", "recount", "detach", "resume", "out"}}
First == {c \in Asyncs : pc[c] \in {"trigger", "recount"}}
Last == {c \in Asyncs : pc[c] \in {"detach", "resume"}}
Target == IF mode = "all" THEN N ELSE N + 1

CounterExact ==
  /\ mode = "all" => First = {} /\ counter = Cardinality(Counted)
  /\ mode = "any" =>
       /\ Counted = {} => counter = 0
       /\ First # {} => counter = Cardinality(Counted)
       /\ Counted # {} /\ First = {} => counter = Cardinality(Counted) + 1
  /\ \A c, d \in First : c = d

LastOnce ==
  /\ \A c, d \in Last : c = d
  /\ Last # {} => resumes = 0 /\ counter = Target
  /\ resumes > 0 => resumes = 1 /\ counter = Target

TokenOrder ==
  /\ caller = "start" => \A c \in Asyncs : pc[c] = "new"
  /\ mode = "any" /\ counter > 0 /\ (\A c \in Asyncs : pc[c] # "trigger") => tokenFlag
  /\ mode = "any" /\ (resumes > 0 \/ \E c \in Asyncs : pc[c] = "resume") => ~attached

IInv == TypeOK /\ CounterExact /\ LastOnce /\ TokenOrder

\* The number of asyncs, and of those that were counted, as naturals.
LEMMA CountedSize ==
  /\ N \in Nat /\ N > 0
  /\ Cardinality(Counted) \in Nat
  /\ Cardinality(Counted) <= N
  /\ Cardinality(Counted) = N => Counted = Asyncs
  /\ Cardinality(Counted) = 0 <=> Counted = {}
  /\ IsFiniteSet(Counted)
  <1>1. Counted \in SUBSET Asyncs
    BY DEF Counted
  <1>2. IsFiniteSet(Counted) /\ Cardinality(Counted) <= N /\ (N = Cardinality(Counted) => Counted = Asyncs)
    BY <1>1, AsyncsAssumption, FS_Subset DEF N
  <1>3. N \in Nat /\ Cardinality(Counted) \in Nat
    BY <1>2, AsyncsAssumption, FS_CardinalityType DEF N
  <1>4. N # 0 /\ (Cardinality(Counted) = 0 <=> Counted = {})
    BY <1>2, AsyncsAssumption, FS_EmptySet DEF N
  <1> QED BY <1>2, <1>3, <1>4

\* The state that the parts of the invariant speak about is left alone.
LEMMA SameSets ==
  ASSUME IInv, TypeOK', UNCHANGED <<mode, counter, resumes>>,
         Counted' = Counted, First' = First, Last' = Last
  PROVE  CounterExact' /\ LastOnce'
  BY DEF IInv, CounterExact, LastOnce, Target

\* One more async was counted.
LEMMA OneMore ==
  ASSUME NEW c \in Asyncs, c \notin Counted, Counted' = Counted \cup {c}
  PROVE  Cardinality(Counted') = Cardinality(Counted) + 1
  BY CountedSize, FS_AddElement

\* Asyncs that are not in their callback move without being counted.
LEMMA OutsideCallback ==
  ASSUME IInv, NEW c \in Asyncs, NEW next \in {"queued", "running", "asleep", "terminated"},
         pc[c] \in {"new", "queued", "running", "asleep"},
         pc' = [pc EXCEPT ![c] = next], caller # "start",
         UNCHANGED <<mode, hasParent, parentFlag, tokenFlag, attached, caller, counter, resumes>>
  PROVE  IInv'
  <1>1. TypeOK'
    BY DEF IInv, TypeOK
  <1>2. Counted' = Counted /\ First' = First /\ Last' = Last
    BY DEF Counted, First, Last, IInv, TypeOK
  <1>3. TokenOrder'
    BY DEF IInv, TokenOrder, TypeOK
  <1> QED BY <1>1, <1>2, <1>3, SameSets DEF IInv

\* Triggering a token only moves the asyncs that sleep.
LEMMA WakeAllSets ==
  ASSUME TypeOK, pc' = WakeAll(pc)
  PROVE  /\ Counted' = Counted /\ First' = First /\ Last' = Last
         /\ pc' \in [Asyncs -> {"new", "queued", "running", "asleep", "terminated", "trigger",
                                "recount", "detach", "resume", "out"}]
         /\ \A c \in Asyncs : pc[c] # "asleep" => pc'[c] = pc[c]
         /\ \A c \in Asyncs : pc[c] = "asleep" => pc'[c] = "queued"
  BY DEF TypeOK, WakeAll, Counted, First, Last

\* Every step preserves the invariant.
LEMMA IInvInductive == IInv /\ [Next]_vars => IInv'
  <1> SUFFICES ASSUME IInv, [Next]_vars PROVE IInv'
    OBVIOUS
  <1> USE DEF IInv
  <1>0. \A c \in Asyncs : pc[c] # "new" => caller # "start"
    BY DEF TokenOrder
  <1>1. CASE ParentTrigger
    <2>1. CASE mode = "all" \/ attached
      <3>1. pc' = WakeAll(pc)
        BY <1>1, <2>1 DEF ParentTrigger
      <3>2. TypeOK'
        BY <1>1, <3>1, WakeAllSets DEF ParentTrigger, TypeOK
      <3>3. CounterExact' /\ LastOnce'
        BY <1>1, <3>1, <3>2, WakeAllSets, SameSets DEF ParentTrigger
      <3>4. TokenOrder'
        BY <1>1, <3>1, WakeAllSets DEF ParentTrigger, TokenOrder, TypeOK
      <3> QED BY <3>2, <3>3, <3>4
    <2>2. CASE ~(mode = "all" \/ attached)
      <3>1. TypeOK' /\ TokenOrder'
        BY <1>1, <2>2 DEF ParentTrigger, TypeOK, TokenOrder
      <3>2. Counted' = Counted /\ First' = First /\ Last' = Last
        BY <1>1, <2>2 DEF ParentTrigger, Counted, First, Last
      <3> QED BY <1>1, <3>1, <3>2, SameSets DEF ParentTrigger
    <2> QED BY <2>1, <2>2
  <1>2. CASE AwaitSuspend
    <2>1. Counted = {} /\ \A c \in Asyncs : pc[c] = "new"
      BY <1>2 DEF AwaitSuspend, TokenOrder, Counted
    <2>2. counter = 0
      BY <2>1, CountedSize DEF CounterExact, TypeOK
    <2>3. resumes = 0
      BY <2>2, CountedSize DEF LastOnce, Target, TypeOK
    <2>4. Counted' = Counted /\ First' = First /\ Last' = Last
      BY <1>2 DEF AwaitSuspend, Counted, First, Last
    <2>5. TypeOK' /\ TokenOrder'
      BY <1>2, <2>1, <2>2, <2>3 DEF AwaitSuspend, TypeOK, TokenOrder
    <2> QED BY <1>2, <2>4, <2>5, SameSets DEF AwaitSuspend
  <1>3. ASSUME NEW c \in Asyncs, Schedule(c) PROVE IInv'
    BY <1>3, OutsideCallback DEF Schedule
  <1>4. ASSUME NEW c \in Asyncs, Pop(c) PROVE IInv'
    BY <1>0, <1>4, OutsideCallback DEF Pop
  <1>5. ASSUME NEW c \in Asyncs, Complete(c) PROVE IInv'
    BY <1>0, <1>5, OutsideCallback DEF Complete
  <1>6. ASSUME NEW c \in Asyncs, Suspend(c) PROVE IInv'
    BY <1>0, <1>6, OutsideCallback DEF Suspend
  <1>7. ASSUME NEW c \in Asyncs, Wake(c) PROVE IInv'
    BY <1>0, <1>7, OutsideCallback DEF Wake
  <1>8. ASSUME NEW c \in Asyncs, Count(c) PROVE IInv'
    <2> USE <1>8
    <2>1. c \notin Counted /\ c \notin First /\ c \notin Last
      BY DEF Count, Counted, First, Last
    <2>2. Counted' = Counted \cup {c}
      BY DEF Count, AllAfter, AnyAfter, Counted, TypeOK
    <2>3. Cardinality(Counted') = Cardinality(Counted) + 1
      BY <2>1, <2>2, OneMore
    <2>4. /\ N \in Nat /\ N > 0 /\ Cardinality(Counted) \in Nat /\ Cardinality(Counted) < N
          /\ (Cardinality(Counted) = 0 <=> Counted = {})
      BY <2>1, CountedSize
    <2>5. counter' = counter + 1 /\ resumes' = resumes /\ mode' = mode /\ counter \in Nat
      BY DEF Count, TypeOK
    <2>6. CASE mode = "all"
      <3>1. pc' = [pc EXCEPT ![c] = IF counter + 1 = N THEN "resume" ELSE "out"]
        BY <2>6 DEF Count, AllAfter
      <3>2. counter = Cardinality(Counted) /\ First = {}
        BY <2>6 DEF CounterExact
      <3>3. First' = {} /\ Last' = Last \cup (IF counter + 1 = N THEN {c} ELSE {})
        <4>1. CASE counter + 1 = N
          BY <3>1, <3>2, <4>1 DEF First, Last, TypeOK
        <4>2. CASE counter + 1 # N
          <5>1. pc' = [pc EXCEPT ![c] = "out"]
            BY <3>1, <4>2
          <5> QED BY <2>1, <3>2, <4>2, <5>1 DEF First, Last, TypeOK
        <4> QED BY <4>1, <4>2
      <3>4. Last = {} /\ resumes = 0
        BY <2>4, <2>6, <3>2 DEF LastOnce, Target, TypeOK
      <3>5. CounterExact' /\ LastOnce'
        BY <2>3, <2>5, <2>6, <3>2, <3>3, <3>4 DEF CounterExact, LastOnce, Target
      <3>6. TypeOK' /\ TokenOrder'
        BY <1>0, <2>4, <2>6, <3>1, <3>2 DEF Count, TypeOK, TokenOrder
      <3> QED BY <3>5, <3>6
    <2>7. CASE mode = "any" /\ counter = 0
      <3>1. Counted = {}
        BY <2>4, <2>7 DEF CounterExact
      <3>2. pc' = [pc EXCEPT ![c] = "trigger"]
        BY <2>4, <2>7 DEF Count, AnyAfter
      <3>3. First = {} /\ Last = {}
        BY <3>1 DEF Counted, First, Last
      <3>4. First' = {c} /\ Last' = {}
        BY <3>2, <3>3 DEF First, Last, TypeOK
      <3>5. resumes = 0
        BY <2>4, <2>7 DEF LastOnce, Target, TypeOK
      <3>6. Cardinality(Counted') = 1 /\ Counted' # {}
        BY <2>2, <2>3, <2>4, <3>1
      <3>7. CounterExact' /\ LastOnce'
        BY <2>5, <2>7, <3>4, <3>5, <3>6 DEF CounterExact, LastOnce, Target
      <3>8. TypeOK' /\ TokenOrder'
        BY <1>0, <2>4, <2>7, <3>2 DEF Count, TypeOK, TokenOrder
      <3> QED BY <3>7, <3>8
    <2>8. CASE mode = "any" /\ counter > 0
      <3>1. pc' = [pc EXCEPT ![c] = IF counter + 1 = N + 1 THEN "detach" ELSE "out"]
        <4>1. counter + 1 # 1 /\ mode # "all"
          BY <2>5, <2>8
        <4> QED BY <4>1 DEF Count, AnyAfter
      <3>2. First' = First /\ Last' = Last \cup (IF counter + 1 = N + 1 THEN {c} ELSE {})
        BY <2>1, <3>1 DEF First, Last, TypeOK
      <3>3. Counted # {} /\ Counted' # {}
        BY <2>2, <2>8 DEF CounterExact
      <3>4. counter <= N
        BY <2>4, <2>5, <2>8, <3>3 DEF CounterExact
      <3>5. Last = {} /\ resumes = 0
        BY <2>4, <2>5, <2>8, <3>4 DEF LastOnce, Target, TypeOK
      <3>6. CounterExact'
        BY <2>3, <2>4, <2>5, <2>8, <3>2, <3>3 DEF CounterExact
      <3>7. LastOnce'
        BY <2>4, <2>5, <2>8, <3>2, <3>5 DEF LastOnce, Target
      <3>8. TypeOK'
        BY <2>4, <2>5, <3>1, <3>4 DEF Count, TypeOK
      <3>9. TokenOrder'
        BY <1>0, <2>8, <3>1 DEF Count, TypeOK, TokenOrder
      <3> QED BY <3>6, <3>7, <3>8, <3>9
    <2> QED BY <2>5, <2>6, <2>7, <2>8 DEF TypeOK
  <1>9. ASSUME NEW c \in Asyncs, Trigger(c) PROVE IInv'
    <2> USE <1>9
    <2>1. c \in First /\ mode = "any"
      BY DEF Trigger, First, CounterExact, TypeOK
    <2>2. /\ pc' \in [Asyncs -> {"new", "queued", "running", "asleep", "terminated", "trigger",
                                "recount", "detach", "resume", "out"}]
          /\ pc'[c] = "recount"
          /\ \A d \in Asyncs : d # c =>
                pc'[d] = IF pc[d] = "asleep" THEN "queued" ELSE pc[d]
      BY DEF Trigger, WakeAll, TypeOK
    <2>3. Counted' = Counted /\ First' = First /\ Last' = Last
      BY <2>2 DEF Trigger, Counted, First, Last
    <2>4. TypeOK'
      BY <2>2 DEF Trigger, TypeOK
    <2>5. \A d \in Asyncs : pc'[d] = "resume" => pc[d] = "resume"
      BY <2>2
    <2>6. TokenOrder'
      BY <1>0, <2>5 DEF Trigger, TokenOrder
    <2> QED BY <2>3, <2>4, <2>6, SameSets DEF Trigger
  <1>10. ASSUME NEW c \in Asyncs, Recount(c) PROVE IInv'
    <2> USE <1>10
    <2>1. mode = "any" /\ First = {c} /\ Counted # {}
      BY DEF Recount, First, Counted, CounterExact, TypeOK
    <2>2. counter = Cardinality(Counted) /\ counter > 0
      BY <2>1, CountedSize DEF CounterExact
    <2>3. N \in Nat /\ counter \in Nat /\ counter <= N
      BY <2>2, CountedSize
    <2>4. Last = {} /\ resumes = 0
      BY <2>1, <2>3 DEF LastOnce, Target, TypeOK
    <2>5. pc' = [pc EXCEPT ![c] = IF counter + 1 = N + 1 THEN "detach" ELSE "out"]
      BY DEF Recount
    <2>6. Counted' = Counted /\ First' = {}
      BY <2>1, <2>5 DEF Counted, First, TypeOK
    <2>7. Last' = IF counter + 1 = N + 1 THEN {c} ELSE {}
      BY <2>4, <2>5 DEF Last, TypeOK
    <2>8. counter' = counter + 1 /\ resumes' = 0 /\ mode' = "any"
      BY <2>1, <2>4 DEF Recount
    <2>9. CounterExact'
      BY <2>1, <2>2, <2>6, <2>8 DEF CounterExact
    <2>10. LastOnce'
      BY <2>7, <2>8 DEF LastOnce, Target
    <2>11. TypeOK'
      BY <2>3, <2>5, <2>8 DEF Recount, TypeOK
    <2>12. tokenFlag
      <3>1. \A d \in Asyncs : pc[d] # "trigger"
        BY <2>1 DEF First, Recount
      <3> QED BY <2>1, <2>2, <3>1 DEF TokenOrder
    <2>13. TokenOrder'
      BY <1>0, <2>4, <2>5, <2>12 DEF Recount, TokenOrder, Last, TypeOK
    <2> QED BY <2>9, <2>10, <2>11, <2>13
  <1>11. ASSUME NEW c \in Asyncs, Detach(c) PROVE IInv'
    <2> USE <1>11
    <2>1. Counted' = Counted /\ First' = First /\ Last' = Last
      BY DEF Detach, Counted, First, Last, TypeOK
    <2>2. TypeOK' /\ TokenOrder'
      BY <1>0 DEF Detach, TypeOK, TokenOrder
    <2> QED BY <2>1, <2>2, SameSets DEF Detach
  <1>12. ASSUME NEW c \in Asyncs, Resume(c) PROVE IInv'
    <2> USE <1>12
    <2>1. c \in Last
      BY DEF Resume, Last
    <2>2. Last = {c} /\ resumes = 0 /\ counter = Target
      BY <2>1 DEF LastOnce
    <2>3. Counted' = Counted /\ First' = First /\ Last' = {}
      BY <2>2 DEF Resume, Counted, First, Last, TypeOK
    <2>4. CounterExact'
      BY <2>3 DEF Resume, CounterExact
    <2>5. LastOnce'
      BY <2>2, <2>3 DEF Resume, LastOnce, Target
    <2>6. TypeOK' /\ TokenOrder'
      BY <1>0, <2>2 DEF Resume, TypeOK, TokenOrder
    <2> QED BY <2>4, <2>5, <2>6
  <1>13. CASE Finished \/ UNCHANGED vars
    <2>1. UNCHANGED vars
      BY <1>13 DEF Finished
    <2>2. Counted' = Counted /\ First' = First /\ Last' = Last
      BY <2>1 DEF vars, Counted, First, Last
    <2>3. TypeOK' /\ TokenOrder'
      BY <2>1 DEF vars, TypeOK, TokenOrder
    <2> QED BY <2>1, <2>2, <2>3, SameSets DEF vars
  <1> QED
    BY <1>1, <1>2, <1>3, <1>4, <1>5, <1>6, <1>7, <1>8, <1>9, <1>10, <1>11, <1>12, <1>13
    DEF Next, AsyncStep

\* The invariant holds in every behaviour.
LEMMA IInvHolds == Spec => []IInv
  <1>1. Init => IInv
    <2> SUFFICES ASSUME Init PROVE IInv
      OBVIOUS
    <2>1. Counted = {} /\ First = {} /\ Last = {}
      BY DEF Init, Counted, First, Last
    <2>2. N \in Nat /\ Cardinality(Counted) = 0
      BY <2>1, CountedSize
    <2>3. TypeOK
      <3>1. 0 \in 0 .. N + 1 /\ 0 \in Nat
        BY <2>2
      <3> QED BY <3>1 DEF Init, TypeOK
    <2>4. CounterExact /\ LastOnce /\ TokenOrder
      BY <2>1, <2>2 DEF Init, CounterExact, LastOnce, TokenOrder
    <2> QED BY <2>3, <2>4 DEF IInv
  <1> QED BY <1>1, IInvInductive, PTL DEF Spec

\* The state of an awaitable keeps its type; counter_ does not pass its target.
THEOREM TypeCorrect == Spec => []TypeOK
  BY IInvHolds, PTL DEF IInv

\* any() and all() resume their caller once, when all their asyncs are through
\* with the awaitable; any() has then triggered and detached its token.
THEOREM ResumesSafely == Spec => []ResumeSafe
  <1>1. IInv => ResumeSafe
    <2> SUFFICES ASSUME IInv, resumes > 0
                 PROVE  /\ resumes = 1
                        /\ \A c \in Asyncs : pc[c] = "out"
                        /\ mode = "any" => tokenFlag /\ ~attached
      BY DEF ResumeSafe
    <2>1. resumes = 1 /\ counter = Target /\ Last = {}
      BY DEF IInv, LastOnce, TypeOK
    <2>2. Counted = Asyncs /\ First = {}
      BY <2>1, CountedSize DEF IInv, CounterExact, Target, TypeOK
    <2>3. \A c \in Asyncs : pc[c] = "out"
      BY <2>1, <2>2 DEF Counted, First, Last
    <2>4. mode = "any" => counter > 0
      BY <2>1, CountedSize DEF Target
    <2> QED BY <2>1, <2>3, <2>4 DEF IInv, TokenOrder
  <1> QED BY <1>1, IInvHolds, PTL
=============================================================================
