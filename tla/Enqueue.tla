------------------------------- MODULE Enqueue -------------------------------
(***************************************************************************)
(* co_await any(...) and co_await all(...): the awaitables EnqueueAny and  *)
(* EnqueueAll of cc/bzd/core/async/awaitables/enqueue.hh, with the tokens  *)
(* of cc/bzd/core/async/cancellation.hh they cancel their asyncs with.     *)
(*                                                                         *)
(* The caller enqueues its asyncs; they run on any core, so that they      *)
(* terminate and count themselves concurrently, also with the caller that  *)
(* still enqueues others and with the cancellation of the caller itself.   *)
(* trigger(), attachTo(), detach() and addOneTimeCallback() hold the mutex *)
(* of the token they work on and are one step each.                        *)
(***************************************************************************)
EXTENDS Naturals, FiniteSets

CONSTANT Asyncs   \* the asyncs passed to any() or all()

ASSUME AsyncsAssumption == IsFiniteSet(Asyncs) /\ Asyncs # {}

VARIABLES
  mode,        \* "any" or "all"
  hasParent,   \* whether the caller has a cancellation token
  parentFlag,  \* flag_ of that token
  tokenFlag,   \* flag_ of token_ of EnqueueAny
  attached,    \* whether token_ is a child of the caller's token
  caller,      \* where the caller's await_suspend() is
  pc,          \* where each async is
  counter,     \* counter_
  resumes      \* how often the caller was resumed

vars == <<mode, hasParent, parentFlag, tokenFlag, attached, caller, pc, counter, resumes>>

N == Cardinality(Asyncs)

Init ==
  /\ mode \in {"any", "all"}
  /\ hasParent \in BOOLEAN
  /\ parentFlag = FALSE
  /\ tokenFlag = FALSE
  /\ attached = FALSE
  /\ caller = "start"
  /\ pc = [c \in Asyncs |-> "new"]
  /\ counter = 0
  /\ resumes = 0
-----------------------------------------------------------------------------
(***************************************************************************)
(* The tokens.  The asyncs of all() carry the token of the caller, those   *)
(* of any() carry token_.                                                  *)
(***************************************************************************)
Canceled == IF mode = "all" THEN parentFlag ELSE tokenFlag

\* The cancellation callbacks of the suspended asyncs put them back in the queue.
WakeAll(f) == [c \in Asyncs |-> IF f[c] = "asleep" THEN "queued" ELSE f[c]]

\* Somebody triggers the token of the caller, which triggers its children.
ParentTrigger ==
  /\ hasParent
  /\ ~parentFlag
  /\ parentFlag' = TRUE
  /\ tokenFlag' = (tokenFlag \/ attached)
  /\ pc' = IF mode = "all" \/ attached THEN WakeAll(pc) ELSE pc
  /\ UNCHANGED <<mode, hasParent, attached, caller, counter, resumes>>
-----------------------------------------------------------------------------
(***************************************************************************)
(* The caller: await_suspend() attaches token_ and schedules the asyncs.   *)
(***************************************************************************)
AwaitSuspend ==
  /\ caller = "start"
  /\ caller' = "enqueuing"
  /\ attached' = (mode = "any" /\ hasParent)
  /\ UNCHANGED <<mode, hasParent, parentFlag, tokenFlag, pc, counter, resumes>>

Schedule(c) ==
  /\ caller = "enqueuing"
  /\ pc[c] = "new"
  /\ pc' = [pc EXCEPT ![c] = "queued"]
  /\ UNCHANGED <<mode, hasParent, parentFlag, tokenFlag, attached, caller, counter, resumes>>
-----------------------------------------------------------------------------
(***************************************************************************)
(* An async: the executor runs it or, when it is canceled, terminates it.  *)
(***************************************************************************)
Pop(c) ==
  /\ pc[c] = "queued"
  /\ pc' = [pc EXCEPT ![c] = IF Canceled THEN "terminated" ELSE "running"]
  /\ UNCHANGED <<mode, hasParent, parentFlag, tokenFlag, attached, caller, counter, resumes>>

\* It returns.
Complete(c) ==
  /\ pc[c] = "running"
  /\ pc' = [pc EXCEPT ![c] = "terminated"]
  /\ UNCHANGED <<mode, hasParent, parentFlag, tokenFlag, attached, caller, counter, resumes>>

\* Mutant: the callback is added without a look at the flag.
SuspendUnchecked(c) ==
  /\ pc[c] = "running"
  /\ pc' = [pc EXCEPT ![c] = "asleep"]
  /\ UNCHANGED <<mode, hasParent, parentFlag, tokenFlag, attached, caller, counter, resumes>>

\* It suspends, registering a cancellation callback: addOneTimeCallback() calls
\* the callback at once if the token was triggered.
Suspend(c) ==
  /\ pc[c] = "running"
  /\ pc' = [pc EXCEPT ![c] = IF Canceled THEN "queued" ELSE "asleep"]
  /\ UNCHANGED <<mode, hasParent, parentFlag, tokenFlag, attached, caller, counter, resumes>>

\* What it waits for happens.
Wake(c) ==
  /\ pc[c] = "asleep"
  /\ pc' = [pc EXCEPT ![c] = "queued"]
  /\ UNCHANGED <<mode, hasParent, parentFlag, tokenFlag, attached, caller, counter, resumes>>
-----------------------------------------------------------------------------
(***************************************************************************)
(* onTerminateCallback() of EnqueueAll and of EnqueueAny.                  *)
(***************************************************************************)
\* Where an async that counted current goes: only one of them resumes the caller.
AllAfter(current) == IF current = N THEN "resume" ELSE "out"
AnyAfter(current) ==
  IF current = 1 THEN "trigger" ELSE IF current = N + 1 THEN "detach" ELSE "out"

\* Mutant: the callback stays registered and is called again.
CountRepeated(c) ==
  /\ pc[c] = "terminated"
  /\ counter' = counter + 1
  /\ UNCHANGED <<mode, hasParent, parentFlag, tokenFlag, attached, caller, pc, resumes>>

Count(c) ==
  /\ pc[c] = "terminated"
  /\ counter' = counter + 1
  /\ pc' = [pc EXCEPT ![c] = IF mode = "all" THEN AllAfter(counter + 1) ELSE AnyAfter(counter + 1)]
  /\ UNCHANGED <<mode, hasParent, parentFlag, tokenFlag, attached, caller, resumes>>

\* The first one of any() cancels the others.
Trigger(c) ==
  /\ pc[c] = "trigger"
  /\ tokenFlag' = TRUE
  /\ pc' = [WakeAll(pc) EXCEPT ![c] = "recount"]
  /\ UNCHANGED <<mode, hasParent, parentFlag, attached, caller, counter, resumes>>

\* Mutant: the second count of the first one is forgotten.
RecountForgotten(c) ==
  /\ pc[c] = "recount"
  /\ pc' = [pc EXCEPT ![c] = IF counter = N THEN "detach" ELSE "out"]
  /\ UNCHANGED <<mode, hasParent, parentFlag, tokenFlag, attached, caller, counter, resumes>>

\* Mutant: the last one is compared with the number of asyncs.
RecountEarly(c) ==
  /\ pc[c] = "recount"
  /\ counter' = counter + 1
  /\ pc' = [pc EXCEPT ![c] = IF counter + 1 >= N THEN "detach" ELSE "out"]
  /\ UNCHANGED <<mode, hasParent, parentFlag, tokenFlag, attached, caller, resumes>>

Recount(c) ==
  /\ pc[c] = "recount"
  /\ counter' = counter + 1
  /\ pc' = [pc EXCEPT ![c] = IF counter + 1 = N + 1 THEN "detach" ELSE "out"]
  /\ UNCHANGED <<mode, hasParent, parentFlag, tokenFlag, attached, caller, resumes>>

Detach(c) ==
  /\ pc[c] = "detach"
  /\ attached' = FALSE
  /\ pc' = [pc EXCEPT ![c] = "resume"]
  /\ UNCHANGED <<mode, hasParent, parentFlag, tokenFlag, caller, counter, resumes>>

\* The executor runs the returned continuation, the caller.
Resume(c) ==
  /\ pc[c] = "resume"
  /\ resumes' = resumes + 1
  /\ pc' = [pc EXCEPT ![c] = "out"]
  /\ UNCHANGED <<mode, hasParent, parentFlag, tokenFlag, attached, caller, counter>>

AsyncStep(c) ==
  \/ Schedule(c) \/ Pop(c) \/ Complete(c) \/ Suspend(c)
  \/ Count(c) \/ Trigger(c) \/ Recount(c) \/ Detach(c) \/ Resume(c)

\* Nothing is left to do.
Finished ==
  /\ resumes > 0
  /\ hasParent => parentFlag
  /\ UNCHANGED vars

Next ==
  \/ ParentTrigger \/ AwaitSuspend \/ Finished
  \/ \E c \in Asyncs : AsyncStep(c) \/ Wake(c)

Spec == Init /\ [][Next]_vars

\* The executor runs what is queued and an async that runs returns or suspends.
\* What a suspended async waits for need not happen, nor a cancellation.
FairSpec ==
  /\ Spec
  /\ WF_vars(AwaitSuspend)
  /\ \A c \in Asyncs : WF_vars(AsyncStep(c))
-----------------------------------------------------------------------------
\* Where the asyncs are in the code; counter_ does not pass its target, N + 1.
TypeOK ==
  /\ mode \in {"any", "all"}
  /\ hasParent \in BOOLEAN
  /\ parentFlag \in BOOLEAN
  /\ tokenFlag \in BOOLEAN
  /\ attached \in BOOLEAN
  /\ caller \in {"start", "enqueuing"}
  /\ pc \in [Asyncs -> {"new", "queued", "running", "asleep", "terminated", "trigger",
                        "recount", "detach", "resume", "out"}]
  /\ counter \in 0 .. N + 1
  /\ resumes \in Nat

\* The caller is resumed once, when every async has terminated and none of
\* them will touch the awaitable, which lives in the frame of the caller, any
\* more; any() has then canceled its asyncs and left the token of the caller.
ResumeSafe ==
  resumes > 0 =>
    /\ resumes = 1
    /\ \A c \in Asyncs : pc[c] = "out"
    /\ mode = "any" => tokenFlag /\ ~attached

\* As soon as one async of any() has terminated, the others are canceled and
\* the caller is resumed, even when they wait for something that never happens.
AnyReturns == (mode = "any" /\ counter > 0) ~> resumes = 1

\* When the caller of all() is canceled, its asyncs are and it is resumed.
AllCanceled == (mode = "all" /\ parentFlag) ~> resumes = 1

\* The caller of any() and all() goes on, although the asyncs may wait for something that never happens.
CallerReturns ==
  /\ AnyReturns
  /\ AllCanceled
=============================================================================
