------------------------------ MODULE Executor ------------------------------
(***************************************************************************)
(* The scheduler of the coroutines: Executor of                            *)
(* cc/bzd/core/async/executor.hh with its queue NonOwningRingSpin and the  *)
(* flags of ExecutableMetadata, driven by the component generic::Executor, *)
(* which starts a thread on each core.                                     *)
(*                                                                         *)
(* The program that runs on it is a workload, Root, that may yield, may    *)
(* suspend until an event and awaits once all() or allParallel() of its    *)
(* children; the children yield and suspend as well, the services yield    *)
(* for ever.  Each step is one atomic operation on the state the cores     *)
(* share; the two counters of an executable change in one step, as no code *)
(* reads both.                                                             *)
(***************************************************************************)
EXTENDS Integers, FiniteSets, SequencesExt

CONSTANTS Cores,       \* the cores of the component
          MainCore,    \* the core with index 0
          Root,        \* the workload given to schedule()
          Children,    \* the asyncs it awaits
          Services,    \* the services given to schedule()
          Parallel,    \* whether it awaits them with allParallel()
          MaySuspend,  \* whether workloads suspend until an event
          MaxYields,   \* bound: how often each workload gives up its core
          MaxAborts    \* bound: how often requestAbort() is called

Workloads == {Root} \cup Children
Executables == Workloads \cup Services
None == "none"        \* no executable
Dummy == "dummy"      \* dummy_ of the ring
AnyCore == "any core" \* the pinned flag is not set

ASSUME CoresAssumption == MainCore \in Cores /\ IsFiniteSet(Cores) /\ AnyCore \notin Cores
ASSUME ExecutablesAssumption ==
  /\ IsFiniteSet(Executables) /\ {None, Dummy} \cap Executables = {}
  /\ Root \notin Children /\ Workloads \cap Services = {}
ASSUME BoundsAssumption ==
  Parallel \in BOOLEAN /\ MaySuspend \in BOOLEAN /\ MaxYields \in Nat /\ MaxAborts \in Nat

VARIABLES
  ring,           \* queue_, from the element after head_ to head_
  skip, pin,      \* the flags of each executable
  workloadCount, queueCount,
  status,
  context,        \* context_: the cores that are in run()
  maxRunning,     \* maxRunningCount_
  pc,             \* where each core is
  current,        \* the executable each core works on
  tick, min,      \* tick_ and minIterationCount of each core
  pushing,        \* the child that a core schedules
  left,           \* how often each workload may still give up its core
  unforked,       \* the children that were not scheduled yet
  counter,        \* counter_ of EnqueueAll
  active,         \* workloadCount_ of generic::Executor
  asleep,         \* the suspended executables that nobody scheduled yet
  waking,         \* the one that an event is scheduling
  aborts

queueVars == <<ring, skip, pin, workloadCount, queueCount>>
runVars == <<status, context, maxRunning, tick, min>>
programVars == <<pushing, left, unforked, counter, active>>
eventVars == <<asleep, waking, aborts>>
vars == <<queueVars, runVars, pc, current, programVars, eventVars>>

Init ==
  /\ ring \in {<<Dummy>> \o s : s \in SetToSeqs({Root} \cup Services)}
  /\ skip = [e \in Executables |-> FALSE]
  /\ pin = [e \in Executables |-> AnyCore]
  /\ workloadCount = 1 /\ queueCount = 1 + Cardinality(Services)
  /\ status = "idle" /\ context = {} /\ maxRunning = 0
  /\ pc = [c \in Cores |-> "register"]
  /\ current = [c \in Cores |-> None]
  /\ tick = [c \in Cores |-> 0] /\ min = [c \in Cores |-> 0]
  /\ pushing = [c \in Cores |-> None]
  /\ left = [e \in Workloads |-> MaxYields]
  /\ unforked = Children /\ counter = 0 /\ active = 1
  /\ asleep = {} /\ waking = None /\ aborts = 0

Goto(c, next) == pc' = [pc EXCEPT ![c] = next]
Drop(c) == current' = [current EXCEPT ![c] = None]

\* incrementCounters(); n = -1 is what pop() does.
Count(e, n) ==
  /\ workloadCount' = workloadCount + (IF e \in Workloads THEN n ELSE 0)
  /\ queueCount' = queueCount + n
-----------------------------------------------------------------------------
(***************************************************************************)
(* run(): registerContext(), the status and the condition of the loop.     *)
(***************************************************************************)
Register(c) ==
  /\ pc[c] = "register"
  /\ context' = context \cup {c}
  /\ Goto(c, "max")
  /\ UNCHANGED <<queueVars, status, maxRunning, tick, min, current, programVars, eventVars>>

UpdateMax(c) ==
  /\ pc[c] = "max"
  /\ maxRunning' = Max({maxRunning, Cardinality(context)})
  /\ Goto(c, "status")
  /\ UNCHANGED <<queueVars, status, context, tick, min, current, programVars, eventVars>>

SetStatus(c) ==
  /\ pc[c] = "status"
  /\ status' = IF status = "idle" THEN "running" ELSE status
  /\ Goto(c, "min")
  /\ UNCHANGED <<queueVars, context, maxRunning, tick, min, current, programVars, eventVars>>

LoadMin(c) ==
  /\ pc[c] = "min"
  /\ min' = [min EXCEPT ![c] = queueCount]
  /\ tick' = [tick EXCEPT ![c] = 0]
  /\ Goto(c, "test")
  /\ UNCHANGED <<queueVars, status, context, maxRunning, current, programVars, eventVars>>

\* Mutant: the loop also goes on without any workload.
TestOffByOne(c) ==
  /\ pc[c] = "test"
  /\ Goto(c, IF workloadCount >= 0 \/ tick[c] <= min[c] THEN "testStatus" ELSE "unregister")
  /\ UNCHANGED <<queueVars, runVars, current, programVars, eventVars>>

Test(c) ==
  /\ pc[c] = "test"
  /\ Goto(c, IF workloadCount > 0 \/ tick[c] <= min[c] THEN "testStatus" ELSE "unregister")
  /\ UNCHANGED <<queueVars, runVars, current, programVars, eventVars>>

TestStatus(c) ==
  /\ pc[c] = "testStatus"
  /\ Goto(c, IF status = "abortRequested" THEN "unregister" ELSE "pop")
  /\ UNCHANGED <<queueVars, runVars, current, programVars, eventVars>>

\* Past minIterationCount the value of the tick does not matter any more.
Tick(c) ==
  /\ pc[c] = "tick"
  /\ tick' = [tick EXCEPT ![c] = Min({@ + 1, min[c] + 1})]
  /\ Goto(c, "test")
  /\ UNCHANGED <<queueVars, status, context, maxRunning, min, current, programVars, eventVars>>

\* Mutant: the last one out leaves the status as it is.
UnregisterKeepsStatus(c) ==
  /\ pc[c] = "unregister"
  /\ context' = context \ {c}
  /\ Goto(c, "idle")
  /\ UNCHANGED <<queueVars, status, maxRunning, tick, min, current, programVars, eventVars>>

\* The scope of registerContext() ends.
Unregister(c) ==
  /\ pc[c] = "unregister"
  /\ context' = context \ {c}
  /\ status' = IF context = {c} THEN "idle" ELSE status
  /\ Goto(c, "idle")
  /\ UNCHANGED <<queueVars, maxRunning, tick, min, current, programVars, eventVars>>

\* generic::Executor::run(): only core 0 calls run() again.
Idle(c) ==
  /\ pc[c] = "idle"
  /\ Goto(c, IF active > 0 /\ c = MainCore THEN "register" ELSE "stopped")
  /\ UNCHANGED <<queueVars, runVars, current, programVars, eventVars>>
-----------------------------------------------------------------------------
(***************************************************************************)
(* pop() and push().                                                       *)
(***************************************************************************)
IsReadyToBeScheduled(e, c) == e # Dummy /\ ~skip[e] /\ pin[e] \in {AnyCore, c}

\* popFront() moves head_ up to the first element that is ready and takes it
\* out, or goes once around.
Pop(c) ==
  LET i == SelectInSeq(ring, LAMBDA e : IsReadyToBeScheduled(e, c))
  IN  /\ pc[c] = "pop"
      /\ IF i = 0 THEN Goto(c, "tick") /\ UNCHANGED <<ring, pin, current>>
         ELSE /\ ring' = SubSeq(ring, i + 1, Len(ring)) \o SubSeq(ring, 1, i - 1)
              /\ pin' = [pin EXCEPT ![ring[i]] = c]
              /\ current' = [current EXCEPT ![c] = ring[i]]
              /\ Goto(c, "count")
      /\ UNCHANGED <<skip, workloadCount, queueCount, runVars, programVars, eventVars>>

PopCount(c) ==
  /\ pc[c] = "count"
  /\ Count(current[c], -1)
  /\ Goto(c, "resume")
  /\ UNCHANGED <<ring, skip, pin, runVars, current, programVars, eventVars>>

\* Mutant: the executable is the next one to be popped.
PushFront(c) ==
  /\ pc[c] \in {"push", "pushSkipped"}
  /\ ring' = <<current[c]>> \o ring
  /\ Drop(c)
  /\ Goto(c, "tick")
  /\ UNCHANGED <<skip, pin, workloadCount, queueCount, runVars, programVars, eventVars>>

\* Mutant: the executable also stays with the core that pushed it.
PushKeeps(c) ==
  /\ pc[c] \in {"push", "pushSkipped"}
  /\ ring' = Append(ring, current[c])
  /\ Goto(c, "tick")
  /\ UNCHANGED <<skip, pin, workloadCount, queueCount, runVars, current, programVars, eventVars>>

Push(c) ==
  /\ pc[c] \in {"push", "pushSkipped"}
  /\ ring' = Append(ring, current[c])
  /\ Drop(c)
  /\ Goto(c, "tick")
  /\ UNCHANGED <<skip, pin, workloadCount, queueCount, runVars, programVars, eventVars>>
-----------------------------------------------------------------------------
(***************************************************************************)
(* What a resumed executable does until it gives its core back.            *)
(***************************************************************************)
Spend(e) == left' = IF e \in Workloads THEN [left EXCEPT ![e] = @ - 1] ELSE left

\* Mutant: reschedule() does not increment the counters.
YieldUncounted(c) ==
  LET e == current[c]
  IN  /\ pc[c] = "resume"
      /\ e \in Workloads => left[e] > 0
      /\ Spend(e)
      /\ Goto(c, "push")
      /\ UNCHANGED <<queueVars, runVars, current, pushing, unforked, counter, active, eventVars>>

Yield(c) ==
  LET e == current[c]
  IN  /\ pc[c] = "resume"
      /\ e \in Workloads => left[e] > 0
      /\ Spend(e)
      /\ Count(e, 1)
      /\ Goto(c, "push")
      /\ UNCHANGED <<ring, skip, pin, runVars, current, pushing, unforked, counter, active, eventVars>>

\* suspend(): the executable is skipped, from now on an event may schedule it;
\* it is pushed without being counted.
Suspend(c) ==
  LET e == current[c]
  IN  /\ MaySuspend
      /\ pc[c] = "resume"
      /\ e \in Workloads /\ left[e] > 0
      /\ Spend(e)
      /\ skip' = [skip EXCEPT ![e] = TRUE]
      /\ asleep' = asleep \cup {e}
      /\ Goto(c, "pushSkipped")
      /\ UNCHANGED <<ring, pin, workloadCount, queueCount, runVars, current,
                     pushing, unforked, counter, active, waking, aborts>>

\* enqueueAsyncs() gives each child the flags of the caller, without the core
\* if it may run anywhere, counts it ...
Fork(c) ==
  \E k \in unforked :
    /\ pc[c] \in {"resume", "fork"} /\ current[c] = Root
    /\ pin' = [pin EXCEPT ![k] = IF Parallel THEN AnyCore ELSE pin[Root]]
    /\ Count(k, 1)
    /\ pushing' = [pushing EXCEPT ![c] = k]
    /\ Goto(c, "forkPush")
    /\ UNCHANGED <<ring, skip, runVars, current, left, unforked, counter, active, eventVars>>

\* ... and pushes it; the caller stays suspended after the last one.
ForkPush(c) ==
  /\ pc[c] = "forkPush"
  /\ ring' = Append(ring, pushing[c])
  /\ unforked' = unforked \ {pushing[c]}
  /\ pushing' = [pushing EXCEPT ![c] = None]
  /\ IF unforked' = {} THEN Drop(c) /\ Goto(c, "tick") ELSE Goto(c, "fork") /\ UNCHANGED current
  /\ UNCHANGED <<skip, pin, workloadCount, queueCount, runVars, left, counter, active, eventVars>>

\* Mutant: the continuation is returned by each child.
ChildEndsEach(c) ==
  /\ pc[c] = "resume" /\ current[c] \in Children
  /\ counter' = counter + 1
  /\ current' = [current EXCEPT ![c] = Root] /\ UNCHANGED pc
  /\ UNCHANGED <<queueVars, runVars, pushing, left, unforked, active, eventVars>>

\* onTerminateCallback(): the last child continues the caller, on its own core.
ChildEnds(c) ==
  /\ pc[c] = "resume" /\ current[c] \in Children
  /\ counter' = counter + 1
  /\ IF counter' = Cardinality(Children)
     THEN current' = [current EXCEPT ![c] = Root] /\ UNCHANGED pc
     ELSE Drop(c) /\ Goto(c, "tick")
  /\ UNCHANGED <<queueVars, runVars, pushing, left, unforked, active, eventVars>>

\* onExecutableTerminate() of the component, then requestShutdown().
RootEnds(c) ==
  /\ pc[c] = "resume" /\ current[c] = Root
  /\ unforked = {}
  /\ active' = active - 1
  /\ Drop(c)
  /\ Goto(c, "shutdown")
  /\ UNCHANGED <<queueVars, runVars, pushing, left, unforked, counter, eventVars>>

RequestShutdown(c) ==
  /\ pc[c] = "shutdown"
  /\ status' = IF status = "running" THEN "shutdownRequested" ELSE status
  /\ Goto(c, "tick")
  /\ UNCHANGED <<queueVars, context, maxRunning, tick, min, current, programVars, eventVars>>

CoreStep(c) ==
  \/ Register(c) \/ UpdateMax(c) \/ SetStatus(c) \/ LoadMin(c) \/ Test(c) \/ TestStatus(c)
  \/ Pop(c) \/ PopCount(c) \/ Push(c) \/ Tick(c) \/ Unregister(c) \/ Idle(c)
  \/ Yield(c) \/ Suspend(c) \/ Fork(c) \/ ForkPush(c)
  \/ ChildEnds(c) \/ RootEnds(c) \/ RequestShutdown(c)
-----------------------------------------------------------------------------
(***************************************************************************)
(* The outside: an event schedules a suspended executable, with unskip():  *)
(* first the counters, then the flag; somebody calls requestAbort().       *)
(***************************************************************************)
Wake(e) ==
  /\ e \in asleep /\ waking = None
  /\ asleep' = asleep \ {e}
  /\ waking' = e
  /\ Count(e, 1)
  /\ UNCHANGED <<ring, skip, pin, runVars, pc, current, programVars, aborts>>

Unskip ==
  /\ waking # None
  /\ skip' = [skip EXCEPT ![waking] = FALSE]
  /\ waking' = None
  /\ UNCHANGED <<ring, pin, workloadCount, queueCount, runVars, pc, current, programVars, asleep, aborts>>

EventStep == Unskip \/ \E e \in Workloads : Wake(e)

RequestAbort ==
  /\ aborts < MaxAborts
  /\ aborts' = aborts + 1
  /\ status' = IF status = "idle" THEN status ELSE "abortRequested"
  /\ UNCHANGED <<queueVars, context, maxRunning, tick, min, pc, current, programVars, asleep, waking>>

\* stop() joins the cores and clears the queue; then nothing happens any more.
Stop ==
  /\ \A c \in Cores : pc[c] = "stopped"
  /\ ring' = <<Dummy>>
  /\ UNCHANGED <<skip, pin, workloadCount, queueCount, runVars, pc, current, programVars, eventVars>>

Next ==
  \/ \E c \in Cores : CoreStep(c)
  \/ EventStep
  \/ RequestAbort
  \/ Stop

Spec == Init /\ [][Next]_vars

\* The threads of the cores run, and each event happens.
FairSpec == Spec /\ (\A c \in Cores : WF_vars(CoreStep(c))) /\ WF_vars(EventStep)
-----------------------------------------------------------------------------
\* The queue, flags and counters, and where the cores are in run(); the component
\* does not count more terminations than it has workloads.
TypeOK ==
  /\ ring \in Seq(Executables \cup {Dummy})
  /\ skip \in [Executables -> BOOLEAN] /\ pin \in [Executables -> Cores \cup {AnyCore}]
  /\ workloadCount \in Int /\ queueCount \in Int
  /\ status \in {"idle", "running", "shutdownRequested", "abortRequested"}
  /\ context \subseteq Cores /\ maxRunning \in 0 .. Cardinality(Cores)
  /\ pc \in [Cores -> {"register", "max", "status", "min", "test", "testStatus", "pop", "count",
                       "resume", "push", "pushSkipped", "fork", "forkPush", "shutdown", "tick",
                       "unregister", "idle", "stopped"}]
  /\ current \in [Cores -> Executables \cup {None}] /\ pushing \in [Cores -> Children \cup {None}]
  /\ tick \in [Cores -> Nat] /\ min \in [Cores -> Nat]
  /\ left \in [Workloads -> 0 .. MaxYields]
  /\ unforked \subseteq Children /\ counter \in 0 .. Cardinality(Children) /\ active \in 0 .. 1
  /\ asleep \subseteq Workloads /\ waking \in Workloads \cup {None} /\ aborts \in 0 .. MaxAborts

\* An executable is in the queue once or with one core, never both: no
\* coroutine is resumed by two threads.
OnePlace ==
  \A e \in Executables :
    Cardinality({i \in DOMAIN ring : ring[i] = e}) + Cardinality({c \in Cores : current[c] = e}) <= 1

\* The executables of a set that are to run and that no core has counted off.
Pending(S) ==
  {e \in S :
     \/ e \in Range(ring) /\ ~skip[e]
     \/ waking = e
     \/ \E c \in Cores : \/ current[c] = e /\ pc[c] \in {"count", "push"}
                         \/ current[c] = e /\ pc[c] = "pushSkipped" /\ ~skip[e]
                         \/ pushing[c] = e /\ pc[c] = "forkPush"}

\* The counters, which decide whether run() goes on, count just these
\* executables until stop(); so workloadCount_ is not negative, which pop()
\* asserts.
CountersExact ==
  (\E c \in Cores : pc[c] # "stopped") =>
    /\ workloadCount = Cardinality(Pending(Workloads))
    /\ queueCount = Cardinality(Pending(Executables))

\* run() resumes each service at least once, what minIterationCount is for.
ServicesRun == \A s \in Services : <>(\E c \in Cores : pc[c] = "resume" /\ current[c] = s)

\* A workload completes, what its type stands for.
WorkloadCompletes == <>(active = 0)

\* When it has, each core leaves run() and stops although the services go on
\* yielding.
CoresStop == active = 0 ~> \A c \in Cores : pc[c] = "stopped"

\* An abort ends: all cores leave run(), and the last one resets the status so
\* that the executor can be run again.
AbortEnds == status = "abortRequested" ~> status = "idle"

\* The queue and the counters agree with what the cores do: an executable is in one place, and the counters
\* by which a core leaves run() count the executables that are to run.
QueueExact ==
  /\ OnePlace
  /\ CountersExact

\* run() does its work and ends: the services are resumed, the workload completes, the cores stop after it
\* or after an abort, and the executor can be run again.
RunEnds ==
  /\ ServicesRun
  /\ WorkloadCompletes
  /\ CoresStop
  /\ AbortEnds
=============================================================================
