------------------------------ MODULE IoBuffer ------------------------------
(***************************************************************************)
(* bzd::io::Buffer with its Source and its Sinks (cc/bzd/core/io): a ring  *)
(* buffer, a spin mutex and the list of the sinks that sleep until data    *)
(* arrives.                                                                *)
(*                                                                         *)
(* The source and the sinks are coroutines.  A core runs one of them at a  *)
(* time and changes to another one only where the running one suspends, so *)
(* coroutines of one core interleave at their suspension points and those  *)
(* of different cores at every atomic operation.  A coroutine that spins   *)
(* on the mutex keeps its core busy.                                       *)
(***************************************************************************)
EXTENDS RingBuffer

CONSTANTS Source,   \* the coroutine that writes; the readers are the sinks
          CoreOf    \* the core each coroutine is pinned to

Coroutines == {Source} \cup Readers
NoOne == "noOne"

ASSUME SourceAssumption == Source \notin Readers /\ Source # NoOne /\ NoOne \notin Readers
ASSUME CoreOfAssumption == DOMAIN CoreOf = Coroutines

VARIABLES
  mutex,      \* who holds mutex_
  suspended,  \* suspended_: the sinks in the list, their element.index is index
  index,      \* index_ of each sink
  spc,        \* where each sink is
  npc,        \* where the source is in notifyNewData()
  running     \* the coroutine each core runs

ioVars == <<mutex, suspended, index, spc, npc, running>>
allVars == <<vars, ioVars>>

Cores == {CoreOf[c] : c \in Coroutines}
Runs(c) == running[CoreOf[c]] = c

IoInit ==
  /\ Init
  /\ mutex = NoOne
  /\ suspended = {}
  /\ index = [r \in Readers |-> 0]
  /\ spc = [r \in Readers |-> "idle"]
  /\ npc = "none"
  /\ running \in {f \in [Cores -> Coroutines] : \A k \in Cores : CoreOf[f[k]] = k}
-----------------------------------------------------------------------------
(***************************************************************************)
(* Source: trySet() or set(), then the destruction of the SourceSetResult. *)
(* The body of ~SourceSetResult() calls notifyNewData(); only then does    *)
(* the destructor of its base class unlock the slot and advance write_.    *)
(***************************************************************************)
SourceSet ==
  /\ Runs(Source)
  /\ WriterLock
  /\ UNCHANGED ioVars

SourceWrite ==
  /\ Runs(Source)
  /\ WriterDropOldest \/ WriterStore
  /\ UNCHANGED ioVars

NotifyLock ==
  /\ Runs(Source)
  /\ wpc = "written" /\ npc = "none"
  /\ mutex = NoOne
  /\ mutex' = Source
  /\ npc' = "locked"
  /\ UNCHANGED <<vars, suspended, index, spc, running>>

\* Mutant: the comparison of the indexes is off by one.
NotifyScanLate ==
  LET woken == {r \in suspended : write > index[r]}
  IN  /\ Runs(Source)
      /\ npc = "locked"
      /\ suspended' = suspended \ woken
      /\ spc' = [r \in Readers |-> IF r \in woken THEN "ready" ELSE spc[r]]
      /\ mutex' = NoOne
      /\ npc' = "done"
      /\ UNCHANGED <<vars, index, running>>

\* removeIf() schedules and removes each element whose index is reached, the
\* lock guard releases the mutex.
NotifyScan ==
  LET woken == {r \in suspended : write >= index[r]}
  IN  /\ Runs(Source)
      /\ npc = "locked"
      /\ suspended' = suspended \ woken
      /\ spc' = [r \in Readers |-> IF r \in woken THEN "ready" ELSE spc[r]]
      /\ mutex' = NoOne
      /\ npc' = "done"
      /\ UNCHANGED <<vars, index, running>>

SourceUnlock ==
  /\ Runs(Source)
  /\ npc = "done"
  /\ WriterUnlock
  /\ npc' = "none"
  /\ UNCHANGED <<mutex, suspended, index, spc, running>>

SourcePublish ==
  /\ Runs(Source)
  /\ WriterPublish
  /\ UNCHANGED ioVars

SourceStep ==
  SourceWrite \/ NotifyLock \/ NotifyScan \/ SourceUnlock \/ SourcePublish
-----------------------------------------------------------------------------
(***************************************************************************)
(* A sink's tryGetNew(), tryGetNew(count), tryGetLast() and getNew().      *)
(***************************************************************************)
SinkCalls == {"tryGetNew", "tryGetNewCount", "tryGetLast", "getNew"}

\* The ring buffer call behind each of them; count is 2.
RequestOf(r, call) ==
  [op    |-> IF call = "tryGetNewCount" THEN "spansLast" ELSE "last",
   start |-> IF call = "tryGetLast" THEN 0 ELSE index[r],
   count |-> IF call = "tryGetNewCount" THEN 2 ELSE 0]

\* These are calls of the ring buffer; index_ does not pass write_.
ASSUME SinkRequestsAssumption ==
  \A i \in 0 .. MaxWrites : {[op |-> "last", start |-> i, count |-> 0],
                            [op |-> "spansLast", start |-> i, count |-> 2]} \subseteq Requests

SinkCall(r, call) ==
  /\ Runs(r)
  /\ spc[r] = "idle"
  /\ ReaderCall(r, RequestOf(r, call))
  /\ spc' = [spc EXCEPT ![r] = call]
  /\ UNCHANGED <<mutex, suspended, index, npc, running>>

\* The steps of the ring buffer that return nothing to the sink.
SinkAcquire(r) ==
  /\ Runs(r)
  /\ ReaderLoadBegin(r) \/ ReaderLockLoad(r) \/ ReaderLockCas(r) \/ ReaderOutdated(r)
  /\ UNCHANGED ioVars

\* An empty result: getNew() goes on with waitForData(index_).
SinkLoadEnd(r) ==
  /\ Runs(r)
  /\ ReaderLoadEnd(r)
  /\ spc' = IF rpc'[r] # "idle" THEN spc
            ELSE [spc EXCEPT ![r] = IF @ = "getNew" THEN "waitLock" ELSE "idle"]
  /\ UNCHANGED <<mutex, suspended, index, npc, running>>

\* A result: the sink remembers that it has seen it.
SinkCheck(r) ==
  /\ Runs(r)
  /\ ReaderCheck(r)
  /\ index' = IF rpc'[r] = "reading" /\ spc[r] # "tryGetLast"
              THEN [index EXCEPT ![r] = begin[r] + 1] ELSE index
  /\ spc' = IF rpc'[r] = "reading" THEN [spc EXCEPT ![r] = "holding"] ELSE spc
  /\ UNCHANGED <<mutex, suspended, npc, running>>

SinkRelease(r) ==
  /\ Runs(r)
  /\ ReaderRelease(r)
  /\ spc' = [spc EXCEPT ![r] = "idle"]
  /\ UNCHANGED <<mutex, suspended, index, npc, running>>

\* waitForData(): makeSyncLockGuard(mutex_)
WaitLock(r) ==
  /\ Runs(r)
  /\ spc[r] = "waitLock"
  /\ mutex = NoOne
  /\ mutex' = r
  /\ spc' = [spc EXCEPT ![r] = "waitCheck"]
  /\ UNCHANGED <<vars, suspended, index, npc, running>>

\* Mutant: the guard is not released when the sink goes to sleep.
WaitSuspendKeepsLock(r) ==
  /\ Runs(r)
  /\ spc[r] = "waitCheck"
  /\ write <= index[r]
  /\ suspended' = suspended \cup {r}
  /\ spc' = [spc EXCEPT ![r] = "asleep"]
  /\ UNCHANGED <<vars, mutex, index, npc, running>>

\* No data: the sink is put in the list and the guard released while the
\* coroutine suspends.
WaitSuspend(r) ==
  /\ Runs(r)
  /\ spc[r] = "waitCheck"
  /\ write <= index[r]
  /\ suspended' = suspended \cup {r}
  /\ spc' = [spc EXCEPT ![r] = "asleep"]
  /\ mutex' = NoOne
  /\ UNCHANGED <<vars, index, npc, running>>

\* Data arrived meanwhile: the sink yields.  The guard is a local of the
\* coroutine and stays locked.
WaitYield(r) ==
  /\ Runs(r)
  /\ spc[r] = "waitCheck"
  /\ write > index[r]
  /\ spc' = [spc EXCEPT ![r] = "yielded"]
  /\ UNCHANGED <<vars, mutex, suspended, index, npc, running>>

\* waitForData() returns, destroying its guard, and getNew() tries again.
WaitReturn(r) ==
  /\ Runs(r)
  /\ spc[r] \in {"ready", "yielded"}
  /\ mutex' = IF spc[r] = "yielded" THEN NoOne ELSE mutex
  /\ ReaderCall(r, RequestOf(r, "getNew"))
  /\ spc' = [spc EXCEPT ![r] = "getNew"]
  /\ UNCHANGED <<suspended, index, npc, running>>

\* The cancellation callback of a sleeping sink erases it from the list; the
\* coroutine is then destroyed instead of resumed.
WaitCancel(r) ==
  /\ spc[r] = "asleep"
  /\ mutex = NoOne
  /\ suspended' = suspended \ {r}
  /\ spc' = [spc EXCEPT ![r] = "idle"]
  /\ UNCHANGED <<vars, mutex, index, npc, running>>

SinkStep(r) ==
  \/ SinkAcquire(r) \/ SinkLoadEnd(r) \/ SinkCheck(r) \/ SinkRelease(r)
  \/ WaitLock(r) \/ WaitSuspend(r) \/ WaitYield(r) \/ WaitReturn(r)
-----------------------------------------------------------------------------
(***************************************************************************)
(* The core: a coroutine may be left between two calls, while the source   *)
(* owns the result of set(), while a sink yields and while it sleeps.      *)
(***************************************************************************)
\* Mutant: the source suspends before its result is destroyed completely.
SuspendsInSet(c) ==
  IF c = Source THEN wpc \in {"idle", "writing", "publish"}
  ELSE spc[c] \in {"idle", "holding", "ready", "yielded", "asleep"}

Suspends(c) ==
  IF c = Source THEN wpc \in {"idle", "writing"}
  ELSE spc[c] \in {"idle", "holding", "ready", "yielded", "asleep"}

Resume(c) ==
  LET k == CoreOf[c]
  IN  /\ ~Runs(c)
      /\ Suspends(running[k])
      /\ c # Source => spc[c] # "asleep"
      /\ running' = [running EXCEPT ![k] = c]
      /\ UNCHANGED <<vars, mutex, suspended, index, spc, npc>>

IoNext ==
  \/ SourceSet \/ SourceStep
  \/ \E r \in Readers :
        (\E call \in SinkCalls : SinkCall(r, call)) \/ SinkStep(r) \/ WaitCancel(r)
  \/ \E c \in Coroutines : Resume(c)

IoSpec == IoInit /\ [][IoNext]_allVars

\* A core runs its current coroutine, and its queue is a ring, so that no
\* coroutine that can run is passed over for ever.
IoFairSpec ==
  /\ IoSpec
  /\ WF_allVars(SourceStep)
  /\ \A r \in Readers : WF_allVars(SinkStep(r))
  /\ \A c \in Coroutines : SF_allVars(Resume(c))
-----------------------------------------------------------------------------
\* The ring, the list of sleepers and where the coroutines are in the code.
IoTypeOK ==
  /\ TypeOK
  /\ mutex \in Coroutines \cup {NoOne}
  /\ suspended \subseteq Readers
  /\ index \in [Readers -> Nat]
  /\ spc \in [Readers -> SinkCalls \cup {"idle", "holding", "waitLock", "waitCheck",
                                         "asleep", "ready", "yielded"}]
  /\ npc \in {"none", "locked", "done"}
  /\ running \in [Cores -> Coroutines]

\* A notification passes over nobody: each sink that sleeps is woken by it,
\* although notifyNewData() compares with the index_ each of them had when it
\* went to sleep.
NotifyWakesAll == [][npc = "locked" /\ npc' = "done" => suspended' = {}]_allVars

\* tryGetNew() and getNew() never return an element they returned before, and
\* never an older one: each result that advances index_ is newer than the last.
NewIsNewer ==
  [][\A r \in Readers :
       spc[r] \in {"tryGetNew", "getNew"} /\ spc'[r] = "holding" =>
          index[r] <= begin[r] /\ index'[r] = begin[r] + 1]_allVars

\* A sink does not sleep on data that is there: once an element that it has not
\* seen is published it wakes up.  Not satisfied across cores: ~SourceSetResult() notifies
\* before the element is published (source.hh:37).
SleeperWakes ==
  \A r \in Readers : (r \in suspended /\ write > index[r]) ~> r \notin suspended

\* A sink on the core of the source never sleeps on data that is there: the
\* source does not suspend between the notification and the publication of an
\* element, so that no such sink can go to sleep in between.
LocalSleepersUpToDate ==
  \A r \in suspended : CoreOf[r] = CoreOf[Source] => write <= index[r]

\* When such a sink is woken it finds an element that it has not seen, although
\* the notification comes before the publication.
LocalWokenFindsNew ==
  \A r \in Readers :
    CoreOf[r] = CoreOf[Source] /\ Runs(r) /\ spc[r] = "ready" => write > index[r]

\* Nobody spins on mutex_ on the core that its holder needs to go on.
\* Not satisfied with a capacity of 1: the source that owns a result of set() has
\* dropped the only element, so that a sink beside it finds nothing, sees that
\* write_ is ahead and yields with mutex_ locked (buffer.hh:74).
Spins(c) ==
  /\ Runs(c)
  /\ mutex \notin {NoOne, c}
  /\ IF c = Source THEN wpc = "written" /\ npc = "none" ELSE spc[c] = "waitLock"
NoSpinDeadlock == \A c \in Coroutines : Spins(c) => CoreOf[mutex] # CoreOf[c]

\* Sleeping and waking on the core of the source: no coroutine spins on a mutex whose holder waits for that
\* core, none sleeps on data that is there, and one that is woken finds something new.
SinksSafe ==
  /\ NoSpinDeadlock
  /\ LocalSleepersUpToDate
  /\ LocalWokenFindsNew
=============================================================================
