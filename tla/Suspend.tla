------------------------------- MODULE Suspend -------------------------------
(***************************************************************************)
(* A coroutine that suspends until it is scheduled or canceled: the class  *)
(* ExecutableSuspended of cc/bzd/core/async/executable.hh with its users,  *)
(* the awaitable async::suspend(), CancellationToken and the list of       *)
(* sleepers of io::Buffer.                                                 *)
(*                                                                         *)
(* Waiters share one cancellation token, as the asyncs of one any() do,    *)
(* and sleep in the list of one buffer.  Three kinds of threads meet: the  *)
(* core that suspends a waiter, a notifier in notifyNewData() and a        *)
(* canceller in trigger().  Who resumes a waiter is settled by an atomic   *)
(* exchange of its executable_.  Each step is one atomic operation or one  *)
(* critical section without a nested lock; nested locks are taken in steps *)
(* of their own.                                                           *)
(***************************************************************************)
EXTENDS Integers, FiniteSets

CONSTANTS Waiters,     \* the coroutines that suspend
          MaxNotify    \* bound: how often new data is notified

NoOne == "noOne"
Notifier == "notifier"
Canceller == "canceller"

ASSUME WaitersAssumption ==
  IsFiniteSet(Waiters) /\ {NoOne, Notifier, Canceller} \cap Waiters = {}
ASSUME MaxNotifyAssumption == MaxNotify \in Nat

VARIABLES
  mtx,        \* who holds mutex_ of the buffer
  tok,        \* who holds mutex_ of the token
  cbs,        \* who holds mutexCallbacks_ of the token
  list,       \* suspended_ of the buffer
  callbacks,  \* callbacks_ of the token: the waiters whose onCancel_ is in it
  flag,       \* flag_ of the token
  exec,       \* whether executable_ of a waiter is set
  skip,       \* the skip flag of each waiter
  count,      \* workloadCount_ of the executor
  wpc,        \* where each waiter and the core that suspends it are
  npc,        \* where the notifier is
  nscan,      \* the elements that removeIf() has not reached yet
  ntarget,    \* the one it is at
  notified,   \* how often it was started
  cpc,        \* where the canceller is
  ctarget     \* the waiter whose callback it calls

locks == <<mtx, tok, cbs>>
notifierVars == <<npc, nscan, ntarget, notified>>
cancellerVars == <<cpc, ctarget>>
vars == <<locks, list, callbacks, flag, exec, skip, count, wpc, notifierVars, cancellerVars>>

Init ==
  /\ mtx = NoOne /\ tok = NoOne /\ cbs = NoOne
  /\ list = {} /\ callbacks = {} /\ flag = FALSE
  /\ exec = [w \in Waiters |-> FALSE]
  /\ skip = [w \in Waiters |-> FALSE]
  /\ count = 0
  /\ wpc = [w \in Waiters |-> "start"]
  /\ npc = "idle" /\ nscan = {} /\ ntarget = NoOne /\ notified = 0
  /\ cpc = "idle" /\ ctarget = NoOne

Goto(w, next) == wpc' = [wpc EXCEPT ![w] = next]
-----------------------------------------------------------------------------
(***************************************************************************)
(* The waiter: waitForData() takes the mutex; async::suspend() sets skip,  *)
(* the element owns the executable, joins the list and frees the mutex;    *)
(* then activate() registers the cancellation callback and pushes the      *)
(* executable to the queue of the executor, where it is skipped.           *)
(***************************************************************************)
WaitLock(w) ==
  /\ wpc[w] = "start"
  /\ mtx = NoOne
  /\ mtx' = w
  /\ Goto(w, "suspending")
  /\ UNCHANGED <<tok, cbs, list, callbacks, flag, exec, skip, count, notifierVars, cancellerVars>>

WaitOwn(w) ==
  /\ wpc[w] = "suspending"
  /\ skip' = [skip EXCEPT ![w] = TRUE]
  /\ exec' = [exec EXCEPT ![w] = TRUE]
  /\ list' = list \cup {w}
  /\ mtx' = NoOne
  /\ Goto(w, "activate")
  /\ UNCHANGED <<tok, cbs, callbacks, flag, count, notifierVars, cancellerVars>>

\* Mutant: the flag is not looked at, the callback is added in any case.
AddLockUnchecked(w) ==
  /\ wpc[w] = "activate"
  /\ tok = NoOne
  /\ tok' = w
  /\ Goto(w, "addCallback")
  /\ UNCHANGED <<mtx, cbs, list, callbacks, flag, exec, skip, count, notifierVars, cancellerVars>>

\* addOneTimeCallback(): under mutex_ of the token, look at the flag.
AddLock(w) ==
  /\ wpc[w] = "activate"
  /\ tok = NoOne
  /\ tok' = w
  /\ Goto(w, IF flag THEN "cancel" ELSE "addCallback")
  /\ UNCHANGED <<mtx, cbs, list, callbacks, flag, exec, skip, count, notifierVars, cancellerVars>>

AddCallback(w) ==
  /\ wpc[w] = "addCallback"
  /\ cbs = NoOne
  /\ callbacks' = callbacks \cup {w}
  /\ tok' = NoOne
  /\ Goto(w, "recheck")
  /\ UNCHANGED <<mtx, cbs, list, flag, exec, skip, count, notifierVars, cancellerVars>>

\* The token was triggered before: cancel() is called at once.
CancelNow(w) ==
  /\ wpc[w] = "cancel"
  /\ exec' = [exec EXCEPT ![w] = FALSE]
  /\ IF exec[w] THEN Goto(w, "userCancel") /\ UNCHANGED tok
                ELSE Goto(w, "recheck") /\ tok' = NoOne
  /\ UNCHANGED <<mtx, cbs, list, callbacks, flag, skip, count, notifierVars, cancellerVars>>

CancelNowErase(w) ==
  /\ wpc[w] = "userCancel"
  /\ mtx = NoOne
  /\ list' = list \ {w}
  /\ Goto(w, "unskip")
  /\ UNCHANGED <<locks, callbacks, flag, exec, skip, count, notifierVars, cancellerVars>>

\* The executable is not in the queue yet, nobody sees the order of the two
\* steps of unskip().
CancelNowUnskip(w) ==
  /\ wpc[w] = "unskip"
  /\ count' = count + 1
  /\ skip' = [skip EXCEPT ![w] = FALSE]
  /\ tok' = NoOne
  /\ Goto(w, "recheck")
  /\ UNCHANGED <<mtx, cbs, list, callbacks, flag, exec, notifierVars, cancellerVars>>

\* Mutant: no second look, the callback stays.
RecheckSkipped(w) ==
  /\ wpc[w] = "recheck"
  /\ Goto(w, "push")
  /\ UNCHANGED <<locks, list, callbacks, flag, exec, skip, count, notifierVars, cancellerVars>>

\* Somebody may have scheduled the waiter before its callback was added.
Recheck(w) ==
  /\ wpc[w] = "recheck"
  /\ Goto(w, IF exec[w] THEN "push" ELSE "removeCallback")
  /\ UNCHANGED <<locks, list, callbacks, flag, exec, skip, count, notifierVars, cancellerVars>>

RemoveCallback(w) ==
  /\ wpc[w] = "removeCallback"
  /\ cbs = NoOne
  /\ callbacks' = callbacks \ {w}
  /\ Goto(w, "push")
  /\ UNCHANGED <<locks, list, flag, exec, skip, count, notifierVars, cancellerVars>>

\* reschedule(increment = false)
Push(w) ==
  /\ wpc[w] = "push"
  /\ Goto(w, "queued")
  /\ UNCHANGED <<locks, list, callbacks, flag, exec, skip, count, notifierVars, cancellerVars>>

\* The executor pops what is not skipped; from here on the frame of the waiter
\* and the element in it may be gone.
Pop(w) ==
  /\ wpc[w] = "queued"
  /\ ~skip[w]
  /\ count' = count - 1
  /\ Goto(w, "resumed")
  /\ UNCHANGED <<locks, list, callbacks, flag, exec, skip, notifierVars, cancellerVars>>

\* A canceled executable is terminated, another one goes on and may wait again.
Continue(w) ==
  /\ wpc[w] = "resumed"
  /\ Goto(w, IF flag THEN "done" ELSE "start")
  /\ UNCHANGED <<locks, list, callbacks, flag, exec, skip, count, notifierVars, cancellerVars>>

WaiterStep(w) ==
  \/ WaitLock(w) \/ WaitOwn(w) \/ AddLock(w) \/ AddCallback(w)
  \/ CancelNow(w) \/ CancelNowErase(w) \/ CancelNowUnskip(w)
  \/ Recheck(w) \/ RemoveCallback(w) \/ Push(w) \/ Pop(w) \/ Continue(w)
-----------------------------------------------------------------------------
(***************************************************************************)
(* The notifier: notifyNewData() calls schedule() of each element, under   *)
(* mutex_ of the buffer, and then takes the element out of the list.       *)
(***************************************************************************)
NotifyLock ==
  /\ npc = "idle"
  /\ notified < MaxNotify
  /\ mtx = NoOne
  /\ mtx' = Notifier
  /\ nscan' = list
  /\ notified' = notified + 1
  /\ npc' = "scan"
  /\ UNCHANGED <<tok, cbs, list, callbacks, flag, exec, skip, count, wpc, ntarget, cancellerVars>>

\* schedule() begins: the exchange decides who resumes the waiter.
NotifyExchange(w) ==
  /\ npc = "scan"
  /\ w \in nscan
  /\ ntarget' = w
  /\ exec' = [exec EXCEPT ![w] = FALSE]
  /\ npc' = IF exec[w] THEN "removeCallback" ELSE "unlink"
  /\ UNCHANGED <<locks, list, callbacks, flag, skip, count, wpc, nscan, notified, cancellerVars>>

NotifyRemoveCallback ==
  /\ npc = "removeCallback"
  /\ cbs = NoOne
  /\ callbacks' = callbacks \ {ntarget}
  /\ npc' = "count"
  /\ UNCHANGED <<locks, list, flag, exec, skip, count, wpc, nscan, ntarget, notified, cancellerVars>>

\* Mutant: the skip flag is cleared before the counter is incremented.
NotifyCountLate ==
  /\ npc = "count"
  /\ skip' = [skip EXCEPT ![ntarget] = FALSE]
  /\ npc' = "clear"
  /\ UNCHANGED <<locks, list, callbacks, flag, exec, count, wpc, nscan, ntarget, notified, cancellerVars>>

\* unskip(): increment the counters ...
NotifyCount ==
  /\ npc = "count"
  /\ count' = count + 1
  /\ npc' = "clear"
  /\ UNCHANGED <<locks, list, callbacks, flag, exec, skip, wpc, nscan, ntarget, notified, cancellerVars>>

\* ... and then clear the flag.
NotifyClear ==
  /\ npc = "clear"
  /\ skip' = [skip EXCEPT ![ntarget] = FALSE]
  /\ npc' = "unlink"
  /\ UNCHANGED <<locks, list, callbacks, flag, exec, count, wpc, nscan, ntarget, notified, cancellerVars>>

\* Mutant: the element leaves the list but the scan does not move past it.
NotifyUnlinkStuck ==
  /\ npc = "unlink"
  /\ list' = list \ {ntarget}
  /\ ntarget' = NoOne
  /\ npc' = "scan"
  /\ UNCHANGED <<locks, callbacks, flag, exec, skip, count, wpc, nscan, notified, cancellerVars>>

\* removeIf() follows the next pointer of the element and erases it.
NotifyUnlink ==
  /\ npc = "unlink"
  /\ list' = list \ {ntarget}
  /\ nscan' = nscan \ {ntarget}
  /\ ntarget' = NoOne
  /\ npc' = "scan"
  /\ UNCHANGED <<locks, callbacks, flag, exec, skip, count, wpc, notified, cancellerVars>>

NotifyEnd ==
  /\ npc = "scan"
  /\ nscan = {}
  /\ mtx' = NoOne
  /\ npc' = "idle"
  /\ UNCHANGED <<tok, cbs, list, callbacks, flag, exec, skip, count, wpc, nscan, ntarget, notified, cancellerVars>>

NotifierStep ==
  \/ \E w \in Waiters : NotifyExchange(w)
  \/ NotifyRemoveCallback \/ NotifyCount \/ NotifyClear \/ NotifyUnlink \/ NotifyEnd
-----------------------------------------------------------------------------
(***************************************************************************)
(* The canceller: trigger() calls the callbacks under both mutexes of the  *)
(* token; a callback is cancel() of a waiter, which calls the callback of  *)
(* waitForData(), which takes the mutex of the buffer.                     *)
(***************************************************************************)
TriggerLock ==
  /\ cpc = "idle"
  /\ tok = NoOne
  /\ tok' = Canceller
  /\ flag' = TRUE
  /\ cpc' = "lockCallbacks"
  /\ UNCHANGED <<mtx, cbs, list, callbacks, exec, skip, count, wpc, notifierVars, ctarget>>

TriggerLockCallbacks ==
  /\ cpc = "lockCallbacks"
  /\ cbs = NoOne
  /\ cbs' = Canceller
  /\ cpc' = "loop"
  /\ UNCHANGED <<mtx, tok, list, callbacks, flag, exec, skip, count, wpc, notifierVars, ctarget>>

TriggerPop(w) ==
  /\ cpc = "loop"
  /\ w \in callbacks
  /\ callbacks' = callbacks \ {w}
  /\ ctarget' = w
  /\ cpc' = "exchange"
  /\ UNCHANGED <<locks, list, flag, exec, skip, count, wpc, notifierVars>>

\* Mutant: cancel() does not look at what the exchange returned.
TriggerExchangeBlind ==
  /\ cpc = "exchange"
  /\ exec' = [exec EXCEPT ![ctarget] = FALSE]
  /\ cpc' = "erase"
  /\ UNCHANGED <<locks, list, callbacks, flag, skip, count, wpc, notifierVars, ctarget>>

TriggerExchange ==
  /\ cpc = "exchange"
  /\ exec' = [exec EXCEPT ![ctarget] = FALSE]
  /\ cpc' = IF exec[ctarget] THEN "erase" ELSE "loop"
  /\ UNCHANGED <<locks, list, callbacks, flag, skip, count, wpc, notifierVars, ctarget>>

TriggerErase ==
  /\ cpc = "erase"
  /\ mtx = NoOne
  /\ list' = list \ {ctarget}
  /\ cpc' = "count"
  /\ UNCHANGED <<locks, callbacks, flag, exec, skip, count, wpc, notifierVars, ctarget>>

TriggerCount ==
  /\ cpc = "count"
  /\ count' = count + 1
  /\ cpc' = "clear"
  /\ UNCHANGED <<locks, list, callbacks, flag, exec, skip, wpc, notifierVars, ctarget>>

TriggerClear ==
  /\ cpc = "clear"
  /\ skip' = [skip EXCEPT ![ctarget] = FALSE]
  /\ cpc' = "loop"
  /\ UNCHANGED <<locks, list, callbacks, flag, exec, count, wpc, notifierVars, ctarget>>

\* Mutant: mutexCallbacks_ stays locked.
TriggerEndLocked ==
  /\ cpc = "loop"
  /\ callbacks = {}
  /\ tok' = NoOne
  /\ cpc' = "done"
  /\ UNCHANGED <<mtx, cbs, list, callbacks, flag, exec, skip, count, wpc, notifierVars, ctarget>>

TriggerEnd ==
  /\ cpc = "loop"
  /\ callbacks = {}
  /\ cbs' = NoOne
  /\ tok' = NoOne
  /\ cpc' = "done"
  /\ UNCHANGED <<mtx, list, callbacks, flag, exec, skip, count, wpc, notifierVars, ctarget>>

CancellerStep ==
  \/ TriggerLockCallbacks \/ (\E w \in Waiters : TriggerPop(w)) \/ TriggerExchange
  \/ TriggerErase \/ TriggerCount \/ TriggerClear \/ TriggerEnd
-----------------------------------------------------------------------------
\* All waiters were canceled: nothing is left to do.
Finished ==
  /\ \A w \in Waiters : wpc[w] = "done"
  /\ cpc = "done" /\ npc = "idle" /\ notified = MaxNotify
  /\ UNCHANGED vars

Next ==
  \/ \E w \in Waiters : WaiterStep(w)
  \/ NotifyLock \/ NotifierStep
  \/ TriggerLock \/ CancellerStep
  \/ Finished

Spec == Init /\ [][Next]_vars

\* Threads run.  Nobody needs to notify or to cancel.
FairSpec ==
  /\ Spec
  /\ \A w \in Waiters : WF_vars(WaiterStep(w))
  /\ WF_vars(NotifierStep)
  /\ WF_vars(CancellerStep)
-----------------------------------------------------------------------------
\* The locks, lists and flags; removeIf() only has elements of the list ahead of it.
TypeOK ==
  /\ {mtx, tok, cbs} \subseteq Waiters \cup {NoOne, Notifier, Canceller}
  /\ list \subseteq Waiters /\ callbacks \subseteq Waiters /\ nscan \subseteq list
  /\ flag \in BOOLEAN
  /\ exec \in [Waiters -> BOOLEAN] /\ skip \in [Waiters -> BOOLEAN]
  /\ count \in Int
  /\ wpc \in [Waiters -> {"start", "suspending", "activate", "addCallback", "cancel", "userCancel",
                          "unskip", "recheck", "removeCallback", "push", "queued", "resumed", "done"}]
  /\ npc \in {"idle", "scan", "removeCallback", "count", "clear", "unlink"}
  /\ ntarget \in Waiters \cup {NoOne}
  /\ notified \in 0 .. MaxNotify
  /\ cpc \in {"idle", "lockCallbacks", "loop", "exchange", "erase", "count", "clear", "done"}
  /\ ctarget \in Waiters \cup {NoOne}

\* The waiter's frame may be gone.
Gone(w) == wpc[w] \in {"resumed", "start", "done"}

\* The threads that won the exchange of a waiter and have not let it go.
Winners(w) ==
  (IF npc \in {"removeCallback", "count", "clear"} /\ ntarget = w THEN {Notifier} ELSE {})
  \cup (IF cpc \in {"erase", "count", "clear"} /\ ctarget = w THEN {Canceller} ELSE {})
  \cup (IF wpc[w] \in {"userCancel", "unskip"} THEN {w} ELSE {})

\* A waiter is resumed by one thread only: at most one wins its executable,
\* and while one works on it, it is not resumed.
OneWinner ==
  \A w \in Waiters :
    /\ Cardinality(Winners(w)) <= 1
    /\ Winners(w) # {} => ~Gone(w) /\ ~exec[w] /\ skip[w]

\* When a waiter is resumed, nothing that lives in its frame is left behind: no
\* executable, no callback in the token and none that trigger() is about to call.
NothingLeftBehind ==
  \A w \in Waiters :
    Gone(w) => w \notin callbacks /\ ~exec[w] /\ ~(cpc = "exchange" /\ ctarget = w)

\* workloadCount_ counts the waiters that can be popped and is never negative,
\* which pop() asserts.
CountCoversReady ==
  count = Cardinality({w \in Waiters :
            \/ ~skip[w] /\ wpc[w] \in {"activate", "addCallback", "cancel", "recheck",
                                       "removeCallback", "push", "queued"}
            \/ npc = "clear" /\ ntarget = w
            \/ cpc = "clear" /\ ctarget = w})

\* schedule() returns: it is meant for wait-free contexts.
ScheduleReturns == npc = "removeCallback" ~> npc = "unlink"

\* Once the token is triggered every waiter is terminated.
CancelReachesAll == \A w \in Waiters : flag ~> wpc[w] = "done"

\* The notifier does not touch the element of a waiter that was resumed.  Not satisfied:
\* removeIf() goes on with it after schedule() (non_owning_list.hh:161).
ElementAlive == npc = "unlink" => ~Gone(ntarget)

\* schedule() and trigger() get through the three mutexes they take: a notification returns and a
\* cancellation reaches every waiter.
SuspendEnds ==
  /\ ScheduleReturns
  /\ CancelReachesAll
=============================================================================
