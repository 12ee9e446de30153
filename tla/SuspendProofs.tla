---------------------------- MODULE SuspendProofs ----------------------------
(***************************************************************************)
(* Proofs about Suspend, for every finite set of waiters and every number  *)
(* of notifications.                                                       *)
(***************************************************************************)
EXTENDS Suspend, TLAPS, FiniteSetTheorems

\* Who holds a mutex is read off the program counters.
LocksHeld ==
  /\ mtx # Canceller /\ tok # Notifier /\ cbs \in {NoOne, Canceller}
  /\ mtx = Notifier <=> npc # "idle"
  /\ tok = Canceller <=> cpc \notin {"idle", "done"}
  /\ cbs = Canceller <=> cpc \notin {"idle", "lockCallbacks", "done"}
  /\ \A w \in Waiters :
       /\ mtx = w <=> wpc[w] = "suspending"
       /\ tok = w <=> wpc[w] \in {"addCallback", "cancel", "userCancel", "unskip"}

\* What the notifier and the canceller are at.
TargetsKnown ==
  /\ npc = "idle" => nscan = {}
  /\ npc \notin {"idle", "scan"} => ntarget \in nscan
  /\ cpc \in {"exchange", "erase", "count", "clear"} => ctarget \in Waiters \ callbacks

\* The phases in which a waiter that owns its executable can be.
Suspended == {"activate", "addCallback", "cancel", "recheck", "removeCallback", "push", "queued"}

\* The phases after the callback was added.
Registered == {"recheck", "removeCallback", "push", "queued"}

NotifierWon(w) == npc \in {"removeCallback", "count", "clear"} /\ ntarget = w
CancellerWon(w) == cpc \in {"erase", "count", "clear"} /\ ctarget = w
WaiterWon(w) == wpc[w] \in {"userCancel", "unskip"}

\* The callback of a waiter is in the token, or trigger() is about to call it.
CallbackPending(w) == w \in callbacks \/ (cpc = "exchange" /\ ctarget = w)

\* The exchange is won once, by a thread that keeps the waiter skipped; a
\* callback that is still pending when the waiter is pushed belongs to a waiter
\* that nobody won, or that the notifier won and has yet to unregister.
WaiterInv(w) ==
  /\ exec[w] => skip[w] /\ wpc[w] \in Suspended \ {"removeCallback"}
  /\ NotifierWon(w) => ~exec[w] /\ skip[w] /\ ~CancellerWon(w) /\ wpc[w] \in Suspended
  /\ CancellerWon(w) => ~exec[w] /\ skip[w] /\ wpc[w] \in Registered
  /\ WaiterWon(w) => ~exec[w] /\ skip[w]
  /\ CallbackPending(w) => wpc[w] \in Registered
  /\ CallbackPending(w) /\ wpc[w] \in {"push", "queued"} =>
       exec[w] \/ (npc = "removeCallback" /\ ntarget = w)

WinnerInv == TypeOK /\ LocksHeld /\ TargetsKnown /\ \A w \in Waiters : WaiterInv(w)

\* A waiter that workloadCount_ counts: it is not skipped, or about to be unskipped.
Counted(w) ==
  \/ ~skip[w] /\ wpc[w] \in Suspended
  \/ npc = "clear" /\ ntarget = w
  \/ cpc = "clear" /\ ctarget = w

Ready == {w \in Waiters : Counted(w)}

CountInv == count = Cardinality(Ready)
-----------------------------------------------------------------------------
\* Nobody is suspended, and nobody holds a lock, at the start.
LEMMA WinnerInit == Init => WinnerInv
<1> SUFFICES ASSUME Init PROVE WinnerInv
  OBVIOUS
<1> USE WaitersAssumption, MaxNotifyAssumption DEF Init, NoOne, Notifier, Canceller
<1>1. TypeOK
  <2>1. notified \in 0 .. MaxNotify /\ count \in Int
    OBVIOUS
  <2> QED BY <2>1 DEF TypeOK
<1>2. LocksHeld /\ TargetsKnown
  BY DEF LocksHeld, TargetsKnown
<1>3. ASSUME NEW w \in Waiters PROVE WaiterInv(w)
  BY DEF WaiterInv, NotifierWon, CancellerWon, WaiterWon, CallbackPending
<1> QED BY <1>1, <1>2, <1>3 DEF WinnerInv

\* Every step of a waiter, of the notifier and of the canceller keeps the invariant.
LEMMA WinnerNext == WinnerInv /\ [Next]_vars => WinnerInv'
<1> SUFFICES ASSUME WinnerInv, [Next]_vars PROVE WinnerInv'
  OBVIOUS
<1> USE WaitersAssumption, MaxNotifyAssumption
        DEF WinnerInv, Suspended, Registered, NotifierWon, CancellerWon, WaiterWon,
            CallbackPending, NoOne, Notifier, Canceller, locks, notifierVars, cancellerVars
<1>1. ASSUME NEW w \in Waiters, WaitLock(w) PROVE WinnerInv'
  <2>1. TypeOK'
    BY <1>1 DEF WaitLock, Goto, TypeOK, LocksHeld, TargetsKnown
  <2>2. LocksHeld'
    BY <1>1 DEF WaitLock, Goto, TypeOK, LocksHeld
  <2>3. TargetsKnown'
    BY <1>1 DEF WaitLock, Goto, TypeOK, LocksHeld, TargetsKnown
  <2>4. ASSUME NEW v \in Waiters PROVE WaiterInv(v)'
    BY <1>1 DEF WaitLock, Goto, TypeOK, LocksHeld, TargetsKnown, WaiterInv
  <2> QED BY <2>1, <2>2, <2>3, <2>4
<1>2. ASSUME NEW w \in Waiters, WaitOwn(w) PROVE WinnerInv'
  <2>1. TypeOK'
    BY <1>2 DEF WaitOwn, Goto, TypeOK, LocksHeld, TargetsKnown
  <2>2. LocksHeld'
    BY <1>2 DEF WaitOwn, Goto, TypeOK, LocksHeld
  <2>3. TargetsKnown'
    BY <1>2 DEF WaitOwn, Goto, TypeOK, LocksHeld, TargetsKnown
  <2>4. ASSUME NEW v \in Waiters PROVE WaiterInv(v)'
    BY <1>2 DEF WaitOwn, Goto, TypeOK, LocksHeld, TargetsKnown, WaiterInv
  <2> QED BY <2>1, <2>2, <2>3, <2>4
<1>3. ASSUME NEW w \in Waiters, AddLock(w) PROVE WinnerInv'
  <2>1. TypeOK'
    BY <1>3 DEF AddLock, Goto, TypeOK, LocksHeld, TargetsKnown
  <2>2. LocksHeld'
    BY <1>3 DEF AddLock, Goto, TypeOK, LocksHeld
  <2>3. TargetsKnown'
    BY <1>3 DEF AddLock, Goto, TypeOK, LocksHeld, TargetsKnown
  <2>4. ASSUME NEW v \in Waiters PROVE WaiterInv(v)'
    BY <1>3 DEF AddLock, Goto, TypeOK, LocksHeld, TargetsKnown, WaiterInv
  <2> QED BY <2>1, <2>2, <2>3, <2>4
<1>4. ASSUME NEW w \in Waiters, AddCallback(w) PROVE WinnerInv'
  <2>1. TypeOK'
    BY <1>4 DEF AddCallback, Goto, TypeOK, LocksHeld, TargetsKnown
  <2>2. LocksHeld'
    BY <1>4 DEF AddCallback, Goto, TypeOK, LocksHeld
  <2>3. TargetsKnown'
    BY <1>4 DEF AddCallback, Goto, TypeOK, LocksHeld, TargetsKnown
  <2>4. ASSUME NEW v \in Waiters PROVE WaiterInv(v)'
    BY <1>4 DEF AddCallback, Goto, TypeOK, LocksHeld, TargetsKnown, WaiterInv
  <2> QED BY <2>1, <2>2, <2>3, <2>4
<1>5. ASSUME NEW w \in Waiters, CancelNow(w) PROVE WinnerInv'
  <2>1. TypeOK'
    BY <1>5 DEF CancelNow, Goto, TypeOK, LocksHeld, TargetsKnown
  <2>2. LocksHeld'
    BY <1>5 DEF CancelNow, Goto, TypeOK, LocksHeld
  <2>3. TargetsKnown'
    BY <1>5 DEF CancelNow, Goto, TypeOK, LocksHeld, TargetsKnown
  <2>4. ASSUME NEW v \in Waiters PROVE WaiterInv(v)'
    BY <1>5 DEF CancelNow, Goto, TypeOK, LocksHeld, TargetsKnown, WaiterInv
  <2> QED BY <2>1, <2>2, <2>3, <2>4
<1>6. ASSUME NEW w \in Waiters, CancelNowErase(w) PROVE WinnerInv'
  <2>1. TypeOK'
    BY <1>6 DEF CancelNowErase, Goto, TypeOK, LocksHeld, TargetsKnown
  <2>2. LocksHeld'
    BY <1>6 DEF CancelNowErase, Goto, TypeOK, LocksHeld
  <2>3. TargetsKnown'
    BY <1>6 DEF CancelNowErase, Goto, TypeOK, LocksHeld, TargetsKnown
  <2>4. ASSUME NEW v \in Waiters PROVE WaiterInv(v)'
    BY <1>6 DEF CancelNowErase, Goto, TypeOK, LocksHeld, TargetsKnown, WaiterInv
  <2> QED BY <2>1, <2>2, <2>3, <2>4
<1>7. ASSUME NEW w \in Waiters, CancelNowUnskip(w) PROVE WinnerInv'
  <2>1. TypeOK'
    BY <1>7 DEF CancelNowUnskip, Goto, TypeOK, LocksHeld, TargetsKnown
  <2>2. LocksHeld'
    BY <1>7 DEF CancelNowUnskip, Goto, TypeOK, LocksHeld
  <2>3. TargetsKnown'
    BY <1>7 DEF CancelNowUnskip, Goto, TypeOK, LocksHeld, TargetsKnown
  <2>4. ASSUME NEW v \in Waiters PROVE WaiterInv(v)'
    BY <1>7 DEF CancelNowUnskip, Goto, TypeOK, LocksHeld, TargetsKnown, WaiterInv
  <2> QED BY <2>1, <2>2, <2>3, <2>4
<1>8. ASSUME NEW w \in Waiters, Recheck(w) PROVE WinnerInv'
  <2>1. TypeOK'
    BY <1>8 DEF Recheck, Goto, TypeOK, LocksHeld, TargetsKnown
  <2>2. LocksHeld'
    BY <1>8 DEF Recheck, Goto, TypeOK, LocksHeld
  <2>3. TargetsKnown'
    BY <1>8 DEF Recheck, Goto, TypeOK, LocksHeld, TargetsKnown
  <2>4. ASSUME NEW v \in Waiters PROVE WaiterInv(v)'
    BY <1>8 DEF Recheck, Goto, TypeOK, LocksHeld, TargetsKnown, WaiterInv
  <2> QED BY <2>1, <2>2, <2>3, <2>4
<1>9. ASSUME NEW w \in Waiters, RemoveCallback(w) PROVE WinnerInv'
  <2>1. TypeOK'
    BY <1>9 DEF RemoveCallback, Goto, TypeOK, LocksHeld, TargetsKnown
  <2>2. LocksHeld'
    BY <1>9 DEF RemoveCallback, Goto, TypeOK, LocksHeld
  <2>3. TargetsKnown'
    BY <1>9 DEF RemoveCallback, Goto, TypeOK, LocksHeld, TargetsKnown
  <2>4. ASSUME NEW v \in Waiters PROVE WaiterInv(v)'
    BY <1>9 DEF RemoveCallback, Goto, TypeOK, LocksHeld, TargetsKnown, WaiterInv
  <2> QED BY <2>1, <2>2, <2>3, <2>4
<1>10. ASSUME NEW w \in Waiters, Push(w) PROVE WinnerInv'
  <2>1. TypeOK'
    BY <1>10 DEF Push, Goto, TypeOK, LocksHeld, TargetsKnown
  <2>2. LocksHeld'
    BY <1>10 DEF Push, Goto, TypeOK, LocksHeld
  <2>3. TargetsKnown'
    BY <1>10 DEF Push, Goto, TypeOK, LocksHeld, TargetsKnown
  <2>4. ASSUME NEW v \in Waiters PROVE WaiterInv(v)'
    BY <1>10 DEF Push, Goto, TypeOK, LocksHeld, TargetsKnown, WaiterInv
  <2> QED BY <2>1, <2>2, <2>3, <2>4
<1>11. ASSUME NEW w \in Waiters, Pop(w) PROVE WinnerInv'
  <2>1. TypeOK'
    BY <1>11 DEF Pop, Goto, TypeOK, LocksHeld, TargetsKnown
  <2>2. LocksHeld'
    BY <1>11 DEF Pop, Goto, TypeOK, LocksHeld
  <2>3. TargetsKnown'
    BY <1>11 DEF Pop, Goto, TypeOK, LocksHeld, TargetsKnown
  <2>4. ASSUME NEW v \in Waiters PROVE WaiterInv(v)'
    BY <1>11 DEF Pop, Goto, TypeOK, LocksHeld, TargetsKnown, WaiterInv
  <2> QED BY <2>1, <2>2, <2>3, <2>4
<1>12. ASSUME NEW w \in Waiters, Continue(w) PROVE WinnerInv'
  <2>1. TypeOK'
    BY <1>12 DEF Continue, Goto, TypeOK, LocksHeld, TargetsKnown
  <2>2. LocksHeld'
    BY <1>12 DEF Continue, Goto, TypeOK, LocksHeld
  <2>3. TargetsKnown'
    BY <1>12 DEF Continue, Goto, TypeOK, LocksHeld, TargetsKnown
  <2>4. ASSUME NEW v \in Waiters PROVE WaiterInv(v)'
    BY <1>12 DEF Continue, Goto, TypeOK, LocksHeld, TargetsKnown, WaiterInv
  <2> QED BY <2>1, <2>2, <2>3, <2>4
<1>13. CASE NotifyLock
  <2>1. TypeOK'
    BY <1>13 DEF NotifyLock, TypeOK, LocksHeld, TargetsKnown
  <2>2. LocksHeld'
    BY <1>13 DEF NotifyLock, TypeOK, LocksHeld
  <2>3. TargetsKnown'
    BY <1>13 DEF NotifyLock, TypeOK, LocksHeld, TargetsKnown
  <2>4. ASSUME NEW v \in Waiters PROVE WaiterInv(v)'
    BY <1>13 DEF NotifyLock, TypeOK, LocksHeld, TargetsKnown, WaiterInv
  <2> QED BY <2>1, <2>2, <2>3, <2>4
<1>14. ASSUME NEW w \in Waiters, NotifyExchange(w) PROVE WinnerInv'
  <2>1. TypeOK'
    BY <1>14 DEF NotifyExchange, TypeOK, LocksHeld, TargetsKnown
  <2>2. LocksHeld'
    BY <1>14 DEF NotifyExchange, TypeOK, LocksHeld
  <2>3. TargetsKnown'
    BY <1>14 DEF NotifyExchange, TypeOK, LocksHeld, TargetsKnown
  <2>4. ASSUME NEW v \in Waiters PROVE WaiterInv(v)'
    BY <1>14 DEF NotifyExchange, TypeOK, LocksHeld, TargetsKnown, WaiterInv
  <2> QED BY <2>1, <2>2, <2>3, <2>4
<1>15. CASE NotifyRemoveCallback
  <2>1. TypeOK'
    BY <1>15 DEF NotifyRemoveCallback, TypeOK, LocksHeld, TargetsKnown
  <2>2. LocksHeld'
    BY <1>15 DEF NotifyRemoveCallback, TypeOK, LocksHeld
  <2>3. TargetsKnown'
    BY <1>15 DEF NotifyRemoveCallback, TypeOK, LocksHeld, TargetsKnown
  <2>4. ASSUME NEW v \in Waiters PROVE WaiterInv(v)'
    BY <1>15 DEF NotifyRemoveCallback, TypeOK, LocksHeld, TargetsKnown, WaiterInv
  <2> QED BY <2>1, <2>2, <2>3, <2>4
<1>16. CASE NotifyCount
  <2>1. TypeOK'
    BY <1>16 DEF NotifyCount, TypeOK, LocksHeld, TargetsKnown
  <2>2. LocksHeld'
    BY <1>16 DEF NotifyCount, TypeOK, LocksHeld
  <2>3. TargetsKnown'
    BY <1>16 DEF NotifyCount, TypeOK, LocksHeld, TargetsKnown
  <2>4. ASSUME NEW v \in Waiters PROVE WaiterInv(v)'
    BY <1>16 DEF NotifyCount, TypeOK, LocksHeld, TargetsKnown, WaiterInv
  <2> QED BY <2>1, <2>2, <2>3, <2>4
<1>17. CASE NotifyClear
  <2>1. TypeOK'
    BY <1>17 DEF NotifyClear, TypeOK, LocksHeld, TargetsKnown
  <2>2. LocksHeld'
    BY <1>17 DEF NotifyClear, TypeOK, LocksHeld
  <2>3. TargetsKnown'
    BY <1>17 DEF NotifyClear, TypeOK, LocksHeld, TargetsKnown
  <2>4. ASSUME NEW v \in Waiters PROVE WaiterInv(v)'
    BY <1>17 DEF NotifyClear, TypeOK, LocksHeld, TargetsKnown, WaiterInv
  <2> QED BY <2>1, <2>2, <2>3, <2>4
<1>18. CASE NotifyUnlink
  <2>1. TypeOK'
    BY <1>18 DEF NotifyUnlink, TypeOK, LocksHeld, TargetsKnown
  <2>2. LocksHeld'
    BY <1>18 DEF NotifyUnlink, TypeOK, LocksHeld
  <2>3. TargetsKnown'
    BY <1>18 DEF NotifyUnlink, TypeOK, LocksHeld, TargetsKnown
  <2>4. ASSUME NEW v \in Waiters PROVE WaiterInv(v)'
    BY <1>18 DEF NotifyUnlink, TypeOK, LocksHeld, TargetsKnown, WaiterInv
  <2> QED BY <2>1, <2>2, <2>3, <2>4
<1>19. CASE NotifyEnd
  <2>1. TypeOK'
    BY <1>19 DEF NotifyEnd, TypeOK, LocksHeld, TargetsKnown
  <2>2. LocksHeld'
    BY <1>19 DEF NotifyEnd, TypeOK, LocksHeld
  <2>3. TargetsKnown'
    BY <1>19 DEF NotifyEnd, TypeOK, LocksHeld, TargetsKnown
  <2>4. ASSUME NEW v \in Waiters PROVE WaiterInv(v)'
    BY <1>19 DEF NotifyEnd, TypeOK, LocksHeld, TargetsKnown, WaiterInv
  <2> QED BY <2>1, <2>2, <2>3, <2>4
<1>20. CASE TriggerLock
  <2>1. TypeOK'
    BY <1>20 DEF TriggerLock, TypeOK, LocksHeld, TargetsKnown
  <2>2. LocksHeld'
    BY <1>20 DEF TriggerLock, TypeOK, LocksHeld
  <2>3. TargetsKnown'
    BY <1>20 DEF TriggerLock, TypeOK, LocksHeld, TargetsKnown
  <2>4. ASSUME NEW v \in Waiters PROVE WaiterInv(v)'
    BY <1>20 DEF TriggerLock, TypeOK, LocksHeld, TargetsKnown, WaiterInv
  <2> QED BY <2>1, <2>2, <2>3, <2>4
<1>21. CASE TriggerLockCallbacks
  <2>1. TypeOK'
    BY <1>21 DEF TriggerLockCallbacks, TypeOK, LocksHeld, TargetsKnown
  <2>2. LocksHeld'
    BY <1>21 DEF TriggerLockCallbacks, TypeOK, LocksHeld
  <2>3. TargetsKnown'
    BY <1>21 DEF TriggerLockCallbacks, TypeOK, LocksHeld, TargetsKnown
  <2>4. ASSUME NEW v \in Waiters PROVE WaiterInv(v)'
    BY <1>21 DEF TriggerLockCallbacks, TypeOK, LocksHeld, TargetsKnown, WaiterInv
  <2> QED BY <2>1, <2>2, <2>3, <2>4
<1>22. ASSUME NEW w \in Waiters, TriggerPop(w) PROVE WinnerInv'
  <2>1. TypeOK'
    BY <1>22 DEF TriggerPop, TypeOK, LocksHeld, TargetsKnown
  <2>2. LocksHeld'
    BY <1>22 DEF TriggerPop, TypeOK, LocksHeld
  <2>3. TargetsKnown'
    BY <1>22 DEF TriggerPop, TypeOK, LocksHeld, TargetsKnown
  <2>4. ASSUME NEW v \in Waiters PROVE WaiterInv(v)'
    BY <1>22 DEF TriggerPop, TypeOK, LocksHeld, TargetsKnown, WaiterInv
  <2> QED BY <2>1, <2>2, <2>3, <2>4
<1>23. CASE TriggerExchange
  <2>1. TypeOK'
    BY <1>23 DEF TriggerExchange, TypeOK, LocksHeld, TargetsKnown
  <2>2. LocksHeld'
    BY <1>23 DEF TriggerExchange, TypeOK, LocksHeld
  <2>3. TargetsKnown'
    BY <1>23 DEF TriggerExchange, TypeOK, LocksHeld, TargetsKnown
  <2>4. ASSUME NEW v \in Waiters PROVE WaiterInv(v)'
    BY <1>23 DEF TriggerExchange, TypeOK, LocksHeld, TargetsKnown, WaiterInv
  <2> QED BY <2>1, <2>2, <2>3, <2>4
<1>24. CASE TriggerErase
  <2>1. TypeOK'
    BY <1>24 DEF TriggerErase, TypeOK, LocksHeld, TargetsKnown
  <2>2. LocksHeld'
    BY <1>24 DEF TriggerErase, TypeOK, LocksHeld
  <2>3. TargetsKnown'
    BY <1>24 DEF TriggerErase, TypeOK, LocksHeld, TargetsKnown
  <2>4. ASSUME NEW v \in Waiters PROVE WaiterInv(v)'
    BY <1>24 DEF TriggerErase, TypeOK, LocksHeld, TargetsKnown, WaiterInv
  <2> QED BY <2>1, <2>2, <2>3, <2>4
<1>25. CASE TriggerCount
  <2>1. TypeOK'
    BY <1>25 DEF TriggerCount, TypeOK, LocksHeld, TargetsKnown
  <2>2. LocksHeld'
    BY <1>25 DEF TriggerCount, TypeOK, LocksHeld
  <2>3. TargetsKnown'
    BY <1>25 DEF TriggerCount, TypeOK, LocksHeld, TargetsKnown
  <2>4. ASSUME NEW v \in Waiters PROVE WaiterInv(v)'
    BY <1>25 DEF TriggerCount, TypeOK, LocksHeld, TargetsKnown, WaiterInv
  <2> QED BY <2>1, <2>2, <2>3, <2>4
<1>26. CASE TriggerClear
  <2>1. TypeOK'
    BY <1>26 DEF TriggerClear, TypeOK, LocksHeld, TargetsKnown
  <2>2. LocksHeld'
    BY <1>26 DEF TriggerClear, TypeOK, LocksHeld
  <2>3. TargetsKnown'
    BY <1>26 DEF TriggerClear, TypeOK, LocksHeld, TargetsKnown
  <2>4. ASSUME NEW v \in Waiters PROVE WaiterInv(v)'
    BY <1>26 DEF TriggerClear, TypeOK, LocksHeld, TargetsKnown, WaiterInv
  <2> QED BY <2>1, <2>2, <2>3, <2>4
<1>27. CASE TriggerEnd
  <2>1. TypeOK'
    BY <1>27 DEF TriggerEnd, TypeOK, LocksHeld, TargetsKnown
  <2>2. LocksHeld'
    BY <1>27 DEF TriggerEnd, TypeOK, LocksHeld
  <2>3. TargetsKnown'
    BY <1>27 DEF TriggerEnd, TypeOK, LocksHeld, TargetsKnown
  <2>4. ASSUME NEW v \in Waiters PROVE WaiterInv(v)'
    BY <1>27 DEF TriggerEnd, TypeOK, LocksHeld, TargetsKnown, WaiterInv
  <2> QED BY <2>1, <2>2, <2>3, <2>4
<1>28. CASE UNCHANGED vars
  <2>1. TypeOK'
    BY <1>28 DEF vars, TypeOK, LocksHeld, TargetsKnown
  <2>2. LocksHeld'
    BY <1>28 DEF vars, TypeOK, LocksHeld
  <2>3. TargetsKnown'
    BY <1>28 DEF vars, TypeOK, LocksHeld, TargetsKnown
  <2>4. ASSUME NEW v \in Waiters PROVE WaiterInv(v)'
    BY <1>28 DEF vars, TypeOK, LocksHeld, TargetsKnown, WaiterInv
  <2> QED BY <2>1, <2>2, <2>3, <2>4
<1> QED
  BY <1>1, <1>2, <1>3, <1>4, <1>5, <1>6, <1>7, <1>8, <1>9, <1>10, <1>11, <1>12, <1>13, <1>14,
     <1>15, <1>16, <1>17, <1>18, <1>19, <1>20, <1>21, <1>22, <1>23, <1>24, <1>25, <1>26, <1>27,
     <1>28
  DEF Next, WaiterStep, NotifierStep, CancellerStep, Finished

\* The invariant holds in every reachable state.
LEMMA WinnerHolds == Spec => []WinnerInv
BY WinnerInit, WinnerNext, PTL DEF Spec
-----------------------------------------------------------------------------
\* The locks, lists and flags have their types, and removeIf() of notifyNewData()
\* only has elements of the list ahead of it.
THEOREM TypeCorrect == Spec => []TypeOK
<1>1. WinnerInv => TypeOK
  BY DEF WinnerInv
<1> QED BY <1>1, WinnerHolds, PTL

\* The exchange of executable_ has one winner, whoever schedules and cancels, and the
\* waiter is neither popped nor restarted while the winner works on it.
THEOREM ResumedByOne == Spec => []OneWinner
<1>1. WinnerInv => OneWinner
  <2> SUFFICES ASSUME WinnerInv, NEW w \in Waiters
               PROVE  /\ Cardinality(Winners(w)) <= 1
                      /\ Winners(w) # {} => ~Gone(w) /\ ~exec[w] /\ skip[w]
    BY DEF OneWinner
  <2>1. Winners(w) = {} \/ \E x : Winners(w) = {x}
    BY DEF WinnerInv, WaiterInv, Winners, NotifierWon, CancellerWon, WaiterWon, Suspended, Registered
  <2>2. Cardinality(Winners(w)) <= 1
    <3>1. CASE Winners(w) = {}
      BY <3>1, FS_EmptySet
    <3>2. ASSUME NEW x, Winners(w) = {x} PROVE Cardinality(Winners(w)) <= 1
      <4>1. Cardinality({x}) = 1
        BY FS_Singleton
      <4> QED BY <3>2, <4>1
    <3> QED BY <2>1, <3>1, <3>2
  <2>3. Winners(w) # {} => ~Gone(w) /\ ~exec[w] /\ skip[w]
    BY DEF WinnerInv, WaiterInv, Winners, NotifierWon, CancellerWon, WaiterWon, Suspended,
           Registered, Gone
  <2> QED BY <2>2, <2>3
<1> QED BY <1>1, WinnerHolds, PTL

\* A waiter that is popped leaves no executable and no callback in the token, and
\* trigger() is not about to call one that is gone.
THEOREM LeavesNothingBehind == Spec => []NothingLeftBehind
<1>1. WinnerInv => NothingLeftBehind
  BY DEF WinnerInv, WaiterInv, NothingLeftBehind, Gone, CallbackPending, Suspended, Registered
<1> QED BY <1>1, WinnerHolds, PTL
-----------------------------------------------------------------------------
\* workloadCount_ is the number of waiters that can be popped.
LEMMA CountNext == WinnerInv /\ WinnerInv' /\ CountInv /\ [Next]_vars => CountInv'
<1> SUFFICES ASSUME WinnerInv, WinnerInv', CountInv, [Next]_vars
             PROVE  count' = Cardinality(Ready')
  BY DEF CountInv
<1> USE DEF Suspended, Registered, NotifierWon, CancellerWon, WaiterWon, locks, notifierVars,
            cancellerVars
<1>a. IsFiniteSet(Ready)
  BY WaitersAssumption, FS_Subset DEF Ready
<1>b. TypeOK /\ LocksHeld /\ TargetsKnown /\ (\A v \in Waiters : WaiterInv(v)) /\ TypeOK'
  BY DEF WinnerInv
<1>c. ASSUME count' = count, \A v \in Waiters : Counted(v)' <=> Counted(v)
      PROVE  count' = Cardinality(Ready')
  <2>1. Ready' = Ready
    BY <1>c DEF Ready
  <2> QED BY <1>c, <2>1 DEF CountInv
<1>d. ASSUME NEW x \in Waiters, count' = count + 1, ~Counted(x), Counted(x)',
             \A v \in Waiters \ {x} : Counted(v)' <=> Counted(v)
      PROVE  count' = Cardinality(Ready')
  <2>1. Ready' = Ready \cup {x} /\ x \notin Ready
    BY <1>d DEF Ready
  <2> QED BY <1>a, <1>d, <2>1, FS_AddElement DEF CountInv
<1>e. ASSUME NEW x \in Waiters, count' = count - 1, Counted(x), ~Counted(x)',
             \A v \in Waiters \ {x} : Counted(v)' <=> Counted(v)
      PROVE  count' = Cardinality(Ready')
  <2>1. Ready' = Ready \ {x} /\ x \in Ready
    BY <1>e DEF Ready
  <2> QED BY <1>a, <1>e, <2>1, FS_RemoveElement DEF CountInv
<1>1. ASSUME NEW w \in Waiters, WaitLock(w) PROVE count' = Cardinality(Ready')
  <2>1. count' = count
    BY <1>1 DEF WaitLock
  <2>2. \A v \in Waiters : Counted(v)' <=> Counted(v)
    BY <1>1, <1>b DEF WaitLock, Goto, TypeOK, LocksHeld, TargetsKnown, WaiterInv, Counted
  <2> QED BY <1>c, <2>1, <2>2
<1>2. ASSUME NEW w \in Waiters, WaitOwn(w) PROVE count' = Cardinality(Ready')
  <2>1. count' = count
    BY <1>2 DEF WaitOwn
  <2>2. \A v \in Waiters : Counted(v)' <=> Counted(v)
    BY <1>2, <1>b DEF WaitOwn, Goto, TypeOK, LocksHeld, TargetsKnown, WaiterInv, Counted
  <2> QED BY <1>c, <2>1, <2>2
<1>3. ASSUME NEW w \in Waiters, AddLock(w) PROVE count' = Cardinality(Ready')
  <2>1. count' = count
    BY <1>3 DEF AddLock
  <2>2. \A v \in Waiters : Counted(v)' <=> Counted(v)
    BY <1>3, <1>b DEF AddLock, Goto, TypeOK, LocksHeld, TargetsKnown, WaiterInv, Counted
  <2> QED BY <1>c, <2>1, <2>2
<1>4. ASSUME NEW w \in Waiters, AddCallback(w) PROVE count' = Cardinality(Ready')
  <2>1. count' = count
    BY <1>4 DEF AddCallback
  <2>2. \A v \in Waiters : Counted(v)' <=> Counted(v)
    BY <1>4, <1>b DEF AddCallback, Goto, TypeOK, LocksHeld, TargetsKnown, WaiterInv, Counted
  <2> QED BY <1>c, <2>1, <2>2
<1>5. ASSUME NEW w \in Waiters, CancelNow(w) PROVE count' = Cardinality(Ready')
  <2>1. count' = count
    BY <1>5 DEF CancelNow
  <2>2. \A v \in Waiters : Counted(v)' <=> Counted(v)
    BY <1>5, <1>b DEF CancelNow, Goto, TypeOK, LocksHeld, TargetsKnown, WaiterInv, Counted
  <2> QED BY <1>c, <2>1, <2>2
<1>6. ASSUME NEW w \in Waiters, CancelNowErase(w) PROVE count' = Cardinality(Ready')
  <2>1. count' = count
    BY <1>6 DEF CancelNowErase
  <2>2. \A v \in Waiters : Counted(v)' <=> Counted(v)
    BY <1>6, <1>b DEF CancelNowErase, Goto, TypeOK, LocksHeld, TargetsKnown, WaiterInv, Counted
  <2> QED BY <1>c, <2>1, <2>2
<1>7. ASSUME NEW w \in Waiters, CancelNowUnskip(w) PROVE count' = Cardinality(Ready')
  <2>1. count' = count + 1
    BY <1>7 DEF CancelNowUnskip
  <2>2. ~Counted(w) /\ Counted(w)'
    BY <1>7, <1>b DEF CancelNowUnskip, Goto, TypeOK, LocksHeld, TargetsKnown, WaiterInv, Counted
  <2>3. \A v \in Waiters \ {w} : Counted(v)' <=> Counted(v)
    BY <1>7, <1>b DEF CancelNowUnskip, Goto, TypeOK, LocksHeld, TargetsKnown, WaiterInv, Counted
  <2> QED BY <1>d, <2>1, <2>2, <2>3
<1>8. ASSUME NEW w \in Waiters, Recheck(w) PROVE count' = Cardinality(Ready')
  <2>1. count' = count
    BY <1>8 DEF Recheck
  <2>2. \A v \in Waiters : Counted(v)' <=> Counted(v)
    BY <1>8, <1>b DEF Recheck, Goto, TypeOK, LocksHeld, TargetsKnown, WaiterInv, Counted
  <2> QED BY <1>c, <2>1, <2>2
<1>9. ASSUME NEW w \in Waiters, RemoveCallback(w) PROVE count' = Cardinality(Ready')
  <2>1. count' = count
    BY <1>9 DEF RemoveCallback
  <2>2. \A v \in Waiters : Counted(v)' <=> Counted(v)
    BY <1>9, <1>b DEF RemoveCallback, Goto, TypeOK, LocksHeld, TargetsKnown, WaiterInv, Counted
  <2> QED BY <1>c, <2>1, <2>2
<1>10. ASSUME NEW w \in Waiters, Push(w) PROVE count' = Cardinality(Ready')
  <2>1. count' = count
    BY <1>10 DEF Push
  <2>2. \A v \in Waiters : Counted(v)' <=> Counted(v)
    BY <1>10, <1>b DEF Push, Goto, TypeOK, LocksHeld, TargetsKnown, WaiterInv, Counted
  <2> QED BY <1>c, <2>1, <2>2
<1>11. ASSUME NEW w \in Waiters, Pop(w) PROVE count' = Cardinality(Ready')
  <2>1. count' = count - 1
    BY <1>11 DEF Pop
  <2>2. Counted(w) /\ ~Counted(w)'
    BY <1>11, <1>b DEF Pop, Goto, TypeOK, LocksHeld, TargetsKnown, WaiterInv, Counted
  <2>3. \A v \in Waiters \ {w} : Counted(v)' <=> Counted(v)
    BY <1>11, <1>b DEF Pop, Goto, TypeOK, LocksHeld, TargetsKnown, WaiterInv, Counted
  <2> QED BY <1>e, <2>1, <2>2, <2>3
<1>12. ASSUME NEW w \in Waiters, Continue(w) PROVE count' = Cardinality(Ready')
  <2>1. count' = count
    BY <1>12 DEF Continue
  <2>2. \A v \in Waiters : Counted(v)' <=> Counted(v)
    BY <1>12, <1>b DEF Continue, Goto, TypeOK, LocksHeld, TargetsKnown, WaiterInv, Counted
  <2> QED BY <1>c, <2>1, <2>2
<1>13. CASE NotifyLock
  <2>1. count' = count
    BY <1>13 DEF NotifyLock
  <2>2. \A v \in Waiters : Counted(v)' <=> Counted(v)
    BY <1>13, <1>b DEF NotifyLock, TypeOK, LocksHeld, TargetsKnown, WaiterInv, Counted
  <2> QED BY <1>c, <2>1, <2>2
<1>14. ASSUME NEW w \in Waiters, NotifyExchange(w) PROVE count' = Cardinality(Ready')
  <2>1. count' = count
    BY <1>14 DEF NotifyExchange
  <2>2. \A v \in Waiters : Counted(v)' <=> Counted(v)
    BY <1>14, <1>b DEF NotifyExchange, TypeOK, LocksHeld, TargetsKnown, WaiterInv, Counted
  <2> QED BY <1>c, <2>1, <2>2
<1>15. CASE NotifyRemoveCallback
  <2>1. count' = count
    BY <1>15 DEF NotifyRemoveCallback
  <2>2. \A v \in Waiters : Counted(v)' <=> Counted(v)
    BY <1>15, <1>b DEF NotifyRemoveCallback, TypeOK, LocksHeld, TargetsKnown, WaiterInv, Counted
  <2> QED BY <1>c, <2>1, <2>2
<1>16. CASE NotifyCount
  <2>0. PICK x \in Waiters : x = ntarget
    BY <1>16, <1>b DEF NotifyCount, TypeOK, TargetsKnown
  <2>1. count' = count + 1
    BY <1>16 DEF NotifyCount
  <2>2. ~Counted(x) /\ Counted(x)'
    BY <1>16, <1>b, <2>0 DEF NotifyCount, TypeOK, LocksHeld, TargetsKnown, WaiterInv, Counted
  <2>3. \A v \in Waiters \ {x} : Counted(v)' <=> Counted(v)
    BY <1>16, <1>b, <2>0 DEF NotifyCount, TypeOK, LocksHeld, TargetsKnown, WaiterInv, Counted
  <2> QED BY <1>d, <2>1, <2>2, <2>3
<1>17. CASE NotifyClear
  <2>1. count' = count
    BY <1>17 DEF NotifyClear
  <2>2. \A v \in Waiters : Counted(v)' <=> Counted(v)
    BY <1>17, <1>b DEF NotifyClear, TypeOK, LocksHeld, TargetsKnown, WaiterInv, Counted
  <2> QED BY <1>c, <2>1, <2>2
<1>18. CASE NotifyUnlink
  <2>1. count' = count
    BY <1>18 DEF NotifyUnlink
  <2>2. \A v \in Waiters : Counted(v)' <=> Counted(v)
    BY <1>18, <1>b DEF NotifyUnlink, TypeOK, LocksHeld, TargetsKnown, WaiterInv, Counted
  <2> QED BY <1>c, <2>1, <2>2
<1>19. CASE NotifyEnd
  <2>1. count' = count
    BY <1>19 DEF NotifyEnd
  <2>2. \A v \in Waiters : Counted(v)' <=> Counted(v)
    BY <1>19, <1>b DEF NotifyEnd, TypeOK, LocksHeld, TargetsKnown, WaiterInv, Counted
  <2> QED BY <1>c, <2>1, <2>2
<1>20. CASE TriggerLock
  <2>1. count' = count
    BY <1>20 DEF TriggerLock
  <2>2. \A v \in Waiters : Counted(v)' <=> Counted(v)
    BY <1>20, <1>b DEF TriggerLock, TypeOK, LocksHeld, TargetsKnown, WaiterInv, Counted
  <2> QED BY <1>c, <2>1, <2>2
<1>21. CASE TriggerLockCallbacks
  <2>1. count' = count
    BY <1>21 DEF TriggerLockCallbacks
  <2>2. \A v \in Waiters : Counted(v)' <=> Counted(v)
    BY <1>21, <1>b DEF TriggerLockCallbacks, TypeOK, LocksHeld, TargetsKnown, WaiterInv, Counted
  <2> QED BY <1>c, <2>1, <2>2
<1>22. ASSUME NEW w \in Waiters, TriggerPop(w) PROVE count' = Cardinality(Ready')
  <2>1. count' = count
    BY <1>22 DEF TriggerPop
  <2>2. \A v \in Waiters : Counted(v)' <=> Counted(v)
    BY <1>22, <1>b DEF TriggerPop, TypeOK, LocksHeld, TargetsKnown, WaiterInv, Counted
  <2> QED BY <1>c, <2>1, <2>2
<1>23. CASE TriggerExchange
  <2>1. count' = count
    BY <1>23 DEF TriggerExchange
  <2>2. \A v \in Waiters : Counted(v)' <=> Counted(v)
    BY <1>23, <1>b DEF TriggerExchange, TypeOK, LocksHeld, TargetsKnown, WaiterInv, Counted
  <2> QED BY <1>c, <2>1, <2>2
<1>24. CASE TriggerErase
  <2>1. count' = count
    BY <1>24 DEF TriggerErase
  <2>2. \A v \in Waiters : Counted(v)' <=> Counted(v)
    BY <1>24, <1>b DEF TriggerErase, TypeOK, LocksHeld, TargetsKnown, WaiterInv, Counted
  <2> QED BY <1>c, <2>1, <2>2
<1>25. CASE TriggerCount
  <2>0. PICK x \in Waiters : x = ctarget
    BY <1>25, <1>b DEF TriggerCount, TypeOK, TargetsKnown
  <2>1. count' = count + 1
    BY <1>25 DEF TriggerCount
  <2>2. ~Counted(x) /\ Counted(x)'
    BY <1>25, <1>b, <2>0 DEF TriggerCount, TypeOK, LocksHeld, TargetsKnown, WaiterInv, Counted
  <2>3. \A v \in Waiters \ {x} : Counted(v)' <=> Counted(v)
    BY <1>25, <1>b, <2>0 DEF TriggerCount, TypeOK, LocksHeld, TargetsKnown, WaiterInv, Counted
  <2> QED BY <1>d, <2>1, <2>2, <2>3
<1>26. CASE TriggerClear
  <2>1. count' = count
    BY <1>26 DEF TriggerClear
  <2>2. \A v \in Waiters : Counted(v)' <=> Counted(v)
    BY <1>26, <1>b DEF TriggerClear, TypeOK, LocksHeld, TargetsKnown, WaiterInv, Counted
  <2> QED BY <1>c, <2>1, <2>2
<1>27. CASE TriggerEnd
  <2>1. count' = count
    BY <1>27 DEF TriggerEnd
  <2>2. \A v \in Waiters : Counted(v)' <=> Counted(v)
    BY <1>27, <1>b DEF TriggerEnd, TypeOK, LocksHeld, TargetsKnown, WaiterInv, Counted
  <2> QED BY <1>c, <2>1, <2>2
<1>28. CASE UNCHANGED vars
  <2>1. count' = count
    BY <1>28 DEF vars
  <2>2. \A v \in Waiters : Counted(v)' <=> Counted(v)
    BY <1>28, <1>b DEF vars, TypeOK, LocksHeld, TargetsKnown, WaiterInv, Counted
  <2> QED BY <1>c, <2>1, <2>2
<1> QED
  BY <1>1, <1>2, <1>3, <1>4, <1>5, <1>6, <1>7, <1>8, <1>9, <1>10, <1>11, <1>12, <1>13, <1>14,
     <1>15, <1>16, <1>17, <1>18, <1>19, <1>20, <1>21, <1>22, <1>23, <1>24, <1>25, <1>26, <1>27,
     <1>28
  DEF Next, WaiterStep, NotifierStep, CancellerStep, Finished

\* workloadCount_ counts the waiters that can be popped, so the assertion of pop() that
\* it is not negative holds with any number of waiters.
THEOREM CountIsExact == Spec => []CountCoversReady
<1>1. Init => CountInv
  <2> SUFFICES ASSUME Init PROVE CountInv
    OBVIOUS
  <2>1. Ready = {}
    BY DEF Init, Ready, Counted, Suspended
  <2> QED BY <2>1, FS_EmptySet DEF Init, CountInv
<1>2. CountInv => CountCoversReady
  <2>1. Ready = {w \in Waiters :
            \/ ~skip[w] /\ wpc[w] \in {"activate", "addCallback", "cancel", "recheck",
                                       "removeCallback", "push", "queued"}
            \/ npc = "clear" /\ ntarget = w
            \/ cpc = "clear" /\ ctarget = w}
    BY DEF Ready, Counted, Suspended
  <2> QED BY <2>1 DEF CountInv, CountCoversReady
<1> QED BY <1>1, <1>2, CountNext, WinnerHolds, PTL DEF Spec
=============================================================================
