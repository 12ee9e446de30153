------------------------------ MODULE Services ------------------------------
(***************************************************************************)
(* The service manager of the Node.js backends (nodejs/core/services/       *)
(* services.js, provider.js).  A service has processes of four kinds: start *)
(* and stop processes, which start() and stop() run one after the other,    *)
(* a time triggered process, run again periodS after it ended, and an event *)
(* triggered one.  Any process can also be run through the REST interface.  *)
(*                                                                          *)
(* Everything between two awaits is one action.  A timer is "pending" when  *)
(* the handle kept in service.instances has not fired, "fired" when it has; *)
(* a stray timer is one whose handle was overwritten.                       *)
(***************************************************************************)
EXTENDS Integers, Sequences, FiniteSets, SequencesExt

CONSTANTS
  Uids,          \* the services, in the order of register()
  MaxStarts,     \* bound on the calls of start()
  ByRest         \* the processes that are run through the REST interface

ASSUME ServicesAssumption ==
  /\ Uids \in Seq(STRING) /\ IsInjective(Uids)    \* register() asserts that the uid is new
  /\ MaxStarts \in Nat
  /\ ByRest \subseteq {"start", "stop", "timer", "event"}

VARIABLES
  state,         \* service.state.status
  running,       \* who awaits the process that is running, "none" for an idle record
  lastFatalError,\* service.lastFatalError is set
  instance,      \* service.instances[name]: absent, pending or fired
  stray,         \* pending timers that no handle refers to
  trigger,       \* the callback of the event trigger is registered
  main,          \* start() or stop(): the operation, the service it is at, its place
  starts,        \* calls of start()
  overlapped     \* a service was started while a former periodic run had not ended (history)

servicesVars == <<state, running, lastFatalError, instance, stray, trigger, main, starts, overlapped>>

Processes == {"start", "stop", "timer", "event"}
Service == ToSet(Uids)
NoCall == [op |-> "none", at |-> 0, pc |-> "returned"]

\* register() of every service.
ServicesInit ==
  /\ state = [u \in Service |-> "idle"]
  /\ running = [u \in Service |-> [n \in Processes |-> "none"]]
  /\ lastFatalError = [u \in Service |-> FALSE]
  /\ instance = [u \in Service |-> "absent"]
  /\ stray = [u \in Service |-> 0]
  /\ trigger = [u \in Service |-> FALSE]
  /\ main = NoCall /\ starts = 0 /\ overlapped = FALSE

-----------------------------------------------------------------------------
\* runProcess() up to its await: nothing happens when the process is running,
\* otherwise the record is marked (its logs and durations are left out).
IsRunning(u, n) == running[u][n] # "none"
RunProcess(u, n, who) ==
  IF IsRunning(u, n) THEN UNCHANGED running
  ELSE running' = [running EXCEPT ![u][n] = who]

\* The default policy of the start and stop processes is throw, of the others ignore.
Policy(n) == IF n \in {"start", "stop"} THEN "throw" ELSE "ignore"

\* runTimeTriggeredProcess() after its await: a new timer, when the service still
\* has its instance.  Its handle replaces the one that may be pending.
\* Mutant: the process is run again only when it succeeded.
RearmOnSuccess(u, ok) ==
  IF instance[u] = "absent" \/ ~ok THEN UNCHANGED <<instance, stray>>
  ELSE /\ instance' = [instance EXCEPT ![u] = "pending"]
       /\ stray' = [stray EXCEPT ![u] = IF instance[u] = "pending" THEN @ + 1 ELSE @]
Rearm(u, ok) ==
  IF instance[u] = "absent" THEN UNCHANGED <<instance, stray>>
  ELSE /\ instance' = [instance EXCEPT ![u] = "pending"]
       /\ stray' = [stray EXCEPT ![u] = IF instance[u] = "pending" THEN @ + 1 ELSE @]

\* The process ends, with or without an error; runProcess() and
\* runProcessWithPolicy() complete the record, then their caller goes on.
ProcessEnds(u, n, ok) ==
  /\ IsRunning(u, n)
  /\ running' = [running EXCEPT ![u][n] = "none"]
  /\ lastFatalError' = [lastFatalError EXCEPT ![u] = @ \/ (~ok /\ Policy(n) = "throw")]
  /\ IF running[u][n] = "timer" THEN Rearm(u, ok) ELSE UNCHANGED <<instance, stray>>
  /\ main' = IF running[u][n] = "main"
             THEN [main EXCEPT !.pc = IF ok \/ main.op = "stop" THEN "ran" ELSE "failed"]
             ELSE main
  /\ UNCHANGED <<state, trigger, starts, overlapped>>

\* A timer fires: runTimeTriggeredProcess().  When the process is running already
\* it returns at once and the timer is set again.
TimerFires(u) ==
  /\ instance[u] = "pending"
  /\ IF IsRunning(u, "timer") THEN UNCHANGED instance
     ELSE instance' = [instance EXCEPT ![u] = "fired"]
  /\ RunProcess(u, "timer", "timer")
  /\ UNCHANGED <<state, lastFatalError, stray, trigger, main, starts, overlapped>>
StrayFires(u) ==
  /\ stray[u] > 0
  /\ RunProcess(u, "timer", "timer")
  /\ IF IsRunning(u, "timer") /\ instance[u] # "absent"
     THEN /\ instance' = [instance EXCEPT ![u] = "pending"]
          /\ stray' = [stray EXCEPT ![u] = IF instance[u] = "pending" THEN @ ELSE @ - 1]
     ELSE stray' = [stray EXCEPT ![u] = @ - 1] /\ UNCHANGED instance
  /\ UNCHANGED <<state, lastFatalError, trigger, main, starts, overlapped>>

\* An event: the trigger calls the process when it is registered.
Event(u) ==
  /\ trigger[u] /\ ~IsRunning(u, "event")
  /\ RunProcess(u, "event", "event")
  /\ UNCHANGED <<state, lastFatalError, instance, stray, trigger, main, starts, overlapped>>

\* POST /admin/service/trigger runs a process of a service.
Manual(u, n) ==
  /\ ~IsRunning(u, n) /\ RunProcess(u, n, "rest")
  /\ UNCHANGED <<state, lastFatalError, instance, stray, trigger, main, starts, overlapped>>

-----------------------------------------------------------------------------
\* start() and stop() go through the services in order.
Current == Uids[main.at]
First == IF Uids = <<>> THEN "returned" ELSE "service"
CallStart ==
  /\ main.pc = "returned" /\ starts < MaxStarts
  /\ starts' = starts + 1
  /\ main' = [op |-> "start", at |-> 1, pc |-> First]
  /\ UNCHANGED <<state, running, lastFatalError, instance, stray, trigger, overlapped>>
CallStop ==
  /\ main.pc = "returned" /\ main.op = "start"
  /\ main' = [op |-> "stop", at |-> 1, pc |-> First]
  /\ UNCHANGED <<state, running, lastFatalError, instance, stray, trigger, starts, overlapped>>

\* startService() up to its start process.  A service that is not idle is an
\* exception, which ends start().
StartService ==
  /\ main.op = "start" /\ main.pc = "service"
  /\ IF state[Current] # "idle"
     THEN main' = [main EXCEPT !.pc = "threw"] /\ UNCHANGED <<state, running>>
     ELSE /\ state' = [state EXCEPT ![Current] = "starting"]
          /\ RunProcess(Current, "start", "main")
          /\ main' = [main EXCEPT !.pc = IF IsRunning(Current, "start") THEN "ran" ELSE "running"]
  /\ UNCHANGED <<lastFatalError, instance, stray, trigger, starts, overlapped>>

\* The start process succeeded: the trigger is registered and the timer is set.
Activate ==
  /\ main.op = "start" /\ main.pc = "ran"
  /\ trigger' = [trigger EXCEPT ![Current] = TRUE]
  /\ instance' = [instance EXCEPT ![Current] = "pending"]
  /\ overlapped' = (overlapped \/ running[Current]["timer"] = "timer" \/ stray[Current] > 0)
  /\ state' = [state EXCEPT ![Current] = "running"]
  /\ main' = [main EXCEPT !.pc = "next"]
  /\ UNCHANGED <<running, lastFatalError, stray, starts>>

StartFails ==
  /\ main.op = "start" /\ main.pc = "failed"
  /\ state' = [state EXCEPT ![Current] = "error"]
  /\ main' = [main EXCEPT !.pc = "next"]
  /\ UNCHANGED <<running, lastFatalError, instance, stray, trigger, starts, overlapped>>

\* stopService() up to its stop process: unregister() asserts that the trigger is
\* registered; the pending timer is cleared and the instances are forgotten.
\* Mutant: the instances are kept.
StopServiceKeeps ==
  /\ main.op = "stop" /\ main.pc = "service"
  /\ state' = [state EXCEPT ![Current] = "stopping"]
  /\ IF ~trigger[Current]
     THEN main' = [main EXCEPT !.pc = "threw"] /\ UNCHANGED <<running, instance, trigger>>
     ELSE /\ trigger' = [trigger EXCEPT ![Current] = FALSE]
          /\ instance' = [instance EXCEPT ![Current] = IF @ = "pending" THEN "absent" ELSE @]
          /\ RunProcess(Current, "stop", "main")
          /\ main' = [main EXCEPT !.pc = IF IsRunning(Current, "stop") THEN "ran" ELSE "running"]
  /\ UNCHANGED <<lastFatalError, stray, starts, overlapped>>
StopService ==
  /\ main.op = "stop" /\ main.pc = "service"
  /\ state' = [state EXCEPT ![Current] = "stopping"]
  /\ IF ~trigger[Current]
     THEN main' = [main EXCEPT !.pc = "threw"] /\ UNCHANGED <<running, instance, trigger>>
     ELSE /\ trigger' = [trigger EXCEPT ![Current] = FALSE]
          /\ instance' = [instance EXCEPT ![Current] = "absent"]
          /\ RunProcess(Current, "stop", "main")
          /\ main' = [main EXCEPT !.pc = IF IsRunning(Current, "stop") THEN "ran" ELSE "running"]
  /\ UNCHANGED <<lastFatalError, stray, starts, overlapped>>

Deactivate ==
  /\ main.op = "stop" /\ main.pc = "ran"
  /\ state' = [state EXCEPT ![Current] = "idle"]
  /\ main' = [main EXCEPT !.pc = "next"]
  /\ UNCHANGED <<running, lastFatalError, instance, stray, trigger, starts, overlapped>>

\* The next service, or the end: an exception when any service has a fatal error.
\* Mutant: the first failure ends the loop.
NextServiceUnlessFailed ==
  /\ main.pc = "next"
  /\ main' = IF \E u \in Service : lastFatalError[u] THEN [main EXCEPT !.pc = "threw"]
             ELSE IF main.at < Len(Uids) THEN [main EXCEPT !.at = @ + 1, !.pc = "service"]
             ELSE [main EXCEPT !.pc = "returned"]
  /\ UNCHANGED <<state, running, lastFatalError, instance, stray, trigger, starts, overlapped>>
NextService ==
  /\ main.pc = "next"
  /\ main' = IF main.at < Len(Uids) THEN [main EXCEPT !.at = @ + 1, !.pc = "service"]
             ELSE [main EXCEPT !.pc = IF \E u \in Service : lastFatalError[u] THEN "threw" ELSE "returned"]
  /\ UNCHANGED <<state, running, lastFatalError, instance, stray, trigger, starts, overlapped>>

MainStep == StartService \/ Activate \/ StartFails \/ StopService \/ Deactivate \/ NextService
ProcessSettles(u, n) == \E ok \in BOOLEAN : ProcessEnds(u, n, ok)
ServicesStep ==
  \/ MainStep
  \/ \E u \in Service : \/ TimerFires(u) \/ StrayFires(u) \/ Event(u)
                        \/ \E n \in Processes : ProcessSettles(u, n)
                        \/ \E n \in ByRest : Manual(u, n)

\* Timers fire, processes settle, and start() and stop() go on.
ServicesFairness ==
  /\ WF_servicesVars(MainStep)
  /\ \A u \in Service : /\ WF_servicesVars(TimerFires(u)) /\ WF_servicesVars(StrayFires(u))
                        /\ \A n \in Processes : WF_servicesVars(ProcessSettles(u, n))

-----------------------------------------------------------------------------
\* A running service has its periodic run: a timer that is pending, or a run that
\* will set it again, however the runs ended and whoever else ran the process.
PeriodicRunAlive ==
  \A u \in Service : state[u] = "running" =>
    instance[u] = "pending" \/ running[u]["timer"] = "timer"

\* A service that was stopped has no timer and no event left, unless it was started
\* again while a run of the former life was still going on (services.js:202).
StoppedIsQuiet ==
  \A u \in Service : (state[u] = "idle" /\ ~overlapped) =>
    instance[u] = "absent" /\ stray[u] = 0 /\ ~trigger[u]

\* start() reaches every service even when the start process of one fails, as long as
\* nothing was started before.
StartReachesAll ==
  (main.op = "start" /\ starts = 1) ~> (\A u \in Service : state[u] \in {"running", "error"} \/ main.op = "stop")
=============================================================================
