----------------------------- MODULE RuntimeProofs -----------------------------
(***************************************************************************)
(* Proofs about the runtime of an application: its backend, its task        *)
(* manager and its two caches, which share nothing.                         *)
(*                                                                          *)
(* The backend: for any services, requests and websockets, with any number  *)
(* of starts, a periodic process of a running service has its timer or its  *)
(* run, and a request is answered once and only while the services run.     *)
(*                                                                          *)
(* The task manager: for any tasks, priorities, delays and intervals its    *)
(* queues stay sorted, a registered task is queued once or executed, and a  *)
(* task that waits has a timer.                                             *)
(*                                                                          *)
(* The caches: for any collections, sizes and callers, what the caches say  *)
(* of their sizes is true of their entries, a limit is kept, and what is    *)
(* taken for valid is.                                                      *)
(***************************************************************************)
EXTENDS MCRuntime, TLAPS, WellFoundedInduction, FiniteSetTheorems, SequenceTheorems

-----------------------------------------------------------------------------
(* The backend with its websockets: the run explores them one without the   *)
(* other, here they run together.                                           *)

OpenBackendNext ==
  \/ BackendNext
  \/ SocketNext /\ UNCHANGED <<servicesVars, backend, statistics, signals>>
OpenBackendSpec == BackendInit /\ [][OpenBackendNext]_backendVars

(* The services.  Their inductive invariant says of one service what its    *)
(* timer, its trigger and its state have to do with each other,             *)
ServicesTypeOK ==
  /\ state \in [Service -> {"idle", "starting", "running", "error", "stopping"}]
  /\ running \in [Service -> [Processes -> {"none", "main", "timer", "event", "rest"}]]
  /\ lastFatalError \in [Service -> BOOLEAN]
  /\ instance \in [Service -> {"absent", "pending", "fired"}]
  /\ stray \in [Service -> Nat]
  /\ trigger \in [Service -> BOOLEAN]
  /\ main \in [op : {"none", "start", "stop"}, at : Nat,
               pc : {"returned", "service", "running", "ran", "failed", "next", "threw"}]
  /\ overlapped \in BOOLEAN

PeriodOf(u) ==
  /\ state[u] # "running" => instance[u] = "absent" /\ ~trigger[u]
  /\ state[u] = "running" => instance[u] # "absent" /\ trigger[u]
  /\ instance[u] = "fired" => running[u]["timer"] = "timer"
  /\ ~overlapped => stray[u] = 0
  /\ ~overlapped /\ instance[u] = "pending" => running[u]["timer"] # "timer"
  /\ \A n \in Processes : running[u][n] = "timer" => n = "timer"

(* and of start() and stop() that who is awaited by them is where they are, *)
(* and how far start() has come.                                            *)
AtWork == main.pc \in {"service", "running", "ran", "failed", "next"}
StartedBy(i) == i < main.at \/ (i = main.at /\ main.pc = "next")
MainInv ==
  /\ AtWork => main.op \in {"start", "stop"} /\ main.at \in DOMAIN Uids
  /\ \A u \in Service, n \in Processes :
       running[u][n] = "main" => main.pc = "running" /\ u = Current /\ n = main.op
  /\ main.pc = "failed" => lastFatalError[Current]
  /\ main.pc \in {"running", "ran", "failed"} => state[Current] # "running"
  /\ (main.op = "start" /\ AtWork) =>
       \A i \in DOMAIN Uids : StartedBy(i) =>
         \/ state[Uids[i]] = "running"
         \/ lastFatalError[Uids[i]]
  /\ (main.op = "start" /\ main.pc = "returned") => \A u \in Service : state[u] = "running"

ServicesInv == ServicesTypeOK /\ (\A u \in Service : PeriodOf(u)) /\ MainInv

(* The requests and the websockets.                                         *)
Request == [pc : {"none", "parse", "verify", "call", "respond", "stream", "rest", "server", "express", "done"},
            error : Errors \cup {"none"}, sent : {"no", "headers", "complete"}, answers : {0, 1},
            session : BOOLEAN]
RequestInv(q) ==
  /\ q \in Request
  /\ q.answers = 1 <=> q.sent = "complete"
  /\ q.pc \in {"none", "parse", "verify", "call", "respond"} => q.sent = "no"
  /\ q.pc = "stream" => q.sent = "headers"
SocketInv(s) ==
  s \in Responsive => /\ socket[s].pc # "terminated"
                      /\ socket[s].pc = "open" => socket[s].alive \/ socket[s].pinged
HttpInv ==
  /\ DOMAIN request = Requests /\ DOMAIN socket = Sockets
  /\ \A r \in Requests : RequestInv(request[r])
  /\ \A s \in Sockets : SocketInv(s)
  /\ \A r \in Requests : request[r].pc \notin {"none", "done"} =>
       web \in {"listening", "closingSockets", "closingServer"}

(* The backend.                                                             *)
ServicesRun == main.op = "start" /\ main.pc = "returned"
LifeInv ==
  /\ backend = "startServices" => main.op = "start"
  /\ backend \in {"startStatistics", "signals", "startWeb", "running", "stopWeb"} => ServicesRun
  /\ backend \in {"signals", "startWeb", "running", "stopWeb"} => statistics = "started"
  /\ web \in {"listening", "closingSockets", "closingServer"} => backend \in {"running", "stopWeb"}

BackendInv == ServicesInv /\ HttpInv /\ LifeInv

-----------------------------------------------------------------------------
(* The services keep their invariant.                                       *)

\* The services are those of the list, each once.
LEMMA UidsAreServices ==
  /\ Len(Uids) \in Nat /\ DOMAIN Uids = 1 .. Len(Uids)
  /\ \A i \in DOMAIN Uids : Uids[i] \in Service
  /\ \A u \in Service : \E i \in DOMAIN Uids : u = Uids[i]
  /\ \A i, j \in DOMAIN Uids : Uids[i] = Uids[j] => i = j
  <1>1. Uids \in Seq(STRING) /\ IsInjective(Uids)
    BY ServicesAssumption
  <1>2. \A i, j \in DOMAIN Uids : Uids[i] = Uids[j] => i = j
    BY <1>1 DEF IsInjective
  <1> QED BY <1>1, <1>2 DEF Service, ToSet

\* No service runs at first.
LEMMA ServicesStart ==
  ASSUME ServicesInit
  PROVE  ServicesInv
  <1>1. ServicesTypeOK
    BY DEF ServicesInit, ServicesTypeOK, NoCall, Processes
  <1>2. \A u \in Service : PeriodOf(u)
    BY DEF ServicesInit, PeriodOf, Processes
  <1>3. MainInv
    BY DEF ServicesInit, MainInv, NoCall, AtWork
  <1> QED BY <1>1, <1>2, <1>3 DEF ServicesInv

\* start() and stop() are called.
LEMMA CallsKeepServices ==
  ASSUME ServicesInv, CallStart \/ CallStop
  PROVE  ServicesInv'
  <1>1. PICK op \in {"start", "stop"} : main' = [op |-> op, at |-> 1, pc |-> First]
    BY DEF CallStart, CallStop
  <1>2. UNCHANGED <<state, running, lastFatalError, instance, stray, trigger, overlapped>>
    BY DEF CallStart, CallStop
  <1>3. ServicesTypeOK'
    BY <1>1, <1>2 DEF ServicesInv, ServicesTypeOK, First
  <1>4. \A u \in Service : PeriodOf(u)'
    BY <1>2 DEF ServicesInv, PeriodOf
  <1>5. main.pc = "returned"
    BY DEF CallStart, CallStop
  <1>6. \A u \in Service, n \in Processes : running[u][n] # "main"
    BY <1>5 DEF ServicesInv, MainInv
  <1>7. main'.op = op /\ main'.at = 1 /\ main'.pc = First
    BY <1>1
  <1>8. First = "service" => 1 \in DOMAIN Uids
    BY UidsAreServices, ServicesAssumption DEF First
  <1>9. First = "returned" => Service = {}
    BY UidsAreServices DEF First
  <1>10. First \in {"service", "returned"}
    BY DEF First
  <1>11. \A i \in DOMAIN Uids : ~StartedBy(i)'
    BY <1>7, <1>10, UidsAreServices DEF StartedBy
  <1> HIDE DEF First
  <1>12. MainInv'
    BY <1>2, <1>6, <1>7, <1>8, <1>9, <1>10, <1>11 DEF MainInv, AtWork
  <1> QED BY <1>3, <1>4, <1>12 DEF ServicesInv

\* A timer, an event or the REST interface.
LEMMA RunsKeepServices ==
  ASSUME ServicesInv, NEW u \in Service,
         TimerFires(u) \/ StrayFires(u) \/ Event(u) \/ \E n \in ByRest : Manual(u, n)
  PROVE  ServicesInv'
  <1>0. ServicesTypeOK /\ ByRest \subseteq Processes /\ u \in DOMAIN running /\ u \in DOMAIN instance /\ u \in DOMAIN stray
    BY ServicesAssumption DEF ServicesInv, ServicesTypeOK, Processes
  <1>1. UNCHANGED <<state, lastFatalError, trigger, main, overlapped>>
    BY DEF TimerFires, StrayFires, Event, Manual
  <1>2. PICK m \in Processes, who \in {"timer", "event", "rest"} :
          /\ RunProcess(u, m, who)
          /\ who = "timer" => m = "timer"
          /\ m = "timer" => TimerFires(u) \/ StrayFires(u) \/ who = "rest"
          /\ (TimerFires(u) \/ StrayFires(u)) => m = "timer" /\ who = "timer"
    <2>1. CASE TimerFires(u) \/ StrayFires(u)
      BY <2>1 DEF TimerFires, StrayFires, Processes
    <2>2. CASE ~(TimerFires(u) \/ StrayFires(u)) /\ Event(u)
      BY <2>2 DEF Event, Processes
    <2>3. CASE ~(TimerFires(u) \/ StrayFires(u)) /\ \E n \in ByRest : Manual(u, n)
      BY <2>3, <1>0 DEF Manual
    <2> QED BY <2>1, <2>2, <2>3
  <1>3. running' = [running EXCEPT ![u][m] = IF IsRunning(u, m) THEN @ ELSE who]
    BY <1>0, <1>2 DEF RunProcess, ServicesTypeOK
  <1>4. /\ running' \in [Service -> [Processes -> {"none", "main", "timer", "event", "rest"}]]
        /\ \A v \in Service, k \in Processes : running'[v][k] =
             IF v = u /\ k = m /\ ~IsRunning(u, m) THEN who ELSE running[v][k]
    BY <1>0, <1>3 DEF ServicesTypeOK
  <1>5. /\ instance' \in [Service -> {"absent", "pending", "fired"}]
        /\ stray' \in [Service -> Nat]
    <2>1. CASE TimerFires(u)
      BY <2>1, <1>0 DEF TimerFires, ServicesTypeOK
    <2>2. CASE StrayFires(u)
      <3>1. stray[u] \in Nat /\ stray[u] > 0
        BY <2>2, <1>0 DEF StrayFires, ServicesTypeOK
      <3>2. stray' = stray \/ stray' = [stray EXCEPT ![u] = stray[u] - 1]
        BY <2>2, <1>0, Zenon DEF StrayFires, ServicesTypeOK
      <3>3. stray' \in [Service -> Nat]
        BY <3>1, <3>2, <1>0 DEF ServicesTypeOK
      <3> QED BY <3>3, <2>2, <1>0 DEF StrayFires, ServicesTypeOK
    <2>3. CASE Event(u) \/ \E n \in ByRest : Manual(u, n)
      BY <2>3, <1>0 DEF Event, Manual, ServicesTypeOK
    <2> QED BY <2>1, <2>2, <2>3
  <1>6. ServicesTypeOK'
    BY <1>0, <1>1, <1>4, <1>5 DEF ServicesTypeOK
  <1>7. ASSUME NEW v \in Service PROVE PeriodOf(v)'
    <2>1. PeriodOf(v)
      BY DEF ServicesInv
    <2>k. \A k \in Processes : running'[v][k] = "timer" => k = "timer"
      BY <2>1, <1>2, <1>4 DEF PeriodOf, Event
    <2>2. CASE v # u
      <3>1. instance'[v] = instance[v] /\ stray'[v] = stray[v]
        BY <2>2, <1>0, <1>5 DEF TimerFires, StrayFires, Event, Manual, ServicesTypeOK
      <3>2. running'[v]["timer"] = running[v]["timer"]
        BY <2>2, <1>4 DEF Processes
      <3> QED BY <2>1, <3>1, <3>2, <2>k, <1>1 DEF PeriodOf
    <2>3. CASE v = u /\ TimerFires(u)
      <3>1. /\ instance[u] = "pending" /\ stray' = stray
            /\ IF IsRunning(u, "timer") THEN instance' = instance ELSE instance'[u] = "fired"
        BY <2>3, <1>0 DEF TimerFires
      <3>2. running'[u]["timer"] = IF IsRunning(u, "timer") THEN running[u]["timer"] ELSE "timer"
        BY <1>2, <1>4, <2>3
      <3> QED BY <2>1, <2>3, <3>1, <3>2, <2>k, <1>1, Zenon DEF PeriodOf
    <2>4. CASE v = u /\ StrayFires(u)
      <3>1. overlapped
        BY <2>1, <2>4 DEF PeriodOf, StrayFires
      <3>2. instance'[u] = instance[u] \/ (instance[u] # "absent" /\ instance'[u] = "pending")
        BY <2>4, <1>0 DEF StrayFires
      <3>3. running'[u]["timer"] = IF IsRunning(u, "timer") THEN running[u]["timer"] ELSE "timer"
        BY <1>2, <1>4, <2>4
      <3>4. running[u]["timer"] = "timer" => running'[u]["timer"] = "timer"
        BY <3>3 DEF IsRunning
      <3> QED BY <2>1, <2>4, <3>1, <3>2, <3>4, <2>k, <1>1 DEF PeriodOf
    <2>5. CASE v = u /\ ~(TimerFires(u) \/ StrayFires(u))
      <3>1. instance' = instance /\ stray' = stray
        BY <2>5 DEF Event, Manual
      <3>2. running'[u]["timer"] = running[u]["timer"]
            \/ (running[u]["timer"] = "none" /\ running'[u]["timer"] = "rest")
        BY <1>2, <1>4, <2>5 DEF IsRunning, Processes
      <3> QED BY <2>1, <2>5, <3>1, <3>2, <2>k, <1>1 DEF PeriodOf
    <2> QED BY <2>2, <2>3, <2>4, <2>5
  <1>8. MainInv'
    <2>1. MainInv
      BY DEF ServicesInv
    <2>2. \A v \in Service, k \in Processes : running'[v][k] = "main" => running[v][k] = "main"
      BY <1>4
    <2> QED BY <2>1, <2>2, <1>1 DEF MainInv, AtWork, StartedBy, Current
  <1> QED BY <1>6, <1>7, <1>8 DEF ServicesInv

\* A process ends.
LEMMA EndsKeepServices ==
  ASSUME ServicesInv, NEW u \in Service, NEW n \in Processes, NEW ok \in BOOLEAN,
         ProcessEnds(u, n, ok)
  PROVE  ServicesInv'
  <1>0. ServicesTypeOK /\ u \in DOMAIN running /\ u \in DOMAIN instance /\ u \in DOMAIN stray /\ MainInv
    BY DEF ServicesInv, ServicesTypeOK
  <1>1. UNCHANGED <<state, trigger, starts, overlapped>> /\ running[u][n] # "none"
    BY DEF ProcessEnds, IsRunning
  <1>2. /\ running' \in [Service -> [Processes -> {"none", "main", "timer", "event", "rest"}]]
        /\ \A v \in Service, k \in Processes : running'[v][k] =
             IF v = u /\ k = n THEN "none" ELSE running[v][k]
    BY <1>0 DEF ServicesTypeOK, ProcessEnds
  <1>3. /\ lastFatalError' \in [Service -> BOOLEAN]
        /\ \A v \in Service : lastFatalError[v] => lastFatalError'[v]
        /\ ~ok /\ n \in {"start", "stop"} => lastFatalError'[u]
    BY <1>0 DEF ServicesTypeOK, ProcessEnds, Policy
  <1>4. \/ UNCHANGED <<instance, stray>> /\ (running[u][n] = "timer" => instance[u] = "absent")
        \/ /\ running[u][n] = "timer" /\ instance[u] # "absent"
           /\ instance' = [instance EXCEPT ![u] = "pending"]
           /\ stray' = [stray EXCEPT ![u] = IF instance[u] = "pending" THEN @ + 1 ELSE @]
    BY DEF ProcessEnds, Rearm
  <1>5. instance' \in [Service -> {"absent", "pending", "fired"}] /\ stray' \in [Service -> Nat]
    BY <1>0, <1>4 DEF ServicesTypeOK
  <1>6. main' = main \/ \E pc \in {"ran", "failed"} : main' = [main EXCEPT !.pc = pc]
    BY DEF ProcessEnds
  <1>7. ServicesTypeOK'
    BY <1>0, <1>1, <1>2, <1>3, <1>5, <1>6 DEF ServicesTypeOK
  <1>8. ASSUME NEW v \in Service PROVE PeriodOf(v)'
    <2>1. PeriodOf(v)
      BY DEF ServicesInv
    <2>l. \A k \in Processes : running'[v][k] = "timer" => k = "timer"
      BY <2>1, <1>2 DEF PeriodOf
    <2>2. CASE v # u
      <3>1. instance'[v] = instance[v] /\ stray'[v] = stray[v]
        BY <2>2, <1>0, <1>4 DEF ServicesTypeOK
      <3>2. running'[v]["timer"] = running[v]["timer"]
        BY <2>2, <1>2 DEF Processes
      <3> QED BY <2>1, <3>1, <3>2, <2>l, <1>1 DEF PeriodOf
    <2>3. CASE v = u
      <3>1. running[u]["timer"] = "timer" => running'[u]["timer"] \in {"timer", "none"}
        BY <1>2 DEF Processes
      <3>2. running[u]["timer"] # "timer" => running'[u]["timer"] # "timer"
        BY <1>2 DEF Processes
      <3>k. running[u][n] = "timer" => n = "timer"
        BY <2>1, <2>3 DEF PeriodOf
      <3>3. CASE UNCHANGED <<instance, stray>> /\ (running[u][n] = "timer" => instance[u] = "absent")
        <4>1. instance[u] = "fired" => running'[u]["timer"] = "timer"
          BY <2>1, <2>3, <3>3, <1>2 DEF PeriodOf, Processes
        <4> QED BY <2>1, <2>3, <3>3, <4>1, <2>l, <3>2, <1>1 DEF PeriodOf
      <3>4. CASE running[u][n] = "timer" /\ instance[u] # "absent"
                 /\ instance' = [instance EXCEPT ![u] = "pending"]
                 /\ stray' = [stray EXCEPT ![u] = IF instance[u] = "pending" THEN @ + 1 ELSE @]
        <4>1. instance'[u] = "pending"
              /\ stray'[u] = IF instance[u] = "pending" THEN stray[u] + 1 ELSE stray[u]
          BY <3>4, <1>0
        <4>2. n = "timer" /\ running[u]["timer"] = "timer" /\ running'[u]["timer"] = "none"
          BY <3>4, <3>k, <1>2
        <4>3. ~overlapped => instance[u] # "pending"
          BY <4>2, <2>1, <2>3 DEF PeriodOf
        <4> QED BY <2>1, <2>3, <3>4, <4>1, <4>2, <4>3, <2>l, <1>1, Zenon DEF PeriodOf
      <3> QED BY <3>3, <3>4, <1>4
    <2> QED BY <2>2, <2>3
  <1>9. MainInv'
    <2>1. CASE running[u][n] # "main"
      <3>1. main' = main
        BY <2>1 DEF ProcessEnds
      <3>2. \A v \in Service, k \in Processes : running'[v][k] = "main" => running[v][k] = "main"
        BY <1>2
      <3>3. AtWork => main.at \in DOMAIN Uids /\ Current \in Service
        BY <1>0, UidsAreServices DEF MainInv, Current
      <3> QED BY <1>0, <1>1, <1>3, <3>1, <3>2, <3>3, UidsAreServices DEF MainInv, AtWork, StartedBy, Current
    <2>2. CASE running[u][n] = "main"
      <3>1. main.pc = "running" /\ u = Current /\ n = main.op
        BY <1>0, <2>2 DEF MainInv
      <3>2. AtWork /\ n \in {"start", "stop"} /\ main.at \in DOMAIN Uids
        BY <1>0, <3>1 DEF MainInv, AtWork
      <3>3. /\ main'.op = main.op /\ main'.at = main.at
            /\ main'.pc = IF ok \/ main.op = "stop" THEN "ran" ELSE "failed"
        BY <2>2, <1>0 DEF ProcessEnds, ServicesTypeOK
      <3>4. Current' = Current
        BY <3>3 DEF Current
      <3>5. \A v \in Service, k \in Processes : running'[v][k] # "main"
        BY <1>0, <1>2, <3>1 DEF MainInv
      <3>6. \A i \in DOMAIN Uids : StartedBy(i)' => StartedBy(i)
        BY <3>3 DEF StartedBy
      <3>7. main'.pc = "failed" => lastFatalError'[Current']
        BY <1>3, <3>1, <3>2, <3>3, <3>4
      <3>8. main'.pc \in {"ran", "failed"}
        BY <3>3
      <3>9. state'[Current'] # "running"
        BY <1>0, <1>1, <3>1, <3>4 DEF MainInv
      <3> QED BY <1>0, <1>1, <1>3, <3>2, <3>3, <3>5, <3>6, <3>7, <3>8, <3>9, UidsAreServices DEF MainInv, AtWork
    <2> QED BY <2>1, <2>2
  <1> QED BY <1>7, <1>8, <1>9 DEF ServicesInv

\* A step of start() or stop() is at a service,
LEMMA AtAService ==
  ASSUME ServicesInv, main.pc \in {"service", "ran", "failed", "next"}
  PROVE  /\ main.at \in DOMAIN Uids /\ Current \in Service /\ AtWork
         /\ main.op \in {"start", "stop"}
         /\ \A v \in Service, k \in Processes : running[v][k] # "main"
         /\ \A i \in DOMAIN Uids : Uids[i] = Current => i = main.at
  BY UidsAreServices DEF ServicesInv, MainInv, AtWork, Current

\* and may run its start or its stop process, which is nobody's timer.
LEMMA MainRuns ==
  ASSUME ServicesInv, NEW u \in Service, NEW n \in {"start", "stop"}, RunProcess(u, n, "main")
  PROVE  /\ running' \in [Service -> [Processes -> {"none", "main", "timer", "event", "rest"}]]
         /\ \A v \in Service, k \in Processes : running'[v][k] =
              IF v = u /\ k = n /\ ~IsRunning(u, n) THEN "main" ELSE running[v][k]
  <1>1. n \in Processes /\ ServicesTypeOK
    BY DEF Processes, ServicesInv
  <1>2. running' = [running EXCEPT ![u][n] = IF IsRunning(u, n) THEN @ ELSE "main"]
    BY <1>1 DEF RunProcess, ServicesTypeOK
  <1> QED BY <1>1, <1>2 DEF ServicesTypeOK

\* What is left of the argument when nothing but start() or stop() moves.
LEMMA PeriodsFramed ==
  ASSUME ServicesInv, NEW u \in Service,
         state'[u] = state[u], instance'[u] = instance[u], stray'[u] = stray[u], trigger'[u] = trigger[u],
         overlapped => overlapped',
         \A k \in Processes : running'[u][k] = running[u][k]
                                \/ (k # "timer" /\ running'[u][k] = "main")
  PROVE  PeriodOf(u)'
  <1>1. PeriodOf(u) /\ running'[u]["timer"] = running[u]["timer"]
    BY DEF ServicesInv, Processes
  <1> QED BY <1>1 DEF PeriodOf

\* The start process is run.
LEMMA StartServiceKeeps ==
  ASSUME ServicesInv, StartService
  PROVE  ServicesInv'
  <1>1. main.op = "start" /\ main.pc = "service"
    BY DEF StartService
  <1>2. /\ main.at \in DOMAIN Uids /\ Current \in Service /\ AtWork
        /\ \A v \in Service, k \in Processes : running[v][k] # "main"
        /\ \A i \in DOMAIN Uids : Uids[i] = Current => i = main.at
    BY <1>1, AtAService
  <1>3. UNCHANGED <<lastFatalError, instance, stray, trigger, overlapped>>
    BY DEF StartService
  <1>4. ServicesTypeOK /\ MainInv
    BY DEF ServicesInv
  <1>5. CASE state[Current] # "idle"
    <2>1. main' = [main EXCEPT !.pc = "threw"] /\ UNCHANGED <<state, running>>
      BY <1>5 DEF StartService
    <2>2. main'.pc = "threw" /\ main'.op = "start"
      BY <2>1, <1>1, <1>4 DEF ServicesTypeOK
    <2>3. ServicesTypeOK'
      BY <1>3, <1>4, <2>1 DEF ServicesTypeOK
    <2>4. \A u \in Service : PeriodOf(u)'
      BY <1>3, <2>1, PeriodsFramed
    <2>5. MainInv'
      BY <1>2, <2>1, <2>2 DEF MainInv, AtWork
    <2> QED BY <2>3, <2>4, <2>5 DEF ServicesInv
  <1>6. CASE state[Current] = "idle"
    <2>1. /\ state' = [state EXCEPT ![Current] = "starting"]
          /\ RunProcess(Current, "start", "main")
          /\ main' = [main EXCEPT !.pc = IF IsRunning(Current, "start") THEN "ran" ELSE "running"]
      BY <1>6 DEF StartService
    <2>2. /\ running' \in [Service -> [Processes -> {"none", "main", "timer", "event", "rest"}]]
          /\ \A v \in Service, k \in Processes : running'[v][k] =
               IF v = Current /\ k = "start" /\ ~IsRunning(Current, "start") THEN "main" ELSE running[v][k]
      BY <1>2, <2>1, MainRuns
    <2>3. main'.op = "start" /\ main'.at = main.at /\ main' \in [op : {"none", "start", "stop"}, at : Nat,
               pc : {"ran", "running"}] /\ main'.pc = IF IsRunning(Current, "start") THEN "ran" ELSE "running"
      BY <2>1, <1>1, <1>4 DEF ServicesTypeOK
    <2>4. ServicesTypeOK'
      BY <1>2, <1>3, <1>4, <2>1, <2>2, <2>3 DEF ServicesTypeOK
    <2>5. ASSUME NEW u \in Service PROVE PeriodOf(u)'
      <3>1. CASE u # Current
        BY <3>1, <1>2, <1>3, <1>4, <2>1, <2>2, PeriodsFramed DEF ServicesTypeOK
      <3>2. CASE u = Current
        <4>1. PeriodOf(u) /\ state'[u] = "starting" /\ state[u] = "idle"
          BY <3>2, <1>2, <1>4, <1>6, <2>1 DEF ServicesInv, ServicesTypeOK
        <4>2. \A k \in Processes : running'[u][k] = "timer" => k = "timer"
          BY <4>1, <2>2 DEF PeriodOf
        <4>3. running'[u]["timer"] = running[u]["timer"]
          BY <2>2 DEF Processes
        <4> QED BY <4>1, <4>2, <4>3, <1>3 DEF PeriodOf
      <3> QED BY <3>1, <3>2
    <2>6. MainInv'
      <3>1. Current' = Current
        BY <2>3 DEF Current
      <3>2. \A v \in Service, k \in Processes : running'[v][k] = "main" => main'.pc = "running" /\ v = Current' /\ k = main'.op
        BY <1>2, <2>2, <2>3, <3>1
      <3>3. ASSUME NEW i \in DOMAIN Uids, StartedBy(i)'
            PROVE  state'[Uids[i]] = "running" \/ lastFatalError'[Uids[i]]
        <4>1. i < main.at /\ Uids[i] # Current /\ StartedBy(i)
          BY <3>3, <2>3, <1>2, <1>4, UidsAreServices DEF StartedBy, ServicesTypeOK
        <4>2. Uids[i] \in Service /\ state'[Uids[i]] = state[Uids[i]]
          BY <4>1, <2>1, <1>4, UidsAreServices DEF ServicesTypeOK
        <4> QED BY <4>1, <4>2, <1>1, <1>2, <1>3, <1>4 DEF MainInv
      <3>4. state'[Current'] = "starting"
        BY <1>2, <1>4, <2>1, <3>1 DEF ServicesTypeOK
      <3> QED BY <1>2, <2>3, <3>2, <3>3, <3>4 DEF MainInv, AtWork
    <2> QED BY <2>4, <2>5, <2>6 DEF ServicesInv
  <1> QED BY <1>5, <1>6

\* The service becomes active.
LEMMA ActivateKeeps ==
  ASSUME ServicesInv, Activate
  PROVE  ServicesInv'
  <1>1. main.op = "start" /\ main.pc = "ran"
    BY DEF Activate
  <1>2. /\ main.at \in DOMAIN Uids /\ Current \in Service /\ AtWork
        /\ \A v \in Service, k \in Processes : running[v][k] # "main"
        /\ \A i \in DOMAIN Uids : Uids[i] = Current => i = main.at
    BY <1>1, AtAService
  <1>3. UNCHANGED <<running, lastFatalError, stray>>
    BY DEF Activate
  <1>4. ServicesTypeOK /\ MainInv
    BY DEF ServicesInv
  <1>5. main'.op = "start" /\ main'.at = main.at /\ main'.pc = "next"
    BY <1>1, <1>4 DEF Activate, ServicesTypeOK
  <1>6. overlapped' \in BOOLEAN /\ (overlapped => overlapped')
        /\ (~overlapped' => running[Current]["timer"] # "timer" /\ ~(stray[Current] > 0))
    BY <1>4 DEF Activate, ServicesTypeOK
  <1>7. ServicesTypeOK'
    BY <1>2, <1>3, <1>4, <1>6 DEF ServicesTypeOK, Activate
  <1>8. ASSUME NEW u \in Service PROVE PeriodOf(u)'
    <2>1. CASE u # Current
      BY <2>1, <1>2, <1>3, <1>4, <1>6, PeriodsFramed DEF ServicesTypeOK, Activate
    <2>2. CASE u = Current
      <3>1. state'[u] = "running" /\ instance'[u] = "pending" /\ trigger'[u]
        BY <2>2, <1>2, <1>4 DEF Activate, ServicesTypeOK
      <3>2. PeriodOf(u)
        BY DEF ServicesInv
      <3> QED BY <2>2, <3>1, <3>2, <1>3, <1>6 DEF PeriodOf
    <2> QED BY <2>1, <2>2
  <1>9. MainInv'
    <2>1. ASSUME NEW i \in DOMAIN Uids, StartedBy(i)'
          PROVE  state'[Uids[i]] = "running" \/ lastFatalError'[Uids[i]]
      <3>1. CASE i = main.at
        BY <3>1, <1>2, <1>4 DEF Activate, ServicesTypeOK, Current
      <3>2. CASE i # main.at
        <4>1. i < main.at /\ StartedBy(i) /\ Uids[i] # Current /\ Uids[i] \in Service
          BY <3>2, <2>1, <1>2, <1>5, UidsAreServices DEF StartedBy
        <4>2. state'[Uids[i]] = state[Uids[i]]
          BY <4>1, <1>4 DEF Activate, ServicesTypeOK
        <4> QED BY <4>1, <4>2, <1>1, <1>2, <1>3, <1>4 DEF MainInv
      <3> QED BY <3>1, <3>2
    <2> QED BY <1>2, <1>3, <1>5, <2>1 DEF MainInv, AtWork
  <1> QED BY <1>7, <1>8, <1>9 DEF ServicesInv

\* Its start process failed.
LEMMA StartFailsKeeps ==
  ASSUME ServicesInv, StartFails
  PROVE  ServicesInv'
  <1>1. main.op = "start" /\ main.pc = "failed"
    BY DEF StartFails
  <1>2. /\ main.at \in DOMAIN Uids /\ Current \in Service /\ AtWork
        /\ \A v \in Service, k \in Processes : running[v][k] # "main"
        /\ \A i \in DOMAIN Uids : Uids[i] = Current => i = main.at
    BY <1>1, AtAService
  <1>3. UNCHANGED <<running, lastFatalError, instance, stray, trigger, overlapped>>
    BY DEF StartFails
  <1>4. ServicesTypeOK /\ MainInv
    BY DEF ServicesInv
  <1>5. main'.op = "start" /\ main'.at = main.at /\ main'.pc = "next"
    BY <1>1, <1>4 DEF StartFails, ServicesTypeOK
  <1>7. ServicesTypeOK'
    BY <1>2, <1>3, <1>4 DEF ServicesTypeOK, StartFails
  <1>8. ASSUME NEW u \in Service PROVE PeriodOf(u)'
    <2>1. CASE u # Current
      BY <2>1, <1>2, <1>3, <1>4, PeriodsFramed DEF ServicesTypeOK, StartFails
    <2>2. CASE u = Current
      <3>1. state'[u] = "error"
        BY <2>2, <1>2, <1>4 DEF StartFails, ServicesTypeOK
      <3>2. PeriodOf(u) /\ state[u] # "running"
        BY <2>2, <1>1, <1>4 DEF ServicesInv, MainInv
      <3> QED BY <2>2, <3>1, <3>2, <1>3 DEF PeriodOf
    <2> QED BY <2>1, <2>2
  <1>9. MainInv'
    <2>1. ASSUME NEW i \in DOMAIN Uids, StartedBy(i)'
          PROVE  state'[Uids[i]] = "running" \/ lastFatalError'[Uids[i]]
      <3>1. CASE i = main.at
        BY <3>1, <1>1, <1>3, <1>4 DEF MainInv, Current
      <3>2. CASE i # main.at
        <4>1. i < main.at /\ StartedBy(i) /\ Uids[i] # Current /\ Uids[i] \in Service
          BY <3>2, <2>1, <1>2, <1>5, UidsAreServices DEF StartedBy
        <4>2. state'[Uids[i]] = state[Uids[i]]
          BY <4>1, <1>4 DEF StartFails, ServicesTypeOK
        <4> QED BY <4>1, <4>2, <1>1, <1>2, <1>3, <1>4 DEF MainInv
      <3> QED BY <3>1, <3>2
    <2> QED BY <1>2, <1>3, <1>5, <2>1 DEF MainInv, AtWork
  <1> QED BY <1>7, <1>8, <1>9 DEF ServicesInv

\* The service is stopped: its timer is cleared, whatever a run that goes on does later.
LEMMA StopServiceKeepsInv ==
  ASSUME ServicesInv, StopService
  PROVE  ServicesInv'
  <1>1. main.op = "stop" /\ main.pc = "service"
    BY DEF StopService
  <1>2. /\ main.at \in DOMAIN Uids /\ Current \in Service /\ AtWork
        /\ \A v \in Service, k \in Processes : running[v][k] # "main"
    BY <1>1, AtAService
  <1>3. UNCHANGED <<lastFatalError, stray, overlapped>>
    BY DEF StopService
  <1>4. ServicesTypeOK /\ MainInv
    BY DEF ServicesInv
  <1>5. /\ \A v \in Service, k \in Processes : running'[v][k] =
             IF trigger[Current] /\ v = Current /\ k = "stop" /\ ~IsRunning(Current, "stop") THEN "main" ELSE running[v][k]
        /\ running' \in [Service -> [Processes -> {"none", "main", "timer", "event", "rest"}]]
    <2>1. CASE trigger[Current]
      BY <2>1, <1>2, MainRuns DEF StopService
    <2>2. CASE ~trigger[Current]
      BY <2>2, <1>4 DEF StopService, ServicesTypeOK
    <2> QED BY <2>1, <2>2
  <1>6. /\ main'.op = "stop" /\ main'.at = main.at
        /\ main'.pc = IF ~trigger[Current] THEN "threw" ELSE IF IsRunning(Current, "stop") THEN "ran" ELSE "running"
        /\ main' \in [op : {"none", "start", "stop"}, at : Nat, pc : {"ran", "running", "threw"}]
    BY <1>1, <1>4 DEF StopService, ServicesTypeOK
  <1>7. /\ trigger' \in [Service -> BOOLEAN] /\ instance' \in [Service -> {"absent", "pending", "fired"}]
        /\ state' = [state EXCEPT ![Current] = "stopping"]
        /\ \A v \in Service : v # Current => trigger'[v] = trigger[v] /\ instance'[v] = instance[v]
        /\ ~trigger'[Current]
        /\ trigger[Current] => instance'[Current] = "absent"
        /\ ~trigger[Current] => instance' = instance
    BY <1>2, <1>4 DEF StopService, ServicesTypeOK
  <1>8. ServicesTypeOK'
    BY <1>2, <1>3, <1>4, <1>5, <1>6, <1>7 DEF ServicesTypeOK
  <1>9. ASSUME NEW u \in Service PROVE PeriodOf(u)'
    <2>1. CASE u # Current
      BY <2>1, <1>2, <1>3, <1>4, <1>5, <1>7, PeriodsFramed DEF ServicesTypeOK
    <2>2. CASE u = Current
      <3>1. state'[u] = "stopping" /\ PeriodOf(u)
        BY <2>2, <1>2, <1>4, <1>7 DEF ServicesTypeOK, ServicesInv
      <3>2. running'[u]["timer"] = running[u]["timer"] /\ \A k \in Processes : running'[u][k] = "timer" => k = "timer"
        BY <1>5, <3>1 DEF PeriodOf, Processes
      <3>3. instance'[u] = "absent" \/ (instance'[u] = instance[u] /\ ~trigger[u])
        BY <2>2, <1>7
      <3> QED BY <2>2, <3>1, <3>2, <3>3, <1>3, <1>7 DEF PeriodOf
    <2> QED BY <2>1, <2>2
  <1>10. MainInv'
    <2>1. Current' = Current /\ state'[Current] = "stopping"
      BY <1>2, <1>4, <1>6, <1>7 DEF Current, ServicesTypeOK
    <2>2. \A v \in Service, k \in Processes : running'[v][k] = "main" => main'.pc = "running" /\ v = Current' /\ k = main'.op
      BY <1>2, <1>5, <1>6, <2>1
    <2> QED BY <1>2, <1>6, <2>1, <2>2 DEF MainInv, AtWork
  <1> QED BY <1>8, <1>9, <1>10 DEF ServicesInv

\* A service is deactivated.
LEMMA DeactivateKeeps ==
  ASSUME ServicesInv, Deactivate
  PROVE  ServicesInv'
  <1>1. main.op = "stop" /\ main.pc = "ran"
    BY DEF Deactivate
  <1>2. /\ main.at \in DOMAIN Uids /\ Current \in Service /\ AtWork
        /\ \A v \in Service, k \in Processes : running[v][k] # "main"
    BY <1>1, AtAService
  <1>3. UNCHANGED <<running, lastFatalError, instance, stray, trigger, overlapped>>
    BY DEF Deactivate
  <1>4. ServicesTypeOK /\ MainInv
    BY DEF ServicesInv
  <1>5. main'.op = "stop" /\ main'.at = main.at /\ main'.pc = "next"
    BY <1>1, <1>4 DEF Deactivate, ServicesTypeOK
  <1>6. ServicesTypeOK'
    BY <1>2, <1>3, <1>4 DEF ServicesTypeOK, Deactivate
  <1>7. ASSUME NEW u \in Service PROVE PeriodOf(u)'
    <2>1. CASE u # Current
      BY <2>1, <1>2, <1>3, <1>4, PeriodsFramed DEF ServicesTypeOK, Deactivate
    <2>2. CASE u = Current
      <3>1. state'[u] = "idle" /\ PeriodOf(u) /\ state[u] # "running"
        BY <2>2, <1>1, <1>2, <1>4 DEF Deactivate, ServicesTypeOK, ServicesInv, MainInv
      <3> QED BY <3>1, <1>3 DEF PeriodOf
    <2> QED BY <2>1, <2>2
  <1>8. MainInv'
    BY <1>2, <1>3, <1>5 DEF MainInv, AtWork
  <1> QED BY <1>6, <1>7, <1>8 DEF ServicesInv

\* The next service, or the end.
LEMMA NextServiceKeeps ==
  ASSUME ServicesInv, NextService
  PROVE  ServicesInv'
  <1>1. main.pc = "next" /\ UNCHANGED <<state, running, lastFatalError, instance, stray, trigger, overlapped>>
    BY DEF NextService
  <1>2. /\ main.at \in DOMAIN Uids /\ AtWork
        /\ \A v \in Service, k \in Processes : running[v][k] # "main"
    BY <1>1, AtAService
  <1>3. ServicesTypeOK /\ MainInv
    BY DEF ServicesInv
  <1> DEFINE Fatal == \E u \in Service : lastFatalError[u]
             next == main.at + 1
  <1>k. next \in Nat
    BY <1>3 DEF ServicesTypeOK
  <1>m. main' = IF main.at < Len(Uids) THEN [main EXCEPT !.at = next, !.pc = "service"]
                ELSE [main EXCEPT !.pc = IF Fatal THEN "threw" ELSE "returned"]
    BY <1>3 DEF NextService, ServicesTypeOK
  <1> HIDE DEF Fatal, next
  <1>l. /\ main'.op = main.op
        /\ main' \in [op : {"none", "start", "stop"}, at : Nat, pc : {"service", "returned", "threw"}]
        /\ IF main.at < Len(Uids) THEN main'.at = next /\ main'.pc = "service"
           ELSE /\ main'.at = main.at
                /\ main'.pc = IF Fatal THEN "threw" ELSE "returned"
    BY <1>k, <1>m, <1>3 DEF ServicesTypeOK
  <1>4. /\ main'.op = main.op
        /\ main' \in [op : {"none", "start", "stop"}, at : Nat, pc : {"service", "returned", "threw"}]
        /\ IF main.at < Len(Uids) THEN main'.at = main.at + 1 /\ main'.pc = "service"
           ELSE /\ main'.at = main.at
                /\ main'.pc = IF \E u \in Service : lastFatalError[u] THEN "threw" ELSE "returned"
    BY <1>l DEF Fatal, next
  <1>5. ServicesTypeOK'
    BY <1>1, <1>3, <1>4 DEF ServicesTypeOK
  <1>6. \A u \in Service : PeriodOf(u)'
    BY <1>1, PeriodsFramed
  <1>7. MainInv'
    <2>1. main'.pc = "service" => main'.at \in DOMAIN Uids
      BY <1>2, <1>4, UidsAreServices
    <2>2. \A i \in DOMAIN Uids : StartedBy(i)' => StartedBy(i)
      BY <1>1, <1>2, <1>4, UidsAreServices DEF StartedBy
    <2>3. ASSUME main.op = "start", main'.pc = "returned", NEW u \in Service
          PROVE  state[u] = "running"
      <3>1. PICK i \in DOMAIN Uids : u = Uids[i]
        BY UidsAreServices
      <3>2. ~(main.at < Len(Uids)) /\ ~lastFatalError[u]
        BY <2>3, <1>4
      <3>3. StartedBy(i)
        BY <3>2, <1>1, <1>2, UidsAreServices DEF StartedBy
      <3> QED BY <2>3, <3>1, <3>2, <3>3, <1>2, <1>3 DEF MainInv
    <2>4. main'.pc \in {"service", "returned", "threw"}
      BY <1>4
    <2> QED BY <1>1, <1>2, <1>3, <1>4, <2>1, <2>2, <2>3, <2>4 DEF MainInv, AtWork
  <1> QED BY <1>5, <1>6, <1>7 DEF ServicesInv

\* Every step of the services keeps their invariant.
LEMMA ServicesKeep ==
  ASSUME ServicesInv, ServicesStep
  PROVE  ServicesInv'
  <1>1. CASE MainStep
    BY <1>1, StartServiceKeeps, ActivateKeeps, StartFailsKeeps, StopServiceKeepsInv, DeactivateKeeps,
       NextServiceKeeps DEF MainStep
  <1>2. ASSUME NEW u \in Service, TimerFires(u) \/ StrayFires(u) \/ Event(u) PROVE ServicesInv'
    BY <1>2, RunsKeepServices
  <1>3. ASSUME NEW u \in Service, NEW n \in Processes, ProcessSettles(u, n) PROVE ServicesInv'
    BY <1>3, EndsKeepServices DEF ProcessSettles
  <1>4. ASSUME NEW u \in Service, NEW n \in ByRest, Manual(u, n) PROVE ServicesInv'
    BY <1>4, RunsKeepServices
  <1> QED BY <1>1, <1>2, <1>3, <1>4 DEF ServicesStep

-----------------------------------------------------------------------------
(* The requests and the websockets.                                         *)

\* One step of a request that is under way.
LEMMA RequestsKeep ==
  ASSUME HttpInv, NEW r \in Requests, Arrive(r) \/ HandleRequest(r)
  PROVE  HttpInv'
  <1>1. UNCHANGED <<web, socket, heartbeat>> /\ DOMAIN request = Requests /\ RequestInv(request[r])
    BY DEF Arrive, HandleRequest, Parse, Verify, Call, Respond, Stream, RestCatch, ServerCatch, ExpressCatch,
           RequestStep, HttpInv
  <1>2. ASSUME NEW q, RequestInv(q), request' = [request EXCEPT ![r] = q],
               web \in {"listening", "closingSockets", "closingServer"}
        PROVE  HttpInv'
    BY <1>1, <1>2 DEF HttpInv, SocketInv
  <1>3. CASE Arrive(r)
    BY <1>1, <1>2, <1>3 DEF Arrive, RequestStep, RequestInv, Request
  <1>4. CASE HandleRequest(r)
    <2>1. request[r].pc \notin {"none", "done"}
      BY <1>4 DEF HandleRequest, Parse, Verify, Call, Respond, Stream, RestCatch, ServerCatch, ExpressCatch,
                  RequestStep
    <2>2. web \in {"listening", "closingSockets", "closingServer"}
      BY <2>1 DEF HttpInv
    <2> DEFINE q0 == request[r]
    <2>3. \A level \in {"rest", "server", "express"}, error \in Errors : RequestInv(Throws(r, level, error))
      BY <1>1 DEF Throws, RequestInv, Request
    <2>4. q0.sent # "complete" => q0.answers = 0
      BY <1>1 DEF RequestInv, Request
    <2>5. q0.sent # "complete" => RequestInv(Sent(r))
      <3>1. SUFFICES ASSUME q0.answers = 0 PROVE RequestInv(Sent(r))
        BY <2>4
      <3>2. Sent(r) = [request[r] EXCEPT !.pc = "done", !.sent = "complete", !.answers = 1]
        BY <3>1, <1>1 DEF Sent, RequestInv, Request
      <3> QED BY <1>1, <3>2 DEF RequestInv, Request
    <2>6. \A level \in {"server", "express", "done"} : RequestInv(SendOrThrow(r, level))
      <3>1. RequestInv([request[r] EXCEPT !.pc = "done"])
        BY <1>1 DEF RequestInv, Request
      <3>2. "other" \in Errors
        BY DEF Errors
      <3> QED BY <2>3, <2>5, <3>1, <3>2 DEF SendOrThrow, Headers
    <2>o. "other" \in Errors
      BY DEF Errors
    <2>7. CASE Parse(r)
      <3>1. RequestInv([request[r] EXCEPT !.pc = "verify"])
        BY <1>1, <2>7 DEF Parse, RequestStep, RequestInv, Request
      <3> QED BY <2>2, <2>3, <2>o, <2>7, <3>1, <1>2 DEF Parse, RequestStep
    <2>8. CASE Verify(r)
      <3>1. RequestInv([request[r] EXCEPT !.pc = "call", !.session = TRUE])
        BY <1>1, <2>8 DEF Verify, RequestStep, RequestInv, Request
      <3> QED BY <2>2, <2>3, <2>8, <3>1, <1>2 DEF Verify, RequestStep
    <2>9. CASE Call(r)
      <3>1. RequestInv([request[r] EXCEPT !.pc = "respond"]) /\ q0.sent = "no"
        BY <1>1, <2>9 DEF Call, RequestStep, RequestInv, Request
      <3>2. ASSUME NEW e \in Errors
            PROVE  RequestInv([Throws(r, "rest", e) EXCEPT !.sent = "complete", !.answers = @ + 1])
        <4>1. q0.answers = 0
          BY <2>4, <3>1
        <4> DEFINE t == Throws(r, "rest", e)
        <4>2. t \in Request /\ t.answers = 0 /\ t.pc = "rest"
          BY <4>1, <1>1 DEF Throws, RequestInv, Request
        <4> HIDE DEF t
        <4>3. [t EXCEPT !.sent = "complete", !.answers = @ + 1] = [t EXCEPT !.sent = "complete", !.answers = 1]
          BY <4>2 DEF Request
        <4>4. RequestInv([t EXCEPT !.sent = "complete", !.answers = 1])
          BY <4>2 DEF RequestInv, Request
        <4> QED BY <4>3, <4>4 DEF t
      <3>3. PICK q \in Called(r) : request' = [request EXCEPT ![r] = q]
        BY <2>9 DEF Call, RequestStep
      <3>4. RequestInv(q)
        BY <2>3, <2>5, <3>1, <3>2, <3>3 DEF Called
      <3> QED BY <2>2, <3>3, <3>4, <1>2
    <2>10. CASE Respond(r)
      <3>1. RequestInv([request[r] EXCEPT !.pc = "stream", !.sent = "headers"]) /\ q0.sent = "no"
        BY <1>1, <2>10, <2>4 DEF Respond, RequestStep, RequestInv, Request
      <3> QED BY <2>2, <2>3, <2>o, <2>5, <2>10, <3>1, <1>2 DEF Respond, RequestStep
    <2>11. CASE Stream(r)
      <3>1. RequestInv([request[r] EXCEPT !.pc = "done"]) /\ q0.sent = "headers"
        BY <1>1, <2>11 DEF Stream, RequestStep, RequestInv, Request
      <3> QED BY <2>2, <2>3, <2>o, <2>5, <2>11, <3>1, <1>2 DEF Stream, RequestStep
    <2>12. CASE RestCatch(r)
      BY <2>2, <2>6, <2>12, <1>2 DEF RestCatch, RequestStep
    <2>13. CASE ServerCatch(r)
      BY <2>2, <2>3, <2>o, <2>6, <2>13, <1>2 DEF ServerCatch, RequestStep
    <2>14. CASE ExpressCatch(r)
      BY <2>2, <2>6, <2>14, <1>2 DEF ExpressCatch, RequestStep
    <2> QED BY <1>4, <2>7, <2>8, <2>9, <2>10, <2>11, <2>12, <2>13, <2>14 DEF HandleRequest
  <1> QED BY <1>3, <1>4

\* The server itself.
LEMMA WebKeeps ==
  ASSUME HttpInv, WebStart \/ WebStop \/ WebSocketsClosed \/ WebClosed
  PROVE  HttpInv'
  <1>1. CASE WebStart
    BY <1>1 DEF WebStart, WebListen, HttpInv, SocketInv
  <1>2. CASE WebStop
    <2>1. \A s \in Sockets : SocketInv(s)'
      BY <1>2 DEF WebStop, HttpInv, SocketInv
    <2> QED BY <1>2, <2>1 DEF WebStop, HttpInv
  <1>3. CASE WebSocketsClosed \/ WebClosed
    BY <1>3 DEF WebSocketsClosed, WebClosed, HttpInv, SocketInv
  <1> QED BY <1>1, <1>2, <1>3

\* The websockets: one is terminated only when it was asked and did not answer.
LEMMA SocketsKeep ==
  ASSUME HttpInv, SocketNext
  PROVE  HttpInv' /\ UNCHANGED <<web, request>>
  <1>1. UNCHANGED <<web, request>> /\ DOMAIN socket = Sockets
    BY DEF SocketNext, Upgrade, Pong, SocketCloses, Terminated, Heartbeat, SocketStep, HttpInv
  <1>2. DOMAIN socket' = Sockets
    BY <1>1 DEF SocketNext, Upgrade, Pong, SocketCloses, Terminated, Heartbeat, SocketStep
  <1>3. ASSUME NEW s \in Sockets PROVE SocketInv(s)'
    <2>1. SocketInv(s)
      BY DEF HttpInv
    <2>2. ASSUME NEW t \in Sockets, Upgrade(t) \/ Pong(t) \/ SocketCloses(t) \/ Terminated(t)
          PROVE  SocketInv(s)'
      <3>1. CASE s # t
        BY <2>1, <2>2, <3>1, <1>1 DEF Upgrade, Pong, SocketCloses, Terminated, SocketStep, SocketInv
      <3>2. CASE s = t /\ Upgrade(t)
        <4>1. PICK pc \in {"open", "closing", "closed"} :
                SocketStep(t, [pc |-> pc, alive |-> (pc = "open"), pinged |-> FALSE])
          BY <3>2 DEF Upgrade
        <4>2. socket'[s].pc = pc /\ socket'[s].alive = (pc = "open")
          BY <4>1, <3>2, <1>1 DEF SocketStep
        <4> QED BY <4>2 DEF SocketInv
      <3>3. CASE s = t /\ Pong(t)
        <4>1. socket'[s] = [socket[s] EXCEPT !.alive = TRUE, !.pinged = FALSE]
          BY <3>3, <1>1 DEF Pong, SocketStep
        <4> QED BY <2>1, <4>1 DEF SocketInv
      <3>4. CASE s = t /\ (SocketCloses(t) \/ Terminated(t))
        <4>1. socket'[s] = [socket[s] EXCEPT !.pc = "closed"]
          BY <3>4, <1>1 DEF SocketCloses, Terminated, SocketStep
        <4> QED BY <2>1, <4>1 DEF SocketInv
      <3> QED BY <2>2, <3>1, <3>2, <3>3, <3>4
    <2>3. CASE Heartbeat
      <3>1. socket'[s] = Beat(socket[s]) /\ (s \in Responsive => ~(socket[s].pc = "open" /\ socket[s].pinged))
        BY <2>3 DEF Heartbeat
      <3> QED BY <2>1, <3>1 DEF SocketInv, Beat
    <2> QED BY <2>2, <2>3 DEF SocketNext
  <1> QED BY <1>1, <1>2, <1>3 DEF HttpInv

-----------------------------------------------------------------------------
(* The backend: it listens last and has answered everything before it stops *)
(* its services.                                                            *)

\* The backend starts with nothing running.
LEMMA BackendStarts == BackendInit => BackendInv
  <1> SUFFICES ASSUME BackendInit PROVE BackendInv
    OBVIOUS
  <1>1. ServicesInv
    BY ServicesStart DEF BackendInit
  <1>2. HttpInv
    BY DEF BackendInit, HttpInit, HttpInv, RequestInv, Request, SocketInv
  <1>3. LifeInv
    BY DEF BackendInit, HttpInit, LifeInv
  <1> QED BY <1>1, <1>2, <1>3 DEF BackendInv

\* A step that leaves the services or the server alone keeps what is known of them.
LEMMA ServicesFramed ==
  ASSUME ServicesInv, UNCHANGED servicesVars
  PROVE  ServicesInv'
  BY DEF ServicesInv, servicesVars, ServicesTypeOK, PeriodOf, MainInv, AtWork, StartedBy, Current

\* The requests and the websockets, when a step leaves them alone.
LEMMA HttpFramed ==
  ASSUME HttpInv, UNCHANGED httpVars
  PROVE  HttpInv'
  BY DEF HttpInv, httpVars, SocketInv

\* Every step of the backend and of its websockets keeps the invariant,
LEMMA BackendKeeps ==
  ASSUME BackendInv, [OpenBackendNext]_backendVars
  PROVE  BackendInv'
  <1>0. ServicesInv /\ HttpInv /\ LifeInv
    BY DEF BackendInv
  <1>1. CASE BackendStart
    <2>1. ServicesInv' /\ HttpInv'
      BY <1>0, <1>1, CallsKeepServices, HttpFramed DEF BackendStart
    <2>2. backend \in {"setup", "stopped"} /\ backend' = "startServices" /\ main'.op = "start" /\ web' = web
      BY <1>1 DEF BackendStart, CallStart, httpVars
    <2>3. LifeInv'
      BY <1>0, <2>2 DEF LifeInv
    <2> QED BY <2>1, <2>3 DEF BackendInv
  <1>2. CASE BackendStop
    <2>1. ServicesInv' /\ HttpInv'
      BY <1>0, <1>2, ServicesFramed, WebKeeps DEF BackendStop
    <2>2. LifeInv'
      BY <1>0, <1>2 DEF LifeInv, BackendStop, servicesVars, ServicesRun
    <2> QED BY <2>1, <2>2 DEF BackendInv
  <1>3. CASE ServicesStarted \/ StatisticsStart \/ SignalsInstalled \/ ServicesStopped
    <2>1. ServicesInv' /\ HttpInv'
      BY <1>0, <1>3, ServicesFramed, HttpFramed
         DEF ServicesStarted, StatisticsStart, SignalsInstalled, ServicesStopped, Local
    <2>2. UNCHANGED <<main, web>>
      BY <1>3 DEF ServicesStarted, StatisticsStart, SignalsInstalled, ServicesStopped, Local, servicesVars, httpVars
    <2>3. LifeInv'
      BY <1>0, <1>3, <2>2
         DEF LifeInv, ServicesRun, ServicesStarted, StatisticsStart, SignalsInstalled, ServicesStopped
    <2> QED BY <2>1, <2>3 DEF BackendInv
  <1>4. CASE BackendListens
    <2>1. ServicesInv' /\ HttpInv'
      BY <1>0, <1>4, ServicesFramed, WebKeeps DEF BackendListens
    <2>2. LifeInv'
      BY <1>0, <1>4 DEF LifeInv, BackendListens, servicesVars, ServicesRun
    <2> QED BY <2>1, <2>2 DEF BackendInv
  <1>5. CASE WebStopped
    <2>1. ServicesInv' /\ HttpInv'
      BY <1>0, <1>5, CallsKeepServices, HttpFramed DEF WebStopped
    <2>2. LifeInv'
      BY <1>0, <1>5 DEF LifeInv, WebStopped, httpVars
    <2> QED BY <2>1, <2>2 DEF BackendInv
  <1>6. CASE ServicesStep /\ UNCHANGED <<httpVars, backend, statistics, signals>>
    <2>1. ServicesInv' /\ HttpInv'
      BY <1>0, <1>6, ServicesKeep, HttpFramed
    <2>2. main'.op = main.op /\ (main.pc = "returned" => main' = main)
      <3>1. main \in [op : {"none", "start", "stop"}, at : Nat,
                      pc : {"returned", "service", "running", "ran", "failed", "next", "threw"}]
        BY <1>0 DEF ServicesInv, ServicesTypeOK
      <3>2. CASE MainStep
        BY <3>1, <3>2 DEF MainStep, StartService, Activate, StartFails, StopService, Deactivate, NextService
      <3>3. ASSUME NEW u \in Service, NEW n \in Processes, NEW ok \in BOOLEAN, ProcessEnds(u, n, ok)
            PROVE  main'.op = main.op /\ (main.pc = "returned" => main' = main)
        BY <3>1, <3>3, <1>0 DEF ProcessEnds, ServicesInv, MainInv
      <3>4. CASE ~MainStep /\ ~\E u \in Service, n \in Processes : ProcessSettles(u, n)
        BY <3>4, <1>6 DEF ServicesStep, TimerFires, StrayFires, Event, Manual
      <3> QED BY <3>2, <3>3, <3>4 DEF ProcessSettles
    <2>3. LifeInv'
      BY <1>0, <1>6, <2>2 DEF LifeInv, ServicesRun, httpVars
    <2> QED BY <2>1, <2>3 DEF BackendInv
  <1>7. CASE RequestNext /\ UNCHANGED <<servicesVars, backend, statistics, signals>>
    <2>1. ServicesInv' /\ HttpInv'
      BY <1>0, <1>7, ServicesFramed, RequestsKeep, WebKeeps DEF RequestNext
    <2>2. web' = web \/ web \in {"closingSockets", "closingServer"}
      BY <1>7 DEF RequestNext, WebSocketsClosed, WebClosed, Arrive, HandleRequest, Parse, Verify, Call, Respond,
                  Stream, RestCatch, ServerCatch, ExpressCatch, RequestStep
    <2>3. LifeInv'
      BY <1>0, <1>7, <2>2 DEF LifeInv, ServicesRun, servicesVars
    <2> QED BY <2>1, <2>3 DEF BackendInv
  <1>8. CASE SocketNext /\ UNCHANGED <<servicesVars, backend, statistics, signals>>
    <2>1. ServicesInv' /\ HttpInv' /\ web' = web
      BY <1>0, <1>8, ServicesFramed, SocketsKeep
    <2>2. LifeInv'
      BY <1>0, <1>8, <2>1 DEF LifeInv, ServicesRun, servicesVars
    <2> QED BY <2>1, <2>2 DEF BackendInv
  <1>9. CASE UNCHANGED backendVars
    <2>1. ServicesInv' /\ HttpInv'
      BY <1>0, <1>9, ServicesFramed, HttpFramed DEF backendVars
    <2>2. LifeInv'
      BY <1>0, <1>9 DEF LifeInv, backendVars, servicesVars, httpVars, ServicesRun
    <2> QED BY <2>1, <2>2 DEF BackendInv
  <1> QED
    BY <1>1, <1>2, <1>3, <1>4, <1>5, <1>6, <1>7, <1>8, <1>9 DEF OpenBackendNext, BackendNext, BackendStep

\* which implies what the run checks.
LEMMA BackendInvIsSafe == BackendInv => BackendSafe
  <1> SUFFICES ASSUME BackendInv PROVE BackendSafe
    OBVIOUS
  <1>0. ServicesInv /\ HttpInv /\ LifeInv
    BY DEF BackendInv
  <1>1. PeriodicRunAlive
    <2> SUFFICES ASSUME NEW u \in Service, state[u] = "running"
                 PROVE  instance[u] = "pending" \/ running[u]["timer"] = "timer"
      BY DEF PeriodicRunAlive
    <2>1. PeriodOf(u) /\ instance[u] \in {"absent", "pending", "fired"}
      BY <1>0 DEF ServicesInv, ServicesTypeOK
    <2> QED BY <2>1 DEF PeriodOf
  <1>2. StoppedIsQuiet
    BY <1>0 DEF StoppedIsQuiet, ServicesInv, PeriodOf
  <1>3. AnsweredOnce
    BY <1>0 DEF AnsweredOnce, HttpInv, RequestInv, Request
  <1>4. LiveNotTerminated
    BY <1>0, HttpServerAssumption DEF LiveNotTerminated, HttpInv, SocketInv
  <1>5. ServedWhileRunning
    BY <1>0 DEF ServedWhileRunning, HttpInv, LifeInv, ServicesRun, ServicesInv, MainInv
  <1> QED BY <1>1, <1>2, <1>3, <1>4, <1>5 DEF BackendSafe

\* A service that runs has its timer or a run that sets it again and one that was stopped has neither; a
\* request is answered once, and only while every service runs; the heartbeat terminates only clients that
\* do not answer: with requests and websockets at the same time.
THEOREM OpenBackendIsSafe == OpenBackendSpec => []BackendSafe
  <1>1. BackendInv /\ [OpenBackendNext]_backendVars => BackendInv'
    BY BackendKeeps
  <1> QED BY <1>1, BackendStarts, BackendInvIsSafe, PTL DEF OpenBackendSpec

\* The same of the backend that the run explores.
THEOREM BackendIsSafe == BackendSpec => []BackendSafe
  <1>1. BackendInv /\ [BackendNext]_backendVars => BackendInv'
    BY BackendKeeps DEF OpenBackendNext
  <1> QED BY <1>1, BackendStarts, BackendInvIsSafe, PTL DEF BackendSpec

-----------------------------------------------------------------------------
(* The task manager.  The argument starts with the binary search, whose     *)
(* loop is a recursive function of the window that is left: it finds the    *)
(* place that keeps a sorted queue sorted.  The synchronous code works on a *)
(* state record; what holds of it is Good(st, X), where X are the tasks     *)
(* that are registered and in no queue: the one that is executed and,       *)
(* within a step, the one that register() or the scheduler has in hand.     *)
-----------------------------------------------------------------------------
(* The binary search.                                                       *)

\* The smallest element of a set of numbers, which Min is.
LEMMA MinIsIn ==
  ASSUME NEW T \in SUBSET Nat, T # {}
  PROVE  Min(T) \in T /\ \A y \in T : Min(T) <= y
  <1>1. PICK x \in T : \A y \in T : ~(<<y, x>> \in OpToRel(<, Nat))
    BY WFMin, NatLessThanWellFounded
  <1>2. \A y \in T : x <= y
    <2> SUFFICES ASSUME NEW y \in T, y < x PROVE FALSE
      OBVIOUS
    <2>1. <<y, x>> \in Nat \X Nat /\ <<y, x>>[1] = y /\ <<y, x>>[2] = x
      OBVIOUS
    <2> QED BY <1>1, <2>1, Zenon DEF OpToRel
  <1> QED BY <1>2 DEF Min

\* Every set of numbers that is not empty has a smallest element.
LEMMA Smallest ==
  ASSUME NEW T \in SUBSET Nat, T # {}
  PROVE  \E x \in T : \A y \in T : x <= y
  BY MinIsIn

\* One turn of the loop: what the search returns from a window, when rest says what it returns from the
\* others.
Turn(due, ts, rest, w) ==
  IF w.min > w.max THEN w.current
  ELSE LET mid == (w.min + w.max) \div 2 IN
       CASE due[mid + 1] < ts -> rest[[w EXCEPT !.min = mid + 1, !.current = mid]]
         [] due[mid + 1] > ts -> rest[[w EXCEPT !.max = mid - 1, !.current = mid]]
         [] OTHER -> mid
WindowSize(w) == w.max - w.min + 1
TurnsUpTo(due, ts, f, k) ==
  \A w \in SearchWindow(Len(due)) : WindowSize(w) <= k => f[w] = Turn(due, ts, f, w)

\* The index in the middle of a window is in it.
LEMMA Middle ==
  ASSUME NEW a \in Nat, NEW b \in Int, a <= b
  PROVE  (a + b) \div 2 \in a .. b
  OBVIOUS

\* The size of a window is a number.
LEMMA SizeIsInt ==
  ASSUME NEW n \in Nat
  PROVE  \A v \in SearchWindow(n) : WindowSize(v) \in Int
  BY DEF SearchWindow, WindowSize

\* A turn of the loop leaves a smaller window, or ends.
LEMMA Narrower ==
  ASSUME NEW n \in Nat, NEW w \in SearchWindow(n), w.min <= w.max
  PROVE  LET mid == (w.min + w.max) \div 2
             right == [w EXCEPT !.min = mid + 1, !.current = mid]
             left == [w EXCEPT !.max = mid - 1, !.current = mid]
         IN  /\ mid \in w.min .. w.max /\ mid \in 0 .. n - 1
             /\ right \in SearchWindow(n) /\ WindowSize(right) < WindowSize(w)
             /\ left \in SearchWindow(n) /\ WindowSize(left) < WindowSize(w)
             /\ right.min = mid + 1 /\ right.max = w.max /\ right.current = mid
             /\ left.min = w.min /\ left.max = mid - 1 /\ left.current = mid
  <1> DEFINE mid == (w.min + w.max) \div 2
             right == [w EXCEPT !.min = mid + 1, !.current = mid]
             left == [w EXCEPT !.max = mid - 1, !.current = mid]
  <1>1. w.min \in 0 .. n /\ w.max \in -1 .. n - 1 /\ w.current \in 0 .. n
    BY DEF SearchWindow
  <1>2. mid \in w.min .. w.max
    BY <1>1, Middle
  <1> HIDE DEF mid
  <1>3. mid \in 0 .. n - 1 /\ mid + 1 \in 0 .. n /\ mid - 1 \in -1 .. n - 1 /\ mid \in 0 .. n
    BY <1>1, <1>2
  <1>4. right.min = mid + 1 /\ right.max = w.max /\ right.current = mid
    BY DEF SearchWindow
  <1>5. left.min = w.min /\ left.max = mid - 1 /\ left.current = mid
    BY DEF SearchWindow
  <1>6. right \in SearchWindow(n) /\ left \in SearchWindow(n)
    BY <1>3 DEF SearchWindow
  <1> HIDE DEF right, left
  <1>7. WindowSize(right) < WindowSize(w) /\ WindowSize(left) < WindowSize(w)
    BY <1>1, <1>2, <1>3, <1>4, <1>5 DEF WindowSize
  <1> QED
    BY <1>2, <1>3, <1>4, <1>5, <1>6, <1>7 DEF mid, right, left

\* The loop is a function: for windows of any size there is one that agrees with its turns.
LEMMA LoopIsFunction ==
  ASSUME NEW due, NEW ts, Len(due) \in Nat
  PROVE  \A k \in Nat : \E f : TurnsUpTo(due, ts, f, k)
  <1> DEFINE n == Len(due)
             Fails == {k \in Nat : ~ \E f : TurnsUpTo(due, ts, f, k)}
  <1> SUFFICES ASSUME Fails # {} PROVE FALSE
    OBVIOUS
  <1>1. PICK k \in Fails : \A m \in Fails : k <= m
    BY Smallest
  <1>2. PICK g : k # 0 => TurnsUpTo(due, ts, g, k - 1)
    BY <1>1
  <1> DEFINE f == [w \in SearchWindow(n) |-> Turn(due, ts, g, w)]
  <1>3. ASSUME NEW w \in SearchWindow(n), WindowSize(w) <= k
        PROVE  f[w] = Turn(due, ts, f, w)
    <2> DEFINE mid == (w.min + w.max) \div 2
               right == [w EXCEPT !.min = mid + 1, !.current = mid]
               left == [w EXCEPT !.max = mid - 1, !.current = mid]
    <2>1. f[w] = Turn(due, ts, g, w)
      BY <1>3
    <2>2. CASE w.min > w.max
      BY <2>1, <2>2 DEF Turn
    <2>3. CASE ~(w.min > w.max)
      <3>1. w.min \in Nat /\ w.max \in Int
        BY <1>3 DEF SearchWindow
      <3>2. w.min <= w.max
        BY <2>3, <3>1
      <3>3. /\ right \in SearchWindow(n) /\ WindowSize(right) < WindowSize(w)
            /\ left \in SearchWindow(n) /\ WindowSize(left) < WindowSize(w)
        BY <1>3, <3>2, Narrower
      <3>h. \A r : Turn(due, ts, r, w) = CASE due[mid + 1] < ts -> r[right]
                                         [] due[mid + 1] > ts -> r[left]
                                         [] OTHER -> mid
        BY <2>3, Zenon DEF Turn
      <3> HIDE DEF right, left
      <3>4. WindowSize(w) \in Int /\ WindowSize(right) \in Int /\ WindowSize(left) \in Int
        BY <1>3, <3>3, SizeIsInt
      <3>k. WindowSize(w) >= 1
        BY <1>3, <3>1, <3>2 DEF WindowSize
      <3>5. TurnsUpTo(due, ts, g, k - 1) /\ WindowSize(right) <= k - 1 /\ WindowSize(left) <= k - 1
        BY <1>2, <1>3, <3>3, <3>4, <3>k
      <3>6. g[right] = Turn(due, ts, g, right) /\ g[left] = Turn(due, ts, g, left)
        BY <3>3, <3>5 DEF TurnsUpTo
      <3>7. f[right] = g[right] /\ f[left] = g[left]
        BY <3>3, <3>6
      <3> HIDE DEF f
      <3>8. Turn(due, ts, f, w) = Turn(due, ts, g, w)
        BY <3>7, <3>h
      <3> QED BY <2>1, <3>8
    <2> QED BY <2>2, <2>3
  <1>4. TurnsUpTo(due, ts, f, k)
    BY <1>3 DEF TurnsUpTo
  <1> QED BY <1>1, <1>4

\* Search is that function, on the window that is the whole queue.
LEMMA SearchIsLoop ==
  ASSUME NEW due, NEW ts, Len(due) \in Nat
  PROVE  \E f : /\ \A w \in SearchWindow(Len(due)) : f[w] = Turn(due, ts, f, w)
                /\ Search(due, ts) = f[[min |-> 0, max |-> Len(due) - 1, current |-> 0]]
  <1> DEFINE n == Len(due)
             Body(f) == [w \in SearchWindow(n) |-> Turn(due, ts, f, w)]
             Look == CHOOSE f : f = Body(f)
             start == [min |-> 0, max |-> n - 1, current |-> 0]
  <1>1. \E f : f = Body(f)
    <2>1. PICK g : TurnsUpTo(due, ts, g, n)
      BY LoopIsFunction
    <2>2. \A w \in SearchWindow(n) : WindowSize(w) <= n
      BY DEF SearchWindow, WindowSize
    <2>3. \A w \in SearchWindow(n) : g[w] = Turn(due, ts, g, w)
      BY <2>1, <2>2 DEF TurnsUpTo
    <2> DEFINE f == [w \in SearchWindow(n) |-> g[w]]
    <2>4. ASSUME NEW w \in SearchWindow(n) PROVE f[w] = Turn(due, ts, f, w)
      <3> DEFINE mid == (w.min + w.max) \div 2
                 right == [w EXCEPT !.min = mid + 1, !.current = mid]
                 left == [w EXCEPT !.max = mid - 1, !.current = mid]
      <3>1. CASE w.min > w.max
        BY <2>3, <3>1 DEF Turn
      <3>2. CASE ~(w.min > w.max)
        <4>1. w.min <= w.max
          BY <3>2 DEF SearchWindow
        <4>2. right \in SearchWindow(n) /\ left \in SearchWindow(n)
          BY <4>1, Narrower
        <4>3. \A r : Turn(due, ts, r, w) = CASE due[mid + 1] < ts -> r[right]
                                             [] due[mid + 1] > ts -> r[left]
                                             [] OTHER -> mid
          BY <3>2, Zenon DEF Turn
        <4>4. f[w] = g[w] /\ f[right] = g[right] /\ f[left] = g[left]
          BY <4>2
        <4> HIDE DEF f, right, left, mid
        <4> QED BY <2>3, <4>3, <4>4
      <3> QED BY <3>1, <3>2
    <2> HIDE DEF f
    <2>5. f = Body(f)
      <3>1. f = [w \in SearchWindow(n) |-> f[w]]
        BY DEF f
      <3> QED BY <2>4, <3>1
    <2> QED BY <2>5
  <1>2. Look = Body(Look)
    <2> HIDE DEF Body
    <2> QED BY <1>1
  <1>3. Search(due, ts) = Look[start]
    BY DEF Search, Turn
  <1>4. \A w \in SearchWindow(n) : Look[w] = Turn(due, ts, Look, w)
    <2> HIDE DEF Look
    <2>1. \A w \in SearchWindow(n) : Body(Look)[w] = Turn(due, ts, Look, w)
      OBVIOUS
    <2> QED BY <1>2, <2>1
  <1> QED BY <1>3, <1>4

\* A queue is sorted by the time its tasks are due.
Ascends(due) == \A i, j \in DOMAIN due : i < j => due[i] <= due[j]

\* Where the search ends: at an entry with the time that is looked for, at the last one that is due before it,
\* or at the first one that is due after it.
Found(due, ts, r) ==
  \/ r \in 0 .. Len(due) - 1 /\ due[r + 1] = ts
  \/ /\ r \in 0 .. Len(due) - 1
     /\ \A j \in 1 .. r + 1 : due[j] < ts
     /\ \A j \in r + 2 .. Len(due) : due[j] > ts
  \/ /\ r \in 0 .. Len(due)
     /\ \A j \in 1 .. r : due[j] < ts
     /\ \A j \in r + 1 .. Len(due) : due[j] > ts

\* What the loop knows of a window.
Searched(due, ts, w) ==
  /\ w.min <= w.max + 1
  /\ \A j \in 1 .. w.min : due[j] < ts
  /\ \A j \in w.max + 2 .. Len(due) : due[j] > ts
  /\ \/ w.min = 0 /\ w.max = Len(due) - 1 /\ w.current = 0
     \/ w.current = w.min - 1
     \/ w.current = w.max + 1

\* The loop ends at such an entry, from every window that it may reach.
LEMMA LoopFinds ==
  ASSUME NEW due \in Seq(Nat), NEW ts \in Nat, Ascends(due),
         NEW f, \A w \in SearchWindow(Len(due)) : f[w] = Turn(due, ts, f, w)
  PROVE  \A w \in SearchWindow(Len(due)) : Searched(due, ts, w) => Found(due, ts, f[w])
  <1> DEFINE n == Len(due)
             Misses(w) == Searched(due, ts, w) /\ ~Found(due, ts, f[w])
             Sizes == {WindowSize(w) : w \in {v \in SearchWindow(n) : Misses(v)}}
  <1> SUFFICES ASSUME Sizes # {} PROVE FALSE
    OBVIOUS
  <1>0. n \in Nat /\ DOMAIN due = 1 .. n /\ \A j \in 1 .. n : due[j] \in Nat
    BY LenProperties, ElementOfSeq
  <1>1. \A w \in SearchWindow(n) : Searched(due, ts, w) => WindowSize(w) \in Nat
    BY <1>0 DEF SearchWindow, Searched, WindowSize
  <1>2. PICK w \in SearchWindow(n) :
          Misses(w) /\ \A v \in SearchWindow(n) : Misses(v) => WindowSize(w) <= WindowSize(v)
    <2>1. Sizes \in SUBSET Nat
      BY <1>1
    <2>2. PICK k \in Sizes : \A m \in Sizes : k <= m
      BY <2>1, Smallest
    <2> QED BY <2>2
  <1> DEFINE mid == (w.min + w.max) \div 2
             right == [w EXCEPT !.min = mid + 1, !.current = mid]
             left == [w EXCEPT !.max = mid - 1, !.current = mid]
  <1>3. w.min \in 0 .. n /\ w.max \in -1 .. n - 1 /\ w.current \in 0 .. n
    BY <1>0, <1>2 DEF SearchWindow
  <1>4. CASE w.min > w.max
    <2>1. f[w] = w.current
      BY <1>2, <1>4 DEF Turn
    <2>2. w.min = w.max + 1 /\ Searched(due, ts, w)
      BY <1>2, <1>3, <1>4 DEF Searched
    <2>3. Found(due, ts, w.current)
      <3>1. CASE w.min = 0 /\ w.max = n - 1 /\ w.current = 0
        BY <1>0, <2>2, <3>1 DEF Found
      <3>2. CASE w.current = w.min - 1
        <4>1. w.current \in 0 .. n - 1 /\ w.current + 1 = w.min /\ w.current + 2 = w.max + 2
          BY <1>0, <1>3, <2>2, <3>2
        <4> QED BY <2>2, <4>1 DEF Searched, Found
      <3>3. CASE w.current = w.max + 1
        <4>1. w.current = w.min /\ w.current + 1 = w.max + 2
          BY <1>3, <2>2, <3>3
        <4> QED BY <1>3, <2>2, <4>1 DEF Searched, Found
      <3> QED BY <2>2, <3>1, <3>2, <3>3 DEF Searched
    <2> QED BY <1>2, <2>1, <2>3
  <1>5. CASE ~(w.min > w.max)
    <2>1. w.min <= w.max
      BY <1>3, <1>5
    <2>2. /\ mid \in w.min .. w.max /\ mid \in 0 .. n - 1
          /\ right \in SearchWindow(n) /\ WindowSize(right) < WindowSize(w)
          /\ left \in SearchWindow(n) /\ WindowSize(left) < WindowSize(w)
          /\ right.min = mid + 1 /\ right.max = w.max /\ right.current = mid
          /\ left.min = w.min /\ left.max = mid - 1 /\ left.current = mid
      BY <1>0, <1>2, <2>1, Narrower
    <2>3. f[w] = CASE due[mid + 1] < ts -> f[right] [] due[mid + 1] > ts -> f[left] [] OTHER -> mid
      BY <1>2, <1>5, Zenon DEF Turn
    <2> HIDE DEF mid, right, left
    <2>4. WindowSize(w) \in Int /\ WindowSize(right) \in Int /\ WindowSize(left) \in Int
      BY <1>0, <1>2, <2>2, SizeIsInt
    <2>5. ~Misses(right) /\ ~Misses(left)
      BY <1>2, <2>2, <2>4
    <2>6. mid + 1 \in 1 .. n /\ due[mid + 1] \in Nat
      BY <1>0, <2>2
    <2>7. CASE due[mid + 1] < ts
      <3>1. \A j \in 1 .. mid + 1 : due[j] < ts
        <4> SUFFICES ASSUME NEW j \in 1 .. mid + 1 PROVE due[j] < ts
          OBVIOUS
        <4>1. j \in 1 .. n /\ (j = mid + 1 \/ j < mid + 1)
          BY <1>0, <2>2
        <4>2. j < mid + 1 => due[j] <= due[mid + 1]
          BY <1>0, <2>6, <4>1 DEF Ascends
        <4>3. due[j] \in Nat
          BY <1>0, <4>1
        <4> QED BY <2>6, <2>7, <4>1, <4>2, <4>3
      <3>2. Searched(due, ts, right)
        BY <1>2, <1>3, <2>2, <3>1 DEF Searched
      <3>3. f[w] = f[right]
        BY <2>3, <2>6, <2>7
      <3> QED BY <1>2, <2>5, <3>2, <3>3
    <2>8. CASE due[mid + 1] > ts
      <3>1. \A j \in mid + 1 .. n : due[j] > ts
        <4> SUFFICES ASSUME NEW j \in mid + 1 .. n PROVE due[j] > ts
          OBVIOUS
        <4>1. j \in 1 .. n /\ (j = mid + 1 \/ mid + 1 < j)
          BY <1>0, <2>2
        <4>2. mid + 1 < j => due[mid + 1] <= due[j]
          BY <1>0, <2>6, <4>1 DEF Ascends
        <4>3. due[j] \in Nat
          BY <1>0, <4>1
        <4> QED BY <2>6, <2>8, <4>1, <4>2, <4>3
      <3>2. Searched(due, ts, left)
        BY <1>2, <1>3, <2>2, <3>1 DEF Searched
      <3>3. f[w] = f[left]
        BY <2>3, <2>6, <2>8
      <3> QED BY <1>2, <2>5, <3>2, <3>3
    <2>9. CASE due[mid + 1] = ts
      <3>1. f[w] = mid
        BY <2>3, <2>6, <2>9
      <3> QED BY <1>2, <2>2, <2>9, <3>1 DEF Found
    <2> QED BY <2>6, <2>7, <2>8, <2>9
  <1> QED BY <1>4, <1>5

\* The binary search of a sorted queue ends at the place of the time that is looked for.
LEMMA SearchFinds ==
  ASSUME NEW due \in Seq(Nat), NEW ts \in Nat, Ascends(due)
  PROVE  Found(due, ts, Search(due, ts))
  <1> DEFINE n == Len(due)
             start == [min |-> 0, max |-> n - 1, current |-> 0]
  <1>1. n \in Nat
    BY LenProperties
  <1>2. PICK f : (\A w \in SearchWindow(n) : f[w] = Turn(due, ts, f, w)) /\ Search(due, ts) = f[start]
    BY <1>1, SearchIsLoop
  <1>3. start \in SearchWindow(n) /\ Searched(due, ts, start)
    BY <1>1 DEF SearchWindow, Searched
  <1> HIDE DEF start
  <1> QED BY <1>2, <1>3, LoopFinds

-----------------------------------------------------------------------------
(* The queues.                                                              *)

In(t, q) == \E i \in DOMAIN q : q[i] = t
Distinct(q) == \A i, j \in DOMAIN q : q[i] = q[j] => i = j
Times(st) == [t \in Tasks |-> st.tasks[t].timestamp]
SortedBy(time, q) == \A i, j \in DOMAIN q : i < j => time[q[i]] <= time[q[j]]

\* splice(i, 0, t) puts an element between those before index i and those from it on.
LEMMA InsertAtIs ==
  ASSUME NEW q \in Seq(Tasks), NEW t \in Tasks, NEW i \in 0 .. Len(q)
  PROVE  LET r == InsertAt(q, i + 1, t) IN
         /\ r \in Seq(Tasks) /\ Len(r) = Len(q) + 1
         /\ \A k \in 1 .. i : r[k] = q[k]
         /\ r[i + 1] = t
         /\ \A k \in i + 2 .. Len(q) + 1 : r[k] = q[k - 1]
  <1> DEFINE n == Len(q)
             u == SubSeq(q, 1, i)
             v == SubSeq(q, i + 1, n)
             w == u \o <<t>>
             r == w \o v
  <1>1. n \in Nat /\ i \in Nat /\ i <= n /\ (\A k \in 1 .. n : q[k] \in Tasks)
    BY LenProperties, ElementOfSeq
  <1>2. u \in Seq(Tasks) /\ Len(u) = i /\ \A k \in 1 .. i : u[k] = q[k]
    <2>1. /\ u \in Seq(Tasks)
          /\ Len(u) = IF 1 <= i THEN i - 1 + 1 ELSE 0
          /\ \A k \in 1 .. i - 1 + 1 : u[k] = q[1 + k - 1]
      BY <1>1, SubSeqProperties
    <2> HIDE DEF u
    <2> QED BY <1>1, <2>1
  <1>3. v \in Seq(Tasks) /\ Len(v) = n - i /\ \A k \in 1 .. n - i : v[k] = q[i + k]
    <2>1. /\ v \in Seq(Tasks)
          /\ Len(v) = IF i + 1 <= n THEN n - (i + 1) + 1 ELSE 0
          /\ \A k \in 1 .. n - (i + 1) + 1 : v[k] = q[(i + 1) + k - 1]
      BY <1>1, SubSeqProperties
    <2> HIDE DEF v
    <2>2. \A k \in 1 .. n - i : (i + 1) + k - 1 = i + k
      BY <1>1
    <2> QED BY <1>1, <2>1, <2>2
  <1>4. <<t>> \in Seq(Tasks) /\ Len(<<t>>) = 1 /\ <<t>>[1] = t
    OBVIOUS
  <1>5. InsertAt(q, i + 1, t) = r
    <2>1. (i + 1) - 1 = i
      BY <1>1
    <2> QED BY <2>1 DEF InsertAt
  <1> HIDE DEF u, v
  <1>6. w \in Seq(Tasks) /\ Len(w) = i + 1 /\ (\A k \in 1 .. i : w[k] = q[k]) /\ w[i + 1] = t
    BY <1>1, <1>2, <1>4, ConcatProperties
  <1> HIDE DEF w
  <1>7. /\ r \in Seq(Tasks) /\ Len(r) = Len(w) + Len(v)
        /\ \A k \in 1 .. Len(w) + Len(v) : r[k] = IF k <= Len(w) THEN w[k] ELSE v[k - Len(w)]
    BY <1>3, <1>6, ConcatProperties
  <1> HIDE DEF r
  <1>8. Len(r) = n + 1 /\ (\A k \in 1 .. i : r[k] = q[k]) /\ r[i + 1] = t
    <2>1. Len(w) + Len(v) = n + 1
      BY <1>1, <1>3, <1>6
    <2>2. \A k \in 1 .. i + 1 : k \in 1 .. n + 1 /\ k <= Len(w)
      BY <1>1, <1>6
    <2>3. \A k \in 1 .. i + 1 : r[k] = w[k]
      BY <1>7, <2>1, <2>2
    <2>4. \A k \in 1 .. i : k \in 1 .. i + 1
      BY <1>1
    <2>5. i + 1 \in 1 .. i + 1
      BY <1>1
    <2> QED BY <1>6, <1>7, <2>1, <2>3, <2>4, <2>5
  <1>9. ASSUME NEW k \in i + 2 .. n + 1 PROVE r[k] = q[k - 1]
    <2>1. k - (i + 1) \in 1 .. n - i /\ i + (k - (i + 1)) = k - 1
      BY <1>1
    <2>2. r[k] = v[k - (i + 1)]
      <3>1. k \in 1 .. Len(w) + Len(v) /\ ~(k <= Len(w)) /\ k - Len(w) = k - (i + 1)
        BY <1>1, <1>3, <1>6
      <3> QED BY <1>7, <3>1
    <2> QED BY <1>3, <2>1, <2>2
  <1> QED BY <1>5, <1>7, <1>8, <1>9

\* splice(i, 1) takes out the element at index i.
LEMMA RemoveAtIs ==
  ASSUME NEW T, NEW q \in Seq(T), NEW i \in 1 .. Len(q)
  PROVE  LET r == RemoveAt(q, i) IN
         /\ r \in Seq(T) /\ Len(r) = Len(q) - 1
         /\ \A k \in 1 .. Len(q) - 1 : r[k] = q[IF k < i THEN k ELSE k + 1]
  <1> DEFINE n == Len(q)
             u == SubSeq(q, 1, i - 1)
             v == SubSeq(q, i + 1, n)
             r == u \o v
  <1>1. n \in Nat /\ i \in Nat /\ i >= 1 /\ i <= n /\ (\A k \in 1 .. n : q[k] \in T)
    BY LenProperties, ElementOfSeq
  <1>2. u \in Seq(T) /\ Len(u) = i - 1 /\ \A k \in 1 .. i - 1 : u[k] = q[k]
    <2>1. /\ u \in Seq(T)
          /\ Len(u) = IF 1 <= i - 1 THEN (i - 1) - 1 + 1 ELSE 0
          /\ \A k \in 1 .. (i - 1) - 1 + 1 : u[k] = q[1 + k - 1]
      BY <1>1, SubSeqProperties
    <2> HIDE DEF u
    <2> QED BY <1>1, <2>1
  <1>3. v \in Seq(T) /\ Len(v) = n - i /\ \A k \in 1 .. n - i : v[k] = q[i + k]
    <2>1. /\ v \in Seq(T)
          /\ Len(v) = IF i + 1 <= n THEN n - (i + 1) + 1 ELSE 0
          /\ \A k \in 1 .. n - (i + 1) + 1 : v[k] = q[(i + 1) + k - 1]
      BY <1>1, SubSeqProperties
    <2> HIDE DEF v
    <2>2. \A k \in 1 .. n - i : (i + 1) + k - 1 = i + k
      BY <1>1
    <2> QED BY <1>1, <2>1, <2>2
  <1>4. RemoveAt(q, i) = r
    BY DEF RemoveAt
  <1> HIDE DEF u, v
  <1>5. /\ r \in Seq(T) /\ Len(r) = Len(u) + Len(v)
        /\ \A k \in 1 .. Len(u) + Len(v) : r[k] = IF k <= Len(u) THEN u[k] ELSE v[k - Len(u)]
    BY <1>2, <1>3, ConcatProperties
  <1> HIDE DEF r
  <1>6. Len(r) = n - 1
    BY <1>1, <1>2, <1>3, <1>5
  <1>7. ASSUME NEW k \in 1 .. n - 1 PROVE r[k] = q[IF k < i THEN k ELSE k + 1]
    <2>1. CASE k < i
      <3>1. k \in 1 .. i - 1
        BY <1>1, <2>1
      <3>2. k \in 1 .. Len(u) + Len(v) /\ k <= Len(u)
        BY <1>1, <1>2, <1>3, <3>1
      <3> QED BY <1>2, <1>5, <2>1, <3>1, <3>2
    <2>2. CASE ~(k < i)
      <3>1. k - (i - 1) \in 1 .. n - i /\ i + (k - (i - 1)) = k + 1
        BY <1>1, <2>2
      <3>2. r[k] = v[k - (i - 1)]
        <4>1. k \in 1 .. Len(u) + Len(v) /\ ~(k <= Len(u)) /\ k - Len(u) = k - (i - 1)
          BY <1>1, <1>2, <1>3, <2>2
        <4> QED BY <1>5, <4>1
      <3> QED BY <1>3, <2>2, <3>1, <3>2
    <2> QED BY <2>1, <2>2
  <1> QED BY <1>4, <1>5, <1>6, <1>7

\* An element put at its time keeps a queue sorted.
LEMMA InsertAtKeeps ==
  ASSUME NEW q \in Seq(Tasks), NEW t \in Tasks, NEW time \in [Tasks -> Nat], NEW i \in 0 .. Len(q),
         SortedBy(time, q), Distinct(q), ~In(t, q),
         \A k \in 1 .. i : time[q[k]] <= time[t],
         \A k \in i + 1 .. Len(q) : time[t] <= time[q[k]]
  PROVE  LET r == InsertAt(q, i + 1, t) IN
         /\ r \in Seq(Tasks) /\ SortedBy(time, r) /\ Distinct(r)
         /\ \A x : In(x, r) <=> In(x, q) \/ x = t
  <1> DEFINE n == Len(q)
             r == InsertAt(q, i + 1, t)
             old(k) == IF k <= i THEN k ELSE k - 1
  <1>1. n \in Nat /\ i \in Nat /\ i <= n /\ DOMAIN q = 1 .. n /\ \A k \in 1 .. n : q[k] \in Tasks
    BY LenProperties, ElementOfSeq
  <1>2. /\ r \in Seq(Tasks) /\ Len(r) = n + 1
        /\ \A k \in 1 .. i : r[k] = q[k]
        /\ r[i + 1] = t
        /\ \A k \in i + 2 .. n + 1 : r[k] = q[k - 1]
    BY InsertAtIs
  <1> HIDE DEF n, r
  <1>3. DOMAIN r = 1 .. n + 1
    BY <1>2, LenProperties
  <1>4. ASSUME NEW k \in 1 .. n + 1, k # i + 1
        PROVE  old(k) \in 1 .. n /\ r[k] = q[old(k)]
    <2>1. CASE k <= i
      <3>1. k \in 1 .. i /\ k \in 1 .. n /\ old(k) = k
        BY <1>1, <2>1
      <3> QED BY <1>2, <3>1
    <2>2. CASE ~(k <= i)
      <3>1. k \in i + 2 .. n + 1 /\ k - 1 \in 1 .. n /\ old(k) = k - 1
        BY <1>1, <1>4, <2>2
      <3> QED BY <1>2, <3>1
    <2> QED BY <2>1, <2>2
  <1>5. \A j, k \in 1 .. n + 1 : j # i + 1 /\ k # i + 1 /\ j < k => old(j) < old(k)
    BY <1>1
  <1>6. \A k \in 1 .. n + 1 : (k < i + 1 => old(k) \in 1 .. i) /\ (i + 1 < k => old(k) \in i + 1 .. n)
    BY <1>1
  <1> HIDE DEF old
  <1>7. SortedBy(time, r)
    <2> SUFFICES ASSUME NEW j \in 1 .. n + 1, NEW k \in 1 .. n + 1, j < k
                 PROVE  time[r[j]] <= time[r[k]]
      BY <1>3 DEF SortedBy
    <2>1. CASE j # i + 1 /\ k # i + 1
      <3>1. old(j) \in DOMAIN q /\ old(k) \in DOMAIN q /\ old(j) < old(k)
        BY <1>1, <1>4, <1>5, <2>1
      <3>2. time[q[old(j)]] <= time[q[old(k)]]
        BY <3>1 DEF SortedBy
      <3> QED BY <1>4, <2>1, <3>2
    <2>2. CASE j = i + 1
      <3>1. k # i + 1 /\ i + 1 < k
        BY <1>1, <2>2
      <3> QED BY <1>2, <1>4, <1>6, <2>2, <3>1 DEF n
    <2>3. CASE k = i + 1
      <3>1. j # i + 1 /\ j < i + 1
        BY <1>1, <2>3
      <3> QED BY <1>2, <1>4, <1>6, <2>3, <3>1 DEF n
    <2> QED BY <2>1, <2>2, <2>3
  <1>8. Distinct(r)
    <2> SUFFICES ASSUME NEW j \in 1 .. n + 1, NEW k \in 1 .. n + 1, r[j] = r[k], j # k
                 PROVE  FALSE
      BY <1>3 DEF Distinct
    <2>1. CASE j # i + 1 /\ k # i + 1
      <3>1. old(j) \in DOMAIN q /\ old(k) \in DOMAIN q /\ old(j) # old(k)
        BY <1>1, <1>4, <1>5, <2>1
      <3> QED BY <1>4, <2>1, <3>1 DEF Distinct
    <2>2. CASE j = i + 1
      BY <1>1, <1>2, <1>4, <2>2 DEF In
    <2>3. CASE k = i + 1
      BY <1>1, <1>2, <1>4, <2>3 DEF In
    <2> QED BY <2>1, <2>2, <2>3
  <1>9. ASSUME NEW x PROVE In(x, r) <=> In(x, q) \/ x = t
    <2>1. In(x, r) => In(x, q) \/ x = t
      BY <1>1, <1>2, <1>3, <1>4 DEF In
    <2>2. ASSUME In(x, q) PROVE In(x, r)
      <3>1. PICK k \in 1 .. n : q[k] = x
        BY <1>1, <2>2 DEF In
      <3>2. CASE k <= i
        <4>1. k \in 1 .. i /\ k \in 1 .. n + 1
          BY <1>1, <3>2
        <4> QED BY <1>2, <1>3, <3>1, <4>1 DEF In
      <3>3. CASE ~(k <= i)
        <4>1. k + 1 \in i + 2 .. n + 1 /\ k + 1 \in 1 .. n + 1 /\ (k + 1) - 1 = k
          BY <1>1, <3>3
        <4> QED BY <1>2, <1>3, <3>1, <4>1 DEF In
      <3> QED BY <3>2, <3>3
    <2>3. In(t, r)
      <3>1. i + 1 \in DOMAIN r /\ r[i + 1] = t
        BY <1>1, <1>2, <1>3
      <3> QED BY <3>1 DEF In
    <2> QED BY <2>1, <2>2, <2>3
  <1> QED BY <1>2, <1>7, <1>8, <1>9 DEF r

\* Taking an element out keeps a queue sorted.
LEMMA RemoveAtKeeps ==
  ASSUME NEW q \in Seq(Tasks), NEW time \in [Tasks -> Nat], NEW i \in 1 .. Len(q),
         SortedBy(time, q), Distinct(q)
  PROVE  LET r == RemoveAt(q, i) IN
         /\ r \in Seq(Tasks) /\ SortedBy(time, r) /\ Distinct(r)
         /\ \A x : In(x, r) <=> In(x, q) /\ x # q[i]
  <1> DEFINE n == Len(q)
             r == RemoveAt(q, i)
             old(k) == IF k < i THEN k ELSE k + 1
  <1>1. n \in Nat /\ i \in 1 .. n /\ DOMAIN q = 1 .. n
    BY LenProperties
  <1>2. r \in Seq(Tasks) /\ Len(r) = n - 1 /\ \A k \in 1 .. n - 1 : r[k] = q[old(k)]
    BY RemoveAtIs
  <1> HIDE DEF n, r
  <1>3. DOMAIN r = 1 .. n - 1
    BY <1>2, LenProperties
  <1>4. \A k \in 1 .. n - 1 : old(k) \in 1 .. n /\ old(k) # i
    BY <1>1
  <1>5. \A j, k \in 1 .. n - 1 : j < k => old(j) < old(k)
    BY <1>1
  <1>6. \A k \in 1 .. n : k # i => \E j \in 1 .. n - 1 : old(j) = k
    <2> SUFFICES ASSUME NEW k \in 1 .. n, k # i PROVE \E j \in 1 .. n - 1 : old(j) = k
      OBVIOUS
    <2>1. CASE k < i
      <3>1. k \in 1 .. n - 1 /\ old(k) = k
        BY <1>1, <2>1
      <3> QED BY <3>1
    <2>2. CASE k > i
      <3>1. k - 1 \in 1 .. n - 1 /\ old(k - 1) = k
        BY <1>1, <2>2
      <3> QED BY <3>1
    <2> QED BY <1>1, <2>1, <2>2
  <1> HIDE DEF old
  <1>7. SortedBy(time, r)
    BY <1>1, <1>2, <1>3, <1>4, <1>5 DEF SortedBy
  <1>8. Distinct(r)
    <2> SUFFICES ASSUME NEW j \in 1 .. n - 1, NEW k \in 1 .. n - 1, r[j] = r[k], j # k
                 PROVE  FALSE
      BY <1>3 DEF Distinct
    <2>1. old(j) \in DOMAIN q /\ old(k) \in DOMAIN q /\ old(j) = old(k)
      BY <1>1, <1>2, <1>4 DEF Distinct
    <2>2. old(j) \in Int /\ old(k) \in Int /\ (j < k \/ k < j)
      BY <1>1, <1>4
    <2> QED BY <1>5, <2>1, <2>2
  <1>9. ASSUME NEW x PROVE In(x, r) <=> In(x, q) /\ x # q[i]
    <2>1. ASSUME In(x, r) PROVE In(x, q) /\ x # q[i]
      <3>1. PICK k \in 1 .. n - 1 : q[old(k)] = x
        BY <1>2, <1>3, <2>1 DEF In
      <3> QED BY <1>1, <1>4, <3>1 DEF In, Distinct
    <2>2. ASSUME In(x, q), x # q[i] PROVE In(x, r)
      <3>1. PICK k \in 1 .. n : q[k] = x /\ k # i
        BY <1>1, <2>2 DEF In
      <3> QED BY <1>2, <1>3, <1>6, <3>1 DEF In
    <2> QED BY <2>1, <2>2
  <1> QED BY <1>2, <1>7, <1>8, <1>9 DEF r

-----------------------------------------------------------------------------
(* The state that the synchronous code works on.                            *)

TaskType == [registered : BOOLEAN, status : {"idle", "pending"}, timestamp : Nat, iteration : Nat]
StateType == [tasks : [Tasks -> TaskType], queues : [Priorities -> Seq(Tasks)], executing : Tasks \cup {"none"},
              instance : BOOLEAN, at : Nat, running : BOOLEAN]

\* What Due() is of a queue.
LEMMA DueIs ==
  ASSUME NEW st \in StateType, NEW q \in Seq(Tasks)
  PROVE  /\ Due(st, q) \in Seq(Nat) /\ Len(Due(st, q)) = Len(q) /\ DOMAIN Due(st, q) = DOMAIN q
         /\ \A i \in DOMAIN q : Due(st, q)[i] = Times(st)[q[i]]
         /\ Times(st) \in [Tasks -> Nat]
         /\ SortedBy(Times(st), q) => Ascends(Due(st, q))
  <1> DEFINE d == Due(st, q)
  <1>1. Times(st) \in [Tasks -> Nat] /\ \A t \in Tasks : Times(st)[t] = st.tasks[t].timestamp
    BY DEF Times, StateType, TaskType
  <1>2. Len(q) \in Nat /\ DOMAIN q = 1 .. Len(q) /\ \A i \in 1 .. Len(q) : q[i] \in Tasks
    BY LenProperties, ElementOfSeq
  <1>3. d = [i \in 1 .. Len(q) |-> st.tasks[q[i]].timestamp]
    BY <1>2 DEF Due
  <1> HIDE DEF d
  <1>4. \A i \in 1 .. Len(q) : d[i] = Times(st)[q[i]] /\ d[i] \in Nat
    BY <1>1, <1>2, <1>3
  <1>5. d \in Seq(Nat) /\ Len(d) = Len(q)
    <2>1. d \in [1 .. Len(q) -> Nat]
      BY <1>3, <1>4
    <2> QED BY <1>2, <2>1
  <1>6. SortedBy(Times(st), q) => Ascends(d)
    BY <1>2, <1>3, <1>4 DEF SortedBy, Ascends
  <1> QED BY <1>1, <1>2, <1>3, <1>4, <1>5, <1>6 DEF d

\* insertInQueue() keeps a queue sorted and puts the task in it.
LEMMA InsertInQueueKeeps ==
  ASSUME NEW st \in StateType, NEW q \in Seq(Tasks), NEW t \in Tasks,
         SortedBy(Times(st), q), Distinct(q), ~In(t, q)
  PROVE  LET r == InsertInQueue(st, q, t) IN
         /\ r \in Seq(Tasks) /\ SortedBy(Times(st), r) /\ Distinct(r)
         /\ \A x : In(x, r) <=> In(x, q) \/ x = t
  <1> DEFINE n == Len(q)
             ts == st.tasks[t].timestamp
             due == Due(st, q)
             last == Search(due, ts)
             i == IF last < n /\ st.tasks[q[last + 1]].timestamp < ts THEN last + 1 ELSE last
  <1>1. /\ due \in Seq(Nat) /\ Len(due) = n /\ DOMAIN due = DOMAIN q /\ Ascends(due)
        /\ \A k \in DOMAIN q : due[k] = Times(st)[q[k]]
        /\ Times(st) \in [Tasks -> Nat]
    BY DueIs
  <1>2. n \in Nat /\ DOMAIN q = 1 .. n /\ \A k \in 1 .. n : q[k] \in Tasks
    BY LenProperties, ElementOfSeq
  <1>3. ts \in Nat /\ \A x \in Tasks : Times(st)[x] = st.tasks[x].timestamp
    BY <1>1 DEF Times, StateType, TaskType
  <1> HIDE DEF due
  <1>4. Found(due, ts, last)
    BY <1>1, <1>3, SearchFinds
  <1> HIDE DEF last, n
  <1>5. \A k \in 1 .. n : due[k] \in Nat /\ due[k] = st.tasks[q[k]].timestamp
    BY <1>1, <1>2, <1>3
  <1>6. /\ i \in 0 .. n
        /\ \A k \in 1 .. i : due[k] <= ts
        /\ \A k \in i + 1 .. n : ts <= due[k]
    <2>1. CASE last \in 0 .. n - 1 /\ due[last + 1] = ts
      <3>1. last + 1 \in 1 .. n /\ i = last
        BY <1>2, <1>3, <1>5, <2>1
      <3>2. ASSUME NEW k \in 1 .. n PROVE (k < last + 1 => due[k] <= ts) /\ (last + 1 < k => ts <= due[k])
        BY <1>1, <1>2, <2>1, <3>1 DEF Ascends
      <3>3. \A k \in 1 .. last : k \in 1 .. n /\ k < last + 1
        BY <1>2, <2>1
      <3>4. \A k \in last + 1 .. n : k \in 1 .. n /\ (k = last + 1 \/ last + 1 < k)
        BY <1>2, <2>1
      <3> HIDE DEF i
      <3> QED BY <1>2, <1>3, <2>1, <3>1, <3>2, <3>3, <3>4
    <2>2. CASE /\ last \in 0 .. n - 1
               /\ \A j \in 1 .. last + 1 : due[j] < ts
               /\ \A j \in last + 2 .. n : due[j] > ts
      <3>1. i = last + 1 /\ i \in 0 .. n
        BY <1>2, <1>3, <1>5, <2>2
      <3> HIDE DEF i
      <3>2. \A k \in 1 .. i : k \in 1 .. last + 1 /\ k \in 1 .. n
        BY <1>2, <3>1, <2>2
      <3>3. \A k \in i + 1 .. n : k \in last + 2 .. n /\ k \in 1 .. n
        BY <1>2, <3>1, <2>2
      <3> QED BY <1>3, <1>5, <2>2, <3>1, <3>2, <3>3
    <2>3. CASE /\ last \in 0 .. n
               /\ \A j \in 1 .. last : due[j] < ts
               /\ \A j \in last + 1 .. n : due[j] > ts
      <3>1. i = last
        BY <1>2, <1>3, <1>5, <2>3
      <3> HIDE DEF i
      <3>2. (\A k \in 1 .. i : k \in 1 .. n) /\ (\A k \in i + 1 .. n : k \in 1 .. n)
        BY <1>2, <3>1, <2>3
      <3> QED BY <1>3, <1>5, <2>3, <3>1, <3>2
    <2> QED BY <1>1, <1>4, <2>1, <2>2, <2>3 DEF Found
  <1>7. InsertInQueue(st, q, t) = InsertAt(q, i + 1, t)
    BY DEF InsertInQueue, due, last, n
  <1> HIDE DEF i, ts
  <1>8. /\ \A k \in 1 .. i : Times(st)[q[k]] <= Times(st)[t]
        /\ \A k \in i + 1 .. Len(q) : Times(st)[t] <= Times(st)[q[k]]
    <2>1. (\A k \in 1 .. i : k \in 1 .. n) /\ (\A k \in i + 1 .. n : k \in 1 .. n)
      BY <1>2, <1>6
    <2>2. Times(st)[t] = ts
      BY <1>3 DEF ts
    <2> QED BY <1>1, <1>2, <1>6, <2>1, <2>2 DEF n
  <1>9. i \in 0 .. Len(q)
    BY <1>6 DEF n
  <1> DEFINE time == Times(st)
  <1>10. time \in [Tasks -> Nat]
    BY <1>1
  <1> HIDE DEF time
  <1>11. LET r == InsertAt(q, i + 1, t) IN
         /\ r \in Seq(Tasks) /\ SortedBy(time, r) /\ Distinct(r)
         /\ \A x : In(x, r) <=> In(x, q) \/ x = t
    <2>1. /\ SortedBy(time, q)
          /\ \A k \in 1 .. i : time[q[k]] <= time[t]
          /\ \A k \in i + 1 .. Len(q) : time[t] <= time[q[k]]
      BY <1>8 DEF time
    <2> QED BY <1>9, <1>10, <2>1, InsertAtKeeps, Zenon
  <1> QED BY <1>7, <1>11 DEF time

\* shift() takes the first task out.
LEMMA TailKeeps ==
  ASSUME NEW q \in Seq(Tasks), NEW time \in [Tasks -> Nat], q # <<>>, SortedBy(time, q), Distinct(q)
  PROVE  /\ Tail(q) \in Seq(Tasks) /\ SortedBy(time, Tail(q)) /\ Distinct(Tail(q))
         /\ \A x : In(x, Tail(q)) <=> In(x, q) /\ x # Head(q)
         /\ In(Head(q), q) /\ Head(q) \in Tasks
  <1> DEFINE n == Len(q)
             r == Tail(q)
  <1>1. n \in Nat /\ n >= 1 /\ DOMAIN q = 1 .. n /\ Head(q) = q[1] /\ Head(q) \in Tasks
    BY LenProperties, HeadTailProperties, EmptySeq
  <1>2. r \in Seq(Tasks) /\ Len(r) = n - 1 /\ \A k \in 1 .. n - 1 : r[k] = q[k + 1]
    BY HeadTailProperties
  <1> HIDE DEF n, r
  <1>3. DOMAIN r = 1 .. n - 1
    BY <1>2, LenProperties
  <1>4. \A k \in 1 .. n - 1 : k + 1 \in 1 .. n /\ k + 1 # 1
    BY <1>1
  <1>5. SortedBy(time, r)
    <2> SUFFICES ASSUME NEW j \in 1 .. n - 1, NEW k \in 1 .. n - 1, j < k PROVE time[r[j]] <= time[r[k]]
      BY <1>3 DEF SortedBy
    <2>1. j + 1 \in DOMAIN q /\ k + 1 \in DOMAIN q /\ j + 1 < k + 1
      BY <1>1, <1>4
    <2>2. time[q[j + 1]] <= time[q[k + 1]]
      BY <2>1 DEF SortedBy
    <2> QED BY <1>2, <2>2
  <1>6. Distinct(r)
    <2> SUFFICES ASSUME NEW j \in 1 .. n - 1, NEW k \in 1 .. n - 1, r[j] = r[k] PROVE j = k
      BY <1>3 DEF Distinct
    <2>1. j + 1 = k + 1
      <3>1. j + 1 \in DOMAIN q /\ k + 1 \in DOMAIN q /\ q[j + 1] = q[k + 1]
        BY <1>1, <1>2, <1>4
      <3> QED BY <3>1 DEF Distinct
    <2> QED BY <2>1
  <1>7. ASSUME NEW x PROVE In(x, r) <=> In(x, q) /\ x # q[1]
    <2>1. ASSUME In(x, r) PROVE In(x, q) /\ x # q[1]
      <3>1. PICK k \in 1 .. n - 1 : q[k + 1] = x
        BY <1>2, <1>3, <2>1 DEF In
      <3>2. k + 1 \in DOMAIN q /\ 1 \in DOMAIN q /\ k + 1 # 1
        BY <1>1, <1>4
      <3> QED BY <3>1, <3>2 DEF In, Distinct
    <2>2. ASSUME In(x, q), x # q[1] PROVE In(x, r)
      <3>1. PICK k \in 1 .. n : q[k] = x /\ k # 1
        BY <1>1, <2>2 DEF In
      <3>2. k - 1 \in 1 .. n - 1 /\ (k - 1) + 1 = k
        BY <1>1, <3>1
      <3> QED BY <1>2, <1>3, <3>1, <3>2 DEF In
    <2> QED BY <2>1, <2>2
  <1>8. In(q[1], q)
    BY <1>1 DEF In
  <1> QED BY <1>1, <1>2, <1>5, <1>6, <1>7, <1>8 DEF r

-----------------------------------------------------------------------------
Waits(st, t) == In(t, st.queues[TaskPriority[t]])

\* The queues are sorted and hold the tasks of their priority, once each; the tasks that are registered
\* wait in a queue, but for those of X, and their status is pending.
Good(st, X) ==
  /\ st \in StateType
  /\ \A p \in Priorities : SortedBy(Times(st), st.queues[p]) /\ Distinct(st.queues[p])
  /\ \A p \in Priorities : \A t : In(t, st.queues[p]) => t \in Tasks /\ TaskPriority[t] = p
  /\ \A t \in Tasks : st.tasks[t].registered <=> (t \in X \/ Waits(st, t))
  /\ \A t \in X : ~Waits(st, t)
  /\ \A t \in Tasks \ X : st.tasks[t].registered => st.tasks[t].status = "pending"

\* All but the tasks and the queues of two states is the same.
SameScheduler(st, st2) ==
  st2.executing = st.executing /\ st2.instance = st.instance /\ st2.at = st.at /\ st2.running = st.running

WithTask(st, t, rec) == [st EXCEPT !.tasks[t] = rec]
WithQueue(st, p, q) == [st EXCEPT !.queues[p] = q]

\* Another record of a task leaves the rest of the state.
LEMMA TaskFrame ==
  ASSUME NEW st \in StateType, NEW t \in Tasks, NEW rec \in TaskType
  PROVE  LET st2 == WithTask(st, t, rec) IN
         /\ st2 \in StateType /\ SameScheduler(st, st2) /\ st2.queues = st.queues
         /\ st2.tasks[t] = rec /\ \A x \in Tasks \ {t} : st2.tasks[x] = st.tasks[x]
  BY DEF StateType, SameScheduler, WithTask

\* A task that is in no queue may change: it is in hand when it is registered.
LEMMA TaskChanges ==
  ASSUME NEW st, NEW X \in SUBSET Tasks, Good(st, X), NEW t \in Tasks, ~Waits(st, t), NEW rec \in TaskType,
         NEW Y, rec.registered => Y = X \cup {t}, ~rec.registered => Y = X \ {t}
  PROVE  Good(WithTask(st, t, rec), Y)
  <1> DEFINE st2 == WithTask(st, t, rec)
  <1>1. st \in StateType /\ TaskPriority \in [Tasks -> Priorities]
    BY TaskManagerAssumption DEF Good
  <1>2. /\ st2 \in StateType /\ SameScheduler(st, st2) /\ st2.queues = st.queues
        /\ st2.tasks[t] = rec /\ \A x \in Tasks \ {t} : st2.tasks[x] = st.tasks[x]
    BY <1>1, TaskFrame
  <1> HIDE DEF st2
  <1>3. \A x : Waits(st2, x) <=> Waits(st, x)
    BY <1>2 DEF Waits
  <1>4. ASSUME NEW p \in Priorities PROVE SortedBy(Times(st2), st2.queues[p])
    <2> DEFINE q == st.queues[p]
    <2>1. SortedBy(Times(st), q) /\ \A i \in DOMAIN q : q[i] \in Tasks /\ q[i] # t
      BY <1>1 DEF Good, Waits, In
    <2>2. \A x \in Tasks \ {t} : Times(st2)[x] = Times(st)[x]
      BY <1>2 DEF Times
    <2> HIDE DEF q
    <2>3. SortedBy(Times(st2), q)
      BY <2>1, <2>2 DEF SortedBy
    <2> QED BY <1>2, <2>3 DEF q
  <1>5. Good(st2, Y)
    <2>1. \A p \in Priorities : Distinct(st2.queues[p])
      BY <1>2 DEF Good
    <2>2. \A p \in Priorities : \A x : In(x, st2.queues[p]) => x \in Tasks /\ TaskPriority[x] = p
      BY <1>2 DEF Good
    <2>3. \A x \in Tasks : st2.tasks[x].registered <=> (x \in Y \/ Waits(st2, x))
      BY <1>2, <1>3 DEF Good
    <2>4. \A x \in Y : ~Waits(st2, x)
      BY <1>3 DEF Good
    <2>5. \A x \in Tasks \ Y : st2.tasks[x].registered => st2.tasks[x].status = "pending"
      BY <1>2 DEF Good
    <2> QED BY <1>2, <1>4, <2>1, <2>2, <2>3, <2>4, <2>5 DEF Good
  <1> QED BY <1>5 DEF st2

\* Another queue leaves the rest of the state.
LEMMA QueueFrame ==
  ASSUME NEW st \in StateType, NEW p \in Priorities, NEW q \in Seq(Tasks)
  PROVE  LET st2 == WithQueue(st, p, q)
         IN  /\ st2 \in StateType /\ SameScheduler(st, st2) /\ st2.tasks = st.tasks /\ st2.queues[p] = q
             /\ \A o \in Priorities \ {p} : st2.queues[o] = st.queues[o]
  BY DEF StateType, SameScheduler, WithQueue

\* Another queue for one of the priorities, sorted and without duplicates.
LEMMA QueueChanges ==
  ASSUME NEW st, NEW X \in SUBSET Tasks, Good(st, X), NEW p \in Priorities,
         NEW q \in Seq(Tasks), SortedBy(Times(st), q), Distinct(q)
  PROVE  LET st2 == WithQueue(st, p, q)
         IN  /\ st2 \in StateType /\ SameScheduler(st, st2) /\ st2.tasks = st.tasks /\ st2.queues[p] = q
             /\ \A o \in Priorities \ {p} : st2.queues[o] = st.queues[o]
             /\ \A o \in Priorities : SortedBy(Times(st2), st2.queues[o]) /\ Distinct(st2.queues[o])
             /\ \A x \in Tasks : TaskPriority[x] # p => (Waits(st2, x) <=> Waits(st, x))
             /\ \A x \in Tasks : TaskPriority[x] = p => (Waits(st2, x) <=> In(x, q))
             /\ \A x \in Tasks : TaskPriority[x] = p => (Waits(st, x) <=> In(x, st.queues[p]))
  <1> DEFINE st2 == WithQueue(st, p, q)
  <1>1. st \in StateType /\ TaskPriority \in [Tasks -> Priorities]
    BY TaskManagerAssumption DEF Good
  <1>2. /\ st2 \in StateType /\ SameScheduler(st, st2) /\ st2.tasks = st.tasks /\ st2.queues[p] = q
        /\ \A o \in Priorities \ {p} : st2.queues[o] = st.queues[o]
    BY <1>1, QueueFrame
  <1> HIDE DEF st2
  <1>3. \A o \in Priorities : SortedBy(Times(st2), st2.queues[o]) /\ Distinct(st2.queues[o])
    <2>1. Times(st2) = Times(st)
      BY <1>2 DEF Times
    <2> QED BY <1>2, <2>1 DEF Good
  <1>4. /\ \A x \in Tasks : TaskPriority[x] # p => (Waits(st2, x) <=> Waits(st, x))
        /\ \A x \in Tasks : TaskPriority[x] = p => (Waits(st2, x) <=> In(x, q))
        /\ \A x \in Tasks : TaskPriority[x] = p => (Waits(st, x) <=> In(x, st.queues[p]))
    BY <1>1, <1>2 DEF Waits
  <1> QED BY <1>2, <1>3, <1>4 DEF st2

\* A queue takes a task that was in hand.
LEMMA QueueTakes ==
  ASSUME NEW st, NEW X \in SUBSET Tasks, Good(st, X), NEW t \in X, st.tasks[t].status = "pending",
         NEW q \in Seq(Tasks), SortedBy(Times(st), q), Distinct(q),
         \A x : In(x, q) <=> In(x, st.queues[TaskPriority[t]]) \/ x = t
  PROVE  LET st2 == WithQueue(st, TaskPriority[t], q)
         IN  Good(st2, X \ {t}) /\ SameScheduler(st, st2)
  <1> DEFINE p == TaskPriority[t]
             st2 == WithQueue(st, p, q)
  <1>1. p \in Priorities /\ t \in Tasks
    BY TaskManagerAssumption
  <1> HIDE DEF p
  <1>2. /\ st2 \in StateType /\ SameScheduler(st, st2) /\ st2.tasks = st.tasks /\ st2.queues[p] = q
        /\ \A o \in Priorities \ {p} : st2.queues[o] = st.queues[o]
        /\ \A o \in Priorities : SortedBy(Times(st2), st2.queues[o]) /\ Distinct(st2.queues[o])
        /\ \A x \in Tasks : TaskPriority[x] # p => (Waits(st2, x) <=> Waits(st, x))
        /\ \A x \in Tasks : TaskPriority[x] = p => (Waits(st2, x) <=> In(x, q))
        /\ \A x \in Tasks : TaskPriority[x] = p => (Waits(st, x) <=> In(x, st.queues[p]))
    BY <1>1, QueueChanges
  <1> HIDE DEF st2
  <1>3. \A o \in Priorities : \A x : In(x, st2.queues[o]) => x \in Tasks /\ TaskPriority[x] = o
    BY <1>1, <1>2 DEF Good, p
  <1>4. \A x \in Tasks : Waits(st2, x) <=> Waits(st, x) \/ x = t
    BY <1>2 DEF p
  <1>5. /\ \A x \in Tasks : st2.tasks[x].registered <=> (x \in X \ {t} \/ Waits(st2, x))
        /\ \A x \in X \ {t} : ~Waits(st2, x)
        /\ \A x \in Tasks \ (X \ {t}) : st2.tasks[x].registered => st2.tasks[x].status = "pending"
    BY <1>2, <1>4 DEF Good
  <1>6. Good(st2, X \ {t})
    BY <1>2, <1>3, <1>5 DEF Good
  <1> QED BY <1>2, <1>6 DEF st2, p

\* The queue q is the queue all without the task t.
Without(q, all, t) == In(t, all) /\ \A x : In(x, q) <=> In(x, all) /\ x # t

\* A queue gives a task: it is in hand.
LEMMA QueueGives ==
  ASSUME NEW st, NEW X \in SUBSET Tasks, Good(st, X), NEW p \in Priorities, NEW t,
         NEW q \in Seq(Tasks), SortedBy(Times(st), q), Distinct(q), Without(q, st.queues[p], t)
  PROVE  LET st2 == WithQueue(st, p, q)
         IN  Good(st2, X \cup {t})
  <1> DEFINE st2 == WithQueue(st, p, q)
  <1>1. TaskPriority[t] = p /\ t \in Tasks
    BY DEF Good, Without
  <1>2. /\ st2 \in StateType /\ SameScheduler(st, st2) /\ st2.tasks = st.tasks /\ st2.queues[p] = q
        /\ \A o \in Priorities \ {p} : st2.queues[o] = st.queues[o]
        /\ \A o \in Priorities : SortedBy(Times(st2), st2.queues[o]) /\ Distinct(st2.queues[o])
        /\ \A x \in Tasks : TaskPriority[x] # p => (Waits(st2, x) <=> Waits(st, x))
        /\ \A x \in Tasks : TaskPriority[x] = p => (Waits(st2, x) <=> In(x, q))
        /\ \A x \in Tasks : TaskPriority[x] = p => (Waits(st, x) <=> In(x, st.queues[p]))
    BY QueueChanges
  <1> HIDE DEF st2
  <1>3. \A o \in Priorities : \A x : In(x, st2.queues[o]) => x \in Tasks /\ TaskPriority[x] = o
    BY <1>2 DEF Good, Without
  <1>4. \A x \in Tasks : Waits(st2, x) <=> Waits(st, x) /\ x # t
    BY <1>1, <1>2 DEF Without
  <1>5. Waits(st, t)
    BY <1>1 DEF Waits, Without
  <1>6. /\ \A x \in Tasks : st2.tasks[x].registered <=> (x \in X \cup {t} \/ Waits(st2, x))
        /\ \A x \in X \cup {t} : ~Waits(st2, x)
        /\ \A x \in Tasks \ (X \cup {t}) : st2.tasks[x].registered => st2.tasks[x].status = "pending"
    BY <1>1, <1>2, <1>4, <1>5 DEF Good
  <1>7. Good(st2, X \cup {t})
    BY <1>2, <1>3, <1>6 DEF Good
  <1> QED BY <1>7 DEF st2

\* scheduleTaskIfValid() puts a task that is in hand in its queue, or unregisters it.
LEMMA ScheduleKeeps ==
  ASSUME NEW st, NEW X \in SUBSET Tasks, Good(st, X), NEW t \in X, NEW delay \in Nat, taskTime \in Nat
  PROVE  /\ Good(Schedule(st, t, delay), X \ {t}) /\ SameScheduler(st, Schedule(st, t, delay))
         /\ \A x \in Tasks \ {t} : Schedule(st, t, delay).tasks[x] = st.tasks[x]
  <1> DEFINE rec == [st.tasks[t] EXCEPT !.status = "pending", !.timestamp = taskTime + delay]
             due == WithTask(st, t, rec)
             p == TaskPriority[t]
             q == InsertInQueue(due, due.queues[p], t)
  <1>1. t \in Tasks /\ st \in StateType /\ ~Waits(st, t) /\ p \in Priorities /\ st.tasks[t] \in TaskType
        /\ st.tasks[t].registered
    BY TaskManagerAssumption DEF Good, StateType
  <1>2. CASE st.tasks[t].iteration < TaskIterations[t]
    <2>1. rec \in TaskType /\ rec.registered /\ rec.status = "pending"
      <3>1. taskTime + delay \in Nat
        OBVIOUS
      <3> QED BY <1>1, <3>1 DEF TaskType
    <2>2. Schedule(st, t, delay) = WithQueue(due, p, q)
      <3>1. [st EXCEPT !.tasks[t].status = "pending", !.tasks[t].timestamp = taskTime + delay] = due
        BY <1>1 DEF StateType, TaskType, WithTask
      <3> QED BY <1>2, <3>1 DEF Schedule, WithQueue
    <2> HIDE DEF rec
    <2>3. Good(due, X) /\ SameScheduler(st, due) /\ due.queues = st.queues /\ due.tasks[t] = rec
          /\ \A x \in Tasks \ {t} : due.tasks[x] = st.tasks[x]
      <3>1. X = X \cup {t}
        OBVIOUS
      <3>2. Good(due, X)
        BY <1>1, <2>1, <3>1, TaskChanges
      <3> QED BY <1>1, <2>1, <3>2, TaskFrame
    <2> HIDE DEF due
    <2>4. due \in StateType /\ due.queues[p] \in Seq(Tasks) /\ ~In(t, due.queues[p])
          /\ SortedBy(Times(due), due.queues[p]) /\ Distinct(due.queues[p])
      BY <1>1, <2>3 DEF Good, StateType, Waits
    <2>5. q \in Seq(Tasks) /\ SortedBy(Times(due), q) /\ Distinct(q)
          /\ \A x : In(x, q) <=> In(x, due.queues[p]) \/ x = t
      BY <1>1, <2>4, InsertInQueueKeeps
    <2> HIDE DEF q
    <2>7. WithQueue(due, p, q).tasks = due.tasks
      BY <1>1, <2>4, <2>5, QueueFrame
    <2>6. Good(WithQueue(due, p, q), X \ {t}) /\ SameScheduler(due, WithQueue(due, p, q))
      <3>1. due.tasks[t].status = "pending"
        BY <2>1, <2>3
      <3> QED BY <2>3, <2>5, <3>1, QueueTakes
    <2> QED BY <2>2, <2>3, <2>6, <2>7 DEF SameScheduler
  <1>3. CASE ~(st.tasks[t].iteration < TaskIterations[t])
    <2>1. Unregistered \in TaskType /\ ~Unregistered.registered
      BY DEF Unregistered, TaskType
    <2>2. Schedule(st, t, delay) = WithTask(st, t, Unregistered)
      BY <1>3 DEF Schedule, WithTask
    <2>3. Good(WithTask(st, t, Unregistered), X \ {t})
      BY <1>1, <2>1, TaskChanges
    <2> QED BY <1>1, <2>1, <2>2, <2>3, TaskFrame
  <1> QED BY <1>2, <1>3

\* What the scheduler keeps for itself does not matter to the tasks and their queues.
LEMMA SchedulerChanges ==
  ASSUME NEW st, NEW X \in SUBSET Tasks, Good(st, X),
         NEW st2 \in StateType, st2.tasks = st.tasks, st2.queues = st.queues
  PROVE  Good(st2, X)
  <1>1. Times(st2) = Times(st) /\ \A t : Waits(st2, t) <=> Waits(st, t)
    BY DEF Times, Waits
  <1> QED BY <1>1 DEF Good

\* As long as a task waits the scheduler runs, or its timer is set for no later than that task.
Armed(st) ==
  \A p \in Priorities : \A t : In(t, st.queues[p]) =>
    st.running \/ (st.instance /\ st.at <= Times(st)[t])

\* The earliest of the first tasks of the queues is the earliest of all tasks.
LEMMA EarliestIsFirst ==
  ASSUME NEW st, NEW X \in SUBSET Tasks, Good(st, X)
  PROVE  /\ NextTimestamps(st) \in SUBSET Nat
         /\ \A m \in NextTimestamps(st) :
              \E p \in Priorities : \E i \in DOMAIN st.queues[p] : m = Times(st)[st.queues[p][i]]
         /\ \A p \in Priorities : \A i \in DOMAIN st.queues[p] :
              NextTimestamps(st) # {} /\ Min(NextTimestamps(st)) <= Times(st)[st.queues[p][i]]
  <1>1. st \in StateType /\ Times(st) \in [Tasks -> Nat] /\ \A t \in Tasks : Times(st)[t] = st.tasks[t].timestamp
    BY DEF Good, StateType, TaskType, Times
  <1>2. ASSUME NEW p \in Priorities, st.queues[p] # <<>>
        PROVE  /\ 1 \in DOMAIN st.queues[p] /\ Head(st.queues[p]) = st.queues[p][1]
               /\ Head(st.queues[p]) \in Tasks
    <2> DEFINE q == st.queues[p]
    <2>1. q \in Seq(Tasks)
      BY <1>1 DEF StateType
    <2> HIDE DEF q
    <2>2. q # <<>>
      BY <1>2 DEF q
    <2>3. 1 \in DOMAIN q /\ Head(q) = q[1] /\ Head(q) \in Tasks
      BY <2>1, <2>2, LenProperties, HeadTailProperties, EmptySeq
    <2> QED BY <2>3 DEF q
  <1>3. NextTimestamps(st) \in SUBSET Nat
    BY <1>1, <1>2 DEF NextTimestamps
  <1>4. ASSUME NEW p \in Priorities, st.queues[p] # <<>>
        PROVE  Times(st)[st.queues[p][1]] \in NextTimestamps(st)
    <2>1. Times(st)[st.queues[p][1]] = st.tasks[Head(st.queues[p])].timestamp
      BY <1>1, <1>2, <1>4
    <2> QED BY <1>4, <2>1 DEF NextTimestamps
  <1>5. ASSUME NEW m \in NextTimestamps(st)
        PROVE  \E p \in Priorities : \E i \in DOMAIN st.queues[p] : m = Times(st)[st.queues[p][i]]
    <2>1. PICK p \in Priorities : st.queues[p] # <<>> /\ m = st.tasks[Head(st.queues[p])].timestamp
      BY DEF NextTimestamps
    <2> QED BY <1>1, <1>2, <2>1
  <1>6. ASSUME NEW p \in Priorities, NEW i \in DOMAIN st.queues[p]
        PROVE  NextTimestamps(st) # {} /\ Min(NextTimestamps(st)) <= Times(st)[st.queues[p][i]]
    <2> DEFINE q == st.queues[p]
               first == Times(st)[q[1]]
               this == Times(st)[q[i]]
    <2>1. q \in Seq(Tasks) /\ SortedBy(Times(st), q)
      BY <1>1 DEF Good, StateType
    <2>2. q # <<>>
      OBVIOUS
    <2>3. 1 \in DOMAIN q /\ q[1] \in Tasks /\ first \in NextTimestamps(st)
      BY <1>2, <1>4, <2>2
    <2> HIDE DEF q
    <2>4. i \in DOMAIN q /\ i \in Nat /\ q[i] \in Tasks /\ (i = 1 \/ 1 < i)
      <3>1. i \in DOMAIN q
        BY DEF q
      <3>2. DOMAIN q = 1 .. Len(q) /\ Len(q) \in Nat
        BY <2>1, LenProperties
      <3> QED BY <2>1, <3>1, <3>2, ElementOfSeq
    <2>5. first \in Nat /\ this \in Nat /\ first <= this
      BY <1>1, <2>1, <2>3, <2>4 DEF SortedBy
    <2>6. Min(NextTimestamps(st)) \in Nat /\ Min(NextTimestamps(st)) <= first
      BY <1>3, <2>3, MinIsIn
    <2> HIDE DEF first, this
    <2>7. Min(NextTimestamps(st)) <= this
      BY <2>5, <2>6
    <2> QED BY <2>3, <2>7 DEF q, this
  <1> QED BY <1>3, <1>5, <1>6

\* triggerTaskScheduler() sets the timer for the earliest task and changes nothing else.
LEMMA TriggerKeeps ==
  ASSUME NEW st, NEW X \in SUBSET Tasks, Good(st, X)
  PROVE  /\ Good(Trigger(st), X) /\ Armed(Trigger(st))
         /\ Trigger(st).executing = st.executing /\ Trigger(st).running = st.running
         /\ Trigger(st).tasks = st.tasks /\ Trigger(st).queues = st.queues
  <1> DEFINE N == NextTimestamps(st)
             st2 == [st EXCEPT !.instance = TRUE, !.at = Min(N)]
  <1>1. st \in StateType /\ Times(st) \in [Tasks -> Nat] /\ st.at \in Nat
        /\ \A p \in Priorities : \A i \in DOMAIN st.queues[p] : st.queues[p][i] \in Tasks
    BY DEF Good, StateType, TaskType, Times, In
  <1>2. /\ N \in SUBSET Nat
        /\ \A p \in Priorities : \A i \in DOMAIN st.queues[p] :
             N # {} /\ Min(N) <= Times(st)[st.queues[p][i]]
    BY EarliestIsFirst
  <1>3. CASE Trigger(st) = st /\ (st.running \/ N = {})
    BY <1>2, <1>3 DEF Armed, In
  <1>4. N # {} => Min(N) \in Nat
    BY <1>2, MinIsIn
  <1> HIDE DEF N
  <1>5. CASE Trigger(st) = st /\ N # {} /\ st.instance /\ st.at <= Min(N)
    <2>1. ASSUME NEW p \in Priorities, NEW i \in DOMAIN st.queues[p]
          PROVE  st.at <= Times(st)[st.queues[p][i]]
      <3>1. Times(st)[st.queues[p][i]] \in Nat /\ Min(N) <= Times(st)[st.queues[p][i]]
        BY <1>1, <1>2
      <3> QED BY <1>1, <1>4, <1>5, <3>1
    <2> QED BY <1>5, <2>1 DEF Armed, In
  <1>6. CASE Trigger(st) = st2 /\ N # {}
    <2>1. st2 \in StateType /\ st2.tasks = st.tasks /\ st2.queues = st.queues /\ st2.instance /\ st2.at = Min(N)
          /\ st2.executing = st.executing /\ st2.running = st.running
      BY <1>1, <1>4, <1>6 DEF StateType
    <2> HIDE DEF st2
    <2>2. Good(st2, X) /\ Times(st2) = Times(st)
      BY <2>1, SchedulerChanges DEF Times
    <2>3. Armed(st2)
      BY <1>2, <2>1, <2>2 DEF Armed, In
    <2> QED BY <1>6, <2>1, <2>2, <2>3
  <1> QED BY <1>3, <1>5, <1>6 DEF Trigger, N

\* The highest priority of a set is one of it, and Max is.
LEMMA MaxPriority ==
  ASSUME NEW T \in SUBSET Priorities, T # {}
  PROVE  Max(T) \in T
  <1>1. \E x \in T : \A y \in T : x >= y
    <2>1. CASE 3 \in T
      BY <2>1 DEF Priorities
    <2>2. CASE 3 \notin T /\ 2 \in T
      BY <2>2 DEF Priorities
    <2>3. CASE 3 \notin T /\ 2 \notin T /\ 1 \in T
      BY <2>3 DEF Priorities
    <2>4. CASE 3 \notin T /\ 2 \notin T /\ 1 \notin T
      <3>1. PICK x \in T : TRUE
        OBVIOUS
      <3>2. \A y \in T : y = 0
        BY <2>4 DEF Priorities
      <3> QED BY <3>1, <3>2
    <2> QED BY <2>1, <2>2, <2>3, <2>4
  <1> QED BY <1>1 DEF Max

\* The task that is executed, as a set.
Executed(st) == {st.executing} \cap Tasks

\* The state between two steps: the task that is executed is the only one in hand, its status is pending, and
\* the scheduler runs as long as there is one.
Well(st) ==
  /\ Good(st, Executed(st)) /\ Armed(st)
  /\ st.running <=> st.executing # "none"
  /\ \A t \in Executed(st) : st.tasks[t].status = "pending"

\* The loop of taskScheduler() takes the next task in hand, or ends and sets the timer.
LEMMA RunNextKeeps ==
  ASSUME NEW st, Good(st, {}), st.running
  PROVE  Well(RunNext(st))
  <1>1. st \in StateType
    BY DEF Good
  <1>2. CASE Ready(st) = {}
    <2> DEFINE s2 == [st EXCEPT !.executing = "none", !.running = FALSE, !.instance = FALSE]
    <2>1. s2 \in StateType /\ s2.tasks = st.tasks /\ s2.queues = st.queues /\ s2.executing = "none" /\ ~s2.running
      BY <1>1 DEF StateType
    <2>2. RunNext(st) = Trigger(s2)
      BY <1>2 DEF RunNext
    <2> HIDE DEF s2
    <2>3. Good(s2, {})
      BY <2>1, SchedulerChanges
    <2>4. Good(Trigger(s2), {}) /\ Armed(Trigger(s2)) /\ Trigger(s2).executing = "none" /\ ~Trigger(s2).running
      BY <2>1, <2>3, TriggerKeeps
    <2>5. Executed(Trigger(s2)) = {}
      BY <2>4, TaskManagerAssumption DEF Executed
    <2> QED BY <2>2, <2>4, <2>5 DEF Well
  <1>3. CASE Ready(st) # {}
    <2> DEFINE p == Max(Ready(st))
               q == st.queues[p]
               t == Head(q)
               s2 == WithQueue(st, p, Tail(q))
               s3 == [s2 EXCEPT !.executing = t]
               rec == [st.tasks[t] EXCEPT !.iteration = @ + 1]
               s4 == WithTask(s3, t, rec)
    <2>1. p \in Priorities /\ q # <<>>
      <3>1. Ready(st) \in SUBSET Priorities
        BY DEF Ready
      <3>2. p \in Ready(st)
        BY <1>3, <3>1, MaxPriority
      <3> QED BY <3>2 DEF Ready
    <2>2. RunNext(st) = s4
      <3>1. RunNext(st) = [st EXCEPT !.queues[p] = Tail(@), !.executing = t, !.tasks[t].iteration = @ + 1]
        BY <1>3 DEF RunNext
      <3>2. s4 = [st EXCEPT !.queues[p] = Tail(@), !.executing = t, !.tasks[t].iteration = @ + 1]
        BY <1>1, <2>1 DEF WithQueue, WithTask, StateType
      <3> QED BY <3>1, <3>2
    <2> HIDE DEF p
    <2>3. q \in Seq(Tasks) /\ SortedBy(Times(st), q) /\ Distinct(q) /\ Times(st) \in [Tasks -> Nat]
      BY <1>1, <2>1 DEF Good, StateType, TaskType, Times
    <2>4. /\ Tail(q) \in Seq(Tasks) /\ SortedBy(Times(st), Tail(q)) /\ Distinct(Tail(q))
          /\ \A x : In(x, Tail(q)) <=> In(x, q) /\ x # t
          /\ In(t, q) /\ t \in Tasks
      BY <2>1, <2>3, TailKeeps
    <2>5. TaskPriority[t] = p /\ st.tasks[t].registered /\ st.tasks[t].status = "pending"
      BY <2>1, <2>4 DEF Good, Waits
    <2> HIDE DEF q, t
    <2>6. Good(s2, {t}) /\ s2.tasks = st.tasks /\ s2.running
      <3>1. Without(Tail(q), st.queues[p], t)
        BY <2>4 DEF Without, q
      <3>2. p \in Priorities /\ Tail(q) \in Seq(Tasks) /\ SortedBy(Times(st), Tail(q)) /\ Distinct(Tail(q))
        BY <2>1, <2>4
      <3>3. {} \cup {t} = {t} /\ {} \in SUBSET Tasks
        OBVIOUS
      <3>4. Good(s2, {} \cup {t}) /\ SameScheduler(st, s2) /\ s2.tasks = st.tasks
        <4> DEFINE r == Tail(q)
        <4>1. Without(r, st.queues[p], t)
          BY <3>1
        <4>2. p \in Priorities /\ r \in Seq(Tasks) /\ SortedBy(Times(st), r) /\ Distinct(r)
          BY <3>2
        <4> HIDE DEF r
        <4>3. Good(WithQueue(st, p, r), {} \cup {t})
          BY <3>3, <4>1, <4>2, QueueGives
        <4>4. SameScheduler(st, WithQueue(st, p, r)) /\ WithQueue(st, p, r).tasks = st.tasks
          BY <1>1, <4>2, QueueFrame
        <4> QED BY <4>3, <4>4 DEF r
      <3> QED BY <3>3, <3>4 DEF SameScheduler
    <2> HIDE DEF s2
    <2>7. Good(s3, {t}) /\ s3.tasks = st.tasks /\ s3.running /\ s3.executing = t
      <3>1. s2 \in StateType
        BY <2>6 DEF Good
      <3>2. s3 \in StateType /\ s3.tasks = s2.tasks /\ s3.queues = s2.queues /\ s3.running = s2.running
            /\ s3.executing = t
        BY <2>4, <3>1 DEF StateType
      <3> HIDE DEF s3
      <3>3. {t} \in SUBSET Tasks
        BY <2>4
      <3> QED BY <2>6, <3>2, <3>3, SchedulerChanges
    <2> HIDE DEF s3
    <2>8. rec \in TaskType /\ rec.registered /\ rec.status = "pending"
      <3>1. st.tasks[t] \in TaskType /\ st.tasks[t].iteration + 1 \in Nat
        BY <1>1, <2>4 DEF StateType, TaskType
      <3> QED BY <2>5, <3>1 DEF TaskType
    <2> HIDE DEF rec
    <2>9. Good(s4, {t}) /\ SameScheduler(s3, s4) /\ s4.tasks[t] = rec
      <3>1. ~Waits(s3, t) /\ s3 \in StateType /\ t \in Tasks
        BY <2>4, <2>7 DEF Good
      <3>2. \A S \in SUBSET Tasks : Good(s3, S) => Good(s4, S \cup {t})
        BY <2>8, <3>1, TaskChanges
      <3>3. {t} \cup {t} = {t} /\ {t} \in SUBSET Tasks
        BY <3>1
      <3>4. Good(s4, {t})
        BY <2>7, <3>2, <3>3
      <3> QED BY <2>8, <3>1, <3>4, TaskFrame
    <2> HIDE DEF s4
    <2>10. s4.running /\ s4.executing = t /\ t # "none" /\ Executed(s4) = {t}
      BY <2>4, <2>7, <2>9, TaskManagerAssumption DEF SameScheduler, Executed
    <2>11. Armed(s4)
      BY <2>10 DEF Armed
    <2> QED BY <2>2, <2>8, <2>9, <2>10, <2>11 DEF Well
  <1> QED BY <1>2, <1>3

-----------------------------------------------------------------------------
(* The steps.                                                               *)

TaskInv == taskTime \in Nat /\ Well(TaskState)

\* The fields of the state.
LEMMA TaskStateIs ==
  /\ TaskState.tasks = tasks /\ TaskState.queues = taskQueues /\ TaskState.executing = executing
  /\ TaskState.instance = schedulerInstance /\ TaskState.at = schedulerTimestamp
  /\ TaskState.running = schedulerRunning
  BY DEF TaskState

\* A step that becomes a state leaves it.
LEMMA BecomesIs ==
  ASSUME NEW st \in StateType, Becomes(st)
  PROVE  TaskState' = st
  BY DEF Becomes, TaskState, StateType

\* findInQueue() finds nothing but places of the task.
LEMMA QueuedIsThere ==
  ASSUME NEW t \in Tasks
  PROVE  \A i \in Queued(t) : i \in DOMAIN taskQueues[TaskPriority[t]] /\ taskQueues[TaskPriority[t]][i] = t
  BY DEF Queued, FindInQueue

\* A task that may be unregistered is not executed.
LEMMA ExecutedStays ==
  ASSUME TaskInv, NEW t \in Tasks, tasks[t].registered => CanUnregister(t)
  PROVE  t \notin Executed(TaskState)
  <1> SUFFICES ASSUME t \in Executed(TaskState) PROVE FALSE
    OBVIOUS
  <1>1. tasks[t].registered /\ tasks[t].status = "pending" /\ ~In(t, taskQueues[TaskPriority[t]])
    BY TaskStateIs DEF TaskInv, Well, Good, Waits
  <1>2. Queued(t) = {}
    BY <1>1, QueuedIsThere DEF In
  <1> QED BY <1>1, <1>2 DEF CanUnregister

\* unregister() takes the task out of its queue.
LEMMA RemovedKeeps ==
  ASSUME TaskInv, NEW t \in Tasks, tasks[t].registered, CanUnregister(t)
  PROVE  /\ Good(Removed(t), Executed(TaskState)) /\ SameScheduler(TaskState, Removed(t))
         /\ Armed(Removed(t)) /\ ~Waits(Removed(t), t)
         /\ \A x \in Tasks \ {t} : Removed(t).tasks[x] = tasks[x]
  <1> DEFINE X == Executed(TaskState)
             p == TaskPriority[t]
             all == taskQueues[p]
             q == RemoveAt(all, Min(Queued(t)))
             s2 == WithQueue(TaskState, p, q)
             s3 == WithTask(s2, t, Unregistered)
  <1>1. /\ TaskState \in StateType /\ Good(TaskState, X) /\ Armed(TaskState) /\ X \in SUBSET Tasks
        /\ p \in Priorities /\ all \in Seq(Tasks)
        /\ SortedBy(Times(TaskState), all) /\ Distinct(all) /\ Times(TaskState) \in [Tasks -> Nat]
    BY TaskStateIs, TaskManagerAssumption DEF TaskInv, Well, Good, StateType, TaskType, Executed, Times
  <1>2. t \notin X /\ tasks[t].status = "pending"
    BY ExecutedStays, TaskStateIs DEF TaskInv, Well, Good
  <1>3. Queued(t) # {} /\ Removed(t) = s3
    <2>1. Removed(t) = [TaskState EXCEPT !.queues[p] = RemoveAt(@, Min(Queued(t))), !.tasks[t] = Unregistered]
      BY <1>2 DEF Removed
    <2>2. s3 = [TaskState EXCEPT !.queues[p] = RemoveAt(@, Min(Queued(t))), !.tasks[t] = Unregistered]
      BY <1>1, TaskStateIs DEF WithTask, WithQueue, StateType
    <2> QED BY <1>2, <2>1, <2>2 DEF CanUnregister
  <1> HIDE DEF X, p
  <1>4. Min(Queued(t)) \in 1 .. Len(all) /\ all[Min(Queued(t))] = t
    <2>1. DOMAIN all = 1 .. Len(all) /\ Len(all) \in Nat
      BY <1>1, LenProperties
    <2>2. Queued(t) \in SUBSET Nat /\ \A i \in Queued(t) : i \in DOMAIN all /\ all[i] = t
      BY <2>1, QueuedIsThere DEF p
    <2> QED BY <1>3, <2>1, <2>2, MinIsIn
  <1> HIDE DEF all
  <1>5. q \in Seq(Tasks) /\ SortedBy(Times(TaskState), q) /\ Distinct(q)
        /\ \A x : In(x, q) <=> In(x, all) /\ x # t
    BY <1>1, <1>4, RemoveAtKeeps
  <1> HIDE DEF q
  <1>6. all = TaskState.queues[p]
    BY TaskStateIs DEF all
  <1>7. Without(q, all, t)
    <2>1. In(t, all)
      <3>1. DOMAIN all = 1 .. Len(all)
        BY <1>1, LenProperties
      <3> QED BY <1>4, <3>1 DEF In
    <2> QED BY <1>5, <2>1 DEF Without
  <1>8. Good(s2, X \cup {t})
    BY <1>1, <1>5, <1>6, <1>7, QueueGives
  <1>9. /\ s2 \in StateType /\ SameScheduler(TaskState, s2) /\ s2.tasks = tasks /\ s2.queues[p] = q
        /\ \A o \in Priorities \ {p} : s2.queues[o] = TaskState.queues[o]
    BY <1>1, <1>5, QueueFrame, TaskStateIs
  <1> HIDE DEF s2
  <1>10. /\ Good(s3, X) /\ SameScheduler(s2, s3) /\ s3.queues = s2.queues /\ s3.tasks[t] = Unregistered
         /\ \A x \in Tasks \ {t} : s3.tasks[x] = s2.tasks[x]
    <2>1. Unregistered \in TaskType /\ ~Unregistered.registered
      BY DEF Unregistered, TaskType
    <2>2. X = (X \cup {t}) \ {t} /\ X \cup {t} \in SUBSET Tasks /\ ~Waits(s2, t)
      BY <1>1, <1>2, <1>8 DEF Good
    <2>3. \A S \in SUBSET Tasks : Good(s2, S) => Good(s3, S \ {t})
      BY <2>1, <2>2, TaskChanges
    <2>4. Good(s3, X)
      BY <1>8, <2>2, <2>3
    <2> QED BY <1>9, <2>1, <2>4, TaskFrame
  <1> HIDE DEF s3
  <1>11. Armed(s3)
    <2>1. \A o \in Priorities : \A x : In(x, s3.queues[o]) =>
            In(x, TaskState.queues[o]) /\ x # t /\ x \in Tasks
      BY <1>1, <1>5, <1>6, <1>9, <1>10 DEF Good, p
    <2>2. \A x \in Tasks \ {t} : Times(s3)[x] = Times(TaskState)[x]
      BY <1>9, <1>10, TaskStateIs DEF Times
    <2> QED BY <1>1, <1>9, <1>10, <2>1, <2>2 DEF Armed, SameScheduler
  <1>12. ~Waits(s3, t)
    BY <1>5, <1>9, <1>10 DEF Waits, p
  <1> QED BY <1>3, <1>9, <1>10, <1>11, <1>12 DEF SameScheduler, X

\* What RunNext and Trigger make of a good state is what a step leaves.
LEMMA StepLeaves ==
  ASSUME NEW st, Well(st), Becomes(st), taskTime' \in Nat
  PROVE  TaskInv'
  <1>1. st \in StateType
    BY DEF Well, Good
  <1>2. TaskState' = st
    BY <1>1, BecomesIs
  <1>3. Well(TaskState')
    BY <1>2
  <1> QED BY <1>3 DEF TaskInv, Well, Good, Armed, Executed, Waits, Times, StateType, TaskType, Priorities

\* unregister() either fails its assertion and changes nothing or takes the task out.
LEMMA UnregisterStep ==
  ASSUME TaskInv, NEW t \in Tasks, Unregister(t)
  PROVE  TaskInv'
  <1>1. taskTime' \in Nat /\ tasks[t].registered
    BY DEF Unregister, Counted, TaskInv
  <1>2. CASE CanUnregister(t)
    <2> DEFINE r == Removed(t)
    <2>1. Becomes(r)
      BY <1>2 DEF Unregister
    <2>2. /\ Good(r, Executed(TaskState)) /\ SameScheduler(TaskState, r) /\ Armed(r)
          /\ \A x \in Tasks \ {t} : r.tasks[x] = tasks[x]
      BY <1>1, <1>2, RemovedKeeps
    <2> HIDE DEF r
    <2>3. t \notin Executed(TaskState)
      BY <1>2, ExecutedStays
    <2>4. Well(r)
      BY <2>2, <2>3, TaskStateIs DEF Well, SameScheduler, Executed, TaskInv
    <2> QED BY <1>1, <2>1, <2>4, StepLeaves
  <1>3. CASE ~CanUnregister(t)
    BY <1>1, <1>3, StepLeaves DEF Unregister, TaskInv
  <1> QED BY <1>2, <1>3

\* register() replaces a task of the same name, unless that one is executed.
LEMMA RegisterStep ==
  ASSUME TaskInv, NEW t \in Tasks, Register(t)
  PROVE  TaskInv'
  <1> DEFINE X == Executed(TaskState)
             new == [Unregistered EXCEPT !.registered = TRUE]
             free == IF tasks[t].registered THEN Removed(t) ELSE TaskState
             s2 == WithTask(free, t, new)
             s3 == Schedule(s2, t, TaskDelay[t])
             s4 == Trigger(s3)
  <1>1. taskTime' \in Nat /\ taskTime \in Nat /\ X \in SUBSET Tasks /\ TaskDelay[t] \in Nat
    BY TaskManagerAssumption DEF Register, Counted, TaskInv, Executed
  <1>2. CASE tasks[t].registered /\ ~CanUnregister(t)
    BY <1>1, <1>2, StepLeaves DEF Register, TaskInv
  <1>3. CASE ~(tasks[t].registered /\ ~CanUnregister(t))
    <2>1. Becomes(s4)
      BY <1>3 DEF Register, WithTask
    <2>2. t \notin X
      BY <1>3, ExecutedStays
    <2>3. /\ Good(free, X) /\ SameScheduler(TaskState, free) /\ ~Waits(free, t)
          /\ \A x \in Tasks \ {t} : free.tasks[x] = tasks[x]
      <3>1. CASE tasks[t].registered
        BY <1>3, <3>1, RemovedKeeps
      <3>2. CASE ~tasks[t].registered
        BY <2>2, <3>2, TaskStateIs DEF TaskInv, Well, Good, SameScheduler
      <3> QED BY <3>1, <3>2
    <2>4. new \in TaskType /\ new.registered
      BY DEF Unregistered, TaskType
    <2> HIDE DEF free, new, X
    <2>5. Good(s2, X \cup {t})
      BY <1>1, <2>3, <2>4, TaskChanges
    <2>6. SameScheduler(free, s2) /\ \A x \in Tasks \ {t} : s2.tasks[x] = free.tasks[x]
      BY <2>3, <2>4, TaskFrame DEF Good
    <2> HIDE DEF s2
    <2>7. Good(s3, X) /\ SameScheduler(s2, s3) /\ \A x \in Tasks \ {t} : s3.tasks[x] = s2.tasks[x]
      <3>1. X \cup {t} \in SUBSET Tasks /\ t \in X \cup {t} /\ (X \cup {t}) \ {t} = X
        BY <1>1, <2>2
      <3>2. \A S \in SUBSET Tasks : Good(s2, S) /\ t \in S
              => /\ Good(s3, S \ {t}) /\ SameScheduler(s2, s3)
                 /\ \A x \in Tasks \ {t} : s3.tasks[x] = s2.tasks[x]
        BY <1>1, ScheduleKeeps
      <3> QED BY <2>5, <3>1, <3>2
    <2> HIDE DEF s3
    <2>8. /\ Good(s4, X) /\ Armed(s4) /\ s4.executing = s3.executing /\ s4.running = s3.running
          /\ s4.tasks = s3.tasks
      BY <1>1, <2>7, TriggerKeeps
    <2> HIDE DEF s4
    <2>9. s4.executing = executing /\ s4.running = schedulerRunning /\ Executed(s4) = X
          /\ \A x \in Tasks \ {t} : s4.tasks[x] = tasks[x]
      BY <2>3, <2>6, <2>7, <2>8, TaskStateIs DEF SameScheduler, Executed, X
    <2>10. Well(s4)
      <3>1. \A x \in X : s4.tasks[x].status = "pending"
        BY <1>1, <2>2, <2>9, TaskStateIs DEF Well, TaskInv, X
      <3>2. s4.running <=> s4.executing # "none"
        BY <2>9, TaskStateIs DEF Well, TaskInv
      <3> QED BY <2>8, <2>9, <3>1, <3>2 DEF Well
    <2> QED BY <1>1, <2>1, <2>10, StepLeaves
  <1> QED BY <1>2, <1>3

\* The timer starts the scheduler.
LEMMA TimerStep ==
  ASSUME TaskInv, TimerExpires
  PROVE  TaskInv'
  <1> DEFINE s2 == [TaskState EXCEPT !.running = TRUE]
  <1>1. taskTime' \in Nat /\ Becomes(RunNext(s2)) /\ ~schedulerRunning
    BY DEF TimerExpires, TaskInv
  <1>2. TaskState \in StateType /\ Executed(TaskState) = {} /\ Good(TaskState, {})
    BY <1>1, TaskStateIs, TaskManagerAssumption DEF TaskInv, Well, Good, Executed
  <1>3. s2 \in StateType /\ s2.tasks = TaskState.tasks /\ s2.queues = TaskState.queues /\ s2.running
    BY <1>2 DEF StateType
  <1> HIDE DEF s2
  <1>4. Good(s2, {})
    BY <1>2, <1>3, SchedulerChanges
  <1>5. Well(RunNext(s2))
    BY <1>3, <1>4, RunNextKeeps
  <1> QED BY <1>1, <1>5, StepLeaves

\* The action ends: its task is scheduled again and the loop goes on.
LEMMA ActionStep ==
  ASSUME TaskInv, ActionEnds
  PROVE  TaskInv'
  <1> DEFINE t == executing
             rec == [tasks[t] EXCEPT !.status = "idle"]
             s2 == WithTask(TaskState, t, rec)
             s3 == Schedule(s2, t, TaskInterval[t])
  <1>1. taskTime' \in Nat /\ taskTime \in Nat /\ t # "none"
    BY DEF ActionEnds, TaskInv
  <1>2. /\ TaskState \in StateType /\ t \in Tasks /\ schedulerRunning
        /\ Executed(TaskState) = {t} /\ Good(TaskState, {t})
    <2>1. TaskState \in StateType
      BY DEF TaskInv, Well, Good
    <2>2. t \in Tasks
      BY <1>1, <2>1, TaskStateIs DEF StateType
    <2>3. Executed(TaskState) = {t}
      BY <2>2, TaskStateIs DEF Executed
    <2> QED BY <1>1, <2>1, <2>2, <2>3, TaskStateIs DEF TaskInv, Well
  <1>3. ~Waits(TaskState, t) /\ tasks[t].registered /\ tasks[t] \in TaskType
    BY <1>2, TaskStateIs DEF Good, StateType
  <1>4. rec \in TaskType /\ rec.registered
    BY <1>3 DEF TaskType
  <1>5. Becomes(RunNext(s3))
    <2>1. [TaskState EXCEPT !.tasks[executing].status = "idle"] = s2
      BY <1>2, TaskStateIs DEF WithTask, StateType
    <2> QED BY <2>1 DEF ActionEnds
  <1> HIDE DEF rec, t
  <1>6. Good(s2, {t})
    <2>1. \A S \in SUBSET Tasks : Good(TaskState, S) => Good(s2, S \cup {t})
      BY <1>2, <1>3, <1>4, TaskChanges
    <2>2. {t} \cup {t} = {t} /\ {t} \in SUBSET Tasks
      BY <1>2
    <2> QED BY <1>2, <2>1, <2>2
  <1>7. SameScheduler(TaskState, s2)
    BY <1>2, <1>4, TaskFrame
  <1> HIDE DEF s2
  <1>8. Good(s3, {}) /\ SameScheduler(s2, s3)
    <2>1. TaskInterval[t] \in Nat /\ {t} \in SUBSET Tasks /\ t \in {t} /\ {t} \ {t} = {}
      BY <1>2, TaskManagerAssumption
    <2>2. \A S \in SUBSET Tasks : Good(s2, S) /\ t \in S => Good(s3, S \ {t}) /\ SameScheduler(s2, s3)
      BY <1>1, <2>1, ScheduleKeeps
    <2> QED BY <1>6, <2>1, <2>2
  <1> HIDE DEF s3
  <1>9. s3.running
    BY <1>2, <1>7, <1>8, TaskStateIs DEF SameScheduler
  <1>10. Well(RunNext(s3))
    BY <1>8, <1>9, RunNextKeeps
  <1> QED BY <1>1, <1>5, <1>10, StepLeaves

\* The initial state.
LEMMA InitIsWell ==
  ASSUME TaskInit
  PROVE  TaskInv
  <1>1. TaskState \in StateType
    <2>1. Unregistered \in TaskType
      BY DEF Unregistered, TaskType
    <2>2. tasks \in [Tasks -> TaskType]
      BY <2>1 DEF TaskInit
    <2>3. <<>> \in Seq(Tasks)
      OBVIOUS
    <2>4. taskQueues \in [Priorities -> Seq(Tasks)]
      BY <2>3 DEF TaskInit
    <2>5. /\ executing \in Tasks \cup {"none"} /\ schedulerInstance \in BOOLEAN
          /\ schedulerTimestamp \in Nat /\ schedulerRunning \in BOOLEAN
      BY DEF TaskInit
    <2> QED BY <2>2, <2>4, <2>5 DEF TaskState, StateType
  <1>2. \A p \in Priorities : TaskState.queues[p] = <<>>
    BY TaskStateIs DEF TaskInit
  <1>3. \A p \in Priorities : \A t : ~In(t, TaskState.queues[p])
    BY <1>2 DEF In
  <1>4. \A t \in Tasks : ~tasks[t].registered /\ ~Waits(TaskState, t)
    BY <1>3, TaskManagerAssumption DEF TaskInit, Unregistered, Waits
  <1>5. Executed(TaskState) = {} /\ ~schedulerRunning /\ executing = "none"
    BY TaskStateIs, TaskManagerAssumption DEF TaskInit, Executed
  <1>6. \A p \in Priorities : SortedBy(Times(TaskState), TaskState.queues[p]) /\ Distinct(TaskState.queues[p])
    BY <1>2 DEF SortedBy, Distinct
  <1>7. Good(TaskState, {})
    BY <1>1, <1>3, <1>4, <1>6, TaskStateIs DEF Good
  <1>8. Armed(TaskState)
    BY <1>3 DEF Armed
  <1> QED BY <1>5, <1>7, <1>8, TaskStateIs DEF TaskInv, Well, TaskInit

\* Every step keeps the invariant.
LEMMA StepKeeps ==
  ASSUME TaskInv, [TaskNext]_taskVars
  PROVE  TaskInv'
  <1>1. ASSUME NEW t \in Tasks, Register(t) PROVE TaskInv'
    BY <1>1, RegisterStep
  <1>2. ASSUME NEW t \in Tasks, Unregister(t) PROVE TaskInv'
    BY <1>2, UnregisterStep
  <1>3. CASE TimerExpires
    BY <1>3, TimerStep
  <1>4. CASE ActionEnds
    BY <1>4, ActionStep
  <1>5. ASSUME TaskState' = TaskState, taskTime' \in Nat
        PROVE  TaskInv'
    BY <1>5 DEF TaskInv, Well, Good, Armed, Executed, Waits, Times, StateType, TaskType, Priorities
  <1>6. CASE TaskTick
    <2>1. TaskState' = TaskState /\ taskTime' \in Nat
      BY <1>6 DEF TaskTick, TaskState, TaskInv
    <2> QED BY <1>5, <2>1
  <1>7. CASE UNCHANGED taskVars
    <2>1. TaskState' = TaskState /\ taskTime' \in Nat
      BY <1>7 DEF taskVars, TaskState, TaskInv
    <2> QED BY <1>5, <2>1
  <1> QED BY <1>1, <1>2, <1>3, <1>4, <1>6, <1>7 DEF TaskNext

\* The task manager only reaches well-formed states: in all of them the types are right, a registered task that
\* is not executed is pending in the queue of its priority, and the scheduler runs exactly as long as the
\* action of a task is awaited.
THEOREM TaskInvariance == TaskSpec => []TaskInv
  <1>1. TaskInit => TaskInv
    BY InitIsWell
  <1>2. TaskInv /\ [TaskNext]_taskVars => TaskInv'
    BY StepKeeps
  <1> QED BY <1>1, <1>2, PTL DEF TaskSpec

\* The places of a task in the queues are none or one.
LEMMA PlacesOfTask ==
  ASSUME TaskInv, NEW t \in Tasks
  PROVE  /\ ~Waits(TaskState, t) => InQueue(t) = {}
         /\ Waits(TaskState, t) => \E x : InQueue(t) = {x}
  <1> DEFINE p == TaskPriority[t]
  <1>1. /\ p \in Priorities
        /\ \A o \in Priorities : In(t, taskQueues[o]) => o = p
        /\ Distinct(taskQueues[p])
    BY TaskStateIs, TaskManagerAssumption DEF TaskInv, Well, Good
  <1>2. Waits(TaskState, t) <=> In(t, taskQueues[p])
    BY TaskStateIs DEF Waits
  <1> HIDE DEF p
  <1>3. \A x : x \in InQueue(t) <=>
          \E o \in Priorities : \E i \in DOMAIN taskQueues[o] : x = <<o, i>> /\ taskQueues[o][i] = t
    BY DEF InQueue, QueuePlaces
  <1>4. ASSUME ~In(t, taskQueues[p]) PROVE InQueue(t) = {}
    BY <1>1, <1>3, <1>4 DEF In
  <1>5. ASSUME In(t, taskQueues[p]) PROVE \E x : InQueue(t) = {x}
    <2>1. PICK i \in DOMAIN taskQueues[p] : taskQueues[p][i] = t
      BY <1>5 DEF In
    <2>2. <<p, i>> \in InQueue(t)
      BY <1>1, <1>3, <2>1
    <2>3. ASSUME NEW x \in InQueue(t) PROVE x = <<p, i>>
      <3>0. PICK o \in Priorities : \E j \in DOMAIN taskQueues[o] : x = <<o, j>> /\ taskQueues[o][j] = t
        BY <1>3
      <3>1. PICK j \in DOMAIN taskQueues[o] : x = <<o, j>> /\ taskQueues[o][j] = t
        BY <3>0
      <3>2. o = p
        BY <1>1, <3>1 DEF In
      <3>3. j = i
        BY <1>1, <2>1, <3>1, <3>2 DEF Distinct
      <3> QED BY <3>1, <3>2, <3>3
    <2>4. InQueue(t) = {<<p, i>>}
      BY <2>2, <2>3
    <2> QED BY <2>4
  <1> QED BY <1>2, <1>4, <1>5

\* What the invariant says of the queues, of the places of the tasks and of the timer.
LEMMA InvIsSafe ==
  ASSUME TaskInv
  PROVE  TasksSafe
  <1>1. QueuesSorted
    <2> SUFFICES ASSUME NEW p \in Priorities, NEW i \in DOMAIN taskQueues[p], NEW j \in DOMAIN taskQueues[p], i < j
                 PROVE  tasks[taskQueues[p][i]].timestamp <= tasks[taskQueues[p][j]].timestamp
      BY DEF QueuesSorted
    <2>1. SortedBy(Times(TaskState), taskQueues[p]) /\ taskQueues[p][i] \in Tasks /\ taskQueues[p][j] \in Tasks
      BY TaskStateIs DEF TaskInv, Well, Good, In
    <2>2. \A t \in Tasks : Times(TaskState)[t] = tasks[t].timestamp
      BY TaskStateIs DEF Times
    <2> QED BY <2>1, <2>2 DEF SortedBy
  <1>2. TaskInOnePlace
    <2> SUFFICES ASSUME NEW t \in Tasks
                 PROVE  Cardinality(InQueue(t)) + (IF executing = t THEN 1 ELSE 0)
                          = (IF tasks[t].registered THEN 1 ELSE 0)
      BY DEF TaskInOnePlace
    <2>1. /\ tasks[t].registered <=> (executing = t \/ Waits(TaskState, t))
          /\ executing = t => ~Waits(TaskState, t)
      BY TaskStateIs DEF TaskInv, Well, Good, Executed
    <2>2. ~Waits(TaskState, t) => Cardinality(InQueue(t)) = 0
      BY PlacesOfTask, FS_EmptySet, Zenon
    <2>3. Waits(TaskState, t) => Cardinality(InQueue(t)) = 1
      BY PlacesOfTask, FS_Singleton, Zenon
    <2> QED BY <2>1, <2>2, <2>3
  <1>3. SchedulerArmed
    <2> DEFINE N == NextTimestamps(TaskState)
    <2> SUFFICES ASSUME N # {}, ~schedulerRunning
                 PROVE  schedulerInstance /\ schedulerTimestamp <= Min(N)
      BY DEF SchedulerArmed
    <2>1. Good(TaskState, Executed(TaskState)) /\ Executed(TaskState) \in SUBSET Tasks
      BY DEF TaskInv, Well, Executed
    <2>2. /\ N \in SUBSET Nat
          /\ \A m \in N : \E p \in Priorities : \E i \in DOMAIN TaskState.queues[p] :
               m = Times(TaskState)[TaskState.queues[p][i]]
      BY <2>1, EarliestIsFirst
    <2> HIDE DEF N
    <2>3. Min(N) \in N
      BY <2>2, MinIsIn
    <2>0. PICK p \in Priorities :
            \E i \in DOMAIN TaskState.queues[p] : Min(N) = Times(TaskState)[TaskState.queues[p][i]]
      BY <2>2, <2>3
    <2>4. PICK i \in DOMAIN TaskState.queues[p] : Min(N) = Times(TaskState)[TaskState.queues[p][i]]
      BY <2>0
    <2>5. In(TaskState.queues[p][i], TaskState.queues[p])
      BY <2>4 DEF In
    <2> QED BY <2>4, <2>5, TaskStateIs DEF TaskInv, Well, Armed
  <1> QED BY <1>1, <1>2, <1>3 DEF TasksSafe

\* findInQueue() misses no task that waits: in a sorted queue its binary search ends among the entries with
\* the time of the task, from where it reaches them all.
LEMMA WaitingIsQueued ==
  ASSUME TaskInv, NEW t \in Tasks, Waits(TaskState, t)
  PROVE  Queued(t) # {}
  <1> DEFINE all == taskQueues[TaskPriority[t]]
             due == Due(TaskState, all)
             ts == tasks[t].timestamp
             last == Search(due, ts) + 1
             n == Len(all)
  <1>1. /\ TaskState \in StateType /\ all \in Seq(Tasks) /\ SortedBy(Times(TaskState), all)
        /\ ts \in Nat /\ ts = Times(TaskState)[t]
    BY TaskStateIs, TaskManagerAssumption DEF TaskInv, Well, Good, StateType, TaskType, Times
  <1>2. PICK i \in DOMAIN all : all[i] = t
    BY TaskStateIs DEF Waits, In
  <1>3. n \in Nat /\ DOMAIN all = 1 .. n /\ \A j \in 1 .. n : all[j] \in Tasks
    BY <1>1, LenProperties, ElementOfSeq
  <1> HIDE DEF all, due, ts, n
  <1>4. /\ due \in Seq(Nat) /\ Len(due) = n /\ DOMAIN due = 1 .. n /\ Ascends(due)
        /\ \A j \in 1 .. n : due[j] = Times(TaskState)[all[j]]
    BY <1>1, <1>3, DueIs DEF due, n
  <1>5. \A j \in 1 .. n : due[j] = tasks[all[j]].timestamp /\ due[j] \in Nat
    BY <1>1, <1>3, <1>4, TaskStateIs DEF Times, StateType, TaskType
  <1>6. i \in 1 .. n /\ due[i] = ts
    BY <1>1, <1>2, <1>3, <1>4
  <1>7. Found(due, ts, Search(due, ts))
    BY <1>1, <1>4, SearchFinds
  <1>8. Search(due, ts) \in 0 .. n - 1 /\ due[Search(due, ts) + 1] = ts
    <2> DEFINE r == Search(due, ts)
    <2> HIDE DEF r
    <2>1. CASE r \in 0 .. n - 1 /\ (\A j \in 1 .. r + 1 : due[j] < ts) /\ (\A j \in r + 2 .. n : due[j] > ts)
      <3>1. i \in 1 .. r + 1 \/ i \in r + 2 .. n
        BY <1>3, <1>6, <2>1
      <3> QED BY <1>1, <1>6, <2>1, <3>1
    <2>2. CASE r \in 0 .. n /\ (\A j \in 1 .. r : due[j] < ts) /\ (\A j \in r + 1 .. n : due[j] > ts)
      <3>1. i \in 1 .. r \/ i \in r + 1 .. n
        BY <1>3, <1>6, <2>2
      <3> QED BY <1>1, <1>6, <2>2, <3>1
    <2> QED BY <1>4, <1>7, <2>1, <2>2 DEF Found, r
  <1>9. last \in 1 .. n /\ due[last] = ts
    BY <1>3, <1>8
  <1> HIDE DEF last
  <1>10. ASSUME NEW j \in 1 .. n, j \in i .. last \/ j \in last .. i
         PROVE  tasks[all[j]].timestamp = ts
    <2>1. ASSUME NEW a \in 1 .. n, NEW b \in 1 .. n, a <= b PROVE due[a] <= due[b]
      <3>1. CASE a = b
        BY <1>5, <3>1
      <3>2. CASE a < b
        BY <1>4, <3>2 DEF Ascends
      <3> QED BY <1>3, <2>1, <3>1, <3>2
    <2>2. due[j] <= ts /\ ts <= due[j]
      <3>1. CASE i <= j /\ j <= last
        BY <1>6, <1>9, <2>1, <3>1
      <3>2. CASE last <= j /\ j <= i
        BY <1>6, <1>9, <2>1, <3>2
      <3> QED BY <1>3, <1>6, <1>9, <1>10, <3>1, <3>2
    <2> QED BY <1>1, <1>5, <2>2
  <1>11. i \in Queued(t)
    BY <1>2, <1>3, <1>6, <1>10, TaskStateIs DEF Queued, FindInQueue, all, due, ts, last
  <1> QED BY <1>11

\* The assertion of unregister() fails for the task that is executed, for which it must, and for no other one.
OnlyExecutedStays == \A t \in Tasks : tasks[t].registered => (CanUnregister(t) <=> executing # t)

\* A task can be unregistered, or replaced by another one of its name, whenever its action is not awaited: the
\* binary search of findInQueue() always finds it, whatever the tasks that are due at the same time.
THEOREM WaitingTasksAreFound == TaskSpec => []OnlyExecutedStays
  <1>1. TaskInv => OnlyExecutedStays
    <2> SUFFICES ASSUME TaskInv, NEW t \in Tasks, tasks[t].registered
                 PROVE  CanUnregister(t) <=> executing # t
      BY DEF OnlyExecutedStays
    <2>1. t \in Executed(TaskState) <=> executing = t
      BY TaskStateIs, TaskManagerAssumption DEF Executed
    <2>2. CASE executing = t
      BY <2>1, <2>2, ExecutedStays
    <2>3. CASE executing # t
      <3>1. Waits(TaskState, t)
        BY <2>1, <2>3, TaskStateIs DEF TaskInv, Well, Good
      <3> QED BY <2>3, <3>1, WaitingIsQueued DEF CanUnregister
    <2> QED BY <2>2, <2>3
  <1> QED BY <1>1, TaskInvariance, PTL

\* The queues of the task manager stay sorted, which its binary searches and popNextTask() rely on; a
\* registered task is queued once or executed, never both; and as long as a task waits the scheduler runs or its
\* timer is set for no later than that task, so that no task is forgotten.
THEOREM TasksAreSafe == TaskSpec => []TasksSafe
  <1>1. TaskInv => TasksSafe
    BY InvIsSafe
  <1> QED BY <1>1, TaskInvariance, PTL

-----------------------------------------------------------------------------
(* Sums of the values of a function.                                        *)

AnyOf(s) == CHOOSE x \in s : TRUE
\* One step of a sum over the set s, when f gives the sums over smaller sets.
SumStep(w, f, s) == IF s = {} THEN 0 ELSE w[AnyOf(s)] + f[s \ {AnyOf(s)}]
SumsOf(S, w, f) == \A s \in SUBSET S : f[s] = SumStep(w, f, s)
SumsUpTo(S, w, f, k) == \A s \in SUBSET S : Cardinality(s) <= k => f[s] = SumStep(w, f, s)

\* A set that is not empty has fewer elements without one of them.
LEMMA OneLess ==
  ASSUME NEW S, IsFiniteSet(S), NEW s \in SUBSET S, NEW x \in s
  PROVE  /\ Cardinality(s) \in Nat /\ Cardinality(s \ {x}) = Cardinality(s) - 1
         /\ Cardinality(s \ {x}) \in Nat /\ s \ {x} \in SUBSET S
  BY FS_Subset, FS_RemoveElement, FS_CardinalityType

\* There are sums over the subsets of a finite set.
LEMMA SumsExistUpTo ==
  ASSUME NEW S, IsFiniteSet(S), NEW w
  PROVE  \A k \in Nat : \E f : SumsUpTo(S, w, f, k)
  <1> DEFINE Fails == {k \in Nat : ~ \E f : SumsUpTo(S, w, f, k)}
  <1> SUFFICES ASSUME Fails # {} PROVE FALSE
    OBVIOUS
  <1>1. PICK k \in Fails : \A m \in Fails : k <= m
    BY Smallest
  <1>2. PICK g : k # 0 => SumsUpTo(S, w, g, k - 1)
    BY <1>1
  <1> DEFINE f == [s \in SUBSET S |-> SumStep(w, g, s)]
  <1>3. ASSUME NEW s \in SUBSET S, Cardinality(s) <= k
        PROVE  f[s] = SumStep(w, f, s)
    <2>1. CASE s = {}
      BY <2>1 DEF SumStep
    <2>2. CASE s # {}
      <3> DEFINE x == AnyOf(s)
                 t == s \ {x}
      <3>1. x \in s
        BY <2>2 DEF AnyOf
      <3>2. Cardinality(s) \in Nat /\ Cardinality(t) = Cardinality(s) - 1 /\ Cardinality(t) \in Nat /\ t \in SUBSET S
        BY <3>1, OneLess
      <3>3. k # 0 /\ Cardinality(t) <= k - 1
        BY <1>3, <3>2
      <3>4. g[t] = SumStep(w, g, t)
        BY <1>2, <3>2, <3>3 DEF SumsUpTo
      <3>5. f[t] = g[t]
        BY <3>2, <3>4
      <3>6. f[s] = SumStep(w, g, s)
        OBVIOUS
      <3> HIDE DEF f
      <3> QED BY <2>2, <3>5, <3>6 DEF SumStep
    <2> QED BY <2>1, <2>2
  <1>4. SumsUpTo(S, w, f, k)
    <2> HIDE DEF f
    <2> QED BY <1>3 DEF SumsUpTo
  <1> QED BY <1>1, <1>4

\* The sum of a function is the last of the sums over the subsets of its domain.
LEMMA SumIsLast ==
  ASSUME NEW w, IsFiniteSet(DOMAIN w)
  PROVE  \E f : SumsOf(DOMAIN w, w, f) /\ SumFunction(w) = f[DOMAIN w]
  <1> DEFINE S == DOMAIN w
             Body(f) == [s \in SUBSET S |-> SumStep(w, f, s)]
             Sums == CHOOSE f : f = Body(f)
  <1>1. \E f : f = Body(f)
    <2>1. Cardinality(S) \in Nat /\ \A s \in SUBSET S : Cardinality(s) <= Cardinality(S)
      BY FS_Subset, FS_CardinalityType
    <2>2. PICK g : SumsUpTo(S, w, g, Cardinality(S))
      BY <2>1, SumsExistUpTo
    <2>3. \A s \in SUBSET S : g[s] = SumStep(w, g, s)
      BY <2>1, <2>2 DEF SumsUpTo
    <2> DEFINE f == [s \in SUBSET S |-> g[s]]
    <2>4. ASSUME NEW s \in SUBSET S PROVE f[s] = SumStep(w, f, s)
      <3>1. s \ {AnyOf(s)} \in SUBSET S
        OBVIOUS
      <3>2. f[s] = g[s] /\ f[s \ {AnyOf(s)}] = g[s \ {AnyOf(s)}]
        BY <3>1
      <3> HIDE DEF f
      <3> QED BY <2>3, <3>2 DEF SumStep
    <2>5. f = [s \in SUBSET S |-> f[s]]
      OBVIOUS
    <2> HIDE DEF f
    <2>6. f = Body(f)
      BY <2>4, <2>5
    <2> QED BY <2>6
  <1>2. Sums = Body(Sums)
    <2> HIDE DEF Body
    <2> QED BY <1>1
  <1>3. SumFunction(w) = Sums[S]
    BY DEF SumFunction, SumFunctionOnSet, FoldFunctionOnSet, MapThenFoldSet, SumStep, AnyOf
  <1>4. SumsOf(S, w, Sums)
    <2> HIDE DEF Sums
    <2>1. \A s \in SUBSET S : Body(Sums)[s] = SumStep(w, Sums, s)
      OBVIOUS
    <2> QED BY <1>2, <2>1 DEF SumsOf
  <1> QED BY <1>3, <1>4

\* The sums over the subsets of a finite set are numbers,
LEMMA SumsAreNumbers ==
  ASSUME NEW S, IsFiniteSet(S), NEW w \in [S -> Int], NEW f, SumsOf(S, w, f)
  PROVE  \A s \in SUBSET S : f[s] \in Int
  <1> DEFINE Fails == {k \in Nat : \E s \in SUBSET S : Cardinality(s) = k /\ f[s] \notin Int}
  <1> SUFFICES ASSUME Fails # {} PROVE FALSE
    BY FS_Subset, FS_CardinalityType
  <1>1. PICK k \in Fails : \A m \in Fails : k <= m
    BY Smallest
  <1>2. PICK s \in SUBSET S : Cardinality(s) = k /\ f[s] \notin Int
    BY <1>1
  <1>3. s # {} /\ f[s] = w[AnyOf(s)] + f[s \ {AnyOf(s)}]
    <2>1. f[s] = SumStep(w, f, s)
      BY DEF SumsOf
    <2> QED BY <1>2, <2>1 DEF SumStep
  <1>4. AnyOf(s) \in s
    BY <1>3 DEF AnyOf
  <1>5. f[s \ {AnyOf(s)}] \in Int
    BY <1>1, <1>2, <1>4, OneLess
  <1> QED BY <1>2, <1>3, <1>4, <1>5

\* in whatever order the elements are taken.
LEMMA SumsTakeAny ==
  ASSUME NEW S, IsFiniteSet(S), NEW w \in [S -> Int], NEW f, SumsOf(S, w, f)
  PROVE  \A s \in SUBSET S : \A x \in s : f[s] = w[x] + f[s \ {x}]
  <1> DEFINE Holds(s) == \A x \in s : f[s] = w[x] + f[s \ {x}]
             Fails == {k \in Nat : \E s \in SUBSET S : Cardinality(s) = k /\ ~Holds(s)}
  <1> SUFFICES ASSUME Fails # {} PROVE FALSE
    BY FS_Subset, FS_CardinalityType
  <1>1. PICK k \in Fails : \A m \in Fails : k <= m
    BY Smallest
  <1>2. PICK s \in SUBSET S : Cardinality(s) = k /\ ~Holds(s)
    BY <1>1
  <1>3. PICK x \in s : f[s] # w[x] + f[s \ {x}]
    BY <1>2
  <1> DEFINE c == AnyOf(s)
             t == s \ {c}
             u == s \ {x}
  <1>4. c \in s /\ f[s] = w[c] + f[t]
    <2>1. f[s] = SumStep(w, f, s)
      BY DEF SumsOf
    <2> QED BY <1>3, <2>1 DEF SumStep, AnyOf
  <1>5. x # c
    BY <1>3, <1>4
  <1>6. /\ Cardinality(t) \in Nat /\ Cardinality(t) = k - 1 /\ t \in SUBSET S
        /\ Cardinality(u) \in Nat /\ Cardinality(u) = k - 1 /\ u \in SUBSET S
    BY <1>2, <1>4, OneLess
  <1>7. Holds(t) /\ Holds(u)
    BY <1>1, <1>6
  <1>8. f[t] = w[x] + f[t \ {x}] /\ f[u] = w[c] + f[u \ {c}]
    BY <1>4, <1>5, <1>7
  <1>9. t \ {x} = u \ {c} /\ t \ {x} \in SUBSET S
    OBVIOUS
  <1>10. w[x] \in Int /\ w[c] \in Int /\ f[t \ {x}] \in Int /\ f[t] \in Int /\ f[u] \in Int
    BY <1>4, <1>6, <1>9, SumsAreNumbers
  <1>11. f[s] = w[x] + f[u]
    <2> DEFINE rest == f[t \ {x}]
    <2>1. f[u] = w[c] + rest
      <3> HIDE DEF t, u, c
      <3> QED BY <1>8, <1>9
    <2> HIDE DEF t, u, c, rest
    <2>2. f[t] = w[x] + rest
      BY <1>8 DEF rest
    <2>3. w[x] \in Int /\ w[c] \in Int /\ rest \in Int
      BY <1>10 DEF rest
    <2> QED BY <1>4, <2>1, <2>2, <2>3
  <1> QED BY <1>3, <1>11

\* The sums over the subsets of a smaller domain are the same.
LEMMA SumsAgree ==
  ASSUME NEW S, IsFiniteSet(S), NEW w, NEW f, SumsOf(S, w, f),
         NEW T \in SUBSET S, NEW v, NEW g, SumsOf(T, v, g), \A x \in T : v[x] = w[x]
  PROVE  \A s \in SUBSET T : f[s] = g[s]
  <1> DEFINE Fails == {k \in Nat : \E s \in SUBSET T : Cardinality(s) = k /\ f[s] # g[s]}
  <1>0. IsFiniteSet(T)
    BY FS_Subset
  <1> SUFFICES ASSUME Fails # {} PROVE FALSE
    BY <1>0, FS_Subset, FS_CardinalityType
  <1>1. PICK k \in Fails : \A m \in Fails : k <= m
    BY Smallest
  <1>2. PICK s \in SUBSET T : Cardinality(s) = k /\ f[s] # g[s]
    BY <1>1
  <1>3. f[s] = SumStep(w, f, s) /\ g[s] = SumStep(v, g, s)
    BY DEF SumsOf
  <1>4. s # {} /\ AnyOf(s) \in s
    BY <1>2, <1>3 DEF SumStep, AnyOf
  <1>5. f[s \ {AnyOf(s)}] = g[s \ {AnyOf(s)}]
    BY <1>0, <1>1, <1>2, <1>4, OneLess
  <1> QED BY <1>2, <1>3, <1>4, <1>5 DEF SumStep

\* A sum over nothing is 0, a sum is a number, and one value can be taken from it.
LEMMA SumOfNothing ==
  ASSUME NEW w, DOMAIN w = {}
  PROVE  SumFunction(w) = 0
  <1>1. PICK f : SumsOf(DOMAIN w, w, f) /\ SumFunction(w) = f[DOMAIN w]
    BY FS_EmptySet, SumIsLast
  <1> QED BY <1>1 DEF SumsOf, SumStep

\* The sum of integers is one.
LEMMA SumIsNumber ==
  ASSUME NEW S, IsFiniteSet(S), NEW w \in [S -> Int]
  PROVE  SumFunction(w) \in Int
  <1>1. PICK f : SumsOf(S, w, f) /\ SumFunction(w) = f[S]
    BY SumIsLast
  <1> QED BY <1>1, SumsAreNumbers

\* A sum is any of its terms and the sum of the others.
LEMMA SumTakes ==
  ASSUME NEW S, IsFiniteSet(S), NEW w \in [S -> Int], NEW x \in S
  PROVE  SumFunction(w) = w[x] + SumFunction([y \in S \ {x} |-> w[y]])
  <1> DEFINE T == S \ {x}
             v == [y \in T |-> w[y]]
  <1>1. PICK f : SumsOf(S, w, f) /\ SumFunction(w) = f[S]
    BY SumIsLast
  <1>2. IsFiniteSet(T) /\ T \in SUBSET S /\ DOMAIN v = T /\ \A y \in T : v[y] = w[y]
    BY FS_Subset
  <1> HIDE DEF v, T
  <1>3. PICK g : SumsOf(T, v, g) /\ SumFunction(v) = g[T]
    BY <1>2, SumIsLast
  <1>4. f[T] = g[T]
    BY <1>1, <1>2, <1>3, SumsAgree
  <1>5. f[S] = w[x] + f[S \ {x}]
    BY <1>1, SumsTakeAny
  <1> QED BY <1>1, <1>3, <1>4, <1>5 DEF v, T

\* The sum without one value, and with another one.
LEMMA SumChanges ==
  ASSUME NEW S, IsFiniteSet(S), NEW w \in [S -> Int], NEW x \in S, NEW n \in Int
  PROVE  SumFunction([w EXCEPT ![x] = n]) = SumFunction(w) - w[x] + n
  <1> DEFINE v == [w EXCEPT ![x] = n]
  <1>1. v \in [S -> Int] /\ v[x] = n /\ [y \in S \ {x} |-> v[y]] = [y \in S \ {x} |-> w[y]]
    OBVIOUS
  <1>2. SumFunction(w) = w[x] + SumFunction([y \in S \ {x} |-> w[y]])
    BY SumTakes
  <1>3. SumFunction(v) = v[x] + SumFunction([y \in S \ {x} |-> v[y]])
    BY <1>1, SumTakes
  <1>4. SumFunction([y \in S \ {x} |-> w[y]]) \in Int
    <2>1. IsFiniteSet(S \ {x}) /\ [y \in S \ {x} |-> w[y]] \in [S \ {x} -> Int]
      BY FS_Subset
    <2> QED BY <2>1, SumIsNumber
  <1>5. w[x] \in Int
    OBVIOUS
  <1> QED BY <1>1, <1>2, <1>3, <1>4, <1>5

\* A sum of zeros is 0.
LEMMA SumOfZeros ==
  ASSUME NEW S, IsFiniteSet(S), NEW w \in [S -> Int], \A x \in S : w[x] = 0
  PROVE  SumFunction(w) = 0
  <1>1. PICK f : SumsOf(S, w, f) /\ SumFunction(w) = f[S]
    BY SumIsLast
  <1> DEFINE Fails == {k \in Nat : \E s \in SUBSET S : Cardinality(s) = k /\ f[s] # 0}
  <1> SUFFICES ASSUME Fails # {} PROVE FALSE
    BY <1>1, FS_CardinalityType
  <1>2. PICK k \in Fails : \A m \in Fails : k <= m
    BY Smallest
  <1>3. PICK s \in SUBSET S : Cardinality(s) = k /\ f[s] # 0
    BY <1>2
  <1>4. f[s] = SumStep(w, f, s)
    BY <1>1 DEF SumsOf
  <1>5. s # {} /\ AnyOf(s) \in s
    BY <1>3, <1>4 DEF SumStep, AnyOf
  <1> DEFINE t == s \ {AnyOf(s)}
  <1>6. f[t] = 0
    <2>1. Cardinality(t) \in Nat /\ Cardinality(t) = k - 1 /\ t \in SUBSET S
      BY <1>3, <1>5, OneLess
    <2> QED BY <1>2, <2>1
  <1> QED BY <1>3, <1>4, <1>5, <1>6 DEF SumStep

\* A sum does not depend on the names of what is added.
Renames(b, S, T) ==
  /\ b \in [S -> T]
  /\ \A x, y \in S : b[x] = b[y] => x = y
  /\ \A y \in T : \E x \in S : b[x] = y

\* A sum does not depend on the names of its terms.
LEMMA SumIsRenamed ==
  ASSUME NEW S, IsFiniteSet(S), NEW w \in [S -> Int], NEW T, IsFiniteSet(T), NEW v \in [T -> Int],
         NEW b, Renames(b, S, T), \A x \in S : w[x] = v[b[x]]
  PROVE  SumFunction(w) = SumFunction(v)
  <1> USE DEF Renames
  <1>1. PICK f : SumsOf(S, w, f) /\ SumFunction(w) = f[S]
    BY SumIsLast
  <1>2. PICK g : SumsOf(T, v, g) /\ SumFunction(v) = g[T]
    BY SumIsLast
  <1> DEFINE To(s) == {b[x] : x \in s}
             Fails == {k \in Nat : \E s \in SUBSET S : Cardinality(s) = k /\ f[s] # g[To(s)]}
  <1>3. To(S) = T
    OBVIOUS
  <1> SUFFICES ASSUME Fails # {} PROVE FALSE
    BY <1>1, <1>2, <1>3, FS_CardinalityType
  <1>4. PICK k \in Fails : \A m \in Fails : k <= m
    BY Smallest
  <1>5. PICK s \in SUBSET S : Cardinality(s) = k /\ f[s] # g[To(s)]
    BY <1>4
  <1>6. s # {}
    <2> SUFFICES ASSUME s = {} PROVE FALSE
      OBVIOUS
    <2>1. f[s] = 0
      BY <1>1 DEF SumsOf, SumStep
    <2>2. To(s) = {} /\ {} \in SUBSET T
      OBVIOUS
    <2>3. g[{}] = 0
      BY <1>2, <2>2 DEF SumsOf, SumStep
    <2> QED BY <1>5, <2>1, <2>2, <2>3
  <1>7. PICK x \in s : TRUE
    BY <1>6
  <1>8. To(s) \in SUBSET T /\ b[x] \in To(s) /\ To(s) \ {b[x]} = To(s \ {x})
    OBVIOUS
  <1>9. f[s] = w[x] + f[s \ {x}]
    BY <1>1, SumsTakeAny
  <1>10. g[To(s)] = v[b[x]] + g[To(s) \ {b[x]}]
    <2> HIDE DEF To
    <2> QED BY <1>2, <1>8, SumsTakeAny
  <1>11. f[s \ {x}] = g[To(s \ {x})]
    <2> HIDE DEF To
    <2> QED BY <1>4, <1>5, OneLess
  <1> QED BY <1>5, <1>8, <1>9, <1>10, <1>11


-----------------------------------------------------------------------------
(* Functions defined by recursion on 0 .. n.                                *)

\* A function that each value of which is made of the one before exists: the CHOOSE behind a
\* recursive function definition has something to choose.
LEMMA RecursionExists ==
  ASSUME NEW X, NEW b \in X, NEW n \in Nat, NEW g \in [1 .. n -> [X -> X]]
  PROVE  \E f \in [0 .. n -> X] : f = [i \in 0 .. n |-> IF i = 0 THEN b ELSE g[i][f[i - 1]]]
  <1> DEFINE Follows(k, f) == f[0] = b /\ \A i \in 1 .. k : f[i] = g[i][f[i - 1]]
             Fails == {k \in 0 .. n : ~ \E f \in [0 .. n -> X] : Follows(k, f)}
  <1>1. Fails = {}
    <2> SUFFICES ASSUME Fails # {} PROVE FALSE
      OBVIOUS
    <2>0. Fails \in SUBSET Nat
      OBVIOUS
    <2>1. PICK k \in Fails : \A m \in Fails : k <= m
      <3> HIDE DEF Fails
      <3> QED BY <2>0, Smallest
    <2>2. CASE k = 0
      <3> DEFINE f == [i \in 0 .. n |-> b]
      <3>1. f \in [0 .. n -> X] /\ Follows(0, f)
        OBVIOUS
      <3> HIDE DEF f
      <3> QED BY <2>1, <2>2, <3>1
    <2>3. CASE k # 0
      <3>k. k \in 0 .. n
        OBVIOUS
      <3>1. k \in 1 .. n /\ k - 1 \in 0 .. n /\ k - 1 \notin Fails
        <4> HIDE DEF Fails
        <4> QED BY <2>1, <2>3, <3>k
      <3>2. PICK h \in [0 .. n -> X] : Follows(k - 1, h)
        <4> HIDE DEF Good
        <4> QED BY <3>1
      <3> DEFINE f == [h EXCEPT ![k] = g[k][h[k - 1]]]
      <3>3. g[k][h[k - 1]] \in X
        BY <3>1
      <3>4. f \in [0 .. n -> X]
        BY <3>1, <3>3
      <3>5. f[0] = b
        BY <3>1, <3>2
      <3>6. ASSUME NEW i \in 1 .. k PROVE f[i] = g[i][f[i - 1]]
        <4>1. CASE i = k
          BY <3>1, <4>1
        <4>2. CASE i # k
          <5>1. i \in 1 .. k - 1 /\ i \in 0 .. n /\ i - 1 \in 0 .. n /\ i - 1 # k
            BY <3>1, <4>2
          <5> QED BY <3>2, <4>2, <5>1
        <4> QED BY <4>1, <4>2
      <3> HIDE DEF f
      <3>7. Follows(k, f)
        BY <3>5, <3>6
      <3> QED BY <2>1, <3>4, <3>7
    <2> QED BY <2>2, <2>3
  <1>2. PICK f \in [0 .. n -> X] : Follows(n, f)
    <2>1. n \in 0 .. n
      OBVIOUS
    <2> HIDE DEF Good
    <2> QED BY <1>1, <2>1
  <1>3. f = [i \in 0 .. n |-> f[i]]
    OBVIOUS
  <1>4. \A i \in 0 .. n : f[i] = IF i = 0 THEN b ELSE g[i][f[i - 1]]
    BY <1>2
  <1> QED BY <1>3, <1>4

-----------------------------------------------------------------------------
(* Sizes of maps.                                                           *)

Names == ToSet(Collections)
Entry == [key : STRING, data : Nat \cup Getters, status : {"value", "error", "fetching"}, size : Nat, timeout : Int]
KeysDiffer(map) == \A i, j \in DOMAIN map : map[i].key = map[j].key => i = j
Maps == {map \in Seq(Entry) : KeysDiffer(map)}
PartOf(r, map) == \A i \in DOMAIN r : \E j \in DOMAIN map : r[i] = map[j]

\* The sizes of the entries of a map are numbers.
LEMMA SizesOfMap ==
  ASSUME NEW map \in Seq(Entry)
  PROVE  /\ Len(map) \in Nat /\ DOMAIN map = 1 .. Len(map) /\ IsFiniteSet(DOMAIN map)
         /\ [i \in DOMAIN map |-> map[i].size] \in [DOMAIN map -> Int]
         /\ \A i \in DOMAIN map : map[i] \in Entry
         /\ TotalSize(map) \in Int
  <1>1. Len(map) \in Nat /\ DOMAIN map = 1 .. Len(map) /\ \A i \in DOMAIN map : map[i] \in Entry
    BY LenProperties, ElementOfSeq
  <1>2. IsFiniteSet(DOMAIN map)
    BY <1>1, FS_Interval
  <1>3. [i \in DOMAIN map |-> map[i].size] \in [DOMAIN map -> Int]
    BY <1>1 DEF Entry
  <1>4. TotalSize(map) \in Int
    BY <1>2, <1>3, SumIsNumber DEF TotalSize
  <1> QED BY <1>1, <1>2, <1>3, <1>4

\* The size of a map: of an empty one,
LEMMA TotalOfNothing == TotalSize(<<>>) = 0
  <1>1. DOMAIN [i \in DOMAIN <<>> |-> <<>>[i].size] = {}
    OBVIOUS
  <1> QED BY <1>1, SumOfNothing DEF TotalSize

\* of one with another entry at its end,
LEMMA TotalOfAppend ==
  ASSUME NEW map \in Seq(Entry), NEW e \in Entry
  PROVE  TotalSize(Append(map, e)) = TotalSize(map) + e.size
  <1> DEFINE n == Len(map)
             more == Append(map, e)
             w == [i \in DOMAIN more |-> more[i].size]
  <1>1. n \in Nat /\ DOMAIN map = 1 .. n
    BY SizesOfMap
  <1>2. more \in Seq(Entry) /\ Len(more) = n + 1 /\ more[n + 1] = e /\ \A i \in 1 .. n : more[i] = map[i]
    BY <1>1, AppendProperties
  <1> HIDE DEF n, more
  <1>3. DOMAIN more = 1 .. n + 1 /\ IsFiniteSet(DOMAIN more) /\ w \in [DOMAIN more -> Int]
    BY <1>2, SizesOfMap
  <1>4. SumFunction(w) = w[n + 1] + SumFunction([i \in (DOMAIN more) \ {n + 1} |-> w[i]])
    <2>1. n + 1 \in DOMAIN more
      BY <1>1, <1>3
    <2> DEFINE S == DOMAIN more
    <2> HIDE DEF w, S
    <2> QED BY <1>3, <2>1, SumTakes DEF S
  <1>5. (DOMAIN more) \ {n + 1} = 1 .. n
    BY <1>1, <1>3
  <1>6. [i \in 1 .. n |-> w[i]] = [i \in DOMAIN map |-> map[i].size]
    BY <1>1, <1>2, <1>3
  <1>7. w[n + 1] = e.size /\ e.size \in Int
    BY <1>1, <1>2, <1>3 DEF Entry
  <1>8. TotalSize(more) = SumFunction(w) /\ TotalSize(map) = SumFunction([i \in DOMAIN map |-> map[i].size])
    BY DEF TotalSize
  <1>9. TotalSize(map) \in Int
    BY SizesOfMap
  <1> HIDE DEF w
  <1>10. TotalSize(more) = e.size + TotalSize(map)
    BY <1>4, <1>5, <1>6, <1>7, <1>8
  <1>11. TotalSize(more) = TotalSize(map) + e.size
    BY <1>7, <1>9, <1>10
  <1> QED BY <1>11 DEF more

\* and of one without one of its entries.
LEMMA TotalOfRemove ==
  ASSUME NEW map \in Seq(Entry), NEW j \in 1 .. Len(map)
  PROVE  TotalSize(RemoveAt(map, j)) = TotalSize(map) - map[j].size
  <1> DEFINE n == Len(map)
             less == RemoveAt(map, j)
             w == [i \in DOMAIN map |-> map[i].size]
             v == [i \in DOMAIN less |-> less[i].size]
             T == (DOMAIN map) \ {j}
             u == [i \in T |-> w[i]]
             b == [i \in 1 .. n - 1 |-> IF i < j THEN i ELSE i + 1]
  <1>1. n \in Nat /\ j \in 1 .. n /\ DOMAIN map = 1 .. n /\ IsFiniteSet(DOMAIN map) /\ w \in [DOMAIN map -> Int]
    BY SizesOfMap
  <1>2. less \in Seq(Entry) /\ Len(less) = n - 1 /\ \A k \in 1 .. n - 1 : less[k] = map[IF k < j THEN k ELSE k + 1]
    BY RemoveAtIs
  <1> HIDE DEF less
  <1>3. DOMAIN less = 1 .. n - 1 /\ IsFiniteSet(DOMAIN less) /\ v \in [DOMAIN less -> Int]
    BY <1>2, SizesOfMap
  <1> HIDE DEF n
  <1>4. IsFiniteSet(T) /\ u \in [T -> Int]
    BY <1>1, FS_Subset
  <1>5. b \in [DOMAIN less -> T]
    BY <1>1, <1>3
  <1>6. \A x, y \in DOMAIN less : b[x] = b[y] => x = y
    BY <1>1, <1>3
  <1>7. ASSUME NEW y \in T PROVE \E x \in DOMAIN less : b[x] = y
    <2>1. CASE y < j
      BY <1>1, <1>3, <2>1
    <2>2. CASE y > j
      <3>1. y - 1 \in DOMAIN less /\ ~(y - 1 < j) /\ (y - 1) + 1 = y
        BY <1>1, <1>3, <2>2
      <3>2. b[y - 1] = y
        BY <1>3, <3>1
      <3> QED BY <3>1, <3>2
    <2>3. y < j \/ y > j
      BY <1>1
    <2> QED BY <2>1, <2>2, <2>3
  <1>8. \A x \in DOMAIN less : v[x] = u[b[x]]
    <2> SUFFICES ASSUME NEW x \in DOMAIN less PROVE v[x] = u[b[x]]
      OBVIOUS
    <2>1. b[x] \in T /\ b[x] = IF x < j THEN x ELSE x + 1
      BY <1>3, <1>5
    <2>2. less[x] = map[b[x]]
      BY <1>2, <1>3, <2>1
    <2>3. u[b[x]] = w[b[x]] /\ w[b[x]] = map[b[x]].size
      BY <2>1
    <2> QED BY <2>2, <2>3
  <1>9. SumFunction(v) = SumFunction(u)
    <2> DEFINE S == DOMAIN less
    <2>1. IsFiniteSet(S) /\ v \in [S -> Int] /\ b \in [S -> T]
      BY <1>3, <1>5
    <2>2. Renames(b, S, T) /\ \A x \in S : v[x] = u[b[x]]
      BY <1>5, <1>6, <1>7, <1>8 DEF Renames
    <2> HIDE DEF u, v, b, T, S
    <2> QED BY <1>4, <2>1, <2>2, SumIsRenamed
  <1>10. SumFunction(w) = w[j] + SumFunction(u)
    <2> HIDE DEF w
    <2> QED BY <1>1, SumTakes
  <1>11. TotalSize(less) = SumFunction(v) /\ TotalSize(map) = SumFunction(w) /\ TotalSize(less) \in Int
    BY <1>2, SizesOfMap DEF TotalSize
  <1>12. w[j] = map[j].size /\ map[j].size \in Int
    BY <1>1
  <1> HIDE DEF u, v, w
  <1> QED BY <1>9, <1>10, <1>11, <1>12 DEF less

-----------------------------------------------------------------------------
(* The operations of a map.                                                 *)

\* The entry of a key that a map has, and that it is the only one.
LEMMA EntryIs ==
  ASSUME NEW map \in Maps, NEW k, Has(map, k)
  PROVE  /\ IndexOf(map, k) \in DOMAIN map /\ EntryOf(map, k) \in Entry /\ EntryOf(map, k).key = k
         /\ \A i \in DOMAIN map : map[i].key = k => i = IndexOf(map, k) /\ map[i] = EntryOf(map, k)
  <1>1. IndexOf(map, k) \in DOMAIN map /\ map[IndexOf(map, k)].key = k
    BY DEF Has, IndexOf
  <1>2. map \in Seq(Entry) /\ KeysDiffer(map)
    BY DEF Maps
  <1>3. map[IndexOf(map, k)] \in Entry
    BY <1>1, <1>2, SizesOfMap
  <1> QED BY <1>1, <1>2, <1>3 DEF EntryOf, KeysDiffer

\* The size of the entry of a key, or 0.
LEMMA SizeAtIs ==
  ASSUME NEW map \in Maps, NEW k
  PROVE  SizeAt(map, k) \in Nat
  BY EntryIs DEF SizeAt, Entry

\* Map.delete().
LEMMA DeleteIs ==
  ASSUME NEW map \in Maps, NEW k
  PROVE  LET r == Delete(map, k) IN
         /\ r \in Maps /\ PartOf(r, map) /\ (\A i \in DOMAIN r : r[i].key # k)
         /\ TotalSize(r) = TotalSize(map) - SizeAt(map, k)
  <1>0. map \in Seq(Entry) /\ KeysDiffer(map)
    BY DEF Maps
  <1>1. Len(map) \in Nat /\ DOMAIN map = 1 .. Len(map) /\ TotalSize(map) \in Int
    BY <1>0, SizesOfMap
  <1>2. CASE ~Has(map, k)
    <2>1. Delete(map, k) = map /\ SizeAt(map, k) = 0
      BY <1>2 DEF Delete, SizeAt
    <2> QED BY <1>1, <1>2, <2>1 DEF Has, PartOf
  <1>3. CASE Has(map, k)
    <2> DEFINE j == IndexOf(map, k)
               r == RemoveAt(map, j)
    <2>1. j \in 1 .. Len(map) /\ map[j].key = k /\ SizeAt(map, k) = map[j].size
      BY <1>1, <1>3, EntryIs DEF SizeAt, EntryOf
    <2>2. Delete(map, k) = r
      BY <1>3 DEF Delete
    <2> HIDE DEF j
    <2>3. /\ r \in Seq(Entry) /\ Len(r) = Len(map) - 1
          /\ \A i \in 1 .. Len(map) - 1 : r[i] = map[IF i < j THEN i ELSE i + 1]
      BY <1>0, <2>1, RemoveAtIs
    <2>4. TotalSize(r) = TotalSize(map) - map[j].size
      BY <1>0, <2>1, TotalOfRemove
    <2> HIDE DEF r
    <2>5. DOMAIN r = 1 .. Len(map) - 1
      BY <2>3, SizesOfMap
    <2>6. ASSUME NEW i \in DOMAIN r
          PROVE  LET x == IF i < j THEN i ELSE i + 1 IN x \in DOMAIN map /\ x # j /\ r[i] = map[x]
      BY <1>1, <2>1, <2>3, <2>5
    <2>7. \A i \in DOMAIN r : r[i].key # k
      BY <1>0, <1>1, <2>1, <2>6 DEF KeysDiffer
    <2>8. KeysDiffer(r)
      <3> SUFFICES ASSUME NEW i \in DOMAIN r, NEW l \in DOMAIN r, r[i].key = r[l].key PROVE i = l
        BY DEF KeysDiffer
      <3> DEFINE x == IF i < j THEN i ELSE i + 1
                 y == IF l < j THEN l ELSE l + 1
      <3>1. x \in DOMAIN map /\ y \in DOMAIN map /\ map[x].key = map[y].key
        BY <2>6
      <3>2. x = y
        BY <1>0, <3>1 DEF KeysDiffer
      <3> QED BY <1>1, <2>1, <2>5, <3>2
    <2> QED BY <2>1, <2>2, <2>3, <2>4, <2>6, <2>7, <2>8 DEF Maps, PartOf
  <1> QED BY <1>2, <1>3

\* An entry at the end of a map that has not its key.
LEMMA AppendIs ==
  ASSUME NEW map \in Maps, NEW e \in Entry, \A i \in DOMAIN map : map[i].key # e.key
  PROVE  LET r == Append(map, e) IN
         /\ r \in Maps /\ (\A i \in DOMAIN r : r[i] = e \/ \E j \in DOMAIN map : r[i] = map[j])
         /\ TotalSize(r) = TotalSize(map) + e.size
  <1> DEFINE n == Len(map)
             r == Append(map, e)
  <1>0. map \in Seq(Entry) /\ KeysDiffer(map)
    BY DEF Maps
  <1>1. n \in Nat /\ DOMAIN map = 1 .. n
    BY <1>0, SizesOfMap
  <1>2. r \in Seq(Entry) /\ Len(r) = n + 1 /\ r[n + 1] = e /\ \A i \in 1 .. n : r[i] = map[i]
    BY <1>0, <1>1, AppendProperties
  <1>3. TotalSize(r) = TotalSize(map) + e.size
    BY <1>0, TotalOfAppend
  <1> HIDE DEF r, n
  <1>4. DOMAIN r = 1 .. n + 1
    BY <1>2, SizesOfMap
  <1>5. ASSUME NEW i \in DOMAIN r PROVE (i = n + 1 /\ r[i] = e) \/ (i \in DOMAIN map /\ r[i] = map[i])
    BY <1>1, <1>2, <1>4
  <1>6. KeysDiffer(r)
    BY <1>0, <1>5 DEF KeysDiffer
  <1> QED BY <1>2, <1>3, <1>5, <1>6 DEF Maps, r

\* delete() and set(): the entry of a key becomes the last one.
LEMMA MoveIs ==
  ASSUME NEW map \in Maps, NEW e \in Entry
  PROVE  LET r == Append(Delete(map, e.key), e) IN
         /\ r \in Maps
         /\ \A i \in DOMAIN r : r[i] = e \/ (r[i].key # e.key /\ \E j \in DOMAIN map : r[i] = map[j])
         /\ TotalSize(r) = TotalSize(map) - SizeAt(map, e.key) + e.size
  <1> DEFINE d == Delete(map, e.key)
  <1>1. /\ d \in Maps /\ PartOf(d, map) /\ (\A i \in DOMAIN d : d[i].key # e.key)
        /\ TotalSize(d) = TotalSize(map) - SizeAt(map, e.key)
    BY DeleteIs
  <1> HIDE DEF d
  <1>2. LET r == Append(d, e) IN
         /\ r \in Maps /\ (\A i \in DOMAIN r : r[i] = e \/ \E j \in DOMAIN d : r[i] = d[j])
         /\ TotalSize(r) = TotalSize(d) + e.size
    BY <1>1, AppendIs
  <1> QED BY <1>1, <1>2 DEF PartOf, d

\* set() of an entry that is there keeps its place.
LEMMA PutIs ==
  ASSUME NEW map \in Maps, NEW e \in Entry, e.size = SizeAt(map, e.key)
  PROVE  LET r == Put(map, e) IN
         /\ r \in Maps
         /\ \A i \in DOMAIN r : r[i] = e \/ (r[i].key # e.key /\ \E j \in DOMAIN map : r[i] = map[j])
         /\ TotalSize(r) = TotalSize(map)
  <1>0. map \in Seq(Entry) /\ KeysDiffer(map)
    BY DEF Maps
  <1>1. Len(map) \in Nat /\ DOMAIN map = 1 .. Len(map) /\ TotalSize(map) \in Int
         /\ \A i \in DOMAIN map : map[i] \in Entry
    BY <1>0, SizesOfMap
  <1>2. CASE ~Has(map, e.key)
    <2>1. Put(map, e) = Append(map, e) /\ e.size = 0 /\ \A i \in DOMAIN map : map[i].key # e.key
      BY <1>2 DEF Put, SizeAt, Has
    <2>2. LET r == Append(map, e) IN
          /\ r \in Maps /\ (\A i \in DOMAIN r : r[i] = e \/ \E j \in DOMAIN map : r[i] = map[j])
          /\ TotalSize(r) = TotalSize(map) + e.size
      BY <2>1, AppendIs
    <2> QED BY <1>1, <2>1, <2>2
  <1>3. CASE Has(map, e.key)
    <2> DEFINE r == [i \in DOMAIN map |-> IF map[i].key = e.key THEN e ELSE map[i]]
    <2>1. Put(map, e) = r
      BY <1>3 DEF Put
    <2>2. r \in Seq(Entry) /\ DOMAIN r = DOMAIN map
      BY <1>1
    <2>3. \A i \in DOMAIN map : map[i].key = e.key => map[i].size = e.size
      BY <1>3, EntryIs DEF SizeAt
    <2>4. [i \in DOMAIN r |-> r[i].size] = [i \in DOMAIN map |-> map[i].size]
      BY <2>3
    <2>5. TotalSize(r) = TotalSize(map)
      BY <2>4 DEF TotalSize
    <2>6. \A i \in DOMAIN map : r[i].key = map[i].key
      OBVIOUS
    <2>7. KeysDiffer(r)
      BY <1>0, <2>2, <2>6 DEF KeysDiffer
    <2> QED BY <2>1, <2>2, <2>5, <2>7 DEF Maps
  <1> QED BY <1>2, <1>3

\* The entries from some place on.
LEMMA RestIs ==
  ASSUME NEW map \in Maps, NEW m \in 0 .. Len(map)
  PROVE  LET r == SubSeq(map, m + 1, Len(map)) IN
         /\ r \in Maps /\ PartOf(r, map)
         /\ m = 0 => r = map
         /\ m = Len(map) => r = <<>>
  <1> DEFINE n == Len(map)
             r == SubSeq(map, m + 1, n)
  <1>0. map \in Seq(Entry) /\ KeysDiffer(map)
    BY DEF Maps
  <1>1. n \in Nat /\ DOMAIN map = 1 .. n
    BY <1>0, SizesOfMap
  <1>2. \A i \in (m + 1) .. n : map[i] \in Entry
    BY <1>0, <1>1, SizesOfMap
  <1>3. /\ r \in Seq(Entry)
        /\ Len(r) = IF m + 1 <= n THEN n - (m + 1) + 1 ELSE 0
        /\ \A i \in 1 .. n - (m + 1) + 1 : r[i] = map[(m + 1) + i - 1]
    BY <1>0, <1>1, <1>2, SubSeqProperties
  <1> HIDE DEF r, n
  <1>4. Len(r) = n - m /\ DOMAIN r = 1 .. n - m /\ \A i \in DOMAIN r : m + i \in DOMAIN map /\ r[i] = map[m + i]
    <2>0. m \in 0 .. n
      BY DEF n
    <2>1. Len(r) = n - m
      <3>1. m + 1 <= n => n - (m + 1) + 1 = n - m
        BY <1>1, <2>0
      <3>2. ~(m + 1 <= n) => n - m = 0
        BY <1>1, <2>0
      <3> QED BY <1>3, <3>1, <3>2
    <2>2. DOMAIN r = 1 .. n - m
      BY <1>3, <2>1, SizesOfMap
    <2>3. ASSUME NEW i \in DOMAIN r PROVE m + i \in DOMAIN map /\ r[i] = map[m + i]
      <3>1. i \in 1 .. n - (m + 1) + 1 /\ (m + 1) + i - 1 = m + i /\ m + i \in DOMAIN map
        BY <1>1, <2>2, <2>3 DEF n
      <3> QED BY <1>3, <3>1
    <2> QED BY <2>1, <2>2, <2>3
  <1>5. KeysDiffer(r)
    <2> SUFFICES ASSUME NEW i \in DOMAIN r, NEW l \in DOMAIN r, r[i].key = r[l].key PROVE i = l
      BY DEF KeysDiffer
    <2>1. m + i = m + l
      BY <1>0, <1>4 DEF KeysDiffer
    <2> QED BY <1>1, <1>4, <2>1
  <1>6. PartOf(r, map)
    BY <1>4 DEF PartOf
  <1>7. m = 0 => r = map
    BY <1>0, <1>1, <1>3, <1>4, SeqEqual
  <1>8. m = n => r = <<>>
    BY <1>1, <1>3, <1>4, EmptySeq
  <1> QED BY <1>3, <1>5, <1>6, <1>7, <1>8 DEF Maps, r, n

-----------------------------------------------------------------------------
(* The garbage collector.                                                   *)

\* What is kept of the first i entries.
KeptOf(r, map, i) ==
  /\ r \in Maps
  /\ \A x \in DOMAIN r : \E j \in 1 .. i : r[x] = map[j]
  /\ TotalSize(r) <= TotalSize(SubSeq(map, 1, i))

\* The first i entries are those before and the i-th.
LEMMA FirstOnes ==
  ASSUME NEW map \in Seq(Entry), NEW i \in 1 .. Len(map)
  PROVE  /\ SubSeq(map, 1, i - 1) \in Seq(Entry)
         /\ SubSeq(map, 1, i) = Append(SubSeq(map, 1, i - 1), map[i])
  <1> DEFINE a == SubSeq(map, 1, i - 1)
             b == SubSeq(map, 1, i)
             c == Append(a, map[i])
  <1>1. Len(map) \in Nat /\ map[i] \in Entry /\ \A j \in 1 .. Len(map) : map[j] \in Entry
    BY SizesOfMap
  <1>2. a \in Seq(Entry) /\ Len(a) = i - 1 /\ \A j \in 1 .. i - 1 : a[j] = map[j]
    <2>1. /\ a \in Seq(Entry)
          /\ Len(a) = IF 1 <= i - 1 THEN (i - 1) - 1 + 1 ELSE 0
          /\ \A j \in 1 .. (i - 1) - 1 + 1 : a[j] = map[1 + j - 1]
      BY <1>1, SubSeqProperties
    <2>2. (i - 1) - 1 + 1 = i - 1 /\ (1 <= i - 1 \/ i - 1 = 0) /\ \A j \in 1 .. i - 1 : 1 + j - 1 = j
      BY <1>1
    <2> HIDE DEF a
    <2>3. Len(a) = i - 1
      BY <2>1, <2>2
    <2>4. \A j \in 1 .. i - 1 : a[j] = map[j]
      BY <2>1, <2>2
    <2> QED BY <2>1, <2>3, <2>4
  <1>3. b \in Seq(Entry) /\ Len(b) = i /\ \A j \in 1 .. i : b[j] = map[j]
    <2>1. /\ b \in Seq(Entry)
          /\ Len(b) = IF 1 <= i THEN i - 1 + 1 ELSE 0
          /\ \A j \in 1 .. i - 1 + 1 : b[j] = map[1 + j - 1]
      BY <1>1, SubSeqProperties
    <2>2. 1 <= i /\ i - 1 + 1 = i /\ \A j \in 1 .. i : 1 + j - 1 = j
      BY <1>1
    <2> HIDE DEF b
    <2> QED BY <2>1, <2>2
  <1> HIDE DEF a
  <1>4. c \in Seq(Entry) /\ Len(c) = i /\ c[i] = map[i] /\ \A j \in 1 .. i - 1 : c[j] = a[j]
    BY <1>1, <1>2, AppendProperties
  <1> HIDE DEF b, c
  <1>5. \A j \in 1 .. i : b[j] = c[j]
    <2> SUFFICES ASSUME NEW j \in 1 .. i PROVE b[j] = c[j]
      OBVIOUS
    <2>1. CASE j = i
      BY <1>3, <1>4, <2>1
    <2>2. CASE j # i
      BY <1>2, <1>3, <1>4, <2>2
    <2> QED BY <2>1, <2>2
  <1>6. b = c
    BY <1>3, <1>4, <1>5, SeqEqual
  <1> QED BY <1>2, <1>6 DEF a, b, c

\* What expiry leaves of a map, the argument being on the first length for which it fails.
LEMMA UnexpiredIs ==
  ASSUME NEW map \in Maps, cacheTime \in Nat
  PROVE  LET r == Unexpired(map) IN
         r \in Maps /\ PartOf(r, map) /\ TotalSize(r) <= TotalSize(map)
  <1> DEFINE n == Len(map)
             Body(f) == [i \in 0 .. n |-> IF i = 0 THEN <<>>
                                          ELSE IF Expired(map[i]) THEN f[i - 1] ELSE Append(f[i - 1], map[i])]
             kept == CHOOSE f : f = Body(f)
             X == Seq(Entry)
             g == [i \in 1 .. n |-> [r \in X |-> IF Expired(map[i]) THEN r ELSE Append(r, map[i])]]
  <1>0. map \in X /\ KeysDiffer(map)
    BY DEF Maps
  <1>1. n \in Nat /\ DOMAIN map = 1 .. n /\ \A i \in 1 .. n : map[i] \in Entry
    BY <1>0, SizesOfMap
  <1>2. g \in [1 .. n -> [X -> X]]
    BY <1>1
  <1>3. <<>> \in X
    OBVIOUS
  <1>4. \E f \in [0 .. n -> X] : f = Body(f)
    <2> DEFINE Rec(f) == [i \in 0 .. n |-> IF i = 0 THEN <<>> ELSE g[i][f[i - 1]]]
    <2>1. PICK f \in [0 .. n -> X] : f = Rec(f)
      <3> HIDE DEF g, X, n
      <3> QED BY <1>1, <1>2, <1>3, RecursionExists
    <2>2. ASSUME NEW i \in 0 .. n PROVE Rec(f)[i] = Body(f)[i]
      <3>1. CASE i = 0
        BY <3>1
      <3>2. CASE i # 0
        <4>1. i \in 1 .. n /\ f[i - 1] \in X
          BY <1>1, <3>2
        <4> QED BY <3>2, <4>1
      <3> QED BY <3>1, <3>2
    <2>3. Rec(f) = Body(f)
      BY <2>2
    <2> HIDE DEF Rec, Body
    <2> QED BY <2>1, <2>3
  <1>5. kept = Body(kept)
    <2> HIDE DEF Body
    <2> QED BY <1>4
  <1>6. Unexpired(map) = kept[n]
    BY DEF Unexpired
  <1> HIDE DEF kept
  <1>7. kept[0] = <<>>
    <2>1. Body(kept)[0] = <<>>
      BY <1>1
    <2> HIDE DEF Body
    <2> QED BY <1>5, <2>1
  <1>8. \A i \in 1 .. n : kept[i] = IF Expired(map[i]) THEN kept[i - 1] ELSE Append(kept[i - 1], map[i])
    <2> SUFFICES ASSUME NEW i \in 1 .. n
                 PROVE  kept[i] = IF Expired(map[i]) THEN kept[i - 1] ELSE Append(kept[i - 1], map[i])
      OBVIOUS
    <2>1. Body(kept)[i] = IF Expired(map[i]) THEN kept[i - 1] ELSE Append(kept[i - 1], map[i])
      BY <1>1
    <2> HIDE DEF Body
    <2> QED BY <1>5, <2>1
  <1> DEFINE Fails == {k \in 0 .. n : ~KeptOf(kept[k], map, k)}
  <1>9. Fails = {}
    <2> SUFFICES ASSUME Fails # {} PROVE FALSE
      OBVIOUS
    <2>0. Fails \in SUBSET Nat
      OBVIOUS
    <2>1. PICK k \in Fails : \A m \in Fails : k <= m
      <3> HIDE DEF Fails
      <3> QED BY <2>0, Smallest
    <2>2. k \in 0 .. n /\ ~KeptOf(kept[k], map, k)
      OBVIOUS
    <2>3. CASE k = 0
      <3>1. SubSeq(map, 1, 0) = <<>>
        BY <1>0
      <3>2. <<>> \in Maps
        BY DEF Maps, KeysDiffer
      <3>3. KeptOf(<<>>, map, 0)
        <4>1. \A x \in DOMAIN <<>> : \E j \in 1 .. 0 : <<>>[x] = map[j]
          OBVIOUS
        <4>2. TotalSize(<<>>) <= TotalSize(SubSeq(map, 1, 0))
          <5>1. TotalSize(SubSeq(map, 1, 0)) = TotalSize(<<>>)
            BY <3>1, Zenon
          <5> HIDE DEF TotalSize
          <5> QED BY <5>1, TotalOfNothing
        <4> QED BY <3>2, <4>1, <4>2 DEF KeptOf
      <3> QED BY <1>7, <2>2, <2>3, <3>3
    <2>4. CASE k # 0
      <3>1. k \in 1 .. n /\ k - 1 \in 0 .. n
        BY <1>1, <2>2, <2>4
      <3>2. KeptOf(kept[k - 1], map, k - 1)
        <4>1. k - 1 \notin Fails
          <5> HIDE DEF Fails
          <5> QED BY <2>1, <3>1
        <4> QED BY <3>1, <4>1
      <3> DEFINE r == kept[k - 1]
                 e == map[k]
                 a == SubSeq(map, 1, k - 1)
      <3>3. a \in Seq(Entry) /\ SubSeq(map, 1, k) = Append(a, e)
        BY <1>0, <3>1, FirstOnes
      <3>4. e \in Entry /\ e.size \in Nat
        BY <1>1, <3>1 DEF Entry
      <3>5. TotalSize(SubSeq(map, 1, k)) = TotalSize(a) + e.size
        BY <3>3, <3>4, TotalOfAppend
      <3>6. r \in Maps /\ (\A x \in DOMAIN r : \E j \in 1 .. k - 1 : r[x] = map[j]) /\ TotalSize(r) <= TotalSize(a)
        BY <3>2 DEF KeptOf
      <3>7. TotalSize(a) \in Int /\ TotalSize(r) \in Int
        BY <3>3, <3>6, SizesOfMap DEF Maps
      <3> HIDE DEF r, e, a
      <3>8. CASE Expired(e)
        <4>1. kept[k] = r
          BY <1>8, <3>1, <3>8 DEF r, e
        <4>2. KeptOf(r, map, k)
          <5>1. \A x \in DOMAIN r : \E j \in 1 .. k : r[x] = map[j]
            BY <3>1, <3>6
          <5> QED BY <3>4, <3>5, <3>6, <3>7, <5>1 DEF KeptOf
        <4> QED BY <2>2, <4>1, <4>2
      <3>9. CASE ~Expired(e)
        <4> DEFINE s == Append(r, e)
        <4>1. kept[k] = s
          BY <1>8, <3>1, <3>9 DEF r, e
        <4>2. \A x \in DOMAIN r : r[x].key # e.key
          <5> SUFFICES ASSUME NEW x \in DOMAIN r, r[x].key = e.key PROVE FALSE
            OBVIOUS
          <5>1. PICK j \in 1 .. k - 1 : r[x] = map[j]
            BY <3>6
          <5>2. j \in DOMAIN map /\ k \in DOMAIN map /\ j # k
            BY <1>1, <3>1
          <5> QED BY <1>0, <5>1, <5>2 DEF KeysDiffer, e
        <4>3. /\ s \in Maps /\ (\A i \in DOMAIN s : s[i] = e \/ \E j \in DOMAIN r : s[i] = r[j])
              /\ TotalSize(s) = TotalSize(r) + e.size
          BY <3>4, <3>6, <4>2, AppendIs
        <4> HIDE DEF s
        <4>4. ASSUME NEW x \in DOMAIN s PROVE \E j \in 1 .. k : s[x] = map[j]
          <5>1. CASE s[x] = e
            BY <3>1, <5>1 DEF e
          <5>2. CASE \E j \in DOMAIN r : s[x] = r[j]
            BY <3>1, <3>6, <5>2
          <5> QED BY <4>3, <5>1, <5>2
        <4>5. TotalSize(s) <= TotalSize(SubSeq(map, 1, k))
          BY <3>4, <3>5, <3>6, <3>7, <4>3
        <4> QED BY <2>2, <4>1, <4>3, <4>4, <4>5 DEF KeptOf
      <3> QED BY <3>8, <3>9
    <2> QED BY <2>3, <2>4
  <1>10. KeptOf(kept[n], map, n)
    BY <1>1, <1>9
  <1>11. SubSeq(map, 1, n) = map
    BY <1>0
  <1> QED BY <1>1, <1>6, <1>10, <1>11 DEF KeptOf, PartOf

StoredType == [values : [Names -> Maps], sizes : [Names -> Int], total : Int]
Exact(st) ==
  /\ \A c \in Names : st.sizes[c] = TotalSize(st.values[c])
  /\ st.total = SumFunction(st.sizes)
PartsOf(v2, v) == \A c \in Names : PartOf(v2[c], v[c])

\* The names of the collections.
LEMMA NamesAreFinite == IsFiniteSet(Names) /\ \A i \in 1 .. Len(Collections) : Collections[i] \in Names
  <1>1. Len(Collections) \in Nat /\ DOMAIN Collections = 1 .. Len(Collections)
    BY Cache2Assumption, LenProperties
  <1>2. IsFiniteSet(DOMAIN Collections)
    BY <1>1, FS_Interval
  <1>3. Names = {Collections[i] : i \in DOMAIN Collections}
    BY DEF Names, ToSet
  <1>4. IsFiniteSet(Names)
    <2> DEFINE f == [i \in DOMAIN Collections |-> Collections[i]]
    <2>1. f \in Surjection(DOMAIN Collections, Names)
      BY <1>3 DEF Surjection
    <2> HIDE DEF f
    <2> QED BY <1>2, <2>1, FS_Surjection
  <1> QED BY <1>1, <1>3, <1>4

\* One size changes by as much as the total.
LEMMA TotalChanges ==
  ASSUME NEW s \in [Names -> Int], NEW c \in Names, NEW n \in Int
  PROVE  SumFunction([s EXCEPT ![c] = @ + n]) = SumFunction(s) + n /\ SumFunction(s) \in Int
  <1>1. SumFunction([s EXCEPT ![c] = s[c] + n]) = SumFunction(s) - s[c] + (s[c] + n)
    <2>1. s[c] + n \in Int
      OBVIOUS
    <2> QED BY <2>1, NamesAreFinite, SumChanges
  <1>2. SumFunction(s) \in Int /\ s[c] \in Int
    BY NamesAreFinite, SumIsNumber
  <1> QED BY <1>1, <1>2

\* A map of the cache is replaced: the sizes and the total follow.
LEMMA ReplaceKeeps ==
  ASSUME NEW st \in StoredType, Exact(st), NEW c \in Names, NEW map \in Maps, NEW n \in Int,
         TotalSize(map) = TotalSize(st.values[c]) + n
  PROVE  LET r == Stored([st.values EXCEPT ![c] = map], [st.sizes EXCEPT ![c] = @ + n], st.total + n) IN
         r \in StoredType /\ Exact(r)
  <1> DEFINE r == Stored([st.values EXCEPT ![c] = map], [st.sizes EXCEPT ![c] = @ + n], st.total + n)
  <1>1. st.values \in [Names -> Maps] /\ st.sizes \in [Names -> Int] /\ st.total \in Int
    BY DEF StoredType
  <1>2. r \in StoredType
    BY <1>1 DEF StoredType, Stored
  <1>3. r.total = SumFunction(r.sizes)
    <2>1. r.sizes = [st.sizes EXCEPT ![c] = @ + n] /\ r.total = st.total + n
      BY DEF Stored
    <2>2. st.total = SumFunction(st.sizes)
      BY DEF Exact
    <2>3. SumFunction([st.sizes EXCEPT ![c] = @ + n]) = SumFunction(st.sizes) + n
      BY <1>1, TotalChanges
    <2> HIDE DEF r
    <2> QED BY <2>1, <2>2, <2>3
  <1>4. ASSUME NEW d \in Names PROVE r.sizes[d] = TotalSize(r.values[d])
    <2>1. CASE d = c
      <3>1. r.sizes[c] = st.sizes[c] + n /\ r.values[c] = map
        BY <1>1 DEF Stored
      <3> QED BY <2>1, <3>1 DEF Exact
    <2>2. CASE d # c
      <3>1. r.sizes[d] = st.sizes[d] /\ r.values[d] = st.values[d]
        BY <1>1, <2>2 DEF Stored
      <3> QED BY <3>1 DEF Exact
    <2> QED BY <2>1, <2>2
  <1> QED BY <1>2, <1>3, <1>4 DEF Exact

\* Entries are dropped from one collection: sizes stay exact, and the total goes down by theirs.
LEMMA DropKeeps ==
  ASSUME NEW st \in StoredType, Exact(st), NEW c \in Names, NEW map \in Maps, PartOf(map, st.values[c])
  PROVE  LET r == DropEntries(st, c, map) IN
         /\ r \in StoredType /\ Exact(r) /\ PartsOf(r.values, st.values)
         /\ r.values = [st.values EXCEPT ![c] = map]
         /\ r.total = st.total - (TotalSize(st.values[c]) - TotalSize(map))
  <1> DEFINE gone == TotalSize(st.values[c]) - TotalSize(map)
             r == DropEntries(st, c, map)
             q == Stored([st.values EXCEPT ![c] = map], [st.sizes EXCEPT ![c] = @ + (-gone)], st.total + (-gone))
  <1>1. st.values \in [Names -> Maps] /\ st.sizes \in [Names -> Int] /\ st.total \in Int
    BY DEF StoredType
  <1>2. TotalSize(st.values[c]) \in Int /\ TotalSize(map) \in Int
    BY <1>1, SizesOfMap DEF Maps
  <1>3. gone \in Int /\ TotalSize(map) = TotalSize(st.values[c]) + (-gone)
    BY <1>2
  <1>4. r = Stored([st.values EXCEPT ![c] = map], [st.sizes EXCEPT ![c] = @ - gone], st.total - gone)
    BY DEF DropEntries
  <1> HIDE DEF gone
  <1>5. st.sizes[c] - gone = st.sizes[c] + (-gone) /\ st.total - gone = st.total + (-gone)
    BY <1>1, <1>3
  <1>6. r = q
    BY <1>4, <1>5
  <1>7. q \in StoredType /\ Exact(q)
    BY <1>3, ReplaceKeeps
  <1>8. r.values = [st.values EXCEPT ![c] = map] /\ r.total = st.total - gone
    BY <1>4 DEF Stored
  <1> HIDE DEF q
  <1>9. PartsOf(r.values, st.values)
    <2> SUFFICES ASSUME NEW d \in Names PROVE PartOf(r.values[d], st.values[d])
      BY DEF PartsOf
    <2>1. CASE d = c
      BY <1>1, <1>8, <2>1
    <2>2. CASE d # c
      BY <1>1, <1>8, <2>2 DEF PartOf
    <2> QED BY <2>1, <2>2
  <1> QED BY <1>6, <1>7, <1>8, <1>9 DEF gone

\* Nothing changes when no entry is dropped.
LEMMA DropNothing ==
  ASSUME NEW st \in StoredType, NEW c \in Names
  PROVE  DropEntries(st, c, st.values[c]).total = st.total
  <1>1. st.values[c] \in Maps /\ st.total \in Int
    BY DEF StoredType
  <1>2. TotalSize(st.values[c]) \in Int
    BY <1>1, SizesOfMap DEF Maps
  <1>3. DropEntries(st, c, st.values[c]).total = st.total - (TotalSize(st.values[c]) - TotalSize(st.values[c]))
    BY DEF DropEntries, Stored
  <1> QED BY <1>1, <1>2, <1>3

\* One collection: nothing is added, and the cache fits or the collection is empty.
LEMMA CollectOneIs ==
  ASSUME NEW st \in StoredType, Exact(st), NEW c \in Names, cacheTime \in Nat, CacheMaxSize \in Nat
  PROVE  LET r == EvictOldest(EvictExpired(st, c), c) IN
         /\ r \in StoredType /\ Exact(r) /\ PartsOf(r.values, st.values)
         /\ r.total <= CacheMaxSize \/ r.values[c] = <<>>
         /\ st.total <= CacheMaxSize => r.total <= CacheMaxSize
  <1> DEFINE e == EvictExpired(st, c)
             map == Unexpired(st.values[c])
  <1>1. st.values[c] \in Maps /\ st.total \in Int
    BY DEF StoredType
  <1>2. map \in Maps /\ PartOf(map, st.values[c]) /\ TotalSize(map) <= TotalSize(st.values[c])
    BY <1>1, UnexpiredIs
  <1>3. e = DropEntries(st, c, map)
    BY DEF EvictExpired
  <1> HIDE DEF map
  <1>4. /\ e \in StoredType /\ Exact(e) /\ PartsOf(e.values, st.values)
        /\ e.total = st.total - (TotalSize(st.values[c]) - TotalSize(map))
    <2> HIDE DEF e
    <2> QED BY <1>2, <1>3, DropKeeps
  <1>5. TotalSize(st.values[c]) \in Int /\ TotalSize(map) \in Int
    BY <1>1, <1>2, SizesOfMap DEF Maps
  <1>6. st.total <= CacheMaxSize => e.total <= CacheMaxSize
    BY <1>1, <1>2, <1>4, <1>5
  <1> HIDE DEF e
  <1> DEFINE old == e.values[c]
             n == Len(old)
             Ends(m) == WithoutOldest(e, c, m).total <= CacheMaxSize \/ m = n
             Ms == {m \in 0 .. n : Ends(m)}
             m == Min(Ms)
             r == WithoutOldest(e, c, m)
  <1>7. old \in Maps /\ n \in Nat
    BY <1>4, SizesOfMap DEF StoredType, Maps
  <1>8. m \in Ms /\ \A k \in Ms : m <= k
    <2>1. Ms \in SUBSET Nat /\ n \in Ms
      BY <1>7
    <2> HIDE DEF Ms
    <2> QED BY <2>1, MinIsIn
  <1>9. EvictOldest(e, c) = r
    BY DEF EvictOldest
  <1>10. m \in 0 .. n /\ Ends(m)
    BY <1>8
  <1>11. 0 \in Ms => m = 0
    <2> HIDE DEF Ms
    <2> QED BY <1>8, <1>10
  <1> HIDE DEF m
  <1> DEFINE left == SubSeq(old, m + 1, n)
  <1>12. left \in Maps /\ PartOf(left, old) /\ (m = 0 => left = old) /\ (m = n => left = <<>>)
    BY <1>7, <1>10, RestIs
  <1>13. \A k : WithoutOldest(e, c, k) = DropEntries(e, c, SubSeq(old, k + 1, n))
    BY DEF WithoutOldest
  <1>14. r = DropEntries(e, c, left)
    BY <1>13
  <1> HIDE DEF left
  <1>15. /\ r \in StoredType /\ Exact(r) /\ PartsOf(r.values, e.values)
         /\ r.values = [e.values EXCEPT ![c] = left]
         /\ r.total = e.total - (TotalSize(old) - TotalSize(left))
    BY <1>4, <1>12, <1>14, DropKeeps
  <1>16. r.total <= CacheMaxSize \/ r.values[c] = <<>>
    <2>1. e.values \in [Names -> Maps]
      BY <1>4 DEF StoredType
    <2> HIDE DEF r
    <2>2. r.values[c] = left
      BY <1>15, <2>1
    <2> QED BY <1>10, <1>12, <2>2 DEF r
  <1>17. ASSUME e.total <= CacheMaxSize PROVE r.total <= CacheMaxSize
    <2>1. SubSeq(old, 0 + 1, n) = old
      BY <1>7, RestIs
    <2>4. WithoutOldest(e, c, 0).total = e.total
      BY <1>4, <1>13, <2>1, DropNothing
    <2>5. 0 \in Ms
      BY <1>7, <1>17, <2>4
    <2>6. m = 0
      BY <1>11, <2>5
    <2> QED BY <1>17, <2>4, <2>6
  <1>18. PartsOf(r.values, st.values)
    <2> HIDE DEF r
    <2> QED BY <1>4, <1>15 DEF PartsOf, PartOf
  <1> HIDE DEF r
  <1> QED BY <1>6, <1>9, <1>15, <1>16, <1>17, <1>18 DEF e

\* What holds after the first i collections.
CollectedUpTo(r, st, i) ==
  /\ r \in StoredType /\ Exact(r) /\ PartsOf(r.values, st.values)
  /\ r.total <= CacheMaxSize \/ \A j \in 1 .. i : r.values[Collections[j]] = <<>>

\* The whole collection, whose loop is a recursive function of the number of collections seen: it ends
\* within the limit, because a collection that is left above it is empty.
LEMMA CollectIs ==
  ASSUME NEW st \in StoredType, Exact(st), cacheTime \in Nat, CacheMaxSize \in Nat
  PROVE  LET r == Collect(st) IN
         r \in StoredType /\ Exact(r) /\ PartsOf(r.values, st.values) /\ r.total <= CacheMaxSize
  <1> DEFINE n == Len(Collections)
             One(x, i) == EvictOldest(EvictExpired(x, Collections[i]), Collections[i])
             Body(f) == [i \in 0 .. n |-> IF i = 0 THEN st ELSE One(f[i - 1], i)]
             after == CHOOSE f : f = Body(f)
             X == {x \in StoredType : Exact(x)}
             g == [i \in 1 .. n |-> [x \in X |-> One(x, i)]]
  <1>1. n \in Nat
    BY Cache2Assumption, LenProperties
  <1>2. ASSUME NEW i \in 1 .. n, NEW x \in X
        PROVE  /\ One(x, i) \in X /\ PartsOf(One(x, i).values, x.values)
               /\ One(x, i).total <= CacheMaxSize \/ One(x, i).values[Collections[i]] = <<>>
               /\ x.total <= CacheMaxSize => One(x, i).total <= CacheMaxSize
    BY NamesAreFinite, CollectOneIs
  <1> HIDE DEF One
  <1>3. g \in [1 .. n -> [X -> X]]
    BY <1>2
  <1>4. \E f \in [0 .. n -> X] : f = Body(f)
    <2> DEFINE Rec(f) == [i \in 0 .. n |-> IF i = 0 THEN st ELSE g[i][f[i - 1]]]
    <2>1. PICK f \in [0 .. n -> X] : f = Rec(f)
      <3>1. st \in X
        OBVIOUS
      <3> HIDE DEF g, X, n
      <3> QED BY <1>1, <1>3, <3>1, RecursionExists
    <2>2. ASSUME NEW i \in 0 .. n PROVE Rec(f)[i] = Body(f)[i]
      <3>1. CASE i = 0
        BY <3>1
      <3>2. CASE i # 0
        <4>1. i \in 1 .. n /\ f[i - 1] \in X
          <5> HIDE DEF X
          <5> QED BY <1>1, <3>2
        <4> HIDE DEF X
        <4> QED BY <3>2, <4>1
      <3> QED BY <3>1, <3>2
    <2>3. Rec(f) = Body(f)
      BY <2>2
    <2> HIDE DEF Rec, Body
    <2> QED BY <2>1, <2>3
  <1>5. after = Body(after)
    <2> HIDE DEF Body
    <2> QED BY <1>4
  <1>6. Collect(st) = after[n]
    BY DEF Collect, One
  <1> HIDE DEF after
  <1>7. after[0] = st
    <2>1. Body(after)[0] = st
      BY <1>1
    <2> HIDE DEF Body
    <2> QED BY <1>5, <2>1
  <1>8. \A i \in 1 .. n : after[i] = One(after[i - 1], i)
    <2> SUFFICES ASSUME NEW i \in 1 .. n PROVE after[i] = One(after[i - 1], i)
      OBVIOUS
    <2>1. Body(after)[i] = One(after[i - 1], i)
      BY <1>1
    <2> HIDE DEF Body
    <2> QED BY <1>5, <2>1
  <1> DEFINE Fails == {k \in 0 .. n : ~CollectedUpTo(after[k], st, k)}
  <1>9. Fails = {}
    <2> SUFFICES ASSUME Fails # {} PROVE FALSE
      OBVIOUS
    <2>0. Fails \in SUBSET Nat
      OBVIOUS
    <2>1. PICK k \in Fails : \A m \in Fails : k <= m
      <3> HIDE DEF Fails
      <3> QED BY <2>0, Smallest
    <2>2. k \in 0 .. n /\ ~CollectedUpTo(after[k], st, k)
      OBVIOUS
    <2>3. CASE k = 0
      <3>1. PartsOf(st.values, st.values)
        BY DEF PartsOf, PartOf
      <3>2. CollectedUpTo(st, st, 0)
        BY <3>1 DEF CollectedUpTo
      <3> QED BY <1>7, <2>2, <2>3, <3>2
    <2>4. CASE k # 0
      <3>1. k \in 1 .. n /\ k - 1 \in 0 .. n
        BY <1>1, <2>2, <2>4
      <3>2. CollectedUpTo(after[k - 1], st, k - 1)
        <4>1. k - 1 \notin Fails
          <5> HIDE DEF Fails
          <5> QED BY <2>1, <3>1
        <4> QED BY <3>1, <4>1
      <3> DEFINE x == after[k - 1]
                 y == One(x, k)
      <3>3. after[k] = y
        BY <1>8, <3>1
      <3>4. x \in X /\ PartsOf(x.values, st.values)
        BY <3>2 DEF CollectedUpTo
      <3>5. /\ y \in X /\ PartsOf(y.values, x.values)
            /\ y.total <= CacheMaxSize \/ y.values[Collections[k]] = <<>>
            /\ x.total <= CacheMaxSize => y.total <= CacheMaxSize
        BY <1>2, <3>1, <3>4
      <3>6. x.total <= CacheMaxSize \/ \A j \in 1 .. k - 1 : x.values[Collections[j]] = <<>>
        BY <3>2 DEF CollectedUpTo
      <3> HIDE DEF x, y
      <3>7. PartsOf(y.values, st.values)
        BY <3>4, <3>5 DEF PartsOf, PartOf
      <3>8. ASSUME ~(y.total <= CacheMaxSize), NEW j \in 1 .. k PROVE y.values[Collections[j]] = <<>>
        <4>1. CASE j = k
          BY <3>5, <3>8, <4>1
        <4>2. CASE j # k
          <5>1. j \in 1 .. k - 1 /\ j \in 1 .. n
            BY <1>1, <3>1, <4>2
          <5>2. x.values[Collections[j]] = <<>>
            BY <3>5, <3>6, <3>8, <5>1
          <5>3. PartOf(y.values[Collections[j]], <<>>)
            BY <3>5, <5>1, <5>2, NamesAreFinite DEF PartsOf
          <5>4. y.values[Collections[j]] \in Seq(Entry)
            BY <3>5, <5>1, NamesAreFinite DEF StoredType, Maps
          <5>5. DOMAIN y.values[Collections[j]] = {}
            BY <5>3 DEF PartOf
          <5> QED BY <5>4, <5>5
        <4> QED BY <4>1, <4>2
      <3>9. CollectedUpTo(y, st, k)
        BY <3>5, <3>7, <3>8 DEF CollectedUpTo
      <3> QED BY <2>2, <3>3, <3>9
    <2> QED BY <2>3, <2>4
  <1> DEFINE r == after[n]
  <1>10. CollectedUpTo(r, st, n)
    BY <1>1, <1>9
  <1>11. r \in StoredType /\ Exact(r) /\ PartsOf(r.values, st.values)
    BY <1>10 DEF CollectedUpTo
  <1>12. r.total <= CacheMaxSize
    <2> SUFFICES ASSUME ~(r.total <= CacheMaxSize) PROVE FALSE
      OBVIOUS
    <2>1. \A j \in 1 .. n : r.values[Collections[j]] = <<>>
      BY <1>10 DEF CollectedUpTo
    <2>2. \A c \in Names : \E j \in 1 .. n : c = Collections[j]
      BY Cache2Assumption, LenProperties DEF Names, ToSet
    <2>3. \A c \in Names : r.sizes[c] = 0
      BY <1>11, <2>1, <2>2, TotalOfNothing DEF Exact
    <2>4. r.sizes \in [Names -> Int]
      BY <1>11 DEF StoredType
    <2>5. SumFunction(r.sizes) = 0
      BY <2>3, <2>4, NamesAreFinite, SumOfZeros
    <2>6. r.total = 0
      BY <1>11, <2>5 DEF Exact
    <2> HIDE DEF r
    <2> QED BY <2>6
  <1> QED BY <1>6, <1>11, <1>12

-----------------------------------------------------------------------------
(* The invariant of the second cache.                                       *)

CallType == [pc : {"idle", "loop", "waiting", "fetch", "read", "done"}, at : Places, list : SUBSET Getters,
         got : Nat \cup Getters]
CacheTypeOK ==
  /\ values \in [Names -> Maps] /\ sizes \in [Names -> Int] /\ cacheSize \in Int
  /\ cacheTime \in Nat \ {0} /\ collecting \in BOOLEAN /\ missed \in BOOLEAN
  /\ getter \in [Getters -> CallType]
  /\ origin \in [Places -> Nat] /\ raced \in [Places -> BOOLEAN]

\* An entry that is being fetched is that of a call which fetches its key, and one that is valid holds
\* what the data is now, unless the key was changed while it was being fetched.
Fetches(f) == getter[f].pc \in {"fetch", "read"}
EntryInv(c, e) ==
  /\ <<c, e.key>> \in Places
  /\ e.status = "fetching" =>
       e.data \in Getters /\ Fetches(e.data) /\ getter[e.data].at = <<c, e.key>> /\ e.timeout = -1
  /\ (e.timeout >= cacheTime /\ ~raced[<<c, e.key>>]) => e.data = origin[<<c, e.key>>]
EntriesInv == \A c \in Names : \A i \in DOMAIN values[c] : EntryInv(c, values[c][i])

\* The calls in the list of one that fetches wait, each in one list only.
CallInv(g) ==
  /\ ~Fetches(g) => getter[g].list = {}
  /\ \A h \in getter[g].list : getter[h].pc = "waiting"
  /\ getter[g].pc = "waiting" => \E f \in Getters : Fetches(f) /\ g \in getter[f].list
  /\ (getter[g].pc = "read" /\ ~raced[getter[g].at]) => getter[g].got = origin[getter[g].at]
CallsInv ==
  /\ \A g \in Getters : CallInv(g)
  /\ \A f, g \in Getters : \A h \in getter[f].list : h \in getter[g].list => f = g

SizesInv == Exact(Stored(values, sizes, cacheSize)) /\ BoundedUnlessMissed
CacheInv == CacheTypeOK /\ SizesInv /\ EntriesInv /\ CallsInv

\* A place is the name of a collection and a key.
LEMMA PlaceIs ==
  ASSUME NEW p \in Places
  PROVE  p[1] \in Names /\ p[2] \in STRING /\ p = <<p[1], p[2]>>
  BY Cache2Assumption DEF Names

\* The entry that is found at a place.
LEMMA FoundIs ==
  ASSUME CacheTypeOK, EntriesInv, NEW p \in Places, Has(values[p[1]], p[2])
  PROVE  LET e == EntryOf(values[p[1]], p[2]) IN
         /\ e \in Entry /\ e.key = p[2] /\ EntryInv(p[1], e)
         /\ \E i \in DOMAIN values[p[1]] : e = values[p[1]][i]
  <1>1. p[1] \in Names /\ values[p[1]] \in Maps
    BY PlaceIs DEF CacheTypeOK
  <1>2. LET e == EntryOf(values[p[1]], p[2]) IN e \in Entry /\ e.key = p[2]
    BY <1>1, EntryIs
  <1>3. \E i \in DOMAIN values[p[1]] : EntryOf(values[p[1]], p[2]) = values[p[1]][i]
    BY <1>1, EntryIs DEF EntryOf
  <1> QED BY <1>1, <1>2, <1>3 DEF EntriesInv

\* What the operations do to the maps: at the place p there is the entry e or none, and the other entries
\* were there before.
Replaces(v2, v, p, e) ==
  \A c \in Names : \A i \in DOMAIN v2[c] :
    \/ c = p[1] /\ v2[c][i] = e
    \/ <<c, v2[c][i].key>> # p /\ \E j \in DOMAIN v[c] : v2[c][i] = v[c][j]

\* The entry of a place is put at the end of its map.
LEMMA MovedKeeps ==
  ASSUME NEW st \in StoredType, Exact(st), NEW p \in Places, NEW e \in Entry, e.key = p[2]
  PROVE  LET map == Append(Delete(st.values[p[1]], p[2]), e)
             diff == e.size - SizeAt(st.values[p[1]], p[2])
             r == Stored([st.values EXCEPT ![p[1]] = map], [st.sizes EXCEPT ![p[1]] = @ + diff], st.total + diff)
         IN  r \in StoredType /\ Exact(r) /\ Replaces(r.values, st.values, p, e)
  <1> DEFINE c == p[1]
             map == Append(Delete(st.values[c], p[2]), e)
             diff == e.size - SizeAt(st.values[c], p[2])
             r == Stored([st.values EXCEPT ![c] = map], [st.sizes EXCEPT ![c] = @ + diff], st.total + diff)
  <1>1. c \in Names /\ st.values[c] \in Maps /\ st.values \in [Names -> Maps]
    BY PlaceIs DEF StoredType
  <1>2. /\ map \in Maps
        /\ \A i \in DOMAIN map : map[i] = e \/ (map[i].key # p[2] /\ \E j \in DOMAIN st.values[c] : map[i] = st.values[c][j])
        /\ TotalSize(map) = TotalSize(st.values[c]) - SizeAt(st.values[c], p[2]) + e.size
    BY <1>1, MoveIs
  <1>3. SizeAt(st.values[c], p[2]) \in Int /\ e.size \in Int /\ TotalSize(st.values[c]) \in Int
    <2>1. SizeAt(st.values[c], p[2]) \in Nat
      BY <1>1, SizeAtIs
    <2>2. e.size \in Nat
      BY DEF Entry
    <2>3. TotalSize(st.values[c]) \in Int
      BY <1>1, SizesOfMap DEF Maps
    <2> QED BY <2>1, <2>2, <2>3
  <1> HIDE DEF map
  <1>4. diff \in Int /\ TotalSize(map) = TotalSize(st.values[c]) + diff
    BY <1>2, <1>3
  <1> HIDE DEF diff
  <1>5. r \in StoredType /\ Exact(r)
    BY <1>1, <1>2, <1>4, ReplaceKeeps
  <1>6. r.values = [st.values EXCEPT ![c] = map]
    BY DEF Stored
  <1> HIDE DEF r
  <1>7. ASSUME NEW d \in Names, NEW i \in DOMAIN r.values[d]
        PROVE  \/ d = c /\ r.values[d][i] = e
               \/ <<d, r.values[d][i].key>> # p /\ \E j \in DOMAIN st.values[d] : r.values[d][i] = st.values[d][j]
    <2>1. CASE d = c
      <3>1. r.values[d] = map
        BY <1>1, <1>6, <2>1
      <3> QED BY <1>2, <2>1, <3>1
    <2>2. CASE d # c
      <3>1. r.values[d] = st.values[d]
        BY <1>1, <1>6, <2>2
      <3> QED BY <2>2, <3>1
    <2> QED BY <2>1, <2>2
  <1> QED BY <1>5, <1>7 DEF Replaces, r, map, diff

\* set() with its garbage collection.
NewEntry(p, data, status) ==
  [key |-> p[2], data |-> data, status |-> status, size |-> IF status = "error" THEN ErrorSize ELSE SizeOf[p],
   timeout |-> cacheTime + CacheTimeout]

\* set() of an entry, with the collection it may start: sizes stay exact and the cache within its limit,
\* unless a collection runs already, which then misses this entry.
LEMMA CacheSetIs ==
  ASSUME CacheTypeOK, SizesInv, NEW p \in Places, NEW data \in Nat \cup Getters, NEW status \in {"value", "error"},
         CacheSet(p, data, status)
  PROVE  /\ values' \in [Names -> Maps] /\ sizes' \in [Names -> Int] /\ cacheSize' \in Int
         /\ collecting' \in BOOLEAN /\ missed' \in BOOLEAN
         /\ SizesInv'
         /\ Replaces(values', values, p, NewEntry(p, data, status))
  <1> DEFINE c == p[1]
             k == p[2]
             item == NewEntry(p, data, status)
             diff == item.size - SizeAt(values[c], k)
             before == Stored(values, sizes, cacheSize)
             st == Stored([values EXCEPT ![c] = Append(Delete(@, k), item)],
                          [sizes EXCEPT ![c] = @ + diff], cacheSize + diff)
             over == st.total > CacheMaxSize
             after == IF over /\ ~collecting THEN Collect(st) ELSE st
  <1>1. /\ values' = after.values /\ sizes' = after.sizes /\ cacheSize' = after.total
        /\ collecting' = (collecting \/ over)
        /\ missed' = (over /\ collecting)
    BY DEF CacheSet, NewEntry
  <1>2. item \in Entry /\ item.key = p[2]
    BY Cache2Assumption, PlaceIs DEF NewEntry, Entry, CacheTypeOK
  <1>3. before \in StoredType /\ Exact(before) /\ before.values = values /\ before.sizes = sizes /\ before.total = cacheSize
    BY DEF CacheTypeOK, SizesInv, StoredType, Stored
  <1> HIDE DEF before, item
  <1>4. st = Stored([before.values EXCEPT ![c] = Append(Delete(before.values[c], k), item)],
                    [before.sizes EXCEPT ![c] = @ + (item.size - SizeAt(before.values[c], k))],
                    before.total + (item.size - SizeAt(before.values[c], k)))
    BY <1>3
  <1> HIDE DEF st
  <1>5. st \in StoredType /\ Exact(st) /\ Replaces(st.values, values, p, item)
    BY <1>2, <1>3, <1>4, MovedKeeps
  <1>6. cacheTime \in Nat /\ CacheMaxSize \in Nat /\ collecting \in BOOLEAN
    BY Cache2Assumption DEF CacheTypeOK
  <1>7. st.total \in Int
    BY <1>5 DEF StoredType
  <1>8. /\ after \in StoredType /\ Exact(after) /\ Replaces(after.values, values, p, item)
        /\ after.total <= CacheMaxSize \/ (over /\ collecting)
    <2>1. CASE over /\ ~collecting
      <3>1. /\ after \in StoredType /\ Exact(after) /\ PartsOf(after.values, st.values)
            /\ after.total <= CacheMaxSize
        BY <1>5, <1>6, <2>1, CollectIs
      <3> HIDE DEF after
      <3>2. Replaces(after.values, values, p, item)
        BY <1>5, <3>1 DEF Replaces, PartsOf, PartOf
      <3> QED BY <3>1, <3>2
    <2>2. CASE ~(over /\ ~collecting)
      BY <1>5, <1>6, <1>7, <2>2
    <2> QED BY <2>1, <2>2
  <1> HIDE DEF after, over
  <1>9. Stored(values', sizes', cacheSize') = after
    BY <1>1, <1>8 DEF Stored, StoredType
  <1>10. BoundedUnlessMissed'
    <2>1. after.total \in Int
      BY <1>8 DEF StoredType
    <2> QED BY <1>1, <1>6, <1>8, <2>1 DEF BoundedUnlessMissed
  <1>11. SizesInv'
    BY <1>8, <1>9, <1>10 DEF SizesInv
  <1>12. over \in BOOLEAN
    BY DEF over
  <1> QED BY <1>1, <1>6, <1>8, <1>11, <1>12 DEF StoredType, item

\* getInstant() moves the item it finds.
LEMMA TouchIs ==
  ASSUME CacheTypeOK, SizesInv, NEW p \in Places, Valid(p), values' = Touch(p), UNCHANGED <<sizes, cacheSize, missed>>
  PROVE  /\ values' \in [Names -> Maps] /\ SizesInv'
         /\ \A c \in Names : PartOf(values'[c], values[c])
  <1> DEFINE e == EntryOf(values[p[1]], p[2])
             before == Stored(values, sizes, cacheSize)
  <1>1. before \in StoredType /\ Exact(before) /\ before.values = values /\ before.sizes = sizes /\ before.total = cacheSize
    BY DEF CacheTypeOK, SizesInv, StoredType, Stored
  <1>2. p[1] \in Names /\ values[p[1]] \in Maps /\ Has(values[p[1]], p[2])
    BY PlaceIs DEF CacheTypeOK, Valid
  <1>3. e \in Entry /\ e.key = p[2] /\ \E j \in DOMAIN values[p[1]] : e = values[p[1]][j]
    BY <1>2, EntryIs DEF EntryOf
  <1>4. BoundedUnlessMissed'
    BY DEF SizesInv, BoundedUnlessMissed
  <1>5. CASE e.status = "error"
    <2>1. values' = values
      BY <1>5 DEF Touch
    <2> QED BY <1>1, <1>4, <2>1 DEF CacheTypeOK, SizesInv, PartOf
  <1>6. CASE e.status # "error"
    <2> DEFINE map == Append(Delete(values[p[1]], p[2]), e)
               diff == e.size - SizeAt(values[p[1]], p[2])
               r == Stored([values EXCEPT ![p[1]] = map], [sizes EXCEPT ![p[1]] = @ + diff], cacheSize + diff)
    <2>1. values' = [values EXCEPT ![p[1]] = map]
      BY <1>6 DEF Touch
    <2>2. r \in StoredType /\ Exact(r) /\ Replaces(r.values, values, p, e)
      <3> HIDE DEF before, e
      <3> QED BY <1>1, <1>3, MovedKeeps
    <2>3. SizeAt(values[p[1]], p[2]) = e.size /\ e.size \in Nat
      BY <1>2, <1>3 DEF SizeAt, Entry
    <2>4. diff = 0
      BY <2>3
    <2> HIDE DEF e, map, diff
    <2>5. sizes \in [Names -> Int] /\ cacheSize \in Int
      BY DEF CacheTypeOK
    <2>6. [sizes EXCEPT ![p[1]] = @ + diff] = sizes /\ cacheSize + diff = cacheSize
      BY <1>2, <2>4, <2>5
    <2>7. r = Stored(values', sizes', cacheSize')
      BY <2>1, <2>6
    <2> HIDE DEF r
    <2>8. r.values = values'
      BY <2>7 DEF Stored
    <2>9. \A c \in Names : PartOf(values'[c], values[c])
      <3> SUFFICES ASSUME NEW c \in Names, NEW i \in DOMAIN values'[c]
                   PROVE  \E j \in DOMAIN values[c] : values'[c][i] = values[c][j]
        BY DEF PartOf
      <3>1. \/ c = p[1] /\ values'[c][i] = e
            \/ \E j \in DOMAIN values[c] : values'[c][i] = values[c][j]
        BY <2>2, <2>8 DEF Replaces
      <3> QED BY <1>3, <3>1 DEF e
    <2> QED BY <1>4, <2>2, <2>7, <2>8, <2>9 DEF SizesInv, StoredType
  <1> QED BY <1>5, <1>6

\* The entries of the maps after a step.
LEMMA EntriesStay ==
  ASSUME CacheTypeOK, EntriesInv, \A c \in Names : PartOf(values'[c], values[c]),
         \A c \in Names : \A x \in Entry : EntryInv(c, x) => EntryInv(c, x)'
  PROVE  EntriesInv'
  <1> SUFFICES ASSUME NEW c \in Names, NEW i \in DOMAIN values'[c] PROVE EntryInv(c, values[c][i])'
    BY DEF EntriesInv
  <1>1. PICK j \in DOMAIN values[c] : values'[c][i] = values[c][j]
    BY DEF PartOf
  <1>2. values[c][j] \in Entry
    BY SizesOfMap DEF CacheTypeOK, Maps
  <1>3. PICK x : x = values[c][j]
    OBVIOUS
  <1>4. EntryInv(c, x)'
    BY <1>2, <1>3 DEF EntriesInv
  <1>5. x = values'[c][i]
    BY <1>1, <1>3
  <1> QED BY <1>4, <1>5 DEF EntryInv, Fetches

\* A step that replaces the entry of a place, and drops others.
LEMMA EntriesReplaced ==
  ASSUME CacheTypeOK, EntriesInv, NEW p \in Places, NEW e, Replaces(values', values, p, e), EntryInv(p[1], e)',
         \A c \in Names : \A x \in Entry : (<<c, x.key>> # p /\ EntryInv(c, x)) => EntryInv(c, x)'
  PROVE  EntriesInv'
  <1> SUFFICES ASSUME NEW c \in Names, NEW i \in DOMAIN values'[c] PROVE EntryInv(c, values[c][i])'
    BY DEF EntriesInv
  <1>1. CASE c = p[1] /\ values'[c][i] = e
    BY <1>1 DEF EntryInv, Fetches
  <1>2. CASE <<c, values'[c][i].key>> # p /\ \E j \in DOMAIN values[c] : values'[c][i] = values[c][j]
    <2>1. PICK j \in DOMAIN values[c] : values'[c][i] = values[c][j]
      BY <1>2
    <2>2. values[c][j] \in Entry
      BY SizesOfMap DEF CacheTypeOK, Maps
    <2>3. PICK x : x = values[c][j]
      OBVIOUS
    <2>4. EntryInv(c, x)'
      BY <1>2, <2>1, <2>2, <2>3 DEF EntriesInv
    <2>5. x = values'[c][i]
      BY <2>1, <2>3
    <2> QED BY <2>4, <2>5 DEF EntryInv, Fetches
  <1> QED BY <1>1, <1>2 DEF Replaces

\* The second cache starts empty.
LEMMA CacheStarts == CacheInit => CacheInv
  <1> SUFFICES ASSUME CacheInit PROVE CacheInv
    OBVIOUS
  <1> USE DEF CacheInit
  <1>1. Idle \in CallType /\ Idle.pc = "idle" /\ Idle.list = {}
    BY Cache2Assumption DEF Idle, CallType
  <1>2. <<>> \in Maps
    BY DEF Maps, KeysDiffer
  <1>3. values = [c \in Names |-> <<>>] /\ sizes = [c \in Names |-> 0]
    BY DEF Names
  <1>4. CacheTypeOK
    <2>1. values \in [Names -> Maps] /\ sizes \in [Names -> Int] /\ cacheSize \in Int /\ cacheTime \in Nat \ {0}
      BY <1>2, <1>3
    <2>2. collecting \in BOOLEAN /\ missed \in BOOLEAN /\ raced \in [Places -> BOOLEAN]
      OBVIOUS
    <2>3. getter \in [Getters -> CallType] /\ origin \in [Places -> Nat]
      BY <1>1
    <2> QED BY <2>1, <2>2, <2>3 DEF CacheTypeOK
  <1>5. SumFunction(sizes) = 0
    BY <1>3, NamesAreFinite, SumOfZeros
  <1>6. \A c \in Names : sizes[c] = TotalSize(values[c])
    BY <1>3, TotalOfNothing
  <1>7. SizesInv
    BY <1>5, <1>6, Cache2Assumption DEF SizesInv, BoundedUnlessMissed, Exact, Stored
  <1>8. EntriesInv
    BY <1>3 DEF EntriesInv
  <1>9. CallsInv
    BY <1>1 DEF CallsInv, CallInv, Fetches
  <1> QED BY <1>4, <1>7, <1>8, <1>9 DEF CacheInv

\* Parts of the invariant, when nothing they are about changes.
LEMMA SizesFramed ==
  ASSUME SizesInv, UNCHANGED <<values, sizes, cacheSize, missed>>
  PROVE  SizesInv'
  BY DEF SizesInv, BoundedUnlessMissed, Exact, Stored

\* The entries.
LEMMA EntriesFramed ==
  ASSUME CacheTypeOK, EntriesInv, UNCHANGED values,
         \A c \in Names : \A x \in Entry : EntryInv(c, x) => EntryInv(c, x)'
  PROVE  EntriesInv'
  BY EntriesStay DEF PartOf

\* The calls.
LEMMA CallsFramed ==
  ASSUME CallsInv, UNCHANGED <<getter, origin, raced>>
  PROVE  CallsInv'
  BY DEF CallsInv, CallInv, Fetches

\* get() is called.
LEMMA GetCallKeeps ==
  ASSUME CacheInv, NEW g \in Getters, NEW p \in Places, GetCall(g, p)
  PROVE  CacheInv'
  <1> USE DEF GetCall, CacheInv
  <1>1. CacheTypeOK'
    BY DEF CacheTypeOK, CallType
  <1>2. SizesInv'
    BY SizesFramed
  <1>3. getter[g].list = {}
    BY DEF CallsInv, CallInv, Fetches
  <1>4. \A h \in Getters : h # g => getter'[h] = getter[h]
    BY DEF CacheTypeOK
  <1>5. getter'[g].pc = "loop" /\ getter'[g].list = {}
    BY DEF CacheTypeOK
  <1>6. \A c \in Names : \A x \in Entry : EntryInv(c, x) => EntryInv(c, x)'
    BY <1>4 DEF EntryInv, Fetches
  <1>7. EntriesInv'
    BY <1>6, EntriesFramed
  <1>8. \A f \in Getters : getter'[f].list = getter[f].list
    BY <1>3, <1>4, <1>5
  <1>9. \A f \in Getters : Fetches(f)' <=> Fetches(f)
    BY <1>4, <1>5 DEF Fetches
  <1>10. CallsInv'
    <2>1. ASSUME NEW f \in Getters PROVE CallInv(f)'
      <3>1. \A h \in getter[f].list : h # g
        BY DEF CallsInv, CallInv
      <3>2. getter[f].list \subseteq Getters
        BY DEF CacheTypeOK, CallType
      <3> QED BY <1>4, <1>5, <1>8, <1>9, <3>1, <3>2 DEF CallsInv, CallInv
    <2> QED BY <1>8, <2>1 DEF CallsInv
  <1> QED BY <1>1, <1>2, <1>7, <1>10

\* get() finds a valid entry, and moves it to the end.
LEMMA GetHitKeeps ==
  ASSUME CacheInv, NEW g \in Getters, GetHit(g)
  PROVE  CacheInv'
  <1> DEFINE p == getter[g].at
  <1> USE DEF CacheInv
  <1>1. p \in Places /\ getter[g].pc = "loop" /\ Valid(p) /\ values' = Touch(p)
    BY DEF GetHit, CacheTypeOK, CallType
  <1>2. UNCHANGED <<sizes, cacheSize, cacheTime, collecting, missed, origin, raced>>
    BY DEF GetHit
  <1>3. /\ values' \in [Names -> Maps] /\ SizesInv'
        /\ \A c \in Names : PartOf(values'[c], values[c])
    BY <1>1, <1>2, TouchIs
  <1> DEFINE data == EntryOf(values[p[1]], p[2]).data
  <1>4. data \in Nat \cup Getters
    BY <1>1, FoundIs DEF Valid, Entry
  <1>5. getter' = [getter EXCEPT ![g].pc = "done", ![g].got = data]
    BY DEF GetHit
  <1> HIDE DEF p, data
  <1>6. CacheTypeOK'
    BY <1>2, <1>3, <1>4, <1>5 DEF CacheTypeOK, CallType
  <1>7. \A h \in Getters : h # g => getter'[h] = getter[h]
    BY <1>5 DEF CacheTypeOK
  <1>8. getter'[g].pc = "done" /\ getter'[g].list = getter[g].list
    BY <1>5 DEF CacheTypeOK, CallType
  <1>9. \A f \in Getters : Fetches(f)' <=> Fetches(f)
    BY <1>1, <1>7, <1>8 DEF Fetches
  <1>10. \A c \in Names : \A x \in Entry : EntryInv(c, x) => EntryInv(c, x)'
    BY <1>1, <1>2, <1>7, <1>9 DEF EntryInv, Fetches
  <1>11. EntriesInv'
    BY <1>3, <1>10, EntriesStay
  <1>12. \A f \in Getters : getter'[f].list = getter[f].list
    BY <1>7, <1>8
  <1>13. CallsInv'
    <2>1. ASSUME NEW f \in Getters PROVE CallInv(f)'
      <3>1. \A h \in getter[f].list : h # g
        BY <1>1 DEF CallsInv, CallInv
      <3>2. getter[f].list \subseteq Getters
        BY DEF CacheTypeOK, CallType
      <3> QED BY <1>2, <1>7, <1>8, <1>9, <1>12, <3>1, <3>2 DEF CallsInv, CallInv
    <2> QED BY <1>12, <2>1 DEF CallsInv
  <1> QED BY <1>3, <1>6, <1>11, <1>13

\* get() finds an entry that another call fetches, and waits for it.
LEMMA GetWaitKeeps ==
  ASSUME CacheInv, NEW g \in Getters, GetWait(g)
  PROVE  CacheInv'
  <1> DEFINE p == getter[g].at
             f == EntryOf(values[p[1]], p[2]).data
  <1> USE DEF CacheInv
  <1>1. p \in Places /\ getter[g].pc = "loop" /\ IsFetching(p)
    BY DEF GetWait, CacheTypeOK, CallType
  <1>2. f \in Getters /\ Fetches(f)
    BY <1>1, FoundIs DEF IsFetching, EntryInv
  <1>3. UNCHANGED <<values, sizes, cacheSize, cacheTime, collecting, missed, origin, raced>>
    BY DEF GetWait
  <1>4. getter' = [getter EXCEPT ![g].pc = "waiting", ![f].list = @ \cup {g}]
    BY DEF GetWait
  <1> HIDE DEF p, f
  <1>5. f # g
    BY <1>1, <1>2 DEF Fetches
  <1>6. getter'[g] = [getter[g] EXCEPT !.pc = "waiting"] /\ getter'[f] = [getter[f] EXCEPT !.list = @ \cup {g}]
    BY <1>2, <1>4, <1>5 DEF CacheTypeOK
  <1>7. \A h \in Getters : (h # g /\ h # f) => getter'[h] = getter[h]
    BY <1>4 DEF CacheTypeOK
  <1>8. CacheTypeOK'
    <2>1. getter' \in [Getters -> CallType]
      <3>1. DOMAIN getter' = Getters /\ getter' = [h \in Getters |-> getter'[h]]
        BY <1>4 DEF CacheTypeOK
      <3>2. \A h \in Getters : getter'[h] \in CallType
        BY <1>2, <1>6, <1>7 DEF CacheTypeOK, CallType
      <3> QED BY <3>1, <3>2
    <2> QED BY <1>3, <2>1 DEF CacheTypeOK
  <1>9. SizesInv'
    BY <1>3, SizesFramed
  <1>t. getter[g] \in CallType /\ getter[f] \in CallType
    BY <1>2 DEF CacheTypeOK
  <1>10. /\ getter'[g].pc = "waiting" /\ getter'[g].list = getter[g].list /\ getter'[g].at = getter[g].at
         /\ getter'[f].pc = getter[f].pc /\ getter'[f].list = getter[f].list \cup {g} /\ getter'[f].at = getter[f].at
         /\ getter'[f].got = getter[f].got
    BY <1>6, <1>t DEF CallType
  <1>11. \A h \in Getters : Fetches(h)' <=> Fetches(h)
    BY <1>1, <1>7, <1>10 DEF Fetches
  <1>12. \A c \in Names : \A x \in Entry : EntryInv(c, x) => EntryInv(c, x)'
    BY <1>3, <1>7, <1>10, <1>11 DEF EntryInv
  <1>13. EntriesInv'
    BY <1>3, <1>12, EntriesFramed
  <1>14. \A h \in Getters : getter[h].list \subseteq Getters /\ g \notin getter[h].list
    BY <1>1 DEF CacheTypeOK, CallType, CallsInv, CallInv
  <1>15. \A h \in Getters : getter[h].pc = "waiting" => getter'[h].pc = "waiting"
    BY <1>7, <1>10
  <1>16. \A h \in Getters : getter[h].list \subseteq getter'[h].list
    BY <1>7, <1>10
  <1>17. CallsInv'
    <2>1. ASSUME NEW h \in Getters PROVE CallInv(h)'
      <3>1. ~Fetches(h)' => getter'[h].list = {}
        BY <1>2, <1>7, <1>10, <1>11 DEF CallsInv, CallInv
      <3>2. \A x \in getter'[h].list : getter'[x].pc = "waiting"
        BY <1>7, <1>10, <1>14, <1>15 DEF CallsInv, CallInv
      <3>3. getter'[h].pc = "waiting" => \E y \in Getters : Fetches(y)' /\ h \in getter'[y].list
        <4>1. CASE h = g
          BY <1>2, <1>10, <1>11, <4>1
        <4>2. CASE h # g
          <5>1. getter'[h].pc = "waiting" => getter[h].pc = "waiting"
            BY <1>7, <1>10, <4>2
          <5> QED BY <1>11, <1>16, <5>1 DEF CallsInv, CallInv
        <4> QED BY <4>1, <4>2
      <3>4. (getter'[h].pc = "read" /\ ~raced'[getter'[h].at]) => getter'[h].got = origin'[getter'[h].at]
        BY <1>3, <1>7, <1>10 DEF CallsInv, CallInv
      <3> QED BY <3>1, <3>2, <3>3, <3>4 DEF CallInv, Fetches
    <2>2. ASSUME NEW h \in Getters, NEW k \in Getters, NEW x \in getter'[h].list, x \in getter'[k].list
          PROVE  h = k
      <3>1. CASE x = g
        BY <1>7, <1>10, <1>14, <2>2, <3>1
      <3>2. CASE x # g
        <4>1. x \in getter[h].list /\ x \in getter[k].list
          BY <1>7, <1>10, <2>2, <3>2
        <4> QED BY <4>1 DEF CallsInv
      <3> QED BY <3>1, <3>2
    <2> QED BY <2>1, <2>2 DEF CallsInv
  <1> QED BY <1>8, <1>9, <1>13, <1>17

\* Who fetches leaves its entry, which keeps its place and its size.
LEMMA GetFetchKeeps ==
  ASSUME CacheInv, NEW g \in Getters, GetFetch(g)
  PROVE  CacheInv'
  <1>p. PICK p : p = getter[g].at
    OBVIOUS
  <1>e. PICK e : e = FetchingEntry(g, p)
    OBVIOUS
  <1> DEFINE map == Put(values[p[1]], e)
  <1> USE DEF CacheInv
  <1>1. p \in Places /\ getter[g].pc = "loop" /\ ~IsFetching(p)
    BY <1>p DEF GetFetch, CacheTypeOK, CallType
  <1>2. UNCHANGED <<sizes, cacheSize, cacheTime, collecting, missed, origin, raced>>
    BY DEF GetFetch
  <1>3. values' = [values EXCEPT ![p[1]] = map] /\ getter' = [getter EXCEPT ![g].pc = "fetch"]
    BY <1>p, <1>e DEF GetFetch
  <1>4. p[1] \in Names /\ p[2] \in STRING /\ p = <<p[1], p[2]>> /\ values[p[1]] \in Maps
    BY <1>1, PlaceIs DEF CacheTypeOK
  <1>5. /\ e \in Entry /\ e.key = p[2] /\ e.size = SizeAt(values[p[1]], e.key)
        /\ e.status = "fetching" /\ e.timeout = -1 /\ e.data = g
    <2>1. SizeAt(values[p[1]], p[2]) \in Nat
      BY <1>4, SizeAtIs
    <2> QED BY <1>4, <1>e, <2>1 DEF FetchingEntry, Entry
  <1>6. /\ map \in Maps
        /\ \A i \in DOMAIN map : map[i] = e \/ (map[i].key # e.key /\ \E j \in DOMAIN values[p[1]] : map[i] = values[p[1]][j])
        /\ TotalSize(map) = TotalSize(values[p[1]])
    BY <1>4, <1>5, PutIs
  <1> HIDE DEF map
  <1>7. values' \in [Names -> Maps]
    BY <1>3, <1>4, <1>6 DEF CacheTypeOK
  <1>8. CacheTypeOK'
    BY <1>2, <1>3, <1>7 DEF CacheTypeOK, CallType
  <1>9. Replaces(values', values, p, e)
    <2> SUFFICES ASSUME NEW c \in Names, NEW i \in DOMAIN values'[c]
                 PROVE  \/ c = p[1] /\ values'[c][i] = e
                        \/ <<c, values'[c][i].key>> # p /\ \E j \in DOMAIN values[c] : values'[c][i] = values[c][j]
      BY DEF Replaces
    <2>1. CASE c = p[1]
      <3>1. values'[c] = map
        BY <1>3, <2>1 DEF CacheTypeOK
      <3> QED BY <1>4, <1>5, <1>6, <2>1, <3>1
    <2>2. CASE c # p[1]
      <3>1. values'[c] = values[c]
        BY <1>3, <2>2 DEF CacheTypeOK
      <3> QED BY <1>4, <2>2, <3>1
    <2> QED BY <2>1, <2>2
  <1>10. SizesInv'
    <2>1. \A c \in Names : TotalSize(values'[c]) = TotalSize(values[c])
      <3> SUFFICES ASSUME NEW c \in Names PROVE TotalSize(values'[c]) = TotalSize(values[c])
        OBVIOUS
      <3>1. CASE c = p[1]
        <4>1. values'[c] = map
          BY <1>3, <3>1 DEF CacheTypeOK
        <4> QED BY <1>6, <3>1, <4>1
      <3>2. CASE c # p[1]
        <4>1. values'[c] = values[c]
          BY <1>3, <3>2 DEF CacheTypeOK
        <4> QED BY <4>1
      <3> QED BY <3>1, <3>2
    <2> QED BY <1>2, <2>1 DEF SizesInv, BoundedUnlessMissed, Exact, Stored
  <1>11. \A h \in Getters : h # g => getter'[h] = getter[h]
    BY <1>3 DEF CacheTypeOK
  <1>12. /\ getter'[g].pc = "fetch" /\ getter'[g].list = getter[g].list /\ getter'[g].at = p
         /\ getter[g].list = {}
    <2>1. getter[g].list = {}
      BY <1>1 DEF CallsInv, CallInv, Fetches
    <2> QED BY <1>3, <1>p, <2>1 DEF CacheTypeOK, CallType
  <1>13. \A h \in Getters : Fetches(h) => Fetches(h)'
    BY <1>1, <1>11 DEF Fetches
  <1>14. EntryInv(p[1], e)'
    BY <1>1, <1>2, <1>4, <1>5, <1>12 DEF EntryInv, Fetches, CacheTypeOK
  <1>15. \A c \in Names : \A x \in Entry : EntryInv(c, x) => EntryInv(c, x)'
    <2>1. \A h \in Getters : getter'[h].at = getter[h].at
      BY <1>p, <1>11, <1>12
    <2> QED BY <1>2, <1>13, <2>1 DEF EntryInv
  <1>16. EntriesInv'
    BY <1>1, <1>9, <1>14, <1>15, EntriesReplaced
  <1>17. CallsInv'
    <2>1. ASSUME NEW h \in Getters PROVE CallInv(h)'
      <3>1. \A x \in getter[h].list : x # g
        BY <1>1 DEF CallsInv, CallInv
      <3>2. getter[h].list \subseteq Getters
        BY DEF CacheTypeOK, CallType
      <3>3. CASE h = g
        BY <1>12, <3>3 DEF CallInv, Fetches
      <3>4. CASE h # g
        <4>1. getter'[h] = getter[h] /\ CallInv(h)
          BY <1>11, <3>4 DEF CallsInv
        <4>2. Fetches(h)' <=> Fetches(h)
          BY <4>1 DEF Fetches
        <4>3. \A x \in getter'[h].list : getter'[x].pc = "waiting"
          BY <1>11, <3>1, <3>2, <4>1 DEF CallInv
        <4>4. getter'[h].pc = "waiting" => \E f \in Getters : Fetches(f)' /\ h \in getter'[f].list
          BY <1>11, <1>12, <1>13, <4>1 DEF CallInv
        <4>5. (getter'[h].pc = "read" /\ ~raced'[getter'[h].at]) => getter'[h].got = origin'[getter'[h].at]
          BY <1>2, <4>1 DEF CallInv
        <4> QED BY <4>1, <4>2, <4>3, <4>4, <4>5 DEF CallInv, Fetches
      <3> QED BY <3>3, <3>4
    <2>2. \A f \in Getters : getter'[f].list = getter[f].list
      BY <1>11, <1>12
    <2> QED BY <2>1, <2>2 DEF CallsInv
  <1> QED BY <1>8, <1>10, <1>16, <1>17

\* The fetcher reads the data.
LEMMA FetchReadsKeeps ==
  ASSUME CacheInv, NEW g \in Getters, FetchReads(g)
  PROVE  CacheInv'
  <1> USE DEF CacheInv
  <1>1. getter[g].pc = "fetch" /\ UNCHANGED <<values, sizes, cacheSize, cacheTime, collecting, missed, origin, raced>>
    BY DEF FetchReads
  <1>2. getter' = [getter EXCEPT ![g].pc = "read", ![g].got = origin[getter[g].at]]
    BY DEF FetchReads
  <1>3. getter[g].at \in Places /\ origin[getter[g].at] \in Nat
    BY DEF CacheTypeOK, CallType
  <1>4. CacheTypeOK'
    BY <1>1, <1>2, <1>3 DEF CacheTypeOK, CallType
  <1>5. SizesInv'
    BY <1>1, SizesFramed
  <1>6. \A h \in Getters : h # g => getter'[h] = getter[h]
    BY <1>2 DEF CacheTypeOK
  <1>7. /\ getter'[g].pc = "read" /\ getter'[g].list = getter[g].list /\ getter'[g].at = getter[g].at
        /\ getter'[g].got = origin[getter[g].at]
    BY <1>2 DEF CacheTypeOK, CallType
  <1>8. \A h \in Getters : Fetches(h)' <=> Fetches(h)
    BY <1>1, <1>6, <1>7 DEF Fetches
  <1>9. \A h \in Getters : getter'[h].at = getter[h].at /\ getter'[h].list = getter[h].list
    BY <1>6, <1>7
  <1>10. \A c \in Names : \A x \in Entry : EntryInv(c, x) => EntryInv(c, x)'
    BY <1>1, <1>8, <1>9 DEF EntryInv
  <1>11. EntriesInv'
    BY <1>1, <1>10, EntriesFramed
  <1>12. \A h \in Getters : (getter[h].pc = "waiting" <=> getter'[h].pc = "waiting")
    BY <1>1, <1>6, <1>7
  <1>13. ASSUME NEW h \in Getters PROVE CallInv(h)'
    <2>1. getter[h].list \subseteq Getters /\ CallInv(h)
      BY DEF CacheTypeOK, CallType, CallsInv
    <2>2. (getter'[h].pc = "read" /\ ~raced'[getter'[h].at]) => getter'[h].got = origin'[getter'[h].at]
      BY <1>1, <1>6, <1>7, <2>1 DEF CallInv
    <2> QED BY <1>8, <1>9, <1>12, <2>1, <2>2 DEF CallInv
  <1>14. CallsInv'
    BY <1>9, <1>13 DEF CallsInv
  <1> QED BY <1>4, <1>5, <1>11, <1>14

\* set() after a fetch, of the value or of the error, and the calls that waited go on.
LEMMA FetchEndsKeeps ==
  ASSUME CacheInv, NEW g \in Getters, NEW status \in {"value", "error"}, FetchEnds(g, status)
  PROVE  CacheInv'
  <1>p. PICK p : p = getter[g].at
    OBVIOUS
  <1>d. PICK data : data = getter[g].got
    OBVIOUS
  <1>l. PICK L : L = getter[g].list
    OBVIOUS
  <1>e. PICK e : e = NewEntry(p, data, status)
    OBVIOUS
  <1> USE DEF CacheInv
  <1>1. p \in Places /\ data \in Nat \cup Getters /\ L \subseteq Getters
    BY <1>p, <1>d, <1>l DEF CacheTypeOK, CallType
  <1>2. getter[g].pc = "read" /\ CacheSet(p, data, status) /\ UNCHANGED <<cacheTime, origin, raced>>
    BY <1>p, <1>d DEF FetchEnds
  <1>3. getter' = [h \in Getters |-> IF h = g THEN [getter[g] EXCEPT !.pc = "done", !.list = {}]
                                     ELSE IF h \in L THEN [getter[h] EXCEPT !.pc = "loop"] ELSE getter[h]]
    BY <1>l DEF FetchEnds
  <1>4. /\ values' \in [Names -> Maps] /\ sizes' \in [Names -> Int] /\ cacheSize' \in Int
        /\ collecting' \in BOOLEAN /\ missed' \in BOOLEAN
        /\ SizesInv'
        /\ Replaces(values', values, p, e)
    BY <1>1, <1>2, <1>e, CacheSetIs
  <1>5. \A h \in L : getter[h].pc = "waiting" /\ h # g
    BY <1>2, <1>l DEF CallsInv, CallInv
  <1>6. getter'[g].pc = "done" /\ getter'[g].list = {} /\ getter'[g].at = p
    <2>1. getter[g] \in CallType
      BY DEF CacheTypeOK
    <2>2. getter'[g] = [getter[g] EXCEPT !.pc = "done", !.list = {}]
      BY <1>3
    <2> QED BY <1>p, <2>1, <2>2 DEF CallType
  <1>7. \A h \in L : getter'[h].pc = "loop" /\ getter'[h].list = getter[h].list /\ getter'[h].at = getter[h].at
    <2> SUFFICES ASSUME NEW h \in L
                 PROVE  getter'[h].pc = "loop" /\ getter'[h].list = getter[h].list /\ getter'[h].at = getter[h].at
      OBVIOUS
    <2>1. h \in Getters /\ h # g /\ getter[h] \in CallType
      BY <1>1, <1>5 DEF CacheTypeOK
    <2>2. getter'[h] = [getter[h] EXCEPT !.pc = "loop"]
      BY <1>3, <2>1
    <2> QED BY <2>1, <2>2 DEF CallType
  <1>8. \A h \in Getters : (h # g /\ h \notin L) => getter'[h] = getter[h]
    BY <1>3
  <1>9. getter' \in [Getters -> CallType]
    <2> SUFFICES ASSUME NEW h \in Getters
                 PROVE  (IF h = g THEN [getter[g] EXCEPT !.pc = "done", !.list = {}]
                         ELSE IF h \in L THEN [getter[h] EXCEPT !.pc = "loop"] ELSE getter[h]) \in CallType
      BY <1>3
    <2>1. getter[h] \in CallType
      BY DEF CacheTypeOK
    <2> QED BY <2>1 DEF CallType
  <1>10. CacheTypeOK'
    BY <1>2, <1>4, <1>9 DEF CacheTypeOK
  <1>11. \A h \in Getters : (Fetches(h) /\ h # g) => getter'[h] = getter[h]
    BY <1>5, <1>8 DEF Fetches
  <1>12. p = <<p[1], p[2]>> /\ e.key = p[2] /\ e.status = status /\ e.data = data
    BY <1>1, <1>e, PlaceIs DEF NewEntry
  <1>13. EntryInv(p[1], e)'
    <2>1. CallInv(g)
      BY DEF CallsInv
    <2>2. ~raced[p] => data = origin[p]
      BY <1>2, <1>p, <1>d, <2>1 DEF CallInv
    <2> QED BY <1>1, <1>2, <1>12, <2>2 DEF EntryInv
  <1>14. ASSUME NEW c \in Names, NEW x \in Entry, <<c, x.key>> # p, EntryInv(c, x)
         PROVE  EntryInv(c, x)'
    <2>1. ASSUME x.status = "fetching"
          PROVE  x.data \in Getters /\ Fetches(x.data)' /\ getter'[x.data].at = <<c, x.key>> /\ x.timeout = -1
      <3>1. x.data \in Getters /\ Fetches(x.data) /\ getter[x.data].at = <<c, x.key>> /\ x.timeout = -1
        BY <1>14, <2>1 DEF EntryInv
      <3>2. getter'[x.data] = getter[x.data]
        BY <1>p, <1>11, <1>14, <3>1
      <3> QED BY <3>1, <3>2 DEF Fetches
    <2> QED BY <1>2, <1>14, <2>1 DEF EntryInv
  <1>15. EntriesInv'
    BY <1>1, <1>4, <1>13, <1>14, EntriesReplaced
  <1>16. ASSUME NEW h \in Getters PROVE CallInv(h)'
    <2>1. CallInv(h) /\ getter[h].list \subseteq Getters
      BY DEF CallsInv, CacheTypeOK, CallType
    <2>2. CASE h = g
      BY <1>6, <2>2 DEF CallInv, Fetches
    <2>3. CASE h \in L
      BY <1>5, <1>7, <2>1, <2>3 DEF CallInv, Fetches
    <2>4. CASE h # g /\ h \notin L
      <3>1. getter'[h] = getter[h]
        BY <1>8, <2>4
      <3>2. \A x \in getter[h].list : x \notin L /\ x # g
        BY <1>2, <1>l, <2>1, <2>4 DEF CallsInv, CallInv
      <3>3. \A x \in getter'[h].list : getter'[x].pc = "waiting"
        BY <1>8, <2>1, <3>1, <3>2 DEF CallInv
      <3>4. ASSUME getter'[h].pc = "waiting" PROVE \E f \in Getters : Fetches(f)' /\ h \in getter'[f].list
        <4>1. PICK f \in Getters : Fetches(f) /\ h \in getter[f].list
          BY <2>1, <3>1, <3>4 DEF CallInv
        <4>2. f # g
          BY <1>l, <2>4, <4>1
        <4>3. getter'[f] = getter[f]
          BY <1>11, <4>1, <4>2
        <4> QED BY <4>1, <4>3 DEF Fetches
      <3> QED BY <1>2, <2>1, <3>1, <3>3, <3>4 DEF CallInv, Fetches
    <2> QED BY <2>2, <2>3, <2>4
  <1>17. \A f \in Getters : getter'[f].list \subseteq getter[f].list
    BY <1>6, <1>7, <1>8
  <1>18. CallsInv'
    BY <1>16, <1>17 DEF CallsInv
  <1> QED BY <1>4, <1>10, <1>15, <1>18

\* set() is called.
LEMMA ManualSetKeeps ==
  ASSUME CacheInv, NEW p \in Places, ManualSet(p)
  PROVE  CacheInv'
  <1>e. PICK e : e = NewEntry(p, origin[p], "value")
    OBVIOUS
  <1> USE DEF CacheInv
  <1>1. CacheSet(p, origin[p], "value") /\ UNCHANGED <<cacheTime, getter, origin, raced>>
    BY DEF ManualSet
  <1>2. origin[p] \in Nat \cup Getters
    BY DEF CacheTypeOK
  <1>3. /\ values' \in [Names -> Maps] /\ sizes' \in [Names -> Int] /\ cacheSize' \in Int
        /\ collecting' \in BOOLEAN /\ missed' \in BOOLEAN
        /\ SizesInv'
        /\ Replaces(values', values, p, e)
    BY <1>1, <1>2, <1>e, CacheSetIs
  <1>4. CacheTypeOK'
    BY <1>1, <1>3 DEF CacheTypeOK
  <1>5. p = <<p[1], p[2]>> /\ e.key = p[2] /\ e.status = "value" /\ e.data = origin[p]
    BY <1>e, PlaceIs DEF NewEntry
  <1>6. EntryInv(p[1], e)'
    BY <1>1, <1>5 DEF EntryInv
  <1>7. \A c \in Names : \A x \in Entry : EntryInv(c, x) => EntryInv(c, x)'
    BY <1>1 DEF EntryInv, Fetches
  <1>8. EntriesInv'
    BY <1>3, <1>6, <1>7, EntriesReplaced
  <1>9. CallsInv'
    BY <1>1, CallsFramed
  <1> QED BY <1>3, <1>4, <1>8, <1>9

\* getInstant() is called.
LEMMA GetInstantKeeps ==
  ASSUME CacheInv, NEW p \in Places, GetInstant(p)
  PROVE  CacheInv'
  <1> USE DEF CacheInv
  <1>1. Valid(p) /\ values' = Touch(p)
        /\ UNCHANGED <<sizes, cacheSize, cacheTime, collecting, missed, getter, origin, raced>>
    BY DEF GetInstant
  <1>2. /\ values' \in [Names -> Maps] /\ SizesInv'
        /\ \A c \in Names : PartOf(values'[c], values[c])
    BY <1>1, TouchIs
  <1>3. CacheTypeOK'
    BY <1>1, <1>2 DEF CacheTypeOK
  <1>4. \A c \in Names : \A x \in Entry : EntryInv(c, x) => EntryInv(c, x)'
    BY <1>1 DEF EntryInv, Fetches
  <1>5. EntriesInv'
    BY <1>2, <1>4, EntriesStay
  <1>6. CallsInv'
    BY <1>1, CallsFramed
  <1> QED BY <1>2, <1>3, <1>5, <1>6

\* setDirty() of a key that is there replaces its entry by one that is never valid.
LEMMA SetDirtyKeeps ==
  ASSUME CacheInv, NEW p \in Places, SetDirty(p)
  PROVE  CacheInv'
  <1> USE DEF CacheInv
  <1>1. UNCHANGED <<sizes, cacheSize, cacheTime, collecting, missed, getter>>
    BY DEF SetDirty
  <1>2. /\ origin' = [origin EXCEPT ![p] = @ + 1] /\ raced' = [raced EXCEPT ![p] = InFlight(p)]
        /\ values' = Dirtied(p)
    BY DEF SetDirty
  <1>3. /\ origin' \in [Places -> Nat] /\ raced' \in [Places -> BOOLEAN] /\ raced'[p] = InFlight(p)
        /\ \A q \in Places : q # p => origin'[q] = origin[q] /\ raced'[q] = raced[q]
    <2>1. InFlight(p) \in BOOLEAN
      BY DEF InFlight
    <2>2. raced \in [Places -> BOOLEAN] /\ origin \in [Places -> Nat]
      BY DEF CacheTypeOK
    <2>3. raced' \in [Places -> BOOLEAN] /\ raced'[p] = InFlight(p) /\ \A q \in Places : q # p => raced'[q] = raced[q]
      BY <1>2, <2>1, <2>2, Zenon
    <2>4. origin' \in [Places -> Nat] /\ \A q \in Places : q # p => origin'[q] = origin[q]
      BY <1>2, <2>2
    <2> QED BY <2>3, <2>4
  <1>4. CallsInv'
    <2>1. ASSUME NEW h \in Getters PROVE CallInv(h)'
      <3>1. CallInv(h) /\ getter[h].at \in Places
        BY DEF CallsInv, CacheTypeOK, CallType
      <3>2. (getter[h].pc = "read" /\ ~raced'[getter[h].at]) => getter[h].at # p
        BY <1>3 DEF InFlight
      <3>3. (getter'[h].pc = "read" /\ ~raced'[getter'[h].at]) => getter'[h].got = origin'[getter'[h].at]
        BY <1>1, <1>3, <3>1, <3>2 DEF CallInv
      <3> QED BY <1>1, <3>1, <3>3 DEF CallInv, Fetches
    <2> QED BY <1>1, <2>1 DEF CallsInv
  <1>5. p[1] \in Names /\ p = <<p[1], p[2]>> /\ values[p[1]] \in Maps
    BY PlaceIs DEF CacheTypeOK
  <1>6. \A c \in Names : \A x \in Entry : (<<c, x.key>> # p /\ EntryInv(c, x)) => EntryInv(c, x)'
    BY <1>1, <1>3 DEF EntryInv, Fetches
  <1>7. CASE ~Has(values[p[1]], p[2])
    <2>1. values' = values
      BY <1>2, <1>7 DEF Dirtied
    <2>2. CacheTypeOK' /\ SizesInv'
      BY <1>1, <1>3, <2>1, SizesFramed DEF CacheTypeOK
    <2>3. ASSUME NEW c \in Names, NEW i \in DOMAIN values[c] PROVE EntryInv(c, values[c][i])'
      <3>1. PICK x : x = values[c][i]
        OBVIOUS
      <3>2. x \in Entry /\ EntryInv(c, x)
        BY <3>1, SizesOfMap DEF CacheTypeOK, Maps, EntriesInv
      <3>3. <<c, x.key>> # p
        BY <1>5, <1>7, <3>1 DEF Has
      <3>4. EntryInv(c, x)'
        BY <1>6, <3>2, <3>3
      <3>5. x = values'[c][i]
        BY <2>1, <3>1
      <3> QED BY <3>4, <3>5 DEF EntryInv, Fetches
    <2>4. EntriesInv'
      BY <2>1, <2>3 DEF EntriesInv
    <2> QED BY <1>4, <2>2, <2>4
  <1>8. CASE Has(values[p[1]], p[2])
    <2>e. PICK e : e = [EntryOf(values[p[1]], p[2]) EXCEPT !.timeout = -1]
      OBVIOUS
    <2> DEFINE map == Put(values[p[1]], e)
    <2>1. values' = [values EXCEPT ![p[1]] = map]
      BY <1>2, <1>8, <2>e DEF Dirtied
    <2>2. LET o == EntryOf(values[p[1]], p[2]) IN o \in Entry /\ o.key = p[2] /\ EntryInv(p[1], o)
      BY <1>8, FoundIs
    <2>3. /\ e \in Entry /\ e.key = p[2] /\ e.timeout = -1 /\ e.size = SizeAt(values[p[1]], e.key)
          /\ e.status = "fetching" =>
               e.data \in Getters /\ Fetches(e.data) /\ getter[e.data].at = <<p[1], e.key>>
      BY <1>8, <2>e, <2>2 DEF Entry, SizeAt, EntryInv
    <2>4. /\ map \in Maps
          /\ \A i \in DOMAIN map : map[i] = e \/ (map[i].key # e.key /\ \E j \in DOMAIN values[p[1]] : map[i] = values[p[1]][j])
          /\ TotalSize(map) = TotalSize(values[p[1]])
      BY <1>5, <2>3, PutIs
    <2> HIDE DEF map
    <2>5. CacheTypeOK'
      BY <1>1, <1>3, <1>5, <2>1, <2>4 DEF CacheTypeOK
    <2>6. ASSUME NEW c \in Names
          PROVE  (c = p[1] /\ values'[c] = map) \/ (c # p[1] /\ values'[c] = values[c])
      BY <2>1 DEF CacheTypeOK
    <2>7. SizesInv'
      <3>1. \A c \in Names : TotalSize(values'[c]) = TotalSize(values[c])
        BY <2>4, <2>6
      <3> QED BY <1>1, <3>1 DEF SizesInv, BoundedUnlessMissed, Exact, Stored
    <2>8. Replaces(values', values, p, e)
      <3> SUFFICES ASSUME NEW c \in Names, NEW i \in DOMAIN values'[c]
                   PROVE  \/ c = p[1] /\ values'[c][i] = e
                          \/ <<c, values'[c][i].key>> # p /\ \E j \in DOMAIN values[c] : values'[c][i] = values[c][j]
        BY DEF Replaces
      <3>1. CASE c = p[1] /\ values'[c] = map
        BY <1>5, <2>3, <2>4, <3>1
      <3>2. CASE c # p[1] /\ values'[c] = values[c]
        BY <1>5, <3>2
      <3> QED BY <2>6, <3>1, <3>2
    <2>9. EntryInv(p[1], e)'
      <3>1. cacheTime' \in Nat
        BY <1>1 DEF CacheTypeOK
      <3> QED BY <1>1, <1>5, <2>3, <3>1 DEF EntryInv, Fetches
    <2>10. EntriesInv'
      BY <1>6, <2>8, <2>9, EntriesReplaced
    <2> QED BY <1>4, <2>5, <2>7, <2>10
  <1> QED BY <1>7, <1>8

\* The collector ends, the clock ticks, or nothing happens.
LEMMA OtherStepsKeep ==
  ASSUME CacheInv, CollectorEnds \/ CacheTick \/ UNCHANGED cacheVars
  PROVE  CacheInv'
  <1> USE DEF CacheInv
  <1>1. /\ UNCHANGED <<values, sizes, cacheSize, missed, getter, origin, raced>>
        /\ collecting' \in BOOLEAN /\ cacheTime' \in Nat /\ cacheTime' >= cacheTime
    <2>1. UNCHANGED <<values, sizes, cacheSize, missed, getter, origin, raced>>
      BY DEF CollectorEnds, CacheTick, cacheVars
    <2>2. collecting' \in BOOLEAN
      BY DEF CollectorEnds, CacheTick, cacheVars, CacheTypeOK
    <2>3. cacheTime' = cacheTime \/ cacheTime' = cacheTime + 1
      BY DEF CollectorEnds, CacheTick, cacheVars
    <2>4. cacheTime \in Nat
      BY DEF CacheTypeOK
    <2> QED BY <2>1, <2>2, <2>3, <2>4
  <1>2. cacheTime \in Nat \ {0}
    BY DEF CacheTypeOK
  <1>3. CacheTypeOK'
    BY <1>1, <1>2 DEF CacheTypeOK
  <1>4. SizesInv'
    BY <1>1, SizesFramed
  <1>5. \A c \in Names : \A x \in Entry : EntryInv(c, x) => EntryInv(c, x)'
    BY <1>1, <1>2 DEF EntryInv, Fetches, Entry
  <1>6. EntriesInv'
    BY <1>1, <1>5, EntriesFramed
  <1>7. CallsInv'
    BY <1>1, CallsFramed
  <1> QED BY <1>3, <1>4, <1>6, <1>7

\* Every step of the second cache keeps its invariant,
LEMMA CacheKeeps ==
  ASSUME CacheInv, CacheNext \/ UNCHANGED cacheVars
  PROVE  CacheInv'
  BY GetCallKeeps, GetHitKeeps, GetWaitKeeps, GetFetchKeeps, FetchReadsKeeps, FetchEndsKeeps, GetInstantKeeps,
     ManualSetKeeps, SetDirtyKeeps, OtherStepsKeep DEF CacheNext, GetLoop

\* which implies what the run checks of it.
LEMMA CacheInvIsSafe ==
  ASSUME CacheInv
  PROVE  SizesExact /\ BoundedUnlessMissed /\ WaiterHasFetcher /\ FreshAfterDirty
  <1> USE DEF CacheInv
  <1>1. SizesExact
    BY DEF SizesInv, Exact, Stored, SizesExact, Names
  <1>2. BoundedUnlessMissed
    BY DEF SizesInv
  <1>3. WaiterHasFetcher
    BY DEF CallsInv, CallInv, Fetches, WaiterHasFetcher
  <1>4. FreshAfterDirty
    <2> SUFFICES ASSUME NEW p \in Places, Valid(p), ~raced[p]
                 PROVE  EntryOf(values[p[1]], p[2]).data = origin[p]
      BY DEF FreshAfterDirty
    <2>1. LET e == EntryOf(values[p[1]], p[2]) IN e.key = p[2] /\ EntryInv(p[1], e) /\ e.timeout >= cacheTime
      BY FoundIs DEF Valid
    <2> QED BY <2>1, PlaceIs DEF EntryInv
  <1> QED BY <1>1, <1>2, <1>3, <1>4

-----------------------------------------------------------------------------
(* The invariant of the first cache.                                        *)

ObjectType == [used : BOOLEAN, data : Int, error : BOOLEAN, timeout : Int, size : Nat, pc : {"none", "fetch", "read"},
               id : Ids \cup {"none"}, previousSize : Nat, previousNb : {0, 1}, got : Int]
CallerType == [pc : {"idle", "loop", "waiting", "done"}, id : Ids \cup {"none"}, instant : BOOLEAN, asked : BOOLEAN,
               start : Int, on : Objects \cup {"none"}, seen : Nat, got : Int]
OldCacheTypeOK ==
  /\ entry \in [Ids -> Objects \cup {"none"}]
  /\ object \in [Objects -> ObjectType]
  /\ collectionSize \in Int /\ nbEntries \in Int
  /\ caller \in [Callers -> CallerType]
  /\ deleter \in [Deleters -> [pc : {"idle", "close", "done"}, id : Ids \cup {"none"}]]
  /\ now \in Nat /\ version \in [Ids -> Nat \ {0}] /\ disturbed \in BOOLEAN

\* An object belongs to one identifier; a call and an update know theirs.
Belongs ==
  /\ \A o \in Objects : IF object[o].used THEN object[o].id \in Ids ELSE object[o] = NewObject
  /\ \A o \in Objects : object[o].pc = "read" => object[o].got # None
  /\ \A i \in Ids : entry[i] # "none" => object[entry[i]].used /\ object[entry[i]].id = i
  /\ \A c \in Callers : caller[c].pc \in {"loop", "waiting"} => caller[c].id \in Ids
  /\ \A d \in Deleters : deleter[d].pc = "close" => deleter[d].id \in Ids

\* Unless an entry was disturbed, an update is that of the entry, which no delete() closes, and it
\* remembers what is counted; a delete() closes an entry that is there, on its own.
UpdateInv(o) ==
  object[o].pc # "none" =>
    /\ entry[object[o].id] = o /\ ~Closing(object[o].id)
    /\ object[o].previousSize = object[o].size /\ object[o].previousNb = HasData(o)
ClosingInv(d) ==
  deleter[d].pc = "close" =>
    /\ entry[deleter[d].id] # "none"
    /\ \A x \in Deleters : (deleter[x].pc = "close" /\ deleter[x].id = deleter[d].id) => x = d
QuietInv == (\A o \in Objects : UpdateInv(o)) /\ (\A d \in Deleters : ClosingInv(d))
OldCacheInv == OldCacheTypeOK /\ Belongs /\ (~disturbed => QuietInv) /\ CountersMatch

\* A function on all of its domain but one element, and the sum of a function with and without it.
Without1(w, x) == [y \in (DOMAIN w) \ {x} |-> w[y]]

\* A sum and a cardinality, with and without one element.
LEMMA SumWithout ==
  ASSUME NEW S, IsFiniteSet(S), NEW w \in [S -> Int], NEW x
  PROVE  /\ SumFunction(Without1(w, x)) \in Int
         /\ SumFunction(w) = (IF x \in S THEN w[x] ELSE 0) + SumFunction(Without1(w, x))
  <1>0. Without1(w, x) = [y \in S \ {x} |-> w[y]]
    BY DEF Without1
  <1>1. IsFiniteSet(S \ {x}) /\ [y \in S \ {x} |-> w[y]] \in [S \ {x} -> Int]
    BY FS_Subset
  <1>2. SumFunction([y \in S \ {x} |-> w[y]]) \in Int
    BY <1>1, SumIsNumber
  <1>3. CASE x \in S
    <2>1. SumFunction(w) = w[x] + SumFunction([y \in S \ {x} |-> w[y]])
      BY <1>3, SumTakes
    <2> QED BY <1>0, <1>2, <1>3, <2>1
  <1>4. CASE x \notin S
    <2>1. S \ {x} = S /\ [y \in S |-> w[y]] = w
      BY <1>4
    <2> QED BY <1>0, <1>2, <1>4, <2>1
  <1> QED BY <1>0, <1>2, <1>3, <1>4

\* The cardinality.
LEMMA CardinalityWithout ==
  ASSUME NEW S, IsFiniteSet(S), NEW x
  PROVE  Cardinality(S \ {x}) \in Nat /\ Cardinality(S) = (IF x \in S THEN 1 ELSE 0) + Cardinality(S \ {x})
  <1>1. Cardinality(S) \in Nat /\ Cardinality(S \ {x}) \in Nat
    BY FS_Subset, FS_CardinalityType
  <1>2. CASE x \in S
    BY <1>1, <1>2, FS_RemoveElement
  <1>3. CASE x \notin S
    <2>1. S \ {x} = S
      BY <1>3
    <2> QED BY <1>1, <1>3, <2>1
  <1> QED BY <1>2, <1>3

\* What an identifier adds to the counters.
SizeCounted(i) == IF CountedEntry(i) THEN object[entry[i]].size ELSE 0
DataCounted(i) == IF CountedEntry(i) /\ object[entry[i]].data # None THEN 1 ELSE 0
Counters ==
  /\ collectionSize = SumFunction([i \in {j \in Ids : CountedEntry(j)} |-> object[entry[i]].size])
  /\ nbEntries = Cardinality({i \in Ids : CountedEntry(i) /\ object[entry[i]].data # None})

\* The counters follow when a step changes what one identifier adds.
LEMMA CountersFollow ==
  ASSUME OldCacheTypeOK, OldCacheTypeOK', Counters, NEW i \in Ids,
         \A j \in Ids : j # i =>
           /\ CountedEntry(j)' <=> CountedEntry(j)
           /\ CountedEntry(j) => /\ object'[entry'[j]].size = object[entry[j]].size
                                 /\ object'[entry'[j]].data = object[entry[j]].data,
         collectionSize' = collectionSize - SizeCounted(i) + SizeCounted(i)',
         nbEntries' = nbEntries - DataCounted(i) + DataCounted(i)'
  PROVE  Counters'
  <1> DEFINE C == {j \in Ids : CountedEntry(j)}
             w == [j \in C |-> object[entry[j]].size]
             D == {j \in Ids : CountedEntry(j) /\ object[entry[j]].data # None}
  <1>0. IsFiniteSet(Ids)
    BY CacheAssumption
  <1>1. IsFiniteSet(C) /\ IsFiniteSet(D) /\ IsFiniteSet(C') /\ IsFiniteSet(D')
    BY <1>0, FS_Subset
  <1>2. w \in [C -> Int]
    BY DEF OldCacheTypeOK, CountedEntry, ObjectType
  <1>3. w' \in [C' -> Int]
    BY DEF OldCacheTypeOK, CountedEntry, ObjectType
  <1>4. C' \ {i} = C \ {i} /\ D' \ {i} = D \ {i}
    OBVIOUS
  <1>5. \A j \in C \ {i} : w'[j] = w[j]
    OBVIOUS
  <1>6. SizeCounted(i) = (IF i \in C THEN w[i] ELSE 0) /\ SizeCounted(i)' = (IF i \in C' THEN w'[i] ELSE 0)
    BY DEF SizeCounted
  <1>7. DataCounted(i) = (IF i \in D THEN 1 ELSE 0) /\ DataCounted(i)' = (IF i \in D' THEN 1 ELSE 0)
    BY DEF DataCounted
  <1>8. Counters <=> collectionSize = SumFunction(w) /\ nbEntries = Cardinality(D)
    BY DEF Counters
  <1>9. Counters' <=> collectionSize' = SumFunction(w') /\ nbEntries' = Cardinality(D')
    BY DEF Counters
  <1>10. Without1(w', i) = Without1(w, i)
    BY <1>4, <1>5 DEF Without1
  <1> HIDE DEF w, C, D
  <1>c. PICK x, y : x = SizeCounted(i) /\ y = SizeCounted(i)'
    OBVIOUS
  <1>11. SumFunction(w) = x + SumFunction(Without1(w, i)) /\ SumFunction(Without1(w, i)) \in Int
    <2>1. PICK cc, ww : cc = C /\ ww = w
      OBVIOUS
    <2>2. IsFiniteSet(cc) /\ ww \in [cc -> Int]
      BY <1>1, <1>2, <2>1
    <2>3. /\ SumFunction(Without1(ww, i)) \in Int
          /\ SumFunction(ww) = (IF i \in cc THEN ww[i] ELSE 0) + SumFunction(Without1(ww, i))
      BY <2>2, SumWithout
    <2> QED BY <1>6, <1>c, <2>1, <2>3
  <1>12. SumFunction(w') = y + SumFunction(Without1(w', i))
    <2>1. PICK cc, ww : cc = C' /\ ww = w'
      OBVIOUS
    <2>t. IsFiniteSet(cc) /\ ww \in [cc -> Int]
      BY <1>1, <1>3, <2>1
    <2>2. SumFunction(ww) = (IF i \in cc THEN ww[i] ELSE 0) + SumFunction(Without1(ww, i))
      BY <2>t, SumWithout
    <2> QED BY <1>6, <1>c, <2>1, <2>2
  <1>13. x \in Int /\ y \in Int
    BY <1>2, <1>3, <1>6, <1>c
  <1>14. Cardinality(D) = DataCounted(i) + Cardinality(D \ {i}) /\ Cardinality(D \ {i}) \in Nat
    BY <1>1, <1>7, CardinalityWithout
  <1>15. Cardinality(D') = DataCounted(i)' + Cardinality(D' \ {i})
    <2>1. PICK dd : dd = D'
      OBVIOUS
    <2>2. Cardinality(dd) = (IF i \in dd THEN 1 ELSE 0) + Cardinality(dd \ {i})
      BY <1>1, <2>1, CardinalityWithout
    <2> QED BY <1>7, <2>1, <2>2
  <1>16. DataCounted(i) \in Int /\ DataCounted(i)' \in Int
    BY <1>7
  <1>17. collectionSize' = SumFunction(w')
    BY <1>8, <1>10, <1>11, <1>12, <1>13, <1>c
  <1>18. nbEntries' = Cardinality(D')
    <2>1. PICK a, b, r : a = DataCounted(i) /\ b = DataCounted(i)' /\ r = Cardinality(D \ {i})
      OBVIOUS
    <2>2. a \in Int /\ b \in Int /\ r \in Int
      BY <1>14, <1>16, <2>1
    <2>3. Cardinality(D) = a + r /\ Cardinality(D') = b + r
      BY <1>4, <1>14, <1>15, <2>1
    <2>4. nbEntries = a + r /\ nbEntries' = nbEntries - a + b
      BY <1>8, <2>1, <2>3
    <2> QED BY <2>2, <2>3, <2>4
  <1> QED BY <1>9, <1>17, <1>18

\* The first cache starts empty.
LEMMA OldCacheStarts == OldCacheInit => OldCacheInv
  <1> SUFFICES ASSUME OldCacheInit PROVE OldCacheInv
    OBVIOUS
  <1> USE DEF OldCacheInit
  <1>1. NewObject \in ObjectType /\ NoCaller \in CallerType
    BY DEF NewObject, ObjectType, NoCaller, CallerType, None
  <1>2. OldCacheTypeOK
    <2>1. entry \in [Ids -> Objects \cup {"none"}] /\ object \in [Objects -> ObjectType] /\ caller \in [Callers -> CallerType]
      BY <1>1
    <2>2. /\ collectionSize \in Int /\ nbEntries \in Int /\ now \in Nat /\ version \in [Ids -> Nat \ {0}]
          /\ deleter \in [Deleters -> [pc : {"idle", "close", "done"}, id : Ids \cup {"none"}]]
      OBVIOUS
    <2>3. disturbed \in BOOLEAN
      OBVIOUS
    <2> QED BY <2>1, <2>2, <2>3 DEF OldCacheTypeOK
  <1>3. NewObject.pc = "none" /\ ~NewObject.used /\ NoCaller.pc = "idle"
    BY DEF NewObject, NoCaller
  <1>4. Belongs
    BY <1>3 DEF Belongs
  <1>5. QuietInv
    BY <1>3 DEF QuietInv, UpdateInv, ClosingInv
  <1>6. {j \in Ids : CountedEntry(j)} = {} /\ {i \in Ids : CountedEntry(i) /\ object[entry[i]].data # None} = {}
    BY DEF CountedEntry
  <1>7. SumFunction([i \in {j \in Ids : CountedEntry(j)} |-> object[entry[i]].size]) = 0
    <2> DEFINE w == [i \in {j \in Ids : CountedEntry(j)} |-> object[entry[i]].size]
    <2>1. DOMAIN w = {}
      BY <1>6
    <2> HIDE DEF w
    <2>2. SumFunction(w) = 0
      BY <2>1, SumOfNothing
    <2> QED BY <2>2 DEF w
  <1>8. CountersMatch
    BY <1>6, <1>7, FS_EmptySet DEF CountersMatch
  <1> QED BY <1>2, <1>4, <1>5, <1>8 DEF OldCacheInv

\* The counters, when nothing they are about changes.
LEMMA CountersFramed ==
  ASSUME OldCacheInv, ~disturbed' => ~disturbed, OldCacheTypeOK',
         \A j \in Ids :
           /\ CountedEntry(j)' <=> CountedEntry(j)
           /\ CountedEntry(j) => /\ object'[entry'[j]].size = object[entry[j]].size
                                 /\ object'[entry'[j]].data = object[entry[j]].data,
         UNCHANGED <<collectionSize, nbEntries>>
  PROVE  CountersMatch'
  <1> SUFFICES ASSUME ~disturbed' PROVE Counters'
    BY DEF CountersMatch, Counters
  <1>1. Counters
    BY DEF OldCacheInv, CountersMatch, Counters
  <1>2. {j \in Ids : CountedEntry(j)}' = {j \in Ids : CountedEntry(j)}
    OBVIOUS
  <1>3. \A j \in {i \in Ids : CountedEntry(i)} : object'[entry'[j]].size = object[entry[j]].size
    OBVIOUS
  <1>4. [i \in {j \in Ids : CountedEntry(j)} |-> object[entry[i]].size]'
        = [i \in {j \in Ids : CountedEntry(j)} |-> object[entry[i]].size]
    BY <1>2, <1>3
  <1>5. {i \in Ids : CountedEntry(i) /\ object[entry[i]].data # None}'
        = {i \in Ids : CountedEntry(i) /\ object[entry[i]].data # None}
    OBVIOUS
  <1> QED BY <1>1, <1>4, <1>5 DEF Counters

\* A step of a call that leaves the entries alone.
LEMMA CallersKeep ==
  ASSUME OldCacheInv, UNCHANGED <<entry, object, collectionSize, nbEntries, deleter, version, disturbed>>,
         now' \in Nat, caller' \in [Callers -> CallerType],
         \A c \in Callers : caller'[c].pc \in {"loop", "waiting"} => caller'[c].id \in Ids
  PROVE  OldCacheInv'
  <1> USE DEF OldCacheInv
  <1>1. OldCacheTypeOK'
    BY DEF OldCacheTypeOK
  <1>2. Belongs'
    BY DEF Belongs
  <1>3. ~disturbed' => QuietInv'
    BY DEF QuietInv, UpdateInv, ClosingInv, Closing, HasData
  <1>4. CountersMatch'
    BY <1>1, CountersFramed DEF CountedEntry, Closing
  <1> QED BY <1>1, <1>2, <1>3, <1>4

\* get() or getInstant() is called.
LEMMA CacheCallKeeps ==
  ASSUME OldCacheInv, NEW c \in Callers, NEW i \in Ids, CacheCall(c, i)
  PROVE  OldCacheInv'
  <1> DEFINE r == [pc |-> "loop", id |-> i, instant |-> c \in InstantCallers, asked |-> c \in InstantCallers,
                   start |-> now, on |-> "none", seen |-> version[i], got |-> None]
  <1>1. caller' = [caller EXCEPT ![c] = r]
    BY DEF CacheCall
  <1>2. UNCHANGED <<entry, object, collectionSize, nbEntries, deleter, now, version, disturbed>>
    BY DEF CacheCall, Others
  <1>3. r \in CallerType /\ r.id = i
    <2>1. (c \in InstantCallers) \in BOOLEAN
      OBVIOUS
    <2>2. now \in Int /\ version[i] \in Nat
      BY DEF OldCacheInv, OldCacheTypeOK
    <2> QED BY <2>1, <2>2 DEF CallerType, None
  <1> HIDE DEF r
  <1>4. caller' \in [Callers -> CallerType]
    BY <1>1, <1>3 DEF OldCacheInv, OldCacheTypeOK
  <1>5. \A x \in Callers : caller'[x].pc \in {"loop", "waiting"} => caller'[x].id \in Ids
    BY <1>1, <1>3 DEF OldCacheInv, OldCacheTypeOK, Belongs
  <1>6. now' \in Nat
    BY <1>2 DEF OldCacheInv, OldCacheTypeOK
  <1> QED BY <1>2, <1>4, <1>5, <1>6, CallersKeep

\* A call that has returned.
LEMMA AnswerIs ==
  ASSUME NEW data \in Int
  PROVE  Answer(data) \in CallerType /\ Answer(data).pc = "done"
  <1>1. NoCaller \in CallerType
    BY DEF NoCaller, CallerType, None
  <1>2. PICK n : n = NoCaller
    OBVIOUS
  <1>3. n \in CallerType
    BY <1>1, <1>2
  <1>4. [n EXCEPT !.pc = "done", !.got = data] \in CallerType /\ [n EXCEPT !.pc = "done", !.got = data].pc = "done"
    BY <1>3 DEF CallerType
  <1> QED BY <1>2, <1>4 DEF Answer

\* A call returns with data, or with none.
LEMMA ReturnKeeps ==
  ASSUME OldCacheInv, NEW c \in Callers, NEW data \in Int, Return(c, data),
         UNCHANGED <<entry, object, collectionSize, nbEntries, deleter, now, version, disturbed>>
  PROVE  OldCacheInv'
  <1>1. Answer(data) \in CallerType /\ Answer(data).pc = "done"
    BY AnswerIs
  <1>2. caller' = [caller EXCEPT ![c] = Answer(data)]
    BY DEF Return
  <1>3. caller' \in [Callers -> CallerType]
    BY <1>1, <1>2 DEF OldCacheInv, OldCacheTypeOK
  <1>4. \A x \in Callers : caller'[x].pc \in {"loop", "waiting"} => caller'[x].id \in Ids
    BY <1>1, <1>2 DEF OldCacheInv, OldCacheTypeOK, Belongs
  <1>5. now' \in Nat
    BY DEF OldCacheInv, OldCacheTypeOK
  <1> QED BY <1>3, <1>4, <1>5, CallersKeep

\* The entry of a call that is in its loop, when it is there.
LEMMA EntryOfCall ==
  ASSUME OldCacheInv, NEW c \in Callers, InLoop(c)
  PROVE  /\ caller[c].id \in Ids
         /\ entry[caller[c].id] # "none" =>
              entry[caller[c].id] \in Objects /\ object[entry[caller[c].id]] \in ObjectType
         /\ IsUpdating(caller[c].id) => entry[caller[c].id] # "none"
         /\ ~IsDirty(caller[c].id) => entry[caller[c].id] # "none"
  <1>1. caller[c].id \in Ids
    BY DEF OldCacheInv, Belongs, InLoop
  <1> QED BY <1>1 DEF OldCacheInv, OldCacheTypeOK, IsUpdating, IsDirty

\* It returns what was there before the update,
LEMMA ReturnFormerKeeps ==
  ASSUME OldCacheInv, NEW c \in Callers, ReturnFormer(c)
  PROVE  OldCacheInv'
  <1>1. InLoop(c) /\ IsUpdating(caller[c].id)
    BY DEF ReturnFormer
  <1> DEFINE data == IF object[entry[caller[c].id]].error THEN None ELSE object[entry[caller[c].id]].data
  <1>2. data \in Int
    BY <1>1, EntryOfCall DEF ObjectType, None
  <1>3. Return(c, data) /\ UNCHANGED <<entry, object, collectionSize, nbEntries, deleter, now, version, disturbed>>
    BY DEF ReturnFormer, Others
  <1> HIDE DEF data
  <1> QED BY <1>2, <1>3, ReturnKeeps

\* or what is there,
LEMMA ReturnValidKeeps ==
  ASSUME OldCacheInv, NEW c \in Callers, ReturnValid(c)
  PROVE  OldCacheInv'
  <1>1. InLoop(c) /\ ~IsDirty(caller[c].id)
    BY DEF ReturnValid
  <1> DEFINE data == IF object[entry[caller[c].id]].error THEN None ELSE object[entry[caller[c].id]].data
  <1>2. data \in Int
    BY <1>1, EntryOfCall DEF ObjectType, None
  <1>3. Return(c, data) /\ UNCHANGED <<entry, object, collectionSize, nbEntries, deleter, now, version, disturbed>>
    BY DEF ReturnValid, Others
  <1> HIDE DEF data
  <1> QED BY <1>2, <1>3, ReturnKeeps

\* or it waits for the update.
LEMMA WaitForUpdateKeeps ==
  ASSUME OldCacheInv, NEW c \in Callers, WaitForUpdate(c)
  PROVE  OldCacheInv'
  <1>1. InLoop(c) /\ IsUpdating(caller[c].id)
    BY DEF WaitForUpdate
  <1>2. /\ caller' = [caller EXCEPT ![c].pc = "waiting", ![c].on = entry[caller[c].id]]
        /\ UNCHANGED <<entry, object, collectionSize, nbEntries, deleter, now, version, disturbed>>
    BY DEF WaitForUpdate, Others
  <1>3. entry[caller[c].id] \in Objects /\ caller[c].id \in Ids
    BY <1>1, EntryOfCall
  <1>a. caller \in [Callers -> CallerType]
    BY DEF OldCacheInv, OldCacheTypeOK
  <1> DEFINE r == [caller[c] EXCEPT !.pc = "waiting", !.on = entry[caller[c].id]]
  <1>b. caller[c] \in CallerType
    BY <1>a
  <1>d. r \in CallerType /\ r.id = caller[c].id
    BY <1>b, <1>3 DEF CallerType
  <1>e. caller' = [caller EXCEPT ![c] = r]
    BY <1>a, <1>b, <1>2 DEF CallerType
  <1> HIDE DEF r
  <1>4. caller' \in [Callers -> CallerType]
    BY <1>a, <1>d, <1>e
  <1>5. \A x \in Callers : caller'[x].pc \in {"loop", "waiting"} => caller'[x].id \in Ids
    BY <1>a, <1>d, <1>e, <1>3 DEF OldCacheInv, Belongs
  <1>6. now' \in Nat
    BY <1>2 DEF OldCacheInv, OldCacheTypeOK
  <1> QED BY <1>2, <1>4, <1>5, <1>6, CallersKeep

\* The clock ticks, or nothing happens.
LEMMA OldCacheTickKeeps ==
  ASSUME OldCacheInv, OldCacheTick \/ UNCHANGED oldCacheVars
  PROVE  OldCacheInv'
  <1>1. UNCHANGED <<entry, object, collectionSize, nbEntries, caller, deleter, version, disturbed>>
    BY DEF OldCacheTick, oldCacheVars
  <1>2. now' = now \/ now' = now + 1
    BY DEF OldCacheTick, oldCacheVars
  <1>3. now' \in Nat
    BY <1>2 DEF OldCacheInv, OldCacheTypeOK
  <1> QED BY <1>1, <1>3, CallersKeep DEF OldCacheInv, OldCacheTypeOK, Belongs

\* An update starts: the object of the entry, or a new one, is fetched.
LEMMA StartUpdateKeeps ==
  ASSUME OldCacheInv, NEW c \in Callers, StartUpdate(c)
  PROVE  OldCacheInv'
  <1> USE DEF OldCacheInv
  <1>0. PICK i : i = caller[c].id
    OBVIOUS
  <1>1. InLoop(c) /\ ~IsUpdating(i)
    BY <1>0 DEF StartUpdate
  <1>2. i \in Ids
    BY <1>0, <1>1, EntryOfCall
  <1>3. PICK o \in (IF entry[i] = "none" THEN {x \in Fresh : x = CHOOSE y \in Fresh : TRUE} ELSE {entry[i]}) :
          /\ entry' = [entry EXCEPT ![i] = o]
          /\ object' = [object EXCEPT ![o] = [@ EXCEPT !.used = TRUE, !.id = i, !.previousSize = object[o].size,
                                                       !.previousNb = HasData(o), !.pc = "fetch"]]
    BY <1>0 DEF StartUpdate
  <1>4. /\ disturbed' = (disturbed \/ Closing(i))
        /\ UNCHANGED <<collectionSize, nbEntries, caller, deleter, now, version>>
    BY <1>0 DEF StartUpdate
  <1>5. /\ entry \in [Ids -> Objects \cup {"none"}] /\ object \in [Objects -> ObjectType] /\ "none" \notin Objects
        /\ caller \in [Callers -> CallerType]
    BY CacheAssumption DEF OldCacheTypeOK
  <1>6. o \in Objects
    BY <1>2, <1>3, <1>5 DEF Fresh
  <1> DEFINE r == [object[o] EXCEPT !.used = TRUE, !.id = i, !.previousSize = object[o].size,
                                    !.previousNb = HasData(o), !.pc = "fetch"]
  <1>7. object[o] \in ObjectType /\ HasData(o) \in {0, 1}
    BY <1>5, <1>6 DEF HasData
  <1>8. /\ r \in ObjectType /\ r.used /\ r.id = i /\ r.pc = "fetch" /\ r.size = object[o].size
        /\ r.data = object[o].data /\ r.previousSize = r.size /\ r.previousNb = HasData(o)
    BY <1>2, <1>7 DEF ObjectType
  <1>9. object' = [object EXCEPT ![o] = r]
    BY <1>3
  <1> HIDE DEF r
  <1>10. \A x \in Objects : /\ object'[x] = IF x = o THEN r ELSE object[x]
                            /\ object'[x].size = object[x].size /\ object'[x].data = object[x].data
    BY <1>5, <1>8, <1>9
  <1>11. \A j \in Ids : entry'[j] = IF j = i THEN o ELSE entry[j]
    BY <1>2, <1>3, <1>5
  <1>12. entry[i] = "none" \/ entry[i] = o
    BY <1>3
  <1>13. entry[i] = "none" => object[o] = NewObject /\ ~object[o].used
    BY <1>3, <1>6 DEF Fresh, Belongs
  <1>14. \A j \in Ids : j # i => entry[j] # o
    BY <1>2, <1>5, <1>6, <1>12, <1>13 DEF Belongs
  <1>15. OldCacheTypeOK'
    <2>1. entry' \in [Ids -> Objects \cup {"none"}]
      BY <1>2, <1>3, <1>5, <1>6
    <2>2. object' \in [Objects -> ObjectType]
      BY <1>5, <1>8, <1>9
    <2>3. disturbed' \in BOOLEAN
      BY <1>4 DEF OldCacheTypeOK, Closing
    <2> QED BY <2>1, <2>2, <2>3, <1>4 DEF OldCacheTypeOK
  <1>16. Belongs'
    <2>1. \A x \in Objects : IF object'[x].used THEN object'[x].id \in Ids ELSE object'[x] = NewObject
      BY <1>2, <1>8, <1>10 DEF Belongs
    <2>2. \A x \in Objects : object'[x].pc = "read" => object'[x].got # None
      BY <1>8, <1>10 DEF Belongs
    <2>3. \A j \in Ids : entry'[j] # "none" => object'[entry'[j]].used /\ object'[entry'[j]].id = j
      <3> TAKE j \in Ids
      <3>1. CASE j = i
        BY <3>1, <1>6, <1>8, <1>10, <1>11
      <3>2. CASE j # i
        BY <3>2, <1>5, <1>10, <1>11, <1>14 DEF Belongs
      <3> QED BY <3>1, <3>2
    <2> QED BY <2>1, <2>2, <2>3, <1>4 DEF Belongs
  <1>17. \A j : Closing(j)' <=> Closing(j)
    BY <1>4 DEF Closing
  <1>18. \A x \in Objects : HasData(x)' = HasData(x)
    BY <1>10 DEF HasData
  <1>19. ~disturbed' => QuietInv'
    <2> SUFFICES ASSUME ~disturbed' PROVE QuietInv'
      OBVIOUS
    <2>1. ~disturbed /\ ~Closing(i) /\ QuietInv
      BY <1>4
    <2>2. ASSUME NEW x \in Objects PROVE UpdateInv(x)'
      <3>1. CASE x = o
        BY <3>1, <2>1, <1>2, <1>8, <1>10, <1>11, <1>17, <1>18 DEF UpdateInv
      <3>2. CASE x # o
        <4>1. SUFFICES ASSUME object[x].pc # "none" PROVE UpdateInv(x)'
          BY <3>2, <1>10 DEF UpdateInv
        <4>2. /\ entry[object[x].id] = x /\ ~Closing(object[x].id)
              /\ object[x].previousSize = object[x].size /\ object[x].previousNb = HasData(x)
          BY <2>1, <4>1 DEF QuietInv, UpdateInv
        <4>3. object[x].id \in Ids
          BY <4>1 DEF Belongs, NewObject
        <4>4. object[x].id # i
          BY <4>2, <3>2, <1>5, <1>12
        <4> QED BY <4>2, <4>3, <4>4, <3>2, <1>10, <1>11, <1>17, <1>18 DEF UpdateInv
      <3> QED BY <3>1, <3>2
    <2>3. ASSUME NEW d \in Deleters PROVE ClosingInv(d)'
      BY <2>1, <1>4, <1>5, <1>6, <1>11 DEF QuietInv, ClosingInv, Belongs
    <2> QED BY <2>2, <2>3 DEF QuietInv
  <1>20. CountersMatch'
    <2> SUFFICES ASSUME ~disturbed' PROVE Counters'
      BY DEF CountersMatch, Counters
    <2>1. ~disturbed /\ Counters
      BY <1>4 DEF CountersMatch, Counters
    <2>2. \A j \in Ids : j # i =>
            /\ CountedEntry(j)' <=> CountedEntry(j)
            /\ CountedEntry(j) => /\ object'[entry'[j]].size = object[entry[j]].size
                                  /\ object'[entry'[j]].data = object[entry[j]].data
      BY <1>5, <1>10, <1>11, <1>17 DEF CountedEntry
    <2>3. SizeCounted(i)' = SizeCounted(i) /\ SizeCounted(i) \in Int
      <3>1. CASE entry[i] = "none"
        BY <3>1, <1>2, <1>6, <1>10, <1>11, <1>13 DEF SizeCounted, CountedEntry, NewObject
      <3>2. CASE entry[i] = o
        BY <3>2, <1>2, <1>5, <1>6, <1>7, <1>10, <1>11, <1>17 DEF SizeCounted, CountedEntry, ObjectType
      <3> QED BY <3>1, <3>2, <1>12
    <2>4. DataCounted(i)' = DataCounted(i) /\ DataCounted(i) \in Int
      <3>1. CASE entry[i] = "none"
        BY <3>1, <1>2, <1>6, <1>10, <1>11, <1>13 DEF DataCounted, CountedEntry, NewObject
      <3>2. CASE entry[i] = o
        BY <3>2, <1>2, <1>5, <1>6, <1>10, <1>11, <1>17 DEF DataCounted, CountedEntry
      <3> QED BY <3>1, <3>2, <1>12
    <2>5. /\ collectionSize' = collectionSize - SizeCounted(i) + SizeCounted(i)'
          /\ nbEntries' = nbEntries - DataCounted(i) + DataCounted(i)'
      <3>1. collectionSize' = collectionSize /\ nbEntries' = nbEntries /\ collectionSize \in Int /\ nbEntries \in Int
        BY <1>4 DEF OldCacheTypeOK
      <3>2. PICK a, b : a = SizeCounted(i) /\ b = DataCounted(i)
        OBVIOUS
      <3>3. collectionSize = collectionSize - a + a /\ nbEntries = nbEntries - b + b
        BY <3>1, <3>2, <2>3, <2>4
      <3> QED BY <3>1, <3>2, <3>3, <2>3, <2>4
    <2> QED BY <2>1, <2>2, <2>5, <1>2, <1>15, CountersFollow
  <1> QED BY <1>15, <1>16, <1>19, <1>20

\* The trigger function reads the data.
LEMMA UpdateReadsKeeps ==
  ASSUME OldCacheInv, NEW o \in Objects, UpdateReads(o)
  PROVE  OldCacheInv'
  <1> USE DEF OldCacheInv
  <1>1. object[o].pc = "fetch" /\ object' = [object EXCEPT ![o].pc = "read", ![o].got = version[object[o].id]]
    BY DEF UpdateReads
  <1>2. UNCHANGED <<entry, collectionSize, nbEntries, caller, deleter, now, version, disturbed>>
    BY DEF UpdateReads, Others
  <1>3. object \in [Objects -> ObjectType] /\ version \in [Ids -> Nat \ {0}] /\ entry \in [Ids -> Objects \cup {"none"}]
    BY DEF OldCacheTypeOK
  <1>4. object[o].used /\ object[o].id \in Ids
    BY <1>1 DEF Belongs, NewObject
  <1>5. version[object[o].id] \in Nat /\ version[object[o].id] # None
    BY <1>3, <1>4 DEF None
  <1>v. PICK v : v = version[object[o].id]
    OBVIOUS
  <1> DEFINE r == [object[o] EXCEPT !.pc = "read", !.got = v]
  <1>6. object[o] \in ObjectType
    BY <1>3
  <1>w. v \in Int /\ v # None
    BY <1>5, <1>v
  <1>x. r \in ObjectType
    BY <1>w, <1>6 DEF ObjectType
  <1>7. /\ r.used = object[o].used /\ r.id = object[o].id /\ r.pc = "read" /\ r.got # None
        /\ r.size = object[o].size /\ r.data = object[o].data
        /\ r.previousSize = object[o].previousSize /\ r.previousNb = object[o].previousNb
    BY <1>w, <1>6 DEF ObjectType
  <1>8. object' = [object EXCEPT ![o] = r]
    BY <1>1, <1>3, <1>6, <1>v DEF ObjectType
  <1> HIDE DEF r
  <1>9. \A x \in Objects : object'[x] = IF x = o THEN r ELSE object[x]
    BY <1>3, <1>8
  <1>10. \A x \in Objects : object'[x].size = object[x].size /\ object'[x].data = object[x].data /\ object'[x].id = object[x].id
                            /\ object'[x].used = object[x].used
    BY <1>7, <1>9
  <1>11. OldCacheTypeOK'
    <2>1. object' \in [Objects -> ObjectType]
      BY <1>3, <1>x, <1>8
    <2> QED BY <2>1, <1>2 DEF OldCacheTypeOK
  <1>12. Belongs'
    <2>1. \A x \in Objects : IF object'[x].used THEN object'[x].id \in Ids ELSE object'[x] = NewObject
      <3> TAKE x \in Objects
      <3>1. CASE x = o
        <4>1. object'[o].used /\ object'[o].id \in Ids
          BY <1>4, <1>7, <1>9
        <4> QED BY <3>1, <4>1
      <3>2. CASE x # o
        <4>1. object'[x] = object[x]
          BY <3>2, <1>9
        <4> QED BY <4>1 DEF Belongs
      <3> QED BY <3>1, <3>2
    <2>2. \A x \in Objects : object'[x].pc = "read" => object'[x].got # None
      BY <1>7, <1>9 DEF Belongs
    <2>3. \A j \in Ids : entry'[j] # "none" => object'[entry'[j]].used /\ object'[entry'[j]].id = j
      BY <1>2, <1>3, <1>10 DEF Belongs
    <2> QED BY <2>1, <2>2, <2>3, <1>2 DEF Belongs
  <1>13. \A j : Closing(j)' <=> Closing(j)
    BY <1>2 DEF Closing
  <1>14. \A x \in Objects : HasData(x)' = HasData(x)
    BY <1>10 DEF HasData
  <1>15. ~disturbed' => QuietInv'
    <2> SUFFICES ASSUME ~disturbed' PROVE QuietInv'
      OBVIOUS
    <2>1. QuietInv
      BY <1>2
    <2>2. ASSUME NEW x \in Objects PROVE UpdateInv(x)'
      <3>1. UpdateInv(x)
        BY <2>1 DEF QuietInv
      <3>2. /\ object'[x].pc # "none" => object[x].pc # "none"
            /\ object'[x].id = object[x].id /\ object'[x].previousSize = object[x].previousSize
            /\ object'[x].previousNb = object[x].previousNb /\ object'[x].size = object[x].size
        BY <1>1, <1>7, <1>9
      <3> QED BY <3>1, <3>2, <1>2, <1>13, <1>14 DEF UpdateInv
    <2>3. \A d \in Deleters : ClosingInv(d)'
      BY <2>1, <1>2 DEF QuietInv, ClosingInv
    <2> QED BY <2>2, <2>3 DEF QuietInv
  <1>16. CountersMatch'
    <2>1. \A j \in Ids :
            /\ CountedEntry(j)' <=> CountedEntry(j)
            /\ CountedEntry(j) => /\ object'[entry'[j]].size = object[entry[j]].size
                                  /\ object'[entry'[j]].data = object[entry[j]].data
      BY <1>2, <1>3, <1>10, <1>13 DEF CountedEntry
    <2> QED BY <2>1, <1>2, <1>11, CountersFramed
  <1> QED BY <1>11, <1>12, <1>15, <1>16


\* What an update that ends leaves, and what a caller that waits becomes.
LEMMA EndedIs ==
  ASSUME OldCacheTypeOK, Belongs, NEW o \in Objects, NEW ok \in BOOLEAN, object[o].pc = "read"
  PROVE  /\ Ended(o, ok) \in ObjectType /\ Ended(o, ok).used /\ Ended(o, ok).id = object[o].id
         /\ Ended(o, ok).pc = "none" /\ (Ended(o, ok).data # None <=> ok)
  <1>1. object[o] \in ObjectType /\ now \in Int
    BY DEF OldCacheTypeOK
  <1>2. object[o].used /\ object[o].id \in Ids
    BY DEF Belongs, NewObject
  <1>3. PICK g, t, s : g = object[o].got /\ t = now + Ttl /\ s = DataSize[object[o].id]
    OBVIOUS
  <1>4. g \in Int /\ g # None /\ t \in Int /\ s \in Nat /\ None \in Int
    BY <1>1, <1>2, <1>3, CacheAssumption DEF Belongs, ObjectType, None
  <1>5. CASE ok
    <2>1. Ended(o, ok) = [object[o] EXCEPT !.pc = "none", !.data = g, !.error = FALSE, !.got = None, !.previousSize = 0,
                                           !.previousNb = 0, !.timeout = t, !.size = s]
      BY <1>3, <1>5 DEF Ended
    <2> DEFINE r == [object[o] EXCEPT !.pc = "none", !.data = g, !.error = FALSE, !.got = None, !.previousSize = 0,
                                      !.previousNb = 0, !.timeout = t, !.size = s]
    <2>2. r \in ObjectType
      BY <1>1, <1>4 DEF ObjectType
    <2>3. r.used = object[o].used /\ r.id = object[o].id /\ r.pc = "none" /\ r.data = g
      BY <1>1 DEF ObjectType
    <2> QED BY <2>1, <2>2, <2>3, <1>2, <1>4, <1>5
  <1>6. CASE ~ok
    <2>1. PICK u : u = now + ErrorTtl
      OBVIOUS
    <2>2. Ended(o, ok) = [object[o] EXCEPT !.pc = "none", !.data = None, !.got = None, !.previousSize = 0,
                                           !.previousNb = 0, !.error = TRUE, !.timeout = u, !.size = 0]
      BY <2>1, <1>6 DEF Ended
    <2> DEFINE r == [object[o] EXCEPT !.pc = "none", !.data = None, !.got = None, !.previousSize = 0,
                                      !.previousNb = 0, !.error = TRUE, !.timeout = u, !.size = 0]
    <2>3. u \in Int
      BY <1>1, <2>1, CacheAssumption
    <2>4. r \in ObjectType
      BY <1>1, <1>4, <2>3 DEF ObjectType
    <2>5. r.used = object[o].used /\ r.id = object[o].id /\ r.pc = "none" /\ r.data = None
      BY <1>1 DEF ObjectType
    <2> QED BY <2>2, <2>4, <2>5, <1>2, <1>6
  <1> QED BY <1>5, <1>6

\* A caller that waits when an update ends goes on for the same identifier, or has timed out.
LEMMA WokenIs ==
  ASSUME OldCacheTypeOK, NEW c \in Callers, NEW obj
  PROVE  /\ Woken(c, obj) \in CallerType
         /\ Woken(c, obj).pc \in {"loop", "waiting"} => caller[c].pc \in {"loop", "waiting"} /\ Woken(c, obj).id = caller[c].id
  <1>1. caller[c] \in CallerType
    BY DEF OldCacheTypeOK
  <1>2. CASE caller[c].pc # "waiting"
    BY <1>1, <1>2 DEF Woken
  <1>3. CASE caller[c].pc = "waiting"
    <2>1. PICK b \in BOOLEAN : b = (caller[c].instant \/ obj[caller[c].on].timeout > caller[c].start)
      OBVIOUS
    <2> DEFINE up == [caller[c] EXCEPT !.instant = @ \/ obj[caller[c].on].timeout > caller[c].start]
    <2>2. up = [caller[c] EXCEPT !.instant = b]
      BY <2>1
    <2>3. up \in CallerType /\ up.id = caller[c].id
      BY <2>2, <1>1 DEF CallerType
    <2> HIDE DEF up
    <2>4. PICK r : r = [up EXCEPT !.pc = "loop", !.on = "none"]
      OBVIOUS
    <2>5. r \in CallerType /\ r.id = caller[c].id
      BY <2>3, <2>4 DEF CallerType
    <2>6. Answer(None) \in CallerType /\ Answer(None).pc = "done"
      BY AnswerIs DEF None
    <2>7. Woken(c, obj) = r \/ Woken(c, obj) = Answer(None)
      BY <1>3, <2>4 DEF Woken, up
    <2> QED BY <1>3, <2>5, <2>6, <2>7
  <1> QED BY <1>2, <1>3

\* An update ends, with the data or with an error.
LEMMA UpdateEndsKeeps ==
  ASSUME OldCacheInv, NEW o \in Objects, NEW ok \in BOOLEAN, UpdateEnds(o, ok)
  PROVE  OldCacheInv'
  <1> USE DEF OldCacheInv
  <1>1. object[o].pc = "read"
    BY DEF UpdateEnds
  <1>2. PICK r : r = Ended(o, ok)
    OBVIOUS
  <1>3. /\ object' = [object EXCEPT ![o] = r]
        /\ collectionSize' = collectionSize + r.size - object[o].previousSize
        /\ nbEntries' = nbEntries + (IF ok THEN 1 ELSE 0) - object[o].previousNb
        /\ UNCHANGED <<entry, deleter, now, version, disturbed>>
    BY <1>2 DEF UpdateEnds, Others
  <1>4. caller' = [c \in Callers |-> Woken(c, [object EXCEPT ![o] = Ended(o, ok)])]
    BY DEF UpdateEnds
  <1>5. /\ entry \in [Ids -> Objects \cup {"none"}] /\ object \in [Objects -> ObjectType]
        /\ "none" \notin Objects /\ collectionSize \in Int /\ nbEntries \in Int
    BY CacheAssumption DEF OldCacheTypeOK
  <1>6. r \in ObjectType /\ r.used /\ r.id = object[o].id /\ r.pc = "none" /\ (r.data # None <=> ok)
    BY <1>1, <1>2, EndedIs
  <1>7. object[o].used /\ object[o].id \in Ids
    BY <1>1 DEF Belongs, NewObject
  <1>8. \A x \in Objects : object'[x] = IF x = o THEN r ELSE object[x]
    BY <1>3, <1>5
  <1>9. OldCacheTypeOK'
    <2>1. object' \in [Objects -> ObjectType]
      BY <1>3, <1>5, <1>6
    <2>2. caller' \in [Callers -> CallerType]
      BY <1>4, WokenIs
    <2>3. collectionSize' \in Int /\ nbEntries' \in Int
      <3>1. r.size \in Int /\ object[o].previousSize \in Int /\ object[o].previousNb \in Int
        BY <1>5, <1>6 DEF ObjectType
      <3> QED BY <3>1, <1>3, <1>5
    <2> QED BY <2>1, <2>2, <2>3, <1>3 DEF OldCacheTypeOK
  <1>10. Belongs'
    <2>1. \A x \in Objects : IF object'[x].used THEN object'[x].id \in Ids ELSE object'[x] = NewObject
      <3> TAKE x \in Objects
      <3>1. CASE x = o
        <4>1. object'[o].used /\ object'[o].id \in Ids
          BY <1>6, <1>7, <1>8
        <4> QED BY <3>1, <4>1
      <3>2. CASE x # o
        <4>1. object'[x] = object[x]
          BY <3>2, <1>8
        <4> QED BY <4>1 DEF Belongs
      <3> QED BY <3>1, <3>2
    <2>2. \A x \in Objects : object'[x].pc = "read" => object'[x].got # None
      BY <1>6, <1>8 DEF Belongs
    <2>3. \A j \in Ids : entry'[j] # "none" => object'[entry'[j]].used /\ object'[entry'[j]].id = j
      <3> TAKE j \in Ids
      <3>1. CASE entry[j] = o
        BY <3>1, <1>3, <1>5, <1>6, <1>8 DEF Belongs
      <3>2. CASE entry[j] # o
        BY <3>2, <1>3, <1>5, <1>8 DEF Belongs
      <3> QED BY <3>1, <3>2
    <2>4. \A c \in Callers : caller'[c].pc \in {"loop", "waiting"} => caller'[c].id \in Ids
      BY <1>4, WokenIs DEF Belongs
    <2>5. \A d \in Deleters : deleter'[d].pc = "close" => deleter'[d].id \in Ids
      BY <1>3 DEF Belongs
    <2> QED BY <2>1, <2>2, <2>3, <2>4, <2>5 DEF Belongs
  <1>11. \A j : Closing(j)' <=> Closing(j)
    BY <1>3 DEF Closing
  <1>12. \A x \in Objects : x # o => HasData(x)' = HasData(x)
    BY <1>8 DEF HasData
  <1>13. ~disturbed' => QuietInv'
    <2> SUFFICES ASSUME ~disturbed' PROVE QuietInv'
      OBVIOUS
    <2>1. QuietInv
      BY <1>3
    <2>2. ASSUME NEW x \in Objects PROVE UpdateInv(x)'
      <3>1. CASE x = o
        BY <3>1, <1>6, <1>8 DEF UpdateInv
      <3>2. CASE x # o
        <4>1. UpdateInv(x) /\ object'[x] = object[x]
          BY <3>2, <2>1, <1>8 DEF QuietInv
        <4> QED BY <4>1, <3>2, <1>3, <1>11, <1>12 DEF UpdateInv
      <3> QED BY <3>1, <3>2
    <2>3. \A d \in Deleters : ClosingInv(d)'
      BY <2>1, <1>3 DEF QuietInv, ClosingInv
    <2> QED BY <2>2, <2>3 DEF QuietInv
  <1>14. CountersMatch'
    <2> SUFFICES ASSUME ~disturbed' PROVE Counters'
      BY DEF CountersMatch, Counters
    <2>1. ~disturbed /\ Counters /\ QuietInv
      BY <1>3 DEF CountersMatch, Counters
    <2>2. PICK i \in Ids : i = object[o].id
      BY <1>7
    <2>3. /\ entry[i] = o /\ ~Closing(i)
          /\ object[o].previousSize = object[o].size /\ object[o].previousNb = HasData(o)
      BY <2>1, <2>2, <1>1 DEF QuietInv, UpdateInv
    <2>4. \A j \in Ids : j # i => entry[j] # o
      BY <2>2, <1>5, <1>7 DEF Belongs
    <2>5. \A j \in Ids : j # i =>
            /\ CountedEntry(j)' <=> CountedEntry(j)
            /\ CountedEntry(j) => /\ object'[entry'[j]].size = object[entry[j]].size
                                  /\ object'[entry'[j]].data = object[entry[j]].data
      BY <2>4, <1>3, <1>5, <1>8, <1>11 DEF CountedEntry
    <2>6. CountedEntry(i) /\ CountedEntry(i)' /\ object'[entry'[i]] = r
      BY <2>3, <1>3, <1>5, <1>8, <1>11 DEF CountedEntry
    <2>7. SizeCounted(i) = object[o].previousSize /\ SizeCounted(i)' = r.size
      BY <2>3, <2>6 DEF SizeCounted
    <2>8. DataCounted(i) = object[o].previousNb /\ DataCounted(i)' = (IF ok THEN 1 ELSE 0)
      BY <2>3, <2>6, <1>6 DEF DataCounted, HasData
    <2>9. /\ collectionSize' = collectionSize - SizeCounted(i) + SizeCounted(i)'
          /\ nbEntries' = nbEntries - DataCounted(i) + DataCounted(i)'
      <3>1. PICK a, b, p, q : a = object[o].previousSize /\ b = r.size /\ p = object[o].previousNb /\ q = IF ok THEN 1 ELSE 0
        OBVIOUS
      <3>2. a \in Int /\ b \in Int /\ p \in Int /\ q \in Int
        BY <3>1, <1>5, <1>6 DEF ObjectType
      <3>3. collectionSize' = collectionSize - a + b /\ nbEntries' = nbEntries - p + q
        BY <3>1, <3>2, <1>3, <1>5
      <3> QED BY <3>1, <3>3, <2>7, <2>8
    <2> QED BY <2>1, <2>5, <2>9, <1>9, CountersFollow
  <1> QED BY <1>9, <1>10, <1>13, <1>14

\* delete() is called: the counters are adjusted, and the entry goes or its data is closed.
LEMMA DeleteCallKeeps ==
  ASSUME OldCacheInv, NEW d \in Deleters, NEW i \in Ids, DeleteCall(d, i)
  PROVE  OldCacheInv'
  <1> USE DEF OldCacheInv
  <1>1. deleter[d].pc = "idle" /\ UNCHANGED <<object, caller, now, version>>
    BY DEF DeleteCall
  <1>2. /\ entry \in [Ids -> Objects \cup {"none"}] /\ object \in [Objects -> ObjectType]
        /\ deleter \in [Deleters -> [pc : {"idle", "close", "done"}, id : Ids \cup {"none"}]]
        /\ "none" \notin Objects /\ collectionSize \in Int /\ nbEntries \in Int /\ disturbed \in BOOLEAN
    BY CacheAssumption DEF OldCacheTypeOK
  <1>3. PICK done : done = [deleter[d] EXCEPT !.pc = "done"]
    OBVIOUS
  <1>4. done \in [pc : {"idle", "close", "done"}, id : Ids \cup {"none"}] /\ done.pc = "done"
    BY <1>2, <1>3
  <1>5. CASE entry[i] = "none"
    <2>1. deleter' = [deleter EXCEPT ![d] = done] /\ UNCHANGED <<entry, collectionSize, nbEntries, disturbed>>
      BY <1>2, <1>3, <1>5 DEF DeleteCall
    <2>2. \A x \in Deleters : deleter'[x] = IF x = d THEN done ELSE deleter[x]
      BY <1>2, <2>1
    <2>3. \A j : Closing(j)' <=> Closing(j)
      BY <2>2, <1>1, <1>4 DEF Closing
    <2>4. OldCacheTypeOK'
      <3>1. deleter' \in [Deleters -> [pc : {"idle", "close", "done"}, id : Ids \cup {"none"}]]
        BY <1>2, <1>4, <2>1
      <3> QED BY <3>1, <1>1, <2>1 DEF OldCacheTypeOK
    <2>5. Belongs'
      BY <1>1, <1>4, <2>1, <2>2 DEF Belongs
    <2>6. ~disturbed' => QuietInv'
      <3> SUFFICES ASSUME ~disturbed' PROVE QuietInv'
        OBVIOUS
      <3>1. QuietInv
        BY <2>1
      <3>2. \A x \in Objects : HasData(x)' = HasData(x)
        BY <1>1 DEF HasData
      <3>3. \A x \in Objects : UpdateInv(x)'
        BY <3>1, <3>2, <1>1, <2>1, <2>3 DEF QuietInv, UpdateInv
      <3>4. \A x \in Deleters : ClosingInv(x)'
        BY <3>1, <1>4, <2>1, <2>2 DEF QuietInv, ClosingInv
      <3> QED BY <3>3, <3>4 DEF QuietInv
    <2>7. CountersMatch'
      BY <1>1, <2>1, <2>3, <2>4, CountersFramed DEF CountedEntry
    <2> QED BY <2>4, <2>5, <2>6, <2>7
  <1>6. CASE entry[i] # "none"
    <2>1. PICK o \in Objects : o = entry[i]
      BY <1>2, <1>6
    <2>2. /\ collectionSize' = collectionSize - object[o].size /\ nbEntries' = nbEntries - HasData(o)
          /\ disturbed' = (disturbed \/ IsUpdating(i) \/ Closing(i))
      BY <1>6, <2>1 DEF DeleteCall
    <2>3. \/ HasData(o) = 1 /\ deleter' = [deleter EXCEPT ![d] = [pc |-> "close", id |-> i]] /\ entry' = entry
          \/ deleter' = [deleter EXCEPT ![d] = done] /\ entry' = [entry EXCEPT ![i] = "none"]
      BY <1>2, <1>3, <1>6, <2>1 DEF DeleteCall
    <2>4. PICK r \in {done, [pc |-> "close", id |-> i]} :
            /\ deleter' = [deleter EXCEPT ![d] = r]
            /\ entry' = IF r = done THEN [entry EXCEPT ![i] = "none"] ELSE entry
      BY <1>4, <2>3
    <2>5. /\ r \in [pc : {"idle", "close", "done"}, id : Ids \cup {"none"}]
          /\ r.pc = "close" <=> r # done
          /\ r.pc = "close" => r.id = i
      BY <1>4, <2>4
    <2>6. \A x \in Deleters : deleter'[x] = IF x = d THEN r ELSE deleter[x]
      BY <1>2, <2>4
    <2>7. \A j \in Ids : entry'[j] = IF j = i /\ r = done THEN "none" ELSE entry[j]
      BY <1>2, <2>4
    <2>8. \A j \in Ids : Closing(j)' <=> (Closing(j) \/ (j = i /\ r # done))
      BY <1>1, <2>5, <2>6 DEF Closing
    <2>9. OldCacheTypeOK'
      <3>1. deleter' \in [Deleters -> [pc : {"idle", "close", "done"}, id : Ids \cup {"none"}]]
        BY <1>2, <2>4, <2>5
      <3>2. entry' \in [Ids -> Objects \cup {"none"}]
        BY <1>2, <2>4
      <3>3. collectionSize' \in Int /\ nbEntries' \in Int
        <4>1. object[o].size \in Int /\ HasData(o) \in Int
          BY <1>2 DEF ObjectType, HasData
        <4> QED BY <4>1, <1>2, <2>2
      <3>4. disturbed' \in BOOLEAN
        BY <2>2
      <3> QED BY <3>1, <3>2, <3>3, <3>4, <1>1 DEF OldCacheTypeOK
    <2>10. Belongs'
      <3>1. \A j \in Ids : entry'[j] # "none" => object'[entry'[j]].used /\ object'[entry'[j]].id = j
        BY <1>1, <2>7 DEF Belongs
      <3>2. \A x \in Deleters : deleter'[x].pc = "close" => deleter'[x].id \in Ids
        BY <2>5, <2>6 DEF Belongs
      <3> QED BY <3>1, <3>2, <1>1 DEF Belongs
    <2>11. ~disturbed' => QuietInv'
      <3> SUFFICES ASSUME ~disturbed' PROVE QuietInv'
        OBVIOUS
      <3>1. QuietInv /\ ~Closing(i) /\ object[o].pc = "none"
        BY <2>1, <2>2, <1>6 DEF IsUpdating
      <3>2. \A x \in Objects : HasData(x)' = HasData(x)
        BY <1>1 DEF HasData
      <3>3. ASSUME NEW x \in Objects PROVE UpdateInv(x)'
        <4> SUFFICES ASSUME object[x].pc # "none" PROVE UpdateInv(x)'
          BY <1>1 DEF UpdateInv
        <4>1. /\ entry[object[x].id] = x /\ ~Closing(object[x].id)
              /\ object[x].previousSize = object[x].size /\ object[x].previousNb = HasData(x)
          BY <3>1 DEF QuietInv, UpdateInv
        <4>2. object[x].id \in Ids
          BY DEF Belongs, NewObject
        <4>3. object[x].id # i
          BY <4>1, <3>1, <2>1
        <4> QED BY <4>1, <4>2, <4>3, <3>2, <1>1, <2>7, <2>8 DEF UpdateInv
      <3>4. ASSUME NEW x \in Deleters PROVE ClosingInv(x)'
        <4> SUFFICES ASSUME deleter'[x].pc = "close" PROVE ClosingInv(x)'
          BY DEF ClosingInv
        <4>1. CASE x = d
          <5>1. r # done /\ deleter'[d] = r /\ r.id = i
            BY <4>1, <2>5, <2>6
          <5>2. entry'[i] # "none"
            BY <5>1, <1>6, <2>7
          <5>3. \A y \in Deleters : (deleter'[y].pc = "close" /\ deleter'[y].id = i) => y = d
            BY <3>1, <2>6 DEF Closing
          <5> QED BY <4>1, <5>1, <5>2, <5>3 DEF ClosingInv
        <4>2. CASE x # d
          <5>1. deleter'[x] = deleter[x] /\ deleter[x].id \in Ids /\ deleter[x].id # i
            BY <4>2, <3>1, <2>6 DEF Closing, Belongs
          <5>2. ClosingInv(x)
            BY <3>1 DEF QuietInv
          <5>3. entry'[deleter[x].id] # "none"
            BY <5>1, <5>2, <2>7 DEF ClosingInv
          <5>4. \A y \in Deleters : (deleter'[y].pc = "close" /\ deleter'[y].id = deleter[x].id) => y = x
            BY <5>1, <5>2, <2>5, <2>6 DEF ClosingInv
          <5> QED BY <5>1, <5>3, <5>4 DEF ClosingInv
        <4> QED BY <4>1, <4>2
      <3> QED BY <3>3, <3>4 DEF QuietInv
    <2>12. CountersMatch'
      <3> SUFFICES ASSUME ~disturbed' PROVE Counters'
        BY DEF CountersMatch, Counters
      <3>1. ~Closing(i) /\ Counters
        BY <2>2 DEF CountersMatch, Counters
      <3>2. \A j \in Ids : j # i =>
              /\ CountedEntry(j)' <=> CountedEntry(j)
              /\ CountedEntry(j) => /\ object'[entry'[j]].size = object[entry[j]].size
                                    /\ object'[entry'[j]].data = object[entry[j]].data
        BY <1>1, <2>7, <2>8 DEF CountedEntry
      <3>3. CountedEntry(i) /\ ~CountedEntry(i)'
        BY <3>1, <1>6, <2>7, <2>8 DEF CountedEntry
      <3>4. SizeCounted(i) = object[o].size /\ SizeCounted(i)' = 0
        BY <3>3, <2>1 DEF SizeCounted
      <3>5. DataCounted(i) = HasData(o) /\ DataCounted(i)' = 0
        BY <3>3, <2>1 DEF DataCounted, HasData
      <3>6. /\ collectionSize' = collectionSize - SizeCounted(i) + SizeCounted(i)'
            /\ nbEntries' = nbEntries - DataCounted(i) + DataCounted(i)'
        <4>1. PICK a, b : a = object[o].size /\ b = HasData(o)
          OBVIOUS
        <4>2. a \in Int /\ b \in Int
          BY <4>1, <1>2 DEF ObjectType, HasData
        <4>3. collectionSize' = collectionSize - a + 0 /\ nbEntries' = nbEntries - b + 0
          BY <4>1, <4>2, <1>2, <2>2
        <4> QED BY <4>1, <4>3, <3>4, <3>5
      <3> QED BY <3>1, <3>2, <3>6, <2>9, CountersFollow
    <2> QED BY <2>9, <2>10, <2>11, <2>12
  <1> QED BY <1>5, <1>6

\* The data of a deleted entry is closed, and the entry goes.
LEMMA DeleteEndsKeeps ==
  ASSUME OldCacheInv, NEW d \in Deleters, DeleteEnds(d)
  PROVE  OldCacheInv'
  <1> USE DEF OldCacheInv
  <1>1. deleter[d].pc = "close" /\ UNCHANGED <<object, collectionSize, nbEntries, caller, now, version, disturbed>>
    BY DEF DeleteEnds
  <1>2. /\ entry \in [Ids -> Objects \cup {"none"}]
        /\ deleter \in [Deleters -> [pc : {"idle", "close", "done"}, id : Ids \cup {"none"}]]
        /\ "none" \notin Objects
    BY CacheAssumption DEF OldCacheTypeOK
  <1>3. PICK i \in Ids : i = deleter[d].id
    BY <1>1 DEF Belongs
  <1>4. PICK done : done = [deleter[d] EXCEPT !.pc = "done"]
    OBVIOUS
  <1>5. done \in [pc : {"idle", "close", "done"}, id : Ids \cup {"none"}] /\ done.pc = "done"
    BY <1>2, <1>4
  <1>6. deleter' = [deleter EXCEPT ![d] = done] /\ entry' = [entry EXCEPT ![i] = "none"]
    BY <1>2, <1>3, <1>4 DEF DeleteEnds
  <1>7. \A x \in Deleters : deleter'[x] = IF x = d THEN done ELSE deleter[x]
    BY <1>2, <1>6
  <1>8. \A j \in Ids : entry'[j] = IF j = i THEN "none" ELSE entry[j]
    BY <1>2, <1>6
  <1>9. Closing(i) /\ \A j \in Ids : j # i => (Closing(j)' <=> Closing(j))
    BY <1>1, <1>3, <1>5, <1>7 DEF Closing
  <1>10. OldCacheTypeOK'
    <2>1. deleter' \in [Deleters -> [pc : {"idle", "close", "done"}, id : Ids \cup {"none"}]]
      BY <1>2, <1>5, <1>6
    <2>2. entry' \in [Ids -> Objects \cup {"none"}]
      BY <1>2, <1>6
    <2> QED BY <2>1, <2>2, <1>1 DEF OldCacheTypeOK
  <1>11. Belongs'
    <2>1. \A j \in Ids : entry'[j] # "none" => object'[entry'[j]].used /\ object'[entry'[j]].id = j
      BY <1>1, <1>8 DEF Belongs
    <2>2. \A x \in Deleters : deleter'[x].pc = "close" => deleter'[x].id \in Ids
      BY <1>5, <1>7 DEF Belongs
    <2> QED BY <2>1, <2>2, <1>1 DEF Belongs
  <1>12. ~disturbed' => QuietInv'
    <2> SUFFICES ASSUME ~disturbed' PROVE QuietInv'
      OBVIOUS
    <2>1. QuietInv
      BY <1>1
    <2>2. \A x \in Objects : HasData(x)' = HasData(x)
      BY <1>1 DEF HasData
    <2>3. ASSUME NEW x \in Objects PROVE UpdateInv(x)'
      <3> SUFFICES ASSUME object[x].pc # "none" PROVE UpdateInv(x)'
        BY <1>1 DEF UpdateInv
      <3>1. /\ entry[object[x].id] = x /\ ~Closing(object[x].id)
            /\ object[x].previousSize = object[x].size /\ object[x].previousNb = HasData(x)
        BY <2>1 DEF QuietInv, UpdateInv
      <3>2. object[x].id \in Ids /\ object[x].id # i
        BY <3>1, <1>9 DEF Belongs, NewObject
      <3> QED BY <3>1, <3>2, <2>2, <1>1, <1>8, <1>9 DEF UpdateInv
    <2>4. ASSUME NEW x \in Deleters PROVE ClosingInv(x)'
      <3> SUFFICES ASSUME deleter'[x].pc = "close" PROVE ClosingInv(x)'
        BY DEF ClosingInv
      <3>1. x # d /\ deleter'[x] = deleter[x] /\ deleter[x].pc = "close" /\ deleter[x].id \in Ids
        BY <1>5, <1>7 DEF Belongs
      <3>2. ClosingInv(x) /\ ClosingInv(d)
        BY <2>1 DEF QuietInv
      <3>3. deleter[x].id # i
        BY <3>1, <3>2, <1>1, <1>3 DEF ClosingInv
      <3>4. \A y \in Deleters : (deleter'[y].pc = "close" /\ deleter'[y].id = deleter[x].id) => y = x
        BY <3>1, <3>2, <1>5, <1>7 DEF ClosingInv
      <3> QED BY <3>1, <3>2, <3>3, <3>4, <1>8 DEF ClosingInv
    <2> QED BY <2>3, <2>4 DEF QuietInv
  <1>13. CountersMatch'
    <2>1. \A j \in Ids :
            /\ CountedEntry(j)' <=> CountedEntry(j)
            /\ CountedEntry(j) => /\ object'[entry'[j]].size = object[entry[j]].size
                                  /\ object'[entry'[j]].data = object[entry[j]].data
      BY <1>1, <1>8, <1>9 DEF CountedEntry
    <2> QED BY <2>1, <1>1, <1>10, CountersFramed
  <1> QED BY <1>10, <1>11, <1>12, <1>13

\* The data changes, and the entry is marked as dirty.
LEMMA ChangeAndSetDirtyKeeps ==
  ASSUME OldCacheInv, NEW i \in Ids, ChangeAndSetDirty(i)
  PROVE  OldCacheInv'
  <1> USE DEF OldCacheInv
  <1>1. /\ version' = [version EXCEPT ![i] = @ + 1]
        /\ UNCHANGED <<entry, collectionSize, nbEntries, caller, deleter, now, disturbed>>
    BY DEF ChangeAndSetDirty
  <1>2. /\ entry \in [Ids -> Objects \cup {"none"}] /\ object \in [Objects -> ObjectType]
        /\ version \in [Ids -> Nat \ {0}] /\ now \in Nat
    BY DEF OldCacheTypeOK
  <1>3. PICK t : t = now - 1
    OBVIOUS
  <1>4. t \in Int
    BY <1>2, <1>3
  <1>5. \A x \in Objects : object'[x] = object[x] \/ (entry[i] = x /\ object'[x] = [object[x] EXCEPT !.timeout = t])
    BY <1>2, <1>3 DEF ChangeAndSetDirty, Outdated
  <1>6. object' = [x \in Objects |-> object'[x]]
    BY <1>2 DEF ChangeAndSetDirty, Outdated
  <1>7. \A x \in Objects :
          /\ object'[x] \in ObjectType /\ object'[x].used = object[x].used /\ object'[x].id = object[x].id
          /\ object'[x].pc = object[x].pc /\ object'[x].data = object[x].data /\ object'[x].size = object[x].size
          /\ object'[x].got = object[x].got
          /\ object'[x].previousSize = object[x].previousSize /\ object'[x].previousNb = object[x].previousNb
    <2> TAKE x \in Objects
    <2>1. CASE object'[x] = object[x]
      BY <2>1, <1>2
    <2>2. CASE object'[x] = [object[x] EXCEPT !.timeout = t]
      <3>1. object[x] \in ObjectType
        BY <1>2
      <3> QED BY <3>1, <2>2, <1>4 DEF ObjectType
    <2> QED BY <2>1, <2>2, <1>5
  <1>8. OldCacheTypeOK'
    <2>1. object' \in [Objects -> ObjectType]
      BY <1>6, <1>7
    <2>2. version' \in [Ids -> Nat \ {0}]
      BY <1>1, <1>2
    <2> QED BY <2>1, <2>2, <1>1 DEF OldCacheTypeOK
  <1>9. Belongs'
    <2>1. ASSUME NEW x \in Objects PROVE IF object'[x].used THEN object'[x].id \in Ids ELSE object'[x] = NewObject
      <3>1. CASE object'[x] = object[x]
        BY <3>1 DEF Belongs
      <3>2. CASE entry[i] = x
        <4>1. x # "none"
          BY CacheAssumption
        <4>2. object[x].used /\ object[x].id \in Ids
          BY <3>2, <4>1 DEF Belongs
        <4> QED BY <4>2, <1>7
      <3> QED BY <3>1, <3>2, <1>5
    <2>2. \A x \in Objects : object'[x].pc = "read" => object'[x].got # None
      BY <1>7 DEF Belongs
    <2>3. \A j \in Ids : entry'[j] # "none" => object'[entry'[j]].used /\ object'[entry'[j]].id = j
      BY <1>1, <1>2, <1>7 DEF Belongs
    <2> QED BY <2>1, <2>2, <2>3, <1>1 DEF Belongs
  <1>10. \A j : Closing(j)' <=> Closing(j)
    BY <1>1 DEF Closing
  <1>11. \A x \in Objects : HasData(x)' = HasData(x)
    BY <1>7 DEF HasData
  <1>12. ~disturbed' => QuietInv'
    <2> SUFFICES ASSUME ~disturbed' PROVE QuietInv'
      OBVIOUS
    <2>1. QuietInv
      BY <1>1
    <2>2. \A x \in Objects : UpdateInv(x)'
      BY <2>1, <1>1, <1>7, <1>10, <1>11 DEF QuietInv, UpdateInv
    <2>3. \A d \in Deleters : ClosingInv(d)'
      BY <2>1, <1>1 DEF QuietInv, ClosingInv
    <2> QED BY <2>2, <2>3 DEF QuietInv
  <1>13. CountersMatch'
    <2>1. \A j \in Ids :
            /\ CountedEntry(j)' <=> CountedEntry(j)
            /\ CountedEntry(j) => /\ object'[entry'[j]].size = object[entry[j]].size
                                  /\ object'[entry'[j]].data = object[entry[j]].data
      BY <1>1, <1>2, <1>7, <1>10 DEF CountedEntry
    <2> QED BY <2>1, <1>1, <1>8, CountersFramed
  <1> QED BY <1>8, <1>9, <1>12, <1>13

\* Every step of the first cache keeps its invariant.
LEMMA OldCacheKeeps ==
  ASSUME OldCacheInv, OldCacheNext \/ UNCHANGED oldCacheVars
  PROVE  OldCacheInv'
  BY CacheCallKeeps, ReturnFormerKeeps, WaitForUpdateKeeps, StartUpdateKeeps, ReturnValidKeeps, UpdateReadsKeeps,
     UpdateEndsKeeps, DeleteCallKeeps, DeleteEndsKeeps, ChangeAndSetDirtyKeeps, OldCacheTickKeeps
  DEF OldCacheNext, GetProgress

\* CachesSafe, for any collections, keys, sizes, limits, callers and deleters: the sizes and counters of
\* both caches are those of their entries (of the first one, unless an entry was deleted while it was
\* updated), the second cache is within its limit unless a collection was missed, whoever waits for an
\* entry has somebody who fetches it, and an entry that counts as valid holds the data of its origin
\* unless that changed while it was fetched.
THEOREM CachesAreSafe == Spec => []CachesSafe
  <1>1. Init => CacheInv /\ OldCacheInv
    BY CacheStarts, OldCacheStarts DEF Init
  <1>2. CacheInv /\ OldCacheInv /\ [Next]_vars => (CacheInv /\ OldCacheInv)'
    <2> SUFFICES ASSUME CacheInv, OldCacheInv, [Next]_vars PROVE CacheInv' /\ OldCacheInv'
      OBVIOUS
    <2>1. (CacheNext \/ UNCHANGED cacheVars) /\ (OldCacheNext \/ UNCHANGED oldCacheVars)
      BY DEF Next, vars
    <2> QED BY <2>1, CacheKeeps, OldCacheKeeps
  <1>3. CacheInv /\ OldCacheInv => CachesSafe
    BY CacheInvIsSafe DEF CachesSafe, OldCacheInv
  <1> QED BY <1>1, <1>2, <1>3, PTL DEF Spec

=============================================================================
