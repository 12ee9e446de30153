------------------------------ MODULE Backend -------------------------------
(***************************************************************************)
(* The life of a backend (nodejs/vue/apps/backend.js): start() starts the   *)
(* services, the statistics, installs the signal handlers and starts the    *)
(* web server; stop(), also called by a signal, goes the other way.  It     *)
(* composes Services, the requests of HttpServer (no websocket connects)    *)
(* and the timer of the statistics (nodejs/core/statistics/statistics.js).  *)
(***************************************************************************)
EXTENDS Services, HttpServer

VARIABLES
  backend,       \* where start() or stop() is
  statistics,    \* new, started or stopped: timeoutProcessors is never reset
  signals        \* signalDestructor is set

backendVars == <<servicesVars, httpVars, backend, statistics, signals>>

BackendInit ==
  /\ ServicesInit /\ HttpInit
  /\ backend = "setup" /\ statistics = "new" /\ signals = FALSE

Local == UNCHANGED <<servicesVars, httpVars>>

BackendStart ==
  /\ backend \in {"setup", "stopped"} /\ backend' = "startServices"
  /\ CallStart
  /\ UNCHANGED <<httpVars, statistics, signals>>
\* services.start() returned or threw.
ServicesStarted ==
  /\ backend = "startServices" /\ main.op = "start" /\ main.pc \in {"returned", "threw"}
  /\ backend' = IF main.pc = "threw" THEN "failed" ELSE "startStatistics"
  /\ Local /\ UNCHANGED <<statistics, signals>>
\* statistics.start() asserts that it never ran before.
StatisticsStart ==
  /\ backend = "startStatistics"
  /\ IF statistics = "new" THEN statistics' = "started" /\ backend' = "signals"
                           ELSE backend' = "failed" /\ UNCHANGED statistics
  /\ Local /\ UNCHANGED signals
SignalsInstalled ==
  /\ backend = "signals" /\ backend' = "startWeb" /\ signals' = TRUE
  /\ Local /\ UNCHANGED statistics
BackendListens ==
  /\ backend = "startWeb" /\ backend' = "running"
  /\ WebStart
  /\ UNCHANGED <<servicesVars, statistics, signals>>

\* A signal, or the application: the handlers are removed first, so that a second
\* stop() fails on its assertion.
\* Mutant: the services are stopped before the web server.
BackendStopServicesFirst ==
  /\ signals /\ backend = "running"
  /\ signals' = FALSE /\ backend' = "stopServices"
  /\ CallStop
  /\ UNCHANGED <<httpVars, statistics>>
BackendStop ==
  /\ signals /\ backend = "running"
  /\ signals' = FALSE /\ backend' = "stopWeb"
  /\ WebStop
  /\ UNCHANGED <<servicesVars, statistics>>
WebStopped ==
  /\ backend = "stopWeb" /\ web = "closed"
  /\ backend' = "stopServices"
  /\ CallStop
  /\ UNCHANGED <<httpVars, statistics, signals>>
\* services.stop() returned, or threw because of a fatal error: then the statistics
\* keep running.
\* Mutant: the statistics are forgotten.
ServicesStoppedOnly ==
  /\ backend = "stopServices" /\ main.op = "stop" /\ main.pc \in {"returned", "threw"}
  /\ backend' = (IF main.pc = "threw" THEN "failed" ELSE "stopped")
  /\ Local /\ UNCHANGED <<statistics, signals>>
ServicesStopped ==
  /\ backend = "stopServices" /\ main.op = "stop" /\ main.pc \in {"returned", "threw"}
  /\ IF main.pc = "threw" THEN backend' = "failed" /\ UNCHANGED statistics
     ELSE backend' = "stopped" /\ statistics' = "stopped"
  /\ Local /\ UNCHANGED signals

BackendStep ==
  \/ ServicesStarted \/ StatisticsStart \/ SignalsInstalled \/ BackendListens
  \/ WebStopped \/ ServicesStopped

BackendNext ==
  \/ BackendStart \/ BackendStop \/ BackendStep
  \/ ServicesStep /\ UNCHANGED <<httpVars, backend, statistics, signals>>
  \/ RequestNext /\ UNCHANGED <<servicesVars, backend, statistics, signals>>

BackendFairness == ServicesFairness /\ HttpFairness /\ WF_backendVars(BackendStep)
BackendSpec ==
  /\ BackendInit /\ [][BackendNext]_backendVars
  /\ BackendFairness

-----------------------------------------------------------------------------
\* A request is handled only while every service runs and the statistics are on: the
\* server listens last and has answered everything before the services are stopped.
ServedWhileRunning ==
  \A r \in Requests : request[r].pc \notin {"none", "done"} =>
    statistics = "started" /\ \A u \in Service : state[u] = "running"

\* A shutdown completes and leaves nothing running, unless a service has a fatal error.
ShutdownCompletes ==
  (backend = "stopWeb") ~>
    \/ backend = "stopped" /\ web = "closed" /\ statistics = "stopped" /\ ~heartbeat
       /\ \A u \in Service : state[u] = "idle"
    \/ \E u \in Service : lastFatalError[u]

\* The backend: a periodic process of a running service has its timer or its run and a stopped one has
\* neither, a request is answered once and only while the services run, and a socket that answers is not terminated.
BackendSafe ==
  /\ PeriodicRunAlive
  /\ StoppedIsQuiet
  /\ AnsweredOnce
  /\ LiveNotTerminated
  /\ ServedWhileRunning
=============================================================================
