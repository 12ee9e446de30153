-------------------------------- MODULE Jobs --------------------------------
(***************************************************************************)
(* The job executor (apps/job_executor/backend): calls of the REST API      *)
(* create, start, cancel and delete jobs (app.js, commands.js); once per    *)
(* second the scheduler looks at all of them and starts what is ready       *)
(* (scheduler.js); an executor wraps the process of a job behind a lock     *)
(* (executor.js, executor_shell.js, terminal/backend/local/command.js,      *)
(* utils/run.ts); what must survive a restart is in the context of the job  *)
(* (context.js).  A step ends where the code awaits.  Sections under the    *)
(* lock of an executor are single steps, except the wait for a killed       *)
(* process.                                                                 *)
(***************************************************************************)
EXTENDS Integers, FiniteSets, FiniteSetsExt, Sequences

CONSTANTS
  JobCalls,       \* REST calls under way at the same time
  Instances,      \* at each start, the schedulers of the preset instances: queue, immediately, always
  MaxJobs,        \* bound on the jobs
  MaxJobCalls,    \* bound on the REST calls
  MaxJobRestarts  \* bound on the restarts of the application

ASSUME JobsAssumption ==
  /\ Instances \in [0 .. MaxJobRestarts -> Seq({"queue", "immediately", "always"})] /\ Len(Instances[0]) <= MaxJobs
  /\ {MaxJobs, MaxJobCalls, MaxJobRestarts} \subseteq Nat

VARIABLES
  job,          \* of a uid: context, executor, command, process and information
  jobLock,      \* whether a kill holds the lock of the executor
  jobCall,      \* the REST calls
  monitor,      \* the time triggered process of the scheduler
  timers,       \* the uids with a timer of reschedule()
  nbJobs, nbCalls, nbRestarts

jobsVars == <<job, jobLock, jobCall, monitor, timers, nbJobs, nbCalls, nbRestarts>>

Uids == 1 .. MaxJobs
NoJobCall == [op |-> "none", pc |-> "idle", uid |-> 0, seen |-> "none"]
NoMonitor == [pc |-> "idle", todo |-> {}, statuses |-> <<>>, uid |-> 0]
\* A job: the directory exists; the kind of executor; the status of its command; its process;
\* command.result is set; the saved information: scheduler and status; processes whose
\* executor was replaced or removed.
NoJob == [context |-> FALSE, executor |-> "none", status |-> "idle", process |-> "none", result |-> FALSE,
          plan |-> "none", saved |-> "none", astray |-> 0]

\* The preset instances become jobs before anything else runs (app.js).
WithInstances(jobs, nb, plans) ==
  [u \in Uids |-> IF u - nb \in DOMAIN plans
                  THEN [NoJob EXCEPT !.context = TRUE, !.executor = "shell", !.plan = plans[u - nb]]
                  ELSE jobs[u]]
JobsInit ==
  /\ job = WithInstances([u \in Uids |-> NoJob], 0, Instances[0]) /\ jobLock = [u \in Uids |-> FALSE]
  /\ jobCall = [c \in JobCalls |-> NoJobCall] /\ monitor = NoMonitor /\ timers = {}
  /\ nbJobs = Len(Instances[0]) /\ nbCalls = 0 /\ nbRestarts = 0

Known == {u \in Uids : job[u].executor # "none"}
Free(u) == ~jobLock[u]

\* getInfo() of the executor: a readonly one has what was saved, and a job that was running
\* when the application ended is terminated.
\* Mutant: it is what was saved.
InfoStatusSaved(j) == IF j.executor = "shell" THEN j.status ELSE j.saved
InfoStatus(j) == IF j.executor = "shell" THEN j.status
                 ELSE IF j.saved = "running" THEN "terminated" ELSE j.saved
\* It is saved with the rest of the information.
WithInfo(j) == [j EXCEPT !.saved = InfoStatus(j)]
\* A new executor of the type of the job: an executor with a process is left to itself.
Replaced(j) ==
  [j EXCEPT !.executor = "shell", !.status = "idle", !.process = "none", !.result = FALSE,
            !.astray = @ + IF j.process = "live" THEN 1 ELSE 0]

-----------------------------------------------------------------------------
\* The REST calls.
CallGoes(c, pc) == jobCall' = [jobCall EXCEPT ![c].pc = pc]
CallEnds(c) == jobCall' = [jobCall EXCEPT ![c] = NoJobCall]

\* /job/send: a uid and its directory, then the form comes in; when that fails, remove()
\* finds no executor and the directory stays.
JobSend(c) ==
  /\ jobCall[c].pc = "idle" /\ nbCalls < MaxJobCalls /\ nbJobs < MaxJobs
  /\ nbCalls' = nbCalls + 1 /\ nbJobs' = nbJobs + 1
  /\ job' = [job EXCEPT ![nbJobs + 1].context = TRUE]
  /\ jobCall' = [jobCall EXCEPT ![c] = [NoJobCall EXCEPT !.op = "start", !.pc = "inputs", !.uid = nbJobs + 1]]
  /\ UNCHANGED <<jobLock, monitor, timers, nbRestarts>>
JobInputs(c) ==
  /\ jobCall[c].pc = "inputs"
  /\ \/ CallEnds(c) /\ UNCHANGED job
     \/ job' = [job EXCEPT ![jobCall[c].uid].executor = "readonly"] /\ CallGoes(c, "info")
  /\ UNCHANGED <<jobLock, monitor, timers, nbJobs, nbCalls, nbRestarts>>

\* /job/{id}/start, /cancel and /delete of a job with an executor.
JobRequest(c, u, op) ==
  /\ jobCall[c].pc = "idle" /\ nbCalls < MaxJobCalls /\ u \in Known
  /\ nbCalls' = nbCalls + 1
  /\ jobCall' = [jobCall EXCEPT ![c] = [op |-> op, pc |-> "info", uid |-> u, seen |-> "none"]]
  /\ UNCHANGED <<job, jobLock, monitor, timers, nbJobs, nbRestarts>>

\* They begin with getInfo().
JobInfo(c) ==
  LET u == jobCall[c].uid IN
  /\ jobCall[c].pc = "info" /\ Free(u)
  /\ job' = [job EXCEPT ![u] = WithInfo(@)]
  /\ jobCall' = [jobCall EXCEPT ![c].seen = InfoStatus(job[u]), ![c].pc = "checked"]
  /\ UNCHANGED <<jobLock, monitor, timers, nbJobs, nbCalls, nbRestarts>>

\* reset(): not when it was running; a new executor, then initialize() and updateInfo() with
\* the scheduler.
JobReset(c) ==
  LET u == jobCall[c].uid IN
  /\ jobCall[c].pc = "checked" /\ jobCall[c].op = "start"
  /\ IF jobCall[c].seen = "running" THEN CallEnds(c) /\ UNCHANGED job
     ELSE job' = [job EXCEPT ![u] = Replaced(@)] /\ CallGoes(c, "plan")
  /\ UNCHANGED <<jobLock, monitor, timers, nbJobs, nbCalls, nbRestarts>>
JobPlan(c) ==
  LET u == jobCall[c].uid IN
  /\ jobCall[c].pc = "plan" /\ Free(u)
  /\ job' = [job EXCEPT ![u].plan = "immediately"]
  /\ CallEnds(c)
  /\ UNCHANGED <<jobLock, monitor, timers, nbJobs, nbCalls, nbRestarts>>

\* terminate(): a job that is not running is killed by /delete only; nothing is there to
\* kill when the command was never started or was killed before.
JobKill(c) ==
  LET u == jobCall[c].uid IN
  /\ jobCall[c].pc = "checked" /\ jobCall[c].op \in {"cancel", "delete"} /\ Free(u)
  /\ IF jobCall[c].op = "cancel" /\ jobCall[c].seen # "running" THEN CallEnds(c) /\ UNCHANGED jobLock
     ELSE IF job[u].result
     THEN jobLock' = [jobLock EXCEPT ![u] = TRUE] /\ CallGoes(c, "killing")
     ELSE CallGoes(c, "killed") /\ UNCHANGED jobLock
  /\ UNCHANGED <<job, monitor, timers, nbJobs, nbCalls, nbRestarts>>
\* ExecuteResult.kill() returns at the event exit of the process, which comes once: when
\* the process ended before the call, never.
JobKilled(c) ==
  LET u == jobCall[c].uid IN
  /\ jobCall[c].pc = "killing" /\ job[u].process = "live"
  /\ job' = [job EXCEPT ![u].process = "exited", ![u].result = FALSE]
  /\ jobLock' = [jobLock EXCEPT ![u] = FALSE] /\ CallGoes(c, "killed")
  /\ UNCHANGED <<monitor, timers, nbJobs, nbCalls, nbRestarts>>
\* getInfo() again, and then remove().
JobEnds(c) ==
  LET u == jobCall[c].uid IN
  /\ jobCall[c].pc = "killed" /\ Free(u)
  /\ job' = [job EXCEPT ![u] =
       IF jobCall[c].op = "cancel" THEN WithInfo(@)
       ELSE [NoJob EXCEPT !.astray = job[u].astray + IF job[u].process = "live" THEN 1 ELSE 0]]
  /\ CallEnds(c)
  /\ UNCHANGED <<jobLock, monitor, timers, nbJobs, nbCalls, nbRestarts>>

-----------------------------------------------------------------------------
\* The process of the scheduler: the status of all jobs,
MonitorStarts ==
  /\ monitor.pc = "idle" /\ Known # {}
  /\ monitor' = [NoMonitor EXCEPT !.pc = "infos", !.todo = Known, !.statuses = [u \in Uids |-> "none"]]
  /\ UNCHANGED <<job, jobLock, jobCall, timers, nbJobs, nbCalls, nbRestarts>>
MonitorInfo ==
  LET u == Min(monitor.todo) IN
  /\ monitor.pc = "infos" /\ monitor.todo # {} /\ Free(u)
  /\ job' = [job EXCEPT ![u] = IF u \in Known THEN WithInfo(@) ELSE @]
  /\ monitor' = [monitor EXCEPT !.statuses[u] = InfoStatus(job[u]), !.todo = @ \ {u}]
  /\ UNCHANGED <<jobLock, jobCall, timers, nbJobs, nbCalls, nbRestarts>>

\* isReadyToBeExecuted() and the next job to start, by uid.
Ready(u, from) ==
  /\ u >= from /\ monitor.statuses[u] = "idle"
  /\ CASE job[u].plan = "queue" -> \A v \in Uids : monitor.statuses[v] # "running"
       [] job[u].plan = "none" -> FALSE
       [] OTHER -> TRUE
NextReady(from) == {u \in Uids : Ready(u, from)}
MonitorPick ==
  /\ monitor.pc = "infos" /\ monitor.todo = {}
  /\ LET next == NextReady(monitor.uid + 1)
     IN  monitor' = IF next = {} THEN NoMonitor
                    ELSE [monitor EXCEPT !.uid = Min(next), !.pc = "getInfo"]
  /\ UNCHANGED <<job, jobLock, jobCall, timers, nbJobs, nbCalls, nbRestarts>>
\* _execute(): the job must still be there and idle, otherwise the process fails and begins
\* again later;
MonitorCheck ==
  LET u == monitor.uid IN
  /\ monitor.pc = "getInfo" /\ Free(u)
  /\ monitor' = IF u \in Known /\ InfoStatus(job[u]) = "idle" THEN [monitor EXCEPT !.pc = "execute"] ELSE NoMonitor
  /\ UNCHANGED <<job, jobLock, jobCall, timers, nbJobs, nbCalls, nbRestarts>>
\* then the command is started.  A readonly executor has no execute(): the process fails.
\* Mutant: the statuses are left as they were.
StartedUnnoticed(m) == [m EXCEPT !.pc = "infos"]
Started(m) == [m EXCEPT !.statuses[m.uid] = "running", !.pc = "infos"]
MonitorExecute ==
  LET u == monitor.uid IN
  /\ monitor.pc = "execute" /\ Free(u)
  /\ IF job[u].executor # "shell" THEN monitor' = NoMonitor /\ UNCHANGED job
     ELSE /\ job' = [job EXCEPT ![u].status = "running", ![u].process = "live", ![u].result = TRUE,
                                ![u].astray = @ + IF job[u].process = "live" THEN 1 ELSE 0]
          /\ monitor' = Started(monitor)
  /\ UNCHANGED <<jobLock, jobCall, timers, nbJobs, nbCalls, nbRestarts>>

-----------------------------------------------------------------------------
\* The process ends by itself; then (also after a kill) its pipes are closed, which sets the
\* status and calls onTerminate().
ProcessExit(u) ==
  /\ job[u].process = "live" /\ ~jobLock[u]
  /\ job' = [job EXCEPT ![u].process = "exited"]
  /\ UNCHANGED <<jobLock, jobCall, monitor, timers, nbJobs, nbCalls, nbRestarts>>
ProcessClose(u) ==
  /\ job[u].process = "exited"
  /\ \E s \in IF job[u].result THEN {"completed", "failed"} ELSE {"cancelled"} :
       job' = [job EXCEPT ![u].process = "none", ![u].status = s]
  /\ timers' = IF job[u].plan = "always" THEN timers \cup {u} ELSE timers
  /\ UNCHANGED <<jobLock, jobCall, monitor, nbJobs, nbCalls, nbRestarts>>
\* reschedule(): reset() unless it is running.
Rescheduled(u) ==
  /\ u \in timers /\ Free(u) /\ timers' = timers \ {u}
  /\ job' = [job EXCEPT ![u] = IF @.context /\ InfoStatus(@) # "running" THEN Replaced(WithInfo(@)) ELSE @]
  /\ UNCHANGED <<jobLock, jobCall, monitor, nbJobs, nbCalls, nbRestarts>>

\* The application is restarted: its processes end with it, every directory becomes a job
\* with a readonly executor, and the preset instances are made again.
AppRestart ==
  /\ nbRestarts < MaxJobRestarts /\ nbRestarts' = nbRestarts + 1
  /\ LET plans == Instances[nbRestarts + 1]
         former == [u \in Uids |-> IF ~job[u].context THEN NoJob
                                   ELSE [NoJob EXCEPT !.context = TRUE, !.executor = "readonly",
                                                      !.plan = job[u].plan, !.saved = job[u].saved]]
     IN  /\ nbJobs + Len(plans) <= MaxJobs /\ nbJobs' = nbJobs + Len(plans)
         /\ job' = WithInstances(former, nbJobs, plans)
  /\ jobLock' = [u \in Uids |-> FALSE] /\ timers' = {}
  /\ jobCall' = [c \in JobCalls |-> NoJobCall] /\ monitor' = NoMonitor
  /\ UNCHANGED nbCalls

JobsNext ==
  \/ \E c \in JobCalls : \/ JobSend(c) \/ JobInputs(c) \/ JobInfo(c) \/ JobReset(c) \/ JobPlan(c)
                         \/ JobKill(c) \/ JobKilled(c) \/ JobEnds(c)
                         \/ \E u \in Uids, op \in {"start", "cancel", "delete"} : JobRequest(c, u, op)
  \/ MonitorStarts \/ MonitorInfo \/ MonitorPick \/ MonitorCheck \/ MonitorExecute
  \/ \E u \in Uids : ProcessExit(u) \/ ProcessClose(u) \/ Rescheduled(u)
  \/ AppRestart

JobsSpec == JobsInit /\ [][JobsNext]_jobsVars

-----------------------------------------------------------------------------
\* Two jobs of the queue never run at the same time (scheduler.js:66), although the statuses
\* are those of the beginning of the loop and jobs come, end and go meanwhile.
InQueue == {u \in Uids : job[u].process = "live" /\ job[u].plan = "queue"}
QueueAlone == Cardinality(InQueue) <= 1

\* What the API says is running has a process, which may just have ended: also after a
\* restart, when the saved information says otherwise.
RunningIsTrue == \A u \in Known : InfoStatus(job[u]) = "running" => job[u].process # "none"

\* Every process belongs to the executor that the application has for the job, so that it
\* can be cancelled.  It is not so: a call that saw the job idle replaces or removes the
\* executor that the scheduler has just started.
NoneAstray == \A u \in Uids : job[u].astray = 0

\* The lock of an executor is held by a kill that will end.
LocksReleased == \A u \in Uids : jobLock[u] => job[u].process = "live"

-----------------------------------------------------------------------------
\* The jobs of a queue run one at a time, and a job that is said to run does.
JobsSafe ==
  /\ QueueAlone
  /\ RunningIsTrue
=============================================================================
