----------------------------- MODULE AppsProofs ------------------------------
(***************************************************************************)
(* Proofs about the applications and what they share: the jobs of the job   *)
(* executor, the payments and subscriptions, the HTTP client, and the users,*)
(* pending actions and administrator's pages of the accounts.  They share no*)
(* variable; what they have in common are the first lemmas.                 *)
(***************************************************************************)
EXTENDS Jobs, Payments, HttpClient, Accounts, TLAPS, FiniteSetTheorems, SequenceTheorems, WellFoundedInduction

-----------------------------------------------------------------------------
(* Sets of numbers.                                                         *)

\* Min of a set of numbers is its smallest element.
LEMMA LeastIsIn ==
  ASSUME NEW T \in SUBSET Nat, T # {}
  PROVE  Min(T) \in T
  <1>1. PICK x \in T : \A y \in T : ~(<<y, x>> \in OpToRel(<, Nat))
    BY WFMin, NatLessThanWellFounded
  <1>2. \A y \in T : x <= y
    <2> SUFFICES ASSUME NEW y \in T, y < x PROVE FALSE
      OBVIOUS
    <2>1. <<y, x>> \in Nat \X Nat /\ <<y, x>>[1] = y /\ <<y, x>>[2] = x
      OBVIOUS
    <2> QED BY <1>1, <2>1, Zenon DEF OpToRel
  <1> QED BY <1>2 DEF Min

\* A set whose elements are all the same has at most one.
LEMMA AtMostOne ==
  ASSUME NEW S, \A x, y \in S : x = y
  PROVE  Cardinality(S) <= 1
  <1>1. CASE S = {}
    BY <1>1, FS_EmptySet
  <1>2. CASE S # {}
    <2>1. PICK x : S = {x}
      BY <1>2
    <2> QED BY <2>1, FS_Singleton
  <1> QED BY <1>1, <1>2

-----------------------------------------------------------------------------
(* The job executor.                                                        *)

JobStatuses == {"none", "idle", "running", "completed", "failed", "cancelled", "terminated"}
JobPlans == {"none", "queue", "immediately", "always"}
JobType == [context : BOOLEAN, executor : {"none", "readonly", "shell"}, status : JobStatuses,
            process : {"none", "live", "exited"}, result : BOOLEAN, plan : JobPlans, saved : JobStatuses, astray : Nat]
JobCallType == [op : {"none", "start", "cancel", "delete"},
                pc : {"idle", "inputs", "info", "checked", "plan", "killing", "killed"},
                uid : Nat, seen : JobStatuses]
MonitorType == [pc : {"idle", "infos", "getInfo", "execute"}, todo : SUBSET Uids,
                statuses : {<<>>} \cup [Uids -> JobStatuses], uid : Nat]

JobsTypeOK ==
  /\ job \in [Uids -> JobType]
  /\ jobCall \in [JobCalls -> JobCallType]
  /\ monitor \in MonitorType
  /\ timers \in SUBSET Uids
  /\ nbJobs \in 0 .. MaxJobs
  /\ nbRestarts \in 0 .. MaxJobRestarts

\* A process that lives is the one of the command of its executor, which says that it runs; and an
\* executor that says so has a process.
JobWell(j) ==
  /\ j.process = "live" => j.executor = "shell" /\ j.status = "running"
  /\ j.executor = "shell" /\ j.status = "running" => j.process # "none"

\* A uid that was not given yet.
Unused(u) == job[u] = NoJob /\ u \notin timers
\* A job whose form is awaited has no executor, and nobody else knows of it.
Hatching(c) ==
  LET u == jobCall[c].uid IN
  /\ job[u].executor = "none" /\ job[u].process = "none" /\ u \notin timers
  /\ \A d \in JobCalls : d # c /\ jobCall[d].pc # "idle" => jobCall[d].uid # u

\* What the loop of the scheduler knows: a job of the queue that lives is one it has still to ask or one it
\* knows to run, and it starts a job of the queue when it knows of none.
MonitorKnows ==
  monitor.pc # "idle" =>
    /\ monitor.statuses \in [Uids -> JobStatuses]
    /\ \A v \in InQueue : v \in monitor.todo \/ monitor.statuses[v] = "running"
    /\ monitor.pc \in {"getInfo", "execute"} =>
         /\ monitor.todo = {} /\ monitor.uid \in Uids
         /\ job[monitor.uid].plan = "queue" => \A v \in Uids : monitor.statuses[v] # "running"

JobsInv ==
  /\ JobsTypeOK
  /\ \A u \in Uids : JobWell(job[u]) /\ (u > nbJobs => Unused(u))
  /\ \A c \in JobCalls : jobCall[c].pc # "idle" => jobCall[c].uid \in 1 .. nbJobs
  /\ \A c \in JobCalls : jobCall[c].pc = "inputs" => Hatching(c)
  /\ MonitorKnows
  /\ \A u, v \in InQueue : u = v

\* What an executor is asked for.
LEMMA InfoIsStatus ==
  \A j \in JobType : /\ InfoStatus(j) \in JobStatuses
                     /\ WithInfo(j) = [j EXCEPT !.saved = InfoStatus(j)]
                     /\ WithInfo(j) \in JobType /\ (JobWell(j) => JobWell(WithInfo(j)))
                     /\ Replaced(j) \in JobType /\ JobWell(Replaced(j)) /\ Replaced(j).process = "none"
                     /\ Replaced(j).plan = j.plan
  <1> SUFFICES ASSUME NEW j \in JobType
               PROVE  /\ InfoStatus(j) \in JobStatuses
                      /\ WithInfo(j) \in JobType /\ (JobWell(j) => JobWell(WithInfo(j)))
                      /\ Replaced(j) \in JobType /\ JobWell(Replaced(j)) /\ Replaced(j).process = "none"
                      /\ Replaced(j).plan = j.plan
    BY DEF WithInfo
  <1>1. InfoStatus(j) \in JobStatuses
    BY DEF InfoStatus, JobStatuses, JobType
  <1>2. WithInfo(j) \in JobType
    BY <1>1 DEF WithInfo, JobType
  <1>3. JobWell(j) => JobWell(WithInfo(j))
    BY <1>1 DEF WithInfo, JobType, JobWell
  <1>4. Replaced(j) \in JobType
    <2>1. j.astray + (IF j.process = "live" THEN 1 ELSE 0) \in Nat
      BY DEF JobType
    <2> QED BY <2>1 DEF Replaced, JobType, JobStatuses
  <1>5. JobWell(Replaced(j)) /\ Replaced(j).process = "none" /\ Replaced(j).plan = j.plan
    BY DEF Replaced, JobType, JobWell
  <1> QED BY <1>1, <1>2, <1>3, <1>4, <1>5

\* Before the first step.
LEMMA JobsBegin ==
  ASSUME JobsInit
  PROVE  JobsInv
  <1>1. NoJob \in JobType /\ JobWell(NoJob)
    BY DEF NoJob, JobType, JobWell, JobStatuses, JobPlans
  <1>2. Instances[0] \in Seq({"queue", "immediately", "always"}) /\ Len(Instances[0]) <= MaxJobs /\ MaxJobs \in Nat
    BY JobsAssumption
  <1>3. ASSUME NEW u \in Uids
        PROVE  /\ job[u] \in JobType /\ JobWell(job[u]) /\ job[u].process = "none"
               /\ u > nbJobs => job[u] = NoJob
    <2> DEFINE plans == Instances[0]
    <2>1. job[u] = IF u - 0 \in DOMAIN plans
                   THEN [NoJob EXCEPT !.context = TRUE, !.executor = "shell", !.plan = plans[u - 0]] ELSE NoJob
      BY <1>3 DEF JobsInit, WithInstances
    <2>2. u - 0 = u /\ u \in Nat \ {0}
      BY <1>2, <1>3 DEF Uids
    <2>3. CASE u \in DOMAIN plans
      <3>1. plans[u] \in JobPlans
        BY <1>2, <2>3 DEF JobPlans
      <3>2. u <= nbJobs
        BY <1>2, <2>2, <2>3 DEF JobsInit
      <3>3. job[u] = [NoJob EXCEPT !.context = TRUE, !.executor = "shell", !.plan = plans[u]]
        BY <2>1, <2>2, <2>3
      <3> HIDE DEF plans
      <3>4. nbJobs \in Nat
        BY <1>2 DEF JobsInit
      <3>5. job[u] = [context |-> TRUE, executor |-> "shell", status |-> "idle", process |-> "none", result |-> FALSE,
                      plan |-> plans[u], saved |-> "none", astray |-> 0]
        BY <3>3 DEF NoJob
      <3> QED BY <2>2, <3>1, <3>2, <3>4, <3>5 DEF JobType, JobWell, JobStatuses
    <2>4. CASE u \notin DOMAIN plans
      BY <1>1, <2>1, <2>2, <2>4 DEF NoJob
    <2> QED BY <2>3, <2>4
  <1>4. job \in [Uids -> JobType]
    BY <1>3 DEF JobsInit, WithInstances
  <1>5. JobsTypeOK
    BY <1>2, <1>4, JobsAssumption DEF JobsTypeOK, JobsInit, NoJobCall, JobCallType, NoMonitor, MonitorType, JobStatuses
  <1> QED BY <1>3, <1>5 DEF JobsInv, JobsInit, Unused, NoJobCall, MonitorKnows, NoMonitor, InQueue

\* Steps of a call that leave the executors alone.
LEMMA CallsKeep ==
  ASSUME JobsInv, NEW c \in JobCalls, NEW call \in JobCallType,
         jobCall' = [jobCall EXCEPT ![c] = call],
         call.pc # "idle" => /\ call.pc # "inputs" /\ call.uid \in 1 .. nbJobs
                             /\ \/ jobCall[c].pc # "idle" /\ call.uid = jobCall[c].uid
                                \/ job[call.uid].executor # "none",
         UNCHANGED <<job, timers, monitor, nbJobs, nbRestarts>>
  PROVE  JobsInv'
  <1>1. jobCall' \in [JobCalls -> JobCallType] /\ jobCall'[c] = call
        /\ \A d \in JobCalls : d # c => jobCall'[d] = jobCall[d]
    BY DEF JobsInv, JobsTypeOK
  <1>2. JobsTypeOK' /\ MonitorKnows' /\ InQueue' = InQueue
    BY <1>1 DEF JobsInv, JobsTypeOK, MonitorKnows, InQueue
  <1>3. \A d \in JobCalls : jobCall'[d].pc = "inputs" => d # c /\ jobCall'[d] = jobCall[d] /\ Hatching(d)
    BY <1>1 DEF JobsInv
  <1>4. ASSUME NEW d \in JobCalls, jobCall'[d].pc = "inputs"
        PROVE  Hatching(d)'
    BY <1>1, <1>3, <1>4 DEF Hatching
  <1> QED BY <1>1, <1>2, <1>4 DEF JobsInv, Unused

\* Steps that change one job, and nothing that the others depend on.
LEMMA JobKeeps ==
  ASSUME JobsInv, NEW u \in 1 .. nbJobs, NEW j \in JobType, JobWell(j),
         job' = [job EXCEPT ![u] = j],
         j.plan = "queue" => job[u].plan = "queue",
         j.process = "live" => job[u].process = "live",
         \A c \in JobCalls : jobCall[c].pc = "inputs" => jobCall[c].uid # u,
         UNCHANGED <<jobCall, timers, monitor, nbJobs, nbRestarts>>
  PROVE  JobsInv'
  <1>1. /\ u \in Uids /\ job' \in [Uids -> JobType] /\ job'[u] = j
        /\ \A v \in Uids : v # u => job'[v] = job[v]
    BY JobsAssumption DEF JobsInv, JobsTypeOK, Uids
  <1>2. JobsTypeOK'
    BY <1>1 DEF JobsInv, JobsTypeOK
  <1>3. InQueue' \subseteq InQueue
    BY <1>1 DEF InQueue
  <1>4. MonitorKnows'
    BY <1>1, <1>3 DEF JobsInv, MonitorKnows
  <1>5. ASSUME NEW d \in JobCalls, jobCall'[d].pc = "inputs"
        PROVE  Hatching(d)'
    <2>1. Hatching(d) /\ jobCall[d].uid # u /\ jobCall[d].uid \in Uids
      BY <1>5, JobsAssumption DEF JobsInv, JobsTypeOK, Uids
    <2> QED BY <1>1, <2>1 DEF Hatching
  <1>6. \A v \in Uids : JobWell(job'[v]) /\ (v > nbJobs => Unused(v)')
    BY <1>1 DEF JobsInv, Unused, JobsTypeOK
  <1> QED BY <1>2, <1>3, <1>4, <1>5, <1>6 DEF JobsInv

\* Steps of a call that go on with it, or end it, and change its job.
LEMMA CallAndJobKeep ==
  ASSUME JobsInv, NEW c \in JobCalls, NEW call \in JobCallType, NEW j \in JobType, JobWell(j),
         jobCall[c].pc \notin {"idle", "inputs"}, call.pc # "inputs",
         call.pc # "idle" => call.uid = jobCall[c].uid,
         job' = [job EXCEPT ![jobCall[c].uid] = j], jobCall' = [jobCall EXCEPT ![c] = call],
         j.plan = "queue" => job[jobCall[c].uid].plan = "queue",
         j.process = "live" => job[jobCall[c].uid].process = "live",
         UNCHANGED <<timers, monitor, nbJobs, nbRestarts>>
  PROVE  JobsInv'
  <1> DEFINE u == jobCall[c].uid
  <1>1. u \in 1 .. nbJobs /\ u \in Uids
    BY JobsAssumption DEF JobsInv, JobsTypeOK, Uids
  <1>2. /\ job' \in [Uids -> JobType] /\ job'[u] = j
        /\ \A v \in Uids : v # u => job'[v] = job[v]
    BY <1>1 DEF JobsInv, JobsTypeOK
  <1>3. /\ jobCall' \in [JobCalls -> JobCallType] /\ jobCall'[c] = call
        /\ \A d \in JobCalls : d # c => jobCall'[d] = jobCall[d]
    BY DEF JobsInv, JobsTypeOK
  <1>4. \A d \in JobCalls : jobCall'[d].pc # "idle" => jobCall'[d].uid = jobCall[d].uid /\ jobCall[d].pc # "idle"
    BY <1>3
  <1> HIDE DEF u
  <1>5. JobsTypeOK' /\ InQueue' \subseteq InQueue
    BY <1>1, <1>2, <1>3 DEF JobsInv, JobsTypeOK, InQueue, u
  <1>6. MonitorKnows'
    BY <1>1, <1>2, <1>5 DEF JobsInv, MonitorKnows, u
  <1>7. ASSUME NEW d \in JobCalls, jobCall'[d].pc = "inputs"
        PROVE  Hatching(d)'
    <2>1. /\ d # c /\ Hatching(d) /\ jobCall'[d] = jobCall[d] /\ jobCall[d].uid # u
          /\ jobCall[d].uid \in Uids
      BY <1>3, <1>7, JobsAssumption DEF JobsInv, JobsTypeOK, Hatching, Uids, u
    <2> QED BY <1>2, <1>3, <1>4, <2>1 DEF Hatching
  <1>8. \A v \in Uids : JobWell(job'[v]) /\ (v > nbJobs => Unused(v)')
    BY <1>1, <1>2 DEF JobsInv, Unused, JobsTypeOK
  <1> QED BY <1>1, <1>3, <1>4, <1>5, <1>6, <1>7, <1>8 DEF JobsInv

\* The steps of a REST call.
LEMMA CallStep ==
  ASSUME JobsInv, NEW c \in JobCalls,
         \/ JobSend(c) \/ JobInputs(c) \/ JobInfo(c) \/ JobReset(c) \/ JobPlan(c)
         \/ JobKill(c) \/ JobKilled(c) \/ JobEnds(c)
         \/ \E u \in Uids, op \in {"start", "cancel", "delete"} : JobRequest(c, u, op)
  PROVE  JobsInv'
  <1> DEFINE call == jobCall[c]
             u == call.uid
  <1>1. /\ call \in JobCallType /\ (call.pc # "idle" => u \in 1 .. nbJobs /\ u \in Uids /\ job[u] \in JobType /\ JobWell(job[u]))
        /\ NoJobCall \in JobCallType /\ NoJobCall.pc = "idle"
        /\ MaxJobs \in Nat /\ nbJobs \in Nat /\ nbJobs <= MaxJobs
    BY JobsAssumption DEF JobsInv, JobsTypeOK, Uids, NoJobCall, JobCallType, JobStatuses
  <1>2. call.pc # "idle" /\ call.pc # "inputs" =>
          \A d \in JobCalls : jobCall[d].pc = "inputs" => jobCall[d].uid # u
    BY DEF JobsInv, Hatching
  <1>3. ASSUME NEW pc \in {"info", "checked", "plan", "killing", "killed"}, call.pc # "idle"
        PROVE  [call EXCEPT !.pc = pc] \in JobCallType /\ [call EXCEPT !.pc = pc].pc = pc /\ [call EXCEPT !.pc = pc].uid = u
    BY <1>1 DEF JobCallType
  <1>4. CASE JobSend(c)
    <2> DEFINE n == nbJobs + 1
               new == [NoJobCall EXCEPT !.op = "start", !.pc = "inputs", !.uid = n]
               dir == [NoJob EXCEPT !.context = TRUE]
    <2>1. n \in Uids /\ nbJobs' = n /\ Unused(n) /\ n \notin 1 .. nbJobs
      BY <1>1, <1>4 DEF JobSend, Uids, JobsInv
    <2>2. new \in JobCallType /\ new.pc = "inputs" /\ new.uid = n
      <3>1. n \in Nat
        BY <1>1
      <3> HIDE DEF n
      <3> QED BY <1>1, <3>1 DEF JobCallType, JobStatuses
    <2>3. /\ jobCall' = [jobCall EXCEPT ![c] = new] /\ job' = [job EXCEPT ![n] = dir]
          /\ UNCHANGED <<timers, monitor, nbRestarts>>
      BY <1>4, <2>1 DEF JobSend, Unused
    <2>4. /\ dir \in JobType /\ JobWell(dir) /\ dir.executor = "none" /\ dir.process = "none" /\ dir.plan = "none"
      BY DEF NoJob, JobType, JobWell, JobStatuses, JobPlans
    <2> HIDE DEF n, new, dir
    <2>5. /\ \A v \in Uids : v # n => job'[v] = job[v]
          /\ job'[n] = dir /\ job' \in [Uids -> JobType]
          /\ \A d \in JobCalls : d # c => jobCall'[d] = jobCall[d]
          /\ jobCall'[c] = new /\ jobCall' \in [JobCalls -> JobCallType]
      BY <2>1, <2>2, <2>3, <2>4 DEF JobsInv, JobsTypeOK
    <2>6. JobsTypeOK' /\ InQueue' \subseteq InQueue
      BY <1>1, <2>1, <2>3, <2>4, <2>5 DEF JobsInv, JobsTypeOK, InQueue, Uids, n
    <2>7. MonitorKnows'
      BY <2>3, <2>4, <2>5, <2>6 DEF JobsInv, MonitorKnows
    <2>8. ASSUME NEW d \in JobCalls, jobCall'[d].pc = "inputs"
          PROVE  Hatching(d)'
      <3>1. CASE d = c
        BY <2>1, <2>2, <2>3, <2>4, <2>5, <3>1 DEF Hatching, JobsInv, Unused
      <3>2. CASE d # c
        <4>1. Hatching(d) /\ jobCall[d].uid \in 1 .. nbJobs /\ jobCall[d].uid # n /\ jobCall[d].uid \in Uids
          BY <1>1, <2>1, <2>5, <2>8, <3>2 DEF JobsInv, Uids
        <4> QED BY <2>1, <2>2, <2>3, <2>5, <3>2, <4>1 DEF Hatching
      <3> QED BY <3>1, <3>2
    <2>9. \A v \in Uids : JobWell(job'[v]) /\ (v > nbJobs' => Unused(v)')
      BY <1>1, <2>1, <2>3, <2>4, <2>5 DEF JobsInv, Unused, Uids, n
    <2>10. \A d \in JobCalls : jobCall'[d].pc # "idle" => jobCall'[d].uid \in 1 .. nbJobs'
      BY <1>1, <2>1, <2>2, <2>5 DEF JobsInv, n
    <2> QED BY <2>6, <2>7, <2>8, <2>9, <2>10 DEF JobsInv
  <1>5. CASE JobInputs(c)
    <2>1. call.pc = "inputs" /\ Hatching(c) /\ UNCHANGED <<monitor, timers, nbJobs, nbRestarts>>
      BY <1>5 DEF JobInputs, JobsInv
    <2>2. CASE jobCall' = [jobCall EXCEPT ![c] = NoJobCall] /\ UNCHANGED job
      BY <1>1, <2>1, <2>2, CallsKeep
    <2>3. CASE /\ job' = [job EXCEPT ![u].executor = "readonly"]
               /\ jobCall' = [jobCall EXCEPT ![c].pc = "info"]
      <3> DEFINE j == [job[u] EXCEPT !.executor = "readonly"]
      <3>1. j \in JobType /\ JobWell(j) /\ j.process = "none" /\ job[u].process = "none" /\ u \notin timers
        BY <1>1, <2>1 DEF JobType, JobWell, Hatching
      <3>2. /\ \A v \in Uids : v # u => job'[v] = job[v]
            /\ job'[u] = j /\ job' \in [Uids -> JobType]
        BY <1>1, <2>1, <2>3, <3>1 DEF JobsInv, JobsTypeOK
      <3>3. /\ \A d \in JobCalls : d # c => jobCall'[d] = jobCall[d]
            /\ jobCall'[c] = [call EXCEPT !.pc = "info"] /\ jobCall' \in [JobCalls -> JobCallType]
        BY <1>1, <1>3, <2>1, <2>3 DEF JobsInv, JobsTypeOK
      <3>4. jobCall'[c].pc = "info" /\ jobCall'[c].uid = u
        BY <1>3, <2>1, <3>3
      <3> HIDE DEF j
      <3>5. JobsTypeOK' /\ InQueue' \subseteq InQueue
        BY <2>1, <3>1, <3>2, <3>3 DEF JobsInv, JobsTypeOK, InQueue
      <3>6. MonitorKnows'
        <4>1. job'[monitor.uid].plan = job[monitor.uid].plan \/ monitor.uid \notin Uids
          BY <1>1, <2>1, <3>2 DEF j, JobType
        <4> QED BY <2>1, <3>5, <4>1 DEF JobsInv, MonitorKnows
      <3>7. ASSUME NEW d \in JobCalls, jobCall'[d].pc = "inputs"
            PROVE  Hatching(d)'
        <4>1. d # c /\ Hatching(d) /\ jobCall'[d] = jobCall[d] /\ jobCall[d].uid # u /\ jobCall[d].uid \in Uids
          <5>1. d # c /\ jobCall'[d] = jobCall[d]
            BY <3>3, <3>4, <3>7
          <5>2. jobCall[d].pc = "inputs" /\ Hatching(d) /\ jobCall[d].uid \in 1 .. nbJobs
            BY <3>7, <5>1 DEF JobsInv
          <5>3. jobCall[d].uid \in Uids
            BY <1>1, <5>2 DEF Uids
          <5>4. jobCall[d].uid # u
            BY <2>1, <5>1, <5>2 DEF Hatching
          <5> QED BY <5>1, <5>2, <5>3, <5>4
        <4> QED BY <2>1, <3>2, <3>3, <3>4, <4>1 DEF Hatching
      <3>8. \A v \in Uids : JobWell(job'[v]) /\ (v > nbJobs => Unused(v)')
        BY <1>1, <2>1, <3>1, <3>2 DEF JobsInv, Unused
      <3> QED BY <1>1, <2>1, <3>3, <3>4, <3>5, <3>6, <3>7, <3>8 DEF JobsInv
    <2> QED BY <1>5, <2>2, <2>3 DEF JobInputs, CallEnds, CallGoes
  <1>6. CASE JobInfo(c)
    <2>1. /\ call.pc = "info" /\ job' = [job EXCEPT ![u] = WithInfo(job[u])]
          /\ jobCall' = [jobCall EXCEPT ![c] = [call EXCEPT !.seen = InfoStatus(job[u]), !.pc = "checked"]]
          /\ UNCHANGED <<timers, monitor, nbJobs, nbRestarts>>
      BY <1>6 DEF JobInfo, JobsInv, JobsTypeOK
    <2> DEFINE next == [call EXCEPT !.seen = InfoStatus(job[u]), !.pc = "checked"]
    <2>2. /\ WithInfo(job[u]) \in JobType /\ JobWell(WithInfo(job[u])) /\ InfoStatus(job[u]) \in JobStatuses
          /\ WithInfo(job[u]) = [job[u] EXCEPT !.saved = InfoStatus(job[u])]
      BY <1>1, <2>1, InfoIsStatus
    <2>3. next \in JobCallType /\ next.pc = "checked" /\ next.uid = u
      BY <1>1, <2>2 DEF JobCallType
    <2>4. WithInfo(job[u]).plan = job[u].plan /\ WithInfo(job[u]).process = job[u].process
      BY <1>1, <2>1, <2>2 DEF JobType
    <2> HIDE DEF next
    <2> QED BY <2>1, <2>2, <2>3, <2>4, CallAndJobKeep DEF next
  <1>7. CASE JobReset(c)
    <2>1. call.pc = "checked" /\ UNCHANGED <<timers, monitor, nbJobs, nbRestarts>>
      BY <1>7 DEF JobReset
    <2>2. CASE CallEnds(c) /\ UNCHANGED job
      BY <1>1, <2>1, <2>2, CallsKeep DEF CallEnds
    <2>3. CASE job' = [job EXCEPT ![u] = Replaced(job[u])] /\ CallGoes(c, "plan")
      <3>1. jobCall' = [jobCall EXCEPT ![c] = [call EXCEPT !.pc = "plan"]]
        BY <2>3 DEF CallGoes, JobsInv, JobsTypeOK
      <3>2. /\ Replaced(job[u]) \in JobType /\ JobWell(Replaced(job[u])) /\ Replaced(job[u]).process = "none"
            /\ Replaced(job[u]).plan = job[u].plan
        BY <1>1, <2>1, InfoIsStatus
      <3> DEFINE next == [call EXCEPT !.pc = "plan"]
      <3>3. next \in JobCallType /\ next.pc = "plan" /\ next.uid = u
        BY <1>3, <2>1
      <3> HIDE DEF next
      <3> QED BY <2>1, <2>3, <3>1, <3>2, <3>3, CallAndJobKeep DEF next
    <2> QED BY <1>7, <2>2, <2>3 DEF JobReset
  <1>8. CASE JobPlan(c)
    <2> DEFINE j == [job[u] EXCEPT !.plan = "immediately"]
    <2>1. /\ call.pc = "plan" /\ UNCHANGED <<timers, monitor, nbJobs, nbRestarts>>
          /\ job' = [job EXCEPT ![u] = j] /\ jobCall' = [jobCall EXCEPT ![c] = NoJobCall]
      BY <1>8 DEF JobPlan, CallEnds
    <2>2. j \in JobType /\ JobWell(j) /\ j.plan = "immediately" /\ j.process = job[u].process
      BY <1>1, <2>1 DEF JobType, JobWell, JobPlans
    <2> HIDE DEF j
    <2> QED BY <1>1, <2>1, <2>2, CallAndJobKeep
  <1>9. CASE JobKill(c)
    <2>1. call.pc = "checked" /\ UNCHANGED <<job, timers, monitor, nbJobs, nbRestarts>>
          /\ (CallEnds(c) \/ CallGoes(c, "killing") \/ CallGoes(c, "killed"))
      BY <1>9 DEF JobKill
    <2>2. CASE CallEnds(c)
      BY <1>1, <2>1, <2>2, CallsKeep DEF CallEnds
    <2>3. ASSUME NEW pc \in {"killing", "killed"}, CallGoes(c, pc)
          PROVE  JobsInv'
      <3>1. jobCall' = [jobCall EXCEPT ![c] = [call EXCEPT !.pc = pc]]
        BY <2>3 DEF CallGoes, JobsInv, JobsTypeOK
      <3> DEFINE next == [call EXCEPT !.pc = pc]
      <3>2. next \in JobCallType /\ next.pc = pc /\ next.uid = u
        BY <1>3, <2>1
      <3> HIDE DEF next
      <3> QED BY <1>1, <2>1, <3>1, <3>2, CallsKeep DEF next
    <2> QED BY <2>1, <2>2, <2>3
  <1>10. CASE JobKilled(c)
    <2> DEFINE j == [job[u] EXCEPT !.process = "exited", !.result = FALSE]
               next == [call EXCEPT !.pc = "killed"]
    <2>1. /\ call.pc = "killing" /\ UNCHANGED <<timers, monitor, nbJobs, nbRestarts>>
          /\ job' = [job EXCEPT ![u] = j] /\ jobCall' = [jobCall EXCEPT ![c] = next]
      BY <1>10 DEF JobKilled, CallGoes
    <2>2. j \in JobType /\ JobWell(j) /\ j.plan = job[u].plan /\ j.process = "exited"
      BY <1>1, <2>1 DEF JobType, JobWell
    <2>3. next \in JobCallType /\ next.pc = "killed" /\ next.uid = u
      BY <1>3, <2>1
    <2> HIDE DEF j, next
    <2> QED BY <2>1, <2>2, <2>3, CallAndJobKeep
  <1>11. CASE JobEnds(c)
    <2> DEFINE n == job[u].astray + IF job[u].process = "live" THEN 1 ELSE 0
               gone == [NoJob EXCEPT !.astray = n]
               j == IF call.op = "cancel" THEN WithInfo(job[u]) ELSE gone
    <2>1. /\ call.pc = "killed" /\ UNCHANGED <<timers, monitor, nbJobs, nbRestarts>>
          /\ job' = [job EXCEPT ![u] = j] /\ jobCall' = [jobCall EXCEPT ![c] = NoJobCall]
      BY <1>11 DEF JobEnds, CallEnds
    <2>2. n \in Nat
      BY <1>1, <2>1 DEF JobType
    <2> HIDE DEF n
    <2>3. gone \in JobType /\ JobWell(gone) /\ gone.plan = "none" /\ gone.process = "none"
      BY <2>2 DEF NoJob, JobType, JobWell, JobStatuses, JobPlans
    <2>4. /\ WithInfo(job[u]) \in JobType /\ JobWell(WithInfo(job[u]))
          /\ WithInfo(job[u]) = [job[u] EXCEPT !.saved = InfoStatus(job[u])]
      BY <1>1, <2>1, InfoIsStatus
    <2>5. WithInfo(job[u]).plan = job[u].plan /\ WithInfo(job[u]).process = job[u].process
      BY <1>1, <2>1, <2>4 DEF JobType
    <2> HIDE DEF gone
    <2>6. j \in JobType /\ JobWell(j) /\ (j.plan = "queue" => job[u].plan = "queue") /\ (j.process = "live" => job[u].process = "live")
      BY <2>3, <2>4, <2>5
    <2> HIDE DEF j
    <2> QED BY <1>1, <2>1, <2>6, CallAndJobKeep
  <1>12. ASSUME NEW v \in Uids, NEW op \in {"start", "cancel", "delete"}, JobRequest(c, v, op)
         PROVE  JobsInv'
    <2> DEFINE next == [op |-> op, pc |-> "info", uid |-> v, seen |-> "none"]
    <2>1. /\ jobCall' = [jobCall EXCEPT ![c] = next] /\ UNCHANGED <<job, timers, monitor, nbJobs, nbRestarts>>
          /\ job[v].executor # "none"
      BY <1>12 DEF JobRequest, Known
    <2>2. v \in 1 .. nbJobs
      BY <1>1, <1>12, <2>1 DEF JobsInv, Unused, NoJob, Uids
    <2>3. next \in JobCallType /\ next.pc = "info" /\ next.uid = v
      BY <1>12 DEF JobCallType, JobStatuses, Uids
    <2> HIDE DEF next
    <2> QED BY <2>1, <2>2, <2>3, CallsKeep
  <1> QED BY <1>4, <1>5, <1>6, <1>7, <1>8, <1>9, <1>10, <1>11, <1>12

\* Steps of the loop that leave the jobs alone.
LEMMA MonitorKeeps ==
  ASSUME JobsInv, monitor' \in MonitorType, MonitorKnows', UNCHANGED <<job, jobCall, timers, nbJobs, nbRestarts>>
  PROVE  JobsInv'
  <1>1. InQueue' = InQueue /\ JobsTypeOK'
    BY DEF JobsInv, JobsTypeOK, InQueue
  <1>2. \A d \in JobCalls : jobCall'[d].pc = "inputs" => Hatching(d)'
    BY DEF JobsInv, Hatching
  <1> QED BY <1>1, <1>2 DEF JobsInv, Unused

\* The steps of the scheduler.
LEMMA MonitorStep ==
  ASSUME JobsInv, MonitorStarts \/ MonitorInfo \/ MonitorPick \/ MonitorCheck \/ MonitorExecute
  PROVE  JobsInv'
  <1>1. /\ NoMonitor \in MonitorType /\ NoMonitor.pc = "idle"
        /\ MaxJobs \in Nat /\ nbJobs \in Nat /\ nbJobs <= MaxJobs /\ Uids \in SUBSET Nat
        /\ monitor \in MonitorType
    BY JobsAssumption DEF JobsInv, JobsTypeOK, NoMonitor, MonitorType, Uids
  <1>2. CASE monitor' = NoMonitor /\ UNCHANGED <<job, jobCall, timers, nbJobs, nbRestarts>>
    <2>1. MonitorKnows'
      BY <1>1, <1>2 DEF MonitorKnows
    <2> QED BY <1>1, <1>2, <2>1, MonitorKeeps
  <1>3. CASE MonitorStarts
    <2>1. /\ UNCHANGED <<job, jobCall, timers, nbJobs, nbRestarts>>
          /\ monitor' = [pc |-> "infos", todo |-> Known, statuses |-> [u \in Uids |-> "none"], uid |-> 0]
      BY <1>3 DEF MonitorStarts, NoMonitor
    <2>2. monitor' \in MonitorType
      BY <2>1 DEF MonitorType, Known, JobStatuses
    <2>3. InQueue \subseteq Known
      BY DEF InQueue, Known, JobsInv, JobWell
    <2>4. MonitorKnows'
      BY <2>1, <2>3 DEF MonitorKnows, InQueue, JobStatuses
    <2> QED BY <2>1, <2>2, <2>4, MonitorKeeps
  <1>4. CASE MonitorInfo
    <2> DEFINE u == Min(monitor.todo)
    <2>1. /\ monitor.pc = "infos" /\ u \in monitor.todo /\ u \in Uids
          /\ UNCHANGED <<jobCall, timers, nbJobs, nbRestarts>>
      BY <1>1, <1>4, LeastIsIn DEF MonitorInfo, MonitorType
    <2>2. /\ job' = [job EXCEPT ![u] = IF u \in Known THEN WithInfo(job[u]) ELSE job[u]]
          /\ monitor' = [monitor EXCEPT !.statuses[u] = InfoStatus(job[u]), !.todo = monitor.todo \ {u}]
      BY <1>4 DEF MonitorInfo
    <2> HIDE DEF u
    <2>3. /\ job[u] \in JobType /\ JobWell(job[u])
      BY <2>1 DEF JobsInv, JobsTypeOK
    <2>4. /\ WithInfo(job[u]) \in JobType /\ JobWell(WithInfo(job[u])) /\ InfoStatus(job[u]) \in JobStatuses
          /\ WithInfo(job[u]) = [job[u] EXCEPT !.saved = InfoStatus(job[u])]
      BY <2>3, InfoIsStatus
    <2>5. /\ WithInfo(job[u]).plan = job[u].plan /\ WithInfo(job[u]).process = job[u].process
          /\ WithInfo(job[u]).executor = job[u].executor
      BY <2>3, <2>4 DEF JobType
    <2> DEFINE j == IF u \in Known THEN WithInfo(job[u]) ELSE job[u]
    <2>6. j \in JobType /\ JobWell(j) /\ j.plan = job[u].plan /\ j.process = job[u].process /\ j.executor = job[u].executor
      BY <2>3, <2>4, <2>5
    <2>7. /\ monitor.statuses \in [Uids -> JobStatuses]
          /\ monitor'.statuses = [monitor.statuses EXCEPT ![u] = InfoStatus(job[u])]
          /\ monitor'.pc = "infos" /\ monitor'.todo = monitor.todo \ {u} /\ monitor'.uid = monitor.uid
          /\ monitor' \in MonitorType
      <3>1. monitor.statuses \in [Uids -> JobStatuses]
        BY <2>1 DEF JobsInv, MonitorKnows
      <3>2. [monitor.statuses EXCEPT ![u] = InfoStatus(job[u])] \in [Uids -> JobStatuses]
        BY <2>4, <3>1
      <3> QED BY <1>1, <2>1, <2>2, <3>1, <3>2 DEF MonitorType
    <2>8. Known = {v \in Uids : job[v].executor # "none"}
      BY DEF Known
    <2>9. u \in Known => /\ u \in 1 .. nbJobs
                         /\ \A c \in JobCalls : jobCall[c].pc = "inputs" => jobCall[c].uid # u
      BY <1>1, <2>1, <2>8 DEF JobsInv, Unused, NoJob, Uids, Hatching
    <2> HIDE DEF j
    <2>10. job' = [job EXCEPT ![u] = j] /\ (u \notin Known => j = job[u])
      BY <2>2 DEF j
    <2>11. /\ job' \in [Uids -> JobType] /\ job'[u] = j
           /\ \A v \in Uids : v # u => job'[v] = job[v]
      BY <2>1, <2>6, <2>10 DEF JobsInv, JobsTypeOK
    <2>12. \A v \in Uids : job'[v].plan = job[v].plan /\ job'[v].process = job[v].process /\ job'[v].executor = job[v].executor
      BY <2>6, <2>11
    <2>13. JobsTypeOK' /\ InQueue' = InQueue
      BY <2>1, <2>7, <2>11, <2>12 DEF JobsInv, JobsTypeOK, InQueue
    <2>14. u \in InQueue => InfoStatus(job[u]) = "running"
      BY <2>1, <2>3 DEF InQueue, JobWell, InfoStatus
    <2>15. MonitorKnows'
      <3>1. ASSUME NEW v \in InQueue'
            PROVE  v \in monitor'.todo \/ monitor'.statuses[v] = "running"
        <4>1. v \in InQueue /\ v \in Uids /\ (v \in monitor.todo \/ monitor.statuses[v] = "running")
          BY <2>1, <2>13, <3>1 DEF JobsInv, MonitorKnows, InQueue
        <4>2. CASE v = u
          BY <2>1, <2>7, <2>14, <4>1, <4>2
        <4>3. CASE v # u
          BY <2>7, <4>1, <4>3
        <4> QED BY <4>2, <4>3
      <3>2. monitor'.statuses \in [Uids -> JobStatuses] /\ monitor'.pc = "infos"
        BY <2>4, <2>7
      <3> QED BY <3>1, <3>2 DEF MonitorKnows
    <2>16. ASSUME NEW d \in JobCalls, jobCall'[d].pc = "inputs"
           PROVE  Hatching(d)'
      <3>1. jobCall[d].pc = "inputs" /\ jobCall'[d] = jobCall[d] /\ jobCall[d].uid \in Uids
        BY <1>1, <2>1, <2>16 DEF JobsInv, Uids
      <3> QED BY <2>1, <2>12, <3>1 DEF JobsInv, Hatching
    <2>17. \A v \in Uids : JobWell(job'[v]) /\ (v > nbJobs => Unused(v)')
      BY <1>1, <2>1, <2>6, <2>9, <2>10, <2>11 DEF JobsInv, Unused, Uids
    <2> QED BY <2>1, <2>13, <2>15, <2>16, <2>17 DEF JobsInv
  <1>5. CASE MonitorPick
    <2> DEFINE next == NextReady(monitor.uid + 1)
    <2>1. /\ monitor.pc = "infos" /\ monitor.todo = {} /\ UNCHANGED <<job, jobCall, timers, nbJobs, nbRestarts>>
          /\ monitor' = IF next = {} THEN NoMonitor ELSE [monitor EXCEPT !.uid = Min(next), !.pc = "getInfo"]
      BY <1>5 DEF MonitorPick
    <2>2. CASE next # {}
      <3>1. Min(next) \in next /\ Min(next) \in Uids /\ Ready(Min(next), monitor.uid + 1)
        <4>1. next \in SUBSET Nat
          BY <1>1 DEF NextReady
        <4>2. Min(next) \in next
          BY <2>2, <4>1, LeastIsIn
        <4> QED BY <4>2 DEF NextReady
      <3> DEFINE u == Min(next)
      <3>2. monitor' = [monitor EXCEPT !.uid = u, !.pc = "getInfo"]
        BY <2>1, <2>2
      <3> HIDE DEF u, next
      <3>3. /\ u \in Uids /\ u \in Nat
            /\ job[u].plan = "queue" => \A v \in Uids : monitor.statuses[v] # "running"
        BY <1>1, <3>1 DEF Ready, u
      <3>4. /\ monitor' \in MonitorType /\ monitor'.pc = "getInfo" /\ monitor'.uid = u
            /\ monitor'.todo = monitor.todo /\ monitor'.statuses = monitor.statuses
        BY <1>1, <3>2, <3>3 DEF MonitorType
      <3>5. MonitorKnows'
        BY <2>1, <3>3, <3>4 DEF JobsInv, MonitorKnows, InQueue
      <3> QED BY <2>1, <3>4, <3>5, MonitorKeeps
    <2> QED BY <1>2, <2>1, <2>2
  <1>6. CASE MonitorCheck
    <2>1. UNCHANGED <<job, jobCall, timers, nbJobs, nbRestarts>> /\ monitor.pc = "getInfo"
          /\ (monitor' = NoMonitor \/ monitor' = [monitor EXCEPT !.pc = "execute"])
      BY <1>6 DEF MonitorCheck
    <2>2. CASE monitor' = [monitor EXCEPT !.pc = "execute"]
      <3>1. /\ monitor' \in MonitorType /\ monitor'.pc = "execute" /\ monitor'.uid = monitor.uid
            /\ monitor'.todo = monitor.todo /\ monitor'.statuses = monitor.statuses
        BY <1>1, <2>2 DEF MonitorType
      <3>2. MonitorKnows'
        BY <2>1, <3>1 DEF JobsInv, MonitorKnows, InQueue
      <3> QED BY <2>1, <3>1, <3>2, MonitorKeeps
    <2> QED BY <1>2, <2>1, <2>2
  <1>7. CASE MonitorExecute
    <2> DEFINE u == monitor.uid
    <2>1. monitor.pc = "execute" /\ UNCHANGED <<jobCall, timers, nbJobs, nbRestarts>>
      BY <1>7 DEF MonitorExecute
    <2>2. CASE job[u].executor # "shell"
      BY <1>2, <1>7, <2>1, <2>2 DEF MonitorExecute
    <2>3. CASE job[u].executor = "shell"
      <3>1. /\ u \in Uids /\ monitor.todo = {} /\ monitor.statuses \in [Uids -> JobStatuses]
            /\ job[u].plan = "queue" => \A v \in Uids : monitor.statuses[v] # "running"
            /\ \A v \in InQueue : monitor.statuses[v] = "running"
        BY <2>1 DEF JobsInv, MonitorKnows
      <3> DEFINE n == job[u].astray + IF job[u].process = "live" THEN 1 ELSE 0
                 j == [job[u] EXCEPT !.status = "running", !.process = "live", !.result = TRUE, !.astray = n]
      <3>2. job' = [job EXCEPT ![u] = j] /\ monitor' = Started(monitor)
        BY <1>7, <2>3, <3>1 DEF MonitorExecute, JobsInv, JobsTypeOK, JobType
      <3>3. job[u] \in JobType /\ n \in Nat
        BY <3>1 DEF JobsInv, JobsTypeOK, JobType
      <3> HIDE DEF n
      <3>4. j \in JobType /\ JobWell(j) /\ j.plan = job[u].plan
        BY <2>3, <3>3 DEF JobType, JobWell, JobStatuses
      <3>5. u \in 1 .. nbJobs /\ \A c \in JobCalls : jobCall[c].pc = "inputs" => jobCall[c].uid # u
        BY <1>1, <2>3, <3>1 DEF JobsInv, Unused, NoJob, Uids, Hatching
      <3>6. /\ monitor'.statuses = [monitor.statuses EXCEPT ![u] = "running"] /\ monitor'.pc = "infos"
            /\ monitor'.todo = {} /\ monitor'.uid = u /\ monitor' \in MonitorType
            /\ monitor'.statuses \in [Uids -> JobStatuses]
        <4>1. [monitor.statuses EXCEPT ![u] = "running"] \in [Uids -> JobStatuses]
          BY <3>1 DEF JobStatuses
        <4> QED BY <1>1, <3>1, <3>2, <4>1 DEF Started, MonitorType
      <3> HIDE DEF j
      <3>7. /\ job' \in [Uids -> JobType] /\ job'[u] = j
            /\ \A v \in Uids : v # u => job'[v] = job[v]
        BY <3>1, <3>2, <3>4 DEF JobsInv, JobsTypeOK
      <3> HIDE DEF u
      <3>8. JobsTypeOK' /\ InQueue' \subseteq InQueue \cup {u} /\ (u \in InQueue' => job[u].plan = "queue")
        BY <2>1, <3>4, <3>6, <3>7 DEF JobsInv, JobsTypeOK, InQueue
      <3>9. job[u].plan = "queue" => InQueue = {}
        BY <3>1 DEF InQueue
      <3>10. MonitorKnows'
        BY <3>1, <3>6, <3>8 DEF MonitorKnows
      <3>11. \A v, w \in InQueue' : v = w
        BY <3>8, <3>9 DEF JobsInv
      <3>12. ASSUME NEW d \in JobCalls, jobCall'[d].pc = "inputs"
             PROVE  Hatching(d)'
        <4>1. jobCall[d].pc = "inputs" /\ jobCall'[d] = jobCall[d] /\ jobCall[d].uid \in Uids /\ jobCall[d].uid # u
          BY <1>1, <2>1, <3>5, <3>12 DEF JobsInv, Uids
        <4> QED BY <2>1, <3>7, <4>1 DEF JobsInv, Hatching
      <3>13. \A v \in Uids : JobWell(job'[v]) /\ (v > nbJobs => Unused(v)')
        BY <1>1, <2>1, <3>4, <3>5, <3>7 DEF JobsInv, Unused, Uids
      <3> QED BY <2>1, <3>8, <3>10, <3>11, <3>12, <3>13 DEF JobsInv
    <2> QED BY <2>2, <2>3
  <1> QED BY <1>3, <1>4, <1>5, <1>6, <1>7

\* The steps of a process and of reschedule().
LEMMA ProcessStep ==
  ASSUME JobsInv, NEW u \in Uids, ProcessExit(u) \/ ProcessClose(u) \/ Rescheduled(u)
  PROVE  JobsInv'
  <1>1. /\ job[u] \in JobType /\ JobWell(job[u])
        /\ MaxJobs \in Nat /\ nbJobs \in Nat /\ nbJobs <= MaxJobs
    BY JobsAssumption DEF JobsInv, JobsTypeOK
  <1>2. job[u] # NoJob => u \in 1 .. nbJobs
    BY <1>1 DEF JobsInv, Unused, Uids
  <1>3. ASSUME NEW c \in JobCalls, jobCall[c].pc = "inputs", job[u].process # "none" \/ u \in timers
        PROVE  jobCall[c].uid # u
    BY <1>3 DEF JobsInv, Hatching
  <1>4. CASE ProcessExit(u)
    <2> DEFINE j == [job[u] EXCEPT !.process = "exited"]
    <2>1. /\ job' = [job EXCEPT ![u] = j] /\ UNCHANGED <<jobCall, timers, monitor, nbJobs, nbRestarts>>
          /\ job[u].process = "live"
      BY <1>4 DEF ProcessExit
    <2>2. j \in JobType /\ JobWell(j) /\ j.plan = job[u].plan /\ j.process = "exited"
      BY <1>1 DEF JobType, JobWell
    <2>3. u \in 1 .. nbJobs
      BY <1>2, <2>1 DEF NoJob
    <2> HIDE DEF j
    <2> QED BY <1>3, <2>1, <2>2, <2>3, JobKeeps
  <1>5. CASE ProcessClose(u)
    <2>1. PICK s \in {"completed", "failed", "cancelled"} :
            job' = [job EXCEPT ![u].process = "none", ![u].status = s]
      BY <1>5 DEF ProcessClose
    <2> DEFINE j == [job[u] EXCEPT !.process = "none", !.status = s]
    <2>2. /\ job' = [job EXCEPT ![u] = j] /\ UNCHANGED <<jobCall, monitor, nbJobs, nbRestarts>>
          /\ job[u].process = "exited" /\ timers' \in {timers, timers \cup {u}}
      BY <1>5, <2>1 DEF ProcessClose
    <2>3. j \in JobType /\ JobWell(j) /\ j.plan = job[u].plan /\ j.process = "none"
      BY <1>1 DEF JobType, JobWell, JobStatuses
    <2>4. u \in 1 .. nbJobs
      BY <1>2, <2>2 DEF NoJob
    <2> HIDE DEF j
    <2>5. /\ job' \in [Uids -> JobType] /\ job'[u] = j
          /\ \A v \in Uids : v # u => job'[v] = job[v]
      BY <2>2, <2>3 DEF JobsInv, JobsTypeOK
    <2>6. JobsTypeOK' /\ InQueue' \subseteq InQueue
      BY <2>2, <2>3, <2>5 DEF JobsInv, JobsTypeOK, InQueue
    <2>7. MonitorKnows'
      BY <2>2, <2>3, <2>5, <2>6 DEF JobsInv, MonitorKnows
    <2>8. ASSUME NEW d \in JobCalls, jobCall'[d].pc = "inputs"
          PROVE  Hatching(d)'
      <3>1. jobCall[d].pc = "inputs" /\ jobCall'[d] = jobCall[d] /\ jobCall[d].uid \in Uids /\ jobCall[d].uid # u
        BY <1>1, <1>3, <2>2, <2>8 DEF JobsInv, Uids
      <3> QED BY <2>2, <2>5, <3>1 DEF JobsInv, Hatching
    <2>9. \A v \in Uids : JobWell(job'[v]) /\ (v > nbJobs => Unused(v)')
      BY <1>1, <2>2, <2>3, <2>4, <2>5 DEF JobsInv, Unused, Uids
    <2> QED BY <2>2, <2>6, <2>7, <2>8, <2>9 DEF JobsInv
  <1>6. CASE Rescheduled(u)
    <2> DEFINE j == IF job[u].context /\ InfoStatus(job[u]) # "running" THEN Replaced(WithInfo(job[u])) ELSE job[u]
    <2>1. /\ job' = [job EXCEPT ![u] = j] /\ UNCHANGED <<jobCall, monitor, nbJobs, nbRestarts>>
          /\ u \in timers /\ timers' = timers \ {u}
      BY <1>6 DEF Rescheduled
    <2>2. /\ WithInfo(job[u]) \in JobType /\ WithInfo(job[u]) = [job[u] EXCEPT !.saved = InfoStatus(job[u])]
      BY <1>1, InfoIsStatus
    <2>3. /\ Replaced(WithInfo(job[u])) \in JobType /\ JobWell(Replaced(WithInfo(job[u])))
          /\ Replaced(WithInfo(job[u])).process = "none"
          /\ Replaced(WithInfo(job[u])).plan = WithInfo(job[u]).plan
      BY <2>2, InfoIsStatus
    <2>4. WithInfo(job[u]).plan = job[u].plan
      BY <1>1, <2>2 DEF JobType
    <2>5. j \in JobType /\ JobWell(j) /\ j.plan = job[u].plan /\ (j.process = "live" => job[u].process = "live")
      BY <1>1, <2>3, <2>4
    <2>6. u \in 1 .. nbJobs
      BY <1>1, <2>1 DEF JobsInv, Unused, Uids
    <2> HIDE DEF j
    <2>7. /\ job' \in [Uids -> JobType] /\ job'[u] = j
          /\ \A v \in Uids : v # u => job'[v] = job[v]
      BY <2>1, <2>5 DEF JobsInv, JobsTypeOK
    <2>8. JobsTypeOK' /\ InQueue' \subseteq InQueue
      BY <2>1, <2>5, <2>7 DEF JobsInv, JobsTypeOK, InQueue
    <2>9. MonitorKnows'
      BY <2>1, <2>5, <2>7, <2>8 DEF JobsInv, MonitorKnows
    <2>10. ASSUME NEW d \in JobCalls, jobCall'[d].pc = "inputs"
           PROVE  Hatching(d)'
      <3>1. jobCall[d].pc = "inputs" /\ jobCall'[d] = jobCall[d] /\ jobCall[d].uid \in Uids /\ jobCall[d].uid # u
        BY <1>1, <1>3, <2>1, <2>10 DEF JobsInv, Uids
      <3> QED BY <2>1, <2>7, <3>1 DEF JobsInv, Hatching
    <2>11. \A v \in Uids : JobWell(job'[v]) /\ (v > nbJobs => Unused(v)')
      BY <1>1, <2>1, <2>5, <2>6, <2>7 DEF JobsInv, Unused, Uids
    <2> QED BY <2>1, <2>8, <2>9, <2>10, <2>11 DEF JobsInv
  <1> QED BY <1>4, <1>5, <1>6

\* The restart.
LEMMA RestartStep ==
  ASSUME JobsInv, AppRestart
  PROVE  JobsInv'
  <1> DEFINE plans == Instances[nbRestarts + 1]
             kept(u) == IF ~job[u].context THEN NoJob
                        ELSE [NoJob EXCEPT !.context = TRUE, !.executor = "readonly",
                                           !.plan = job[u].plan, !.saved = job[u].saved]
             former == [u \in Uids |-> kept(u)]
             new(p) == [context |-> TRUE, executor |-> "shell", status |-> "idle", process |-> "none", result |-> FALSE,
                        plan |-> p, saved |-> "none", astray |-> 0]
  <1>1. /\ nbRestarts' = nbRestarts + 1 /\ nbRestarts' \in 0 .. MaxJobRestarts
        /\ plans \in Seq({"queue", "immediately", "always"}) /\ Len(plans) \in Nat
        /\ MaxJobs \in Nat /\ nbJobs \in Nat /\ nbJobs' = nbJobs + Len(plans) /\ nbJobs' \in 0 .. MaxJobs
    <2>1. /\ nbRestarts \in 0 .. MaxJobRestarts /\ nbRestarts < MaxJobRestarts /\ MaxJobRestarts \in Nat
          /\ nbRestarts' = nbRestarts + 1
      BY JobsAssumption DEF AppRestart, JobsInv, JobsTypeOK
    <2>2. plans \in Seq({"queue", "immediately", "always"})
      BY <2>1, JobsAssumption
    <2>3. nbJobs' = nbJobs + Len(plans) /\ nbJobs + Len(plans) <= MaxJobs
      BY DEF AppRestart
    <2>4. MaxJobs \in Nat /\ nbJobs \in Nat
      BY JobsAssumption DEF JobsInv, JobsTypeOK
    <2> HIDE DEF plans
    <2> QED BY <2>1, <2>2, <2>3, <2>4
  <1>2. job' = WithInstances(former, nbJobs, plans)
    BY DEF AppRestart
  <1>3. ASSUME NEW u \in Uids
        PROVE  job'[u] \in JobType /\ JobWell(job'[u]) /\ job'[u].process = "none" /\ (u > nbJobs' => job'[u] = NoJob)
    <2> HIDE DEF plans
    <2>1. job'[u] = IF u - nbJobs \in DOMAIN plans
                    THEN [NoJob EXCEPT !.context = TRUE, !.executor = "shell", !.plan = plans[u - nbJobs]]
                    ELSE kept(u)
      BY <1>2, <1>3 DEF WithInstances
    <2>2. u \in Nat /\ DOMAIN plans = 1 .. Len(plans)
      BY <1>1, <1>3 DEF Uids
    <2>3. CASE u - nbJobs \in DOMAIN plans
      <3>1. plans[u - nbJobs] \in JobPlans
        BY <1>1, <2>3 DEF JobPlans
      <3>2. u <= nbJobs'
        BY <1>1, <2>2, <2>3
      <3>3. job'[u] = new(plans[u - nbJobs])
        BY <2>1, <2>3 DEF NoJob
      <3> QED BY <1>1, <2>2, <3>1, <3>2, <3>3 DEF JobType, JobWell, JobStatuses
    <2>4. CASE u - nbJobs \notin DOMAIN plans
      <3>1. job'[u] = kept(u) /\ job[u] \in JobType
        BY <2>1, <2>4 DEF JobsInv, JobsTypeOK
      <3>2. kept(u) \in JobType /\ JobWell(kept(u)) /\ kept(u).process = "none"
        BY <3>1 DEF NoJob, JobType, JobWell, JobStatuses, JobPlans
      <3>3. u > nbJobs' => job[u] = NoJob
        BY <1>1, <2>2 DEF JobsInv, Unused
      <3>4. u > nbJobs' => kept(u) = NoJob
        BY <3>3 DEF NoJob
      <3> HIDE DEF kept
      <3> QED BY <3>1, <3>2, <3>4
    <2> QED BY <2>3, <2>4
  <1>4. job' \in [Uids -> JobType]
    <2>1. job' = [u \in Uids |-> job'[u]]
      BY <1>2 DEF WithInstances
    <2> QED BY <1>3, <2>1
  <1>5. jobCall' = [c \in JobCalls |-> NoJobCall] /\ monitor' = NoMonitor /\ timers' = {}
    BY DEF AppRestart
  <1> HIDE DEF plans, former, kept, new
  <1>6. JobsTypeOK'
    BY <1>1, <1>4, <1>5 DEF JobsTypeOK, NoJobCall, JobCallType, NoMonitor, MonitorType, JobStatuses
  <1>7. InQueue' = {} /\ MonitorKnows'
    BY <1>3, <1>5 DEF InQueue, MonitorKnows, NoMonitor
  <1> QED BY <1>3, <1>5, <1>6, <1>7 DEF JobsInv, Unused, NoJobCall

\* What the invariant says of the jobs.
LEMMA JobsInvIsSafe == JobsInv => JobsSafe
  <1> SUFFICES ASSUME JobsInv PROVE QueueAlone /\ RunningIsTrue
    BY DEF JobsSafe
  <1>1. QueueAlone
    BY AtMostOne DEF QueueAlone, JobsInv
  <1>2. RunningIsTrue
    BY DEF RunningIsTrue, Known, JobsInv, JobsTypeOK, JobType, JobWell, InfoStatus
  <1> QED BY <1>1, <1>2

\* The jobs of the queue run one at a time, however the calls of the API, the ends of processes and the timers come between
\* the steps of the scheduler; and what is said to run has a process.
THEOREM JobsAreSafe == JobsSpec => []JobsSafe
  <1>1. JobsInit => JobsInv
    BY JobsBegin
  <1>2. JobsInv /\ [JobsNext]_jobsVars => JobsInv'
    <2> SUFFICES ASSUME JobsInv, [JobsNext]_jobsVars PROVE JobsInv'
      OBVIOUS
    <2>1. CASE UNCHANGED jobsVars
      BY <2>1 DEF jobsVars, JobsInv, JobsTypeOK, Unused, Hatching, MonitorKnows, InQueue
    <2>2. CASE JobsNext
      BY <2>2, CallStep, MonitorStep, ProcessStep, RestartStep DEF JobsNext
    <2> QED BY <2>1, <2>2
  <1> QED BY <1>1, <1>2, JobsInvIsSafe, PTL DEF JobsSpec

-----------------------------------------------------------------------------
(* Payments.                                                                *)

PaymentsSpec == PaymentsInit /\ [][PaymentsNext]_paymentsVars

PayPcs == {"idle", "stripe", "user", "create", "set", "welcome", "register", "confirm"}
PaymentsTypeOK ==
  /\ payer \in [exists : BOOLEAN, payments : SUBSET PaymentIds, granted : Nat]
  /\ payWorker \in [PayWorkers -> [pc : PayPcs, pay : PaymentIds \cup {"none"}]]
  /\ sync \in [on : BOOLEAN, todo : SUBSET PaymentIds, listed : SUBSET PaymentIds, failed : BOOLEAN]
  /\ \A w \in PayWorkers : ~PayAt(w, "idle") => payWorker[w].pay \in PaymentIds
  /\ paid \in SUBSET PaymentIds
  /\ createdTwice \in BOOLEAN

\* What a payment grants is counted in the update that registers it.
Granted ==
  /\ IsFiniteSet(payer.payments) /\ payer.granted = Cardinality(payer.payments)
  /\ ~payer.exists => payer.payments = {} /\ \A w \in PayWorkers : ~PayAt(w, "register")

\* What is confirmed, processed or was synced is registered; what a sync without an error has listed is
\* registered, still to be looked at, or looked at now.
PaySettled ==
  /\ processed \subseteq payer.payments
  /\ synced \subseteq payer.payments
  /\ \A w \in PayWorkers : PayAt(w, "confirm") => payWorker[w].pay \in payer.payments
  /\ sync.on /\ ~sync.failed =>
       \A p \in sync.listed : \/ p \in sync.todo \/ p \in payer.payments
                              \/ ~PayAt("sync", "idle") /\ payWorker["sync"].pay = p

PaymentsInv == PaymentsTypeOK /\ Granted /\ (PaySettled \/ createdTwice)

\* A worker that goes on, with a user and a list of processed payments as they were.
LEMMA WorkerGoes ==
  ASSUME PaymentsInv, NEW w \in PayWorkers, NEW pc \in PayPcs, PayGo(w, pc), ~PayAt(w, "idle"),
         pc = "confirm" => payWorker[w].pay \in payer.payments,
         pc = "register" => payer.exists,
         pc = "idle" => sync'.failed \/ w # "sync",
         sync' = sync \/ sync' = [sync EXCEPT !.failed = TRUE],
         UNCHANGED <<paid, payer, processed, synced, createdTwice>>
  PROVE  PaymentsInv'
  <1>1. /\ payWorker'[w] = [payWorker[w] EXCEPT !.pc = pc] /\ payWorker[w] \in [pc : PayPcs, pay : PaymentIds \cup {"none"}]
        /\ \A v \in PayWorkers : v # w => payWorker'[v] = payWorker[v]
    BY DEF PayGo, PaymentsInv, PaymentsTypeOK
  <1>2. payWorker'[w].pc = pc /\ payWorker'[w].pay = payWorker[w].pay
    BY <1>1
  <1>3. /\ sync'.on = sync.on /\ sync'.listed = sync.listed /\ sync'.todo = sync.todo
        /\ sync' \in [on : BOOLEAN, todo : SUBSET PaymentIds, listed : SUBSET PaymentIds, failed : BOOLEAN]
        /\ sync'.failed = sync.failed \/ sync'.failed
    BY DEF PaymentsInv, PaymentsTypeOK
  <1>4. PaymentsTypeOK'
    <2>1. payWorker' \in [PayWorkers -> [pc : PayPcs, pay : PaymentIds \cup {"none"}]]
      BY DEF PayGo, PaymentsInv, PaymentsTypeOK
    <2> QED BY <1>1, <1>2, <1>3, <2>1 DEF PaymentsInv, PaymentsTypeOK, PayAt
  <1>5. Granted'
    BY <1>1, <1>2 DEF PaymentsInv, Granted, PayAt
  <1>6. ASSUME PaySettled PROVE PaySettled'
    BY <1>1, <1>2, <1>3, <1>6 DEF PaySettled, PayAt, PayWorkers
  <1> QED BY <1>4, <1>5, <1>6 DEF PaymentsInv

\* Somebody is done with a payment because of an error.
LEMMA ErrorKeeps ==
  ASSUME PaymentsInv, NEW w \in PayWorkers, PayFails(w), ~PayAt(w, "idle"),
         UNCHANGED <<paid, payer, synced, createdTwice>>
  PROVE  PaymentsInv'
  <1>1. /\ PayGo(w, "idle") /\ processed' = processed
        /\ sync' = IF w = "sync" THEN [sync EXCEPT !.failed = TRUE] ELSE sync
    BY DEF PayFails, ErrorKept, ProcessedAfterError
  <1>2. w = "sync" => sync'.failed
    BY <1>1 DEF PaymentsInv, PaymentsTypeOK
  <1> QED BY <1>1, <1>2, WorkerGoes DEF PayPcs

\* The steps of a worker.
LEMMA WorkerStep ==
  ASSUME PaymentsInv, NEW w \in PayWorkers,
         \/ StripeAnswers(w) \/ StripeFails(w) \/ ReadUser(w) \/ PayerCreateReads(w)
         \/ CreateWrites(w) \/ Welcome(w) \/ MailFails(w) \/ Register(w) \/ Confirm(w)
  PROVE  PaymentsInv'
  <1>1. /\ AfterUser(w) \in PayPcs \ {"idle"} /\ (AfterUser(w) = "confirm" => payWorker[w].pay \in payer.payments)
        /\ AfterUser(w) = "register" => payer.exists
    BY DEF AfterUser, PayPcs
  <1>2. CASE StripeAnswers(w)
    BY <1>2, WorkerGoes DEF StripeAnswers, PayAt, PayPcs
  <1>3. CASE StripeFails(w)
    BY <1>3, ErrorKeeps DEF StripeFails, PayAt
  <1>4. CASE ReadUser(w)
    BY <1>1, <1>4, WorkerGoes DEF ReadUser, PayAt
  <1>5. CASE PayerCreateReads(w)
    BY <1>5, WorkerGoes, ErrorKeeps DEF PayerCreateReads, PayAt, PayPcs
  <1>6. CASE CreateWrites(w)
    <2>1. /\ payer' = [exists |-> TRUE, payments |-> {}, granted |-> 0]
          /\ createdTwice' = (createdTwice \/ payer.exists)
          /\ PayAt(w, "set") /\ payWorker' = [payWorker EXCEPT ![w].pc = "welcome"]
          /\ UNCHANGED <<paid, processed, sync, synced>>
      BY <1>6 DEF CreateWrites, NewPayer, PayGo
    <2>2. /\ payWorker'[w].pc = "welcome" /\ payWorker'[w].pay = payWorker[w].pay
          /\ \A v \in PayWorkers : v # w => payWorker'[v] = payWorker[v]
          /\ payWorker' \in [PayWorkers -> [pc : PayPcs, pay : PaymentIds \cup {"none"}]]
      BY <2>1 DEF PaymentsInv, PaymentsTypeOK, PayPcs
    <2>3. PaymentsTypeOK'
      BY <2>1, <2>2 DEF PaymentsInv, PaymentsTypeOK, PayAt
    <2>4. Granted'
      BY <2>1, FS_EmptySet DEF Granted
    <2>5. ASSUME PaySettled, ~payer.exists PROVE PaySettled'
      <3>1. payer.payments = {} /\ payer'.payments = {}
        BY <2>1, <2>5 DEF PaymentsInv, Granted
      <3>2. /\ processed' = {} /\ synced' = {} /\ \A v \in PayWorkers : ~PayAt(v, "confirm")'
        BY <2>1, <2>2, <2>5, <3>1 DEF PaySettled, PayAt
      <3> QED BY <2>1, <2>2, <2>5, <3>1, <3>2 DEF PaySettled, PayAt, PayWorkers
    <2> QED BY <2>1, <2>3, <2>4, <2>5 DEF PaymentsInv, PaymentsTypeOK
  <1>7. CASE Welcome(w)
    BY <1>1, <1>7, WorkerGoes DEF Welcome, PayAt
  <1>8. CASE MailFails(w)
    BY <1>8, ErrorKeeps DEF MailFails, PayAt
  <1>9. CASE Register(w)
    <2> DEFINE p == payWorker[w].pay
    <2>1. CASE ~MayRegister(p)
      BY <1>9, <2>1, ErrorKeeps DEF Register, PayAt
    <2>2. CASE MayRegister(p)
      <3>1. /\ payer' = [payer EXCEPT !.payments = payer.payments \cup {p}, !.granted = payer.granted + 1]
            /\ PayAt(w, "register") /\ payWorker' = [payWorker EXCEPT ![w].pc = "confirm"]
            /\ UNCHANGED <<paid, processed, sync, synced, createdTwice>> /\ p \notin payer.payments
        BY <1>9, <2>2 DEF Register, PayGo, MayRegister
      <3>2. /\ payWorker'[w].pc = "confirm" /\ payWorker'[w].pay = p
            /\ \A v \in PayWorkers : v # w => payWorker'[v] = payWorker[v]
            /\ payWorker' \in [PayWorkers -> [pc : PayPcs, pay : PaymentIds \cup {"none"}]]
        BY <3>1 DEF PaymentsInv, PaymentsTypeOK, PayPcs
      <3>3. /\ payer'.payments = payer.payments \cup {p} /\ payer'.granted = payer.granted + 1
            /\ payer'.exists = payer.exists
        BY <3>1 DEF PaymentsInv, PaymentsTypeOK
      <3>4. p \in PaymentIds /\ payer.exists
        BY <3>1 DEF PaymentsInv, PaymentsTypeOK, Granted, PayAt
      <3>5. payer' \in [exists : BOOLEAN, payments : SUBSET PaymentIds, granted : Nat]
        <4>1. payer.payments \cup {p} \in SUBSET PaymentIds /\ payer.granted + 1 \in Nat
          BY <3>4 DEF PaymentsInv, PaymentsTypeOK
        <4> QED BY <3>1, <4>1 DEF PaymentsInv, PaymentsTypeOK
      <3>6. PaymentsTypeOK'
        BY <3>1, <3>2, <3>4, <3>5 DEF PaymentsInv, PaymentsTypeOK, PayAt
      <3>7. IsFiniteSet(payer'.payments) /\ Cardinality(payer'.payments) = Cardinality(payer.payments) + 1
        BY <3>1, <3>3, FS_AddElement DEF PaymentsInv, Granted
      <3>8. Granted'
        BY <3>3, <3>4, <3>7 DEF PaymentsInv, Granted
      <3>9. ASSUME PaySettled PROVE PaySettled'
        BY <3>1, <3>2, <3>3, <3>9 DEF PaySettled, PayAt, PayWorkers
      <3> QED BY <3>1, <3>6, <3>8, <3>9 DEF PaymentsInv
    <2> QED BY <2>1, <2>2
  <1>10. CASE Confirm(w)
    <2>1. /\ PayAt(w, "confirm") /\ payWorker' = [payWorker EXCEPT ![w].pc = "idle"]
          /\ processed' = processed \cup {payWorker[w].pay}
          /\ UNCHANGED <<paid, payer, sync, synced, createdTwice>>
      BY <1>10 DEF Confirm, PayGo
    <2>2. /\ payWorker'[w].pc = "idle" /\ payWorker'[w].pay = payWorker[w].pay
          /\ \A v \in PayWorkers : v # w => payWorker'[v] = payWorker[v]
          /\ payWorker' \in [PayWorkers -> [pc : PayPcs, pay : PaymentIds \cup {"none"}]]
      BY <2>1 DEF PaymentsInv, PaymentsTypeOK, PayPcs
    <2>3. PaymentsTypeOK' /\ Granted'
      BY <2>1, <2>2 DEF PaymentsInv, PaymentsTypeOK, Granted, PayAt
    <2>4. ASSUME PaySettled PROVE PaySettled'
      BY <2>1, <2>2, <2>4 DEF PaySettled, PayAt, PayWorkers
    <2> QED BY <2>1, <2>3, <2>4 DEF PaymentsInv
  <1> QED BY <1>2, <1>3, <1>4, <1>5, <1>6, <1>7, <1>8, <1>9, <1>10

\* Steps that give a worker a payment to look at.
LEMMA TakenKeeps ==
  ASSUME PaymentsInv, NEW w \in PayWorkers, NEW p \in PaymentIds, PayAt(w, "idle"),
         payWorker' = [payWorker EXCEPT ![w] = Taken(p)],
         \/ sync' = sync
         \/ w = "sync" /\ sync' = [sync EXCEPT !.todo = sync.todo \ {p}],
         UNCHANGED <<paid, payer, processed, synced, createdTwice>>
  PROVE  PaymentsInv'
  <1>1. /\ payWorker'[w] = Taken(p) /\ Taken(p) \in [pc : PayPcs, pay : PaymentIds \cup {"none"}]
        /\ Taken(p).pay = p /\ Taken(p).pc \in {"idle", "stripe"} /\ (Taken(p).pc = "idle" => p \in processed)
        /\ \A v \in PayWorkers : v # w => payWorker'[v] = payWorker[v]
        /\ payWorker' \in [PayWorkers -> [pc : PayPcs, pay : PaymentIds \cup {"none"}]]
    BY DEF Taken, PaymentsInv, PaymentsTypeOK, PayPcs
  <1>2. /\ sync'.on = sync.on /\ sync'.listed = sync.listed /\ sync'.failed = sync.failed
        /\ sync'.todo = sync.todo \/ (w = "sync" /\ sync'.todo = sync.todo \ {p})
        /\ sync' \in [on : BOOLEAN, todo : SUBSET PaymentIds, listed : SUBSET PaymentIds, failed : BOOLEAN]
    BY DEF PaymentsInv, PaymentsTypeOK
  <1>3. PaymentsTypeOK'
    BY <1>1, <1>2 DEF PaymentsInv, PaymentsTypeOK, PayAt
  <1>4. Granted'
    BY <1>1 DEF PaymentsInv, Granted, PayAt
  <1>5. ASSUME PaySettled PROVE PaySettled'
    <2>1. \A v \in PayWorkers : PayAt(v, "confirm")' => payWorker'[v].pay \in payer'.payments
      BY <1>1, <1>5 DEF PaySettled, PayAt
    <2>2. ASSUME sync'.on, ~sync'.failed, NEW q \in sync'.listed
          PROVE  q \in sync'.todo \/ q \in payer'.payments \/ (~PayAt("sync", "idle")' /\ payWorker'["sync"].pay = q)
      <3>1. q \in sync.todo \/ q \in payer.payments \/ (~PayAt("sync", "idle") /\ payWorker["sync"].pay = q)
        BY <1>2, <1>5, <2>2 DEF PaySettled
      <3>2. CASE w = "sync"
        BY <1>1, <1>2, <1>5, <3>1, <3>2 DEF PaySettled, PayAt
      <3>3. CASE w # "sync"
        BY <1>1, <1>2, <3>1, <3>3 DEF PayAt, PayWorkers
      <3> QED BY <3>2, <3>3
    <2> QED BY <1>5, <2>1, <2>2 DEF PaySettled
  <1> QED BY <1>3, <1>4, <1>5 DEF PaymentsInv

\* Every step.
LEMMA PaymentStep ==
  ASSUME PaymentsInv, [PaymentsNext]_paymentsVars
  PROVE  PaymentsInv'
  <1>1. CASE UNCHANGED paymentsVars
    BY <1>1 DEF paymentsVars, PaymentsInv, PaymentsTypeOK, Granted, PaySettled, PayAt
  <1>2. ASSUME NEW p \in PaymentIds, Pay(p) PROVE PaymentsInv'
    BY <1>2 DEF Pay, PaymentsInv, PaymentsTypeOK, Granted, PaySettled, PayAt
  <1>3. ASSUME NEW p \in PaymentIds, SyncTake(p) PROVE PaymentsInv'
    BY <1>3, TakenKeeps DEF SyncTake, PayWorkers
  <1>4. ASSUME NEW p \in PaymentIds, NEW w \in Hooks, Deliver(w, p) PROVE PaymentsInv'
    BY <1>4, TakenKeeps DEF Deliver, PayWorkers
  <1>5. CASE CancelRecurring
    BY <1>5 DEF CancelRecurring, PaymentsInv, PaymentsTypeOK, Granted, PaySettled, PayAt
  <1>6. CASE SyncStart
    BY <1>6 DEF SyncStart, PaymentsInv, PaymentsTypeOK, Granted, PaySettled, PayAt
  <1>7. CASE SyncEnd
    <2>1. /\ sync.on /\ PayAt("sync", "idle") /\ sync.todo = {} /\ sync' = NoSync
          /\ synced' = synced \/ (~sync.failed /\ synced' = synced \cup sync.listed)
          /\ UNCHANGED <<paid, payer, processed, payWorker, createdTwice>>
      BY <1>7 DEF SyncEnd
    <2>2. PaymentsTypeOK' /\ Granted'
      BY <2>1 DEF NoSync, PaymentsInv, PaymentsTypeOK, Granted, PayAt
    <2>3. ASSUME PaySettled PROVE PaySettled'
      BY <2>1, <2>3 DEF NoSync, PaySettled, PayAt
    <2> QED BY <2>1, <2>2, <2>3 DEF PaymentsInv
  <1>8. CASE PayRestart
    <2>1. /\ processed' = {} /\ sync' = NoSync /\ payWorker' = [w \in PayWorkers |-> NoPayWork]
          /\ UNCHANGED <<paid, payer, synced, createdTwice>>
      BY <1>8 DEF PayRestart
    <2>2. PaymentsTypeOK' /\ Granted' /\ (PaySettled => PaySettled')
      BY <2>1 DEF NoSync, NoPayWork, PaymentsInv, PaymentsTypeOK, PayPcs, Granted, PaySettled, PayAt
    <2> QED BY <2>1, <2>2 DEF PaymentsInv
  <1> QED BY <1>1, <1>2, <1>3, <1>4, <1>5, <1>6, <1>7, <1>8, WorkerStep DEF PaymentsNext

-----------------------------------------------------------------------------
(* Subscriptions.                                                           *)

SubSpec == SubInit /\ [][SubNext]_subVars

SubType == [end : Int, duration : Int, recurring : [Recurrences -> Int]]
\* A subscription runs to an end, or has a duration.
SubWell(s) == s \in SubType /\ (IsStarted(s) => s.end \in Nat) /\ (~IsStarted(s) => s.duration \in Nat)
\* The end of a subscription, if it were started now.
EndOf(s) == IF IsStarted(s) THEN s.end ELSE subClock + s.duration

SubInv ==
  /\ SubWell(subscription) /\ subClock \in Nat /\ paidTime \in Int /\ used \in Int /\ lapsed \in BOOLEAN
  /\ ~lapsed => used + GetDuration(subscription) = paidTime
  /\ ~lapsed => \A r \in Recurrences : subscription.recurring[r] <= EndOf(subscription)

\* A payment adds its duration and its recurring payment to a subscription that has not run out.
LEMMA AddIs ==
  ASSUME SubInv, NEW t, SubWell(t), IsStarted(subscription) => subscription.end >= subClock
  PROVE  LET s == Start(Add(subscription, t)) IN
         /\ GetDuration(t) \in Nat /\ IsStarted(s)
         /\ GetDuration(s) = GetDuration(subscription) + GetDuration(t)
         /\ s.end = EndOf(subscription) + GetDuration(t)
  <1>1. /\ subscription \in SubType /\ subClock \in Nat /\ GetDuration(t) \in Nat
        /\ IsStarted(subscription) => subscription.end \in Nat
        /\ ~IsStarted(subscription) => subscription.duration \in Nat
    BY DEF SubInv, SubWell, SubType, GetDuration
  <1> DEFINE d == GetDuration(t)
             recurring == Sanitize(Merge(subscription.recurring, t.recurring))
  <1>4. recurring \in [Recurrences -> Int]
    BY <1>1 DEF Sanitize, Merge, SubWell, SubType, Never
  <1> HIDE DEF d, recurring
  <1>2. CASE IsStarted(subscription)
    <2>1. Add(subscription, t) = [subscription EXCEPT !.end = subscription.end + d, !.recurring = recurring]
      BY <1>1, <1>2 DEF Add, SubType, d, recurring
    <2>2. subscription.end + d \in Nat /\ subscription.end + d # Never
      BY <1>1, <1>2 DEF Never, d
    <2>3. Add(subscription, t).end = subscription.end + d /\ IsStarted(Add(subscription, t))
      BY <1>1, <2>1, <2>2 DEF SubType, IsStarted
    <2> QED BY <1>1, <1>2, <2>3 DEF Start, GetDuration, EndOf, d
  <1>3. CASE ~IsStarted(subscription)
    <2>1. Add(subscription, t) = [subscription EXCEPT !.duration = subscription.duration + d, !.recurring = recurring]
      BY <1>1, <1>3 DEF Add, SubType, d, recurring
    <2>2. Add(subscription, t).duration = subscription.duration + d /\ ~IsStarted(Add(subscription, t))
      BY <1>1, <1>3, <2>1 DEF SubType, IsStarted, d
    <2>3. Start(Add(subscription, t)) = [Add(subscription, t) EXCEPT !.end = subClock + (subscription.duration + d), !.duration = Never]
      BY <2>2 DEF Start
    <2>4. Start(Add(subscription, t)).end = subClock + subscription.duration + d
      <3> DEFINE n == subscription.duration + d
                 e == subClock + n
      <3>1. n \in Int /\ e \in Int /\ e = subClock + subscription.duration + d /\ Never \in Int
        BY <1>1, <1>3 DEF d, Never
      <3>2. /\ Add(subscription, t) = [subscription EXCEPT !.duration = n, !.recurring = recurring]
            /\ Start(Add(subscription, t)) = [Add(subscription, t) EXCEPT !.end = e, !.duration = Never]
        BY <2>1, <2>3
      <3> HIDE DEF n, e
      <3>3. Add(subscription, t) \in SubType
        BY <1>1, <1>4, <3>1, <3>2 DEF SubType
      <3> QED BY <3>1, <3>2, <3>3 DEF SubType
    <2> QED BY <1>1, <1>3, <2>4 DEF IsStarted, GetDuration, EndOf, Never, d
  <1> QED BY <1>2, <1>3

\* It is a subscription again, whose recurring payments were known or are new.
LEMMA AddKeeps ==
  ASSUME SubInv, NEW t, SubWell(t)
  PROVE  /\ SubWell(Start(Add(subscription, t)))
         /\ \A r \in Recurrences :
              Start(Add(subscription, t)).recurring[r] \in {Never, subscription.recurring[r], t.recurring[r]}
  <1>1. /\ subscription \in SubType /\ subClock \in Nat /\ GetDuration(t) \in Nat
        /\ IsStarted(subscription) => subscription.end \in Nat
        /\ ~IsStarted(subscription) => subscription.duration \in Nat
    BY DEF SubInv, SubWell, SubType, GetDuration
  <1> DEFINE d == GetDuration(t)
             recurring == Sanitize(Merge(subscription.recurring, t.recurring))
  <1>2. /\ recurring \in [Recurrences -> Int]
        /\ \A r \in Recurrences : recurring[r] \in {Never, subscription.recurring[r], t.recurring[r]}
    BY <1>1 DEF Sanitize, Merge, SubWell, SubType, Never
  <1> HIDE DEF d, recurring
  <1>3. CASE IsStarted(subscription)
    <2>1. Add(subscription, t) = [subscription EXCEPT !.end = subscription.end + d, !.recurring = recurring]
      BY <1>1, <1>3 DEF Add, SubType, d, recurring
    <2>2. /\ Add(subscription, t) \in SubType /\ Add(subscription, t).recurring = recurring
          /\ Add(subscription, t).end \in Nat /\ IsStarted(Add(subscription, t))
      <3> DEFINE e == subscription.end + d
      <3>1. e \in Nat /\ e \in Int /\ e # Never
        BY <1>1, <1>3 DEF Never, d
      <3>2. Add(subscription, t) = [subscription EXCEPT !.end = e, !.recurring = recurring]
        BY <2>1
      <3> HIDE DEF e
      <3> QED BY <1>1, <1>2, <3>1, <3>2 DEF SubType, IsStarted
    <2>3. Start(Add(subscription, t)) = Add(subscription, t)
      BY <2>2 DEF Start
    <2> QED BY <1>2, <2>2, <2>3 DEF SubWell
  <1>4. CASE ~IsStarted(subscription)
    <2>1. Add(subscription, t) = [subscription EXCEPT !.duration = subscription.duration + d, !.recurring = recurring]
      BY <1>1, <1>4 DEF Add, SubType, d, recurring
    <2>2. /\ Add(subscription, t) \in SubType /\ Add(subscription, t).recurring = recurring
          /\ Add(subscription, t).duration \in Nat /\ ~IsStarted(Add(subscription, t))
      <3> DEFINE n == subscription.duration + d
      <3>1. n \in Nat /\ n \in Int
        BY <1>1, <1>4 DEF d
      <3>2. Add(subscription, t) = [subscription EXCEPT !.duration = n, !.recurring = recurring]
        BY <2>1
      <3> HIDE DEF n
      <3> QED BY <1>1, <1>2, <1>4, <3>1, <3>2 DEF SubType, IsStarted
    <2>3. /\ Start(Add(subscription, t)) \in SubType /\ Start(Add(subscription, t)).recurring = recurring
          /\ Start(Add(subscription, t)).end \in Nat
      <3> DEFINE e == subClock + Add(subscription, t).duration
      <3>1. e \in Nat /\ e \in Int /\ Never \in Int
        BY <1>1, <2>2 DEF Never
      <3>2. Start(Add(subscription, t)) = [Add(subscription, t) EXCEPT !.end = e, !.duration = Never]
        BY <2>2 DEF Start
      <3> HIDE DEF e
      <3> QED BY <2>2, <3>1, <3>2 DEF SubType
    <2> QED BY <1>2, <2>3 DEF SubWell, IsStarted, Never
  <1> QED BY <1>3, <1>4

\* A payment.
LEMMA PaysKeeps ==
  ASSUME SubInv, NEW t, SubWell(t), Pays(t), \A r \in Recurrences : t.recurring[r] <= subClock + GetDuration(t)
  PROVE  SubInv'
  <1> DEFINE s == Start(Add(subscription, t))
  <1>1. /\ subscription' = s /\ paidTime' = paidTime + GetDuration(t) /\ used' = used /\ subClock' = subClock
        /\ lapsed' = (lapsed \/ (IsStarted(subscription) /\ subscription.end < subClock))
    BY DEF Pays
  <1>2. SubWell(s) /\ \A r \in Recurrences : s.recurring[r] \in {Never, subscription.recurring[r], t.recurring[r]}
    BY AddKeeps
  <1>3. /\ SubWell(subscription)' /\ EndOf(subscription)' = EndOf(s) /\ GetDuration(subscription)' = GetDuration(s)
    BY <1>1, <1>2 DEF SubWell, IsStarted, EndOf, GetDuration
  <1>4. GetDuration(t) \in Nat
    BY DEF SubInv, SubWell, SubType, GetDuration
  <1>5. ASSUME ~lapsed'
        PROVE  /\ used' + GetDuration(subscription)' = paidTime'
               /\ \A r \in Recurrences : subscription'.recurring[r] <= EndOf(subscription)'
    <2>1. ~lapsed /\ (IsStarted(subscription) => subscription.end >= subClock)
      <3>1. ~lapsed /\ ~(IsStarted(subscription) /\ subscription.end < subClock)
        BY <1>1, <1>5
      <3>2. subClock \in Nat /\ (IsStarted(subscription) => subscription.end \in Nat)
        BY DEF SubInv, SubWell
      <3> QED BY <3>1, <3>2
    <2>2. /\ IsStarted(s) /\ GetDuration(s) = GetDuration(subscription) + GetDuration(t)
          /\ s.end = EndOf(subscription) + GetDuration(t)
      BY <2>1, AddIs
    <2>3. GetDuration(subscription) \in Int /\ EndOf(subscription) \in Int /\ EndOf(subscription) >= subClock
          /\ subClock \in Nat
      BY <2>1 DEF SubInv, SubWell, SubType, GetDuration, EndOf
    <2>4. \A r \in Recurrences : /\ subscription.recurring[r] \in Int /\ t.recurring[r] \in Int
                                 /\ subscription.recurring[r] <= EndOf(subscription)
                                 /\ t.recurring[r] <= subClock + GetDuration(t)
      BY <2>1 DEF SubInv, SubWell, SubType
    <2> HIDE DEF s
    <2>5. EndOf(s) = EndOf(subscription) + GetDuration(t)
      BY <2>2 DEF EndOf
    <2>6. \A r \in Recurrences : s.recurring[r] <= EndOf(s)
      BY <1>2, <1>4, <2>3, <2>4, <2>5 DEF Never
    <2>7. used + GetDuration(s) = paidTime + GetDuration(t)
      BY <1>4, <2>1, <2>2, <2>3 DEF SubInv
    <2> QED BY <1>1, <1>3, <2>6, <2>7
  <1>6. lapsed' \in BOOLEAN /\ subClock' \in Nat /\ paidTime' \in Int /\ used' \in Int
    BY <1>1, <1>4 DEF SubInv
  <1> QED BY <1>3, <1>5, <1>6 DEF SubInv

\* Every step.
LEMMA SubStep ==
  ASSUME SubInv, [SubNext]_subVars
  PROVE  SubInv'
  <1>1. /\ subscription \in SubType /\ subClock \in Nat /\ subscription.recurring \in [Recurrences -> Int]
        /\ IsStarted(subscription) => subscription.end \in Nat
        /\ ~IsStarted(subscription) => subscription.duration \in Nat
    BY DEF SubInv, SubWell, SubType
  <1>2. ASSUME NEW d \in Durations, PayOnce(d) PROVE SubInv'
    <2> DEFINE t == [end |-> Never, duration |-> d, recurring |-> NotRecurring]
    <2>1. d \in Nat /\ NotRecurring \in [Recurrences -> Int] /\ \A r \in Recurrences : NotRecurring[r] = Never
      BY SubscriptionsAssumption DEF NotRecurring, Never
    <2>2. SubWell(t) /\ GetDuration(t) = d
      BY <2>1 DEF SubWell, SubType, IsStarted, GetDuration, Never
    <2>3. \A r \in Recurrences : t.recurring[r] <= subClock + GetDuration(t)
      BY <1>1, <2>1, <2>2 DEF Never
    <2>4. Pays(t)
      BY <1>2 DEF PayOnce
    <2> HIDE DEF t
    <2> QED BY <2>2, <2>3, <2>4, PaysKeeps
  <1>3. ASSUME NEW d \in Durations, NEW q \in Recurrences, PayRecurring(q, d) PROVE SubInv'
    <2> DEFINE rs == [NotRecurring EXCEPT ![q] = subClock + d]
               t == [end |-> subClock + d, duration |-> Never, recurring |-> rs]
    <2>1. d \in Nat \ {0} /\ rs \in [Recurrences -> Int] /\ \A r \in Recurrences : rs[r] \in {Never, subClock + d}
      BY <1>1, SubscriptionsAssumption DEF NotRecurring, Never
    <2>2. Pays(t)
      BY <1>3 DEF PayRecurring
    <2> HIDE DEF rs
    <2>3. SubWell(t) /\ GetDuration(t) = d
      BY <1>1, <2>1 DEF SubWell, SubType, IsStarted, GetDuration, Never
    <2>4. \A r \in Recurrences : t.recurring[r] <= subClock + GetDuration(t)
      BY <1>1, <2>1, <2>3 DEF Never
    <2> HIDE DEF t
    <2> QED BY <2>2, <2>3, <2>4, PaysKeeps
  <1>4. ASSUME NEW q \in Recurrences, Cancel(q) PROVE SubInv'
    <2> DEFINE rs == [subscription.recurring EXCEPT ![q] = Never]
    <2>1. /\ subscription' = [subscription EXCEPT !.recurring = rs] /\ UNCHANGED <<subClock, paidTime, used, lapsed>>
      BY <1>1, <1>4 DEF Cancel, SubType
    <2>2. rs \in [Recurrences -> Int] /\ \A r \in Recurrences : rs[r] \in {Never, subscription.recurring[r]}
      BY <1>1 DEF Never
    <2> HIDE DEF rs
    <2>3. /\ subscription' \in SubType /\ subscription'.recurring = rs /\ subscription'.end = subscription.end
          /\ subscription'.duration = subscription.duration
      BY <1>1, <2>1, <2>2 DEF SubType
    <2>4. EndOf(subscription)' = EndOf(subscription) /\ GetDuration(subscription)' = GetDuration(subscription)
          /\ IsStarted(subscription)' = IsStarted(subscription) /\ EndOf(subscription) \in Nat
      BY <1>1, <2>1, <2>3 DEF EndOf, GetDuration, IsStarted
    <2> QED BY <1>1, <2>1, <2>2, <2>3, <2>4 DEF SubInv, SubWell, Never
  <1>5. CASE Pause
    <2>1. /\ IsStarted(subscription) /\ UNCHANGED <<subClock, paidTime, used, lapsed>>
          /\ subscription' = [subscription EXCEPT !.duration = GetDuration(subscription), !.end = Never]
      BY <1>5 DEF Pause, Stop
    <2>2. GetDuration(subscription) \in Nat /\ subClock + GetDuration(subscription) >= subscription.end
      BY <1>1, <2>1 DEF GetDuration, SubType
    <2>3. /\ subscription' \in SubType /\ subscription'.recurring = subscription.recurring /\ subscription'.end = Never
          /\ subscription'.duration = GetDuration(subscription)
      <3> DEFINE d == GetDuration(subscription)
      <3>1. d \in Int /\ Never \in Int
        BY <2>2 DEF Never
      <3>2. subscription' = [subscription EXCEPT !.duration = d, !.end = Never]
        BY <2>1
      <3> HIDE DEF d
      <3>3. /\ subscription' \in SubType /\ subscription'.recurring = subscription.recurring /\ subscription'.end = Never
            /\ subscription'.duration = d
        BY <1>1, <3>1, <3>2 DEF SubType
      <3> QED BY <3>3 DEF d
    <2>4. EndOf(subscription)' = subClock + GetDuration(subscription) /\ GetDuration(subscription)' = GetDuration(subscription)
          /\ ~IsStarted(subscription)' /\ EndOf(subscription) = subscription.end
      BY <2>1, <2>3 DEF EndOf, GetDuration, IsStarted, Never
    <2>5. \A r \in Recurrences : subscription.recurring[r] \in Int
      BY <1>1
    <2> QED BY <1>1, <2>1, <2>2, <2>3, <2>4, <2>5 DEF SubInv, SubWell
  <1>6. CASE Resume
    <2>1. /\ ~IsStarted(subscription) /\ UNCHANGED <<subClock, paidTime, used, lapsed>>
          /\ subscription' = [subscription EXCEPT !.end = subClock + subscription.duration, !.duration = Never]
      BY <1>6 DEF Resume, Start
    <2>2. /\ subscription' \in SubType /\ subscription'.recurring = subscription.recurring
          /\ subscription'.end = subClock + subscription.duration
      <3> DEFINE e == subClock + subscription.duration
      <3>1. e \in Int /\ Never \in Int
        BY <1>1, <2>1 DEF Never
      <3>2. subscription' = [subscription EXCEPT !.end = e, !.duration = Never]
        BY <2>1
      <3> HIDE DEF e
      <3>3. subscription' \in SubType /\ subscription'.recurring = subscription.recurring /\ subscription'.end = e
        BY <1>1, <3>1, <3>2 DEF SubType
      <3> QED BY <3>3 DEF e
    <2>3. /\ IsStarted(subscription)' /\ EndOf(subscription)' = EndOf(subscription)
          /\ GetDuration(subscription)' = GetDuration(subscription)
      BY <1>1, <2>1, <2>2 DEF EndOf, GetDuration, IsStarted, Never
    <2> QED BY <1>1, <2>1, <2>2, <2>3 DEF SubInv, SubWell
  <1>7. CASE SubTick
    <2>1. /\ subClock' = subClock + 1 /\ used' = (IF IsActive(subscription) THEN used + 1 ELSE used)
          /\ UNCHANGED <<subscription, paidTime, lapsed>>
      BY <1>7 DEF SubTick
    <2>2. used' + GetDuration(subscription)' = used + GetDuration(subscription) /\ used' \in Int
      <3>1. used \in Int
        BY DEF SubInv
      <3>2. CASE IsStarted(subscription)
        BY <1>1, <2>1, <3>1, <3>2 DEF IsActive, IsStarted, GetDuration, Never
      <3>3. CASE ~IsStarted(subscription)
        BY <1>1, <2>1, <3>1, <3>3 DEF IsActive, IsStarted, GetDuration, Never
      <3> QED BY <3>2, <3>3
    <2>3. EndOf(subscription)' >= EndOf(subscription) /\ EndOf(subscription)' \in Int /\ EndOf(subscription) \in Int
      BY <1>1, <2>1 DEF EndOf, IsStarted
    <2>4. \A r \in Recurrences : subscription.recurring[r] \in Int
      BY <1>1
    <2> QED BY <1>1, <2>1, <2>2, <2>3, <2>4 DEF SubInv, SubWell, IsStarted
  <1>8. CASE UNCHANGED subVars
    BY <1>8 DEF subVars, SubInv, SubWell, IsStarted, EndOf, GetDuration
  <1> QED BY <1>2, <1>3, <1>4, <1>5, <1>6, <1>7, <1>8 DEF SubNext

\* A payment adds to the subscription once, whatever is delivered again and whoever else looks at it; what is processed or
\* was synced is registered, unless two payments created the user; and the time that was paid for is the time that was
\* used and the time that is left.
THEOREM PaymentsAreSafe == PaymentsSpec /\ SubSpec => []PaymentsSafe
  <1>1. PaymentsInit => PaymentsInv
    <2> SUFFICES ASSUME PaymentsInit PROVE PaymentsInv
      OBVIOUS
    <2>1. /\ payer = [exists |-> FALSE, payments |-> {}, granted |-> 0] /\ createdTwice = FALSE /\ paid = {}
          /\ processed = {} /\ synced = {} /\ sync = NoSync
          /\ payWorker = [w \in PayWorkers |-> NoPayWork]
      BY DEF PaymentsInit, NewPayer
    <2>2. PaymentsTypeOK
      BY <2>1 DEF PaymentsTypeOK, NoPayWork, NoSync, PayPcs, PayAt
    <2>3. Granted /\ PaySettled
      BY <2>1, FS_EmptySet DEF NoPayWork, NoSync, Granted, PaySettled, PayAt
    <2> QED BY <2>2, <2>3 DEF PaymentsInv
  <1>2. PaymentsInv /\ [PaymentsNext]_paymentsVars => PaymentsInv'
    BY PaymentStep
  <1>3. SubInit => SubInv
    <2> SUFFICES ASSUME SubInit PROVE SubInv
      OBVIOUS
    <2>1. subscription \in SubType /\ ~IsStarted(subscription) /\ subscription.duration = 0 /\ subClock = 0
          /\ \A r \in Recurrences : subscription.recurring[r] = -1
      BY DEF SubInit, SubType, IsStarted, NotRecurring, Never
    <2>2. GetDuration(subscription) = 0 /\ EndOf(subscription) = 0
      BY <2>1 DEF GetDuration, EndOf
    <2>3. SubWell(subscription) /\ subClock = 0 /\ paidTime = 0 /\ used = 0 /\ lapsed = FALSE
      BY <2>1 DEF SubInit, SubWell
    <2>4. used + GetDuration(subscription) = paidTime
      BY <2>2, <2>3
    <2>5. \A r \in Recurrences : subscription.recurring[r] <= EndOf(subscription)
      BY <2>1, <2>2
    <2>6. subClock \in Nat /\ paidTime \in Int /\ used \in Int
      BY <2>3
    <2>7. lapsed \in BOOLEAN
      BY <2>3
    <2> QED BY <2>3, <2>4, <2>5, <2>6, <2>7 DEF SubInv
  <1>4. SubInv /\ [SubNext]_subVars => SubInv'
    BY SubStep
  <1>5. PaymentsInv /\ SubInv => PaymentsSafe
    <2>1. PaymentsInv => PaymentOnce /\ PaymentsKept /\ SyncCatchesUp
      BY DEF PaymentsInv, Granted, PaySettled, PaymentOnce, PaymentsKept, SyncCatchesUp
    <2>2. SubInv => PaidTimeKept /\ RecurringWithinSubscription
      BY DEF SubInv, EndOf, PaidTimeKept, RecurringWithinSubscription
    <2> QED BY <2>1, <2>2 DEF PaymentsSafe
  <1>6. PaymentsSpec => []PaymentsInv
    BY <1>1, <1>2, PTL DEF PaymentsSpec
  <1>7. SubSpec => []SubInv
    BY <1>3, <1>4, PTL DEF SubSpec
  <1> QED BY <1>5, <1>6, <1>7, PTL

-----------------------------------------------------------------------------
(* The HTTP client.  Of a call the invariant says which responses it may    *)
(* have open where it is, and when its timer is set.                        *)

HttpSpec == HttpInit /\ [][HttpNext]_httpVars

CallPlaces == {"idle", "auth", "prepare", "send", "sent", "read", "peek", "resolved", "rejected", "before", "checked"}
ProxyKind == [type |-> "query", auth |-> FALSE, expect |-> "stream"]
Kinds == CallKinds \cup {NoCall.kind, ProxyKind}
CallRecord == [pc : CallPlaces, kind : Kinds, redirection : 0 .. MAX_REDIRECTION, timer : BOOLEAN, error : BOOLEAN]
CallInv(q, open, answer) ==
  /\ q \in CallRecord
  /\ q.timer => q.pc \in {"sent", "rejected"}
  /\ q.pc \notin {"read", "peek", "resolved", "rejected"} => open \subseteq {"unlocated"}
  /\ q.pc \in {"read", "peek"} => open \subseteq {"body", "unlocated"}
  /\ q.pc \in {"resolved", "rejected"} => open \subseteq {"handed", "unlocated", "refused"}
  /\ "refused" \in open => q.redirection = MAX_REDIRECTION
  /\ answer = "answered" => q.pc \in {"checked", "resolved"} /\ "handed" \notin open
  /\ answer # "twice"
WebSocketInv ==
  ws.socket = "closed" => ~ws.beat /\ ~ws.context
FormInv ==
  /\ \A f \in FormFiles : form.files[f] = "done" => f \in form.blobs
  /\ form.promise = "resolved" => form.busboy = "closed" /\ \A f \in FormFiles : form.files[f] \in {"absent", "done"}
FormRecord ==
  form \in [busboy : {"none", "open", "closed", "error"}, files : [FormFiles -> {"absent", "task", "done", "failed"}],
            serialized : BOOLEAN, promise : {"pending", "resolved", "rejected"}, blobs : SUBSET FormFiles]
WebSocketRecord ==
  ws \in [socket : {"none", "connecting", "open", "closing", "closed"}, promise : {"pending", "resolved", "rejected"},
          context : BOOLEAN, beat : BOOLEAN]
CallsTyped ==
  /\ httpCalls \in [HttpCalls -> CallRecord]
  /\ responses \in [HttpCalls -> SUBSET {"body", "handed", "unlocated", "refused"}]
  /\ client \in [HttpCalls -> {"none", "waits", "answered", "piped", "twice"}]
HttpClientInv ==
  /\ CallsTyped
  /\ \A c \in HttpCalls : CallInv(httpCalls[c], responses[c], client[c])
  /\ WebSocketRecord /\ WebSocketInv
  /\ FormRecord /\ FormInv

LEMMA NoCallIsRecord == NoCall \in CallRecord /\ NoCall.pc = "idle" /\ ~NoCall.timer
  <1>1. 0 \in 0 .. MAX_REDIRECTION /\ MAX_REDIRECTION \in Nat
    BY HttpClientAssumption
  <1>2. NoCall.kind \in Kinds
    BY DEF Kinds
  <1> HIDE DEF Kinds
  <1> QED BY <1>1, <1>2 DEF NoCall, CallRecord, CallPlaces

LEMMA HttpClientStarts == HttpInit => HttpClientInv
  <1> SUFFICES ASSUME HttpInit PROVE HttpClientInv
    OBVIOUS
  <1>1. NoCall \in CallRecord /\ NoCall.pc = "idle" /\ ~NoCall.timer
    BY NoCallIsRecord
  <1>2. CallsTyped
    BY <1>1 DEF CallsTyped, HttpInit
  <1>3. \A c \in HttpCalls : CallInv(httpCalls[c], responses[c], client[c])
    BY <1>1 DEF HttpInit, CallInv
  <1>4. WebSocketRecord /\ WebSocketInv /\ FormRecord /\ FormInv
    BY DEF HttpInit, WebSocketRecord, WebSocketInv, FormRecord, FormInv
  <1> QED BY <1>2, <1>3, <1>4 DEF HttpClientInv

\* A call moves and nothing else does.
LEMMA CallMoves ==
  ASSUME HttpClientInv, NEW c \in HttpCalls, NEW q, NEW open, NEW answer,
         httpCalls' = [httpCalls EXCEPT ![c] = q], responses' = [responses EXCEPT ![c] = open],
         client' = [client EXCEPT ![c] = answer], UNCHANGED <<ws, form>>,
         CallInv(q, open, answer), open \subseteq {"body", "handed", "unlocated", "refused"},
         answer \in {"none", "waits", "answered", "piped", "twice"}
  PROVE  HttpClientInv'
  <1>1. q \in CallRecord
    BY DEF CallInv
  <1>2. CallsTyped'
    BY <1>1 DEF CallsTyped, HttpClientInv
  <1>3. \A d \in HttpCalls : CallInv(httpCalls'[d], responses'[d], client'[d])
    <2> SUFFICES ASSUME NEW d \in HttpCalls PROVE CallInv(httpCalls'[d], responses'[d], client'[d])
      OBVIOUS
    <2>1. CASE d = c
      BY <2>1 DEF CallsTyped, HttpClientInv
    <2>2. CASE d # c
      BY <2>2 DEF CallsTyped, HttpClientInv
    <2> QED BY <2>1, <2>2
  <1> QED BY <1>2, <1>3 DEF HttpClientInv, WebSocketRecord, WebSocketInv, FormRecord, FormInv, CallInv, CallRecord

LEMMA HttpCallsKeep ==
  ASSUME HttpClientInv, NEW c \in HttpCalls, NEW b \in BOOLEAN, NEW k \in Kinds,
         \/ RestRequest(c, k, b) \/ RestAuthenticated(c, b) \/ Prepare(c, b) \/ Request(c) \/ RequestFails(c)
         \/ Redirected(c, b) \/ Answered(c, b) \/ BodyRead(c, b) \/ Peek(c, b)
         \/ ProxyRequest(c) \/ ProxyBefore(c, b) \/ ProxyForwards(c) \/ ProxyPipes(c)
  PROVE  HttpClientInv'
  <1> DEFINE q == httpCalls[c]
             open == responses[c]
             answer == client[c]
  <1>0. /\ CallInv(q, open, answer) /\ DOMAIN httpCalls = HttpCalls /\ DOMAIN responses = HttpCalls
        /\ DOMAIN client = HttpCalls /\ CallsTyped
        /\ open \subseteq {"body", "handed", "unlocated", "refused"}
        /\ answer \in {"none", "waits", "answered", "piped", "twice"}
    BY DEF HttpClientInv, CallsTyped
  <1>s. /\ httpCalls = [httpCalls EXCEPT ![c] = q] /\ responses = [responses EXCEPT ![c] = open]
        /\ client = [client EXCEPT ![c] = answer]
    BY <1>0 DEF CallsTyped
  <1>1. CASE RestRequest(c, k, b)
    <2> DEFINE pc == IF ~b THEN "rejected" ELSE IF k.auth THEN "auth" ELSE "prepare"
               r == [NoCall EXCEPT !.kind = k, !.pc = pc]
    <2>1. pc \in {"rejected", "auth", "prepare"} /\ q.pc = "idle"
      BY <1>1 DEF RestRequest
    <2> HIDE DEF pc
    <2>4. CallInv(r, open, answer)
      BY <1>0, <2>1, NoCallIsRecord DEF CallInv, CallRecord, CallPlaces
    <2>5. httpCalls' = [httpCalls EXCEPT ![c] = r]
      BY <1>1 DEF RestRequest, pc
    <2> HIDE DEF r
    <2> QED BY <1>1, <1>s, <1>0, <2>4, <2>5, CallMoves DEF RestRequest
  <1>2. CASE RestAuthenticated(c, b)
    <2> DEFINE r == [q EXCEPT !.pc = IF b THEN "prepare" ELSE "rejected"]
    <2>1. CallInv(r, open, answer)
      BY <1>0, <1>2 DEF RestAuthenticated, CallInv, CallRecord, CallPlaces
    <2>9. /\ httpCalls' = [httpCalls EXCEPT ![c] = r] /\ responses' = [responses EXCEPT ![c] = open]
          /\ client' = [client EXCEPT ![c] = answer] /\ UNCHANGED <<ws, form>>
      BY <1>0, <1>2, <1>s, <2>1 DEF RestAuthenticated, Http
    <2> HIDE DEF r
    <2> QED BY <1>0, <2>1, <2>9, CallMoves
  <1>3. CASE Prepare(c, b)
    <2> DEFINE r == [q EXCEPT !.pc = IF b THEN "send" ELSE "rejected"]
    <2>1. CallInv(r, open, answer)
      BY <1>0, <1>3 DEF Prepare, CallInv, CallRecord, CallPlaces
    <2>9. /\ httpCalls' = [httpCalls EXCEPT ![c] = r] /\ responses' = [responses EXCEPT ![c] = open]
          /\ client' = [client EXCEPT ![c] = answer] /\ UNCHANGED <<ws, form>>
      BY <1>0, <1>3, <1>s, <2>1 DEF Prepare, Http
    <2> HIDE DEF r
    <2> QED BY <1>0, <2>1, <2>9, CallMoves
  <1>4. CASE Request(c)
    <2> DEFINE r == [q EXCEPT !.pc = IF q.kind.type = "form" THEN "rejected" ELSE "sent", !.timer = TRUE]
    <2>1. CallInv(r, open, answer)
      BY <1>0, <1>4 DEF Request, CallInv, CallRecord, CallPlaces
    <2>2. httpCalls' = [httpCalls EXCEPT ![c] = r]
      BY <1>0, <1>4 DEF Request
    <2>9. /\ httpCalls' = [httpCalls EXCEPT ![c] = r] /\ responses' = [responses EXCEPT ![c] = open]
          /\ client' = [client EXCEPT ![c] = answer] /\ UNCHANGED <<ws, form>>
      BY <1>0, <1>4, <1>s, <2>1, <2>2 DEF Request
    <2> HIDE DEF r
    <2> QED BY <1>0, <2>1, <2>9, CallMoves
  <1>5. CASE RequestFails(c)
    <2> DEFINE r == [q EXCEPT !.pc = IF Settled(q) THEN q.pc ELSE "rejected", !.timer = FALSE]
    <2>1. CallInv(r, open, answer)
      BY <1>0, <1>5 DEF RequestFails, CallInv, CallRecord, CallPlaces, Settled
    <2>2. httpCalls' = [httpCalls EXCEPT ![c] = r]
      BY <1>0, <1>5 DEF RequestFails
    <2>9. /\ httpCalls' = [httpCalls EXCEPT ![c] = r] /\ responses' = [responses EXCEPT ![c] = open]
          /\ client' = [client EXCEPT ![c] = answer] /\ UNCHANGED <<ws, form>>
      BY <1>0, <1>5, <1>s, <2>1, <2>2 DEF RequestFails
    <2> HIDE DEF r
    <2> QED BY <1>0, <2>1, <2>9, CallMoves
  <1>6. CASE Redirected(c, b)
    <2>0. q.redirection \in 0 .. MAX_REDIRECTION /\ q.pc = "sent" /\ open \subseteq {"unlocated"} /\ MAX_REDIRECTION \in Nat
      BY <1>0, <1>6, HttpClientAssumption DEF Redirected, CallInv, CallRecord
    <2>1. CASE q.redirection >= MAX_REDIRECTION
      <3> DEFINE r == [q EXCEPT !.pc = "rejected", !.timer = FALSE]
      <3>0. q.redirection = MAX_REDIRECTION
        BY <2>0, <2>1
      <3>1. CallInv(r, open \cup {"refused"}, answer)
        BY <1>0, <2>0, <3>0 DEF CallInv, CallRecord, CallPlaces
      <3>2. httpCalls' = [httpCalls EXCEPT ![c] = r]
        BY <1>0, <1>6, <2>1 DEF Redirected, Responded
      <3>9. /\ httpCalls' = [httpCalls EXCEPT ![c] = r] /\ responses' = [responses EXCEPT ![c] = open \cup {"refused"}]
            /\ client' = [client EXCEPT ![c] = answer] /\ UNCHANGED <<ws, form>>
        BY <1>0, <1>6, <1>s, <2>1, <3>1, <3>2 DEF Redirected
      <3> HIDE DEF r
      <3> QED BY <1>0, <3>1, <3>9, CallMoves
    <2>2. CASE ~(q.redirection >= MAX_REDIRECTION)
      <3> DEFINE n == q.redirection + 1
                 kept == IF b THEN open ELSE open \cup {"unlocated"}
                 r == [q EXCEPT !.pc = "send", !.timer = FALSE, !.redirection = n]
      <3>1. n \in 0 .. MAX_REDIRECTION
        BY <2>0, <2>2
      <3>2. httpCalls' = [httpCalls EXCEPT ![c] = r]
        <4>1. httpCalls' = [[httpCalls EXCEPT ![c] = [q EXCEPT !.pc = "send", !.timer = FALSE]]
                            EXCEPT ![c].redirection = q.redirection + 1]
          BY <1>0, <1>6, <2>2 DEF Redirected, Responded, CallsTyped, CallRecord
        <4> HIDE DEF n
        <4>2. httpCalls' = [[httpCalls EXCEPT ![c] = [q EXCEPT !.pc = "send", !.timer = FALSE]]
                            EXCEPT ![c].redirection = n]
          BY <4>1 DEF n
        <4> QED BY <4>2, <1>0 DEF CallsTyped, CallRecord
      <3>3. responses' = [responses EXCEPT ![c] = kept]
        BY <1>0, <1>6, <2>2 DEF Redirected, Follow
      <3> HIDE DEF n
      <3>4. CallInv(r, kept, answer)
        BY <1>0, <2>0, <3>1 DEF CallInv, CallRecord, CallPlaces
      <3>9. /\ httpCalls' = [httpCalls EXCEPT ![c] = r] /\ responses' = [responses EXCEPT ![c] = kept]
            /\ client' = [client EXCEPT ![c] = answer] /\ UNCHANGED <<ws, form>>
        BY <1>0, <1>6, <1>s, <3>2, <3>3, <3>4 DEF Redirected
      <3>10. kept \subseteq {"body", "handed", "unlocated", "refused"}
        BY <1>0
      <3> HIDE DEF r, kept
      <3> QED BY <1>0, <3>4, <3>9, <3>10, CallMoves
    <2> QED BY <2>1, <2>2
  <1>7. CASE Answered(c, b)
    <2> DEFINE peeked == q.kind.expect = "stream" /\ b /\ answer = "none"
               pc == IF q.kind.expect # "stream" THEN "read" ELSE IF peeked THEN "peek" ELSE "resolved"
               r == [q EXCEPT !.pc = pc, !.timer = FALSE, !.error = b]
               more == open \cup {IF q.kind.expect = "stream" /\ ~peeked THEN "handed" ELSE "body"}
    <2>1. httpCalls' = [httpCalls EXCEPT ![c] = r] /\ responses' = [responses EXCEPT ![c] = more]
      BY <1>0, <1>7 DEF Answered, Responded
    <2>2. CallInv(r, more, answer)
      BY <1>0, <1>7 DEF Answered, CallInv, CallRecord, CallPlaces
    <2>9. /\ httpCalls' = [httpCalls EXCEPT ![c] = r] /\ responses' = [responses EXCEPT ![c] = more]
          /\ client' = [client EXCEPT ![c] = answer] /\ UNCHANGED <<ws, form>>
      BY <1>0, <1>7, <1>s, <2>1, <2>2 DEF Answered
    <2>10. more \subseteq {"body", "handed", "unlocated", "refused"}
      BY <1>0
    <2> HIDE DEF r, more, pc, peeked
    <2> QED BY <1>0, <2>2, <2>9, <2>10, CallMoves
  <1>8. CASE BodyRead(c, b)
    <2> DEFINE r == [q EXCEPT !.pc = IF b /\ ~q.error THEN "resolved" ELSE "rejected"]
    <2>1. CallInv(r, open \ {"body"}, answer)
      BY <1>0, <1>8 DEF BodyRead, CallInv, CallRecord, CallPlaces
    <2>9. /\ httpCalls' = [httpCalls EXCEPT ![c] = r] /\ responses' = [responses EXCEPT ![c] = open \ {"body"}]
          /\ client' = [client EXCEPT ![c] = answer] /\ UNCHANGED <<ws, form>>
      BY <1>0, <1>8, <1>s, <2>1 DEF BodyRead, Http
    <2> HIDE DEF r
    <2> QED BY <1>0, <2>1, <2>9, CallMoves
  <1>9. CASE Peek(c, b)
    <2> DEFINE r == [q EXCEPT !.pc = "rejected"]
    <2>1. CallInv(r, open \ {"body"}, answer)
      BY <1>0, <1>9 DEF Peek, CallInv, CallRecord, CallPlaces
    <2>9. /\ httpCalls' = [httpCalls EXCEPT ![c] = r] /\ responses' = [responses EXCEPT ![c] = open \ {"body"}]
          /\ client' = [client EXCEPT ![c] = answer] /\ UNCHANGED <<ws, form>>
      BY <1>0, <1>9, <1>s, <2>1 DEF Peek, Peeked, Http
    <2> HIDE DEF r
    <2> QED BY <1>0, <2>1, <2>9, CallMoves
  <1>10. CASE ProxyRequest(c)
    <2> DEFINE r == [q EXCEPT !.pc = "before"]
    <2>1. CallInv(r, open, "waits")
      BY <1>0, <1>10 DEF ProxyRequest, CallInv, CallRecord, CallPlaces
    <2>9. /\ httpCalls' = [httpCalls EXCEPT ![c] = r] /\ responses' = [responses EXCEPT ![c] = open]
          /\ client' = [client EXCEPT ![c] = "waits"] /\ UNCHANGED <<ws, form>>
      BY <1>0, <1>10, <1>s, <2>1 DEF ProxyRequest
    <2> HIDE DEF r
    <2> QED BY <1>0, <2>1, <2>9, CallMoves
  <1>11. CASE ProxyBefore(c, b)
    <2> DEFINE r == [q EXCEPT !.pc = "checked"]
               given == IF b THEN "answered" ELSE answer
    <2>1. CallInv(r, open, given)
      BY <1>0, <1>11 DEF ProxyBefore, CallInv, CallRecord, CallPlaces
    <2>9. /\ httpCalls' = [httpCalls EXCEPT ![c] = r] /\ responses' = [responses EXCEPT ![c] = open]
          /\ client' = [client EXCEPT ![c] = given] /\ UNCHANGED <<ws, form>>
      BY <1>0, <1>11, <1>s, <2>1 DEF ProxyBefore, Http
    <2>10. given \in {"none", "waits", "answered", "piped", "twice"}
      BY <1>0
    <2> HIDE DEF r, given
    <2> QED BY <1>0, <2>1, <2>9, <2>10, CallMoves
  <1>12. CASE ProxyForwards(c)
    <2> DEFINE r == IF Forwarded(c) THEN [q EXCEPT !.pc = "prepare", !.kind = ProxyKind]
                    ELSE [q EXCEPT !.pc = "resolved"]
    <2>0. ProxyKind \in Kinds
      BY DEF Kinds
    <2>1. CallInv(r, open, answer)
      BY <1>0, <2>0, <1>12 DEF ProxyForwards, Forwarded, CallInv, CallRecord, CallPlaces
    <2>2. httpCalls' = [httpCalls EXCEPT ![c] = r]
      BY <1>0, <1>12 DEF ProxyForwards, Http, ProxyKind
    <2>9. /\ httpCalls' = [httpCalls EXCEPT ![c] = r] /\ responses' = [responses EXCEPT ![c] = open]
          /\ client' = [client EXCEPT ![c] = answer] /\ UNCHANGED <<ws, form>>
      BY <1>0, <1>12, <1>s, <2>1, <2>2 DEF ProxyForwards
    <2> HIDE DEF r
    <2> QED BY <1>0, <2>1, <2>9, CallMoves
  <1>13. CASE ProxyPipes(c)
    <2> DEFINE given == IF answer = "answered" THEN "twice" ELSE "piped"
    <2>1. CallInv(q, open \ {"handed"}, given)
      BY <1>0, <1>13 DEF ProxyPipes, CallInv, CallRecord, CallPlaces
    <2>2. httpCalls' = [httpCalls EXCEPT ![c] = q]
      BY <1>13, <1>s DEF ProxyPipes
    <2> QED BY <1>0, <1>13, <1>s, <2>1, <2>2, CallMoves DEF ProxyPipes
  <1> QED
    BY <1>1, <1>2, <1>3, <1>4, <1>5, <1>6, <1>7, <1>8, <1>9, <1>10, <1>11, <1>12, <1>13

LEMMA WebSocketKeeps ==
  ASSUME HttpClientInv,
         WsHandle \/ WsOpen \/ WsError \/ WsContextClose \/ WsClose \/ WsHeartbeat
  PROVE  HttpClientInv'
  <1>1. UNCHANGED <<httpCalls, responses, client, form>> /\ WebSocketRecord /\ WebSocketInv
    BY DEF WsHandle, WsOpen, WsError, WsContextClose, WsClose, WsHeartbeat, HttpClientInv
  <1>2. WebSocketRecord' /\ WebSocketInv'
    BY <1>1 DEF WsHandle, WsOpen, WsError, WsContextClose, WsClose, WsClosed, WsHeartbeat, WebSocketRecord, WebSocketInv
  <1> QED BY <1>1, <1>2 DEF HttpClientInv, CallsTyped, FormRecord, FormInv

LEMMA FormKeeps ==
  ASSUME HttpClientInv,
         \/ FormBegins \/ FormField \/ FormClose \/ FormError \/ FormSettles
         \/ \E f \in FormFiles, b \in BOOLEAN : FormFile(f) \/ FormFileEnds(f, b)
  PROVE  HttpClientInv'
  <1>1. UNCHANGED <<httpCalls, responses, client, ws>> /\ FormRecord /\ FormInv
    BY DEF FormBegins, FormField, FormClose, FormError, FormSettles, FormFile, FormFileEnds, HttpClientInv
  <1>2. FormRecord' /\ FormInv'
    <2>1. CASE FormBegins \/ FormField \/ FormClose \/ FormError
      BY <1>1, <2>1 DEF FormBegins, FormField, FormClose, FormError, FormRecord, FormInv
    <2>2. CASE FormSettles
      BY <1>1, <2>2 DEF FormSettles, AllDoneOrOneFailed, FormRecord, FormInv
    <2>3. ASSUME NEW f \in FormFiles, FormFile(f) PROVE FormRecord' /\ FormInv'
      BY <1>1, <2>3 DEF FormFile, FormRecord, FormInv
    <2>4. ASSUME NEW f \in FormFiles, NEW b \in BOOLEAN, FormFileEnds(f, b) PROVE FormRecord' /\ FormInv'
      BY <1>1, <2>4 DEF FormFileEnds, FormRecord, FormInv
    <2> QED BY <2>1, <2>2, <2>3, <2>4
  <1> QED BY <1>1, <1>2 DEF HttpClientInv, CallsTyped, WebSocketRecord, WebSocketInv

LEMMA HttpClientKeeps == HttpClientInv /\ [HttpNext]_httpVars => HttpClientInv'
  <1> SUFFICES ASSUME HttpClientInv, [HttpNext]_httpVars PROVE HttpClientInv'
    OBVIOUS
  <1>1. CASE UNCHANGED httpVars
    BY <1>1 DEF httpVars, HttpClientInv, CallsTyped, WebSocketRecord, WebSocketInv, FormRecord, FormInv
  <1>2. ASSUME NEW c \in HttpCalls, NEW k \in CallKinds, NEW valid \in BOOLEAN, RestRequest(c, k, valid)
        PROVE  HttpClientInv'
    <2>1. k \in Kinds
      BY DEF Kinds
    <2> QED BY <1>2, <2>1, HttpCallsKeep

  <1>4. ASSUME NEW c \in HttpCalls, NEW b \in BOOLEAN,
               \/ Request(c) \/ RequestFails(c) \/ ProxyRequest(c) \/ ProxyForwards(c) \/ ProxyPipes(c)
               \/ RestAuthenticated(c, b) \/ Prepare(c, b) \/ Redirected(c, b) \/ Answered(c, b) \/ BodyRead(c, b)
               \/ Peek(c, b) \/ ProxyBefore(c, b)
        PROVE  HttpClientInv'
    <2> DEFINE k == ProxyKind
    <2>1. k \in Kinds
      BY DEF Kinds
    <2> HIDE DEF k
    <2>2. RestRequest(c, k, b) \/ RestAuthenticated(c, b) \/ Prepare(c, b) \/ Request(c) \/ RequestFails(c)
         \/ Redirected(c, b) \/ Answered(c, b) \/ BodyRead(c, b) \/ Peek(c, b)
         \/ ProxyRequest(c) \/ ProxyBefore(c, b) \/ ProxyForwards(c) \/ ProxyPipes(c)
      BY <1>4
    <2> QED BY <2>1, <2>2, HttpCallsKeep
  <1> QED
    BY <1>1, <1>2, <1>4, WebSocketKeeps, FormKeeps DEF HttpNext

\* Requests, the proxy, websockets and forms settle once and with everything closed that they opened: of a
\* settled call only what was handed over is open, and the responses of redirections that were not followed.
THEOREM HttpClientIsSafe == HttpSpec => []HttpSafe
  <1>1. HttpClientInv => HttpSafe
    <2> SUFFICES ASSUME HttpClientInv PROVE HttpSafe
      OBVIOUS
    <2>1. SettledClosed /\ ProxyAnswersOnce
      BY DEF HttpClientInv, CallInv, SettledClosed, Settled, ProxyAnswersOnce
    <2>2. ClosedIsQuiet
      BY DEF HttpClientInv, WebSocketInv, ClosedIsQuiet
    <2>3. FormComplete
      BY DEF HttpClientInv, FormInv, FormComplete
    <2> QED BY <2>1, <2>2, <2>3 DEF HttpSafe
  <1> QED BY <1>1, HttpClientStarts, HttpClientKeeps, PTL DEF HttpSpec

-----------------------------------------------------------------------------
(* Accounts: the password of a user.                                        *)

UsersSpec == UsersInit /\ [][UsersNext]_usersVars

PasswordType == Passwords \cup {"none"}
UserType == [password : PasswordType, token : Nat, expiration : Nat, lastReset : Int, role : BOOLEAN, exists : BOOLEAN]
UserPcs == {"idle", "create", "role", "delete", "reset", "change", "ended"}
UsersTypeOK ==
  /\ account \in UserType
  /\ userCalls \in [UserCalls -> [pc : UserPcs, token : Nat, password : PasswordType]]
  /\ userClock \in Nat
  /\ IsFiniteSet(issued) /\ \A x \in issued : x[1] \in 1 .. Cardinality(issued)
  /\ uses \in [1 .. Cardinality(UserCalls) -> Nat]

\* A token that the account has was issued and not used; one that was not issued was not used either.
TokensUnused ==
  /\ account.token <= Cardinality(issued)
  /\ \A t \in DOMAIN uses :
       /\ uses[t] <= 1
       /\ t \notin 1 .. Cardinality(issued) \/ (account.token # 0 /\ t = account.token) => uses[t] = 0

\* A user without its role is being created.
RoleComes == account.exists => account.role \/ \E c \in UserCalls : userCalls[c].pc = "role"

UsersInv == UsersTypeOK /\ TokensUnused /\ RoleComes

-----------------------------------------------------------------------------
(* Accounts: the actions that wait for a code.                              *)

PendingSpec == PendingInit /\ [][PendingNext]_pendingVars

ActionType == [id : Nat, timeout : Nat, attempt : Nat]
CodePcs == {"idle", "run", "delete", "count", "ended"}
PendingTypeOK ==
  /\ pending \in ActionType /\ actionCollector \in ActionType
  /\ codeCalls \in [CodeCalls -> [pc : CodePcs, right : BOOLEAN, data : ActionType]]
  /\ pendingClock \in Nat /\ overlapped \in BOOLEAN
  /\ actionRuns \in [1 .. MaxActions -> Nat] /\ attempts \in [1 .. MaxActions -> Nat]
  /\ collections \in [created : 0 .. MaxActions, collected : Nat]

Made == 1 .. collections.created
BusyCall(c) == codeCalls[c].pc \notin {"idle", "ended"}
\* What is stored, or was read, has been created.
ActionsMade ==
  /\ pending # NoAction => pending.id \in Made
  /\ \A c \in CodeCalls : codeCalls[c].pc \in {"run", "count"} => codeCalls[c].data.id \in Made
  /\ \A i \in 1 .. MaxActions : i \notin Made => actionRuns[i] = 0 /\ attempts[i] = 0
\* Without overlapping calls the entry that is stored, or else the one that the only call has read, counts
\* the wrong codes, and has not run.
EntryCounts ==
  /\ \A c, d \in CodeCalls : BusyCall(c) /\ BusyCall(d) => c = d
  /\ \A i \in 1 .. MaxActions : actionRuns[i] <= 1 /\ attempts[i] <= MaxAttempts
  /\ (\A c \in CodeCalls : ~BusyCall(c)) /\ pending # NoAction =>
       actionRuns[pending.id] = 0 /\ attempts[pending.id] <= pending.attempt /\ pending.attempt < MaxAttempts
  /\ \A c \in CodeCalls : codeCalls[c].pc \in {"run", "count"} => actionRuns[codeCalls[c].data.id] = 0
  /\ \A c \in CodeCalls : codeCalls[c].pc = "count" =>
       attempts[codeCalls[c].data.id] <= codeCalls[c].data.attempt + 1 /\ codeCalls[c].data.attempt + 1 < MaxAttempts

PendingInv == PendingTypeOK /\ ActionsMade /\ (overlapped \/ EntryCounts)

-----------------------------------------------------------------------------
(* Accounts: the pages of an administrator.                                 *)

AdminSpec == AdminInit /\ [][AdminNext]_adminVars

Uid == AdminSet \cup {NoUid}
Owners == AdminSet \cup {"me"}
Roles == {"old", "new"}
AppNames == {"a1", "a2"}
RowType == [uid : Uid, roles : Roles]
UpdateType == Uid \X Roles
PageType == [rows : Seq(RowType), updates : Seq(UpdateType), deletions : Seq(Uid)]
ApplyType == [pc : {"none", "put", "delete"}, uid : Uid, roles : Roles \cup {""}]
ViewType == [uid : Uid, of : Owners \cup {NoUid}, version : {0, 1}, changed : BOOLEAN,
             pc : {"none", "fetch", "shown", "put"}, views : Nat]
AppsType == [stored : SUBSET AppNames, rows : Seq(AppNames), deletions : Seq(AppNames), pc : {"none", "delete"}]
AdminTypeOK ==
  /\ admins \in [AdminSet -> Roles \cup {"gone"}]
  /\ tokensOf \in [Owners -> Owners \X {0, 1}]
  /\ page \in PageType /\ fetchAt \in Int
  /\ applies \in [ApplyClicks -> ApplyType]
  /\ \A k \in ApplyClicks : applies[k].pc = "put" => applies[k].roles \in Roles
  /\ view \in ViewType /\ apps \in AppsType
  /\ asked \subseteq Uid \cup AppNames /\ apart \subseteq Uid

\* A user has one row, which is before those that are still to be fetched, and at most one update that waits.
RowsOnce ==
  /\ \A i, j \in DOMAIN page.rows : page.rows[i].uid = page.rows[j].uid /\ page.rows[i].uid \in AdminSet => i = j
  /\ \A i, j \in DOMAIN page.updates : page.updates[i][1] = page.updates[j][1] => i = j
  /\ fetchAt >= 0 => \A i \in DOMAIN page.rows, n \in DOMAIN AdminUids :
       page.rows[i].uid = AdminUids[n] => Cardinality(ListedUpTo(n)) <= fetchAt

\* One "Apply" is at work, unless all users are apart.
OneApply == AdminSet \subseteq apart \/ \A k, l \in ApplyClicks : applies[k].pc # "none" /\ applies[l].pc # "none" => k = l

\* A row displays what its update will store, or what the server has.
RowsKnown == \A u \in AdminSet \ (apart \cup asked) :
  /\ \A r \in ToSet(page.rows) : r.uid = u =>
       \/ <<u, r.roles>> \in ToSet(page.updates)
       \/ admins[u] = r.roles /\ \A e \in ToSet(page.updates) : e[1] # u
  /\ \A e \in ToSet(page.updates) : e[1] = u => \E r \in ToSet(page.rows) : r.uid = u
  /\ \A k \in ApplyClicks : applies[k].pc = "put" /\ applies[k].uid = u => <<u, applies[k].roles>> \in ToSet(page.updates)

\* What was to be deleted is, or waits for it; the deletion that is at work is the first.
DeletionsKnown ==
  /\ \A u \in (asked \cap AdminSet) \ apart : admins[u] = "gone" \/ u \in ToSet(page.deletions)
  /\ AdminSet \subseteq apart \/ \A k \in ApplyClicks : applies[k].pc = "delete" =>
       page.deletions # <<>> /\ page.deletions[1] = applies[k].uid

\* Only what was asked for is deleted.
DeletionsAsked ==
  /\ \A u \in AdminSet : admins[u] = "gone" => u \in asked
  /\ ToSet(page.deletions) \subseteq asked
  /\ \A k \in ApplyClicks : applies[k].pc = "delete" => applies[k].uid \in asked
  /\ ToSet(apps.deletions) \subseteq asked
  /\ AppNames \ apps.stored \subseteq asked

\* The page of a user displays the user it was opened for, while there was one.
ViewKnown ==
  /\ view.pc \in {"shown", "put"} => view.of \in Owners
  /\ view.views = 0 => view.uid = NoUid
  /\ view.pc # "none" <=> view.uid # NoUid
  /\ view.views <= 1 => /\ view.pc \in {"shown", "put"} => view.of = view.uid
                        /\ \A u \in Owners : tokensOf[u][1] = u

AdminInv == AdminTypeOK /\ RowsOnce /\ OneApply /\ RowsKnown /\ DeletionsKnown /\ DeletionsAsked /\ ViewKnown
-----------------------------------------------------------------------------

\* A call that goes on, and everything else as it was.
LEMMA UserCallMoves ==
  ASSUME UsersTypeOK, NEW c \in UserCalls, NEW pc \in UserPcs,
         \E token \in Nat, p \in PasswordType :
           userCalls' = [userCalls EXCEPT ![c] = [pc |-> pc, token |-> token, password |-> p]]
  PROVE  /\ userCalls' \in [UserCalls -> [pc : UserPcs, token : Nat, password : PasswordType]]
         /\ userCalls'[c].pc = pc
         /\ \A d \in UserCalls : d # c => userCalls'[d] = userCalls[d]
  BY DEF UsersTypeOK

\* ... of which only the place is another one.
LEMMA UserGoes ==
  ASSUME UsersTypeOK, NEW c \in UserCalls, NEW pc \in UserPcs,
         userCalls' = [userCalls EXCEPT ![c].pc = pc]
  PROVE  /\ userCalls' \in [UserCalls -> [pc : UserPcs, token : Nat, password : PasswordType]]
         /\ userCalls'[c].pc = pc
         /\ \A d \in UserCalls : d # c => userCalls'[d] = userCalls[d]
  BY DEF UsersTypeOK

\* A call that neither gives the role nor is waited for to give it.
LEMMA RoleKeeps ==
  ASSUME RoleComes, NEW c \in UserCalls, userCalls[c].pc # "role",
         \A d \in UserCalls : d # c => userCalls'[d] = userCalls[d],
         account'.exists => account.exists, account'.exists => account'.role = account.role
  PROVE  RoleComes'
  BY DEF RoleComes

\* No user, and nothing issued.
LEMMA UsersBegin == UsersInit => UsersInv
  <1> SUFFICES ASSUME UsersInit PROVE UsersInv
    OBVIOUS
  <1>1. IsFiniteSet(issued) /\ Cardinality(issued) = 0 /\ issued = {}
    BY FS_EmptySet DEF UsersInit
  <1>2. UsersTypeOK
    BY <1>1 DEF UsersInit, UsersTypeOK, UserType, PasswordType, UserPcs, NoUser, IdleCall
  <1>3. TokensUnused
    BY <1>1 DEF UsersInit, TokensUnused, NoUser
  <1>4. RoleComes
    BY DEF UsersInit, RoleComes, NoUser
  <1> QED BY <1>2, <1>3, <1>4 DEF UsersInv

\* Every step of a handler keeps the invariant of the account.
LEMMA UserStep ==
  ASSUME UsersInv, NEW c \in UserCalls,
         \/ CreateReads(c) \/ CreateStores(c) \/ CreateAddsRole(c) \/ DeleteByAdmin(c) \/ DeleteRemoves(c)
         \/ ResetReads(c) \/ ResetStores(c)
         \/ \E t \in issued : ChangeReads(c, t[1])
         \/ \E p \in Passwords : DeleteReads(c, p) \/ ChangeStores(c, p) \/ \E q \in Passwords : PutPassword(c, p, q)
  PROVE  UsersInv'
  <1> USE DEF UsersInv
  <1>0. /\ UsersTypeOK /\ TokensUnused /\ RoleComes
        /\ account \in UserType /\ userClock \in Nat /\ IsFiniteSet(issued) /\ Cardinality(issued) \in Nat
        /\ {"ended", "create", "role", "reset", "delete", "change"} \subseteq UserPcs
        /\ NoUser \in UserType /\ NewUser \in UserType /\ NewUser.token = 0 /\ NoUser.token = 0 /\ ~NoUser.exists
    <2>1. UsersTypeOK /\ TokensUnused /\ RoleComes
      OBVIOUS
    <2>2. account \in UserType /\ userClock \in Nat /\ IsFiniteSet(issued) /\ Cardinality(issued) \in Nat
      BY <2>1, FS_CardinalityType DEF UsersTypeOK
    <2>3. {"ended", "create", "role", "reset", "delete", "change"} \subseteq UserPcs
      BY DEF UserPcs
    <2>4. NoUser \in UserType /\ NoUser.token = 0 /\ ~NoUser.exists
      BY DEF NoUser, UserType, PasswordType
    <2>5. NewUser \in UserType /\ NewUser.token = 0
      BY <2>4 DEF NewUser, UserType
    <2> QED BY <2>1, <2>2, <2>3, <2>4, <2>5
  <1>1. CASE CreateReads(c)
    <2>1. PICK pc \in UserPcs : pc # "role" /\ userCalls' = [userCalls EXCEPT ![c].pc = pc]
      BY <1>0, <1>1 DEF CreateReads, Ended, Goes
    <2>2. UsersTypeOK' /\ TokensUnused'
      BY <1>0, <1>1, <2>1, UserGoes DEF CreateReads, UsersTypeOK, TokensUnused
    <2>3. RoleComes'
      BY <1>0, <1>1, <2>1, UserGoes, RoleKeeps DEF CreateReads
    <2> QED BY <2>2, <2>3
  <1>2. CASE CreateStores(c)
    <2>1. userCalls' = [userCalls EXCEPT ![c].pc = "role"] /\ account' = NewUser
      BY <1>2 DEF CreateStores, Goes
    <2>2. UsersTypeOK' /\ TokensUnused'
      BY <1>0, <1>2, <2>1, UserGoes DEF CreateStores, UsersTypeOK, TokensUnused
    <2>3. RoleComes'
      BY <1>0, <2>1, UserGoes DEF RoleComes
    <2> QED BY <2>2, <2>3
  <1>3. CASE CreateAddsRole(c)
    <2>1. userCalls' = [userCalls EXCEPT ![c].pc = "ended"]
      BY <1>3 DEF CreateAddsRole, Ended
    <2>2. /\ account' \in UserType /\ account'.token = account.token /\ account'.exists = account.exists
          /\ account.exists => account'.role
      BY <1>0, <1>3 DEF CreateAddsRole, Updated, UserType
    <2>3. UsersTypeOK' /\ TokensUnused'
      BY <1>0, <1>3, <2>1, <2>2, UserGoes DEF CreateAddsRole, UsersTypeOK, TokensUnused
    <2>4. RoleComes'
      BY <2>2 DEF RoleComes
    <2> QED BY <2>3, <2>4
  <1>4. CASE DeleteByAdmin(c) \/ DeleteRemoves(c)
    <2>1. userCalls' = [userCalls EXCEPT ![c].pc = "ended"] /\ account' = NoUser /\ UNCHANGED <<userClock, issued, uses>>
      BY <1>4 DEF DeleteByAdmin, DeleteRemoves, Ended
    <2>2. UsersTypeOK'
      BY <1>0, <2>1, UserGoes DEF UsersTypeOK
    <2>3. TokensUnused'
      BY <1>0, <2>1 DEF TokensUnused
    <2>4. RoleComes'
      BY <1>0, <2>1 DEF RoleComes
    <2> QED BY <2>2, <2>3, <2>4
  <1>5. CASE \E p \in Passwords : DeleteReads(c, p)
    <2>1. PICK p \in Passwords : DeleteReads(c, p)
      BY <1>5
    <2>2. /\ userCalls' \in [UserCalls -> [pc : UserPcs, token : Nat, password : PasswordType]]
          /\ \A d \in UserCalls : d # c => userCalls'[d] = userCalls[d]
      BY <1>0, <2>1 DEF DeleteReads, Ended, UsersTypeOK, PasswordType
    <2>3. UsersTypeOK' /\ TokensUnused'
      BY <1>0, <2>1, <2>2 DEF DeleteReads, UsersTypeOK, TokensUnused
    <2>4. RoleComes'
      BY <1>0, <2>1, <2>2, RoleKeeps DEF DeleteReads
    <2> QED BY <2>3, <2>4
  <1>6. CASE \E p, q \in Passwords : PutPassword(c, p, q)
    <2>1. PICK p \in Passwords, q \in Passwords : PutPassword(c, p, q)
      BY <1>6
    <2>2. userCalls' = [userCalls EXCEPT ![c].pc = "ended"]
      BY <2>1 DEF PutPassword, Ended
    <2>3. /\ account' \in UserType /\ account'.token = account.token /\ account'.exists = account.exists
          /\ account'.role = account.role
      BY <1>0, <2>1 DEF PutPassword, Updated, UserType, PasswordType
    <2>4. UsersTypeOK' /\ TokensUnused'
      BY <1>0, <2>1, <2>2, <2>3, UserGoes DEF PutPassword, UsersTypeOK, TokensUnused
    <2>5. RoleComes'
      BY <1>0, <2>1, <2>2, <2>3, UserGoes, RoleKeeps DEF PutPassword
    <2> QED BY <2>4, <2>5
  <1>7. CASE ResetReads(c)
    <2>1. PICK pc \in UserPcs : pc # "role" /\ userCalls' = [userCalls EXCEPT ![c].pc = pc]
      BY <1>0, <1>7 DEF ResetReads, Ended, Goes
    <2>2. UsersTypeOK' /\ TokensUnused'
      BY <1>0, <1>7, <2>1, UserGoes DEF ResetReads, UsersTypeOK, TokensUnused
    <2>3. RoleComes'
      BY <1>0, <1>7, <2>1, UserGoes, RoleKeeps DEF ResetReads
    <2> QED BY <2>2, <2>3
  <1>8. CASE ResetStores(c)
    <2> DEFINE n == Cardinality(issued)
               x == <<n + 1, userClock>>
    <2>1. userCalls' = [userCalls EXCEPT ![c].pc = "ended"] /\ userCalls[c].pc = "reset" /\ UNCHANGED <<userClock, uses>>
      BY <1>8 DEF ResetStores, Ended
    <2>2. CASE ~account.exists
      <3>1. account' = account /\ issued' = issued
        BY <1>8, <2>2 DEF ResetStores, Updated
      <3>2. UsersTypeOK' /\ TokensUnused'
        BY <1>0, <2>1, <3>1, UserGoes DEF UsersTypeOK, TokensUnused
      <3>3. RoleComes'
        BY <2>2, <3>1 DEF RoleComes
      <3> QED BY <3>2, <3>3
    <2>3. CASE account.exists
      <3>1. /\ account' \in UserType /\ account'.token = n + 1 /\ account'.exists = account.exists
            /\ account'.role = account.role
        <4>1. account' = [account EXCEPT !.token = n + 1, !.expiration = userClock + ResetWindow, !.lastReset = userClock]
          BY <1>8, <2>3 DEF ResetStores, Updated
        <4>2. n + 1 \in Nat /\ userClock + ResetWindow \in Nat /\ userClock \in Int
          BY <1>0, UsersAssumption
        <4> HIDE DEF n
        <4> QED BY <1>0, <4>1, <4>2 DEF UserType
      <3>2. issued' = issued \cup {x}
        BY <1>8, <2>3 DEF ResetStores
      <3>3. x \notin issued
        <4>1. x[1] = n + 1
          OBVIOUS
        <4> QED BY <1>0, <4>1 DEF UsersTypeOK
      <3>4. IsFiniteSet(issued') /\ Cardinality(issued') = n + 1
        BY <1>0, <3>2, <3>3, FS_AddElement
      <3>5. \A y \in issued' : y[1] \in 1 .. Cardinality(issued')
        <4>1. x[1] = n + 1
          OBVIOUS
        <4> QED BY <1>0, <3>2, <3>4, <4>1 DEF UsersTypeOK
      <3>6. UsersTypeOK'
        BY <1>0, <2>1, <3>1, <3>4, <3>5, UserGoes DEF UsersTypeOK
      <3>7. TokensUnused'
        BY <1>0, <2>1, <3>1, <3>4 DEF TokensUnused
      <3>8. RoleComes'
        BY <1>0, <2>1, <3>1, UserGoes, RoleKeeps
      <3> QED BY <3>6, <3>7, <3>8
    <2> QED BY <2>2, <2>3
  <1>9. CASE \E t \in issued : ChangeReads(c, t[1])
    <2>1. PICK t \in issued : ChangeReads(c, t[1])
      BY <1>9
    <2>2. t[1] \in Nat /\ account.password \in PasswordType
      BY <1>0 DEF UsersTypeOK, UserType
    <2>3. /\ userCalls' \in [UserCalls -> [pc : UserPcs, token : Nat, password : PasswordType]]
          /\ \A d \in UserCalls : d # c => userCalls'[d] = userCalls[d]
      BY <1>0, <2>1, <2>2 DEF ChangeReads, UsersTypeOK
    <2>4. UsersTypeOK' /\ TokensUnused'
      BY <1>0, <2>1, <2>3 DEF ChangeReads, UsersTypeOK, TokensUnused
    <2>5. RoleComes'
      BY <1>0, <2>1, <2>3, RoleKeeps DEF ChangeReads
    <2> QED BY <2>4, <2>5
  <1>10. CASE \E p \in Passwords : ChangeStores(c, p)
    <2>1. PICK p \in Passwords : ChangeStores(c, p)
      BY <1>10
    <2>2. userCalls' = [userCalls EXCEPT ![c].pc = "ended"]
      BY <2>1 DEF ChangeStores, Ended
    <2>3. CASE TokenValid(account, userCalls[c].token)
      <3> DEFINE t == account.token
      <3>1. account' = [account EXCEPT !.password = p, !.token = 0] /\ uses' = [uses EXCEPT ![t] = @ + 1] /\ t # 0
        BY <2>1, <2>3 DEF ChangeStores, Changed, TokenValid
      <3>2. account' \in UserType /\ account'.token = 0 /\ account'.exists = account.exists /\ account'.role = account.role
        BY <1>0, <3>1 DEF UserType, PasswordType
      <3>3. uses' \in [1 .. Cardinality(UserCalls) -> Nat]
        <4> DEFINE D == 1 .. Cardinality(UserCalls)
        <4>1. uses \in [D -> Nat]
          BY <1>0 DEF UsersTypeOK
        <4> HIDE DEF D, t
        <4>3. \A d \in D : uses[d] + 1 \in Nat
          BY <4>1
        <4>2. uses' \in [D -> Nat]
          BY <3>1, <4>1, <4>3
        <4> QED BY <4>2 DEF D
      <3>4. UsersTypeOK'
        BY <1>0, <2>1, <2>2, <3>2, <3>3, UserGoes DEF ChangeStores, UsersTypeOK
      <3>5. t \in 1 .. Cardinality(issued)
        BY <1>0, <3>1 DEF TokensUnused, UserType
      <3>6. TokensUnused'
        BY <1>0, <2>1, <3>1, <3>2, <3>3, <3>5 DEF ChangeStores, TokensUnused, UsersTypeOK
      <3>7. RoleComes'
        BY <1>0, <2>1, <2>2, <3>2, UserGoes, RoleKeeps DEF ChangeStores
      <3> QED BY <3>4, <3>6, <3>7
    <2>4. CASE ~TokenValid(account, userCalls[c].token)
      <3>1. account' = account /\ uses' = uses /\ issued' = issued /\ userClock' = userClock /\ userCalls[c].pc = "change"
        BY <2>1, <2>4 DEF ChangeStores
      <3>2. UsersTypeOK' /\ TokensUnused'
        BY <1>0, <2>2, <3>1, UserGoes DEF UsersTypeOK, TokensUnused
      <3>3. RoleComes'
        BY <1>0, <2>2, <3>1, UserGoes, RoleKeeps
      <3> QED BY <3>2, <3>3
    <2> QED BY <2>3, <2>4
  <1> QED BY <1>1, <1>2, <1>3, <1>4, <1>5, <1>6, <1>7, <1>8, <1>9, <1>10

\* ... and so does the clock.
LEMMA UsersKeep == UsersInv /\ [UsersNext]_usersVars => UsersInv'
  <1> SUFFICES ASSUME UsersInv, [UsersNext]_usersVars PROVE UsersInv'
    OBVIOUS
  <1>1. CASE UNCHANGED usersVars
    BY <1>1 DEF usersVars, UsersInv, UsersTypeOK, TokensUnused, RoleComes
  <1>2. CASE UserTick
    BY <1>2 DEF UserTick, UsersInv, UsersTypeOK, TokensUnused, RoleComes
  <1>3. CASE UsersNext /\ ~UserTick
    BY <1>3, UserStep DEF UsersNext
  <1> QED BY <1>1, <1>2, <1>3

\* The steps that leave the calls as they are: while a call is at work the entry matters no more, it will be replaced.
LEMMA EntryStep ==
  ASSUME PendingInv, CreateAction \/ CollectReads \/ CollectDeletes \/ PendingTick
  PROVE  PendingInv'
  <1> USE DEF PendingInv
  <1>0. /\ PendingTypeOK /\ ActionsMade /\ pendingClock \in Nat /\ collections.created \in 0 .. MaxActions
        /\ MaxActions \in Nat /\ MaxAttempts \in Nat \ {0} /\ ActionTimeout \in Nat /\ collections.collected \in Nat
    BY PendingActionsAssumption DEF PendingTypeOK
  <1>1. NoAction \in ActionType /\ NoAction.id = 0
    BY DEF NoAction, ActionType
  <1>2. CASE CreateAction
    <2> DEFINE n == collections.created + 1
               new == [id |-> n, timeout |-> pendingClock + ActionTimeout, attempt |-> 0]
    <2>1. /\ pending' = new /\ collections.created < MaxActions /\ collections' = [collections EXCEPT !.created = n]
          /\ UNCHANGED <<codeCalls, actionCollector, pendingClock, actionRuns, attempts, overlapped>>
      BY <1>2 DEF CreateAction
    <2>2. n \in 1 .. MaxActions /\ n \notin Made
      BY <1>0, <2>1 DEF Made
    <2>3. new \in ActionType /\ new.id = n /\ new.attempt = 0
      BY <1>0, <2>2 DEF ActionType
    <2>4. collections' \in [created : 0 .. MaxActions, collected : Nat] /\ collections'.created = n
      <3>1. collections \in [created : 0 .. MaxActions, collected : Nat] /\ n \in 0 .. MaxActions
        BY <1>0, <2>2 DEF PendingTypeOK
      <3> HIDE DEF n
      <3> QED BY <2>1, <3>1
    <2> HIDE DEF new
    <2>5. PendingTypeOK'
      BY <1>0, <2>1, <2>3, <2>4 DEF PendingTypeOK
    <2>6. Made' = Made \cup {n}
      BY <1>0, <2>4 DEF Made
    <2>7. ActionsMade'
      BY <1>0, <2>1, <2>3, <2>6 DEF ActionsMade
    <2>8. overlapped \/ EntryCounts'
      BY <1>0, <2>1, <2>2, <2>3 DEF EntryCounts, ActionsMade, BusyCall
    <2> QED BY <2>1, <2>5, <2>7, <2>8
  <1>3. CASE CollectReads \/ CollectDeletes \/ PendingTick
    <2>1. /\ UNCHANGED <<codeCalls, actionRuns, attempts, overlapped>> /\ collections'.created = collections.created
          /\ pending' \in {pending, NoAction}
      BY <1>0, <1>3 DEF CollectReads, CollectDeletes, PendingTick, PendingTypeOK
    <2>2. actionCollector' \in ActionType /\ pendingClock' \in Nat /\ pending' \in ActionType
      BY <1>0, <1>1, <1>3, <2>1 DEF CollectReads, CollectDeletes, PendingTick, PendingTypeOK
    <2>3. collections' \in [created : 0 .. MaxActions, collected : Nat]
      BY <1>0, <1>3 DEF CollectReads, CollectDeletes, PendingTick, PendingTypeOK
    <2>4. PendingTypeOK' /\ ActionsMade'
      BY <1>0, <2>1, <2>2, <2>3 DEF PendingTypeOK, ActionsMade, Made
    <2>5. overlapped \/ EntryCounts'
      BY <1>0, <2>1 DEF EntryCounts, BusyCall
    <2> QED BY <2>1, <2>4, <2>5
  <1> QED BY <1>2, <1>3

\* run() reads the entry.
LEMMA CodeCallStep ==
  ASSUME PendingInv, NEW c \in CodeCalls, NEW isRight \in BOOLEAN, RunCall(c, isRight)
  PROVE  PendingInv'
  <1> USE DEF PendingInv
  <1> DEFINE outcome == Outcome(pending, isRight)
             new == [pc |-> outcome, right |-> isRight, data |-> pending]
             counts == outcome \in {"count", "delete"} /\ pendingClock <= pending.timeout
  <1>0. /\ PendingTypeOK /\ ActionsMade /\ pending \in ActionType
        /\ collections.created \in 0 .. MaxActions /\ MaxActions \in Nat /\ MaxAttempts \in Nat \ {0}
        /\ pending.id \in Nat /\ pending.attempt \in Nat /\ pending.timeout \in Nat /\ pendingClock \in Nat
    BY PendingActionsAssumption DEF PendingTypeOK, ActionType
  <1>1. /\ codeCalls[c].pc = "idle" /\ codeCalls' = [codeCalls EXCEPT ![c] = new]
        /\ attempts' = IF counts THEN [attempts EXCEPT ![pending.id] = @ + 1] ELSE attempts
        /\ overlapped' = (overlapped \/ \E d \in CodeCalls : BusyCall(d))
        /\ UNCHANGED <<pending, actionCollector, pendingClock, actionRuns, collections>>
    BY DEF RunCall, BusyCall
  <1>2. /\ outcome \in {"ended", "delete", "run", "count"}
        /\ outcome # "ended" => pending # NoAction
        /\ outcome = "count" => pending.attempt + 1 < MaxAttempts /\ pendingClock <= pending.timeout
    BY <1>0 DEF Outcome
  <1> HIDE DEF outcome
  <1>3. new.pc = outcome /\ new.data = pending /\ new \in [pc : CodePcs, right : BOOLEAN, data : ActionType]
    BY <1>0, <1>2 DEF CodePcs
  <1> HIDE DEF new
  <1>4. /\ codeCalls' \in [CodeCalls -> [pc : CodePcs, right : BOOLEAN, data : ActionType]]
        /\ codeCalls'[c] = new /\ \A d \in CodeCalls : d # c => codeCalls'[d] = codeCalls[d]
    BY <1>0, <1>1, <1>3 DEF PendingTypeOK
  <1>5. pending # NoAction => pending.id \in Made /\ Made \subseteq 1 .. MaxActions
    BY <1>0 DEF ActionsMade, Made
  <1>6. /\ attempts' \in [1 .. MaxActions -> Nat]
        /\ \A i \in 1 .. MaxActions : attempts'[i] = IF counts /\ i = pending.id THEN attempts[i] + 1 ELSE attempts[i]
    <2>1. attempts \in [1 .. MaxActions -> Nat]
      BY <1>0 DEF PendingTypeOK
    <2>2. CASE counts
      <3>1. pending.id \in 1 .. MaxActions /\ attempts' = [attempts EXCEPT ![pending.id] = attempts[pending.id] + 1]
        BY <1>1, <1>2, <1>5, <2>2
      <3>2. attempts[pending.id] + 1 \in Nat
        BY <2>1, <3>1
      <3> QED BY <2>1, <2>2, <3>1, <3>2
    <2>3. CASE ~counts
      BY <1>1, <2>1, <2>3
    <2> QED BY <2>2, <2>3
  <1>7. PendingTypeOK'
    BY <1>0, <1>1, <1>4, <1>6 DEF PendingTypeOK
  <1>8. Made' = Made
    BY <1>1 DEF Made
  <1>9. ActionsMade'
    <2>1. \A i \in 1 .. MaxActions : i \notin Made => actionRuns'[i] = 0 /\ attempts'[i] = 0
      BY <1>0, <1>1, <1>2, <1>5, <1>6 DEF ActionsMade
    <2>2. \A d \in CodeCalls : codeCalls'[d].pc \in {"run", "count"} => codeCalls'[d].data.id \in Made
      BY <1>0, <1>2, <1>3, <1>4, <1>5 DEF ActionsMade
    <2> QED BY <1>0, <1>1, <1>8, <2>1, <2>2 DEF ActionsMade
  <1>10. overlapped' \/ EntryCounts'
    <2> SUFFICES ASSUME ~overlapped' PROVE EntryCounts'
      OBVIOUS
    <2>1. EntryCounts /\ \A d \in CodeCalls : ~BusyCall(d)
      BY <1>1
    <2>2. pending # NoAction => actionRuns[pending.id] = 0 /\ attempts[pending.id] <= pending.attempt /\ pending.attempt < MaxAttempts
      BY <2>1 DEF EntryCounts
    <2>3. \A d \in CodeCalls : d # c => ~BusyCall(d)' /\ codeCalls'[d].pc \notin {"run", "count"}
      BY <1>4, <2>1 DEF BusyCall
    <2>4. BusyCall(c)' <=> outcome # "ended"
      BY <1>2, <1>3, <1>4 DEF BusyCall
    <2>5. \A i \in 1 .. MaxActions : actionRuns'[i] <= 1 /\ attempts'[i] <= MaxAttempts
      <3>1. \A i \in 1 .. MaxActions : actionRuns'[i] <= 1 /\ attempts[i] \in Nat /\ attempts[i] <= MaxAttempts
        BY <1>0, <1>1, <2>1 DEF EntryCounts, PendingTypeOK
      <3>2. counts => attempts[pending.id] + 1 <= MaxAttempts
        <4> SUFFICES ASSUME counts PROVE attempts[pending.id] + 1 <= MaxAttempts
          OBVIOUS
        <4>1. pending # NoAction /\ pending.id \in 1 .. MaxActions
          BY <1>2, <1>5
        <4> QED BY <1>0, <2>2, <3>1, <4>1
      <3> QED BY <1>6, <3>1, <3>2
    <2>6. outcome \in {"run", "count"} => actionRuns'[codeCalls'[c].data.id] = 0
      BY <1>1, <1>2, <1>3, <1>4, <2>2
    <2>7. outcome = "count" => /\ attempts'[codeCalls'[c].data.id] <= codeCalls'[c].data.attempt + 1
                               /\ codeCalls'[c].data.attempt + 1 < MaxAttempts
      <3> SUFFICES ASSUME outcome = "count"
                   PROVE  attempts'[pending.id] <= pending.attempt + 1 /\ pending.attempt + 1 < MaxAttempts
        BY <1>3, <1>4
      <3>1. pending # NoAction /\ pending.id \in 1 .. MaxActions /\ counts
        BY <1>2, <1>5
      <3>2. attempts[pending.id] \in Nat
        BY <1>0, <3>1 DEF PendingTypeOK
      <3> QED BY <1>0, <1>2, <1>6, <2>2, <3>1, <3>2
    <2>8. (\A d \in CodeCalls : ~BusyCall(d)') /\ pending' # NoAction =>
            actionRuns'[pending'.id] = 0 /\ attempts'[pending'.id] <= pending'.attempt /\ pending'.attempt < MaxAttempts
      <3> SUFFICES ASSUME \A d \in CodeCalls : ~BusyCall(d)', pending # NoAction
                   PROVE  actionRuns[pending.id] = 0 /\ attempts'[pending.id] <= pending.attempt /\ pending.attempt < MaxAttempts
        BY <1>1
      <3>1. outcome = "ended" /\ ~counts
        BY <2>4
      <3> QED BY <1>5, <1>6, <2>2, <3>1
    <2> HIDE DEF counts
    <2>9. \A d \in CodeCalls : codeCalls'[d].pc \in {"run", "count"} => d = c /\ outcome = codeCalls'[d].pc
      BY <1>3, <1>4, <2>3
    <2> QED BY <2>3, <2>5, <2>6, <2>7, <2>8, <2>9 DEF EntryCounts
  <1> QED BY <1>7, <1>9, <1>10

\* What run() does then.
LEMMA CodeStep ==
  ASSUME PendingInv, NEW c \in CodeCalls, RunAction(c) \/ RunDeletes(c) \/ RunCounts(c)
  PROVE  PendingInv'
  <1> USE DEF PendingInv
  <1>0. /\ PendingTypeOK /\ ActionsMade /\ codeCalls[c] \in [pc : CodePcs, right : BOOLEAN, data : ActionType]
        /\ collections.created \in 0 .. MaxActions /\ MaxActions \in Nat /\ MaxAttempts \in Nat \ {0}
        /\ {"delete", "ended"} \subseteq CodePcs
    BY PendingActionsAssumption DEF PendingTypeOK, CodePcs
  <1>1. NoAction \in ActionType /\ NoAction.id = 0
    BY DEF NoAction, ActionType
  <1>2. ASSUME NEW pc \in CodePcs, codeCalls' = [codeCalls EXCEPT ![c].pc = pc]
        PROVE  /\ codeCalls' \in [CodeCalls -> [pc : CodePcs, right : BOOLEAN, data : ActionType]]
               /\ codeCalls'[c].pc = pc /\ codeCalls'[c].data = codeCalls[c].data
               /\ \A d \in CodeCalls : d # c => codeCalls'[d] = codeCalls[d]
    BY <1>0, <1>2 DEF PendingTypeOK
  <1>3. Made \subseteq 1 .. MaxActions /\ BusyCall(c)
    BY <1>0 DEF Made, BusyCall, RunAction, RunDeletes, RunCounts
  <1>4. CASE RunAction(c)
    <2> DEFINE i == codeCalls[c].data.id
    <2>1. /\ codeCalls[c].pc = "run" /\ actionRuns' = [actionRuns EXCEPT ![i] = @ + 1]
          /\ codeCalls' = [codeCalls EXCEPT ![c].pc = "delete"]
          /\ UNCHANGED <<pending, actionCollector, pendingClock, attempts, overlapped, collections>>
      BY <1>4 DEF RunAction
    <2>2. i \in Made /\ i \in 1 .. MaxActions /\ actionRuns \in [1 .. MaxActions -> Nat]
      BY <1>0, <1>3, <2>1 DEF ActionsMade, PendingTypeOK
    <2> HIDE DEF i
    <2>3. /\ actionRuns' \in [1 .. MaxActions -> Nat] /\ actionRuns'[i] = actionRuns[i] + 1
          /\ \A j \in 1 .. MaxActions : j # i => actionRuns'[j] = actionRuns[j]
      <3>1. actionRuns[i] + 1 \in Nat
        BY <2>2
      <3> QED BY <2>1, <2>2, <3>1
    <2>4. PendingTypeOK'
      BY <1>0, <1>2, <2>1, <2>3 DEF PendingTypeOK
    <2>5. ActionsMade'
      <3>1. \A d \in CodeCalls : codeCalls'[d].pc \in {"run", "count"} => codeCalls'[d] = codeCalls[d]
        BY <1>0, <1>2, <2>1
      <3> QED BY <1>0, <2>1, <2>2, <2>3, <3>1 DEF ActionsMade, Made
    <2>6. overlapped \/ EntryCounts'
      <3> SUFFICES ASSUME EntryCounts PROVE EntryCounts'
        OBVIOUS
      <3>1. \A d \in CodeCalls : BusyCall(d)' <=> BusyCall(d)
        BY <1>0, <1>2, <1>3, <2>1 DEF BusyCall
      <3>2. \A d \in CodeCalls : codeCalls'[d].pc \notin {"run", "count"}
        BY <1>0, <1>2, <1>3, <2>1 DEF EntryCounts, BusyCall
      <3>3. actionRuns[i] = 0
        BY <2>1 DEF EntryCounts, i
      <3>4. \A j \in 1 .. MaxActions : actionRuns'[j] <= 1
        BY <2>3, <3>3 DEF EntryCounts
      <3> QED BY <1>3, <2>1, <3>1, <3>2, <3>4 DEF EntryCounts
    <2> QED BY <2>1, <2>4, <2>5, <2>6
  <1>5. CASE RunDeletes(c)
    <2>1. /\ pending' = NoAction /\ codeCalls' = [codeCalls EXCEPT ![c].pc = "ended"]
          /\ UNCHANGED <<actionCollector, pendingClock, actionRuns, attempts, overlapped, collections>>
      BY <1>5 DEF RunDeletes, Removed
    <2>2. PendingTypeOK'
      BY <1>0, <1>1, <1>2, <2>1 DEF PendingTypeOK
    <2>3. \A d \in CodeCalls : codeCalls'[d].pc \in {"run", "count"} \/ BusyCall(d)' => codeCalls'[d] = codeCalls[d] /\ BusyCall(d)
      BY <1>0, <1>2, <1>3, <2>1 DEF BusyCall
    <2>4. ActionsMade'
      BY <1>0, <2>1, <2>3 DEF ActionsMade, Made
    <2>5. overlapped \/ EntryCounts'
      BY <2>1, <2>3 DEF EntryCounts
    <2> QED BY <2>1, <2>2, <2>4, <2>5
  <1>6. CASE RunCounts(c)
    <2> DEFINE e == codeCalls[c].data
               new == [e EXCEPT !.attempt = @ + 1]
    <2>1. /\ codeCalls[c].pc = "count" /\ pending' = new /\ codeCalls' = [codeCalls EXCEPT ![c].pc = "ended"]
          /\ UNCHANGED <<actionCollector, pendingClock, actionRuns, attempts, overlapped, collections>>
      BY <1>6 DEF RunCounts
    <2>2. e \in ActionType /\ e.attempt \in Nat
      BY <1>0 DEF ActionType
    <2> HIDE DEF e
    <2>3. new \in ActionType /\ new.id = e.id /\ new.attempt = e.attempt + 1
      BY <2>2 DEF ActionType
    <2> HIDE DEF new
    <2>4. e.id \in Made
      BY <1>0, <2>1 DEF ActionsMade, e
    <2>5. PendingTypeOK'
      BY <1>0, <1>2, <2>1, <2>3 DEF PendingTypeOK
    <2>6. \A d \in CodeCalls : codeCalls'[d].pc \in {"run", "count"} \/ BusyCall(d)' => codeCalls'[d] = codeCalls[d] /\ BusyCall(d)
      BY <1>0, <1>2, <1>3, <2>1 DEF BusyCall
    <2>7. ActionsMade'
      BY <1>0, <2>1, <2>3, <2>4, <2>6 DEF ActionsMade, Made
    <2>8. overlapped \/ EntryCounts'
      <3> SUFFICES ASSUME EntryCounts PROVE EntryCounts'
        OBVIOUS
      <3>1. actionRuns[e.id] = 0 /\ attempts[e.id] <= e.attempt + 1 /\ e.attempt + 1 < MaxAttempts
        BY <2>1 DEF EntryCounts, e
      <3> QED BY <2>1, <2>3, <2>6, <3>1 DEF EntryCounts
    <2> QED BY <2>1, <2>5, <2>7, <2>8
  <1> QED BY <1>4, <1>5, <1>6

\* No action is stored.
LEMMA PendingBegins == PendingInit => PendingInv
  <1> SUFFICES ASSUME PendingInit PROVE PendingInv
    OBVIOUS
  <1>1. NoAction \in ActionType
    BY DEF NoAction, ActionType
  <1>2. NoCodeCall \in [pc : CodePcs, right : BOOLEAN, data : ActionType] /\ NoCodeCall.pc = "idle"
    BY <1>1 DEF NoCodeCall, CodePcs
  <1>3. PendingTypeOK
    <2>1. pending \in ActionType /\ actionCollector \in ActionType /\ pendingClock \in Nat /\ overlapped \in BOOLEAN
      BY <1>1 DEF PendingInit
    <2>2. codeCalls \in [CodeCalls -> [pc : CodePcs, right : BOOLEAN, data : ActionType]]
      BY <1>2 DEF PendingInit
    <2>3. actionRuns \in [1 .. MaxActions -> Nat] /\ attempts \in [1 .. MaxActions -> Nat]
      BY DEF PendingInit
    <2>4. collections \in [created : 0 .. MaxActions, collected : Nat]
      BY PendingActionsAssumption DEF PendingInit
    <2> QED BY <2>1, <2>2, <2>3, <2>4 DEF PendingTypeOK
  <1>4. ActionsMade
    BY <1>2 DEF PendingInit, ActionsMade
  <1>5. EntryCounts
    BY <1>2, PendingActionsAssumption DEF PendingInit, EntryCounts, BusyCall
  <1> QED BY <1>3, <1>4, <1>5 DEF PendingInv

\* Every step of the pending actions keeps their invariant.
LEMMA PendingKeeps == PendingInv /\ [PendingNext]_pendingVars => PendingInv'
  <1> SUFFICES ASSUME PendingInv, [PendingNext]_pendingVars PROVE PendingInv'
    OBVIOUS
  <1>1. CASE UNCHANGED pendingVars
    BY <1>1 DEF pendingVars, PendingInv, PendingTypeOK, ActionsMade, EntryCounts, Made, BusyCall
  <1>2. CASE PendingNext
    BY <1>2, EntryStep, CodeCallStep, CodeStep DEF PendingNext
  <1> QED BY <1>1, <1>2

\* RemoveAt() takes out the element at an index.
LEMMA RemoveAtIs ==
  ASSUME NEW S, NEW q \in Seq(S), NEW i \in 1 .. Len(q)
  PROVE  LET r == RemoveAt(q, i) IN
         /\ r \in Seq(S) /\ Len(r) = Len(q) - 1
         /\ \A k \in 1 .. Len(q) - 1 : r[k] = q[IF k < i THEN k ELSE k + 1]
  <1> DEFINE n == Len(q)
             u == SubSeq(q, 1, i - 1)
             v == SubSeq(q, i + 1, n)
             r == u \o v
  <1>1. n \in Nat /\ i \in Nat /\ i >= 1 /\ i <= n /\ (\A k \in 1 .. n : q[k] \in S)
    BY LenProperties, ElementOfSeq
  <1>2. u \in Seq(S) /\ Len(u) = i - 1 /\ \A k \in 1 .. i - 1 : u[k] = q[k]
    <2>1. /\ u \in Seq(S)
          /\ Len(u) = IF 1 <= i - 1 THEN (i - 1) - 1 + 1 ELSE 0
          /\ \A k \in 1 .. (i - 1) - 1 + 1 : u[k] = q[1 + k - 1]
      BY <1>1, SubSeqProperties
    <2> HIDE DEF u
    <2> QED BY <1>1, <2>1
  <1>3. v \in Seq(S) /\ Len(v) = n - i /\ \A k \in 1 .. n - i : v[k] = q[i + k]
    <2>1. /\ v \in Seq(S)
          /\ Len(v) = IF i + 1 <= n THEN n - (i + 1) + 1 ELSE 0
          /\ \A k \in 1 .. n - (i + 1) + 1 : v[k] = q[(i + 1) + k - 1]
      BY <1>1, SubSeqProperties
    <2> HIDE DEF v
    <2>2. \A k \in 1 .. n - i : (i + 1) + k - 1 = i + k
      BY <1>1
    <2> QED BY <1>1, <2>1, <2>2
  <1>4. RemoveAt(q, i) = r
    BY DEF RemoveAt
  <1> HIDE DEF u, v
  <1>5. /\ r \in Seq(S) /\ Len(r) = Len(u) + Len(v)
        /\ \A k \in 1 .. Len(u) + Len(v) : r[k] = IF k <= Len(u) THEN u[k] ELSE v[k - Len(u)]
    BY <1>2, <1>3, ConcatProperties
  <1> HIDE DEF r
  <1>6. Len(r) = n - 1
    BY <1>1, <1>2, <1>3, <1>5
  <1>7. ASSUME NEW k \in 1 .. n - 1 PROVE r[k] = q[IF k < i THEN k ELSE k + 1]
    <2>1. CASE k < i
      <3>1. k \in 1 .. i - 1
        BY <1>1, <2>1
      <3>2. k \in 1 .. Len(u) + Len(v) /\ k <= Len(u)
        BY <1>1, <1>2, <1>3, <3>1
      <3> QED BY <1>2, <1>5, <2>1, <3>1, <3>2
    <2>2. CASE ~(k < i)
      <3>1. k - (i - 1) \in 1 .. n - i /\ i + (k - (i - 1)) = k + 1
        BY <1>1, <2>2
      <3>2. r[k] = v[k - (i - 1)]
        <4>1. k \in 1 .. Len(u) + Len(v) /\ ~(k <= Len(u)) /\ k - Len(u) = k - (i - 1)
          BY <1>1, <1>2, <1>3, <2>2
        <4> QED BY <1>5, <4>1
      <3> QED BY <1>3, <2>2, <3>1, <3>2
    <2> QED BY <2>1, <2>2
  <1> QED BY <1>4, <1>5, <1>6, <1>7

\* ... and what else there was stays.
LEMMA RemoveAtLeaves ==
  ASSUME NEW S, NEW q \in Seq(S), NEW i \in 1 .. Len(q)
  PROVE  /\ ToSet(RemoveAt(q, i)) = {q[k] : k \in (1 .. Len(q)) \ {i}}
         /\ ToSet(q) = ToSet(RemoveAt(q, i)) \cup {q[i]}
  <1> DEFINE r == RemoveAt(q, i)
  <1>0. Len(q) \in Nat /\ i \in Nat
    BY LenProperties
  <1>1. /\ r \in Seq(S) /\ Len(r) = Len(q) - 1 /\ Len(q) \in Nat /\ i \in Nat
        /\ \A k \in 1 .. Len(q) - 1 : r[k] = q[IF k < i THEN k ELSE k + 1]
    BY <1>0, RemoveAtIs
  <1> HIDE DEF r
  <1>2. DOMAIN r = 1 .. Len(q) - 1 /\ DOMAIN q = 1 .. Len(q)
    BY <1>1, LenProperties
  <1>3. \A k \in 1 .. Len(q) - 1 : \E m \in (1 .. Len(q)) \ {i} : r[k] = q[m]
    <2> TAKE k \in 1 .. Len(q) - 1
    <2> DEFINE m == IF k < i THEN k ELSE k + 1
    <2>1. m \in (1 .. Len(q)) \ {i} /\ r[k] = q[m]
      BY <1>1
    <2> QED BY <2>1
  <1>4. \A m \in (1 .. Len(q)) \ {i} : \E k \in 1 .. Len(q) - 1 : r[k] = q[m]
    <2> TAKE m \in (1 .. Len(q)) \ {i}
    <2> DEFINE k == IF m < i THEN m ELSE m - 1
    <2>1. k \in 1 .. Len(q) - 1 /\ m = (IF k < i THEN k ELSE k + 1)
      BY <1>1
    <2> HIDE DEF k
    <2> QED BY <1>1, <2>1
  <1>5. ToSet(r) = {q[k] : k \in (1 .. Len(q)) \ {i}}
    BY <1>2, <1>3, <1>4 DEF ToSet
  <1>6. ToSet(q) = {q[k] : k \in (1 .. Len(q)) \ {i}} \cup {q[i]}
    BY <1>2 DEF ToSet
  <1> QED BY <1>5, <1>6 DEF r

\* What Append() and Tail() do to the elements.
LEMMA AppendAdds ==
  ASSUME NEW S, NEW q \in Seq(S), NEW x \in S
  PROVE  /\ Append(q, x) \in Seq(S) /\ ToSet(Append(q, x)) = ToSet(q) \cup {x} /\ Append(q, x) # <<>>
         /\ q # <<>> => Append(q, x)[1] = q[1]
  <1>1. /\ Append(q, x) \in Seq(S) /\ Len(Append(q, x)) = Len(q) + 1 /\ Len(q) \in Nat
        /\ \A k \in 1 .. Len(q) : Append(q, x)[k] = q[k]
        /\ Append(q, x)[Len(q) + 1] = x
    BY AppendProperties, LenProperties
  <1>2. DOMAIN Append(q, x) = 1 .. Len(q) + 1 /\ DOMAIN q = 1 .. Len(q)
    BY <1>1, LenProperties
  <1>3. ToSet(Append(q, x)) = ToSet(q) \cup {x}
    BY <1>1, <1>2 DEF ToSet
  <1>4. Append(q, x) # <<>>
    <2>1. Len(<<>>) = 0
      BY EmptySeq
    <2> QED BY <1>1, <2>1
  <1>5. q # <<>> => Append(q, x)[1] = q[1]
    <2>1. q # <<>> => Len(q) \in Nat \ {0}
      BY EmptySeq
    <2> QED BY <1>1, <2>1
  <1> QED BY <1>1, <1>3, <1>4, <1>5

\* Tail() takes out the first.
LEMMA TailLeaves ==
  ASSUME NEW S, NEW q \in Seq(S), q # <<>>
  PROVE  Tail(q) \in Seq(S) /\ ToSet(q) = ToSet(Tail(q)) \cup {q[1]} /\ q[1] \in S
  <1>1. /\ Tail(q) \in Seq(S) /\ Len(Tail(q)) = Len(q) - 1 /\ Len(q) \in Nat /\ Len(q) > 0
        /\ \A k \in 1 .. Len(Tail(q)) : Tail(q)[k] = q[k + 1]
    BY HeadTailProperties, EmptySeq, LenProperties
  <1>2. DOMAIN Tail(q) = 1 .. Len(q) - 1 /\ DOMAIN q = 1 .. Len(q)
    BY <1>1, LenProperties
  <1>3. ToSet(q) \subseteq ToSet(Tail(q)) \cup {q[1]}
    <2> SUFFICES ASSUME NEW k \in 1 .. Len(q) PROVE q[k] \in ToSet(Tail(q)) \cup {q[1]}
      BY <1>2 DEF ToSet
    <2>1. CASE k = 1
      BY <2>1
    <2>2. CASE k # 1
      <3>1. k - 1 \in 1 .. Len(Tail(q)) /\ (k - 1) + 1 = k
        BY <1>1, <2>2
      <3> QED BY <1>1, <1>2, <3>1 DEF ToSet
    <2> QED BY <2>1, <2>2
  <1>4. ToSet(Tail(q)) \cup {q[1]} \subseteq ToSet(q)
    BY <1>1, <1>2 DEF ToSet
  <1>5. q[1] \in S
    BY <1>1, <1>2, ElementOfSeq
  <1> QED BY <1>1, <1>3, <1>4, <1>5

\* The updates that wait are told apart by their user.
UpdatesOnce(q) == \A i, j \in DOMAIN q : q[i][1] = q[j][1] => i = j

\* The elements of a sequence are of the type of its elements.
LEMMA ElementsAre ==
  ASSUME NEW S, NEW q \in Seq(S)
  PROVE  /\ DOMAIN q = 1 .. Len(q) /\ Len(q) \in Nat
         /\ ToSet(q) \subseteq S /\ \A k \in DOMAIN q : q[k] \in S /\ q[k] \in ToSet(q)
         /\ q # <<>> => 1 \in DOMAIN q
  <1>1. DOMAIN q = 1 .. Len(q) /\ Len(q) \in Nat /\ \A k \in DOMAIN q : q[k] \in S
    BY LenProperties, ElementOfSeq
  <1>2. q # <<>> => 1 \in DOMAIN q
    BY <1>1, EmptySeq
  <1> QED BY <1>1, <1>2 DEF ToSet

\* onchange(): the user has the update that was made last, and no other one.
LEMMA WithUpdateIs ==
  ASSUME NEW q \in Seq(UpdateType), UpdatesOnce(q), NEW u \in Uid, NEW v \in Roles
  PROVE  LET r == WithUpdate(q, u, v) IN
         /\ r \in Seq(UpdateType) /\ UpdatesOnce(r)
         /\ ToSet(r) = {x \in ToSet(q) : x[1] # u} \cup {<<u, v>>}
  <1> DEFINE r == WithUpdate(q, u, v)
  <1>1. DOMAIN q = 1 .. Len(q) /\ Len(q) \in Nat /\ \A k \in DOMAIN q : q[k] \in UpdateType
    BY ElementsAre
  <1>2. <<u, v>> \in UpdateType /\ <<u, v>>[1] = u
    BY DEF UpdateType
  <1>3. CASE \E i \in DOMAIN q : q[i][1] = u
    <2>1. r = [i \in DOMAIN q |-> IF q[i][1] = u THEN <<u, v>> ELSE q[i]]
      BY <1>3 DEF WithUpdate
    <2> HIDE DEF r
    <2>2. \A i \in 1 .. Len(q) : r[i] \in UpdateType /\ r[i][1] = q[i][1]
      BY <1>1, <1>2, <2>1
    <2>3. r \in Seq(UpdateType) /\ DOMAIN r = DOMAIN q
      <3>1. DOMAIN r = 1 .. Len(q)
        BY <1>1, <2>1
      <3>2. r \in [1 .. Len(q) -> UpdateType]
        BY <1>1, <2>1, <2>2, <3>1
      <3>3. r \in UNION {[1 .. n -> UpdateType] : n \in Nat}
        BY <1>1, <3>2
      <3> QED BY <1>1, <3>1, <3>3, SeqDef
    <2>4. UpdatesOnce(r)
      BY <1>1, <2>2, <2>3 DEF UpdatesOnce
    <2>5. ToSet(r) = {x \in ToSet(q) : x[1] # u} \cup {<<u, v>>}
      BY <1>2, <1>3, <2>1, <2>3 DEF ToSet
    <2> QED BY <2>3, <2>4, <2>5 DEF r
  <1>4. CASE ~ \E i \in DOMAIN q : q[i][1] = u
    <2>1. r = Append(q, <<u, v>>)
      BY <1>4 DEF WithUpdate
    <2>2. /\ r \in Seq(UpdateType) /\ ToSet(r) = ToSet(q) \cup {<<u, v>>} /\ Len(r) = Len(q) + 1
          /\ r[Len(q) + 1] = <<u, v>> /\ \A i \in 1 .. Len(q) : r[i] = q[i]
      BY <1>2, <2>1, AppendAdds, AppendProperties
    <2> HIDE DEF r
    <2>3. UpdatesOnce(r)
      <3> SUFFICES ASSUME NEW i \in DOMAIN r, NEW j \in DOMAIN r, r[i][1] = r[j][1] PROVE i = j
        BY DEF UpdatesOnce
      <3>1. i \in 1 .. Len(q) + 1 /\ j \in 1 .. Len(q) + 1
        BY <2>2, ElementsAre
      <3>2. \A k \in 1 .. Len(q) : r[k][1] # u
        BY <1>1, <1>4, <2>2
      <3>3. CASE i \in 1 .. Len(q) /\ j \in 1 .. Len(q)
        BY <1>1, <2>2, <3>3 DEF UpdatesOnce
      <3>4. CASE i = Len(q) + 1 \/ j = Len(q) + 1
        BY <1>1, <1>2, <2>2, <3>1, <3>2, <3>4
      <3> QED BY <1>1, <3>1, <3>3, <3>4
    <2>4. {x \in ToSet(q) : x[1] # u} = ToSet(q)
      BY <1>4 DEF ToSet
    <2> QED BY <2>2, <2>3, <2>4 DEF r
  <1> QED BY <1>3, <1>4

\* The answer of an update, and handleDelete(): the user has no update any more.
LEMMA WithoutUpdateIs ==
  ASSUME NEW q \in Seq(UpdateType), UpdatesOnce(q), NEW u
  PROVE  LET r == WithoutUpdate(q, u) IN
         r \in Seq(UpdateType) /\ UpdatesOnce(r) /\ ToSet(r) = {x \in ToSet(q) : x[1] # u}
  <1> DEFINE r == WithoutUpdate(q, u)
             at == {i \in DOMAIN q : q[i][1] = u}
  <1>1. DOMAIN q = 1 .. Len(q) /\ Len(q) \in Nat
    BY ElementsAre
  <1>2. CASE at = {}
    <2>1. r = q
      BY <1>2 DEF WithoutUpdate
    <2>2. {x \in ToSet(q) : x[1] # u} = ToSet(q)
      BY <1>2 DEF ToSet
    <2> QED BY <2>1, <2>2
  <1>3. CASE at # {}
    <2> DEFINE m == Min(at)
    <2>1. m \in 1 .. Len(q) /\ q[m][1] = u
      <3>1. at \in SUBSET Nat
        BY <1>1
      <3>2. m \in at
        BY <1>3, <3>1, LeastIsIn
      <3> QED BY <1>1, <3>2
    <2>2. r = RemoveAt(q, m)
      BY <1>3 DEF WithoutUpdate
    <2> HIDE DEF m
    <2>3. /\ r \in Seq(UpdateType) /\ Len(r) = Len(q) - 1
          /\ \A k \in 1 .. Len(q) - 1 : r[k] = q[IF k < m THEN k ELSE k + 1]
      BY <2>1, <2>2, RemoveAtIs
    <2>4. ToSet(r) = {q[k] : k \in (1 .. Len(q)) \ {m}}
      BY <2>1, <2>2, RemoveAtLeaves
    <2> HIDE DEF r
    <2>5. UpdatesOnce(r)
      <3> SUFFICES ASSUME NEW i \in DOMAIN r, NEW j \in DOMAIN r, r[i][1] = r[j][1] PROVE i = j
        BY DEF UpdatesOnce
      <3>1. i \in 1 .. Len(q) - 1 /\ j \in 1 .. Len(q) - 1
        BY <2>3, ElementsAre
      <3> DEFINE a == IF i < m THEN i ELSE i + 1
                 b == IF j < m THEN j ELSE j + 1
      <3>2. a \in DOMAIN q /\ b \in DOMAIN q /\ (a = b => i = j)
        BY <1>1, <2>1, <3>1
      <3>3. r[i] = q[a] /\ r[j] = q[b]
        BY <2>3, <3>1
      <3> HIDE DEF a, b
      <3> QED BY <3>2, <3>3 DEF UpdatesOnce
    <2>6. \A k \in (1 .. Len(q)) \ {m} : q[k][1] # u
      BY <1>1, <2>1 DEF UpdatesOnce
    <2>7. ToSet(r) = {x \in ToSet(q) : x[1] # u}
      BY <1>1, <2>1, <2>4, <2>6 DEF ToSet
    <2> QED BY <2>3, <2>5, <2>7 DEF r
  <1> QED BY <1>2, <1>3

\* A user that was deleted is not listed again, so that the users listed up to one of them do not become more.
LEMMA ListedShrinks ==
  ASSUME NEW n \in Nat, \A m \in 1 .. n : admins[AdminUids[m]] = "gone" => admins'[AdminUids[m]] = "gone"
  PROVE  /\ Cardinality(ListedUpTo(n)) \in Nat /\ Cardinality(ListedUpTo(n)') \in Nat
         /\ Cardinality(ListedUpTo(n)') <= Cardinality(ListedUpTo(n))
  <1>1. IsFiniteSet(ListedUpTo(n))
    <2>1. IsFiniteSet(1 .. n) /\ ListedUpTo(n) \in SUBSET (1 .. n)
      BY FS_Interval DEF ListedUpTo
    <2> QED BY <2>1, FS_Subset
  <1>2. ListedUpTo(n)' \in SUBSET ListedUpTo(n)
    BY DEF ListedUpTo
  <1> QED BY <1>1, <1>2, FS_Subset, FS_CardinalityType

\* The request that "Apply" makes next is the first that waits.
LEMMA NextRequestIs ==
  ASSUME NEW p \in PageType
  PROVE  /\ NextRequest(p) \in ApplyType
         /\ NextRequest(p).pc = "put" => /\ <<NextRequest(p).uid, NextRequest(p).roles>> \in ToSet(p.updates)
                                         /\ NextRequest(p).roles \in Roles
         /\ NextRequest(p).pc = "delete" => /\ p.deletions # <<>> /\ NextRequest(p).uid = p.deletions[1]
                                            /\ p.deletions[1] \in ToSet(p.deletions)
         /\ NextRequest(p).pc = "none" <=> ~HasChanges(p)
  <1> DEFINE c == NextRequest(p)
  <1>0. p.updates \in Seq(UpdateType) /\ p.deletions \in Seq(Uid)
    BY DEF PageType
  <1>1. CASE HasUpdates(p)
    <2> DEFINE e == p.updates[1]
    <2>1. e \in UpdateType /\ e \in ToSet(p.updates)
      BY <1>0, <1>1, ElementsAre DEF HasUpdates
    <2>2. c = [pc |-> "put", uid |-> e[1], roles |-> e[2]]
      BY <1>1 DEF NextRequest
    <2> HIDE DEF c, e
    <2>3. e[1] \in Uid /\ e[2] \in Roles /\ <<e[1], e[2]>> = e
      BY <2>1 DEF UpdateType
    <2>4. c \in ApplyType /\ c.pc = "put" /\ c.uid = e[1] /\ c.roles = e[2]
      BY <2>2, <2>3 DEF ApplyType
    <2> QED BY <1>1, <2>1, <2>3, <2>4 DEF c, HasChanges
  <1>2. CASE ~HasUpdates(p) /\ HasDeletions(p)
    <2> DEFINE e == p.deletions[1]
    <2>1. e \in Uid /\ e \in ToSet(p.deletions) /\ p.deletions # <<>>
      BY <1>0, <1>2, ElementsAre DEF HasDeletions
    <2>2. c = [pc |-> "delete", uid |-> e, roles |-> ""]
      BY <1>2 DEF NextRequest
    <2> HIDE DEF c, e
    <2>3. c \in ApplyType /\ c.pc = "delete" /\ c.uid = e
      BY <2>1, <2>2 DEF ApplyType
    <2> QED BY <1>2, <2>1, <2>3 DEF c, e, HasChanges
  <1>3. CASE ~HasUpdates(p) /\ ~HasDeletions(p)
    <2>1. c = NoApply
      BY <1>3 DEF NextRequest
    <2> HIDE DEF c
    <2>2. c \in ApplyType /\ c.pc = "none"
      BY <2>1 DEF ApplyType, NoApply, Uid
    <2> QED BY <1>3, <2>2 DEF c, HasChanges
  <1> QED BY <1>1, <1>2, <1>3

-----------------------------------------------------------------------------
(* Accounts: the steps of the pages of an administrator.                    *)

\* Nothing was fetched, changed or asked for.
LEMMA AdminBegins == AdminInit => AdminInv
  <1> SUFFICES ASSUME AdminInit PROVE AdminInv
    OBVIOUS
  <1>1. <<>> \in Seq(RowType) /\ <<>> \in Seq(UpdateType) /\ <<>> \in Seq(Uid) /\ <<>> \in Seq(AppNames)
    BY EmptySeq
  <1>2. <<"a1", "a2">> \in Seq(AppNames)
    BY DEF AppNames
  <1>3. AdminTypeOK
    <2>1. page \in PageType
      BY <1>1 DEF AdminInit, PageType
    <2>2. admins \in [AdminSet -> Roles \cup {"gone"}] /\ tokensOf \in [Owners -> Owners \X {0, 1}]
      BY DEF AdminInit, Roles, Owners
    <2>3. applies \in [ApplyClicks -> ApplyType] /\ \A k \in ApplyClicks : applies[k].pc = "none"
      BY DEF AdminInit, NoApply, ApplyType, Uid
    <2>4. view \in ViewType
      BY DEF AdminInit, ViewType, Uid
    <2>5. apps \in AppsType
      BY <1>1, <1>2 DEF AdminInit, AppsType, AppNames
    <2>6. fetchAt \in Int /\ asked \subseteq Uid \cup AppNames /\ apart \subseteq Uid
      BY DEF AdminInit
    <2> QED BY <2>1, <2>2, <2>3, <2>4, <2>5, <2>6 DEF AdminTypeOK
  <1>4. /\ page.rows = <<>> /\ page.updates = <<>> /\ page.deletions = <<>> /\ apps.deletions = <<>> /\ apps.stored = AppNames
        /\ \A k \in ApplyClicks : applies[k].pc = "none"
        /\ DOMAIN page.rows = {} /\ DOMAIN page.updates = {} /\ ToSet(page.rows) = {} /\ ToSet(page.updates) = {}
        /\ ToSet(page.deletions) = {} /\ ToSet(apps.deletions) = {}
        /\ asked = {} /\ \A u \in AdminSet : admins[u] # "gone"
    <2>1. /\ page.rows = <<>> /\ page.updates = <<>> /\ page.deletions = <<>> /\ apps.deletions = <<>> /\ apps.stored = AppNames
          /\ asked = {} /\ (\A u \in AdminSet : admins[u] # "gone") /\ \A k \in ApplyClicks : applies[k].pc = "none"
      BY DEF AdminInit, NoApply, AppNames
    <2>2. DOMAIN <<>> = {}
      OBVIOUS
    <2> QED BY <2>1, <2>2 DEF ToSet
  <1>5. RowsOnce /\ OneApply /\ RowsKnown
    BY <1>4 DEF RowsOnce, OneApply, RowsKnown
  <1>6. DeletionsKnown /\ DeletionsAsked
    BY <1>4 DEF DeletionsKnown, DeletionsAsked
  <1>7. ViewKnown
    BY DEF AdminInit, ViewKnown, Owners
  <1> QED BY <1>3, <1>5, <1>6, <1>7 DEF AdminInv

\* The index of a user in the list of the server.
LEMMA UidsAre ==
  /\ DOMAIN AdminUids = 1 .. Len(AdminUids) /\ Len(AdminUids) \in Nat
  /\ \A n \in DOMAIN AdminUids : AdminUids[n] \in AdminSet /\ AdminUids[n] # NoUid
  /\ \A m, n \in DOMAIN AdminUids : AdminUids[m] = AdminUids[n] => m = n
  <1>1. DOMAIN AdminUids = 1 .. Len(AdminUids) /\ Len(AdminUids) \in Nat
    BY AdminAssumption, ElementsAre
  <1>2. \A n \in DOMAIN AdminUids : AdminUids[n] \in AdminSet /\ AdminUids[n] # NoUid
    BY AdminAssumption DEF AdminSet, ToSet
  <1>3. \A m, n \in DOMAIN AdminUids : AdminUids[m] = AdminUids[n] => m = n
    BY AdminAssumption DEF IsInjective
  <1> QED BY <1>1, <1>2, <1>3

\* The rows after another one was added at their end.
LEMMA RowAdded ==
  ASSUME AdminInv, NEW r \in RowType, page' = [page EXCEPT !.rows = Append(@, r)]
  PROVE  /\ page' \in PageType /\ page'.updates = page.updates /\ page'.deletions = page.deletions
         /\ ToSet(page'.rows) = ToSet(page.rows) \cup {r}
         /\ DOMAIN page'.rows = 1 .. Len(page.rows) + 1 /\ Len(page.rows) \in Nat /\ DOMAIN page.rows = 1 .. Len(page.rows)
         /\ page'.rows[Len(page.rows) + 1] = r /\ \A i \in 1 .. Len(page.rows) : page'.rows[i] = page.rows[i]
  <1>1. page \in PageType /\ page.rows \in Seq(RowType)
    BY DEF AdminInv, AdminTypeOK, PageType
  <1> DEFINE q == page.rows
             s == Append(q, r)
  <1>2. s \in Seq(RowType) /\ ToSet(s) = ToSet(q) \cup {r}
    BY <1>1, AppendAdds
  <1>3. /\ DOMAIN s = 1 .. Len(q) + 1 /\ Len(q) \in Nat /\ DOMAIN q = 1 .. Len(q)
        /\ s[Len(q) + 1] = r /\ \A i \in 1 .. Len(q) : s[i] = q[i]
    BY <1>1, AppendProperties, ElementsAre
  <1>4. page' = [page EXCEPT !.rows = s]
    OBVIOUS
  <1> HIDE DEF s
  <1>5. page' \in PageType /\ page'.updates = page.updates /\ page'.deletions = page.deletions /\ page'.rows = s
    BY <1>1, <1>2, <1>4 DEF PageType
  <1> QED BY <1>2, <1>3, <1>5

\* handleFetch(): the row of a user that has none yet, as the server has it.
LEMMA HandleFetchStep == ASSUME AdminInv, HandleFetch PROVE AdminInv'
  <1> DEFINE q == page.rows
  <1>0. /\ AdminTypeOK /\ RowsOnce /\ OneApply /\ RowsKnown /\ DeletionsKnown /\ DeletionsAsked /\ ViewKnown
        /\ page \in PageType /\ fetchAt \in Int /\ fetchAt >= 0
        /\ UNCHANGED <<admins, tokensOf, applies, view, apps, asked, apart>>
    BY DEF AdminInv, AdminTypeOK, HandleFetch
  <1>1. CASE UNCHANGED page /\ fetchAt' = -1
    <2>1. AdminTypeOK'
      BY <1>0, <1>1 DEF AdminTypeOK
    <2>3. RowsOnce'
      BY <1>0, <1>1 DEF RowsOnce
    <2>2. (OneApply /\ RowsKnown /\ DeletionsKnown /\ DeletionsAsked /\ ViewKnown)'
      BY <1>0, <1>1 DEF OneApply, RowsKnown, DeletionsKnown, DeletionsAsked, ViewKnown
    <2> QED BY <2>1, <2>2, <2>3 DEF AdminInv
  <1>2. CASE \E n \in ListedUpTo(Len(AdminUids)) :
               /\ Cardinality(ListedUpTo(n)) = fetchAt + 1
               /\ page' = [page EXCEPT !.rows = Append(@, [uid |-> AdminUids[n], roles |-> admins[AdminUids[n]]])]
               /\ fetchAt' \in {fetchAt + 1, -1}
    <2>1. PICK n \in ListedUpTo(Len(AdminUids)) :
               /\ Cardinality(ListedUpTo(n)) = fetchAt + 1
               /\ page' = [page EXCEPT !.rows = Append(@, [uid |-> AdminUids[n], roles |-> admins[AdminUids[n]]])]
               /\ fetchAt' \in {fetchAt + 1, -1}
      BY <1>2
    <2> DEFINE r == [uid |-> AdminUids[n], roles |-> admins[AdminUids[n]]]
               u == AdminUids[n]
    <2>2. n \in DOMAIN AdminUids /\ admins[u] # "gone" /\ u \in AdminSet
      BY <2>1, UidsAre DEF ListedUpTo
    <2>3. r \in RowType /\ r.uid = u /\ r.roles = admins[u]
      BY <1>0, <2>2 DEF AdminTypeOK, RowType, Uid
    <2>4. page' = [page EXCEPT !.rows = Append(@, r)]
      BY <2>1
    <2> HIDE DEF r
    <2>5. /\ page' \in PageType /\ page'.updates = page.updates /\ page'.deletions = page.deletions
          /\ ToSet(page'.rows) = ToSet(page.rows) \cup {r}
          /\ DOMAIN page'.rows = 1 .. Len(q) + 1 /\ Len(q) \in Nat /\ DOMAIN q = 1 .. Len(q)
          /\ page'.rows[Len(q) + 1] = r /\ \A i \in 1 .. Len(q) : page'.rows[i] = q[i]
      BY <2>3, <2>4, RowAdded
    <2>6. \A i \in DOMAIN q : q[i].uid # u
      BY <1>0, <2>1, <2>2 DEF RowsOnce
    <2>7. \A e \in ToSet(page.updates) : u \notin apart \cup asked => e[1] # u
      BY <1>0, <2>2, <2>6 DEF RowsKnown, ToSet
    <2>8. AdminTypeOK'
      BY <1>0, <2>1, <2>5 DEF AdminTypeOK
    <2>9. RowsOnce'
      <3>1. \A i \in DOMAIN page'.rows : i = Len(q) + 1 \/ i \in DOMAIN q
        BY <2>5
      <3>2. \A i, j \in DOMAIN page'.rows : page'.rows[i].uid = page'.rows[j].uid /\ page'.rows[i].uid \in AdminSet => i = j
        BY <1>0, <2>3, <2>5, <2>6, <3>1 DEF RowsOnce
      <3>3. \A m \in DOMAIN AdminUids : ListedUpTo(m)' = ListedUpTo(m)
        BY <1>0 DEF ListedUpTo
      <3>4. fetchAt' >= 0 => \A i \in DOMAIN page'.rows, m \in DOMAIN AdminUids :
              page'.rows[i].uid = AdminUids[m] => Cardinality(ListedUpTo(m)) <= fetchAt'
        <4> SUFFICES ASSUME fetchAt' >= 0, NEW i \in DOMAIN page'.rows, NEW m \in DOMAIN AdminUids,
                            page'.rows[i].uid = AdminUids[m]
                     PROVE  Cardinality(ListedUpTo(m)) <= fetchAt'
          OBVIOUS
        <4>1. fetchAt' = fetchAt + 1 /\ Cardinality(ListedUpTo(m)) \in Nat
          BY <1>0, <2>1, UidsAre, ListedShrinks
        <4>2. CASE i = Len(q) + 1
          BY <1>0, <2>1, <2>2, <2>3, <2>5, <4>1, <4>2, UidsAre
        <4>3. CASE i \in DOMAIN q
          <5>1. Cardinality(ListedUpTo(m)) <= fetchAt
            BY <1>0, <2>5, <4>3 DEF RowsOnce
          <5> QED BY <1>0, <4>1, <5>1
        <4> QED BY <3>1, <4>2, <4>3
      <3> QED BY <1>0, <2>5, <3>2, <3>3, <3>4 DEF RowsOnce
    <2>10. RowsKnown'
      BY <1>0, <2>3, <2>5, <2>7 DEF RowsKnown
    <2>11. (OneApply /\ DeletionsKnown /\ DeletionsAsked /\ ViewKnown)'
      BY <1>0, <2>5 DEF OneApply, DeletionsKnown, DeletionsAsked, ViewKnown
    <2> QED BY <2>8, <2>9, <2>10, <2>11 DEF AdminInv
  <1> QED BY <1>0, <1>1, <1>2 DEF HandleFetch

\* handleCreate(): the row that is added is no user's.
LEMMA HandleCreateStep == ASSUME AdminInv, HandleCreate PROVE AdminInv'
  <1> DEFINE q == page.rows
             r == [uid |-> NoUid, roles |-> "old"]
  <1>0. /\ AdminTypeOK /\ RowsOnce /\ OneApply /\ RowsKnown /\ DeletionsKnown /\ DeletionsAsked /\ ViewKnown
        /\ page \in PageType
        /\ UNCHANGED <<admins, tokensOf, fetchAt, applies, view, apps, asked, apart>>
    BY DEF AdminInv, AdminTypeOK, HandleCreate
  <1>1. CASE UNCHANGED page
    <2>1. AdminTypeOK'
      BY <1>0, <1>1 DEF AdminTypeOK
    <2>3. RowsOnce'
      BY <1>0, <1>1 DEF RowsOnce, ListedUpTo
    <2>2. (OneApply /\ RowsKnown /\ DeletionsKnown /\ DeletionsAsked /\ ViewKnown)'
      BY <1>0, <1>1 DEF OneApply, RowsKnown, DeletionsKnown, DeletionsAsked, ViewKnown
    <2> QED BY <2>1, <2>2, <2>3 DEF AdminInv
  <1>2. CASE page' = [page EXCEPT !.rows = Append(@, r)]
    <2>1. r \in RowType /\ r.uid = NoUid /\ NoUid \notin AdminSet
      BY AdminAssumption DEF RowType, Uid, Roles
    <2>2. page' = [page EXCEPT !.rows = Append(@, r)]
      BY <1>2
    <2> HIDE DEF r
    <2>3. /\ page' \in PageType /\ page'.updates = page.updates /\ page'.deletions = page.deletions
          /\ ToSet(page'.rows) = ToSet(page.rows) \cup {r}
          /\ DOMAIN page'.rows = 1 .. Len(q) + 1 /\ Len(q) \in Nat /\ DOMAIN q = 1 .. Len(q)
          /\ page'.rows[Len(q) + 1] = r /\ \A i \in 1 .. Len(q) : page'.rows[i] = q[i]
      BY <2>1, <2>2, RowAdded
    <2>4. AdminTypeOK'
      BY <1>0, <2>3 DEF AdminTypeOK
    <2>5. RowsOnce'
      <3>1. \A i \in DOMAIN page'.rows : i = Len(q) + 1 \/ i \in DOMAIN q
        BY <2>3
      <3>2. \A i, j \in DOMAIN page'.rows : page'.rows[i].uid = page'.rows[j].uid /\ page'.rows[i].uid \in AdminSet => i = j
        BY <1>0, <2>1, <2>3, <3>1 DEF RowsOnce
      <3>3. \A m \in DOMAIN AdminUids : ListedUpTo(m)' = ListedUpTo(m)
        BY <1>0 DEF ListedUpTo
      <3>4. fetchAt >= 0 => \A i \in DOMAIN page'.rows, m \in DOMAIN AdminUids :
              page'.rows[i].uid = AdminUids[m] => Cardinality(ListedUpTo(m)) <= fetchAt
        BY <1>0, <2>1, <2>3, <3>1, UidsAre DEF RowsOnce
      <3> QED BY <1>0, <2>3, <3>2, <3>3, <3>4 DEF RowsOnce
    <2>6. RowsKnown'
      BY <1>0, <2>1, <2>3 DEF RowsKnown
    <2>7. (OneApply /\ DeletionsKnown /\ DeletionsAsked /\ ViewKnown)'
      BY <1>0, <2>3 DEF OneApply, DeletionsKnown, DeletionsAsked, ViewKnown
    <2> QED BY <2>4, <2>5, <2>6, <2>7 DEF AdminInv
  <1> QED BY <1>1, <1>2 DEF HandleCreate, HandleSubmit

\* onchange(): the row, and the update that waits for it.
LEMMA OnchangeStep ==
  ASSUME AdminInv, NEW i \in DOMAIN page.rows, NEW v \in Roles, Onchange(i, v)
  PROVE  AdminInv'
  <1> DEFINE q == page.rows
             u == q[i].uid
             ups == WithUpdate(page.updates, u, v)
             s == [q EXCEPT ![i].roles = v]
  <1>0. /\ AdminTypeOK /\ RowsOnce /\ OneApply /\ RowsKnown /\ DeletionsKnown /\ DeletionsAsked /\ ViewKnown
        /\ page \in PageType /\ q \in Seq(RowType) /\ page.updates \in Seq(UpdateType)
        /\ UNCHANGED <<admins, tokensOf, fetchAt, applies, view, apps, asked>>
    BY DEF AdminInv, AdminTypeOK, PageType, Onchange
  <1>1. DOMAIN q = 1 .. Len(q) /\ Len(q) \in Nat /\ (\A k \in DOMAIN q : q[k] \in RowType) /\ u \in Uid
    <2>1. DOMAIN q = 1 .. Len(q) /\ Len(q) \in Nat /\ \A k \in DOMAIN q : q[k] \in RowType
      BY <1>0, ElementsAre
    <2> QED BY <2>1 DEF RowType
  <1>2. page' = [page EXCEPT !.rows = s, !.updates = ups]
    BY DEF Onchange
  <1>3. apart' = apart \/ apart' = apart \cup {u}
    BY DEF Onchange
  <1>4. (\E k \in ApplyClicks : applies[k].pc = "put" /\ applies[k].uid = u) => u \in apart'
    BY DEF Onchange
  <1>5. /\ s \in Seq(RowType) /\ DOMAIN s = DOMAIN q /\ s[i].uid = u /\ s[i].roles = v
        /\ \A k \in DOMAIN q : s[k].uid = q[k].uid /\ (k # i => s[k] = q[k])
    <2>1. \A k \in 1 .. Len(q) : s[k] \in RowType /\ s[k].uid = q[k].uid /\ (k # i => s[k] = q[k])
      BY <1>1 DEF RowType
    <2>2. [q[i] EXCEPT !.roles = v] \in RowType
      BY <1>1 DEF RowType
    <2>3. s \in Seq(RowType) /\ DOMAIN s = DOMAIN q
      BY <1>0, <1>1, <2>2, ExceptSeq
    <2>4. s[i].uid = u /\ s[i].roles = v
      BY <1>1 DEF RowType
    <2> QED BY <1>1, <2>1, <2>3, <2>4
  <1>6. UpdatesOnce(page.updates)
    BY <1>0 DEF RowsOnce, UpdatesOnce
  <1>7. /\ ups \in Seq(UpdateType) /\ UpdatesOnce(ups)
        /\ ToSet(ups) = {x \in ToSet(page.updates) : x[1] # u} \cup {<<u, v>>}
    BY <1>0, <1>1, <1>6, WithUpdateIs
  <1> HIDE DEF s, ups
  <1>8. page' \in PageType /\ page'.rows = s /\ page'.updates = ups /\ page'.deletions = page.deletions
    BY <1>0, <1>2, <1>5, <1>7 DEF PageType
  <1>9. AdminTypeOK'
    BY <1>0, <1>1, <1>3, <1>8 DEF AdminTypeOK
  <1>10. RowsOnce'
    <2>1. \A k, l \in DOMAIN s : s[k].uid = s[l].uid /\ s[k].uid \in AdminSet => k = l
      BY <1>0, <1>5 DEF RowsOnce
    <2>2. \A k, l \in DOMAIN ups : ups[k][1] = ups[l][1] => k = l
      BY <1>7 DEF UpdatesOnce
    <2>3. \A m \in DOMAIN AdminUids : ListedUpTo(m)' = ListedUpTo(m)
      BY <1>0 DEF ListedUpTo
    <2>4. fetchAt >= 0 => \A k \in DOMAIN s, m \in DOMAIN AdminUids :
             s[k].uid = AdminUids[m] => Cardinality(ListedUpTo(m)) <= fetchAt
      BY <1>0, <1>5 DEF RowsOnce
    <2> QED BY <1>0, <1>8, <2>1, <2>2, <2>3, <2>4 DEF RowsOnce
  <1>11. RowsKnown'
    <2> SUFFICES ASSUME NEW w \in AdminSet \ (apart' \cup asked)
                 PROVE  /\ \A r \in ToSet(s) : r.uid = w =>
                             \/ <<w, r.roles>> \in ToSet(ups)
                             \/ admins[w] = r.roles /\ \A e \in ToSet(ups) : e[1] # w
                        /\ \A e \in ToSet(ups) : e[1] = w => \E r \in ToSet(s) : r.uid = w
                        /\ \A k \in ApplyClicks : applies[k].pc = "put" /\ applies[k].uid = w =>
                             <<w, applies[k].roles>> \in ToSet(ups)
      BY <1>0, <1>8 DEF RowsKnown
    <2>1. w \in AdminSet \ (apart \cup asked)
      BY <1>3
    <2>2. CASE w = u
      <3>1. ASSUME NEW r \in ToSet(s), r.uid = w PROVE r = s[i]
        <4>1. PICK k \in DOMAIN q : r = s[k]
          BY <1>5 DEF ToSet
        <4>2. k = i
          BY <1>0, <1>5, <2>1, <2>2, <3>1, <4>1 DEF RowsOnce
        <4> QED BY <4>1, <4>2
      <3>2. <<w, v>> \in ToSet(ups) /\ s[i] \in ToSet(s)
        BY <1>5, <1>7, <2>2 DEF ToSet
      <3>3. \A k \in ApplyClicks : ~(applies[k].pc = "put" /\ applies[k].uid = w)
        BY <1>4, <2>2
      <3> QED BY <1>5, <2>2, <3>1, <3>2, <3>3
    <2>3. CASE w # u
      <3>1. \A r \in ToSet(s) : r.uid = w => r \in ToSet(q)
        BY <1>5, <2>3 DEF ToSet
      <3>2. \A r \in ToSet(q) : r.uid = w => r \in ToSet(s)
        BY <1>5, <2>3 DEF ToSet
      <3>3. \A x : x \in ToSet(ups) /\ x[1] = w <=> x \in ToSet(page.updates) /\ x[1] = w
        BY <1>7, <2>3
      <3>4. \A y : <<w, y>>[1] = w
        OBVIOUS
      <3> QED BY <1>0, <2>1, <3>1, <3>2, <3>3, <3>4 DEF RowsKnown
    <2> QED BY <2>2, <2>3
  <1>12. OneApply' /\ DeletionsKnown'
    BY <1>0, <1>3, <1>8 DEF OneApply, DeletionsKnown
  <1>13. DeletionsAsked' /\ ViewKnown'
    BY <1>0, <1>8 DEF DeletionsAsked, ViewKnown
  <1> QED BY <1>9, <1>10, <1>11, <1>12, <1>13 DEF AdminInv

\* handleDelete(): the row is taken out, and its user waits to be deleted.
LEMMA HandleDeleteStep ==
  ASSUME AdminInv, NEW i \in DOMAIN page.rows, HandleDelete(i)
  PROVE  AdminInv'
  <1> DEFINE q == page.rows
             u == q[i].uid
             ups == WithoutUpdate(page.updates, u)
             dels == Append(page.deletions, u)
             s == RemoveAt(q, i)
  <1>0. /\ AdminTypeOK /\ RowsOnce /\ OneApply /\ RowsKnown /\ DeletionsKnown /\ DeletionsAsked /\ ViewKnown
        /\ page \in PageType /\ q \in Seq(RowType) /\ page.updates \in Seq(UpdateType) /\ page.deletions \in Seq(Uid)
        /\ UNCHANGED <<admins, tokensOf, fetchAt, applies, view, apps, apart>> /\ asked' = asked \cup {u}
    BY DEF AdminInv, AdminTypeOK, PageType, HandleDelete
  <1>1. DOMAIN q = 1 .. Len(q) /\ Len(q) \in Nat /\ (\A k \in DOMAIN q : q[k] \in RowType) /\ u \in Uid
    <2>1. DOMAIN q = 1 .. Len(q) /\ Len(q) \in Nat /\ \A k \in DOMAIN q : q[k] \in RowType
      BY <1>0, ElementsAre
    <2> QED BY <2>1 DEF RowType
  <1>2. page' = [rows |-> s, updates |-> ups, deletions |-> dels]
    BY DEF HandleDelete
  <1>3. s \in Seq(RowType) /\ Len(s) = Len(q) - 1 /\ \A k \in 1 .. Len(q) - 1 : s[k] = q[IF k < i THEN k ELSE k + 1]
    <2>1. i \in 1 .. Len(q)
      BY <1>1
    <2> QED BY <1>0, <2>1, RemoveAtIs
  <1>4. ToSet(s) = {q[k] : k \in (1 .. Len(q)) \ {i}} /\ ToSet(q) = ToSet(s) \cup {q[i]}
    BY <1>0, <1>1, RemoveAtLeaves
  <1>5. UpdatesOnce(page.updates)
    BY <1>0 DEF RowsOnce, UpdatesOnce
  <1>6. ups \in Seq(UpdateType) /\ UpdatesOnce(ups) /\ ToSet(ups) = {x \in ToSet(page.updates) : x[1] # u}
    BY <1>0, <1>5, WithoutUpdateIs
  <1>7. /\ dels \in Seq(Uid) /\ ToSet(dels) = ToSet(page.deletions) \cup {u} /\ dels # <<>>
        /\ page.deletions # <<>> => dels[1] = page.deletions[1]
    BY <1>0, <1>1, AppendAdds
  <1> HIDE DEF s, ups, dels
  <1>8. DOMAIN s = 1 .. Len(q) - 1
    BY <1>1, <1>3, ElementsAre
  <1>9. page' \in PageType /\ page'.rows = s /\ page'.updates = ups /\ page'.deletions = dels
    BY <1>2, <1>3, <1>6, <1>7 DEF PageType
  <1>10. AdminTypeOK'
    BY <1>0, <1>1, <1>9 DEF AdminTypeOK
  <1>11. RowsOnce'
    <2>0. ASSUME NEW k \in DOMAIN s, NEW l \in DOMAIN s
          PROVE  \E a, b \in DOMAIN q : s[k] = q[a] /\ s[l] = q[b] /\ (a = b => k = l)
      <3> DEFINE a == IF k < i THEN k ELSE k + 1
                 b == IF l < i THEN l ELSE l + 1
      <3>1. a \in DOMAIN q /\ b \in DOMAIN q /\ (a = b => k = l)
        BY <1>1, <1>8
      <3>2. s[k] = q[a] /\ s[l] = q[b]
        BY <1>3, <1>8
      <3> HIDE DEF a, b
      <3> QED BY <3>1, <3>2
    <2>1. \A k, l \in DOMAIN s : s[k].uid = s[l].uid /\ s[k].uid \in AdminSet => k = l
      BY <1>0, <2>0 DEF RowsOnce
    <2>2. \A k, l \in DOMAIN ups : ups[k][1] = ups[l][1] => k = l
      BY <1>6 DEF UpdatesOnce
    <2>3. \A m \in DOMAIN AdminUids : ListedUpTo(m)' = ListedUpTo(m)
      BY <1>0 DEF ListedUpTo
    <2>4. fetchAt >= 0 => \A k \in DOMAIN s, m \in DOMAIN AdminUids :
             s[k].uid = AdminUids[m] => Cardinality(ListedUpTo(m)) <= fetchAt
      BY <1>0, <2>0 DEF RowsOnce
    <2> QED BY <1>0, <1>9, <2>1, <2>2, <2>3, <2>4 DEF RowsOnce
  <1>12. RowsKnown'
    <2> SUFFICES ASSUME NEW w \in AdminSet \ (apart \cup asked')
                 PROVE  /\ \A r \in ToSet(s) : r.uid = w =>
                             \/ <<w, r.roles>> \in ToSet(ups)
                             \/ admins[w] = r.roles /\ \A e \in ToSet(ups) : e[1] # w
                        /\ \A e \in ToSet(ups) : e[1] = w => \E r \in ToSet(s) : r.uid = w
                        /\ \A k \in ApplyClicks : applies[k].pc = "put" /\ applies[k].uid = w =>
                             <<w, applies[k].roles>> \in ToSet(ups)
      BY <1>0, <1>9 DEF RowsKnown
    <2>1. w \in AdminSet \ (apart \cup asked) /\ w # u
      BY <1>0
    <2>2. \A r : r.uid = w => (r \in ToSet(s) <=> r \in ToSet(q))
      BY <1>4, <2>1
    <2>3. \A x : x[1] = w => (x \in ToSet(ups) <=> x \in ToSet(page.updates))
      BY <1>6, <2>1
    <2>4. \A y : <<w, y>>[1] = w
      OBVIOUS
    <2> QED BY <1>0, <2>1, <2>2, <2>3, <2>4 DEF RowsKnown
  <1>13. DeletionsKnown'
    BY <1>0, <1>7, <1>9 DEF DeletionsKnown
  <1>14. DeletionsAsked'
    BY <1>0, <1>7, <1>9 DEF DeletionsAsked
  <1>15. OneApply' /\ ViewKnown'
    BY <1>0 DEF OneApply, ViewKnown
  <1> QED BY <1>10, <1>11, <1>12, <1>13, <1>14, <1>15 DEF AdminInv

\* handleApply(): the first request that waits is made.
LEMMA HandleApplyStep ==
  ASSUME AdminInv, NEW k \in ApplyClicks, HandleApply(k)
  PROVE  AdminInv'
  <1> DEFINE c == NextRequest(page)
  <1>0. /\ AdminTypeOK /\ RowsOnce /\ OneApply /\ RowsKnown /\ DeletionsKnown /\ DeletionsAsked /\ ViewKnown
        /\ page \in PageType
        /\ UNCHANGED <<admins, tokensOf, fetchAt, page, view, apps, asked>>
        /\ applies' = [applies EXCEPT ![k] = c] /\ applies[k].pc = "none"
    BY DEF AdminInv, AdminTypeOK, HandleApply
  <1>1. /\ apart' = apart \/ apart' = apart \cup AdminSet
        /\ (\E l \in ApplyClicks : applies[l].pc # "none") => AdminSet \subseteq apart'
    BY DEF HandleApply
  <1>2. /\ c \in ApplyType
        /\ c.pc = "put" => <<c.uid, c.roles>> \in ToSet(page.updates) /\ c.roles \in Roles
        /\ c.pc = "delete" => page.deletions # <<>> /\ c.uid = page.deletions[1] /\ page.deletions[1] \in ToSet(page.deletions)
    BY <1>0, NextRequestIs
  <1> HIDE DEF c
  <1>3. applies' \in [ApplyClicks -> ApplyType] /\ applies'[k] = c /\ \A l \in ApplyClicks : l # k => applies'[l] = applies[l]
    BY <1>0, <1>2 DEF AdminTypeOK
  <1>4. AdminTypeOK'
    BY <1>0, <1>1, <1>2, <1>3 DEF AdminTypeOK, Uid
  <1>5. RowsOnce'
    BY <1>0 DEF RowsOnce, ListedUpTo
  <1>6. OneApply'
    BY <1>0, <1>1, <1>3 DEF OneApply
  <1>7. RowsKnown'
    BY <1>0, <1>1, <1>2, <1>3 DEF RowsKnown
  <1>8. DeletionsKnown'
    BY <1>0, <1>1, <1>2, <1>3 DEF DeletionsKnown
  <1>9. DeletionsAsked' /\ ViewKnown'
    BY <1>0, <1>2, <1>3 DEF DeletionsAsked, ViewKnown
  <1> QED BY <1>4, <1>5, <1>6, <1>7, <1>8, <1>9 DEF AdminInv

\* The answer: what was asked for does not wait any more.
LEMMA AfterRequestIs ==
  ASSUME NEW p \in PageType, UpdatesOnce(p.updates), NEW c \in ApplyType
  PROVE  LET a == AfterRequest(p, c) IN
         /\ a \in PageType /\ a.rows = p.rows /\ UpdatesOnce(a.updates)
         /\ ToSet(a.updates) = IF c.pc = "put" THEN {x \in ToSet(p.updates) : x[1] # c.uid} ELSE ToSet(p.updates)
         /\ ToSet(a.deletions) \subseteq ToSet(p.deletions)
         /\ ToSet(p.deletions) \subseteq ToSet(a.deletions) \cup (IF c.pc = "put" THEN {} ELSE {p.deletions[1]})
  <1> DEFINE a == AfterRequest(p, c)
             ups == WithoutUpdate(p.updates, c.uid)
             dels == IF p.deletions = <<>> THEN p.deletions ELSE Tail(p.deletions)
  <1>0. p.rows \in Seq(RowType) /\ p.updates \in Seq(UpdateType) /\ p.deletions \in Seq(Uid)
    BY DEF PageType
  <1>1. CASE c.pc = "put"
    <2>1. a = [p EXCEPT !.updates = ups]
      BY <1>1 DEF AfterRequest
    <2>2. ups \in Seq(UpdateType) /\ UpdatesOnce(ups) /\ ToSet(ups) = {x \in ToSet(p.updates) : x[1] # c.uid}
      BY <1>0, WithoutUpdateIs
    <2> HIDE DEF a, ups
    <2>3. a \in PageType /\ a.rows = p.rows /\ a.updates = ups /\ a.deletions = p.deletions
      BY <1>0, <2>1, <2>2 DEF PageType
    <2> QED BY <1>1, <2>2, <2>3 DEF a
  <1>2. CASE c.pc # "put"
    <2>1. a = [p EXCEPT !.deletions = dels]
      BY <1>2 DEF AfterRequest
    <2>2. dels \in Seq(Uid) /\ ToSet(dels) \subseteq ToSet(p.deletions) /\ ToSet(p.deletions) \subseteq ToSet(dels) \cup {p.deletions[1]}
      <3>1. CASE p.deletions = <<>>
        BY <1>0, <3>1
      <3>2. CASE p.deletions # <<>>
        BY <1>0, <3>2, TailLeaves
      <3> QED BY <3>1, <3>2
    <2> HIDE DEF a, dels
    <2>3. a \in PageType /\ a.rows = p.rows /\ a.updates = p.updates /\ a.deletions = dels
      BY <1>0, <2>1, <2>2 DEF PageType
    <2> QED BY <1>2, <2>2, <2>3 DEF a
  <1> QED BY <1>1, <1>2

\* The answer of a request of "Apply", and the next one.
LEMMA HandleAppliedStep ==
  ASSUME AdminInv, NEW k \in ApplyClicks, HandleApplied(k)
  PROVE  AdminInv'
  <1> DEFINE call == applies[k]
             a == AfterRequest(page, call)
             c == NextRequest(a)
  <1>0. /\ AdminTypeOK /\ RowsOnce /\ OneApply /\ RowsKnown /\ DeletionsKnown /\ DeletionsAsked /\ ViewKnown
        /\ page \in PageType /\ call \in ApplyType /\ call.pc # "none" /\ (call.pc = "put" => call.roles \in Roles)
        /\ admins \in [AdminSet -> Roles \cup {"gone"}]
        /\ UNCHANGED <<tokensOf, fetchAt, view, apps, asked>>
        /\ applies' = [applies EXCEPT ![k] = c] /\ page' = a
    BY DEF AdminInv, AdminTypeOK, HandleApplied
  <1>1. UpdatesOnce(page.updates)
    BY <1>0 DEF RowsOnce, UpdatesOnce
  <1>2. /\ a \in PageType /\ a.rows = page.rows /\ UpdatesOnce(a.updates)
        /\ ToSet(a.updates) = IF call.pc = "put" THEN {x \in ToSet(page.updates) : x[1] # call.uid} ELSE ToSet(page.updates)
        /\ ToSet(a.deletions) \subseteq ToSet(page.deletions)
        /\ ToSet(page.deletions) \subseteq ToSet(a.deletions) \cup (IF call.pc = "put" THEN {} ELSE {page.deletions[1]})
    BY <1>0, <1>1, AfterRequestIs
  <1>3. \/ apart' = apart \cup {call.uid} /\ UNCHANGED admins
        \/ /\ call.uid # NoUid /\ apart' = apart
           /\ admins' = [admins EXCEPT ![call.uid] = IF call.pc = "delete" \/ @ = "gone" THEN "gone" ELSE call.roles]
    BY DEF HandleApplied, HandleSubmit
  <1> HIDE DEF call, a
  <1>4. /\ c \in ApplyType
        /\ c.pc = "put" => <<c.uid, c.roles>> \in ToSet(a.updates) /\ c.roles \in Roles
        /\ c.pc = "delete" => a.deletions # <<>> /\ c.uid = a.deletions[1] /\ a.deletions[1] \in ToSet(a.deletions)
    BY <1>2, NextRequestIs
  <1> HIDE DEF c
  <1>5. /\ applies' \in [ApplyClicks -> ApplyType] /\ applies'[k] = c
        /\ \A l \in ApplyClicks : l # k => applies'[l] = applies[l]
    BY <1>0, <1>4 DEF AdminTypeOK
  <1>6. call.uid \in Uid /\ apart \subseteq apart' /\ apart' \subseteq apart \cup {call.uid}
    BY <1>0, <1>3 DEF ApplyType
  <1>7. /\ admins' \in [AdminSet -> Roles \cup {"gone"}]
        /\ \A u \in AdminSet : u # call.uid => admins'[u] = admins[u]
        /\ \A u \in AdminSet : admins[u] = "gone" => admins'[u] = "gone"
        /\ \A u \in AdminSet : u = call.uid /\ u \notin apart' =>
             admins'[u] = IF call.pc = "delete" \/ admins[u] = "gone" THEN "gone" ELSE call.roles
        /\ \A u \in AdminSet : admins'[u] = "gone" => admins[u] = "gone" \/ (call.pc = "delete" /\ u = call.uid)
    <2>1. CASE apart' = apart \cup {call.uid} /\ UNCHANGED admins
      BY <1>0, <2>1
    <2>2. CASE /\ call.uid # NoUid /\ apart' = apart
               /\ admins' = [admins EXCEPT ![call.uid] = IF call.pc = "delete" \/ @ = "gone" THEN "gone" ELSE call.roles]
      <3> DEFINE x == IF call.pc = "delete" \/ admins[call.uid] = "gone" THEN "gone" ELSE call.roles
      <3>1. call.uid \in AdminSet /\ admins' = [admins EXCEPT ![call.uid] = x]
        BY <1>6, <2>2 DEF Uid
      <3>2. x \in Roles \cup {"gone"} /\ (x = "gone" => admins[call.uid] = "gone" \/ call.pc = "delete")
        BY <1>0 DEF ApplyType, Roles
      <3>3. admins[call.uid] = "gone" => x = "gone"
        OBVIOUS
      <3>4. admins' \in [AdminSet -> Roles \cup {"gone"}] /\ admins'[call.uid] = x
            /\ \A u \in AdminSet : u # call.uid => admins'[u] = admins[u]
        <4> HIDE DEF x
        <4> QED BY <1>0, <3>1, <3>2
      <3> QED BY <3>1, <3>2, <3>3, <3>4
    <2> QED BY <1>3, <2>1, <2>2
  <1>8. \A u \in AdminSet : call.pc = "delete" /\ u = call.uid => u \in asked
    BY <1>0 DEF DeletionsAsked, call
  <1>9. AdminTypeOK'
    BY <1>0, <1>2, <1>4, <1>5, <1>6, <1>7 DEF AdminTypeOK
  <1>10. RowsOnce'
    <2>1. \A i, j \in DOMAIN a.updates : a.updates[i][1] = a.updates[j][1] => i = j
      BY <1>2 DEF UpdatesOnce
    <2>2. fetchAt >= 0 => \A i \in DOMAIN page.rows, n \in DOMAIN AdminUids :
             page.rows[i].uid = AdminUids[n] => Cardinality(ListedUpTo(n)') <= fetchAt
      <3> SUFFICES ASSUME fetchAt >= 0, NEW i \in DOMAIN page.rows, NEW n \in DOMAIN AdminUids, page.rows[i].uid = AdminUids[n]
                   PROVE  Cardinality(ListedUpTo(n)') <= fetchAt
        OBVIOUS
      <3>1. Cardinality(ListedUpTo(n)) <= fetchAt /\ fetchAt \in Int
        BY <1>0 DEF RowsOnce, AdminTypeOK
      <3>2. n \in Nat /\ \A m \in 1 .. n : AdminUids[m] \in AdminSet
        BY UidsAre
      <3>3. /\ Cardinality(ListedUpTo(n)) \in Nat /\ Cardinality(ListedUpTo(n)') \in Nat
            /\ Cardinality(ListedUpTo(n)') <= Cardinality(ListedUpTo(n))
        BY <1>7, <3>2, ListedShrinks
      <3> QED BY <3>1, <3>3
    <2> QED BY <1>0, <1>2, <2>1, <2>2 DEF RowsOnce
  <1>11. DeletionsAsked'
    BY <1>0, <1>2, <1>4, <1>5, <1>7, <1>8 DEF DeletionsAsked
  <1>12. ViewKnown'
    BY <1>0 DEF ViewKnown
  <1>13. CASE AdminSet \subseteq apart
    <2>1. AdminSet \subseteq apart'
      BY <1>6, <1>13
    <2> QED BY <1>9, <1>10, <1>11, <1>12, <2>1 DEF AdminInv, OneApply, RowsKnown, DeletionsKnown
  <1>14. CASE ~(AdminSet \subseteq apart)
    <2>1. \A l \in ApplyClicks : l # k => applies[l].pc = "none" /\ applies'[l].pc = "none"
      BY <1>0, <1>5, <1>14 DEF OneApply, call
    <2>2. OneApply'
      BY <1>5, <2>1 DEF OneApply
    <2>3. ASSUME NEW w \in AdminSet \ (apart' \cup asked)
          PROVE  /\ \A r \in ToSet(page.rows) : r.uid = w =>
                      \/ <<w, r.roles>> \in ToSet(a.updates)
                      \/ admins'[w] = r.roles /\ \A e \in ToSet(a.updates) : e[1] # w
                 /\ \A e \in ToSet(a.updates) : e[1] = w => \E r \in ToSet(page.rows) : r.uid = w
                 /\ \A l \in ApplyClicks : applies'[l].pc = "put" /\ applies'[l].uid = w =>
                      <<w, applies'[l].roles>> \in ToSet(a.updates)
      <3>0. w \in AdminSet \ (apart \cup asked) /\ admins[w] # "gone"
        BY <1>0, <1>6, <2>3 DEF DeletionsAsked
      <3>1. \A l \in ApplyClicks : applies'[l].pc = "put" /\ applies'[l].uid = w => <<w, applies'[l].roles>> \in ToSet(a.updates)
        BY <1>4, <1>5, <2>1
      <3>2. /\ \A r \in ToSet(page.rows) : r.uid = w =>
                 \/ <<w, r.roles>> \in ToSet(page.updates)
                 \/ admins[w] = r.roles /\ \A e \in ToSet(page.updates) : e[1] # w
            /\ \A e \in ToSet(page.updates) : e[1] = w => \E r \in ToSet(page.rows) : r.uid = w
            /\ call.pc = "put" /\ call.uid = w => <<w, call.roles>> \in ToSet(page.updates)
        BY <1>0, <3>0 DEF RowsKnown, call
      <3>3. \A y : <<w, y>>[1] = w /\ <<w, y>>[2] = y
        OBVIOUS
      <3>4. CASE call.pc = "put" /\ call.uid = w
        <4>1. admins'[w] = call.roles
          BY <1>7, <2>3, <3>0, <3>4
        <4>2. \A e \in ToSet(a.updates) : e[1] # w
          BY <1>2, <3>4
        <4>3. \A r \in ToSet(page.rows) : r.uid = w => <<w, r.roles>> \in ToSet(page.updates)
          BY <3>2, <3>3, <3>4
        <4>4. \A x, y \in ToSet(page.updates) : x[1] = y[1] => x = y
          BY <1>1 DEF UpdatesOnce, ToSet
        <4>5. \A r \in ToSet(page.rows) : r.uid = w => r.roles = call.roles
          <5> SUFFICES ASSUME NEW r \in ToSet(page.rows), r.uid = w PROVE r.roles = call.roles
            OBVIOUS
          <5>1. <<w, r.roles>> = <<w, call.roles>>
            BY <3>2, <3>3, <3>4, <4>3, <4>4
          <5> QED BY <5>1
        <4> QED BY <3>1, <4>1, <4>2, <4>5
      <3>5. CASE ~(call.pc = "put" /\ call.uid = w)
        <4>1. \A x : x[1] = w => (x \in ToSet(a.updates) <=> x \in ToSet(page.updates))
          BY <1>2, <3>5
        <4>2. admins'[w] = admins[w]
          BY <1>0, <1>7, <1>8, <2>3, <3>0, <3>5 DEF ApplyType
        <4> QED BY <3>1, <3>2, <3>3, <4>1, <4>2
      <3> QED BY <3>4, <3>5
    <2>4. RowsKnown'
      BY <1>0, <1>2, <2>3 DEF RowsKnown
    <2>5. DeletionsKnown'
      <3>1. ASSUME NEW u \in (asked \cap AdminSet) \ apart' PROVE admins'[u] = "gone" \/ u \in ToSet(a.deletions)
        <4>1. admins[u] = "gone" \/ u \in ToSet(page.deletions)
          BY <1>0, <1>6, <3>1 DEF DeletionsKnown
        <4>2. CASE admins[u] = "gone"
          BY <1>7, <4>2
        <4>3. CASE u \in ToSet(page.deletions)
          <5>1. CASE call.pc = "delete" /\ u = call.uid
            BY <1>7, <3>1, <5>1
          <5>2. CASE call.pc = "delete" /\ u # call.uid
            <6>1. page.deletions[1] = call.uid
              BY <1>0, <1>14, <5>2 DEF DeletionsKnown, call
            <6> QED BY <1>2, <4>3, <5>2, <6>1
          <5>3. CASE call.pc = "put"
            BY <1>2, <4>3, <5>3
          <5> QED BY <1>0, <5>1, <5>2, <5>3 DEF ApplyType
        <4> QED BY <4>1, <4>2, <4>3
      <3>2. \A l \in ApplyClicks : applies'[l].pc = "delete" => a.deletions # <<>> /\ a.deletions[1] = applies'[l].uid
        BY <1>4, <1>5, <2>1
      <3> QED BY <1>0, <3>1, <3>2 DEF DeletionsKnown
    <2> QED BY <1>9, <1>10, <1>11, <1>12, <2>2, <2>4, <2>5 DEF AdminInv
  <1> QED BY <1>13, <1>14

\* The page of a user, whose tokens only it writes.
LEMMA ViewStep ==
  ASSUME AdminInv, \/ UserFetched \/ HandleChange \/ UserApply \/ UserApplied
                   \/ \E i \in DOMAIN page.rows : HandleView(i)
  PROVE  AdminInv'
  <1>0. /\ AdminTypeOK /\ RowsOnce /\ OneApply /\ RowsKnown /\ DeletionsKnown /\ DeletionsAsked /\ ViewKnown
        /\ view \in ViewType /\ tokensOf \in [Owners -> Owners \X {0, 1}] /\ NoUid \notin AdminSet
        /\ UNCHANGED <<admins, page, fetchAt, applies, apps, asked, apart>>
    BY AdminAssumption DEF AdminInv, AdminTypeOK, UserFetched, HandleChange, UserApply, UserApplied, HandleView
  <1>1. RowsOnce' /\ OneApply' /\ RowsKnown' /\ DeletionsKnown' /\ DeletionsAsked'
    <2>1. RowsOnce' /\ OneApply'
      BY <1>0 DEF RowsOnce, ListedUpTo, OneApply
    <2> QED BY <1>0, <2>1 DEF RowsKnown, DeletionsKnown, DeletionsAsked
  <1>2. view' \in ViewType /\ tokensOf' \in [Owners -> Owners \X {0, 1}] /\ ViewKnown'
    <2>1. CASE UserFetched
      <3>1. view.uid \in AdminSet
        BY <1>0, <2>1 DEF UserFetched, ViewKnown, ViewType, Uid
      <3> DEFINE o == tokensOf[view.uid][1]
                 n == tokensOf[view.uid][2]
      <3>2. o \in Owners /\ n \in {0, 1}
        BY <1>0, <3>1 DEF Owners
      <3>3. view' = [view EXCEPT !.pc = "shown", !.of = o, !.version = n] /\ UNCHANGED tokensOf
        BY <2>1 DEF UserFetched
      <3>4. view.views <= 1 => o = view.uid
        BY <1>0, <3>1 DEF ViewKnown, Owners
      <3> HIDE DEF o, n
      <3>5. /\ view' \in ViewType /\ view'.pc = "shown" /\ view'.of = o /\ view'.uid = view.uid /\ view'.views = view.views
        BY <1>0, <3>2, <3>3 DEF ViewType
      <3> QED BY <1>0, <2>1, <3>1, <3>2, <3>3, <3>4, <3>5 DEF ViewKnown, UserFetched
    <2>2. CASE HandleChange
      <3>1. view' \in ViewType /\ view'.pc = view.pc /\ view'.of = view.of /\ view'.uid = view.uid /\ view'.views = view.views
        BY <1>0, <2>2 DEF HandleChange, ViewType
      <3> QED BY <1>0, <2>2, <3>1 DEF ViewKnown, HandleChange
    <2>3. CASE UserApply
      <3>1. view.uid \in AdminSet /\ view.uid # NoUid /\ view.of \in Owners /\ view.version \in {0, 1}
        BY <1>0, <2>3 DEF UserApply, ViewKnown, ViewType, Uid
      <3>2. view' \in ViewType /\ view'.pc = "put" /\ view.pc = "shown" /\ view'.of = view.of /\ view'.uid = view.uid
            /\ view'.views = view.views
        BY <1>0, <2>3 DEF UserApply, ViewType
      <3> DEFINE x == <<view.of, view.version>>
      <3>3. tokensOf' = [tokensOf EXCEPT ![view.uid] = x]
        BY <2>3, <3>1 DEF UserApply, PutUid
      <3>4. x \in Owners \X {0, 1} /\ x[1] = view.of
        BY <3>1
      <3> HIDE DEF x
      <3>5. /\ tokensOf' \in [Owners -> Owners \X {0, 1}] /\ tokensOf'[view.uid] = x
            /\ \A u \in Owners : u # view.uid => tokensOf'[u] = tokensOf[u]
        BY <1>0, <3>1, <3>3, <3>4 DEF Owners
      <3> QED BY <1>0, <3>1, <3>2, <3>4, <3>5 DEF ViewKnown
    <2>4. CASE UserApplied
      <3>1. /\ view' \in ViewType /\ view.pc = "put" /\ view'.pc = "shown" /\ view'.of = view.of /\ view'.uid = view.uid
            /\ view'.views = view.views
        BY <1>0, <2>4 DEF UserApplied, ViewType
      <3> QED BY <1>0, <2>4, <3>1 DEF ViewKnown, UserApplied
    <2>5. CASE \E i \in DOMAIN page.rows : HandleView(i)
      <3>1. PICK i \in DOMAIN page.rows : HandleView(i)
        BY <2>5
      <3> DEFINE w == page.rows[i].uid
      <3>2. w \in Uid /\ w # NoUid /\ UNCHANGED tokensOf
        <4>1. page.rows \in Seq(RowType)
          BY <1>0 DEF AdminTypeOK, PageType
        <4>2. page.rows[i] \in RowType
          BY <4>1, ElementsAre
        <4> QED BY <3>1, <4>2 DEF RowType, HandleView
      <3> DEFINE y == IF view.uid = NoUid THEN "fetch" ELSE view.pc
                 n == view.views + 1
      <3>3. view' = [view EXCEPT !.uid = w, !.views = n, !.pc = y]
        BY <3>1 DEF HandleView
      <3>6. y \in {"none", "fetch", "shown", "put"} /\ n \in Nat
        BY <1>0 DEF ViewType
      <3> HIDE DEF w, y, n
      <3>4. view' \in ViewType /\ view'.of = view.of /\ view'.uid = w /\ view'.views = n /\ view'.pc = y
        BY <1>0, <3>2, <3>3, <3>6 DEF ViewType
      <3>5. view.views \in Nat
        BY <1>0 DEF ViewType
      <3> QED BY <1>0, <3>2, <3>4, <3>5 DEF ViewKnown, y, n
    <2> QED BY <2>1, <2>2, <2>3, <2>4, <2>5
  <1>3. AdminTypeOK'
    BY <1>0, <1>2 DEF AdminTypeOK
  <1> QED BY <1>1, <1>2, <1>3 DEF AdminInv

\* The table of applications.
LEMMA ApplicationsStep ==
  ASSUME AdminInv, ApplyApplications \/ \E i \in DOMAIN apps.rows : DeleteApplication(i)
  PROVE  AdminInv'
  <1>0. /\ AdminTypeOK /\ RowsOnce /\ OneApply /\ RowsKnown /\ DeletionsKnown /\ DeletionsAsked /\ ViewKnown
        /\ apps \in AppsType /\ apps.rows \in Seq(AppNames) /\ apps.deletions \in Seq(AppNames) /\ AdminSet \cap AppNames = {}
        /\ UNCHANGED <<admins, page, tokensOf, fetchAt, applies, view, apart>>
    <2>1. AdminTypeOK /\ RowsOnce /\ OneApply /\ RowsKnown /\ DeletionsKnown /\ DeletionsAsked /\ ViewKnown
      BY DEF AdminInv
    <2>2. apps \in AppsType /\ apps.rows \in Seq(AppNames) /\ apps.deletions \in Seq(AppNames)
      BY <2>1 DEF AdminTypeOK, AppsType
    <2>3. AdminSet \cap AppNames = {}
      BY AdminAssumption DEF AppNames
    <2>4. UNCHANGED <<admins, page, tokensOf, fetchAt, applies, view, apart>>
      BY DEF ApplyApplications, DeleteApplication
    <2> QED BY <2>1, <2>2, <2>3, <2>4
  <1>1. RowsOnce' /\ OneApply' /\ ViewKnown'
    BY <1>0 DEF RowsOnce, ListedUpTo, OneApply, ViewKnown
  <1>2. /\ apps' \in AppsType /\ asked \subseteq asked' /\ asked' \subseteq asked \cup AppNames
        /\ ToSet(apps'.deletions) \subseteq asked' /\ AppNames \ apps'.stored \subseteq asked'
    <2>1. CASE \E i \in DOMAIN apps.rows : DeleteApplication(i)
      <3>1. PICK i \in DOMAIN apps.rows : DeleteApplication(i)
        BY <2>1
      <3> DEFINE x == apps.rows[i]
                 s == RemoveAt(apps.rows, i)
                 d == Append(apps.deletions, x)
      <3>2. x \in AppNames /\ i \in 1 .. Len(apps.rows)
        BY <1>0, <3>1, ElementsAre
      <3>3. s \in Seq(AppNames)
        BY <1>0, <3>2, RemoveAtIs
      <3>4. d \in Seq(AppNames) /\ ToSet(d) = ToSet(apps.deletions) \cup {x}
        BY <1>0, <3>2, AppendAdds
      <3>5. apps' = [apps EXCEPT !.rows = s, !.deletions = d] /\ asked' = asked \cup {x}
        BY <3>1 DEF DeleteApplication
      <3> HIDE DEF s, d, x
      <3>6. apps' \in AppsType /\ apps'.stored = apps.stored /\ apps'.deletions = d
        BY <1>0, <3>3, <3>4, <3>5 DEF AppsType
      <3> QED BY <1>0, <3>2, <3>4, <3>5, <3>6 DEF DeletionsAsked
    <2>2. CASE ApplyApplications
      <3>0. UNCHANGED asked /\ apps.deletions # <<>>
        BY <2>2 DEF ApplyApplications
      <3>1. CASE apps' = [apps EXCEPT !.pc = "delete"]
        <4>1. apps' \in AppsType /\ apps'.stored = apps.stored /\ apps'.deletions = apps.deletions
          BY <1>0, <3>1 DEF AppsType
        <4> QED BY <1>0, <3>0, <4>1 DEF DeletionsAsked
      <3>2. CASE \E failed \in BOOLEAN :
                   apps' = [apps EXCEPT !.stored = IF failed THEN @ ELSE @ \ {apps.deletions[1]},
                              !.deletions = Tail(@), !.pc = IF Len(apps.deletions) = 1 THEN "none" ELSE @]
        <4> DEFINE x == apps.deletions[1]
                   d == Tail(apps.deletions)
        <4>1. d \in Seq(AppNames) /\ ToSet(apps.deletions) = ToSet(d) \cup {x}
          BY <1>0, <3>0, TailLeaves
        <4>2. PICK z \in {apps.stored, apps.stored \ {x}}, y \in {"none", apps.pc} :
                 apps' = [apps EXCEPT !.stored = z, !.deletions = d, !.pc = y]
          BY <3>2
        <4> HIDE DEF d, x
        <4>3. z \in SUBSET AppNames /\ y \in {"none", "delete"}
          BY <1>0 DEF AppsType
        <4>4. apps' \in AppsType /\ apps'.stored = z /\ apps'.deletions = d
          BY <1>0, <4>1, <4>2, <4>3 DEF AppsType
        <4> QED BY <1>0, <3>0, <4>1, <4>2, <4>4 DEF DeletionsAsked
      <3> QED BY <2>2, <3>1, <3>2 DEF ApplyApplications
    <2> QED BY <2>1, <2>2
  <1>3. AdminTypeOK'
    BY <1>0, <1>2 DEF AdminTypeOK
  <1>4. \A u \in AdminSet : u \in asked' <=> u \in asked
    BY <1>0, <1>2
  <1>5. RowsKnown' /\ DeletionsKnown'
    BY <1>0, <1>4 DEF RowsKnown, DeletionsKnown
  <1>6. DeletionsAsked'
    BY <1>0, <1>2 DEF DeletionsAsked
  <1> QED BY <1>1, <1>3, <1>5, <1>6 DEF AdminInv

\* Every step of the pages of an administrator keeps their invariant.
LEMMA AdminKeeps == AdminInv /\ [AdminNext]_adminVars => AdminInv'
  <1> SUFFICES ASSUME AdminInv, [AdminNext]_adminVars PROVE AdminInv'
    OBVIOUS
  <1>1. CASE UNCHANGED adminVars
    <2>1. /\ UNCHANGED <<admins, tokensOf, page, fetchAt, applies, view, apps, asked, apart>>
      BY <1>1 DEF adminVars
    <2>2. AdminTypeOK' /\ RowsOnce'
      BY <2>1 DEF AdminInv, AdminTypeOK, RowsOnce, ListedUpTo
    <2> QED BY <2>1, <2>2 DEF AdminInv, OneApply, RowsKnown, DeletionsKnown, DeletionsAsked, ViewKnown
  <1>2. CASE HandleFetch
    BY <1>2, HandleFetchStep
  <1>3. CASE HandleCreate
    BY <1>3, HandleCreateStep
  <1>4. CASE \E i \in DOMAIN page.rows : HandleDelete(i) \/ (\E v \in {"old", "new"} : Onchange(i, v))
    BY <1>4, HandleDeleteStep, OnchangeStep DEF Roles
  <1>5. CASE \E k \in ApplyClicks : HandleApply(k) \/ HandleApplied(k)
    BY <1>5, HandleApplyStep, HandleAppliedStep
  <1>6. CASE UserFetched \/ HandleChange \/ UserApply \/ UserApplied \/ \E i \in DOMAIN page.rows : HandleView(i)
    BY <1>6, ViewStep
  <1>7. CASE ApplyApplications \/ \E i \in DOMAIN apps.rows : DeleteApplication(i)
    BY <1>7, ApplicationsStep
  <1> QED BY <1>1, <1>2, <1>3, <1>4, <1>5, <1>6, <1>7 DEF AdminNext

\* What the invariants say of the properties.
LEMMA AdminInvIsSafe == AdminInv => AppliedIsStored /\ DeletedAsAsked /\ PageWritesItsUser
  <1> SUFFICES ASSUME AdminInv PROVE AppliedIsStored /\ DeletedAsAsked /\ PageWritesItsUser
    OBVIOUS
  <1>1. AppliedIsStored
    <2> SUFFICES ASSUME ~HasChanges(page)
                 PROVE  /\ \A i \in DOMAIN page.rows : LET u == page.rows[i].uid IN
                             u \in AdminSet \ (apart \cup asked) => admins[u] = page.rows[i].roles
                        /\ \A u \in (asked \cap AdminSet) \ apart : admins[u] = "gone"
      BY DEF AppliedIsStored
    <2>1. ToSet(page.updates) = {} /\ ToSet(page.deletions) = {}
      BY DEF HasChanges, HasUpdates, HasDeletions, ToSet
    <2>2. \A i \in DOMAIN page.rows : page.rows[i] \in ToSet(page.rows)
      BY DEF ToSet
    <2> QED BY <2>1, <2>2 DEF AdminInv, RowsKnown, DeletionsKnown
  <1>2. DeletedAsAsked
    BY DEF AdminInv, DeletionsAsked, DeletedAsAsked, AppNames
  <1>3. PageWritesItsUser
    <2>1. DOMAIN tokensOf = Owners
      BY DEF AdminInv, AdminTypeOK
    <2> QED BY <2>1 DEF AdminInv, ViewKnown, PageWritesItsUser
  <1> QED BY <1>1, <1>2, <1>3

\* A token that was used is not the one that the account has, and a role that is missing is on its way.
LEMMA UsersInvIsSafe == UsersInv => TokenSingleUse /\ UsersHaveRole
  BY DEF UsersInv, TokensUnused, RoleComes, TokenSingleUse, UsersHaveRole

\* Without overlapping calls the entry counts the wrong codes.
LEMMA PendingInvIsSafe == PendingInv => ActionRunsOnce /\ AttemptsLimited
  BY DEF PendingInv, EntryCounts, ActionRunsOnce, AttemptsLimited

\* AccountsSafe: whatever handlers, clicks and failing requests there are, and in whatever order their
\* steps come, a reset token works once (user.js:129), a user that exists gets its role, calls of run()
\* that do not overlap run an action once and within maxAttempts (pending_actions.js), and the pages of
\* an administrator store what their tables display, delete only what was asked for and write the tokens
\* of a user to that user (users.vue, user.vue, applications.vue).
THEOREM AccountsAreSafe == UsersSpec /\ PendingSpec /\ AdminSpec => []AccountsSafe
  <1>1. UsersSpec => []UsersInv
    BY UsersBegin, UsersKeep, PTL DEF UsersSpec
  <1>2. PendingSpec => []PendingInv
    BY PendingBegins, PendingKeeps, PTL DEF PendingSpec
  <1>3. AdminSpec => []AdminInv
    BY AdminBegins, AdminKeeps, PTL DEF AdminSpec
  <1>4. UsersInv /\ PendingInv /\ AdminInv => AccountsSafe
    BY UsersInvIsSafe, PendingInvIsSafe, AdminInvIsSafe DEF AccountsSafe
  <1> QED BY <1>1, <1>2, <1>3, <1>4, PTL
==============================================================================
