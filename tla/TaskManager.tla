----------------------------- MODULE TaskManager -----------------------------
(***************************************************************************)
(* The task manager (nodejs/core/task/manager.js, task.js): tasks wait in   *)
(* one queue per priority, sorted by the time they are due; a single timer  *)
(* is set for the earliest one and runs every task that is due, the highest *)
(* priority first.  A task keeps the status pending while its action runs.  *)
(***************************************************************************)
EXTENDS Integers, Sequences, FiniteSets, SequencesExt, FiniteSetsExt

CONSTANTS
  Tasks,             \* the task identifiers
  TaskPriority,      \* config.priority
  TaskDelay,         \* config.delayMs
  TaskInterval,      \* config.intervalMs
  TaskIterations,    \* isValid(): iteration < TaskIterations
  MaxRegistrations,  \* bound on the calls of register() and unregister()
  MaxTaskTime        \* bound on the clock

Priorities == 0..3

ASSUME TaskManagerAssumption ==
  /\ "none" \notin Tasks
  /\ TaskPriority \in [Tasks -> Priorities]
  /\ {TaskDelay, TaskInterval, TaskIterations} \subseteq [Tasks -> Nat]

VARIABLES
  tasks,             \* a task: registered, status, timestamp, iteration
  taskQueues,        \* the queue of every priority
  executing,         \* the task whose action is awaited, or "none"
  schedulerInstance, \* the timer is set
  schedulerTimestamp,\* the time it was set for
  schedulerRunning,  \* taskScheduler() is between its start and its end
  registrations,     \* calls of register() and unregister()
  taskTime           \* Date.now()

taskVars == <<tasks, taskQueues, executing, schedulerInstance, schedulerTimestamp,
              schedulerRunning, registrations, taskTime>>

Unregistered == [registered |-> FALSE, status |-> "idle", timestamp |-> 0, iteration |-> 0]

TaskInit ==
  /\ tasks = [t \in Tasks |-> Unregistered]
  /\ taskQueues = [p \in Priorities |-> <<>>]
  /\ executing = "none"
  /\ schedulerInstance = FALSE /\ schedulerTimestamp = 0 /\ schedulerRunning = FALSE
  /\ registrations = 0 /\ taskTime = 0

-----------------------------------------------------------------------------
\* The state the synchronous code works on.
TaskState == [tasks |-> tasks, queues |-> taskQueues, executing |-> executing,
              instance |-> schedulerInstance, at |-> schedulerTimestamp, running |-> schedulerRunning]
Becomes(st) ==
  /\ tasks' = st.tasks /\ taskQueues' = st.queues /\ executing' = st.executing
  /\ schedulerInstance' = st.instance /\ schedulerTimestamp' = st.at /\ schedulerRunning' = st.running

\* minIndex, maxIndex and currentIndex of the binary search of a queue of n tasks.
SearchWindow(n) == [min : 0..n, max : -1..(n - 1), current : 0..n]
\* The binary search: the last index it looked at, from 0.
Search(due, timestamp) ==
  LET n == Len(due)
      look[w \in SearchWindow(n)] ==
        IF w.min > w.max THEN w.current
        ELSE LET mid == (w.min + w.max) \div 2 IN
             CASE due[mid + 1] < timestamp -> look[[w EXCEPT !.min = mid + 1, !.current = mid]]
               [] due[mid + 1] > timestamp -> look[[w EXCEPT !.max = mid - 1, !.current = mid]]
               [] OTHER -> mid
  IN  look[[min |-> 0, max |-> n - 1, current |-> 0]]
Due(st, queue) == [i \in DOMAIN queue |-> st.tasks[queue[i]].timestamp]

\* Mutant: the task is inserted where the search ended.
InsertInQueueBefore(st, queue, t) == InsertAt(queue, Search(Due(st, queue), st.tasks[t].timestamp) + 1, t)
InsertInQueue(st, queue, t) ==
  LET ts == st.tasks[t].timestamp
      last == Search(Due(st, queue), ts)
      i == IF last < Len(queue) /\ st.tasks[queue[last + 1]].timestamp < ts THEN last + 1 ELSE last
  IN  InsertAt(queue, i + 1, t)

\* findInQueue(): from the entry with the same timestamp, to the left, then to the right.
FindInQueue(st, queue, t) ==
  LET ts == st.tasks[t].timestamp
      last == Search(Due(st, queue), ts) + 1
      same == {i \in DOMAIN queue : queue[i] = t /\ \A j \in DOMAIN queue :
                 (j \in i..last \/ j \in last..i) => st.tasks[queue[j]].timestamp = ts}
  IN  same

\* scheduleTaskIfValid(): a task that is valid is queued, another one is unregistered.
Schedule(st, t, delay) ==
  IF st.tasks[t].iteration < TaskIterations[t]
  THEN LET due == [st EXCEPT !.tasks[t].status = "pending", !.tasks[t].timestamp = taskTime + delay]
       IN  [due EXCEPT !.queues[TaskPriority[t]] = InsertInQueue(due, @, t)]
  ELSE [st EXCEPT !.tasks[t] = Unregistered]

NextTimestamps(st) == {st.tasks[Head(st.queues[p])].timestamp : p \in {q \in Priorities : st.queues[q] # <<>>}}

\* triggerTaskScheduler(): the timer is set, or set earlier.
\* Mutant: a timer that is set is left alone.
TriggerOnce(st) ==
  IF st.running \/ NextTimestamps(st) = {} \/ st.instance THEN st
  ELSE [st EXCEPT !.instance = TRUE, !.at = Min(NextTimestamps(st))]
Trigger(st) ==
  IF st.running \/ NextTimestamps(st) = {} THEN st
  ELSE IF st.instance /\ st.at <= Min(NextTimestamps(st)) THEN st
  ELSE [st EXCEPT !.instance = TRUE, !.at = Min(NextTimestamps(st))]

\* The loop of taskScheduler(): the next task that is due starts, or the scheduler ends
\* and sets its timer again.
Ready(st) == {p \in Priorities : st.queues[p] # <<>> /\ st.tasks[Head(st.queues[p])].timestamp <= taskTime}
\* Mutant: the timer is not set again.
RunNextForgets(st) ==
  IF Ready(st) = {} THEN [st EXCEPT !.executing = "none", !.running = FALSE, !.instance = FALSE]
  ELSE LET p == Max(Ready(st))
           t == Head(st.queues[p])
       IN  [st EXCEPT !.queues[p] = Tail(@), !.executing = t, !.tasks[t].iteration = @ + 1]
RunNext(st) ==
  IF Ready(st) = {}
  THEN Trigger([st EXCEPT !.executing = "none", !.running = FALSE, !.instance = FALSE])
  ELSE LET p == Max(Ready(st))
           t == Head(st.queues[p])
       IN  [st EXCEPT !.queues[p] = Tail(@), !.executing = t, !.tasks[t].iteration = @ + 1]

-----------------------------------------------------------------------------
\* unregister(): the assertion fails for a task that is executed, which is pending and
\* in no queue.
Queued(t) == FindInQueue(TaskState, taskQueues[TaskPriority[t]], t)
CanUnregister(t) == tasks[t].status = "pending" => Queued(t) # {}
\* Mutant: the task stays in its queue.
RemovedKeepsQueue(t) == [TaskState EXCEPT !.tasks[t] = Unregistered]
Removed(t) ==
  IF tasks[t].status = "pending"
  THEN [TaskState EXCEPT !.queues[TaskPriority[t]] = RemoveAt(@, Min(Queued(t))), !.tasks[t] = Unregistered]
  ELSE [TaskState EXCEPT !.tasks[t] = Unregistered]
Counted == registrations < MaxRegistrations /\ registrations' = registrations + 1 /\ UNCHANGED taskTime

Unregister(t) ==
  /\ Counted /\ tasks[t].registered
  /\ IF CanUnregister(t) THEN Becomes(Removed(t)) ELSE Becomes(TaskState)

\* register(): a task with the same identifier is replaced; when that fails so does
\* register().
Register(t) ==
  /\ Counted
  /\ IF tasks[t].registered /\ ~CanUnregister(t) THEN Becomes(TaskState)
     ELSE LET st == [(IF tasks[t].registered THEN Removed(t) ELSE TaskState)
                      EXCEPT !.tasks[t] = [Unregistered EXCEPT !.registered = TRUE]]
          IN  Becomes(Trigger(Schedule(st, t, TaskDelay[t])))

\* The timer: taskScheduler() up to its first await.
TimerExpires ==
  /\ schedulerInstance /\ ~schedulerRunning /\ taskTime >= schedulerTimestamp
  /\ Becomes(RunNext([TaskState EXCEPT !.running = TRUE]))
  /\ UNCHANGED <<registrations, taskTime>>

\* The action settles, with or without an error; the task is queued again and the loop
\* goes on.
ActionEnds ==
  /\ executing # "none"
  /\ LET idle == [TaskState EXCEPT !.tasks[executing].status = "idle"]
     IN  Becomes(RunNext(Schedule(idle, executing, TaskInterval[executing])))
  /\ UNCHANGED <<registrations, taskTime>>

TaskTick ==
  /\ taskTime < MaxTaskTime /\ taskTime' = taskTime + 1
  /\ UNCHANGED <<tasks, taskQueues, executing, schedulerInstance, schedulerTimestamp,
                 schedulerRunning, registrations>>

TaskNext ==
  \/ \E t \in Tasks : Register(t) \/ Unregister(t)
  \/ TimerExpires \/ ActionEnds \/ TaskTick

\* Once there are tasks time passes, timers fire and actions settle: none of them is put off for ever.
TaskFairness ==
  /\ WF_taskVars(registrations > 0 /\ TaskTick)
  /\ []<>~(schedulerInstance /\ ~schedulerRunning /\ taskTime >= schedulerTimestamp)
  /\ []<>(executing = "none")

TaskSpec == TaskInit /\ [][TaskNext]_taskVars /\ TaskFairness

-----------------------------------------------------------------------------
QueuePlaces == UNION {{p} \X DOMAIN taskQueues[p] : p \in Priorities}
InQueue(t) == {x \in QueuePlaces : taskQueues[x[1]][x[2]] = t}

\* Every queue is sorted by the time the tasks are due, which the binary searches and
\* popNextTask() rely on.
QueuesSorted == \A p \in Priorities : \A i, j \in DOMAIN taskQueues[p] :
  i < j => tasks[taskQueues[p][i]].timestamp <= tasks[taskQueues[p][j]].timestamp

\* A registered task is queued once or executed, never both; an unregistered one is
\* neither.
TaskInOnePlace == \A t \in Tasks :
  Cardinality(InQueue(t)) + (IF executing = t THEN 1 ELSE 0) = (IF tasks[t].registered THEN 1 ELSE 0)

\* No task is forgotten: as long as a task is queued the scheduler runs or its timer is
\* set, for no later than the earliest task.
SchedulerArmed ==
  NextTimestamps(TaskState) # {} =>
    schedulerRunning \/ (schedulerInstance /\ schedulerTimestamp <= Min(NextTimestamps(TaskState)))

\* A task that is due within the clock is executed, unless it is unregistered or
\* registered again for a later time.
DueTasksRun == \A t \in Tasks :
  (InQueue(t) # {} /\ tasks[t].timestamp <= MaxTaskTime) ~>
    (executing = t \/ ~tasks[t].registered \/ tasks[t].timestamp > MaxTaskTime)

\* The task manager: the queues are sorted, a task is in one place, and a task that waits has a timer
\* that will look at it.
TasksSafe ==
  /\ QueuesSorted
  /\ TaskInOnePlace
  /\ SchedulerArmed
=============================================================================
