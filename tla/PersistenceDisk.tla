---------------------------- MODULE PersistenceDisk ----------------------------
(***************************************************************************)
(* The persistence on disk, nodejs/core/persistence/disk.js, with the      *)
(* mutex of nodejs/core/mutex.js.                                          *)
(*                                                                         *)
(* Node.js runs one callback at a time: what a method does between two     *)
(* awaits is atomic, and every await of a file operation or of the mutex   *)
(* is the end of an action.  A crash of the process may come after any     *)
(* action; it loses everything but the files.                              *)
(*                                                                         *)
(* A delta file holds lines "set key value" and "delete key".  What it     *)
(* does to the data is, for each key, what the last line about this key    *)
(* does, so that a file is a function from keys to the last value, Absent  *)
(* (deleted) or NoOp (no line about this key).                             *)
(***************************************************************************)
EXTENDS Integers, Sequences, FiniteSetsExt

CONSTANTS
    Keys, Vals, Absent,
    NoOp,         \* no line of the delta file is about this key
    Bad,          \* a value the operation refuses (it throws)
    NoFile,       \* the file does not exist
    Torn,         \* the file is written only partly
    Writers,      \* callers of write()
    Readers,      \* callers of get()
    LoadFirst,    \* nothing else is called while get() loads the data
    CrashAnywhere,\* the process may also crash in the two known windows
    MaxId,        \* bound on the identifier of a delta file
    MaxWrites, MaxCrashes, MaxResets    \* bounds on the calls

ASSUME DiskAssumption ==
    /\ Keys # {} /\ Absent \notin Vals
    /\ {NoOp, Bad} \cap (Vals \cup {Absent}) = {}
    /\ NoOp # Bad /\ NoFile # Torn
    /\ {NoFile, Torn} \cap [Keys -> Vals \cup {Absent, NoOp, Bad}] = {}
    /\ Writers \cap Readers = {} /\ (Writers \cup Readers) \cap {"task", "closer", "resetter"} = {}
    /\ LoadFirst \in BOOLEAN /\ CrashAnywhere \in BOOLEAN
    /\ MaxId \in Nat /\ MaxWrites \in Nat /\ MaxCrashes \in Nat /\ MaxResets \in Nat

VARIABLES
    \* files
    dataFile,     \* this.path
    tempFile,     \* .data.temp
    logs,         \* the delta files
    \* the instance
    status,       \* "down" (crashed), "ready" or "closed" (event "ready" cleared)
    queue,        \* this.mutex: its holder, then the callers of lock() in order
    list,         \* this.delta.list
    dirty,        \* this.delta.dirty
    data, isInitialized, version, isSavepoint, savepointVersion,
    call,         \* the calls in flight, see Call
    \* history
    writes, crashes, resets, ioFailed

files == <<dataFile, tempFile, logs>>
delta == <<list, dirty>>
memory == <<data, isInitialized, version>>
saving == <<isSavepoint, savepointVersion>>
counters == <<writes, crashes, resets, ioFailed>>
vars == <<files, status, queue, delta, memory, saving, call, counters>>

Data == [Keys -> Vals \cup {Absent}]
Initial == [k \in Keys |-> Absent]
Log == [Keys -> Vals \cup {Absent, NoOp, Bad}]
EmptyLog == [k \in Keys |-> NoOp]
Savers == {"task", "closer"}
Procs == Writers \cup Readers \cup Savers \cup {"resetter"}
Steps == {"idle", "lock", "stat", "read", "fetch", "replay", "append", "apply", "truncate",
          "snapshot", "writing", "relock", "move", "unlink"}

\* The next step of a call, its arguments and its local variables.
Call == [pc : Steps,
         key : Keys, val : Vals \cup {Absent, Bad},  \* arguments of write()
         id : 0 .. MaxId,         \* write: the delta file in use; savepoint: the one it creates
         before : Log,            \* write: the delta file before the append
         pos : Nat, upto : Nat,   \* initializeData: index in the list, its length at the start
         content : Log \cup Data, \* the delta read; savepoint, reset: the data to write
         own : Nat]               \* savepoint: its savepointVersion

NoCall == [pc |-> "idle", key |-> CHOOSE k \in Keys : TRUE, val |-> Absent, id |-> 0,
           before |-> EmptyLog, pos |-> 1, upto |-> 0, content |-> EmptyLog, own |-> 0]

TypeOK ==
    /\ dataFile \in Data \cup {NoFile, Torn}
    /\ tempFile \in Data \cup {NoFile, Torn}
    /\ logs \in [0 .. MaxId -> Log \cup {NoFile}]
    /\ status \in {"down", "ready", "closed"}
    /\ queue \in Seq(Procs)
    /\ list \in Seq(0 .. MaxId)
    /\ dirty \in BOOLEAN /\ isInitialized \in BOOLEAN /\ isSavepoint \in BOOLEAN
    /\ data \in Data
    /\ savepointVersion \in Nat /\ version \in Nat
    /\ call \in [Procs -> Call]
    /\ writes \in 0 .. MaxWrites /\ crashes \in 0 .. MaxCrashes /\ resets \in 0 .. MaxResets
    /\ ioFailed \in BOOLEAN

Init ==
    /\ dataFile = NoFile /\ tempFile = NoFile
    /\ logs = [i \in 0 .. MaxId |-> NoFile]
    /\ status = "down" /\ queue = <<>> /\ list = <<>> /\ dirty = FALSE
    /\ data = Initial /\ isInitialized = FALSE /\ version = 0
    /\ isSavepoint = FALSE /\ savepointVersion = 0
    /\ call = [p \in Procs |-> NoCall]
    /\ writes = 0 /\ crashes = 0 /\ resets = 0 /\ ioFailed = FALSE

-----------------------------------------------------------------------------
(* Helpers.                                                                *)

\* What the delta does to the data when it is replayed.
Overlay(d, log) == [k \in Keys |-> IF log[k] = NoOp THEN d[k] ELSE log[k]]

\* A line the operation refuses makes applyDelta() throw.
Replayable(log) == \A k \in Keys : log[k] # Bad

Existing == {i \in 0 .. MaxId : logs[i] # NoFile}

\* The delta files in ascending order of their identifier.
Ascending(S) == [n \in 1 .. Cardinality(S) |->
                    CHOOSE i \in S : Cardinality({j \in S : j < i}) = n - 1]

\* The data initializeData() starts from.
BaseData == IF dataFile = NoFile THEN Initial ELSE dataFile

At(p, step) == call[p].pc = step
Goto(p, step) == call' = [call EXCEPT ![p].pc = step]
Return(p) == call' = [call EXCEPT ![p] = NoCall]

\* Mutex: lock() is granted in the order of the calls.
Lock(p) == queue' = Append(queue, p)
Holds(p) == queue # <<>> /\ Head(queue) = p
Release == queue' = Tail(queue)

\* createDeltaNoLock(): the identifier it allocates, the list and the file.
NewId == IF list = <<>> THEN 0 ELSE list[Len(list)] + 1
CreateDelta ==
    /\ NewId <= MaxId
    /\ list' = Append(list, NewId)
    /\ logs' = [logs EXCEPT ![NewId] = IF @ = NoFile THEN EmptyLog ELSE @]

\* get(): the data is loaded when this was not done yet, then the caller goes
\* on.
AfterGet(p) == IF p \in Writers THEN "append" ELSE IF p \in Savers THEN "snapshot" ELSE "idle"
Get(p) == IF isInitialized THEN AfterGet(p) ELSE "read"

\* Mutant: isSavepoint stays set.
SavepointEndsForgotten(s) ==
    /\ UNCHANGED isSavepoint
    /\ status' = IF s = "closer" THEN "closed" ELSE status

\* The end of savepoint(), in whatever way; close() then clears the event
\* "ready", as taskSavepoint() catches what is thrown.
SavepointEnds(s) ==
    /\ isSavepoint' = FALSE
    /\ status' = IF s = "closer" THEN "closed" ELSE status

-----------------------------------------------------------------------------
(* get(), initializeData() and applyDelta().                               *)

\* With LoadFirst nothing is called while a reader loads the data, as in the
\* key value store, which awaits get() before it hands out the persistence.
MayCall == LoadFirst => \A r \in Readers : At(r, "idle")

\* get() of a reader takes no lock.
GetCall(r) ==
    /\ At(r, "idle") /\ status = "ready" /\ ~isInitialized
    /\ LoadFirst => \A p \in Procs : At(p, "idle")
    /\ Goto(r, Get(r))
    /\ UNCHANGED <<files, status, queue, delta, memory, saving, counters>>

LoadData(p) ==
    /\ At(p, "read")
    /\ data' = BaseData
    /\ call' = [call EXCEPT ![p] = [@ EXCEPT !.pc = "fetch", !.pos = 1, !.upto = Len(list)]]
    /\ UNCHANGED <<files, status, queue, delta, isInitialized, version, saving, counters>>

\* The loading throws: the caller returns, and releases the lock it holds.
LoadThrows(p) ==
    /\ Return(p)
    /\ IF Holds(p) THEN Release ELSE UNCHANGED queue
    /\ IF p \in Savers THEN SavepointEnds(p) ELSE UNCHANGED <<isSavepoint, status>>
    /\ UNCHANGED <<files, delta, memory, savepointVersion, counters>>

\* The next delta of the list is read, or all are replayed.
FetchDelta(p) ==
    LET more == call[p].pos <= call[p].upto /\ call[p].pos <= Len(list)
        path == list[call[p].pos]
    IN  /\ At(p, "fetch")
        /\ \/ /\ ~more
              /\ isInitialized' = TRUE
              /\ Goto(p, AfterGet(p))
              /\ UNCHANGED <<files, status, queue, delta, data, version, saving, counters>>
           \/ /\ more
              /\ IF logs[path] = NoFile THEN LoadThrows(p)
                 ELSE /\ call' = [call EXCEPT ![p] = [@ EXCEPT !.pc = "replay",
                                                              !.content = logs[path]]]
                      /\ UNCHANGED <<files, status, queue, delta, memory, saving, counters>>

ReplayDelta(p) ==
    /\ At(p, "replay")
    /\ IF ~Replayable(call[p].content) THEN LoadThrows(p)
       ELSE /\ data' = Overlay(data, call[p].content)
            /\ call' = [call EXCEPT ![p] = [@ EXCEPT !.pc = "fetch",
                                                     !.pos = call[p].pos + 1,
                                                     !.content = EmptyLog]]
            /\ UNCHANGED <<files, status, queue, delta, isInitialized, version, saving, counters>>

-----------------------------------------------------------------------------
(* write().                                                                *)

WriteCall(w, k, v) ==
    /\ At(w, "idle") /\ MayCall /\ status # "down" /\ writes < MaxWrites
    /\ Lock(w)
    /\ call' = [call EXCEPT ![w] = [NoCall EXCEPT !.pc = "lock", !.key = k, !.val = v]]
    /\ writes' = writes + 1
    /\ UNCHANGED <<files, status, delta, memory, saving, crashes, resets, ioFailed>>

\* The lock is taken: getDeltaPath() creates the first delta file.
WriteLocked(w) ==
    /\ At(w, "lock") /\ Holds(w)
    /\ \/ /\ status = "ready"
          /\ IF list = <<>> THEN CreateDelta ELSE UNCHANGED <<list, logs>>
          /\ Goto(w, "stat")
          /\ UNCHANGED queue
       \/ /\ status # "ready"
          /\ Release
          /\ Return(w)
          /\ UNCHANGED <<list, logs>>
    /\ UNCHANGED <<dataFile, tempFile, status, dirty, memory, saving, counters>>

\* The size of the delta file is read; above maxDeltaB a new one is created.
\* A file that is not empty may be of any size.
WriteStat(w) ==
    /\ At(w, "stat")
    /\ \/ UNCHANGED <<list, logs>>
       \/ logs[list[Len(list)]] # EmptyLog /\ CreateDelta
    /\ call' = [call EXCEPT ![w] = [@ EXCEPT !.pc = Get(w), !.id = list'[Len(list')]]]
    /\ UNCHANGED <<dataFile, tempFile, status, queue, dirty, memory, saving, counters>>

AppendDelta(w) ==
    /\ At(w, "append")
    /\ call' = [call EXCEPT ![w] = [@ EXCEPT !.pc = "apply", !.before = logs[call[w].id]]]
    /\ logs' = [logs EXCEPT ![call[w].id][call[w].key] = call[w].val]
    /\ UNCHANGED <<dataFile, tempFile, status, queue, delta, memory, saving, counters>>

\* Mutant: a refused operation is applied all the same.
ApplyUnchecked(w) ==
    /\ At(w, "apply")
    /\ data' = [data EXCEPT ![call[w].key] = call[w].val]
    /\ version' = version + 1
    /\ dirty' = TRUE
    /\ Release
    /\ Return(w)
    /\ UNCHANGED <<files, status, list, isInitialized, saving, counters>>

\* The operation is applied to the data; when it throws the line is removed.
Apply(w) ==
    /\ At(w, "apply")
    /\ \/ /\ call[w].val # Bad
          /\ data' = [data EXCEPT ![call[w].key] = call[w].val]
          /\ version' = version + 1
          /\ dirty' = TRUE
          /\ Release
          /\ Return(w)
       \/ /\ call[w].val = Bad
          /\ Goto(w, "truncate")
          /\ UNCHANGED <<data, version, dirty, queue>>
    /\ UNCHANGED <<files, status, list, isInitialized, saving, counters>>

\* Mutant: the refused line stays in the delta file.
TruncateForgotten(w) ==
    /\ At(w, "truncate")
    /\ Release
    /\ Return(w)
    /\ UNCHANGED <<files, status, delta, memory, saving, counters>>

Truncate(w) ==
    /\ At(w, "truncate")
    /\ logs' = [logs EXCEPT ![call[w].id] = call[w].before]
    /\ Release
    /\ Return(w)
    /\ UNCHANGED <<dataFile, tempFile, status, delta, memory, saving, counters>>

-----------------------------------------------------------------------------
(* savepoint(), by the periodic task and by close().                       *)

\* taskSavepoint(): nothing is done when the data is not dirty, or when a
\* savepoint is on-going; close() goes on to clear the event "ready".  It has
\* unregistered the task before.
SavepointCall(s) ==
    /\ At(s, "idle") /\ At("closer", "idle") /\ MayCall /\ status = "ready"
    /\ IF dirty /\ ~isSavepoint
       THEN /\ isSavepoint' = TRUE
            /\ Lock(s)
            /\ Goto(s, "lock")
            /\ UNCHANGED status
       ELSE /\ s = "closer"
            /\ status' = "closed"
            /\ UNCHANGED <<isSavepoint, queue, call>>
    /\ UNCHANGED <<files, delta, memory, savepointVersion, counters>>

SavepointLocked(s) ==
    /\ At(s, "lock") /\ Holds(s)
    /\ savepointVersion' = savepointVersion + 1
    /\ \/ /\ status = "ready"
          /\ CreateDelta
          /\ call' = [call EXCEPT ![s] = [@ EXCEPT !.pc = Get(s), !.id = NewId,
                                                   !.own = savepointVersion + 1]]
          /\ UNCHANGED <<queue, isSavepoint, status>>
       \/ /\ status # "ready"
          /\ SavepointEnds(s)
          /\ Return(s)
          /\ Release
          /\ UNCHANGED <<list, logs>>
    /\ UNCHANGED <<dataFile, tempFile, dirty, memory, counters>>

\* Mutant: the end of the writing of the temporary file is not awaited.
SnapshotNotAwaited(s) ==
    /\ At(s, "snapshot")
    /\ call' = [call EXCEPT ![s].pc = "relock"]
    /\ tempFile' = Torn
    /\ dirty' = FALSE
    /\ queue' = Append(Tail(queue), s)
    /\ UNCHANGED <<dataFile, logs, status, list, memory, saving, counters>>

\* The writing of the temporary file starts, the lock is released.
Snapshot(s) ==
    /\ At(s, "snapshot")
    /\ call' = [call EXCEPT ![s] = [@ EXCEPT !.pc = "writing", !.content = data]]
    /\ tempFile' = Torn
    /\ dirty' = FALSE
    /\ Release
    /\ UNCHANGED <<dataFile, logs, status, list, memory, saving, counters>>

\* The temporary file is written, or the writing fails.
TempWritten(s) ==
    /\ At(s, "writing")
    /\ \/ /\ tempFile' = call[s].content
          /\ Lock(s)
          /\ call' = [call EXCEPT ![s] = [@ EXCEPT !.pc = "relock", !.content = EmptyLog]]
          /\ UNCHANGED <<status, isSavepoint, ioFailed>>
       \/ /\ ioFailed' = TRUE
          /\ SavepointEnds(s)
          /\ Return(s)
          /\ UNCHANGED <<tempFile, queue>>
    /\ UNCHANGED <<dataFile, logs, delta, memory, savepointVersion, writes, crashes, resets>>

\* Mutant: the version of the savepoint is not compared.
SavepointReplaceBlind(s) ==
    /\ At(s, "relock") /\ Holds(s) /\ status = "ready"
    /\ dataFile' = tempFile
    /\ tempFile' = NoFile
    /\ Goto(s, "unlink")
    /\ UNCHANGED <<logs, status, queue, delta, memory, saving, counters>>

\* savepointReplaceData(): the data file is replaced, unless a reset came in
\* between.
SavepointReplace(s) ==
    /\ At(s, "relock") /\ Holds(s)
    /\ \/ /\ call[s].own = savepointVersion /\ status = "ready"
          /\ dataFile' = tempFile
          /\ tempFile' = NoFile
          /\ Goto(s, "unlink")
          /\ UNCHANGED <<queue, isSavepoint, status>>
       \/ /\ call[s].own # savepointVersion \/ status # "ready"
          /\ Release
          /\ SavepointEnds(s)
          /\ Return(s)
          /\ UNCHANGED <<dataFile, tempFile>>
    /\ UNCHANGED <<logs, delta, memory, savepointVersion, counters>>

\* Mutant: the delta leaves the list but its file stays.
UnlinkKeepsFile ==
    /\ list' = Tail(list)
    /\ UNCHANGED logs

\* replaceDataNoLock(): the oldest delta file is removed.
UnlinkOldest ==
    /\ logs' = [logs EXCEPT ![Head(list)] = NoFile]
    /\ list' = Tail(list)

\* The delta files before the one of the savepoint are removed.
Unlink(s) ==
    /\ At(s, "unlink")
    /\ \/ /\ list # <<>> /\ Head(list) # call[s].id
          /\ UnlinkOldest
          /\ UNCHANGED <<call, queue, isSavepoint, status, dirty>>
       \/ /\ list = <<>> \/ Head(list) = call[s].id
          /\ dirty' = (dirty /\ list # <<>>)
          /\ Release
          /\ SavepointEnds(s)
          /\ Return(s)
          /\ UNCHANGED <<logs, list>>
    /\ UNCHANGED <<dataFile, tempFile, memory, savepointVersion, counters>>

-----------------------------------------------------------------------------
(* reset().                                                                *)

\* reset() without argument, and to an object with every key.
ResetTargets == {Initial} \cup {[k \in Keys |-> v] : v \in Vals}

ResetCall(d) ==
    /\ At("resetter", "idle") /\ MayCall /\ status # "down" /\ resets < MaxResets
    /\ resets' = resets + 1
    /\ call' = [call EXCEPT !["resetter"] = [NoCall EXCEPT !.pc = "lock", !.content = d]]
    /\ Lock("resetter")
    /\ UNCHANGED <<files, status, delta, memory, saving, writes, crashes, ioFailed>>

\* The temporary file .data.reset.temp is written, or the writing fails;
\* replaceDataNoLock() throws when the persistence is not ready.
ResetLocked ==
    /\ At("resetter", "lock") /\ Holds("resetter")
    /\ \/ /\ status = "ready"
          /\ Goto("resetter", "move")
          /\ UNCHANGED <<queue, ioFailed>>
       \/ /\ ioFailed' = (ioFailed \/ status = "ready")
          /\ Release
          /\ Return("resetter")
    /\ UNCHANGED <<files, status, delta, memory, saving, writes, crashes, resets>>

ResetMove ==
    /\ At("resetter", "move")
    /\ dataFile' = call["resetter"].content
    /\ Goto("resetter", "unlink")
    /\ UNCHANGED <<tempFile, logs, status, queue, delta, memory, saving, counters>>

\* Every delta file is removed, then the data is replaced in memory.
ResetUnlink ==
    /\ At("resetter", "unlink")
    /\ \/ /\ list # <<>>
          /\ UnlinkOldest
          /\ UNCHANGED <<call, queue, dirty, data, savepointVersion, status>>
       \/ /\ list = <<>>
          /\ dirty' = FALSE
          /\ data' = call["resetter"].content
          /\ savepointVersion' = savepointVersion + 1
          /\ status' = "ready"
          /\ Release
          /\ Return("resetter")
          /\ UNCHANGED <<logs, list>>
    /\ UNCHANGED <<dataFile, tempFile, isInitialized, version, isSavepoint, counters>>

-----------------------------------------------------------------------------
(* Crash, and the constructor and _initialize() of the next instance.      *)

\* The windows in which a crash is known to leave files that do not hold the
\* data of any moment: reset() between the replacement of the data file and
\* the removal of the last delta, and a refused line not yet removed.
InWindow ==
    \/ At("resetter", "unlink")
    \/ \E w \in Writers : call[w].pc \in {"apply", "truncate"} /\ call[w].val = Bad

Crash ==
    /\ status # "down" /\ crashes < MaxCrashes
    /\ InWindow => CrashAnywhere
    /\ crashes' = crashes + 1
    /\ status' = "down" /\ queue' = <<>> /\ list' = <<>> /\ dirty' = FALSE
    /\ data' = Initial /\ isInitialized' = FALSE /\ version' = 0
    /\ isSavepoint' = FALSE /\ savepointVersion' = 0
    /\ call' = [p \in Procs |-> NoCall]
    /\ UNCHANGED <<files, writes, resets, ioFailed>>

\* initializeDelta(): the delta files on disk, and whether one holds a line.
Restart ==
    /\ status = "down"
    /\ list' = Ascending(Existing)
    /\ dirty' = (Cardinality(Existing) > 1 \/ \E i \in Existing : logs[i] # EmptyLog)
    /\ status' = "ready"
    /\ UNCHANGED <<files, queue, memory, saving, call, counters>>

-----------------------------------------------------------------------------
WriterStep(w) ==
    \/ WriteLocked(w) \/ WriteStat(w) \/ AppendDelta(w) \/ Apply(w) \/ Truncate(w)

SaverStep(s) ==
    \/ SavepointLocked(s) \/ Snapshot(s) \/ TempWritten(s) \/ SavepointReplace(s) \/ Unlink(s)

ResetStep == ResetLocked \/ ResetMove \/ ResetUnlink

LoadStep(p) == LoadData(p) \/ FetchDelta(p) \/ ReplayDelta(p)

Next ==
    \/ \E r \in Readers : GetCall(r)
    \/ \E p \in Procs : LoadStep(p)
    \/ \E w \in Writers, k \in Keys, v \in Vals \cup {Absent, Bad} : WriteCall(w, k, v)
    \/ \E w \in Writers : WriterStep(w)
    \/ \E s \in Savers : SavepointCall(s) \/ SaverStep(s)
    \/ \E d \in ResetTargets : ResetCall(d)
    \/ ResetStep
    \/ Crash
    \/ Restart

\* Every file operation completes and the mutex is handed over in order, so
\* each step of a call is taken; the task manager calls the periodic task
\* again and again; a process that stopped is started again.
Fairness ==
    /\ \A p \in Procs : WF_vars(LoadStep(p))
    /\ \A w \in Writers : WF_vars(WriterStep(w))
    /\ \A s \in Savers : WF_vars(SaverStep(s))
    /\ WF_vars(SavepointCall("task"))
    /\ WF_vars(ResetStep)
    /\ WF_vars(Restart)

Spec == Init /\ [][Next]_vars /\ Fairness

-----------------------------------------------------------------------------
(* Properties.                                                             *)

\* The lines of a delta file that will stay: a refused line is removed.
Undone(i) == {w \in Writers : /\ call[w].pc \in {"apply", "truncate"}
                              /\ call[w].val = Bad /\ call[w].id = i}
Lines(i) == IF Undone(i) = {} THEN logs[i] ELSE call[CHOOSE w \in Undone(i) : TRUE].before

\* The data the files stand for: for each key the newest delta file with a
\* line about it, or else the data file.  A reset has happened once the data
\* file is replaced.
Stored ==
    IF At("resetter", "unlink") THEN call["resetter"].content
    ELSE [k \in Keys |->
            LET about == {i \in Existing : Lines(i)[k] # NoOp}
            IN  IF about = {} THEN BaseData[k] ELSE Lines(Max(about))[k]]

\* The call of each caller as the persistence in memory sees it: a write took
\* effect when its line is appended, a reset when the data file is replaced.
NoRequest == [change |-> [type |-> "reset", data |-> Initial], state |-> "none"]
Requests ==
    [c \in Writers \cup {"resetter"} |->
        IF At(c, "idle") THEN NoRequest
        ELSE [change |-> IF c = "resetter" THEN [type |-> "reset", data |-> call[c].content]
                         ELSE [type |-> "write", key |-> call[c].key, val |-> call[c].val],
              state |-> IF \/ c = "resetter" /\ At(c, "unlink")
                           \/ c \in Writers /\ At(c, "apply") /\ call[c].val # Bad
                        THEN "done" ELSE "called"]]

\* The persistence on disk is the persistence in memory: the data its files
\* stand for changes once for each write() and reset(), between its call and
\* its return.  A crash after any file operation, the replay of delta files
\* older than the data file, and a savepoint with its removal of files while
\* writes go on (write, savepoint, replaceDataNoLock and initializeData of
\* disk.js) change nothing.
MemoryOfFiles == INSTANCE PersistenceMemory WITH
    data <- Stored, request <- Requests, Callers <- Writers \cup {"resetter"}
ImplementsMemory == MemoryOfFiles!MemorySpec

\* What get() returns is what the files stand for, except for the write that
\* is in its delta file and not yet applied: a caller of write() that was
\* answered finds its value in memory now and after every crash.
DataIsStored ==
    isInitialized /\ ~At("resetter", "unlink") =>
        \A k \in Keys :
            \/ data[k] = Stored[k]
            \/ \E w \in Writers : At(w, "apply") /\ call[w].key = k /\ call[w].val = Stored[k]

\* The data file is never a file that was only partly written.
DataFileWhole == dataFile # Torn

\* consistencyCheck() of disk.js: whenever nobody holds the mutex, the delta
\* files in the list are those on disk, in ascending order.
DeltasConsistent ==
    status # "down" /\ queue = <<>> => list = Ascending(Existing)

Saved == \A i \in Existing : logs[i] = EmptyLog

\* Dirty data is saved by the periodic task, unless the persistence is closed
\* or the writing of a temporary file failed.
SavepointTaken == dirty ~> (Saved \/ status # "ready" \/ ioFailed)

\* The files are enough to start again: what is in memory can be rebuilt from the newest data file and the
\* delta files after it, at every point where the process may be killed.
FilesExact ==
  /\ DataIsStored
  /\ DataFileWhole
  /\ DeltasConsistent
=============================================================================
