----------------------------- MODULE MCRuntime ------------------------------
(***************************************************************************)
(* The runtime of an application: its backend, the websockets, the two      *)
(* caches and the task manager, which share nothing.  A behaviour is one of a single subject,   *)
(* chosen at the start, so that one run checks each on its own states.  The *)
(* fairness of a subject asks nothing in the initial state of the others.   *)
(***************************************************************************)
EXTENDS Backend, Cache2, Cache, TaskManager

CONSTANT Subjects
VARIABLE subject

vars == <<backendVars, cacheVars, oldCacheVars, taskVars, subject>>

Init ==
  /\ BackendInit /\ CacheInit /\ OldCacheInit /\ TaskInit
  /\ subject \in Subjects

\* The websockets on their own: no request arrives.
SocketsNext == WebStart \/ WebStop \/ WebSocketsClosed \/ WebClosed \/ SocketNext

Next ==
  /\ UNCHANGED subject
  /\ \/ subject = "backend" /\ BackendNext /\ UNCHANGED <<cacheVars, oldCacheVars, taskVars>>
     \/ subject = "sockets" /\ SocketsNext
        /\ UNCHANGED <<servicesVars, backend, statistics, signals, cacheVars, oldCacheVars, taskVars>>
     \/ subject = "cache2" /\ CacheNext /\ UNCHANGED <<backendVars, oldCacheVars, taskVars>>
     \/ subject = "cache" /\ OldCacheNext /\ UNCHANGED <<backendVars, cacheVars, taskVars>>
     \/ subject = "tasks" /\ TaskNext /\ UNCHANGED <<backendVars, cacheVars, oldCacheVars>>

Spec == Init /\ [][Next]_vars /\ BackendFairness /\ CacheFairness /\ OldCacheFairness /\ TaskFairness

MCUids == <<"u1", "u2">>
MCCollections == <<"c1">>
MCPlaces == {<<"c1", "a">>, <<"c1", "b">>}
MCSizeOf == [p \in Places |-> 1]
MCOrigin == (<<"c1", "a">> :> 2) @@ (<<"c1", "b">> :> 1)
MCDataSize == [i \in Ids |-> 2]
MCPriority == ("a" :> 0) @@ ("b" :> 0) @@ ("c" :> 3)
MCDelay == ("a" :> 1) @@ ("b" :> 0) @@ ("c" :> 1)
MCInterval == ("a" :> 0) @@ ("b" :> 2) @@ ("c" :> 1)
MCIterations == ("a" :> 1) @@ ("b" :> 2) @@ ("c" :> 2)

\* The two caches: sizes and counters are those of the entries, the cache is within its limit unless a
\* collection was missed, whoever waits has a fetch to wait for, and nothing stale is taken for fresh.
CachesSafe ==
  /\ SizesExact
  /\ BoundedUnlessMissed
  /\ WaiterHasFetcher
  /\ FreshAfterDirty
  /\ CountersMatch

\* The runtime goes on: services start, requests are answered, dead sockets are terminated, a shutdown
\* completes, the getters of both caches return and find newer data at last, and due tasks run.
RuntimeProgress ==
  /\ StartReachesAll
  /\ AnsweredEventually
  /\ DeadTerminated
  /\ ShutdownCompletes
  /\ GetReturns
  /\ GetIsFresh
  /\ OldGetReturns
  /\ DueTasksRun
=============================================================================
