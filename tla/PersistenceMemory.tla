--------------------------- MODULE PersistenceMemory ---------------------------
(***************************************************************************)
(* What a persistence promises its callers: one object of key/value pairs  *)
(* that changes once for each write() and each reset() that returns, at    *)
(* one moment between its call and its return, and in no other way.  This  *)
(* is nodejs/core/persistence/memory.js, which has no file behind it.      *)
(* PersistenceDisk is shown to implement it, crashes included.             *)
(***************************************************************************)
CONSTANTS
    Keys,      \* the names of the entries
    Vals,      \* the values of an entry
    Absent,    \* the entry does not exist
    Bad,       \* a value the operation refuses (it throws)
    Callers    \* callers of write() and reset()

VARIABLES
    data,      \* this.data
    request    \* the call of each caller in flight, and whether it took effect

\* An object with these keys.
Data == [Keys -> Vals \cup {Absent}]

Initial == [k \in Keys |-> Absent]

Write(k, v) == [type |-> "write", key |-> k, val |-> v]
Reset(d) == [type |-> "reset", data |-> d]
Changes == {Write(k, v) : k \in Keys, v \in Vals \cup {Absent, Bad}} \cup {Reset(d) : d \in Data}
NoRequest == [change |-> Reset(Initial), state |-> "none"]

\* operations.set(data, key, value), operations.delete(data, key) when the
\* value is Absent, and reset(data).
Effect(change, d) ==
    IF change.type = "write" THEN [d EXCEPT ![change.key] = change.val] ELSE change.data

Refused(change) == change.type = "write" /\ change.val = Bad

\* _initialize() resets to options.initial.
MemoryInit ==
    /\ data = Initial
    /\ request = [c \in Callers |-> NoRequest]

MemoryCall(c, change) ==
    /\ request[c] = NoRequest
    /\ request' = [request EXCEPT ![c] = [change |-> change, state |-> "called"]]
    /\ UNCHANGED data

\* The body of write() and of reset().
MemoryPerform(c) ==
    /\ request[c].state = "called" /\ ~Refused(request[c].change)
    /\ data' = Effect(request[c].change, data)
    /\ request' = [request EXCEPT ![c].state = "done"]

\* The call returns, or it throws: then it did not take effect.
MemoryReturn(c) ==
    /\ request[c] # NoRequest
    /\ request' = [request EXCEPT ![c] = NoRequest]
    /\ UNCHANGED data

\* The callers are gone, the object stays.
MemoryCrash ==
    /\ request' = [c \in Callers |-> NoRequest]
    /\ UNCHANGED data

MemoryNext ==
    \/ \E c \in Callers, change \in Changes : MemoryCall(c, change)
    \/ \E c \in Callers : MemoryPerform(c) \/ MemoryReturn(c)
    \/ MemoryCrash

MemorySpec == MemoryInit /\ [][MemoryNext]_<<data, request>>
================================================================================
