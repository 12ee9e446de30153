--------------------------- MODULE KeyValueStoreDisk ---------------------------
(***************************************************************************)
(* The key value store on disk, nodejs/db/key_value_store/disk.js: one     *)
(* bucket is one persistence, which _getPersistence() loads before it is   *)
(* used.  set() and delete() are write() of the persistence; update()      *)
(* reads a value, awaits a modifier of the application and writes with     *)
(* writeCompare() of nodejs/core/persistence/disk.js.                      *)
(***************************************************************************)
EXTENDS PersistenceDisk

VARIABLE update   \* the update() of each writer

NoUpdate == [stage |-> "none", key |-> NoCall.key, version |-> 0, value |-> Absent]

UpdateInit == Init /\ update = [w \in Writers |-> NoUpdate]

\* _updateImpl(): the version, then the value the modifier gets.
UpdateRead(w, k) ==
    /\ At(w, "idle") /\ update[w] = NoUpdate /\ status = "ready" /\ isInitialized
    /\ update' = [update EXCEPT ![w] = [stage |-> "modify", key |-> k, version |-> version,
                                        value |-> data[k]]]
    /\ UNCHANGED vars

\* writeCompare(): the write is called when the version is the one read ...
UpdateWrite(w, v) ==
    /\ update[w].stage = "modify" /\ update[w].version = version
    /\ WriteCall(w, update[w].key, v)
    /\ update' = [update EXCEPT ![w].stage = "write"]

\* ... and the value is read again otherwise.
UpdateConflict(w) ==
    /\ update[w].stage = "modify" /\ update[w].version # version /\ status = "ready"
    /\ update' = [update EXCEPT ![w].version = version, ![w].value = data[update[w].key]]
    /\ UNCHANGED vars

UpdateDone(w) ==
    /\ update[w].stage = "write" /\ At(w, "idle")
    /\ update' = [update EXCEPT ![w] = NoUpdate]
    /\ UNCHANGED vars

\* set() and delete()
Set(w, k, v) == update[w] = NoUpdate /\ WriteCall(w, k, v)

UpdateNext ==
    \/ \E w \in Writers, k \in Keys : UpdateRead(w, k)
    \/ \E w \in Writers, v \in Vals : UpdateWrite(w, v)
    \/ \E w \in Writers : UpdateConflict(w) \/ UpdateDone(w)
    \/ /\ \/ \E w \in Writers, k \in Keys, v \in Vals \cup {Absent} : Set(w, k, v)
          \/ \E w \in Writers : WriterStep(w)
          \/ \E s \in Savers : SavepointCall(s) \/ SaverStep(s)
          \/ \E p \in Procs : LoadStep(p)
          \/ Restart
       /\ UNCHANGED update

UpdateSpec == UpdateInit /\ [][UpdateNext]_<<vars, update>>

\* "Atomic operation that consists of a read, modify and write operation"
\* (key_value_store.js): when the value of an update() is applied, the value
\* it replaces is the one the modifier was given.
UpdateAtomic ==
    \A w \in Writers :
        update[w].stage = "write" /\ At(w, "apply") => data[update[w].key] = update[w].value
================================================================================
