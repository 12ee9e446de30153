---------------------------- MODULE MCArtifacts -----------------------------
(***************************************************************************)
(* The nodes of the artifacts application: the records on disk, those who   *)
(* follow them, and the lock on their directory.  A behaviour is one of a   *)
(* single subject, chosen at the start.  The fairness of a subject asks     *)
(* nothing in the initial state of the others.                              *)
(***************************************************************************)
EXTENDS Records, Replication, LockFile

CONSTANT Subjects
VARIABLE subject

vars == <<recordsVars, replicationVars, lockVars, subject>>

Init == RecordsInit /\ ReplicationInit /\ LockInit /\ subject \in Subjects

Next ==
  /\ UNCHANGED subject
  /\ \/ subject = "records" /\ RecordsNext /\ UNCHANGED <<replicationVars, lockVars>>
     \/ subject = "replication" /\ ReplicationNext /\ UNCHANGED <<recordsVars, lockVars>>
     \/ subject = "lock" /\ LockNext /\ UNCHANGED <<recordsVars, replicationVars>>

Spec == Init /\ [][Next]_vars /\ RecordsFairness /\ ReplicationFairness /\ LockFairness

FullFiles == <<{2}, {2}>>

\* A node without sources; with a source (TwoStorages) a follower skips records.
OneStorage == <<"main">>
TwoStorages == <<"main", "remote">>

\* What followers hold is complete up to where they say they are, they are given the records in the
\* order of the ticks, and one process at a time uses a directory.
FollowersComplete ==
  /\ DatabaseComplete
  /\ SourceComplete
  /\ MergedByTick
  /\ ExclusiveUse

\* Readers, databases and remote nodes get what was confirmed, and the lock of a process that died goes away.
AllCatchUp ==
  /\ ReaderCatchesUp
  /\ DatabaseCatchesUp
  /\ SourceCatchesUp
  /\ LeftLockRemoved
=============================================================================
