------------------------------ MODULE LockFile ------------------------------
(***************************************************************************)
(* The lock between hosts that share a disk (nodejs/core/lock_file.js) and  *)
(* its users: a lock is a directory, kept alive by a heart beat on its time *)
(* of modification; the garbage collector of every host removes one that    *)
(* has expired (apps/artifacts/backend/locks.js); a host takes the records  *)
(* directory whose lock it gets, or a new one (records/distributed.js).     *)
(* The clock counts heart beats.  A host that is neither stalled nor down   *)
(* beats, and ends what it does with the directory, within one of them.     *)
(***************************************************************************)
EXTENDS Integers, FiniteSets

CONSTANTS
  Hosts,        \* the processes, each runs its own collector
  Expiry,       \* the threshold of getStatus() in heart beats
  MaxLockTime,  \* bound on the clock
  MaxIncidents  \* bound on the crashes and stalls

ASSUME LockFileAssumption == {Expiry, MaxLockTime, MaxIncidents} \subseteq Nat

VARIABLES
  lockDir,      \* the directory: whether it exists, its time, who made it (history)
  host,         \* up or down, stalled, where it is with the lock, whether the interval is set
  collector,    \* of a host: where it is, and lastExpiryCheck
  lockTime,     \* the clock
  incidents,
  overslept,    \* a holder did not beat for longer than the expiry (history)
  pulledAway    \* a directory was removed that its collector or user had not looked at (history)

lockVars == <<lockDir, host, collector, lockTime, incidents, pulledAway, overslept>>

Never == -1
NoDir == [exists |-> FALSE, mtime |-> 0, by |-> "none"]
Fresh0 == [up |-> TRUE, stalled |-> FALSE, pc |-> "idle", interval |-> FALSE, late |-> 0]
NoCheck == [pc |-> "idle", seen |-> Never, at |-> Never]

LockInit ==
  /\ lockDir = NoDir /\ lockTime = 0 /\ incidents = 0
  /\ overslept = FALSE /\ pulledAway = FALSE
  /\ host = [h \in Hosts |-> Fresh0] /\ collector = [h \in Hosts |-> NoCheck]

Runs(h) == host[h].up /\ ~host[h].stalled

-----------------------------------------------------------------------------
\* tryLock(): the directory is made, atomically; when it exists the host makes records of
\* its own.
TryLock(h) ==
  /\ Runs(h) /\ host[h].pc = "idle"
  /\ IF lockDir.exists
     THEN host' = [host EXCEPT ![h].pc = "own"] /\ UNCHANGED lockDir
     ELSE /\ lockDir' = [exists |-> TRUE, mtime |-> lockTime, by |-> h]
          /\ host' = [host EXCEPT ![h].pc = "made"]
  /\ UNCHANGED <<collector, lockTime, incidents, pulledAway, overslept>>
\* The first heart beat: when the directory is gone the lock was not acquired.
Acquired(h) ==
  /\ Runs(h) /\ host[h].pc = "made"
  /\ IF lockDir.exists
     THEN /\ lockDir' = [lockDir EXCEPT !.mtime = lockTime]
          /\ host' = [host EXCEPT ![h].pc = "using", ![h].interval = TRUE, ![h].late = 0]
     ELSE host' = [host EXCEPT ![h].pc = "idle", ![h].late = 0] /\ UNCHANGED lockDir
  /\ UNCHANGED <<collector, lockTime, incidents, pulledAway, overslept>>

\* The interval: utimes(); when the directory is gone the interval ends, and the user of
\* the lock is not told.
\* Mutant: the heart beat leaves the time of modification alone.
BeatKeepsTime(d) == d
BeatTime(d) == [d EXCEPT !.mtime = lockTime]
HeartBeat(h) ==
  /\ Runs(h) /\ host[h].interval /\ host[h].late > 0
  /\ IF lockDir.exists
     THEN lockDir' = BeatTime(lockDir) /\ host' = [host EXCEPT ![h].late = 0]
     ELSE host' = [host EXCEPT ![h].interval = FALSE, ![h].late = 0] /\ UNCHANGED lockDir
  /\ UNCHANGED <<collector, lockTime, incidents, pulledAway, overslept>>

\* unlock(force): the interval is stopped, then whatever directory is there is removed.
Unlock(h) ==
  /\ Runs(h) /\ host[h].pc \in {"using", "own"}
  /\ host' = [host EXCEPT ![h] = Fresh0]
  /\ lockDir' = IF host[h].pc = "using" THEN NoDir ELSE lockDir
  /\ pulledAway' = (pulledAway \/ (host[h].pc = "using" /\ lockDir.exists /\ lockDir.by # h))
  /\ UNCHANGED <<collector, lockTime, incidents, overslept>>

-----------------------------------------------------------------------------
\* The collector of a host.  getStatus(): a time that was not seen before starts the
\* count, unless it is already older than the threshold.
\* Mutant: every check starts the count again.
CheckedAnew(c, mtime, now) == [c EXCEPT !.seen = mtime, !.at = now]
Checked(c, mtime, now) ==
  IF c.seen = mtime THEN c
  ELSE [c EXCEPT !.seen = mtime,
                 !.at = IF c.seen = Never /\ now - mtime > Expiry THEN now - Expiry - 1 ELSE now]
Expired(c, now) == now - c.at > Expiry
CollectorStat(h) ==
  /\ Runs(h) /\ collector[h].pc = "idle" /\ host[h].pc # "made"
  /\ collector' = [collector EXCEPT ![h] =
       IF ~lockDir.exists THEN NoCheck
       ELSE LET c == Checked(@, lockDir.mtime, lockTime)
            IN  IF Expired(c, lockTime) THEN [c EXCEPT !.pc = "remove"] ELSE c]
  /\ UNCHANGED <<lockDir, host, lockTime, incidents, pulledAway, overslept>>
\* unlock(force) of an expired lock removes whatever is there by now.
CollectorRemove(h) ==
  /\ Runs(h) /\ collector[h].pc = "remove"
  /\ lockDir' = NoDir
  /\ collector' = [collector EXCEPT ![h] = NoCheck]
  /\ pulledAway' = (pulledAway \/ (lockDir.exists /\ lockDir.mtime # collector[h].seen))
  /\ UNCHANGED <<host, lockTime, incidents, overslept>>

-----------------------------------------------------------------------------
Incident == incidents < MaxIncidents /\ incidents' = incidents + 1
\* A process dies and leaves its directory; it may come back.
HostCrash(h) ==
  /\ Incident /\ host[h].up
  /\ host' = [host EXCEPT ![h] = [Fresh0 EXCEPT !.up = FALSE]]
  /\ collector' = [collector EXCEPT ![h] = NoCheck]
  /\ UNCHANGED <<lockDir, lockTime, pulledAway, overslept>>
HostRestart(h) ==
  /\ ~host[h].up /\ host' = [host EXCEPT ![h] = Fresh0]
  /\ UNCHANGED <<lockDir, collector, lockTime, incidents, pulledAway, overslept>>
\* The event loop of a host is blocked, for any time.
Stall(h) ==
  /\ Incident /\ Runs(h)
  /\ host' = [host EXCEPT ![h].stalled = TRUE]
  /\ UNCHANGED <<lockDir, collector, lockTime, pulledAway, overslept>>
Resume(h) ==
  /\ host[h].stalled /\ host' = [host EXCEPT ![h].stalled = FALSE]
  /\ UNCHANGED <<lockDir, collector, lockTime, incidents, pulledAway, overslept>>

Settled(h) == Runs(h) => host[h].late = 0 /\ host[h].pc # "made" /\ collector[h].pc = "idle"
LockTick ==
  /\ lockTime < MaxLockTime /\ lockTime' = lockTime + 1
  /\ \A h \in Hosts : Settled(h)
  /\ host' = [h \in Hosts |-> IF (host[h].interval \/ host[h].pc = "made") /\ host[h].late <= Expiry
                              THEN [host[h] EXCEPT !.late = @ + 1] ELSE host[h]]
  /\ overslept' = (overslept \/ \E h \in Hosts : host[h].late = Expiry)
  /\ UNCHANGED <<lockDir, collector, incidents, pulledAway>>

Collect(h) == CollectorStat(h) \/ CollectorRemove(h)
LockNext ==
  \/ \E h \in Hosts : \/ TryLock(h) \/ Acquired(h) \/ HeartBeat(h) \/ Unlock(h) \/ Collect(h)
                      \/ HostCrash(h) \/ HostRestart(h) \/ Stall(h) \/ Resume(h)
  \/ LockTick

\* Intervals fire, collectors run, time passes (once a lock was ever asked for).
LockFairness ==
  /\ \A h \in Hosts : WF_lockVars(HeartBeat(h)) /\ WF_lockVars(Acquired(h)) /\ WF_lockVars(Collect(h))
  /\ WF_lockVars(LockTick /\ lockDir.exists)

LockSpec == LockInit /\ [][LockNext]_lockVars /\ LockFairness

-----------------------------------------------------------------------------
\* Two hosts use the records directory at the same time only after a holder was stalled for
\* longer than the expiry, or after a directory was removed that its remover had not looked
\* at: shorter stalls, crashes and restarts do not do it.
Users == {h \in Hosts : host[h].up /\ host[h].pc = "using"}
ExclusiveUse == Cardinality(Users) <= 1 \/ overslept \/ pulledAway

\* A lock that a crash left behind is removed once a collector has seen it, as long as the
\* clock goes on and its host is up and not stalled.
LeftBehind == lockDir.exists /\ \A h \in Hosts : host[h].pc \notin {"using", "made"}
LeftLockRemoved == \A h \in Hosts :
  (LeftBehind /\ collector[h].seen = lockDir.mtime /\ collector[h].at + Expiry < MaxLockTime)
    ~> (~LeftBehind \/ ~Runs(h))
=============================================================================
