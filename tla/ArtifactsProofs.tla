--------------------------- MODULE ArtifactsProofs --------------------------
(***************************************************************************)
(* Proofs about the nodes of the artifacts application.                     *)
(*                                                                          *)
(* The lock on a shared disk, for any set of hosts, any expiry and any      *)
(* number of crashes and stalls.  That one host uses the directory is not   *)
(* inductive: it depends on the collectors, which remove a directory whose  *)
(* holder they believe dead.  LockInv says why they do not err while no     *)
(* holder overslept: the holder's lateness measures the age of the          *)
(* directory (HeldInv), and a collector that counts from a time it has seen *)
(* started no earlier than that time (CheckInv), so that a directory it     *)
(* takes for expired has an old holder.                                     *)
(*                                                                          *)
(* Those who follow the records of a node, for any number of records,       *)
(* callers, failures and restarts and any size of an answer, when the node  *)
(* has one storage.  That nothing is skipped is not inductive: it depends   *)
(* on the ticks to go on from that are under way with a batch, and on what  *)
(* a source that crashes finds on its disk (ReplicationInv).                *)
(***************************************************************************)
EXTENDS MCArtifacts, FiniteSetTheorems, WellFoundedInduction, SequenceTheorems, TLAPS

-----------------------------------------------------------------------------
(* The lock.                                                                *)

HostType == [up : BOOLEAN, stalled : BOOLEAN, pc : {"idle", "own", "made", "using"},
             interval : BOOLEAN, late : Nat]
CollectorType == [pc : {"idle", "remove"}, seen : Nat \cup {Never}, at : Int]

\* The state keeps its types; no directory, and no time that was seen, is of the future.
LockTypeOK ==
  /\ lockDir \in [exists : BOOLEAN, mtime : Nat, by : Hosts \cup {"none"}]
  /\ host \in [Hosts -> HostType]
  /\ collector \in [Hosts -> CollectorType]
  /\ lockTime \in Nat /\ incidents \in Nat
  /\ overslept \in BOOLEAN /\ pulledAway \in BOOLEAN
  /\ lockDir.mtime <= lockTime

\* A holder has made the directory or uses it.
Holds(h) == host[h].pc \in {"made", "using"}

\* The directory of a holder exists, is its own, is kept alive, and is as old as its holder
\* is late; nobody was later than the expiry.
HeldInv == \A h \in Hosts : Holds(h) =>
  /\ lockDir.exists /\ lockDir.by = h
  /\ host[h].late <= Expiry
  /\ host[h].late = lockTime - lockDir.mtime
  /\ host[h].pc = "using" => host[h].interval

\* An interval is that of a user of the lock.
IntervalInv == \A h \in Hosts : host[h].interval => host[h].pc = "using"

\* A host that does not hold the lock is not late.
LateInv == \A h \in Hosts : ~Holds(h) => host[h].late = 0

\* A collector counts from a moment no earlier than the time it saw, and removes what it
\* found expired.
CheckInv == \A h \in Hosts :
  /\ collector[h].seen # Never =>
       collector[h].at >= collector[h].seen /\ collector[h].at <= lockTime
  /\ collector[h].pc = "remove" => collector[h].seen # Never /\ Expired(collector[h], lockTime)

\* The strengthening of ExclusiveUse.
LockInv ==
  /\ LockTypeOK
  /\ IntervalInv
  /\ LateInv
  /\ CheckInv
  /\ overslept \/ pulledAway \/ HeldInv

-----------------------------------------------------------------------------
\* The count of a check: it starts no earlier than the time that is seen, and not later than
\* the clock.
LEMMA CheckedFacts ==
  ASSUME NEW c \in CollectorType, NEW mtime \in Nat, NEW now \in Nat, mtime <= now
  PROVE  /\ Checked(c, mtime, now) \in CollectorType
         /\ Checked(c, mtime, now).seen = mtime
         /\ Checked(c, mtime, now).pc = c.pc
         /\ (c.seen # Never => c.at >= c.seen /\ c.at <= now) =>
              Checked(c, mtime, now).at >= mtime /\ Checked(c, mtime, now).at <= now
<1>1. Expiry \in Nat /\ mtime # Never
  BY LockFileAssumption DEF Never
<1>2. CASE c.seen = mtime
  <2>1. Checked(c, mtime, now) = c
    BY <1>2 DEF Checked
  <2> QED
    BY <1>1, <1>2, <2>1
<1>3. CASE c.seen # mtime
  <2> DEFINE t == IF c.seen = Never /\ now - mtime > Expiry THEN now - Expiry - 1 ELSE now
  <2>1. t \in Int /\ t >= mtime /\ t <= now
    BY <1>1
  <2>2. Checked(c, mtime, now) = [c EXCEPT !.seen = mtime, !.at = t]
    BY <1>3, Zenon DEF Checked
  <2> HIDE DEF t
  <2> QED
    BY <2>1, <2>2 DEF CollectorType
<1> QED
  BY <1>2, <1>3

\* Every step keeps the types.
LEMMA LockTypeInductive == LockTypeOK /\ [LockNext]_lockVars => LockTypeOK'
<1> SUFFICES ASSUME LockTypeOK, [LockNext]_lockVars
             PROVE  LockTypeOK'
  OBVIOUS
<1> DEFINE DirType == [exists : BOOLEAN, mtime : Nat, by : Hosts \cup {"none"}]
           DirOK == lockDir \in DirType /\ lockDir.mtime <= lockTime
           RestOK == lockTime \in Nat /\ incidents \in Nat /\ overslept \in BOOLEAN /\ pulledAway \in BOOLEAN
<1>0. /\ DirOK /\ RestOK
      /\ host \in [Hosts -> HostType] /\ collector \in [Hosts -> CollectorType]
  BY DEF LockTypeOK
<1>t. lockTime <= lockTime /\ lockTime + 1 \in Nat
  BY <1>0
<1>d. NoDir \in DirType /\ NoDir.mtime = 0
  BY DEF NoDir
<1>f. Fresh0 \in HostType /\ [Fresh0 EXCEPT !.up = FALSE] \in HostType /\ NoCheck \in CollectorType
  <2>1. Fresh0 \in HostType
    BY DEF HostType, Fresh0
  <2>2. [Fresh0 EXCEPT !.up = FALSE] \in HostType
    BY DEF HostType, Fresh0
  <2>3. NoCheck \in CollectorType
    BY DEF CollectorType, NoCheck, Never
  <2> QED
    BY <2>1, <2>2, <2>3
<1>h. ASSUME NEW r \in HostType
      PROVE  /\ [r EXCEPT !.pc = "own"] \in HostType
             /\ [r EXCEPT !.pc = "made"] \in HostType
             /\ [r EXCEPT !.pc = "using", !.interval = TRUE, !.late = 0] \in HostType
             /\ [r EXCEPT !.pc = "idle", !.late = 0] \in HostType
             /\ [r EXCEPT !.late = 0] \in HostType
             /\ [r EXCEPT !.interval = FALSE, !.late = 0] \in HostType
             /\ [r EXCEPT !.stalled = TRUE] \in HostType
             /\ [r EXCEPT !.stalled = FALSE] \in HostType
             /\ [r EXCEPT !.late = @ + 1] \in HostType
  <2>1. [r EXCEPT !.pc = "own"] \in HostType
    BY DEF HostType
  <2>2. [r EXCEPT !.pc = "made"] \in HostType
    BY DEF HostType
  <2>3. [r EXCEPT !.pc = "using", !.interval = TRUE, !.late = 0] \in HostType
    BY DEF HostType
  <2>4. [r EXCEPT !.pc = "idle", !.late = 0] \in HostType
    BY DEF HostType
  <2>5. [r EXCEPT !.late = 0] \in HostType
    BY DEF HostType
  <2>6. [r EXCEPT !.interval = FALSE, !.late = 0] \in HostType
    BY DEF HostType
  <2>7. [r EXCEPT !.stalled = TRUE] \in HostType /\ [r EXCEPT !.stalled = FALSE] \in HostType
    BY DEF HostType
  <2>8. [r EXCEPT !.late = @ + 1] \in HostType
    BY DEF HostType
  <2> QED
    BY <2>1, <2>2, <2>3, <2>4, <2>5, <2>6, <2>7, <2>8
<1>b. /\ [lockDir EXCEPT !.mtime = lockTime] \in DirType
      /\ [lockDir EXCEPT !.mtime = lockTime].mtime = lockTime
  BY <1>0
<1>r. ASSUME RestOK', DirOK', host' \in [Hosts -> HostType], collector' \in [Hosts -> CollectorType]
      PROVE  LockTypeOK'
  BY <1>r DEF LockTypeOK
<1>1. ASSUME NEW h \in Hosts, TryLock(h) PROVE LockTypeOK'
  <2>1. /\ [host[h] EXCEPT !.pc = "own"] \in HostType
        /\ [host[h] EXCEPT !.pc = "made"] \in HostType
    BY <1>0, <1>h
  <2>2. \/ host' = [host EXCEPT ![h] = [host[h] EXCEPT !.pc = "own"]] /\ lockDir' = lockDir
        \/ /\ host' = [host EXCEPT ![h] = [host[h] EXCEPT !.pc = "made"]]
           /\ lockDir' = [exists |-> TRUE, mtime |-> lockTime, by |-> h]
    BY <1>1, Zenon DEF TryLock
  <2>3. host' \in [Hosts -> HostType]
    BY <1>0, <2>1, <2>2
  <2>4. lockTime' = lockTime
    BY <1>1 DEF TryLock
  <2>5. DirOK'
    <3> DEFINE d == [exists |-> TRUE, mtime |-> lockTime, by |-> h]
    <3>1. d \in DirType /\ d.mtime = lockTime
      BY <1>0
    <3> QED
      BY <1>0, <1>t, <2>2, <2>4, <3>1
  <2> QED
    BY <1>0, <1>1, <1>r, <2>3, <2>5 DEF TryLock
<1>2. ASSUME NEW h \in Hosts, Acquired(h) PROVE LockTypeOK'
  <2>1. /\ [host[h] EXCEPT !.pc = "using", !.interval = TRUE, !.late = 0] \in HostType
        /\ [host[h] EXCEPT !.pc = "idle", !.late = 0] \in HostType
    BY <1>0, <1>h
  <2>2. \/ /\ lockDir' = [lockDir EXCEPT !.mtime = lockTime]
           /\ host' = [host EXCEPT ![h] = [host[h] EXCEPT !.pc = "using", !.interval = TRUE, !.late = 0]]
        \/ /\ lockDir' = lockDir
           /\ host' = [host EXCEPT ![h] = [host[h] EXCEPT !.pc = "idle", !.late = 0]]
    BY <1>2, Zenon DEF Acquired
  <2>3. host' \in [Hosts -> HostType]
    BY <1>0, <2>1, <2>2
  <2>4. lockTime' = lockTime
    BY <1>2 DEF Acquired
  <2>5. DirOK'
    BY <1>0, <1>b, <1>t, <2>2, <2>4
  <2> QED
    BY <1>0, <1>2, <1>r, <2>3, <2>5 DEF Acquired
<1>3. ASSUME NEW h \in Hosts, HeartBeat(h) PROVE LockTypeOK'
  <2>1. /\ [host[h] EXCEPT !.late = 0] \in HostType
        /\ [host[h] EXCEPT !.interval = FALSE, !.late = 0] \in HostType
    BY <1>0, <1>h
  <2>2. \/ /\ lockDir' = [lockDir EXCEPT !.mtime = lockTime]
           /\ host' = [host EXCEPT ![h] = [host[h] EXCEPT !.late = 0]]
        \/ /\ lockDir' = lockDir
           /\ host' = [host EXCEPT ![h] = [host[h] EXCEPT !.interval = FALSE, !.late = 0]]
    BY <1>3, Zenon DEF HeartBeat, BeatTime
  <2>3. host' \in [Hosts -> HostType]
    BY <1>0, <2>1, <2>2
  <2>4. lockTime' = lockTime
    BY <1>3 DEF HeartBeat
  <2>5. DirOK'
    BY <1>0, <1>b, <1>t, <2>2, <2>4
  <2> QED
    BY <1>0, <1>3, <1>r, <2>3, <2>5 DEF HeartBeat
<1>4. ASSUME NEW h \in Hosts, Unlock(h) PROVE LockTypeOK'
  <2>1. host' \in [Hosts -> HostType]
    BY <1>0, <1>4, <1>f DEF Unlock
  <2>2. DirOK'
    BY <1>0, <1>4, <1>d DEF Unlock
  <2> QED
    BY <1>0, <1>4, <1>r, <2>1, <2>2 DEF Unlock
<1>5. ASSUME NEW h \in Hosts, CollectorStat(h) PROVE LockTypeOK'
  <2>1. collector[h] \in CollectorType
    BY <1>0
  <2>2. Checked(collector[h], lockDir.mtime, lockTime) \in CollectorType
    BY <1>0, <2>1, CheckedFacts
  <2>3. \A c \in CollectorType : [c EXCEPT !.pc = "remove"] \in CollectorType
    BY DEF CollectorType
  <2>4. \E c \in CollectorType : collector' = [collector EXCEPT ![h] = c]
    BY <1>5, <1>f, <2>2, <2>3 DEF CollectorStat
  <2> QED
    BY <1>0, <1>5, <1>r, <2>4 DEF CollectorStat
<1>6. ASSUME NEW h \in Hosts, CollectorRemove(h) PROVE LockTypeOK'
  <2>1. collector' \in [Hosts -> CollectorType]
    BY <1>0, <1>6, <1>f DEF CollectorRemove
  <2>2. DirOK'
    BY <1>0, <1>6, <1>d DEF CollectorRemove
  <2> QED
    BY <1>0, <1>6, <1>r, <2>1, <2>2 DEF CollectorRemove
<1>7. ASSUME NEW h \in Hosts, HostCrash(h) PROVE LockTypeOK'
  <2>1. host' \in [Hosts -> HostType] /\ collector' \in [Hosts -> CollectorType]
    BY <1>0, <1>7, <1>f DEF HostCrash
  <2> QED
    BY <1>0, <1>7, <1>r, <2>1 DEF HostCrash, Incident
<1>8. ASSUME NEW h \in Hosts, HostRestart(h) PROVE LockTypeOK'
  <2>1. host' \in [Hosts -> HostType]
    BY <1>0, <1>8, <1>f DEF HostRestart
  <2> QED
    BY <1>0, <1>8, <1>r, <2>1 DEF HostRestart
<1>9. ASSUME NEW h \in Hosts, Stall(h) \/ Resume(h) PROVE LockTypeOK'
  <2>1. host[h] \in HostType
    BY <1>0
  <2>2. \E r \in HostType : host' = [host EXCEPT ![h] = r]
    BY <1>9, <1>h, <2>1 DEF Stall, Resume
  <2> QED
    BY <1>0, <1>9, <1>r, <2>2 DEF Stall, Resume, Incident
<1>10. CASE LockTick
  <2>1. host' \in [Hosts -> HostType]
    BY <1>0, <1>10, <1>h DEF LockTick
  <2>2. DirOK' /\ RestOK' /\ collector' = collector
    BY <1>0, <1>10 DEF LockTick
  <2> QED
    BY <1>0, <1>r, <2>1, <2>2
<1>11. CASE UNCHANGED lockVars
  BY <1>0, <1>r, <1>11 DEF lockVars
<1> QED
  BY <1>1, <1>2, <1>3, <1>4, <1>5, <1>6, <1>7, <1>8, <1>9, <1>10, <1>11 DEF LockNext, Collect

-----------------------------------------------------------------------------
\* Every step keeps the strengthened invariant.
LEMMA LockInvInductive == LockInv /\ [LockNext]_lockVars => LockInv'
<1> SUFFICES ASSUME LockInv, [LockNext]_lockVars
             PROVE  LockInv'
  OBVIOUS
<1> DEFINE Good == ~overslept /\ ~pulledAway
<1>t. LockTypeOK'
  BY LockTypeInductive DEF LockInv
<1>0. /\ Expiry \in Nat /\ lockTime \in Nat /\ lockTime' \in Nat
      /\ lockDir.mtime \in Nat /\ lockDir.mtime <= lockTime
      /\ host \in [Hosts -> HostType] /\ collector \in [Hosts -> CollectorType]
      /\ lockDir \in [exists : BOOLEAN, mtime : Nat, by : Hosts \cup {"none"}]
  BY <1>t, LockFileAssumption DEF LockInv, LockTypeOK
<1>i. IntervalInv /\ LateInv /\ CheckInv /\ (Good => HeldInv)
  BY DEF LockInv
<1>r. ASSUME IntervalInv', LateInv', CheckInv', Good' => HeldInv'
      PROVE  LockInv'
  BY <1>t, <1>r DEF LockInv
\* What a host and a collector that a step leaves alone keep.
<1>k. ASSUME NEW g \in Hosts, host'[g] = host[g]
      PROVE  /\ host'[g].interval => host'[g].pc = "using"
             /\ ~Holds(g)' => host'[g].late = 0
             /\ Holds(g)' <=> Holds(g)
  BY <1>i, <1>k DEF IntervalInv, LateInv, Holds
<1>c. ASSUME collector' = collector, lockTime' >= lockTime
      PROVE  CheckInv'
  <2> SUFFICES ASSUME NEW h \in Hosts
               PROVE  /\ collector[h].seen # Never =>
                            collector[h].at >= collector[h].seen /\ collector[h].at <= lockTime'
                      /\ collector[h].pc = "remove" =>
                            collector[h].seen # Never /\ Expired(collector[h], lockTime')
    BY <1>c DEF CheckInv, Expired
  <2>1. collector[h].at \in Int /\ (collector[h].seen # Never => collector[h].seen \in Nat)
    BY <1>0 DEF CollectorType
  <2>2. /\ collector[h].seen # Never =>
             collector[h].at >= collector[h].seen /\ collector[h].at <= lockTime
        /\ collector[h].pc = "remove" => collector[h].seen # Never /\ Expired(collector[h], lockTime)
    BY <1>i DEF CheckInv
  <2> QED
    BY <1>0, <1>c, <2>1, <2>2 DEF Expired
<1>1. ASSUME NEW h \in Hosts, TryLock(h) PROVE LockInv'
  <2>1. \A g \in Hosts \ {h} : host'[g] = host[g]
    BY <1>0, <1>1 DEF TryLock
  <2>2. /\ host[h].pc = "idle" /\ ~host[h].interval /\ host[h].late = 0
        /\ host'[h].interval = host[h].interval /\ host'[h].late = host[h].late
    <3>1. host[h].pc = "idle" /\ ~host[h].interval /\ host[h].late = 0
      BY <1>0, <1>1, <1>i DEF TryLock, IntervalInv, LateInv, Holds
    <3>2. \/ host'[h] = [host[h] EXCEPT !.pc = "own"]
          \/ host'[h] = [host[h] EXCEPT !.pc = "made"]
      BY <1>0, <1>1 DEF TryLock
    <3>3. host[h] \in HostType
      BY <1>0
    <3> QED
      BY <3>1, <3>2, <3>3 DEF HostType
  <2>3. IF lockDir.exists
        THEN host'[h].pc = "own" /\ lockDir' = lockDir
        ELSE /\ host'[h].pc = "made"
             /\ lockDir'.exists /\ lockDir'.mtime = lockTime /\ lockDir'.by = h
    <3>1. IF lockDir.exists
          THEN host'[h] = [host[h] EXCEPT !.pc = "own"] /\ lockDir' = lockDir
          ELSE /\ host'[h] = [host[h] EXCEPT !.pc = "made"]
               /\ lockDir' = [exists |-> TRUE, mtime |-> lockTime, by |-> h]
      BY <1>0, <1>1 DEF TryLock
    <3>2. host[h] \in HostType
      BY <1>0
    <3> QED
      BY <3>1, <3>2 DEF HostType
  <2>4. lockTime' = lockTime /\ collector' = collector /\ (Good' <=> Good)
    BY <1>1 DEF TryLock
  <2>5. IntervalInv' /\ LateInv'
    BY <1>k, <2>1, <2>2 DEF IntervalInv, LateInv
  <2>6. ASSUME Good' PROVE HeldInv'
    <3>1. HeldInv
      BY <1>i, <2>4, <2>6
    <3>2. CASE lockDir.exists
      <4>1. ~Holds(h)'
        BY <2>3, <3>2 DEF Holds
      <4> QED
        BY <1>k, <2>1, <2>3, <2>4, <3>1, <3>2, <4>1 DEF HeldInv
    <3>3. CASE ~lockDir.exists
      <4>1. \A g \in Hosts \ {h} : ~Holds(g)'
        BY <1>k, <2>1, <3>1, <3>3 DEF HeldInv
      <4>2. host'[h].late <= Expiry /\ host'[h].late = lockTime' - lockDir'.mtime
        BY <1>0, <2>2, <2>3, <2>4, <3>3
      <4> QED
        BY <2>3, <3>3, <4>1, <4>2 DEF HeldInv
    <3> QED
      BY <3>2, <3>3
  <2> QED
    BY <1>0, <1>c, <1>r, <2>4, <2>5, <2>6
<1>2. ASSUME NEW h \in Hosts, Acquired(h) PROVE LockInv'
  <2>1. \A g \in Hosts \ {h} : host'[g] = host[g]
    BY <1>0, <1>2 DEF Acquired
  <2>2. /\ Holds(h) /\ host[h].pc = "made" /\ ~host[h].interval /\ host'[h].late = 0
        /\ IF lockDir.exists
           THEN /\ host'[h].pc = "using" /\ host'[h].interval
                /\ lockDir'.exists /\ lockDir'.by = lockDir.by /\ lockDir'.mtime = lockTime
           ELSE host'[h].pc = "idle" /\ host'[h].interval = host[h].interval
    <3>1. host[h] \in HostType /\ host[h].pc = "made" /\ ~host[h].interval
      BY <1>0, <1>2, <1>i DEF Acquired, IntervalInv
    <3>2. IF lockDir.exists
          THEN /\ host'[h] = [host[h] EXCEPT !.pc = "using", !.interval = TRUE, !.late = 0]
               /\ lockDir' = [lockDir EXCEPT !.mtime = lockTime]
          ELSE host'[h] = [host[h] EXCEPT !.pc = "idle", !.late = 0]
      BY <1>0, <1>2 DEF Acquired
    <3>3. CASE lockDir.exists
      <4>1. lockDir'.exists /\ lockDir'.by = lockDir.by /\ lockDir'.mtime = lockTime
        BY <1>0, <3>2, <3>3
      <4> QED
        BY <3>1, <3>2, <3>3, <4>1 DEF Holds, HostType
    <3>4. CASE ~lockDir.exists
      BY <3>1, <3>2, <3>4 DEF Holds, HostType
    <3> QED
      BY <3>3, <3>4
  <2>3. lockTime' = lockTime /\ collector' = collector /\ (Good' <=> Good)
    BY <1>2 DEF Acquired
  <2>4. IntervalInv' /\ LateInv'
    BY <1>k, <2>1, <2>2 DEF IntervalInv, LateInv
  <2>5. ASSUME Good' PROVE HeldInv'
    <3>1. lockDir.exists /\ lockDir.by = h /\ \A g \in Hosts \ {h} : ~Holds(g)'
      BY <1>i, <1>k, <2>1, <2>2, <2>3, <2>5 DEF HeldInv
    <3>2. host'[h].late <= Expiry /\ host'[h].late = lockTime' - lockDir'.mtime
      BY <1>0, <2>2, <2>3, <3>1
    <3> QED
      BY <2>2, <3>1, <3>2 DEF HeldInv
  <2> QED
    BY <1>0, <1>c, <1>r, <2>3, <2>4, <2>5
<1>3. ASSUME NEW h \in Hosts, HeartBeat(h) PROVE LockInv'
  <2>1. \A g \in Hosts \ {h} : host'[g] = host[g]
    BY <1>0, <1>3 DEF HeartBeat
  <2>2. /\ Holds(h) /\ host[h].pc = "using" /\ host'[h].pc = "using" /\ host'[h].late = 0
        /\ lockDir.exists =>
             /\ host'[h].interval
             /\ lockDir'.exists /\ lockDir'.by = lockDir.by /\ lockDir'.mtime = lockTime
    <3>1. host[h] \in HostType /\ host[h].pc = "using" /\ host[h].interval
      BY <1>0, <1>3, <1>i DEF HeartBeat, IntervalInv
    <3>2. IF lockDir.exists
          THEN /\ host'[h] = [host[h] EXCEPT !.late = 0]
               /\ lockDir' = [lockDir EXCEPT !.mtime = lockTime]
          ELSE host'[h] = [host[h] EXCEPT !.interval = FALSE, !.late = 0]
      BY <1>0, <1>3 DEF HeartBeat, BeatTime
    <3>3. CASE lockDir.exists
      <4>1. lockDir'.exists /\ lockDir'.by = lockDir.by /\ lockDir'.mtime = lockTime
        BY <1>0, <3>2, <3>3
      <4> QED
        BY <3>1, <3>2, <3>3, <4>1 DEF Holds, HostType
    <3>4. CASE ~lockDir.exists
      BY <3>1, <3>2, <3>4 DEF Holds, HostType
    <3> QED
      BY <3>3, <3>4
  <2>3. lockTime' = lockTime /\ collector' = collector /\ (Good' <=> Good)
    BY <1>3 DEF HeartBeat
  <2>4. IntervalInv' /\ LateInv'
    BY <1>k, <2>1, <2>2 DEF IntervalInv, LateInv
  <2>5. ASSUME Good' PROVE HeldInv'
    <3>1. lockDir.exists /\ lockDir.by = h /\ \A g \in Hosts \ {h} : ~Holds(g)'
      BY <1>i, <1>k, <2>1, <2>2, <2>3, <2>5 DEF HeldInv
    <3>2. host'[h].late <= Expiry /\ host'[h].late = lockTime' - lockDir'.mtime
      BY <1>0, <2>2, <2>3, <3>1
    <3> QED
      BY <2>2, <3>1, <3>2 DEF HeldInv
  <2> QED
    BY <1>0, <1>c, <1>r, <2>3, <2>4, <2>5
<1>4. ASSUME NEW h \in Hosts, Unlock(h) PROVE LockInv'
  <2>1. \A g \in Hosts \ {h} : host'[g] = host[g]
    BY <1>0, <1>4 DEF Unlock
  <2>2. host'[h].pc = "idle" /\ ~host'[h].interval /\ host'[h].late = 0
    BY <1>0, <1>4 DEF Unlock, Fresh0
  <2>3. lockTime' = lockTime /\ collector' = collector /\ (Good' => Good)
    BY <1>4 DEF Unlock
  <2>4. IntervalInv' /\ LateInv'
    BY <1>k, <2>1, <2>2 DEF IntervalInv, LateInv
  <2>5. ASSUME Good' PROVE HeldInv'
    <3>1. HeldInv /\ ~Holds(h)'
      BY <1>i, <2>2, <2>3, <2>5 DEF Holds
    <3>2. CASE host[h].pc = "using"
      <4>1. \A g \in Hosts \ {h} : ~Holds(g)'
        BY <1>k, <2>1, <3>1, <3>2 DEF HeldInv, Holds
      <4> QED
        BY <3>1, <4>1 DEF HeldInv
    <3>3. CASE host[h].pc # "using"
      <4>1. lockDir' = lockDir
        BY <1>4, <3>3 DEF Unlock
      <4> QED
        BY <1>k, <2>1, <2>3, <3>1, <4>1 DEF HeldInv
    <3> QED
      BY <3>2, <3>3
  <2> QED
    BY <1>0, <1>c, <1>r, <2>3, <2>4, <2>5
\* A collector that sees a time for the first time counts from now, or from the moment that
\* makes an old directory expire, which is not before that time.
<1>5. ASSUME NEW h \in Hosts, CollectorStat(h) PROVE LockInv'
  <2>1. /\ lockDir' = lockDir /\ host' = host /\ lockTime' = lockTime /\ (Good' <=> Good)
        /\ \A g \in Hosts \ {h} : collector'[g] = collector[g]
    BY <1>0, <1>5 DEF CollectorStat
  <2>2. /\ collector[h].seen \in Nat \cup {Never} /\ collector[h].at \in Int
        /\ collector[h].pc = "idle"
        /\ collector[h].seen # Never => collector[h].at >= collector[h].seen /\ collector[h].at <= lockTime
    BY <1>0, <1>5, <1>i DEF CollectorStat, CollectorType, CheckInv
  <2> DEFINE c == Checked(collector[h], lockDir.mtime, lockTime)
  <2>3. /\ c \in CollectorType /\ c.pc = "idle"
        /\ c.seen = lockDir.mtime /\ c.at >= c.seen /\ c.at <= lockTime
    <3>1. collector[h] \in CollectorType
      BY <1>0
    <3>2. /\ c \in CollectorType /\ c.seen = lockDir.mtime /\ c.pc = collector[h].pc
          /\ (collector[h].seen # Never => collector[h].at >= collector[h].seen /\ collector[h].at <= lockTime)
               => c.at >= lockDir.mtime /\ c.at <= lockTime
      <4> DEFINE m == lockDir.mtime
      <4>1. m \in Nat /\ lockTime \in Nat /\ m <= lockTime
        BY <1>0
      <4> HIDE DEF m
      <4>2. c = Checked(collector[h], m, lockTime)
        BY DEF m
      <4> HIDE DEF c
      <4>3. /\ c \in CollectorType /\ c.seen = m /\ c.pc = collector[h].pc
            /\ (collector[h].seen # Never => collector[h].at >= collector[h].seen /\ collector[h].at <= lockTime)
                 => c.at >= m /\ c.at <= lockTime
        BY <3>1, <4>1, <4>2, CheckedFacts
      <4> QED
        BY <4>3 DEF m
    <3> HIDE DEF c
    <3> QED
      BY <2>2, <3>2
  <2> HIDE DEF c
  <2>4. \/ collector'[h] = NoCheck
        \/ collector'[h] = [c EXCEPT !.pc = "remove"] /\ Expired(c, lockTime)
        \/ collector'[h] = c
    BY <1>0, <1>5 DEF CollectorStat, c
  <2>5. /\ collector'[h].seen # Never =>
             collector'[h].at >= collector'[h].seen /\ collector'[h].at <= lockTime
        /\ collector'[h].pc = "remove" =>
             collector'[h].seen # Never /\ Expired(collector'[h], lockTime)
    <3>1. CASE collector'[h] = NoCheck
      BY <3>1 DEF NoCheck
    <3>2. CASE collector'[h] = [c EXCEPT !.pc = "remove"] /\ Expired(c, lockTime)
      <4>1. /\ collector'[h].seen = c.seen /\ collector'[h].at = c.at
            /\ Expired(collector'[h], lockTime)
        BY <2>3, <3>2 DEF CollectorType, Expired
      <4>2. c.seen # Never
        BY <1>0, <2>3 DEF Never
      <4> QED
        BY <2>3, <4>1, <4>2
    <3>3. CASE collector'[h] = c
      BY <2>3, <3>3
    <3> QED
      BY <2>4, <3>1, <3>2, <3>3
  <2>6. CheckInv'
    BY <1>i, <2>1, <2>5 DEF CheckInv, Expired
  <2> QED
    BY <1>i, <1>r, <2>1, <2>6 DEF IntervalInv, LateInv, HeldInv, Holds
\* The directory that is removed is the one that was seen, and older than the expiry: it has
\* no holder.
<1>6. ASSUME NEW h \in Hosts, CollectorRemove(h) PROVE LockInv'
  <2>1. /\ host' = host /\ lockTime' = lockTime /\ collector'[h] = NoCheck
        /\ \A g \in Hosts \ {h} : collector'[g] = collector[g]
    BY <1>0, <1>6 DEF CollectorRemove
  <2>2. NoCheck.seen = Never /\ NoCheck.pc = "idle"
    BY DEF NoCheck
  <2>3. CheckInv'
    BY <1>i, <2>1, <2>2 DEF CheckInv, Expired
  <2>4. ASSUME Good' PROVE HeldInv'
    <3>1. HeldInv /\ (lockDir.exists => lockDir.mtime = collector[h].seen)
      BY <1>6, <1>i, <2>4 DEF CollectorRemove
    <3>2. /\ collector[h].at >= collector[h].seen /\ lockTime - collector[h].at > Expiry
          /\ collector[h].at \in Int
      BY <1>0, <1>6, <1>i DEF CollectorRemove, CheckInv, CollectorType, Expired
    <3>3. \A g \in Hosts : ~Holds(g)
      BY <1>0, <3>1, <3>2 DEF HeldInv
    <3> QED
      BY <2>1, <3>3 DEF HeldInv, Holds
  <2> QED
    BY <1>i, <1>r, <2>1, <2>3, <2>4 DEF IntervalInv, LateInv, Holds
<1>7. ASSUME NEW h \in Hosts, HostCrash(h) PROVE LockInv'
  <2>1. \A g \in Hosts \ {h} : host'[g] = host[g] /\ collector'[g] = collector[g]
    BY <1>0, <1>7 DEF HostCrash
  <2>2. host'[h].pc = "idle" /\ ~host'[h].interval /\ host'[h].late = 0
    BY <1>0, <1>7 DEF HostCrash, Fresh0
  <2>3. collector'[h].seen = Never /\ collector'[h].pc = "idle"
    BY <1>0, <1>7 DEF HostCrash, NoCheck
  <2>4. lockTime' = lockTime /\ lockDir' = lockDir /\ (Good' <=> Good)
    BY <1>7 DEF HostCrash
  <2>5. IntervalInv' /\ LateInv'
    BY <1>k, <2>1, <2>2 DEF IntervalInv, LateInv
  <2>6. CheckInv'
    BY <1>i, <2>1, <2>3, <2>4 DEF CheckInv, Expired
  <2>7. ASSUME Good' PROVE HeldInv'
    <3>1. HeldInv /\ ~Holds(h)'
      BY <1>i, <2>2, <2>4, <2>7 DEF Holds
    <3> QED
      BY <1>k, <2>1, <2>4, <3>1 DEF HeldInv
  <2> QED
    BY <1>r, <2>5, <2>6, <2>7
<1>8. ASSUME NEW h \in Hosts, HostRestart(h) PROVE LockInv'
  <2>1. \A g \in Hosts \ {h} : host'[g] = host[g]
    BY <1>0, <1>8 DEF HostRestart
  <2>2. host'[h].pc = "idle" /\ ~host'[h].interval /\ host'[h].late = 0
    BY <1>0, <1>8 DEF HostRestart, Fresh0
  <2>3. lockTime' = lockTime /\ lockDir' = lockDir /\ collector' = collector /\ (Good' <=> Good)
    BY <1>8 DEF HostRestart
  <2>4. IntervalInv' /\ LateInv'
    BY <1>k, <2>1, <2>2 DEF IntervalInv, LateInv
  <2>5. ASSUME Good' PROVE HeldInv'
    <3>1. HeldInv /\ ~Holds(h)'
      BY <1>i, <2>2, <2>3, <2>5 DEF Holds
    <3> QED
      BY <1>k, <2>1, <2>3, <3>1 DEF HeldInv
  <2> QED
    BY <1>0, <1>c, <1>r, <2>3, <2>4, <2>5
<1>9. ASSUME NEW h \in Hosts, Stall(h) \/ Resume(h) PROVE LockInv'
  <2>1. \A g \in Hosts \ {h} : host'[g] = host[g]
    BY <1>0, <1>9 DEF Stall, Resume
  <2>2. /\ host'[h].pc = host[h].pc /\ host'[h].interval = host[h].interval
        /\ host'[h].late = host[h].late
    <3>1. host'[h] \in {[host[h] EXCEPT !.stalled = TRUE], [host[h] EXCEPT !.stalled = FALSE]}
      BY <1>0, <1>9 DEF Stall, Resume
    <3>2. host[h] \in HostType
      BY <1>0
    <3> QED
      BY <3>1, <3>2 DEF HostType
  <2>3. lockTime' = lockTime /\ lockDir' = lockDir /\ collector' = collector /\ (Good' <=> Good)
    BY <1>9 DEF Stall, Resume
  <2>4. \A g \in Hosts : /\ host'[g].pc = host[g].pc /\ host'[g].interval = host[g].interval
                         /\ host'[g].late = host[g].late
    BY <2>1, <2>2
  <2>5. IntervalInv' /\ LateInv' /\ (HeldInv => HeldInv')
    BY <1>i, <2>3, <2>4 DEF IntervalInv, LateInv, HeldInv, Holds
  <2> QED
    BY <1>0, <1>c, <1>i, <1>r, <2>3, <2>5
\* A holder gets later by as much as its directory gets older; one that was late by the
\* expiry overslept.
<1>10. CASE LockTick
  <2>1. /\ lockTime' = lockTime + 1 /\ lockDir' = lockDir /\ collector' = collector
        /\ overslept' = (overslept \/ \E h \in Hosts : host[h].late = Expiry)
        /\ pulledAway' = pulledAway
    BY <1>10 DEF LockTick
  <2>2. ASSUME NEW h \in Hosts
        PROVE  /\ host'[h].pc = host[h].pc /\ host'[h].interval = host[h].interval
               /\ host'[h].late =
                    IF (host[h].interval \/ host[h].pc = "made") /\ host[h].late <= Expiry
                    THEN host[h].late + 1 ELSE host[h].late
    <3>1. host[h] \in HostType
      BY <1>0
    <3>2. host'[h] = IF (host[h].interval \/ host[h].pc = "made") /\ host[h].late <= Expiry
                     THEN [host[h] EXCEPT !.late = @ + 1] ELSE host[h]
      BY <1>10 DEF LockTick
    <3> QED
      BY <3>1, <3>2 DEF HostType
  <2>3. IntervalInv' /\ LateInv'
    BY <1>i, <2>2 DEF IntervalInv, LateInv, Holds
  <2>4. ASSUME Good' PROVE HeldInv'
    <3>1. HeldInv /\ \A h \in Hosts : host[h].late # Expiry
      BY <1>i, <2>1, <2>4
    <3> SUFFICES ASSUME NEW h \in Hosts, Holds(h)'
                 PROVE  /\ lockDir'.exists /\ lockDir'.by = h
                        /\ host'[h].late <= Expiry
                        /\ host'[h].late = lockTime' - lockDir'.mtime
                        /\ host'[h].pc = "using" => host'[h].interval
      BY DEF HeldInv
    <3>2. Holds(h)
      BY <2>2 DEF Holds
    <3>3. /\ lockDir.exists /\ lockDir.by = h /\ host[h].late <= Expiry
          /\ host[h].late = lockTime - lockDir.mtime
          /\ host[h].pc = "using" => host[h].interval
      BY <3>1, <3>2 DEF HeldInv
    <3>4. host'[h].late = host[h].late + 1 /\ host[h].late \in Nat /\ host[h].late < Expiry
      <4>1. host[h].late \in Nat /\ Expiry \in Nat
        BY <1>0, LockFileAssumption DEF HostType
      <4>2. host[h].interval \/ host[h].pc = "made"
        BY <3>2, <3>3 DEF Holds
      <4>3. host[h].late < Expiry
        BY <3>1, <3>3, <4>1
      <4> QED
        BY <2>2, <3>3, <4>1, <4>2, <4>3
    <3> QED
      BY <1>0, <2>1, <2>2, <3>3, <3>4
  <2> QED
    BY <1>0, <1>c, <1>r, <2>1, <2>3, <2>4
<1>11. CASE UNCHANGED lockVars
  BY <1>0, <1>c, <1>i, <1>r, <1>11 DEF lockVars, IntervalInv, LateInv, HeldInv, Holds
<1> QED
  BY <1>1, <1>2, <1>3, <1>4, <1>5, <1>6, <1>7, <1>8, <1>9, <1>10, <1>11 DEF LockNext, Collect

LEMMA LockStarts ==
  ASSUME LockInit
  PROVE  LockInv
<1>1. \A h \in Hosts : host[h] = Fresh0 /\ collector[h] = NoCheck
  BY DEF LockInit
<1>2. LockTypeOK
  <2>1. NoDir \in [exists : BOOLEAN, mtime : Nat, by : Hosts \cup {"none"}] /\ NoDir.mtime = 0
    BY DEF NoDir
  <2>2. Fresh0 \in HostType
    BY DEF Fresh0, HostType
  <2>3. NoCheck \in CollectorType
    BY DEF NoCheck, CollectorType, Never
  <2>4. host \in [Hosts -> HostType] /\ collector \in [Hosts -> CollectorType]
    BY <2>2, <2>3 DEF LockInit
  <2>5. lockDir = NoDir /\ lockTime = 0 /\ incidents = 0 /\ overslept = FALSE /\ pulledAway = FALSE
    BY DEF LockInit
  <2>6. lockDir \in [exists : BOOLEAN, mtime : Nat, by : Hosts \cup {"none"}]
    BY <2>1, <2>5
  <2>7. lockDir.mtime = 0 /\ lockTime = 0 /\ incidents = 0
    BY <2>1, <2>5, Zenon
  <2>8. lockDir.mtime <= lockTime /\ lockTime \in Nat /\ incidents \in Nat
    BY <2>7
  <2>9. overslept \in BOOLEAN /\ pulledAway \in BOOLEAN
    BY <2>5
  <2> QED
    BY <2>4, <2>6, <2>8, <2>9 DEF LockTypeOK
<1>3. IntervalInv /\ LateInv /\ HeldInv
  BY <1>1 DEF IntervalInv, LateInv, HeldInv, Holds, Fresh0
<1>4. CheckInv
  BY <1>1 DEF CheckInv, NoCheck
<1> QED
  BY <1>2, <1>3, <1>4 DEF LockInv

LEMMA LockInvariant == LockSpec => []LockInv
<1>1. LockInit => LockInv
  BY LockStarts
<1> QED
  BY <1>1, LockInvInductive, PTL DEF LockSpec

\* The lock, its hosts and their collectors keep their types, and no time of modification is
\* in the future: lock_file.js.
THEOREM LockTypeCorrect == LockSpec => []LockTypeOK
<1>1. LockInv => LockTypeOK
  BY DEF LockInv
<1> QED
  BY <1>1, LockInvariant, PTL

\* A collector only takes a directory for expired that it has watched, or that was old when it
\* first saw it, for longer than the expiry: getStatus().
THEOREM CollectorsCountFromWhatTheySaw == LockSpec => []CheckInv
<1>1. LockInv => CheckInv
  BY DEF LockInv
<1> QED
  BY <1>1, LockInvariant, PTL

\* One holder, while nobody overslept and nothing was pulled away.
LEMMA ExclusiveFromInv == LockInv => ExclusiveUse
<1> SUFFICES ASSUME LockInv, ~overslept, ~pulledAway
             PROVE  Cardinality(Users) <= 1
  BY DEF ExclusiveUse
<1>1. HeldInv
  BY DEF LockInv
<1>2. \A g, h \in Users : g = h
  BY <1>1 DEF HeldInv, Users, Holds
<1>3. CASE Users = {}
  BY <1>3, FS_EmptySet
<1>4. CASE Users # {}
  <2>1. PICK h \in Users : TRUE
    BY <1>4
  <2>2. Users = {h}
    BY <1>2, <2>1
  <2> QED
    <3>1. Cardinality({h}) = 1
      BY FS_Singleton
    <3> QED
      BY <2>2, <3>1
<1> QED
  BY <1>3, <1>4

\* Two hosts use the records directory at the same time only when a holder overslept or a
\* directory was removed that its remover had not looked at, for any set of hosts.
THEOREM UseIsExclusive == LockSpec => []ExclusiveUse
<1> QED
  BY ExclusiveFromInv, LockInvariant, PTL

-----------------------------------------------------------------------------
(* Those who follow the records, when these are in one storage.             *)

\* A set of numbers that is not empty has a smallest one.
LEMMA LeastNumber ==
  ASSUME NEW T \in SUBSET Nat, T # {}
  PROVE  \E x \in T : \A y \in T : x <= y
  <1>1. PICK x \in T : \A y \in T : ~(<<y, x>> \in OpToRel(<, Nat))
    BY WFMin, NatLessThanWellFounded
  <1>2. \A y \in T : x <= y
    <2> SUFFICES ASSUME NEW y \in T, y < x PROVE FALSE
      OBVIOUS
    <2>1. <<y, x>> \in Nat \X Nat /\ <<y, x>>[1] = y /\ <<y, x>>[2] = x
      OBVIOUS
    <2> QED BY <1>1, <2>1, Zenon DEF OpToRel
  <1> QED BY <1>2

OneRecordStorage == Len(RecordStorages) = 1
Log == logs[RecordStorages[1]]

LogEntry == [tick : Nat, id : Nat, rank : Nat]
BatchType == [pc : {"idle", "store"}, batch : Seq(LogEntry), next : Nat]
SourceType == [pc : {"idle", "apply"}, batch : Seq(LogEntry), next : Nat \cup {-1}, life : Nat]

\* The state keeps its types, and what the source applies came with the tick to go on from.
ReplicationTypeOK ==
  /\ logs \in [Storage -> Seq(LogEntry)] /\ taken \in [Storage -> LogEntry]
  /\ {nodeTick, life, produced, losses} \subseteq Nat
  /\ db \in [tick : Nat, has : SUBSET Nat]
  /\ exporter \in [Exporters -> BatchType]
  /\ source \in SourceType
  /\ source.pc = "apply" => source.next \in Nat /\ source.batch # <<>>
  /\ source.pc = "idle" => source.batch = <<>>
  /\ kept \in [ids : SUBSET Nat, tick : Nat, life : Nat]
  /\ inMemory \in SUBSET Nat
  /\ partial \in BOOLEAN /\ overtaken \in BOOLEAN

\* The ticks of a log are the numbers of its entries, and the one that is taken is the next.
TicksInv ==
  /\ \A i \in 1 .. Len(Log) : Log[i].tick = i
  /\ IF taken[RecordStorages[1]] = NoEntry THEN nodeTick = Len(Log)
     ELSE nodeTick = Len(Log) + 1 /\ taken[RecordStorages[1]].tick = nodeTick

\* A tick to go on from is not beyond the log, and what it skips is among the given payloads.
Complete(log, tick, ids) ==
  /\ tick <= Len(log) + 1
  /\ \A i \in 1 .. Len(log) : i < tick => log[i].id \in ids

\* The tick of the database skips what the database has, and the one of a call of
\* processNext() what the call will have added.
DatabaseInv ==
  /\ Complete(Log, db.tick, db.has)
  /\ \A e \in Exporters : exporter[e].pc = "store" =>
       Complete(Log, exporter[e].next, db.has \cup IdsIn(exporter[e].batch))

\* A tick of this life skips what the source has in memory and on disk, or is about to apply;
\* the one on disk skips what is on disk, except between the first record of a batch and its last.
SourceInv ==
  /\ source.life <= life /\ kept.life <= life
  /\ (~partial /\ ~overtaken) =>
       /\ source.life = life =>
            /\ Complete(Log, From, inMemory \cup IdsIn(source.batch))
            /\ Complete(Log, From, kept.ids \cup IdsIn(source.batch))
       /\ (kept.life = life /\ ~(source.pc = "apply" /\ kept.tick = source.next)) =>
            Complete(Log, kept.tick, kept.ids)

\* The strengthening of DatabaseComplete and SourceComplete.
ReplicationInv == ReplicationTypeOK /\ TicksInv /\ DatabaseInv /\ SourceInv

LEMMA OneStorageFacts ==
  ASSUME OneRecordStorage
  PROVE  DOMAIN RecordStorages = {1} /\ Storage = {RecordStorages[1]}
  <1>1. RecordStorages \in Seq(STRING)
    BY ReplicationAssumption
  <1>2. DOMAIN RecordStorages = 1 .. 1
    BY <1>1 DEF OneRecordStorage
  <1>3. DOMAIN RecordStorages = {1}
    BY <1>2
  <1> QED BY <1>3 DEF Storage, ToSet

LEMMA LogIsSeq ==
  ASSUME OneRecordStorage, ReplicationTypeOK
  PROVE  /\ Log \in Seq(LogEntry) /\ Len(Log) \in Nat /\ DOMAIN Log = 1 .. Len(Log)
         /\ \A i \in 1 .. Len(Log) : Log[i] \in LogEntry
         /\ nodeTick \in Nat /\ life \in Nat /\ produced \in Nat /\ losses \in Nat
  <1>1. Log \in Seq(LogEntry)
    BY OneStorageFacts DEF ReplicationTypeOK, Log
  <1>2. {nodeTick, life, produced, losses} \subseteq Nat
    BY DEF ReplicationTypeOK
  <1> QED BY <1>1, <1>2

\* Where a read begins: at the entry whose tick is asked for, the first or the end.
LEMMA FirstIs ==
  ASSUME OneRecordStorage, ReplicationTypeOK, TicksInv, NEW tick \in Nat
  PROVE  First(RecordStorages[1], tick) =
           IF tick = 0 THEN 1 ELSE IF tick <= Len(Log) THEN tick ELSE Len(Log) + 1
  <1> DEFINE L == Len(Log)
             k == IF tick = 0 THEN 1 ELSE IF tick <= L THEN tick ELSE L + 1
             Is(i) == /\ \A j \in 1 .. i - 1 : Log[j].tick < tick
                      /\ i <= L => Log[i].tick >= tick
  <1>1. L \in Nat
    BY LogIsSeq
  <1>2. \A i \in 1 .. L : Log[i].tick = i
    BY DEF TicksInv
  <1>3. k \in 1 .. L + 1 /\ Is(k)
    BY <1>1, <1>2
  <1>4. \A i \in 1 .. L + 1 : Is(i) => i = k
    <2> SUFFICES ASSUME NEW i \in 1 .. L + 1, Is(i) PROVE i = k
      OBVIOUS
    <2>1. ~(i < k)
      <3> SUFFICES ASSUME i < k PROVE FALSE
        OBVIOUS
      <3>1. i \in 1 .. L /\ i < tick
        BY <1>1, <1>3
      <3> QED BY <1>2, <3>1
    <2>2. ~(k < i)
      <3> SUFFICES ASSUME k < i PROVE FALSE
        OBVIOUS
      <3>1. k \in 1 .. L /\ k \in 1 .. i - 1 /\ k >= tick
        BY <1>1, <1>3
      <3>2. Log[k].tick = k /\ Log[k].tick < tick
        BY <1>2, <3>1
      <3> QED BY <1>1, <3>1, <3>2
    <2> QED BY <1>1, <1>3, <2>1, <2>2
  <1>5. First(RecordStorages[1], tick) = CHOOSE i \in 1 .. L + 1 : Is(i)
    BY DEF First, Log
  <1> HIDE DEF k, Is
  <1>6. (CHOOSE i \in 1 .. L + 1 : Is(i)) = k
    BY <1>3, <1>4
  <1> QED BY <1>5, <1>6 DEF k

\* What was yielded of a log from place k on after n times, and where the reader is.
Upto(k, n) == IF k + n - 1 <= Len(Log) THEN n ELSE Len(Log) - k + 1
ReadSoFar(k, n) == [out |-> [i \in 1 .. Upto(k, n) |-> Log[k + i - 1]],
                    at  |-> [s \in Storage |-> k + Upto(k, n)]]

\* A yield goes on by an entry, until the end of the log.
LEMMA YieldIs ==
  ASSUME OneRecordStorage, ReplicationTypeOK, NEW k \in 1 .. Len(Log) + 1, NEW n \in Nat
  PROVE  Yield(ReadSoFar(k, n)) = ReadSoFar(k, n + 1)
  <1> DEFINE L == Len(Log)
             m == Upto(k, n)
             st == ReadSoFar(k, n)
             RS == RecordStorages[1]
  <1>0. DOMAIN RecordStorages = {1} /\ Storage = {RS}
    BY OneStorageFacts
  <1>1. L \in Nat /\ k \in Nat
    BY LogIsSeq
  <1>2. m \in Nat /\ (m = n \/ m = L - k + 1)
    BY <1>1 DEF Upto
  <1>3. st.at[RS] = k + m /\ st.at = [s \in Storage |-> k + m] /\ st.out = [i \in 1 .. m |-> Log[k + i - 1]]
    BY <1>0 DEF ReadSoFar
  <1>4. Heads(st.at) = IF k + m <= L THEN {1} ELSE {}
    <2>1. Heads(st.at) = {i \in {1} : st.at[RecordStorages[i]] <= Len(logs[RecordStorages[i]])}
      BY <1>0 DEF Heads
    <2>2. \A i \in {1} : (st.at[RecordStorages[i]] <= Len(logs[RecordStorages[i]])) <=> (k + m <= L)
      BY <1>3 DEF Log
    <2> HIDE DEF st, m, L
    <2> QED BY <2>1, <2>2
  <1>5. CASE k + m <= L
    <2>1. m = n /\ Upto(k, n + 1) = n + 1
      BY <1>1, <1>2, <1>5 DEF Upto
    <2>2. EntryAt(st.at, 1) = Log[k + m]
      BY <1>3 DEF EntryAt, Log
    <2>3. MinIndex(st.at) = 1
      <3>1. Log[k + m].rank \in Nat
        <4>1. k + m \in 1 .. Len(Log)
          BY <1>1, <1>2, <1>5
        <4> QED BY <4>1, LogIsSeq DEF LogEntry
      <3>2. \A j \in {1} : LET a == EntryAt(st.at, 1).rank
                               b == EntryAt(st.at, j).rank
                           IN  a < b \/ (a = b /\ 1 <= j)
        BY <3>1, <2>2
      <3>3. Heads(st.at) = {1}
        BY <1>4, <1>5
      <3> HIDE DEF st
      <3> QED BY <3>2, <3>3 DEF MinIndex
    <2>4. Yield(st) = [out |-> Append(st.out, Log[k + m]), at |-> [st.at EXCEPT ![RS] = @ + 1]]
      <3>1. Heads(st.at) # {}
        BY <1>4, <1>5
      <3> HIDE DEF st
      <3> QED BY <2>2, <2>3, <3>1 DEF Yield
    <2>5. Append(st.out, Log[k + m]) = [i \in 1 .. n + 1 |-> Log[k + i - 1]]
      <3> DEFINE A == [i \in 1 .. m |-> Log[k + i - 1]]
      <3>1. A \in Seq({Log[i] : i \in 1 .. L}) /\ Len(A) = m
        <4>1. \A i \in 1 .. m : k + i - 1 \in 1 .. L
          BY <1>1, <1>2, <1>5
        <4>2. PICK S : S = {Log[j] : j \in 1 .. L}
          OBVIOUS
        <4>3. \A i \in 1 .. m : Log[k + i - 1] \in S
          BY <4>1, <4>2
        <4> HIDE DEF m
        <4>4. A \in [1 .. m -> S]
          BY <4>3
        <4> HIDE DEF A
        <4>5. A \in Seq(S) /\ Len(A) = m
          BY <1>2, <4>4
        <4> QED BY <4>2, <4>5
      <3>2. Append(A, Log[k + m]) = [i \in 1 .. m + 1 |-> IF i = m + 1 THEN Log[k + m] ELSE A[i]]
        <4> HIDE DEF A
        <4>1. Append(A, Log[k + m]) = [i \in 1 .. Len(A) + 1 |-> IF i = Len(A) + 1 THEN Log[k + m] ELSE A[i]]
          BY <3>1
        <4> QED BY <3>1, <4>1
      <3>3. \A i \in 1 .. m + 1 : (IF i = m + 1 THEN Log[k + m] ELSE A[i]) = Log[k + i - 1]
        <4> HIDE DEF m
        <4> SUFFICES ASSUME NEW i \in 1 .. m + 1
                     PROVE  (IF i = m + 1 THEN Log[k + m] ELSE A[i]) = Log[k + i - 1]
          OBVIOUS
        <4>1. CASE i = m + 1
          <5>1. k + i - 1 = k + m
            BY <1>1, <1>2, <4>1
          <5> QED BY <4>1, <5>1
        <4>2. CASE i # m + 1
          <5>1. i \in 1 .. m
            BY <1>2, <4>2
          <5> QED BY <4>2, <5>1
        <4> QED BY <4>1, <4>2
      <3>4. Append(A, Log[k + m]) = [i \in 1 .. m + 1 |-> Log[k + i - 1]]
        <4> HIDE DEF A, m
        <4> QED BY <3>2, <3>3
      <3>5. st.out = A
        BY <1>3
      <3> HIDE DEF A, st
      <3> QED BY <2>1, <3>4, <3>5
    <2>6. [st.at EXCEPT ![RS] = @ + 1] = [s \in Storage |-> k + (n + 1)]
      BY <1>0, <1>1, <1>3, <2>1
    <2> QED BY <2>1, <2>4, <2>5, <2>6 DEF ReadSoFar
  <1>6. CASE ~(k + m <= L)
    <2>1. Upto(k, n + 1) = m
      BY <1>1, <1>2, <1>6 DEF Upto
    <2>2. Yield(st) = st
      <3>1. Heads(st.at) = {}
        BY <1>4, <1>6
      <3> HIDE DEF st
      <3> QED BY <3>1 DEF Yield
    <2> QED BY <2>1, <2>2 DEF ReadSoFar
  <1> QED BY <1>5, <1>6

\* A read answers with the entries from its place on, as many as fit.
LEMMA ReadFromIs ==
  ASSUME OneRecordStorage, ReplicationTypeOK, TicksInv, NEW tick \in Nat
  PROVE  ReadFrom(tick) = ReadSoFar(First(RecordStorages[1], tick), ReadMaxSize).out
  <1> DEFINE k == First(RecordStorages[1], tick)
             N == ReadMaxSize
             start == [out |-> <<>>, at |-> [s \in Storage |-> First(s, tick)]]
             Body(f) == [n \in 0 .. N |-> IF n = 0 THEN start ELSE Yield(f[n - 1])]
             Rec(f) == f = Body(f)
             read == CHOOSE f : Rec(f)
             so == [n \in 0 .. N |-> ReadSoFar(k, n)]
  <1>1. N \in Nat
    BY ReplicationAssumption
  <1>2. k \in 1 .. Len(Log) + 1
    BY FirstIs, LogIsSeq
  <1>3. start = ReadSoFar(k, 0)
    <2>1. Upto(k, 0) = 0
      BY <1>2, LogIsSeq DEF Upto
    <2>2. [i \in 1 .. 0 |-> Log[k + i - 1]] = <<>>
      OBVIOUS
    <2>3. [s \in Storage |-> First(s, tick)] = [s \in Storage |-> k + 0]
      <3> HIDE DEF k
      <3>1. \A s \in Storage : First(s, tick) = k
        BY OneStorageFacts DEF k
      <3> QED BY <1>2, <3>1
    <2> HIDE DEF k
    <2> QED BY <2>1, <2>2, <2>3 DEF ReadSoFar
  <1> HIDE DEF k, start, N
  <1>4. Rec(so)
    <2>1. ASSUME NEW n \in 0 .. N PROVE so[n] = Body(so)[n]
      <3>1. CASE n = 0
        BY <1>1, <1>3, <3>1
      <3>2. CASE n # 0
        <4>1. n - 1 \in Nat /\ n - 1 \in 0 .. N /\ (n - 1) + 1 = n
          BY <1>1, <3>2
        <4>2. Yield(ReadSoFar(k, n - 1)) = ReadSoFar(k, n)
          BY <1>2, <4>1, YieldIs
        <4> QED BY <3>2, <4>1, <4>2
      <3> QED BY <3>1, <3>2
    <2> QED BY <2>1
  <1>5. read = Body(read)
    <2> HIDE DEF Body
    <2>1. Rec(read)
      BY <1>4
    <2> HIDE DEF read
    <2> QED BY <2>1
  <1>6. ReadFrom(tick) = read[N].out
    BY DEF ReadFrom, start, N
  <1> HIDE DEF read
  <1>7. read[0] = start
    <2>1. Body(read)[0] = start
      BY <1>1
    <2> HIDE DEF Body
    <2> QED BY <1>5, <2>1
  <1>8. \A n \in 1 .. N : read[n] = Yield(read[n - 1])
    <2> SUFFICES ASSUME NEW n \in 1 .. N PROVE read[n] = Yield(read[n - 1])
      OBVIOUS
    <2>1. Body(read)[n] = Yield(read[n - 1])
      BY <1>1
    <2> HIDE DEF Body
    <2> QED BY <1>5, <2>1
  <1> DEFINE Fails == {n \in 0 .. N : read[n] # ReadSoFar(k, n)}
  <1>9. Fails = {}
    <2> SUFFICES ASSUME Fails # {} PROVE FALSE
      OBVIOUS
    <2>1. Fails \in SUBSET Nat
      OBVIOUS
    <2>2. PICK n \in Fails : \A j \in Fails : n <= j
      <3> HIDE DEF Fails
      <3> QED BY <2>1, LeastNumber
    <2>3. n \in 1 .. N
      BY <1>1, <1>3, <1>7
    <2>4. n - 1 \in Nat /\ n - 1 \in 0 .. N /\ n - 1 \notin Fails
      <3>1. n - 1 \in Nat /\ n - 1 \in 0 .. N /\ ~(n <= n - 1)
        BY <1>1, <2>3
      <3> HIDE DEF Fails
      <3> QED BY <2>2, <3>1
    <2>5. read[n - 1] = ReadSoFar(k, n - 1)
      BY <2>4
    <2>6. Yield(ReadSoFar(k, n - 1)) = ReadSoFar(k, n)
      <3>1. (n - 1) + 1 = n
        BY <2>3
      <3> QED BY <1>2, <2>4, <3>1, YieldIs
    <2> QED BY <1>8, <2>3, <2>5, <2>6
  <1>10. read[N] = ReadSoFar(k, N)
    BY <1>1, <1>9
  <1> QED BY <1>6, <1>10 DEF N, k

\* What an answer and the tick to go on from are worth: the tick is not beyond the log, and
\* of what it skips, the answer has what the tick of the request did not skip already.
LEMMA NextTickSkips ==
  ASSUME OneRecordStorage, ReplicationTypeOK, TicksInv, NEW tick \in Nat
  PROVE  LET out == ReadFrom(tick)
             next == NextTick(tick, out)
         IN  /\ out \in Seq(LogEntry) /\ next \in Nat
             /\ tick <= Len(Log) + 1 => next <= Len(Log) + 1
             /\ tick <= Len(Log) + 1 =>
                  \A i \in 1 .. Len(Log) : i < next => i < tick \/ Log[i].id \in IdsIn(out)
  <1> DEFINE L == Len(Log)
             k == First(RecordStorages[1], tick)
             m == Upto(k, ReadMaxSize)
             out == [i \in 1 .. m |-> Log[k + i - 1]]
  <1>1. L \in Nat /\ ReadMaxSize \in Nat \ {0}
    BY LogIsSeq, ReplicationAssumption
  <1>2. k \in 1 .. L + 1 /\ (tick <= L + 1 => k = tick \/ (k = 1 /\ tick = 0))
    BY <1>1, FirstIs
  <1>3. ReadFrom(tick) = out
    BY ReadFromIs DEF ReadSoFar
  <1> HIDE DEF k
  <1>4. m \in Nat /\ k + m <= L + 1
    BY <1>1, <1>2 DEF Upto
  <1> HIDE DEF m
  <1>5. \A i \in 1 .. m : k + i - 1 \in 1 .. L /\ Log[k + i - 1] \in LogEntry /\ Log[k + i - 1].tick = k + i - 1
    <2> SUFFICES ASSUME NEW i \in 1 .. m
                 PROVE  k + i - 1 \in 1 .. L /\ Log[k + i - 1] \in LogEntry /\ Log[k + i - 1].tick = k + i - 1
      OBVIOUS
    <2>1. k + i - 1 \in 1 .. L
      BY <1>1, <1>2, <1>4
    <2> QED BY <2>1, LogIsSeq DEF TicksInv
  <1>6. out \in Seq(LogEntry) /\ Len(out) = m /\ DOMAIN out = 1 .. m
    BY <1>4, <1>5
  <1>7. NextTick(tick, out) = IF m = 0 THEN tick ELSE k + m
    <2>1. CASE m = 0
      <3>1. out = <<>>
        BY <2>1
      <3> QED BY <2>1, <3>1 DEF NextTick
    <2>2. CASE m # 0
      <3>1. out # <<>>
        BY <1>6, <2>2
      <3>2. m \in 1 .. m
        BY <1>4, <2>2
      <3>3. Last(out) = Log[k + m - 1]
        BY <1>6, <3>2 DEF Last
      <3>4. Last(out).tick = k + m - 1
        BY <1>5, <3>2, <3>3
      <3> HIDE DEF out
      <3> QED BY <1>2, <1>4, <2>2, <3>1, <3>4 DEF NextTick
    <2> QED BY <2>1, <2>2
  <1>8. \A i \in k .. k + m - 1 : Log[i].id \in IdsIn(out)
    <2> SUFFICES ASSUME NEW i \in k .. k + m - 1 PROVE Log[i].id \in IdsIn(out)
      OBVIOUS
    <2>1. i - k + 1 \in 1 .. m /\ k + (i - k + 1) - 1 = i
      BY <1>2, <1>4
    <2>2. out[i - k + 1] = Log[i]
      BY <2>1
    <2> QED BY <1>6, <2>1, <2>2 DEF IdsIn
  <1> HIDE DEF out
  <1>9. NextTick(tick, out) \in Nat /\ (tick <= L + 1 => NextTick(tick, out) <= L + 1)
    BY <1>1, <1>2, <1>4, <1>7
  <1>10. ASSUME tick <= L + 1, NEW i \in 1 .. L, i < NextTick(tick, out) PROVE i < tick \/ Log[i].id \in IdsIn(out)
    <2>1. CASE m = 0
      BY <1>7, <1>10, <2>1
    <2>2. CASE m # 0
      <3>1. i < k + m
        BY <1>7, <1>10, <2>2
      <3>2. i < tick \/ i \in k .. k + m - 1
        BY <1>1, <1>2, <1>4, <1>10, <3>1
      <3> QED BY <1>8, <3>2
    <2> QED BY <2>1, <2>2
  <1> QED BY <1>3, <1>6, <1>9, <1>10

\* More payloads are as complete.
LEMMA CompleteGrows ==
  ASSUME NEW log, NEW tick, NEW S, NEW T, S \subseteq T, Complete(log, tick, S)
  PROVE  Complete(log, tick, T)
  BY DEF Complete

\* The payloads of a batch are numbers: that of its first record and those of the rest.
LEMMA IdsOfBatch ==
  ASSUME NEW b \in Seq(LogEntry)
  PROVE  /\ IdsIn(b) \subseteq Nat
         /\ b = <<>> => IdsIn(b) = {}
         /\ b # <<>> => /\ Head(b).id \in Nat /\ Tail(b) \in Seq(LogEntry)
                        /\ IdsIn(b) = {Head(b).id} \cup IdsIn(Tail(b))
                        /\ Tail(b) = <<>> <=> Len(b) = 1
  <1>1. Len(b) \in Nat /\ DOMAIN b = 1 .. Len(b) /\ \A i \in 1 .. Len(b) : b[i] \in LogEntry
    OBVIOUS
  <1>2. IdsIn(b) \subseteq Nat
    BY <1>1 DEF IdsIn, LogEntry
  <1>3. b = <<>> => IdsIn(b) = {}
    BY DEF IdsIn
  <1>4. ASSUME b # <<>>
        PROVE  /\ Head(b).id \in Nat /\ Tail(b) \in Seq(LogEntry)
               /\ IdsIn(b) = {Head(b).id} \cup IdsIn(Tail(b))
               /\ Tail(b) = <<>> <=> Len(b) = 1
    <2>1. Len(b) \in Nat \ {0} /\ Head(b) = b[1] /\ Tail(b) \in Seq(LogEntry) /\ Len(Tail(b)) = Len(b) - 1
      BY <1>4
    <2>2. \A i \in 1 .. Len(b) - 1 : Tail(b)[i] = b[i + 1]
      BY <1>4
    <2>3. DOMAIN Tail(b) = 1 .. Len(b) - 1
      BY <2>1
    <2>4. Head(b).id \in Nat
      <3>1. b[1] \in LogEntry
        BY <1>1, <2>1
      <3> QED BY <2>1, <3>1 DEF LogEntry
    <2>5. \A x : x \in IdsIn(b) <=> x \in {Head(b).id} \cup IdsIn(Tail(b))
      <3> TAKE x
      <3>1. ASSUME x \in IdsIn(b) PROVE x \in {Head(b).id} \cup IdsIn(Tail(b))
        <4>1. PICK i \in 1 .. Len(b) : x = b[i].id
          BY <1>1, <3>1 DEF IdsIn
        <4>2. CASE i = 1
          BY <2>1, <4>1, <4>2
        <4>3. CASE i # 1
          <5>1. i - 1 \in 1 .. Len(b) - 1 /\ (i - 1) + 1 = i
            BY <1>1, <4>1, <4>3
          <5>2. Tail(b)[i - 1] = b[i]
            BY <2>2, <5>1
          <5> QED BY <2>3, <4>1, <5>1, <5>2 DEF IdsIn
        <4> QED BY <4>2, <4>3
      <3>2. ASSUME x \in {Head(b).id} PROVE x \in IdsIn(b)
        <4>1. 1 \in DOMAIN b
          BY <1>1, <2>1
        <4> QED BY <2>1, <3>2, <4>1 DEF IdsIn
      <3>3. ASSUME x \in IdsIn(Tail(b)) PROVE x \in IdsIn(b)
        <4>1. PICK i \in 1 .. Len(b) - 1 : x = Tail(b)[i].id
          BY <2>3, <3>3 DEF IdsIn
        <4>2. i + 1 \in DOMAIN b /\ x = b[i + 1].id
          BY <1>1, <2>2, <4>1
        <4> QED BY <4>2 DEF IdsIn
      <3> QED BY <3>1, <3>2, <3>3
    <2>6. Tail(b) = <<>> <=> Len(b) = 1
      <3>1. \A t \in Seq(LogEntry) : t = <<>> <=> Len(t) = 0
        BY EmptySeq
      <3>2. Tail(b) = <<>> <=> Len(Tail(b)) = 0
        BY <2>1, <3>1
      <3> QED BY <2>1, <3>2
    <2> QED BY <2>1, <2>4, <2>5, <2>6
  <1> QED BY <1>2, <1>3, <1>4

LEMMA ReplicationStarts ==
  ASSUME OneRecordStorage, ReplicationInit
  PROVE  ReplicationInv
  <1>1. Log = <<>> /\ taken[RecordStorages[1]] = NoEntry
    BY OneStorageFacts DEF ReplicationInit, Log
  <1>2. <<>> \in Seq(LogEntry) /\ NoEntry \in LogEntry
    BY DEF NoEntry, LogEntry
  <1>3. ReplicationTypeOK
    <2>1. exporter \in [Exporters -> BatchType]
      BY <1>2 DEF ReplicationInit, NoBatch, BatchType
    <2>2. source \in SourceType /\ db \in [tick : Nat, has : SUBSET Nat]
      BY <1>2 DEF ReplicationInit, SourceType
    <2>3. logs \in [Storage -> Seq(LogEntry)] /\ taken \in [Storage -> LogEntry]
      BY <1>2 DEF ReplicationInit
    <2> QED BY <2>1, <2>2, <2>3 DEF ReplicationInit, ReplicationTypeOK
  <1>4. TicksInv
    BY <1>1 DEF ReplicationInit, TicksInv
  <1>5. DatabaseInv
    BY <1>1 DEF ReplicationInit, DatabaseInv, Complete, NoBatch
  <1>6. SourceInv
    BY <1>1 DEF ReplicationInit, SourceInv, Complete, From
  <1> QED BY <1>3, <1>4, <1>5, <1>6 DEF ReplicationInv

LEMMA TakeTickKeeps ==
  ASSUME OneRecordStorage, ReplicationInv, NEW s \in Storage, TakeTick(s)
  PROVE  ReplicationInv'
  <1> USE DEF ReplicationInv
  <1>1. s = RecordStorages[1] /\ taken[s] = NoEntry /\ Storage = {RecordStorages[1]}
    BY OneStorageFacts DEF TakeTick
  <1>2. /\ nodeTick' = nodeTick + 1 /\ produced' = produced + 1
        /\ UNCHANGED <<logs, life, db, exporter, source, kept, inMemory, losses, partial, overtaken>>
    BY DEF TakeTick
  <1>3. PICK r \in Ranks : taken' = [taken EXCEPT ![s] = [tick |-> nodeTick + 1, id |-> produced + 1, rank |-> r]]
    BY DEF TakeTick
  <1>4. taken \in [Storage -> LogEntry] /\ nodeTick \in Nat /\ produced \in Nat
    BY LogIsSeq DEF ReplicationTypeOK
  <1>5. [tick |-> nodeTick + 1, id |-> produced + 1, rank |-> r] \in LogEntry
    BY <1>3, <1>4, ReplicationAssumption DEF LogEntry
  <1>6. taken' \in [Storage -> LogEntry] /\ taken'[s] = [tick |-> nodeTick + 1, id |-> produced + 1, rank |-> r]
    BY <1>3, <1>4, <1>5
  <1>7. Log' = Log
    BY <1>2 DEF Log
  <1>8. ReplicationTypeOK'
    BY <1>2, <1>4, <1>6 DEF ReplicationTypeOK
  <1>9. TicksInv'
    <2>1. taken'[s] # NoEntry /\ taken'[s].tick = nodeTick + 1
      BY <1>4, <1>6 DEF NoEntry
    <2> QED BY <1>1, <1>2, <1>7, <2>1 DEF TicksInv
  <1>10. DatabaseInv' /\ SourceInv'
    BY <1>2, <1>7 DEF DatabaseInv, SourceInv, From
  <1> QED BY <1>8, <1>9, <1>10

LEMMA AppendRecordKeeps ==
  ASSUME OneRecordStorage, ReplicationInv, NEW s \in Storage, AppendRecord(s)
  PROVE  ReplicationInv'
  <1> USE DEF ReplicationInv
  <1>1. s = RecordStorages[1] /\ Storage = {RecordStorages[1]}
    BY OneStorageFacts
  <1>2. /\ taken[s] # NoEntry /\ logs' = [logs EXCEPT ![s] = Append(@, taken[s])]
        /\ taken' = [taken EXCEPT ![s] = NoEntry]
        /\ UNCHANGED <<nodeTick, produced, life, db, exporter, source, kept, inMemory, losses, partial, overtaken>>
    BY DEF AppendRecord
  <1>3. logs \in [Storage -> Seq(LogEntry)] /\ taken \in [Storage -> LogEntry] /\ NoEntry \in LogEntry
    BY DEF ReplicationTypeOK, NoEntry, LogEntry
  <1>4. Log \in Seq(LogEntry) /\ Len(Log) \in Nat /\ taken[s] \in LogEntry
    BY <1>3, LogIsSeq
  <1>5. Log' = Append(Log, taken[s])
    BY <1>1, <1>2, <1>3 DEF Log
  <1>6. /\ Log' \in Seq(LogEntry) /\ Len(Log') = Len(Log) + 1 /\ Log'[Len(Log) + 1] = taken[s]
        /\ \A i \in 1 .. Len(Log) : Log'[i] = Log[i]
    BY <1>4, <1>5
  <1>7. logs' \in [Storage -> Seq(LogEntry)]
    BY <1>1, <1>2, <1>3, <1>4
  <1>8. taken' \in [Storage -> LogEntry] /\ taken'[s] = NoEntry
    BY <1>2, <1>3
  <1>9. ReplicationTypeOK'
    BY <1>2, <1>7, <1>8 DEF ReplicationTypeOK
  <1>10. TicksInv'
    <2>1. nodeTick = Len(Log) + 1 /\ taken[s].tick = nodeTick
      BY <1>1, <1>2 DEF TicksInv
    <2>2. \A i \in 1 .. Len(Log') : Log'[i].tick = i
      <3> SUFFICES ASSUME NEW i \in 1 .. Len(Log') PROVE Log'[i].tick = i
        OBVIOUS
      <3>1. i \in 1 .. Len(Log) \/ i = Len(Log) + 1
        BY <1>4, <1>6
      <3> QED BY <1>6, <2>1, <3>1 DEF TicksInv
    <2> QED BY <1>1, <1>2, <1>6, <1>8, <2>1, <2>2 DEF TicksInv
  <1>11. \A t \in Int : \A S : Complete(Log, t, S) => Complete(Log', t, S)
    <2> SUFFICES ASSUME NEW t \in Int, NEW S, Complete(Log, t, S), NEW i \in 1 .. Len(Log'), i < t
                 PROVE  Log'[i].id \in S
      BY <1>4, <1>6 DEF Complete
    <2>1. i \in 1 .. Len(Log)
      BY <1>4, <1>6 DEF Complete
    <2> QED BY <1>6, <2>1 DEF Complete
  <1>12. DatabaseInv'
    <2>1. db.tick \in Int /\ \A e \in Exporters : exporter[e].next \in Int
      BY DEF ReplicationTypeOK, BatchType
    <2> QED BY <1>2, <1>11, <2>1 DEF DatabaseInv
  <1>13. SourceInv'
    <2>1. From \in Int /\ kept.tick \in Int /\ From' = From
      BY <1>2 DEF ReplicationTypeOK, SourceType, From
    <2> QED BY <1>2, <1>11, <2>1 DEF SourceInv
  <1> QED BY <1>9, <1>10, <1>12, <1>13

LEMMA LoseRecordsKeeps ==
  ASSUME OneRecordStorage, ReplicationInv, LoseRecords
  PROVE  ReplicationInv'
  <1> USE DEF ReplicationInv
  <1>1. /\ logs' = [s \in Storage |-> <<>>] /\ taken' = [s \in Storage |-> NoEntry]
        /\ losses' = losses + 1 /\ nodeTick' = 0 /\ life' = life + 1
        /\ db' = [tick |-> 0, has |-> {}] /\ exporter' = [e \in Exporters |-> NoBatch]
        /\ UNCHANGED <<produced, source, kept, inMemory, partial, overtaken>>
    BY DEF LoseRecords
  <1>2. Log' = <<>> /\ taken'[RecordStorages[1]] = NoEntry
    BY <1>1, OneStorageFacts DEF Log
  <1>3. <<>> \in Seq(LogEntry) /\ NoEntry \in LogEntry
    BY DEF NoEntry, LogEntry
  <1>4. life \in Nat /\ losses \in Nat
    BY LogIsSeq
  <1>5. ReplicationTypeOK'
    BY <1>1, <1>3, <1>4 DEF ReplicationTypeOK, NoBatch, BatchType
  <1>6. TicksInv'
    BY <1>1, <1>2 DEF TicksInv
  <1>7. DatabaseInv'
    BY <1>1, <1>2 DEF DatabaseInv, Complete, NoBatch
  <1>8. SourceInv'
    <2>1. source.life \in Nat /\ kept.life \in Nat
      BY DEF ReplicationTypeOK, SourceType
    <2>2. source.life < life' /\ kept.life < life'
      BY <1>1, <1>4, <2>1 DEF SourceInv
    <2> QED BY <1>1, <1>4, <2>1, <2>2 DEF SourceInv
  <1> QED BY <1>5, <1>6, <1>7, <1>8


LEMMA ExportKeeps ==
  ASSUME OneRecordStorage, ReplicationInv, NEW e \in Exporters, Export(e)
  PROVE  ReplicationInv'
  <1> USE DEF ReplicationInv
  <1> DEFINE out == ReadFrom(db.tick)
             next == NextTick(db.tick, out)
  <1>1. /\ exporter' = [exporter EXCEPT ![e] = [pc |-> "store", batch |-> out, next |-> next]]
        /\ UNCHANGED <<logs, taken, nodeTick, life, produced, db, source, kept, inMemory, losses, partial, overtaken>>
    BY DEF Export
  <1>2. db.tick \in Nat /\ exporter \in [Exporters -> BatchType]
    BY DEF ReplicationTypeOK
  <1>3. Complete(Log, db.tick, db.has)
    BY DEF DatabaseInv
  <1>4. /\ out \in Seq(LogEntry) /\ next \in Nat /\ next <= Len(Log) + 1
        /\ \A i \in 1 .. Len(Log) : i < next => i < db.tick \/ Log[i].id \in IdsIn(out)
    BY <1>2, <1>3, NextTickSkips DEF Complete
  <1> HIDE DEF out, next
  <1>5. Log' = Log
    BY <1>1 DEF Log
  <1>6. exporter' \in [Exporters -> BatchType]
    BY <1>1, <1>2, <1>4 DEF BatchType
  <1>7. ReplicationTypeOK'
    BY <1>1, <1>6 DEF ReplicationTypeOK
  <1>8. TicksInv' /\ SourceInv'
    BY <1>1, <1>5 DEF TicksInv, SourceInv, From
  <1>9. DatabaseInv'
    <2>1. Complete(Log, next, db.has \cup IdsIn(out))
      BY <1>3, <1>4 DEF Complete
    <2>2. ASSUME NEW x \in Exporters, exporter'[x].pc = "store"
          PROVE  Complete(Log, exporter'[x].next, db.has \cup IdsIn(exporter'[x].batch))
      <3>1. CASE x = e
        BY <1>1, <1>2, <2>1, <3>1
      <3>2. CASE x # e
        BY <1>1, <1>2, <2>2, <3>2 DEF DatabaseInv
      <3> QED BY <3>1, <3>2
    <2> QED BY <1>1, <1>3, <1>5, <2>2 DEF DatabaseInv
  <1> QED BY <1>7, <1>8, <1>9

LEMMA ExportStoresKeeps ==
  ASSUME OneRecordStorage, ReplicationInv, NEW e \in Exporters, ExportStores(e)
  PROVE  ReplicationInv'
  <1> USE DEF ReplicationInv
  <1>1. /\ exporter[e].pc = "store"
        /\ db' = [tick |-> exporter[e].next, has |-> db.has \cup IdsIn(exporter[e].batch)]
        /\ exporter' = [exporter EXCEPT ![e] = NoBatch]
        /\ UNCHANGED <<logs, taken, nodeTick, life, produced, source, kept, inMemory, losses, partial, overtaken>>
    BY DEF ExportStores
  <1>2. db \in [tick : Nat, has : SUBSET Nat] /\ exporter \in [Exporters -> BatchType]
    BY DEF ReplicationTypeOK
  <1>3. exporter[e].next \in Nat /\ exporter[e].batch \in Seq(LogEntry)
    BY <1>2 DEF BatchType
  <1>4. Log' = Log
    BY <1>1 DEF Log
  <1>5. exporter' \in [Exporters -> BatchType]
    BY <1>1, <1>2 DEF NoBatch, BatchType
  <1>6. db' \in [tick : Nat, has : SUBSET Nat]
    BY <1>1, <1>2, <1>3, IdsOfBatch
  <1>7. ReplicationTypeOK'
    BY <1>1, <1>5, <1>6 DEF ReplicationTypeOK
  <1>8. TicksInv' /\ SourceInv'
    BY <1>1, <1>4 DEF TicksInv, SourceInv, From
  <1>9. DatabaseInv'
    <2>1. Complete(Log, db'.tick, db'.has)
      BY <1>1 DEF DatabaseInv
    <2>2. ASSUME NEW x \in Exporters, exporter'[x].pc = "store"
          PROVE  Complete(Log, exporter'[x].next, db'.has \cup IdsIn(exporter'[x].batch))
      <3>1. x # e /\ exporter'[x] = exporter[x]
        BY <1>1, <1>2, <2>2 DEF NoBatch
      <3>2. Complete(Log, exporter[x].next, db.has \cup IdsIn(exporter[x].batch))
        BY <2>2, <3>1 DEF DatabaseInv
      <3>3. db.has \cup IdsIn(exporter[x].batch) \subseteq db'.has \cup IdsIn(exporter[x].batch)
        BY <1>1
      <3> QED BY <3>1, <3>2, <3>3, CompleteGrows
    <2> QED BY <1>4, <2>1, <2>2 DEF DatabaseInv
  <1> QED BY <1>7, <1>8, <1>9

LEMMA ExportFailsKeeps ==
  ASSUME OneRecordStorage, ReplicationInv, NEW e \in Exporters, ExportFails(e)
  PROVE  ReplicationInv'
  <1> USE DEF ReplicationInv
  <1>1. /\ exporter' = [exporter EXCEPT ![e] = NoBatch] /\ losses' = losses + 1
        /\ UNCHANGED <<logs, taken, nodeTick, life, produced, db, source, kept, inMemory, partial, overtaken>>
    BY DEF ExportFails
  <1>2. exporter \in [Exporters -> BatchType] /\ losses \in Nat
    BY LogIsSeq DEF ReplicationTypeOK
  <1>3. Log' = Log
    BY <1>1 DEF Log
  <1>4. exporter' \in [Exporters -> BatchType]
    BY <1>1, <1>2 DEF NoBatch, BatchType
  <1>5. ReplicationTypeOK'
    BY <1>1, <1>2, <1>4 DEF ReplicationTypeOK
  <1>6. TicksInv' /\ SourceInv'
    BY <1>1, <1>3 DEF TicksInv, SourceInv, From
  <1>7. DatabaseInv'
    <2>1. \A x \in Exporters : exporter'[x].pc = "store" => exporter'[x] = exporter[x]
      BY <1>1, <1>2 DEF NoBatch
    <2> QED BY <1>1, <1>3, <2>1 DEF DatabaseInv
  <1> QED BY <1>5, <1>6, <1>7

LEMMA FetchKeeps ==
  ASSUME OneRecordStorage, ReplicationInv, Fetch
  PROVE  ReplicationInv'
  <1> USE DEF ReplicationInv
  <1> DEFINE out == ReadFrom(ServedFrom)
             next == NextTick(ServedFrom, out)
  <1>1. /\ source.pc = "idle"
        /\ source' = [pc |-> IF out = <<>> THEN "idle" ELSE "apply", batch |-> out, next |-> next, life |-> life]
        /\ overtaken' = (overtaken \/ (source.life # life /\ From \in 1 .. nodeTick + 1))
        /\ UNCHANGED <<logs, taken, nodeTick, life, produced, db, exporter, kept, inMemory, losses, partial>>
    BY DEF Fetch
  <1>2. source \in SourceType /\ kept \in [ids : SUBSET Nat, tick : Nat, life : Nat] /\ source.batch = <<>>
    BY <1>1 DEF ReplicationTypeOK
  <1>3. life \in Nat /\ nodeTick \in Nat /\ Len(Log) \in Nat
    BY LogIsSeq
  <1>4. From \in Nat
    BY <1>2 DEF From, SourceType
  <1>5. ServedFrom \in Nat /\ (ServedFrom = From \/ ServedFrom = 0)
    BY <1>4 DEF ServedFrom
  <1>6. /\ out \in Seq(LogEntry) /\ next \in Nat
        /\ ServedFrom <= Len(Log) + 1 => next <= Len(Log) + 1
        /\ ServedFrom <= Len(Log) + 1 =>
             \A i \in 1 .. Len(Log) : i < next => i < ServedFrom \/ Log[i].id \in IdsIn(out)
    BY <1>5, NextTickSkips
  <1> HIDE DEF out, next
  <1>7. Log' = Log
    BY <1>1 DEF Log
  <1>8. ReplicationTypeOK'
    <2>1. source' \in SourceType /\ source'.batch = out /\ source'.next = next /\ source'.life = life
          /\ (source'.pc = "idle" <=> out = <<>>)
      BY <1>1, <1>3, <1>6 DEF SourceType
    <2>2. overtaken' \in BOOLEAN
      BY <1>1 DEF ReplicationTypeOK
    <2> QED BY <1>1, <1>6, <2>1, <2>2 DEF ReplicationTypeOK
  <1>9. TicksInv' /\ DatabaseInv'
    BY <1>1, <1>7 DEF TicksInv, DatabaseInv
  <1>10. SourceInv'
    <2>1. source'.life = life /\ source'.next = next /\ source'.batch = out
      BY <1>1
    <2>2. source'.life <= life' /\ kept'.life <= life'
      BY <1>1, <1>3, <2>1 DEF SourceInv
    <2>3. From' = next
      BY <1>6, <2>1 DEF From
    <2>4. ASSUME ~partial', ~overtaken'
          PROVE  /\ Complete(Log, next, inMemory \cup IdsIn(out))
                 /\ Complete(Log, next, kept.ids \cup IdsIn(out))
                 /\ kept.life = life => Complete(Log, kept.tick, kept.ids)
      <3>1. ~partial /\ ~overtaken /\ (source.life = life \/ From \notin 1 .. nodeTick + 1)
        BY <1>1, <2>4 DEF ReplicationTypeOK
      <3>2. kept.life = life => Complete(Log, kept.tick, kept.ids)
        BY <1>1, <3>1 DEF SourceInv
      <3>3. IdsIn(source.batch) = {}
        BY <1>2 DEF IdsIn
      <3>4. ServedFrom = 0 \/ (Complete(Log, ServedFrom, inMemory) /\ Complete(Log, ServedFrom, kept.ids))
        <4>1. CASE source.life = life
          <5>1. Complete(Log, From, inMemory) /\ Complete(Log, From, kept.ids)
            BY <3>1, <3>3, <4>1 DEF SourceInv
          <5> QED BY <1>5, <5>1
        <4>2. CASE source.life # life
          BY <1>3, <1>4, <3>1, <4>2 DEF ServedFrom
        <4> QED BY <4>1, <4>2
      <3>5. ServedFrom <= Len(Log) + 1
        BY <1>3, <3>4 DEF Complete
      <3>6. next <= Len(Log) + 1
        BY <1>6, <3>5
      <3>7. ASSUME NEW i \in 1 .. Len(Log), i < next
            PROVE  Log[i].id \in inMemory \cup IdsIn(out) /\ Log[i].id \in kept.ids \cup IdsIn(out)
        <4>1. CASE Log[i].id \in IdsIn(out)
          BY <4>1
        <4>2. CASE i < ServedFrom
          <5>1. ServedFrom # 0
            BY <4>2
          <5> QED BY <3>4, <4>2, <5>1 DEF Complete
        <4> QED BY <1>6, <3>5, <3>7, <4>1, <4>2
      <3> QED BY <3>2, <3>6, <3>7 DEF Complete
    <2> QED BY <1>1, <1>7, <2>1, <2>2, <2>3, <2>4 DEF SourceInv
  <1> QED BY <1>8, <1>9, <1>10

LEMMA ApplyKeeps ==
  ASSUME OneRecordStorage, ReplicationInv, Apply
  PROVE  ReplicationInv'
  <1> USE DEF ReplicationInv
  <1> DEFINE b == source.batch
             id == Head(b).id
  <1>1. /\ source.pc = "apply"
        /\ inMemory' = inMemory \cup {id}
        /\ kept' = [ids |-> kept.ids \cup {id}, tick |-> source.next, life |-> source.life]
        /\ source' = [source EXCEPT !.batch = Tail(b), !.pc = IF Len(b) = 1 THEN "idle" ELSE "apply"]
        /\ UNCHANGED <<logs, taken, nodeTick, life, produced, db, exporter, losses, partial, overtaken>>
    BY DEF Apply
  <1>2. /\ source \in SourceType /\ source.next \in Nat /\ b # <<>> /\ b \in Seq(LogEntry)
        /\ source.life \in Nat
        /\ kept \in [ids : SUBSET Nat, tick : Nat, life : Nat] /\ inMemory \in SUBSET Nat
    BY <1>1 DEF ReplicationTypeOK, SourceType
  <1>3. /\ id \in Nat /\ Tail(b) \in Seq(LogEntry)
        /\ IdsIn(b) = {id} \cup IdsIn(Tail(b))
        /\ Tail(b) = <<>> <=> Len(b) = 1
    BY <1>2, IdsOfBatch
  <1>4. /\ source' \in SourceType /\ source'.next = source.next /\ source'.life = source.life
        /\ source'.batch = Tail(b) /\ source'.pc = IF Len(b) = 1 THEN "idle" ELSE "apply"
    BY <1>1, <1>2, <1>3 DEF SourceType
  <1>5. kept' \in [ids : SUBSET Nat, tick : Nat, life : Nat] /\ inMemory' \in SUBSET Nat
    BY <1>1, <1>2, <1>3
  <1>6. kept'.ids = kept.ids \cup {id} /\ kept'.tick = source.next /\ kept'.life = source.life
    BY <1>1
  <1>7. From = source.next /\ From' = source.next /\ Log' = Log
    BY <1>1, <1>2, <1>4 DEF From, Log
  <1> HIDE DEF b, id
  <1>8. ReplicationTypeOK'
    BY <1>1, <1>2, <1>3, <1>4, <1>5 DEF ReplicationTypeOK
  <1>9. TicksInv' /\ DatabaseInv'
    BY <1>1, <1>7 DEF TicksInv, DatabaseInv
  <1>10. SourceInv'
    <2>1. source'.life <= life' /\ kept'.life <= life'
      BY <1>1, <1>4, <1>6 DEF SourceInv
    <2>2. ASSUME ~partial, ~overtaken, source.life = life
          PROVE  /\ Complete(Log, source.next, inMemory' \cup IdsIn(Tail(b)))
                 /\ Complete(Log, source.next, kept'.ids \cup IdsIn(Tail(b)))
      <3>1. /\ Complete(Log, source.next, inMemory \cup IdsIn(b))
            /\ Complete(Log, source.next, kept.ids \cup IdsIn(b))
        BY <1>7, <2>2 DEF SourceInv, b
      <3>2. /\ inMemory \cup IdsIn(b) = inMemory' \cup IdsIn(Tail(b))
            /\ kept.ids \cup IdsIn(b) = kept'.ids \cup IdsIn(Tail(b))
        BY <1>1, <1>3, <1>6
      <3> QED BY <3>1, <3>2
    <2>3. ASSUME ~partial, ~overtaken, source.life = life, ~(source'.pc = "apply")
          PROVE  Complete(Log, source.next, kept'.ids)
      <3>1. Tail(b) = <<>>
        BY <1>3, <1>4, <2>3
      <3>2. IdsIn(Tail(b)) = {}
        BY <3>1 DEF IdsIn
      <3> QED BY <2>2, <2>3, <3>2
    <2> QED BY <1>1, <1>4, <1>6, <1>7, <2>1, <2>2, <2>3 DEF SourceInv
  <1> QED BY <1>8, <1>9, <1>10

LEMMA ApplyFailsKeeps ==
  ASSUME OneRecordStorage, ReplicationInv, ApplyFails
  PROVE  ReplicationInv'
  <1> USE DEF ReplicationInv
  <1>1. /\ source.pc = "apply" /\ losses' = losses + 1
        /\ inMemory' = inMemory \cup {Head(source.batch).id}
        /\ source' = [source EXCEPT !.batch = <<>>, !.pc = "idle"]
        /\ partial' = TRUE
        /\ UNCHANGED <<logs, taken, nodeTick, life, produced, db, exporter, kept, overtaken>>
    BY DEF ApplyFails
  <1>2. /\ source \in SourceType /\ source.next \in Nat /\ source.batch # <<>> /\ source.batch \in Seq(LogEntry)
        /\ inMemory \in SUBSET Nat /\ losses \in Nat
    BY <1>1, LogIsSeq DEF ReplicationTypeOK, SourceType
  <1>3. Head(source.batch).id \in Nat
    BY <1>2, IdsOfBatch
  <1>4. /\ source' \in SourceType /\ source'.life = source.life
        /\ source'.batch = <<>> /\ source'.pc = "idle"
    <2>1. <<>> \in Seq(LogEntry)
      OBVIOUS
    <2> QED BY <1>1, <1>2, <2>1 DEF SourceType
  <1>5. Log' = Log
    BY <1>1 DEF Log
  <1>6. ReplicationTypeOK'
    BY <1>1, <1>2, <1>3, <1>4 DEF ReplicationTypeOK
  <1>7. TicksInv' /\ DatabaseInv'
    BY <1>1, <1>5 DEF TicksInv, DatabaseInv
  <1>8. SourceInv'
    BY <1>1, <1>4 DEF SourceInv
  <1> QED BY <1>6, <1>7, <1>8

LEMMA SourceCrashKeeps ==
  ASSUME OneRecordStorage, ReplicationInv, SourceCrash
  PROVE  ReplicationInv'
  <1> USE DEF ReplicationInv
  <1>1. /\ losses' = losses + 1
        /\ source' = [pc |-> "idle", batch |-> <<>>, next |-> -1, life |-> kept.life]
        /\ inMemory' = kept.ids
        /\ partial' = (partial \/ (source.pc = "apply" /\ kept.tick = source.next))
        /\ UNCHANGED <<logs, taken, nodeTick, life, produced, db, exporter, kept, overtaken>>
    BY DEF SourceCrash
  <1>2. kept \in [ids : SUBSET Nat, tick : Nat, life : Nat] /\ losses \in Nat
    BY LogIsSeq DEF ReplicationTypeOK
  <1>3. source' \in SourceType
    BY <1>1, <1>2 DEF SourceType
  <1>4. Log' = Log /\ From' = kept.tick /\ IdsIn(source'.batch) = {}
    BY <1>1 DEF Log, From, IdsIn
  <1>5. ReplicationTypeOK'
    BY <1>1, <1>2, <1>3 DEF ReplicationTypeOK
  <1>6. TicksInv' /\ DatabaseInv'
    BY <1>1, <1>4 DEF TicksInv, DatabaseInv
  <1>7. SourceInv'
    <2>1. source'.life <= life' /\ kept'.life <= life'
      BY <1>1 DEF SourceInv
    <2>2. ASSUME ~partial', ~overtaken', kept.life = life PROVE Complete(Log, kept.tick, kept.ids)
      <3>1. ~partial /\ ~overtaken /\ ~(source.pc = "apply" /\ kept.tick = source.next)
        BY <1>1, <2>2 DEF ReplicationTypeOK
      <3> QED BY <2>2, <3>1 DEF SourceInv
    <2>3. inMemory' \cup IdsIn(source'.batch) = kept.ids /\ kept'.ids \cup IdsIn(source'.batch) = kept.ids
      BY <1>1, <1>4
    <2>4. source'.life = kept.life
      BY <1>1
    <2> QED BY <1>1, <1>4, <2>1, <2>2, <2>3, <2>4 DEF SourceInv
  <1> QED BY <1>5, <1>6, <1>7

\* Every step of the node, its databases and its source keeps the invariant.
LEMMA ReplicationKeeps ==
  ASSUME OneRecordStorage, ReplicationInv, ReplicationNext \/ UNCHANGED replicationVars
  PROVE  ReplicationInv'
  <1>1. CASE UNCHANGED replicationVars
    <2>1. Log' = Log /\ From' = From
      BY <1>1 DEF replicationVars, Log, From
    <2>2. ReplicationTypeOK'
      BY <1>1 DEF replicationVars, ReplicationInv, ReplicationTypeOK
    <2>3. TicksInv' /\ DatabaseInv' /\ SourceInv'
      BY <1>1, <2>1 DEF replicationVars, ReplicationInv, TicksInv, DatabaseInv, SourceInv
    <2> QED BY <2>2, <2>3 DEF ReplicationInv
  <1>2. CASE ReplicationNext
    BY <1>2, TakeTickKeeps, AppendRecordKeeps, LoseRecordsKeeps, ExportKeeps, ExportStoresKeeps, ExportFailsKeeps,
       FetchKeeps, ApplyKeeps, ApplyFailsKeeps, SourceCrashKeeps
    DEF ReplicationNext, ProduceStep, ExportStep
  <1> QED BY <1>1, <1>2

\* The invariant says that nothing is skipped.
LEMMA NothingSkipped ==
  ASSUME OneRecordStorage, ReplicationInv
  PROVE  DatabaseComplete /\ SourceComplete
  <1> USE DEF ReplicationInv
  <1>1. \A x \in AllEntries : \E i \in 1 .. Len(Log) : x = Log[i] /\ x.tick = i
    <2> SUFFICES ASSUME NEW x \in AllEntries PROVE \E i \in 1 .. Len(Log) : x = Log[i] /\ x.tick = i
      OBVIOUS
    <2>1. PICK s \in Storage : x \in ToSet(logs[s])
      BY DEF AllEntries
    <2>2. x \in ToSet(Log)
      BY <2>1, OneStorageFacts DEF Log
    <2> QED BY <2>2, LogIsSeq DEF ToSet, TicksInv
  <1>2. DatabaseComplete
    BY <1>1 DEF DatabaseComplete, DatabaseInv, Complete
  <1>3. SourceComplete
    <2> SUFFICES ASSUME source.pc = "idle", source.life = life, ~partial, ~overtaken,
                        NEW x \in AllEntries, x.tick < From
                 PROVE  x.id \in inMemory /\ x.id \in kept.ids
      BY DEF SourceComplete
    <2>1. PICK i \in 1 .. Len(Log) : x = Log[i] /\ x.tick = i
      BY <1>1
    <2>2. IdsIn(source.batch) = {}
      BY DEF ReplicationTypeOK, IdsIn
    <2>3. Complete(Log, From, inMemory \cup IdsIn(source.batch)) /\ Complete(Log, From, kept.ids \cup IdsIn(source.batch))
      BY DEF SourceInv
    <2> QED BY <2>1, <2>2, <2>3 DEF Complete
  <1> QED BY <1>2, <1>3

\* The records of an answer are in the order of their ticks.
TicksIncrease(batch) == \A i, j \in DOMAIN batch : i < j => batch[i].tick < batch[j].tick

LEMMA AnswersInOrder ==
  ASSUME OneRecordStorage, ReplicationTypeOK, TicksInv, NEW tick \in Nat
  PROVE  TicksIncrease(ReadFrom(tick))
  <1> DEFINE L == Len(Log)
             k == First(RecordStorages[1], tick)
             m == Upto(k, ReadMaxSize)
             out == [i \in 1 .. m |-> Log[k + i - 1]]
  <1>1. L \in Nat /\ ReadMaxSize \in Nat
    BY LogIsSeq, ReplicationAssumption
  <1>2. k \in 1 .. L + 1
    BY <1>1, FirstIs
  <1>3. ReadFrom(tick) = out
    BY ReadFromIs DEF ReadSoFar
  <1> HIDE DEF k
  <1>4. m \in Nat /\ k + m <= L + 1
    BY <1>1, <1>2 DEF Upto
  <1> HIDE DEF m
  <1>5. \A i \in 1 .. m : out[i].tick = k + i - 1
    <2> SUFFICES ASSUME NEW i \in 1 .. m PROVE Log[k + i - 1].tick = k + i - 1
      OBVIOUS
    <2>1. k + i - 1 \in 1 .. L
      BY <1>1, <1>2, <1>4
    <2> QED BY <2>1 DEF TicksInv
  <1>6. DOMAIN out = 1 .. m
    OBVIOUS
  <1> HIDE DEF out
  <1>7. ASSUME NEW i \in 1 .. m, NEW j \in 1 .. m, i < j PROVE out[i].tick < out[j].tick
    <2>1. out[i].tick = k + i - 1 /\ out[j].tick = k + j - 1
      BY <1>5
    <2> QED BY <1>2, <1>4, <1>7, <2>1
  <1> QED BY <1>3, <1>6, <1>7 DEF TicksIncrease

\* A call of processNext() holds one answer, or nothing.
LEMMA BatchesStayInOrder ==
  ASSUME OneRecordStorage, ReplicationInv, MergedByTick, ReplicationNext \/ UNCHANGED replicationVars
  PROVE  MergedByTick'
  <1>1. \A e \in Exporters : TicksIncrease(exporter[e].batch)
    BY DEF MergedByTick, TicksIncrease
  <1>2. TicksIncrease(<<>>)
    BY DEF TicksIncrease
  <1>3. exporter \in [Exporters -> BatchType] /\ db.tick \in Nat
    BY DEF ReplicationInv, ReplicationTypeOK
  <1>4. \/ exporter' = exporter
        \/ exporter' = [e \in Exporters |-> NoBatch]
        \/ \E e \in Exporters : exporter' = [exporter EXCEPT ![e] = NoBatch]
        \/ \E e \in Exporters : Export(e)
    BY DEF ReplicationNext, ProduceStep, TakeTick, AppendRecord, LoseRecords, ExportStep, ExportStores, ExportFails,
           Fetch, Apply, ApplyFails, SourceCrash, replicationVars
  <1>5. ASSUME NEW e \in Exporters, Export(e) PROVE exporter'[e].batch = ReadFrom(db.tick)
                                                    /\ \A x \in Exporters \ {e} : exporter'[x] = exporter[x]
    BY <1>3, <1>5 DEF Export
  <1>6. \A e \in Exporters : TicksIncrease(exporter'[e].batch)
    <2>1. TicksIncrease(ReadFrom(db.tick))
      BY <1>3, AnswersInOrder DEF ReplicationInv
    <2>2. CASE exporter' = exporter
      BY <1>1, <2>2
    <2>3. CASE exporter' = [e \in Exporters |-> NoBatch]
      BY <1>2, <2>3 DEF NoBatch
    <2>4. ASSUME NEW x \in Exporters, exporter' = [exporter EXCEPT ![x] = NoBatch]
          PROVE  \A e \in Exporters : TicksIncrease(exporter'[e].batch)
      BY <1>1, <1>2, <1>3, <2>4 DEF NoBatch
    <2>5. ASSUME NEW x \in Exporters, Export(x)
          PROVE  \A e \in Exporters : TicksIncrease(exporter'[e].batch)
      <3> TAKE e \in Exporters
      <3>1. CASE e = x
        BY <1>5, <2>1, <2>5, <3>1
      <3>2. CASE e # x
        BY <1>1, <1>5, <2>5, <3>2
      <3> QED BY <3>1, <3>2
    <2> QED BY <1>4, <2>2, <2>3, <2>4, <2>5
  <1> QED BY <1>6 DEF MergedByTick, TicksIncrease

-----------------------------------------------------------------------------
\* FollowersComplete for a node with one storage, any number of records, calls of processNext(),
\* failures and restarts, any size of an answer, any hosts and any expiry: the database has every
\* record below its tick, the source every record below the one it goes on from unless a batch was
\* cut or a former life was overtaken, records are read in the order of their ticks, and one host uses
\* the directory.
THEOREM FollowersAreComplete ==
  ASSUME OneRecordStorage
  PROVE  Spec => []FollowersComplete
  <1>1. Init => ReplicationInv /\ MergedByTick /\ LockInv
    <2>1. ReplicationInit => MergedByTick
      BY DEF ReplicationInit, MergedByTick, NoBatch
    <2> QED BY <2>1, ReplicationStarts, LockStarts DEF Init
  <1>2. ReplicationInv /\ MergedByTick /\ LockInv /\ [Next]_vars => (ReplicationInv /\ MergedByTick /\ LockInv)'
    <2> SUFFICES ASSUME ReplicationInv, MergedByTick, LockInv, [Next]_vars
                 PROVE  ReplicationInv' /\ MergedByTick' /\ LockInv'
      OBVIOUS
    <2>1. (ReplicationNext \/ UNCHANGED replicationVars) /\ [LockNext]_lockVars
      BY DEF Next, vars
    <2> QED BY <2>1, ReplicationKeeps, BatchesStayInOrder, LockInvInductive
  <1>3. ReplicationInv /\ MergedByTick /\ LockInv => FollowersComplete
    BY NothingSkipped, ExclusiveFromInv DEF FollowersComplete
  <1> QED BY <1>1, <1>2, <1>3, PTL DEF Spec
=============================================================================
