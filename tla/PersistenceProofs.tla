-------------------------- MODULE PersistenceProofs --------------------------
(***************************************************************************)
(* Proofs about the persistence on disk, for any keys, values, writers and  *)
(* readers and any number of writes, resets and crashes: its files always   *)
(* stand for the data of the persistence in memory, which it implements.    *)
(*                                                                          *)
(* They are about the persistence as the key value store uses it, loaded    *)
(* before anything else is called, and without a crash in the two windows   *)
(* (InWindow) after which the files stand for no data that was in memory:   *)
(* SafelyUsed.                                                              *)
(*                                                                          *)
(* What the files stand for (Content) is the replay of the delta files over *)
(* the data file.  DiskInv says of every call how far it is: the loading    *)
(* has replayed the deltas it has passed, a writer appends to the newest    *)
(* one, and the snapshot of a savepoint is what the deltas before the one   *)
(* it created make of the data, so that they may go once it replaced the    *)
(* data file.                                                               *)
(***************************************************************************)
EXTENDS PersistenceDisk, TLAPS, FiniteSetTheorems, WellFoundedInduction

SafelyUsed == LoadFirst = TRUE /\ CrashAnywhere = FALSE

Ids == 0 .. MaxId
Clean == [Keys -> Vals \cup {Absent, NoOp}]

-----------------------------------------------------------------------------
(* The replay of delta files, for any files.                               *)

\* The replay over base of the deltas S, whose lines are L.
Replayed(base, S, L) ==
  [k \in Keys |-> LET about == {i \in S : L[i][k] # NoOp}
                  IN  IF about = {} THEN base[k] ELSE L[Max(about)][k]]

\* The same as a relation: v is the value of k.
Says(base, S, L, k, v) ==
  \/ v = base[k] /\ \A i \in S : L[i][k] = NoOp
  \/ \E i \in S : v = L[i][k] /\ v # NoOp /\ \A j \in S : j > i => L[j][k] = NoOp

\* The data c holds what the deltas before id make of base.
Covers(c, id, base, S, L) == \A k \in Keys :
  (\A i \in S : i >= id => L[i][k] = NoOp) => Replayed(base, S, L)[k] = c[k]

\* The largest element of a set of identifiers, which Max is.
LEMMA MaxIsIn ==
  ASSUME NEW T \in SUBSET Ids, T # {}
  PROVE  Max(T) \in T /\ \A i \in T : Max(T) >= i
<1> DEFINE D == {MaxId - i : i \in T}
<1>0. MaxId \in Nat /\ \A i \in T : i \in Nat /\ i <= MaxId
  BY DiskAssumption DEF Ids
<1>1. D \in SUBSET Nat /\ D # {}
  BY <1>0
<1>2. PICK d \in D : \A e \in D : ~(<<e, d>> \in OpToRel(<, Nat))
  BY <1>1, WFMin, NatLessThanWellFounded
<1>4. PICK m \in T : d = MaxId - m
  OBVIOUS
<1> HIDE DEF D
<1>3. \A e \in D : d <= e
  <2>0. d \in Nat /\ \A e \in D : e \in Nat
    BY <1>1
  <2> SUFFICES ASSUME NEW e \in D, e < d PROVE FALSE
    BY <2>0
  <2>1. <<e, d>> \in OpToRel(<, Nat)
    BY <2>0 DEF OpToRel
  <2> QED
    BY <1>2, <2>1
<1>5. ASSUME NEW i \in T PROVE m >= i
  <2>1. MaxId - i \in D
    BY DEF D
  <2>2. MaxId - m <= MaxId - i
    BY <1>3, <1>4, <2>1
  <2> QED
    BY <1>0, <2>2
<1> QED
  BY <1>5 DEF Max

\* The relation and the function are the same.
LEMMA ReplayedSays ==
  ASSUME NEW base, NEW S \in SUBSET Ids, NEW L, NEW k \in Keys, NEW v
  PROVE  Says(base, S, L, k, v) <=> v = Replayed(base, S, L)[k]
<1> DEFINE about == {i \in S : L[i][k] # NoOp}
<1>0. Replayed(base, S, L)[k] = IF about = {} THEN base[k] ELSE L[Max(about)][k]
  BY DEF Replayed
<1>1. CASE about = {}
  BY <1>0, <1>1 DEF Says
<1>2. CASE about # {}
  <2> DEFINE m == Max(about)
  <2>1. m \in about /\ \A i \in about : m >= i
    BY <1>2, MaxIsIn
  <2> HIDE DEF m
  <2>2. \A i, j \in S : i \in Int /\ j \in Int
    BY DiskAssumption DEF Ids
  <2>3. m \in S /\ L[m][k] # NoOp /\ \A j \in S : j > m => L[j][k] = NoOp
    BY <2>1, <2>2
  <2>4. \A i \in S : L[i][k] # NoOp /\ (\A j \in S : j > i => L[j][k] = NoOp) => i = m
    BY <2>1, <2>2, <2>3
  <2>5. Replayed(base, S, L)[k] = L[m][k]
    BY <1>0, <1>2 DEF m
  <2> QED
    BY <2>3, <2>4, <2>5 DEF Says
<1> QED
  BY <1>1, <1>2

\* A replay is a function on the keys.
LEMMA ReplayedIsFunction ==
  ASSUME NEW base, NEW S, NEW L
  PROVE  /\ DOMAIN Replayed(base, S, L) = Keys
         /\ Replayed(base, S, L) = [k \in Keys |-> Replayed(base, S, L)[k]]
BY DEF Replayed

\* Two replays are the same when they say the same.
LEMMA SameReplay ==
  ASSUME NEW base, NEW S \in SUBSET Ids, NEW L,
         NEW base2, NEW S2 \in SUBSET Ids, NEW L2,
         NEW k \in Keys,
         \A v : Says(base, S, L, k, v) => Says(base2, S2, L2, k, v)
  PROVE  Replayed(base2, S2, L2)[k] = Replayed(base, S, L)[k]
<1>1. Says(base, S, L, k, Replayed(base, S, L)[k])
  BY ReplayedSays
<1>2. Says(base2, S2, L2, k, Replayed(base, S, L)[k])
  BY <1>1
<1> QED
  BY <1>2, ReplayedSays

\* Only the deltas of S, and of those only the lines, count.
LEMMA ReplayOfSame ==
  ASSUME NEW base, NEW S \in SUBSET Ids, NEW L, NEW L2, \A i \in S : L2[i] = L[i]
  PROVE  Replayed(base, S, L2) = Replayed(base, S, L)
<1>1. \A k \in Keys : Replayed(base, S, L2)[k] = Replayed(base, S, L)[k]
  <2> SUFFICES ASSUME NEW k \in Keys
               PROVE  Replayed(base, S, L2)[k] = Replayed(base, S, L)[k]
    OBVIOUS
  <2>1. \A v : Says(base, S, L, k, v) => Says(base, S, L2, k, v)
    BY DEF Says
  <2> QED
    BY <2>1, SameReplay
<1> QED
  BY <1>1, ReplayedIsFunction

\* A delta without a line changes nothing: createDeltaNoLock().
LEMMA ReplayOfCreated ==
  ASSUME NEW base, NEW S \in SUBSET Ids, NEW L, NEW L2, NEW n \in Ids,
         \A i \in S : L2[i] = L[i], L2[n] = EmptyLog
  PROVE  Replayed(base, S \cup {n}, L2) = Replayed(base, S, L)
<1>1. \A k \in Keys : Replayed(base, S \cup {n}, L2)[k] = Replayed(base, S, L)[k]
  <2> SUFFICES ASSUME NEW k \in Keys
               PROVE  Replayed(base, S \cup {n}, L2)[k] = Replayed(base, S, L)[k]
    OBVIOUS
  <2>1. L2[n][k] = NoOp
    BY DEF EmptyLog
  <2>2. \A v : Says(base, S, L, k, v) => Says(base, S \cup {n}, L2, k, v)
    BY <2>1 DEF Says
  <2> QED
    BY <2>2, SameReplay
<1> QED
  BY <1>1, ReplayedIsFunction

\* A line of the newest delta is the value of its key: write().
LEMMA ReplayOfAppended ==
  ASSUME NEW base, NEW S \in SUBSET Ids, NEW L, NEW m \in S, \A i \in S : i <= m,
         NEW key \in Keys, L[m][key] # NoOp
  PROVE  Replayed(base, S, L)[key] = L[m][key]
<1>1. \A j \in S : ~(j > m)
  BY DiskAssumption DEF Ids
<1>2. Says(base, S, L, key, L[m][key])
  BY <1>1 DEF Says
<1> QED
  BY <1>2, ReplayedSays

\* The other keys keep theirs.
LEMMA ReplayOfOtherKey ==
  ASSUME NEW base, NEW S \in SUBSET Ids, NEW L, NEW L2, NEW k \in Keys,
         \A i \in S : L2[i][k] = L[i][k]
  PROVE  Replayed(base, S, L2)[k] = Replayed(base, S, L)[k]
<1>1. \A v : Says(base, S, L, k, v) => Says(base, S, L2, k, v)
  BY DEF Says
<1> QED
  BY <1>1, SameReplay

\* The oldest delta may go when the data file covers it: replaceDataNoLock().
LEMMA ReplayWithoutOldest ==
  ASSUME NEW base, NEW S \in SUBSET Ids, NEW L, NEW L2, NEW lo \in S,
         \A i \in S : lo <= i, \A i \in S \ {lo} : L2[i] = L[i],
         NEW id, id > lo, id \in Int, Covers(base, id, base, S, L)
  PROVE  Replayed(base, S \ {lo}, L2) = Replayed(base, S, L)
<1>1. \A k \in Keys : Replayed(base, S \ {lo}, L2)[k] = Replayed(base, S, L)[k]
  <2> SUFFICES ASSUME NEW k \in Keys
               PROVE  Replayed(base, S \ {lo}, L2)[k] = Replayed(base, S, L)[k]
    OBVIOUS
  <2>0. \A i \in S : i \in Int
    BY DiskAssumption DEF Ids
  <2>1. CASE \E i \in S \ {lo} : L[i][k] # NoOp
    <3>1. PICK i \in S \ {lo} : L[i][k] # NoOp
      BY <2>1
    <3>2. i > lo
      BY <2>0
    <3>3. \A v : Says(base, S, L, k, v) => Says(base, S \ {lo}, L2, k, v)
      BY <3>1, <3>2 DEF Says
    <3> QED
      BY <3>3, SameReplay
  <2>2. CASE \A i \in S \ {lo} : L[i][k] = NoOp
    <3>1. Replayed(base, S, L)[k] = base[k]
      BY <2>0, <2>2 DEF Covers
    <3>2. Says(base, S \ {lo}, L2, k, base[k])
      BY <2>2 DEF Says
    <3> QED
      BY <3>1, <3>2, ReplayedSays
  <2> QED
    BY <2>1, <2>2
<1> QED
  BY <1>1, ReplayedIsFunction

\* A data file that covers deltas may be put under them: savepointReplaceData().
LEMMA ReplayOverCover ==
  ASSUME NEW base, NEW S \in SUBSET Ids, NEW L, NEW c, NEW id, Covers(c, id, base, S, L)
  PROVE  Replayed(c, S, L) = Replayed(base, S, L)
<1>1. \A k \in Keys : Replayed(c, S, L)[k] = Replayed(base, S, L)[k]
  <2> SUFFICES ASSUME NEW k \in Keys
               PROVE  Replayed(c, S, L)[k] = Replayed(base, S, L)[k]
    OBVIOUS
  <2>1. CASE \E i \in S : L[i][k] # NoOp
    <3>1. \A v : Says(base, S, L, k, v) => Says(c, S, L, k, v)
      BY <2>1 DEF Says
    <3> QED
      BY <3>1, SameReplay
  <2>2. CASE \A i \in S : L[i][k] = NoOp
    <3>1. Replayed(base, S, L)[k] = c[k]
      BY <2>2 DEF Covers
    <3>2. Says(c, S, L, k, c[k])
      BY <2>2 DEF Says
    <3> QED
      BY <3>1, <3>2, ReplayedSays
  <2> QED
    BY <2>1, <2>2
<1> QED
  BY <1>1, ReplayedIsFunction

\* The newest delta is replayed last: applyDelta().
LEMMA ReplayOfNext ==
  ASSUME NEW base, NEW S \in SUBSET Ids, NEW L, NEW n \in Ids, \A i \in S : i < n
  PROVE  Replayed(base, S \cup {n}, L) = Overlay(Replayed(base, S, L), L[n])
<1>0. \A i \in S : i \in Int /\ n \in Int
  BY DiskAssumption DEF Ids
<1>1. \A k \in Keys : Replayed(base, S \cup {n}, L)[k] = Overlay(Replayed(base, S, L), L[n])[k]
  <2> SUFFICES ASSUME NEW k \in Keys
               PROVE  Replayed(base, S \cup {n}, L)[k]
                        = IF L[n][k] = NoOp THEN Replayed(base, S, L)[k] ELSE L[n][k]
    BY DEF Overlay
  <2>1. CASE L[n][k] = NoOp
    <3>1. \A v : Says(base, S, L, k, v) => Says(base, S \cup {n}, L, k, v)
      BY <2>1 DEF Says
    <3> QED
      BY <2>1, <3>1, SameReplay
  <2>2. CASE L[n][k] # NoOp
    <3>1. \A j \in S \cup {n} : ~(j > n)
      BY <1>0, DiskAssumption DEF Ids
    <3>2. Says(base, S \cup {n}, L, k, L[n][k])
      BY <2>2, <3>1 DEF Says
    <3> QED
      BY <2>2, <3>2, ReplayedSays
  <2> QED
    BY <2>1, <2>2
<1>2. Overlay(Replayed(base, S, L), L[n])
        = [k \in Keys |-> Overlay(Replayed(base, S, L), L[n])[k]]
  BY DEF Overlay
<1> QED
  BY <1>1, <1>2, ReplayedIsFunction

\* The replay of no delta file is the data it starts from.
LEMMA ReplayOfNone ==
  ASSUME NEW base \in Data, NEW L
  PROVE  Replayed(base, {}, L) = base
<1>1. \A k \in Keys : Replayed(base, {}, L)[k] = base[k]
  BY DEF Replayed
<1> QED
  BY <1>1, ReplayedIsFunction DEF Data

\* The replay of delta files without a refused line is data.
LEMMA ReplayIsData ==
  ASSUME NEW base \in Data, NEW S \in SUBSET Ids, NEW L, \A i \in S : L[i] \in Clean
  PROVE  Replayed(base, S, L) \in Data
<1>1. ASSUME NEW k \in Keys
      PROVE  Replayed(base, S, L)[k] \in Vals \cup {Absent}
  <2>1. Says(base, S, L, k, Replayed(base, S, L)[k])
    BY ReplayedSays
  <2> QED
    BY <2>1 DEF Says, Clean, Data
<1> QED
  BY <1>1, ReplayedIsFunction DEF Data

\* What each of these does to a cover.
LEMMA CoversSame ==
  ASSUME NEW base, NEW S \in SUBSET Ids, NEW L, NEW L2, \A i \in S : L2[i] = L[i],
         NEW c, NEW id, Covers(c, id, base, S, L)
  PROVE  Covers(c, id, base, S, L2)
<1>1. Replayed(base, S, L2) = Replayed(base, S, L)
  BY ReplayOfSame
<1> QED
  BY <1>1 DEF Covers

\* A snapshot still covers the files when writeDelta creates an empty delta file.
LEMMA CoversCreated ==
  ASSUME NEW base, NEW S \in SUBSET Ids, NEW L, NEW L2, NEW n \in Ids,
         \A i \in S : L2[i] = L[i], L2[n] = EmptyLog,
         NEW c, NEW id, Covers(c, id, base, S, L)
  PROVE  Covers(c, id, base, S \cup {n}, L2)
<1>1. Replayed(base, S \cup {n}, L2) = Replayed(base, S, L)
  BY ReplayOfCreated
<1> QED
  BY <1>1 DEF Covers

\* A snapshot still covers the files when a line is appended to the newest delta file, one that it
\* does not replace.
LEMMA CoversAppended ==
  ASSUME NEW base, NEW S \in SUBSET Ids, NEW L, NEW L2, NEW m \in S,
         \A i \in S : i <= m, \A i \in S \ {m} : L2[i] = L[i],
         NEW key \in Keys, NEW val, val # NoOp, L2[m][key] = val,
         \A k \in Keys \ {key} : L2[m][k] = L[m][k],
         NEW c, NEW id \in S, Covers(c, id, base, S, L)
  PROVE  Covers(c, id, base, S, L2)
<1> SUFFICES ASSUME NEW k \in Keys, \A i \in S : i >= id => L2[i][k] = NoOp
             PROVE  Replayed(base, S, L2)[k] = c[k]
  BY DEF Covers
<1>1. m >= id
  BY DiskAssumption DEF Ids
<1>2. k # key
  BY <1>1
<1>3. \A i \in S : L2[i][k] = L[i][k]
  BY <1>2
<1>4. Replayed(base, S, L2)[k] = Replayed(base, S, L)[k]
  BY <1>3, ReplayOfOtherKey
<1> QED
  BY <1>3, <1>4 DEF Covers

\* A data file that is the snapshot of the older deltas stands for the same when the oldest is unlinked.
LEMMA CoversWithoutOldest ==
  ASSUME NEW base, NEW S \in SUBSET Ids, NEW L, NEW L2, NEW lo \in S,
         \A i \in S : lo <= i, \A i \in S \ {lo} : L2[i] = L[i],
         NEW id, id > lo, id \in Int, Covers(base, id, base, S, L)
  PROVE  Covers(base, id, base, S \ {lo}, L2)
<1>1. Replayed(base, S \ {lo}, L2) = Replayed(base, S, L)
  BY ReplayWithoutOldest
<1>2. \A i \in S : i >= id => i \in S \ {lo}
  BY DiskAssumption DEF Ids
<1> QED
  BY <1>1, <1>2 DEF Covers

\* A snapshot that replaced the data file covers the deltas that are left.
LEMMA CoversItself ==
  ASSUME NEW base, NEW S \in SUBSET Ids, NEW L, NEW c, NEW id, Covers(c, id, base, S, L)
  PROVE  Covers(c, id, c, S, L)
<1>1. Replayed(c, S, L) = Replayed(base, S, L)
  BY ReplayOverCover
<1> QED
  BY <1>1 DEF Covers

-----------------------------------------------------------------------------
(* The inductive invariant.                                                *)

Kept == [i \in Ids |-> Lines(i)]
Content == Replayed(BaseData, Existing, Kept)

\* The steps in which a call neither holds the mutex nor loads the data.
Passive == {"idle", "lock", "writing", "relock"}
Loading == {"read", "fetch", "replay"}

StepsInv ==
  /\ \A w \in Writers : call[w].pc \in {"idle", "lock", "stat", "append", "apply", "truncate"} \cup Loading
  /\ \A r \in Readers : call[r].pc \in {"idle"} \cup Loading
  /\ \A s \in Savers :
       call[s].pc \in {"idle", "lock", "snapshot", "writing", "relock", "unlink"} \cup Loading
  /\ call["resetter"].pc \in {"idle", "lock", "move", "unlink"}

\* A call that works on the files or the data holds the mutex, or is a reader and alone.
LockedInv == \A p \in Procs : call[p].pc \notin Passive =>
  IF p \in Readers THEN \A q \in Procs \ {p} : At(q, "idle") ELSE Holds(p)

\* One savepoint at a time; no call outlives the process.
SaversInv == \A s \in Savers : ~At(s, "idle") =>
  isSavepoint /\ \A t \in Savers \ {s} : At(t, "idle")
DownInv == status = "down" => \A p \in Procs : At(p, "idle")

\* The identifiers of the delta files on disk are consecutive, and those of the list.
FilesInv == Existing = {} \/ \E lo, hi \in Ids : lo <= hi /\ Existing = lo .. hi
ListInv == status # "down" =>
  /\ \A n \in 1 .. Len(list) : list[n] = list[1] + n - 1
  /\ Existing = IF list = <<>> THEN {} ELSE list[1] .. list[Len(list)]

\* No line that stays is refused.
LinesInv == \A i \in Existing : Lines(i) \in Clean

\* A writer appends to the newest delta file, once the data is loaded.
WriterInv(w) ==
  /\ call[w].pc \notin {"idle", "lock"} => list # <<>>
  /\ call[w].pc \notin {"idle", "lock", "stat"} => call[w].id = list[Len(list)]
  /\ call[w].pc \in {"append", "apply", "truncate"} => isInitialized
  /\ call[w].pc \in {"apply", "truncate"} =>
       /\ call[w].before \in Clean
       /\ logs[call[w].id] = [call[w].before EXCEPT ![call[w].key] = call[w].val]
  /\ call[w].pc = "truncate" => call[w].val = Bad

\* Where the data of a savepoint is.
Snapshotted(s) ==
  IF At(s, "writing") THEN call[s].content ELSE IF At(s, "relock") THEN tempFile ELSE dataFile

\* Until a reset, the data of a savepoint covers the delta files before the one it created.
SnapInv(s) == call[s].own = savepointVersion /\ ~At("resetter", "unlink") =>
  call[s].id \in Existing /\ Covers(Snapshotted(s), call[s].id, BaseData, Existing, Kept)

\* A savepoint creates a delta file, which has no line yet when it takes the data.
SaverInv(s) ==
  /\ call[s].pc \in Loading \cup {"snapshot"} =>
       list # <<>> /\ call[s].id = list[Len(list)] /\ logs[call[s].id] = EmptyLog
  /\ call[s].pc = "snapshot" => isInitialized
  /\ call[s].pc \in Loading \cup {"snapshot", "unlink"} => call[s].own = savepointVersion
  /\ call[s].pc \notin {"idle", "lock"} => call[s].own <= savepointVersion
  /\ call[s].pc \in {"writing", "relock", "unlink"} => Snapshotted(s) \in Data /\ SnapInv(s)

\* The loading has replayed the delta files before its position.
LoadInv(p) ==
  /\ call[p].pc \in Loading => ~isInitialized /\ status # "down"
  /\ call[p].pc \in {"fetch", "replay"} =>
       /\ call[p].upto = Len(list) /\ call[p].pos \in 1 .. Len(list) + 1
       /\ data = Replayed(BaseData, {list[n] : n \in 1 .. call[p].pos - 1}, Kept)
  /\ call[p].pc = "replay" => call[p].pos <= Len(list) /\ call[p].content = Kept[list[call[p].pos]]

\* The data is what the files stand for, but for the line that was appended and not applied.
DataInv == isInitialized /\ ~At("resetter", "unlink") => \A k \in Keys :
  \/ data[k] = Content[k]
  \/ \E w \in Writers : At(w, "apply") /\ call[w].key = k /\ call[w].val = Content[k]

ResetInv ==
  /\ ~At("resetter", "idle") => call["resetter"].content \in Data
  /\ At("resetter", "unlink") => dataFile = call["resetter"].content

CallInv(p) ==
  /\ p \in Writers => WriterInv(p)
  /\ p \in Savers => SaverInv(p)
  /\ LoadInv(p)

Control == StepsInv /\ LockedInv /\ SaversInv /\ DownInv
DiskInv ==
  /\ TypeOK /\ dataFile # Torn
  /\ Control
  /\ FilesInv /\ ListInv /\ LinesInv
  /\ \A p \in Procs : CallInv(p)
  /\ DataInv /\ ResetInv
-----------------------------------------------------------------------------
(* The calls.                                                              *)

\* A step of one call.
OnlyCall(p) == call' \in [Procs -> Call] /\ \A q \in Procs \ {p} : call'[q] = call[q]
SameButPc(c, d) ==
  /\ d.key = c.key /\ d.val = c.val /\ d.id = c.id /\ d.before = c.before
  /\ d.pos = c.pos /\ d.upto = c.upto /\ d.content = c.content /\ d.own = c.own
Moves(p, s) == OnlyCall(p) /\ call'[p].pc = s /\ SameButPc(call[p], call'[p])
Returns(p) == OnlyCall(p) /\ call'[p] = NoCall

\* Data is a log without a refused line, and so is the empty log.
LEMMA DataIsLog == Data \subseteq Clean /\ Clean \subseteq Log /\ EmptyLog \in Clean
BY DEF Data, Clean, Log, EmptyLog

\* The record of a caller that is idle.
LEMMA NoCallIsCall == NoCall \in Call /\ NoCall.pc = "idle"
<1>1. (CHOOSE k \in Keys : TRUE) \in Keys
  BY DiskAssumption
<1>2. 0 \in 0 .. MaxId /\ EmptyLog \in Log /\ EmptyLog \in Log \cup Data
  BY DiskAssumption, DataIsLog
<1> QED
  BY <1>1, <1>2 DEF NoCall, Call, Steps

\* A call that only goes to another step keeps the rest of its record.
LEMMA CallWithPc ==
  ASSUME NEW c \in Call, NEW s \in Steps
  PROVE  LET d == [c EXCEPT !.pc = s]
         IN  d \in Call /\ d.pc = s /\ SameButPc(c, d)
BY DEF Call, SameButPc

\* Goto moves the call of one caller and leaves the others alone.
LEMMA GotoMoves ==
  ASSUME call \in [Procs -> Call], NEW p \in Procs, NEW s \in Steps, Goto(p, s)
  PROVE  Moves(p, s)
<1> DEFINE d == [call[p] EXCEPT !.pc = s]
<1>1. d \in Call /\ d.pc = s /\ SameButPc(call[p], d)
  BY CallWithPc
<1>2. call' = [call EXCEPT ![p] = d]
  BY Zenon DEF Goto
<1> HIDE DEF d
<1> QED
  BY <1>1, <1>2 DEF Moves, OnlyCall

\* Return makes one caller idle and leaves the others alone.
LEMMA ReturnReturns ==
  ASSUME call \in [Procs -> Call], NEW p \in Procs, Return(p)
  PROVE  Returns(p)
BY NoCallIsCall DEF Return, Returns, OnlyCall

\* A step of one call to the record d.
LEMMA CallBecomes ==
  ASSUME call \in [Procs -> Call], NEW p \in Procs, NEW d \in Call,
         call' = [call EXCEPT ![p] = d]
  PROVE  OnlyCall(p) /\ call'[p] = d
BY DEF OnlyCall

\* The sets of callers have nobody in common.
LEMMA Callers ==
  /\ Procs = Writers \cup Readers \cup Savers \cup {"resetter"}
  /\ Writers \cap Readers = {} /\ (Writers \cup Readers) \cap (Savers \cup {"resetter"}) = {}
  /\ "resetter" \notin Savers /\ "closer" \in Savers /\ "task" \in Savers
BY DiskAssumption DEF Procs, Savers

-----------------------------------------------------------------------------
(* The mutex.                                                              *)

\* The steps of a caller.
StepsOf(p) ==
  IF p \in Writers THEN {"idle", "lock", "stat", "append", "apply", "truncate"} \cup Loading
  ELSE IF p \in Readers THEN {"idle"} \cup Loading
  ELSE IF p \in Savers THEN {"idle", "lock", "snapshot", "writing", "relock", "unlink"} \cup Loading
  ELSE {"idle", "lock", "move", "unlink"}

\* StepsInv, caller by caller.
LEMMA StepsAre == StepsInv <=> \A p \in Procs : call[p].pc \in StepsOf(p)
BY Callers DEF StepsInv, StepsOf

\* StepsInv, caller by caller, in the next state.
LEMMA StepsAreNext == StepsInv' <=> \A p \in Procs : call'[p].pc \in StepsOf(p)
BY Callers DEF StepsInv, StepsOf

\* While a call holds the mutex, or loads the data, the others are passive.
LEMMA OthersPassive ==
  ASSUME LockedInv, NEW p \in Procs, ~At(p, "idle"), Holds(p) \/ call[p].pc \notin Passive
  PROVE  \A q \in Procs \ {p} : call[q].pc \in Passive
<1> SUFFICES ASSUME NEW q \in Procs \ {p}, call[q].pc \notin Passive
             PROVE  FALSE
  OBVIOUS
<1>1. CASE q \in Readers
  BY <1>1 DEF LockedInv
<1>2. CASE q \notin Readers
  <2>1. Holds(q)
    BY <1>2 DEF LockedInv
  <2>2. ~Holds(p)
    BY <2>1 DEF Holds
  <2>3. p \in Readers
    BY <2>2 DEF LockedInv
  <2> QED
    BY <2>2, <2>3 DEF LockedInv, At, Passive
<1> QED
  BY <1>1, <1>2

\* What a step of a call keeps: it moves along its steps, takes the mutex by waiting for it,
\* and only starts when no reader loads the data.
LEMMA ControlKept ==
  ASSUME Control, queue \in Seq(Procs), NEW p \in Procs, OnlyCall(p),
         call'[p].pc \in StepsOf(p),
         \/ queue' = queue
         \/ queue' = Append(queue, p)
         \/ queue' = Tail(queue) /\ Holds(p),
         At(p, "idle") => \A r \in Readers \ {p} : At(r, "idle"),
         call'[p].pc \notin Passive =>
           IF p \in Readers THEN \A q \in Procs \ {p} : At(q, "idle") ELSE Holds(p) /\ queue' = queue,
         IF p \in Savers
         THEN /\ call'[p].pc # "idle" => isSavepoint' /\ (~At(p, "idle") \/ ~isSavepoint)
              /\ call'[p].pc = "idle" => ~At(p, "idle") \/ isSavepoint' = isSavepoint
         ELSE isSavepoint' = isSavepoint,
         status' # "down"
  PROVE  Control'
<1>1. StepsInv'
  BY StepsAre, StepsAreNext DEF Control, OnlyCall
<1>2. LockedInv'
  <2> SUFFICES ASSUME NEW q \in Procs, call'[q].pc \notin Passive
               PROVE  IF q \in Readers THEN \A o \in Procs \ {q} : call'[o].pc = "idle" ELSE Holds(q)'
    BY DEF LockedInv, At
  <2>1. CASE q = p
    BY <2>1 DEF OnlyCall, At, Holds
  <2>2. CASE q # p
    <3>1. call[q].pc \notin Passive /\ call'[q] = call[q]
      BY <2>2 DEF OnlyCall
    <3>2. CASE q \in Readers
      <4>1. At(p, "idle") /\ \A o \in Procs \ {q} : At(o, "idle")
        BY <2>2, <3>1, <3>2 DEF Control, LockedInv
      <4> QED
        BY <2>2, <3>1, <3>2, <4>1 DEF At, Passive
    <3>3. CASE q \notin Readers
      <4>1. Holds(q)
        BY <3>1, <3>3 DEF Control, LockedInv
      <4>2. ~Holds(p)
        BY <2>2, <4>1 DEF Holds
      <4>3. CASE queue' = queue
        BY <3>3, <4>1, <4>3 DEF Holds
      <4>4. CASE queue' = Append(queue, p)
        <5>1. queue' # <<>> /\ Head(queue') = Head(queue)
          BY <4>1, <4>4 DEF Holds
        <5> QED
          BY <3>3, <4>1, <5>1 DEF Holds
      <4> QED
        BY <4>2, <4>3, <4>4
    <3> QED
      BY <3>2, <3>3
  <2> QED
    BY <2>1, <2>2
<1>3. SaversInv'
  <2>1. \A s \in Savers : s \in Procs
    BY Callers
  <2>2. CASE p \in Savers
    BY <2>1, <2>2 DEF Control, SaversInv, OnlyCall, At
  <2>3. CASE p \notin Savers
    BY <2>1, <2>3 DEF Control, SaversInv, OnlyCall, At
  <2> QED
    BY <2>2, <2>3
<1>4. DownInv'
  BY DEF DownInv
<1> QED
  BY <1>1, <1>2, <1>3, <1>4 DEF Control

-----------------------------------------------------------------------------
(* The files.                                                              *)

\* Without a refused line that is to be removed, the lines are those of the files.
LEMMA QuietLines ==
  (\A w \in Writers : call[w].pc \notin {"apply", "truncate"}) => \A i : Lines(i) = logs[i]
BY DEF Lines, Undone

\* When no writer has appended a line that is still to be applied or refused, the lines count as they are.
LEMMA QuietLinesNext ==
  (\A w \in Writers : call'[w].pc \notin {"apply", "truncate"}) => \A i : Lines(i)' = logs'[i]
BY DEF Lines, Undone

\* A step that leaves the delta files and the refused lines alone leaves the lines alone.
Refuses(c) == c.pc \in {"apply", "truncate"} /\ c.val = Bad
\* The lines of the delta files count as before when only the call of p changes and refuses the same line.
LEMMA LinesSame ==
  ASSUME NEW p \in Procs, OnlyCall(p), logs' = logs,
         p \in Writers => (Refuses(call'[p]) <=> Refuses(call[p])),
         Refuses(call[p]) => call'[p].id = call[p].id /\ call'[p].before = call[p].before
  PROVE  \A i : Lines(i)' = Lines(i)
<1> SUFFICES ASSUME NEW i PROVE Lines(i)' = Lines(i)
  OBVIOUS
<1>0. \A w \in Writers : w \in Procs
  BY Callers
<1>1. ASSUME NEW w \in Writers
      PROVE  (w \in Undone(i)') <=> (w \in Undone(i))
  <2>1. CASE w = p
    BY <2>1 DEF Undone, Refuses
  <2>2. CASE w # p
    BY <1>0, <2>2 DEF Undone, OnlyCall
  <2> QED
    BY <2>1, <2>2
<1>2. Undone(i)' = Undone(i)
  BY <1>1 DEF Undone
<1>3. ASSUME NEW w \in Undone(i)
      PROVE  call'[w].before = call[w].before
  BY <1>0 DEF Undone, OnlyCall, Refuses
<1>4. CASE Undone(i) = {}
  BY <1>2, <1>4 DEF Lines
<1>5. CASE Undone(i) # {}
  <2> DEFINE c == CHOOSE w \in Undone(i) : TRUE
  <2>1. c \in Undone(i)
    BY <1>5
  <2>2. Lines(i) = call[c].before /\ Lines(i)' = call'[c].before
    BY <1>2, <1>5 DEF Lines
  <2> HIDE DEF c
  <2> QED
    BY <1>3, <2>1, <2>2
<1> QED
  BY <1>4, <1>5

\* The delta files on disk, and their lines.
LEMMA ExistingIds == Existing \subseteq Ids /\ \A i \in Ids : Kept[i] = Lines(i)
BY DEF Existing, Ids, Kept

\* The same in the next state.
LEMMA ExistingIdsNext == Existing' \subseteq Ids /\ \A i \in Ids : Kept'[i] = Lines(i)'
BY DEF Existing, Ids, Kept

\* What the files stand for is their replay.
LEMMA StoredIs ==
  Stored = IF At("resetter", "unlink") THEN call["resetter"].content ELSE Content
<1> SUFFICES ASSUME ~At("resetter", "unlink")
             PROVE  Stored = Content
  BY DEF Stored
<1> DEFINE about(k) == {i \in Existing : Lines(i)[k] # NoOp}
           about2(k) == {i \in Existing : Kept[i][k] # NoOp}
<1>1. ASSUME NEW k \in Keys
      PROVE  (IF about(k) = {} THEN BaseData[k] ELSE Lines(Max(about(k)))[k])
               = (IF about2(k) = {} THEN BaseData[k] ELSE Kept[Max(about2(k))][k])
  <2>1. about(k) = about2(k) /\ about(k) \subseteq Ids
    BY ExistingIds
  <2>2. about(k) # {} => Max(about(k)) \in Ids
    BY <2>1, MaxIsIn
  <2> HIDE DEF about, about2
  <2> QED
    BY <2>1, <2>2, ExistingIds
<1>2. Stored = [k \in Keys |-> IF about(k) = {} THEN BaseData[k] ELSE Lines(Max(about(k)))[k]]
  BY DEF Stored
<1>3. Content = [k \in Keys |-> IF about2(k) = {} THEN BaseData[k] ELSE Kept[Max(about2(k))][k]]
  BY DEF Content, Replayed
<1> HIDE DEF about, about2
<1> QED
  BY <1>1, <1>2, <1>3

\* StoredIs in the next state.
LEMMA StoredIsNext ==
  (Stored = IF At("resetter", "unlink") THEN call["resetter"].content ELSE Content)'
BY StoredIs, PTL

\* What the loading starts from is data.
LEMMA BaseIsData ==
  ASSUME TypeOK, dataFile # Torn
  PROVE  BaseData \in Data
BY DEF TypeOK, BaseData, Initial, Data

\* What the files stand for is data.
LEMMA ContentIsData ==
  ASSUME TypeOK, dataFile # Torn, LinesInv
  PROVE  Content \in Data
<1>1. \A i \in Existing : Kept[i] \in Clean
  BY ExistingIds DEF LinesInv
<1> QED
  BY <1>1, BaseIsData, ExistingIds, ReplayIsData DEF Content

\* A step that leaves the files, the list and the data alone, and the refused lines.
LeavesFiles(p) ==
  /\ OnlyCall(p) /\ status # "down" /\ status' # "down"
  /\ dataFile' = dataFile /\ logs' = logs /\ list' = list
  /\ data' = data /\ isInitialized' = isInitialized
  /\ (tempFile' = tempFile /\ savepointVersion' = savepointVersion) \/ (p \in Savers /\ ~At(p, "idle"))
  /\ p \in Writers => (Refuses(call'[p]) <=> Refuses(call[p]))
  /\ Refuses(call[p]) => call'[p].id = call[p].id /\ call'[p].before = call[p].before
  /\ (p \in Writers /\ At(p, "apply")) => call[p].val = Bad
  /\ At("resetter", "unlink")' <=> At("resetter", "unlink")

\* What it keeps, whoever takes it.
LEMMA QuietFrame ==
  ASSUME DiskInv, NEW p \in Procs, LeavesFiles(p)
  PROVE  /\ dataFile' # Torn /\ FilesInv' /\ ListInv' /\ LinesInv' /\ DataInv'
         /\ Content' = Content /\ Existing' = Existing /\ Kept' = Kept /\ BaseData' = BaseData
         /\ \A q \in Procs \ {p} : CallInv(q)'
         /\ p # "resetter" => ResetInv'
<1> USE DEF LeavesFiles
<1>0. TypeOK /\ dataFile # Torn /\ LinesInv /\ SaversInv
  BY DEF DiskInv, Control
<1>1. \A i : Lines(i)' = Lines(i)
  BY LinesSame
<1>2. Existing' = Existing /\ BaseData' = BaseData
  BY DEF Existing, BaseData
<1>3. Kept' = Kept
  BY <1>1 DEF Kept
<1>4. Content' = Content
  BY <1>2, <1>3 DEF Content
<1>5. FilesInv' /\ ListInv' /\ LinesInv'
  BY <1>1, <1>2 DEF DiskInv, FilesInv, ListInv, LinesInv
<1>6. DataInv'
  <2> SUFFICES ASSUME isInitialized, ~At("resetter", "unlink"), NEW k \in Keys
               PROVE  \/ data[k] = Content[k]
                      \/ \E w \in Writers : /\ At(w, "apply")' /\ call'[w].key = k
                                            /\ call'[w].val = Content[k]
    BY <1>4 DEF DataInv
  <2>1. Content[k] # Bad
    BY <1>0, ContentIsData, DiskAssumption DEF Data
  <2>2. CASE data[k] = Content[k]
    BY <2>2
  <2>3. CASE \E w \in Writers : At(w, "apply") /\ call[w].key = k /\ call[w].val = Content[k]
    <3>1. PICK w \in Writers : At(w, "apply") /\ call[w].key = k /\ call[w].val = Content[k]
      BY <2>3
    <3>2. w # p
      BY <2>1, <3>1
    <3>3. call'[w] = call[w]
      BY <3>2, Callers DEF OnlyCall
    <3> QED
      BY <3>1, <3>3 DEF At
  <2> QED
    BY <2>2, <2>3 DEF DiskInv, DataInv
<1>7. ASSUME NEW q \in Procs \ {p}
      PROVE  CallInv(q)'
  <2>1. call'[q] = call[q]
    BY <1>7 DEF OnlyCall
  <2>2. q \in Writers => WriterInv(q)'
    BY <2>1 DEF DiskInv, CallInv, WriterInv
  <2>3. LoadInv(q)'
    <3>1. LoadInv(q)
      BY DEF DiskInv, CallInv
    <3> QED
      BY <1>2, <1>3, <2>1, <3>1 DEF LoadInv
  <2>4. ASSUME q \in Savers PROVE SaverInv(q)'
    <3>1. SaverInv(q)
      BY <2>4 DEF DiskInv, CallInv
    <3>2. CASE At(q, "idle")
      BY <2>1, <3>2 DEF SaverInv, At, Loading
    <3>3. CASE ~At(q, "idle")
      <4>1. tempFile' = tempFile /\ savepointVersion' = savepointVersion
        BY <1>0, <2>4, <3>3 DEF SaversInv
      <4>2. Snapshotted(q)' = Snapshotted(q)
        BY <2>1, <4>1 DEF Snapshotted, At
      <4>3. SnapInv(q)' <=> SnapInv(q)
        BY <1>2, <1>3, <2>1, <4>1, <4>2 DEF SnapInv
      <4> QED
        BY <2>1, <3>1, <4>1, <4>2, <4>3 DEF SaverInv
    <3> QED
      BY <3>2, <3>3
  <2> QED
    BY <2>2, <2>3, <2>4 DEF CallInv
<1>8. p # "resetter" => ResetInv'
  <2>1. "resetter" \in Procs
    BY Callers
  <2> QED
    BY <2>1 DEF DiskInv, ResetInv, OnlyCall, At
<1> QED
  BY <1>0, <1>2, <1>3, <1>4, <1>5, <1>6, <1>7, <1>8

\* What a step of the call that holds the mutex, or loads the data, keeps of the others, which
\* are passive: it only has to mind the savepoints that are being written.
LEMMA LockedFrame ==
  ASSUME DiskInv, NEW p \in Procs, OnlyCall(p), \A q \in Procs \ {p} : call[q].pc \in Passive,
         savepointVersion' \in Nat, savepointVersion' >= savepointVersion,
         tempFile' = tempFile \/ (p \in Savers /\ ~At(p, "idle")),
         \A s \in Savers \ {p} : call[s].pc \in {"writing", "relock"} => SnapInv(s)'
  PROVE  /\ \A q \in Procs \ {p} : CallInv(q)'
         /\ p # "resetter" => ResetInv'
<1>0. TypeOK /\ SaversInv /\ StepsInv /\ savepointVersion \in Nat
  BY DEF DiskInv, Control, TypeOK
<1>1. ASSUME NEW q \in Procs \ {p}
      PROVE  CallInv(q)'
  <2>1. call'[q] = call[q] /\ call[q].pc \in Passive
    BY DEF OnlyCall
  <2>2. ASSUME q \in Writers PROVE WriterInv(q)'
    <3>1. call[q].pc \in {"idle", "lock"}
      BY <1>0, <2>1, <2>2 DEF StepsInv, Passive, Loading
    <3> QED
      BY <2>1, <3>1 DEF WriterInv
  <2>3. LoadInv(q)'
    BY <2>1 DEF LoadInv, Passive, Loading
  <2>4. ASSUME q \in Savers PROVE SaverInv(q)'
    <3>1. SaverInv(q)
      BY <2>4 DEF DiskInv, CallInv
    <3>2. CASE call[q].pc \in {"idle", "lock"}
      BY <2>1, <3>2 DEF SaverInv, Loading
    <3>3. CASE call[q].pc \in {"writing", "relock"}
      <4>1. SnapInv(q)'
        BY <2>4, <3>3
      <4>2. tempFile' = tempFile
        BY <1>0, <2>4, <3>3 DEF SaversInv, At
      <4>3. Snapshotted(q)' = Snapshotted(q)
        BY <2>1, <3>3, <4>2 DEF Snapshotted, At
      <4>4. call[q].own \in Nat
        BY <1>0 DEF TypeOK, Call
      <4>5. call'[q].own <= savepointVersion'
        BY <1>0, <2>1, <3>1, <3>3, <4>4 DEF SaverInv
      <4> QED
        BY <2>1, <3>1, <3>3, <4>1, <4>3, <4>5 DEF SaverInv, Loading
    <3> QED
      BY <2>1, <3>2, <3>3 DEF Passive
  <2> QED
    BY <2>2, <2>3, <2>4 DEF CallInv
<1>2. p # "resetter" => ResetInv'
  <2>1. "resetter" \in Procs
    BY Callers
  <2> QED
    BY <2>1 DEF DiskInv, ResetInv, OnlyCall, At, Passive
<1> QED
  BY <1>1, <1>2

\* A step that leaves the files, the list and the data alone keeps the invariant when its own
\* call keeps its part.
LEMMA QuietStep ==
  ASSUME DiskInv, NEW p \in Procs, LeavesFiles(p),
         TypeOK', Control',
         Content' = Content /\ Existing' = Existing /\ Kept' = Kept /\ BaseData' = BaseData
           => CallInv(p)',
         p = "resetter" => ResetInv'
  PROVE  DiskInv' /\ Content' = Content
<1>1. /\ dataFile' # Torn /\ FilesInv' /\ ListInv' /\ LinesInv' /\ DataInv'
      /\ Content' = Content /\ Existing' = Existing /\ Kept' = Kept /\ BaseData' = BaseData
      /\ \A q \in Procs \ {p} : CallInv(q)'
      /\ p # "resetter" => ResetInv'
  BY QuietFrame
<1>2. ResetInv' /\ \A q \in Procs : CallInv(q)'
  BY <1>1
<1> QED
  BY <1>1, <1>2 DEF DiskInv

\* A step that changes neither what the files stand for nor the place of a reset keeps the stored data.
LEMMA StoredSame ==
  ASSUME NEW p \in Procs, OnlyCall(p), Content' = Content,
         At("resetter", "unlink")' <=> At("resetter", "unlink"),
         p = "resetter" /\ At("resetter", "unlink") => call'[p].content = call[p].content
  PROVE  Stored' = Stored
<1>1. "resetter" \in Procs
  BY Callers
<1>2. At("resetter", "unlink") => call'["resetter"].content = call["resetter"].content
  BY <1>1 DEF OnlyCall
<1> QED
  BY <1>2, StoredIs, StoredIsNext

\* The queue of the mutex stays a sequence of callers when one joins it and when its holder leaves.
LEMMA QueueMoves ==
  ASSUME queue \in Seq(Procs), NEW p \in Procs
  PROVE  Append(queue, p) \in Seq(Procs) /\ (Holds(p) => Tail(queue) \in Seq(Procs))
BY DEF Holds

\* A call that is on its way was not made before the start of the process.
LEMMA BusyIsUp ==
  ASSUME DownInv, NEW p \in Procs, ~At(p, "idle")
  PROVE  status # "down"
BY DEF DownInv

-----------------------------------------------------------------------------
(* get().                                                                  *)

\* A first get() starts to load.
LEMMA GetCallKeeps ==
  ASSUME SafelyUsed, DiskInv, NEW r \in Readers, GetCall(r)
  PROVE  DiskInv' /\ Stored' = Stored /\ OnlyCall(r)
<1>0. TypeOK /\ Control /\ r \in Procs /\ r \notin Writers /\ r \notin Savers /\ r # "resetter"
  BY Callers DEF DiskInv
<1>1. /\ At(r, "idle") /\ status = "ready" /\ ~isInitialized /\ \A p \in Procs : At(p, "idle")
      /\ UNCHANGED <<files, status, queue, delta, memory, saving, counters>>
  BY DEF GetCall, SafelyUsed
<1>2. Moves(r, "read")
  <2>1. Goto(r, "read")
    BY <1>1 DEF GetCall, Get
  <2> QED
    BY <1>0, <2>1, GotoMoves DEF Steps, TypeOK
<1>3. OnlyCall(r) /\ call'[r].pc = "read"
  BY <1>2 DEF Moves
<1>4. TypeOK'
  BY <1>0, <1>1, <1>3 DEF TypeOK, files, delta, memory, saving, counters, OnlyCall
<1>5. Control'
  <2>1. "read" \in StepsOf(r) /\ "read" \notin Passive
    BY <1>0 DEF StepsOf, Loading, Passive
  <2> QED
    BY <1>0, <1>1, <1>3, <2>1, ControlKept, Callers DEF TypeOK, saving
<1>6. At("resetter", "unlink")' <=> At("resetter", "unlink")
  BY <1>0, <1>3, Callers DEF OnlyCall, At
<1>7. CallInv(r)'
  BY <1>0, <1>1, <1>3 DEF CallInv, LoadInv, memory
<1>8. ~Refuses(call[r])
  BY <1>1 DEF At, Refuses
<1>9. LeavesFiles(r)
  <2>1. /\ dataFile' = dataFile /\ logs' = logs /\ list' = list /\ tempFile' = tempFile
        /\ data' = data /\ isInitialized' = isInitialized /\ savepointVersion' = savepointVersion
        /\ status # "down" /\ status' # "down"
    BY <1>1 DEF files, delta, memory, saving
  <2> QED
    BY <1>0, <1>3, <1>6, <1>8, <2>1 DEF LeavesFiles
<1>10. DiskInv' /\ Content' = Content
  BY <1>0, <1>4, <1>5, <1>7, <1>9, QuietStep
<1> QED
  BY <1>0, <1>3, <1>6, <1>10, StoredSame

-----------------------------------------------------------------------------
(* write().                                                                *)

\* A write() asks for the mutex.
LEMMA WriteCallKeeps ==
  ASSUME SafelyUsed, DiskInv, NEW w \in Writers, NEW k \in Keys, NEW v \in Vals \cup {Absent, Bad},
         WriteCall(w, k, v)
  PROVE  /\ DiskInv' /\ Stored' = Stored
         /\ OnlyCall(w) /\ call'[w].pc = "lock" /\ call'[w].key = k /\ call'[w].val = v
<1>0. TypeOK /\ Control /\ w \in Procs /\ w \notin Savers /\ w # "resetter"
  BY Callers DEF DiskInv
<1>1. /\ At(w, "idle") /\ status # "down" /\ queue' = Append(queue, w) /\ writes < MaxWrites
      /\ writes' = writes + 1
      /\ \A r \in Readers : At(r, "idle")
      /\ UNCHANGED <<files, status, delta, memory, saving, crashes, resets, ioFailed>>
  BY DEF WriteCall, SafelyUsed, MayCall, Lock
<1>2. OnlyCall(w) /\ call'[w].pc = "lock" /\ call'[w].key = k /\ call'[w].val = v
  <2> DEFINE d == [NoCall EXCEPT !.pc = "lock", !.key = k, !.val = v]
  <2>1. d \in Call /\ d.pc = "lock" /\ d.key = k /\ d.val = v
    BY NoCallIsCall DEF Call, Steps
  <2>2. call' = [call EXCEPT ![w] = d]
    BY DEF WriteCall
  <2> HIDE DEF d
  <2> QED
    BY <1>0, <2>1, <2>2, CallBecomes DEF TypeOK
<1>3. TypeOK'
  <2>1. writes' \in 0 .. MaxWrites
    BY <1>0, <1>1, DiskAssumption DEF TypeOK
  <2> QED
    BY <1>0, <1>1, <1>2, <2>1, QueueMoves DEF TypeOK, files, delta, memory, saving, OnlyCall
<1>4. Control'
  <2>1. "lock" \in StepsOf(w) /\ "lock" \in Passive
    BY <1>0 DEF StepsOf, Passive
  <2> QED
    BY <1>0, <1>1, <1>2, <2>1, ControlKept DEF TypeOK, saving
<1>5. At("resetter", "unlink")' <=> At("resetter", "unlink")
  BY <1>0, <1>2, Callers DEF OnlyCall, At
<1>6. CallInv(w)'
  BY <1>0, <1>2 DEF CallInv, WriterInv, LoadInv, Loading
<1>7. LeavesFiles(w)
  <2>1. ~Refuses(call[w]) /\ ~Refuses(call'[w]) /\ ~At(w, "apply")
    BY <1>1, <1>2 DEF At, Refuses
  <2>2. /\ dataFile' = dataFile /\ logs' = logs /\ list' = list /\ tempFile' = tempFile
        /\ data' = data /\ isInitialized' = isInitialized /\ savepointVersion' = savepointVersion
        /\ status # "down" /\ status' # "down"
    BY <1>1 DEF files, delta, memory, saving
  <2> QED
    BY <1>2, <1>5, <2>1, <2>2 DEF LeavesFiles
<1>8. DiskInv' /\ Content' = Content
  BY <1>0, <1>3, <1>4, <1>6, <1>7, QuietStep
<1> QED
  BY <1>0, <1>2, <1>5, <1>8, StoredSame

\* The list of delta files is the interval of the identifiers on disk.
LEMMA ListFacts ==
  ASSUME TypeOK, ListInv, status # "down", list # <<>>
  PROVE  /\ Len(list) \in Nat /\ Len(list) >= 1
         /\ list[1] \in Ids /\ list[Len(list)] \in Ids /\ Head(list) = list[1]
         /\ list[Len(list)] = list[1] + Len(list) - 1
         /\ Existing = list[1] .. list[Len(list)]
         /\ list[1] \in Existing /\ list[Len(list)] \in Existing
         /\ \A i \in Existing : list[1] <= i /\ i <= list[Len(list)]
<1>1. list \in Seq(Ids) /\ MaxId \in Nat
  BY DiskAssumption DEF TypeOK, Ids
<1>2. Len(list) \in Nat /\ Len(list) >= 1 /\ Head(list) = list[1]
  BY <1>1
<1>3. list[1] \in Ids /\ list[Len(list)] \in Ids
  BY <1>1, <1>2
<1>4. list[Len(list)] = list[1] + Len(list) - 1 /\ Existing = list[1] .. list[Len(list)]
  BY <1>2 DEF ListInv
<1>5. list[1] \in Existing /\ list[Len(list)] \in Existing
  BY <1>1, <1>2, <1>3, <1>4 DEF Ids
<1> QED
  BY <1>2, <1>3, <1>4, <1>5 DEF Ids

\* The identifiers of a list are those of consecutive files.
LEMMA ListIsFiles ==
  ASSUME TypeOK, ListInv, status # "down"
  PROVE  FilesInv
<1>1. CASE list = <<>>
  BY <1>1 DEF FilesInv, ListInv
<1>2. CASE list # <<>>
  <2>1. /\ list[1] \in Ids /\ list[Len(list)] \in Ids /\ list[1] <= list[Len(list)]
        /\ Existing = list[1] .. list[Len(list)]
    BY <1>2, ListFacts
  <2> QED
    BY <2>1 DEF FilesInv
<1> QED
  BY <1>1, <1>2

\* createDeltaNoLock(): a file that did not exist, after the others, without a line.
LEMMA CreatedFile ==
  ASSUME TypeOK, ListInv, status # "down", CreateDelta
  PROVE  /\ NewId \in Ids /\ NewId \notin Existing
         /\ list' = Append(list, NewId) /\ list' \in Seq(Ids)
         /\ list' # <<>> /\ list'[Len(list')] = NewId
         /\ Existing' = Existing \cup {NewId}
         /\ logs' \in [Ids -> Log \cup {NoFile}]
         /\ logs'[NewId] = EmptyLog /\ \A i \in Existing : logs'[i] = logs[i]
         /\ \A n \in 1 .. Len(list') : list'[n] = list'[1] + n - 1
         /\ Existing' = list'[1] .. list'[Len(list')]
<1>0. /\ list \in Seq(Ids) /\ MaxId \in Nat /\ logs \in [Ids -> Log \cup {NoFile}] /\ NewId <= MaxId
      /\ list' = Append(list, NewId)
      /\ logs' = [logs EXCEPT ![NewId] = IF logs[NewId] = NoFile THEN EmptyLog ELSE logs[NewId]]
  BY DiskAssumption DEF TypeOK, Ids, CreateDelta
<1>1. NewId \in Ids /\ NewId \notin Existing
  <2>1. CASE list = <<>>
    BY <1>0, <2>1 DEF NewId, ListInv, Ids
  <2>2. CASE list # <<>>
    <3>1. list[Len(list)] \in Ids /\ \A i \in Existing : i <= list[Len(list)]
      BY <2>2, ListFacts
    <3> QED
      BY <1>0, <2>2, <3>1 DEF NewId, Ids
  <2> QED
    BY <2>1, <2>2
<1>2. list' \in Seq(Ids) /\ list' # <<>> /\ Len(list') = Len(list) + 1 /\ list'[Len(list')] = NewId
  BY <1>0, <1>1
<1>3. logs[NewId] = NoFile
  BY <1>1 DEF Existing, Ids
<1>4. NoFile # EmptyLog
  BY DiskAssumption DEF EmptyLog
<1>5. /\ logs' \in [Ids -> Log \cup {NoFile}]
      /\ \A i \in Ids : logs'[i] = IF i = NewId THEN EmptyLog ELSE logs[i]
  BY <1>0, <1>1, <1>3, DataIsLog
<1>6. Existing' = Existing \cup {NewId} /\ logs'[NewId] = EmptyLog /\ \A i \in Existing : logs'[i] = logs[i]
  BY <1>1, <1>4, <1>5 DEF Existing, Ids
<1>7. /\ \A n \in 1 .. Len(list') : list'[n] = list'[1] + n - 1
      /\ Existing' = list'[1] .. list'[Len(list')]
  <2>1. CASE list = <<>>
    <3>1. Existing = {} /\ NewId = 0 /\ list' = <<0>>
      BY <1>0, <2>1 DEF NewId, ListInv
    <3> QED
      BY <1>6, <3>1
  <2>2. CASE list # <<>>
    <3>1. /\ Len(list) \in Nat /\ Len(list) >= 1 /\ list[1] \in Ids
          /\ list[Len(list)] = list[1] + Len(list) - 1 /\ Existing = list[1] .. list[Len(list)]
      BY <2>2, ListFacts
    <3>2. NewId = list[1] + Len(list)
      BY <2>2, <3>1 DEF NewId, Ids
    <3>3. list'[1] = list[1] /\ \A n \in 1 .. Len(list) : list'[n] = list[n] /\ list[n] = list[1] + n - 1
      BY <1>0, <3>1 DEF ListInv
    <3>4. \A n \in 1 .. Len(list') : list'[n] = list'[1] + n - 1
      BY <1>2, <3>1, <3>2, <3>3, SMTT(30) DEF Ids
    <3>5. Existing' = list[1] .. NewId
      BY <1>6, <3>1, <3>2 DEF Ids
    <3> QED
      BY <1>2, <3>3, <3>4, <3>5
  <2> QED
    BY <2>1, <2>2
<1> QED
  BY <1>0, <1>1, <1>2, <1>5, <1>6, <1>7

\* A step that creates a delta file, by the call that holds the mutex.
LEMMA CreateKeeps ==
  ASSUME DiskInv, NEW p \in Writers \cup Savers, OnlyCall(p), CreateDelta, Holds(p),
         call[p].pc \in {"lock", "stat"}, call'[p].pc \notin {"apply", "truncate"},
         dataFile' = dataFile, tempFile' = tempFile, data' = data, isInitialized' = isInitialized,
         status # "down", status' = status,
         IF p \in Savers THEN savepointVersion' \in {savepointVersion, savepointVersion + 1}
                         ELSE savepointVersion' = savepointVersion,
         TypeOK', Control', CallInv(p)'
  PROVE  DiskInv' /\ Content' = Content
<1>0. /\ TypeOK /\ dataFile # Torn /\ Control /\ LockedInv /\ SaversInv /\ ListInv /\ LinesInv /\ DataInv
      /\ p \in Procs /\ p # "resetter" /\ savepointVersion \in Nat
  BY Callers DEF DiskInv, Control, TypeOK
<1>1. \A q \in Procs \ {p} : call[q].pc \in Passive
  BY <1>0, OthersPassive DEF At
<1>2. \A w \in Writers : call[w].pc \notin {"apply", "truncate"} /\ call'[w].pc \notin {"apply", "truncate"}
  BY <1>1, Callers DEF Passive, OnlyCall
<1>3. \A i : Lines(i) = logs[i] /\ Lines(i)' = logs'[i]
  BY <1>2, QuietLines, QuietLinesNext
<1>4. /\ Existing \subseteq Ids /\ NewId \in Ids /\ NewId \notin Existing /\ Existing' = Existing \cup {NewId}
      /\ Kept'[NewId] = EmptyLog /\ \A i \in Existing : Kept'[i] = Kept[i]
  <2>1. Existing' \subseteq Ids
    BY ExistingIdsNext
  <2> QED
    BY <1>0, <1>3, <2>1, CreatedFile, ExistingIds, ExistingIdsNext
<1>5. BaseData' = BaseData
  BY DEF BaseData
<1>6. Content' = Content
  BY <1>4, <1>5, ReplayOfCreated DEF Content
<1>7. ListInv' /\ FilesInv'
  <2>1. ListInv'
    BY <1>0, CreatedFile DEF ListInv
  <2>2. list'[1] \in Ids /\ list'[Len(list')] \in Ids /\ list'[1] <= list'[Len(list')]
    <3>1. list' \in Seq(Ids) /\ list' # <<>> /\ Existing' = list'[1] .. list'[Len(list')] /\ NewId \in Existing'
      BY <1>0, <1>4, CreatedFile
    <3>2. list'[1] \in Ids /\ list'[Len(list')] \in Ids
      BY <3>1
    <3> QED
      BY <3>1, <3>2, DiskAssumption DEF Ids
  <2> QED
    BY <1>0, <2>1, <2>2, CreatedFile DEF FilesInv
<1>8. LinesInv'
  <2>1. /\ logs'[NewId] = EmptyLog /\ \A i \in Existing : logs'[i] = logs[i]
        /\ Existing' = Existing \cup {NewId}
    BY <1>0, CreatedFile
  <2>2. \A i \in Existing : logs[i] \in Clean
    BY <1>0, <1>3 DEF LinesInv
  <2>3. \A i \in Existing' : logs'[i] \in Clean
    BY <2>1, <2>2, DataIsLog
  <2>4. \A i \in Existing' : Lines(i)' \in Clean
    BY <1>3, <2>3
  <2> QED
    BY <2>4 DEF LinesInv
<1>9. DataInv'
  <2>1. ~At("resetter", "unlink") /\ \A w \in Writers : ~At(w, "apply")
    BY <1>0, <1>1, <1>2, Callers DEF Passive, At
  <2> QED
    BY <1>0, <1>6, <2>1 DEF DataInv
<1>10. ASSUME NEW s \in Savers \ {p}, call[s].pc \in {"writing", "relock"}
       PROVE  SnapInv(s)'
  <2>1. p \notin Savers
    BY <1>0, <1>10 DEF SaversInv, At
  <2>2. /\ call'[s] = call[s] /\ call'["resetter"] = call["resetter"]
        /\ Snapshotted(s)' = Snapshotted(s) /\ savepointVersion' = savepointVersion
    BY <1>0, <2>1, Callers DEF OnlyCall, Snapshotted, At
  <2>3. SnapInv(s)
    BY <1>10, Callers DEF DiskInv, CallInv, SaverInv
  <2> SUFFICES ASSUME call[s].own = savepointVersion, ~At("resetter", "unlink")
               PROVE  /\ call[s].id \in Existing'
                      /\ Covers(Snapshotted(s), call[s].id, BaseData', Existing', Kept')
    BY <2>2 DEF SnapInv, At
  <2>4. call[s].id \in Existing /\ Covers(Snapshotted(s), call[s].id, BaseData, Existing, Kept)
    BY <2>3 DEF SnapInv
  <2> QED
    BY <1>4, <1>5, <2>4, CoversCreated
<1>11. ResetInv' /\ \A q \in Procs : CallInv(q)'
  BY <1>0, <1>1, <1>10, LockedFrame
<1> QED
  BY <1>6, <1>7, <1>8, <1>9, <1>11 DEF DiskInv

\* A write() that gets the mutex has a delta file to append to, or throws because the persistence is not ready.
LEMMA WriteLockedKeeps ==
  ASSUME DiskInv, NEW w \in Writers, WriteLocked(w)
  PROVE  /\ DiskInv' /\ Stored' = Stored
         /\ Moves(w, "stat") \/ Returns(w)
<1>0. /\ TypeOK /\ Control /\ DownInv /\ ListInv /\ w \in Procs /\ w \notin Savers /\ w \notin Readers
      /\ w # "resetter"
  BY Callers DEF DiskInv, Control
<1>1. /\ At(w, "lock") /\ Holds(w) /\ status # "down"
      /\ dataFile' = dataFile /\ tempFile' = tempFile /\ status' = status /\ dirty' = dirty
      /\ data' = data /\ isInitialized' = isInitialized /\ version' = version
      /\ isSavepoint' = isSavepoint /\ savepointVersion' = savepointVersion
      /\ UNCHANGED counters
  BY <1>0, BusyIsUp DEF WriteLocked, At, memory, saving
<1>2. OnlyCall(w) => (At("resetter", "unlink")' <=> At("resetter", "unlink"))
  BY <1>0, Callers DEF OnlyCall, At
<1>3. CASE status = "ready"
  <2>1. Goto(w, "stat") /\ queue' = queue /\ (IF list = <<>> THEN CreateDelta ELSE UNCHANGED <<list, logs>>)
    BY <1>3 DEF WriteLocked
  <2>2. Moves(w, "stat") /\ OnlyCall(w) /\ call'[w].pc = "stat"
    BY <1>0, <2>1, GotoMoves DEF Moves, Steps, TypeOK
  <2>3. Control'
    <3>1. "stat" \in StepsOf(w) /\ ~At(w, "idle")
      BY <1>0, <1>1 DEF StepsOf, At
    <3> QED
      BY <1>0, <1>1, <2>1, <2>2, <3>1, ControlKept DEF TypeOK
  <2>4. CASE list = <<>>
    <3>1. CreateDelta
      BY <2>1, <2>4
    <3>2. TypeOK'
      BY <1>0, <1>1, <2>1, <2>2, <3>1, CreatedFile DEF TypeOK, OnlyCall, counters, Ids
    <3>3. CallInv(w)'
      BY <1>0, <1>1, <2>2, <3>1, CreatedFile DEF CallInv, WriterInv, LoadInv, Loading
    <3>4. DiskInv' /\ Content' = Content
      BY <1>0, <1>1, <2>2, <2>3, <3>1, <3>2, <3>3, CreateKeeps DEF At
    <3> QED
      BY <1>0, <1>2, <2>2, <3>4, StoredSame
  <2>5. CASE list # <<>>
    <3>1. list' = list /\ logs' = logs
      BY <2>1, <2>5
    <3>2. TypeOK'
      BY <1>0, <1>1, <2>1, <2>2, <3>1 DEF TypeOK, OnlyCall, counters
    <3>3. CallInv(w)'
      BY <1>0, <1>1, <2>2, <2>5, <3>1 DEF CallInv, WriterInv, LoadInv, Loading
    <3>4. LeavesFiles(w)
      <4>1. ~Refuses(call[w]) /\ ~Refuses(call'[w]) /\ ~At(w, "apply")
        BY <1>1, <2>2 DEF At, Refuses
      <4> QED
        BY <1>1, <1>2, <2>2, <3>1, <4>1 DEF LeavesFiles
    <3>5. DiskInv' /\ Content' = Content
      BY <1>0, <2>3, <3>2, <3>3, <3>4, QuietStep
    <3> QED
      BY <1>0, <1>2, <2>2, <3>5, StoredSame
  <2> QED
    BY <2>4, <2>5
<1>4. CASE status # "ready"
  <2>1. Return(w) /\ queue' = Tail(queue) /\ list' = list /\ logs' = logs
    BY <1>4 DEF WriteLocked, Release
  <2>2. Returns(w) /\ OnlyCall(w) /\ call'[w].pc = "idle"
    BY <1>0, <2>1, ReturnReturns, NoCallIsCall DEF Returns, TypeOK
  <2>3. Control'
    <3>1. "idle" \in StepsOf(w) /\ "idle" \in Passive /\ ~At(w, "idle")
      BY <1>0, <1>1 DEF StepsOf, At, Passive
    <3> QED
      BY <1>0, <1>1, <2>1, <2>2, <3>1, ControlKept DEF TypeOK
  <2>4. TypeOK'
    BY <1>0, <1>1, <2>1, <2>2, QueueMoves DEF TypeOK, OnlyCall, counters
  <2>5. CallInv(w)'
    BY <1>0, <2>2 DEF CallInv, WriterInv, LoadInv, Loading
  <2>6. LeavesFiles(w)
    <3>1. ~Refuses(call[w]) /\ ~Refuses(call'[w]) /\ ~At(w, "apply")
      BY <1>1, <2>2 DEF At, Refuses
    <3> QED
      BY <1>1, <1>2, <2>1, <2>2, <3>1 DEF LeavesFiles
  <2>7. DiskInv' /\ Content' = Content
    BY <1>0, <2>3, <2>4, <2>5, <2>6, QuietStep
  <2> QED
    BY <1>0, <1>2, <2>2, <2>7, StoredSame
<1> QED
  BY <1>3, <1>4

\* A write() takes the newest delta file, or a new one, and loads the data if nobody did.
LEMMA WriteStatKeeps ==
  ASSUME DiskInv, NEW w \in Writers, WriteStat(w)
  PROVE  /\ DiskInv' /\ Stored' = Stored
         /\ OnlyCall(w) /\ call'[w].key = call[w].key /\ call'[w].val = call[w].val
         /\ At(w, "stat") /\ call'[w].pc \in {"append", "read"}
<1>0. /\ TypeOK /\ Control /\ DownInv /\ LockedInv /\ ListInv /\ WriterInv(w)
      /\ w \in Procs /\ w \notin Savers /\ w \notin Readers /\ w # "resetter"
  BY Callers DEF DiskInv, Control, CallInv
<1>1. /\ At(w, "stat") /\ status # "down" /\ list # <<>>
      /\ dataFile' = dataFile /\ tempFile' = tempFile /\ status' = status /\ dirty' = dirty
      /\ data' = data /\ isInitialized' = isInitialized /\ version' = version /\ queue' = queue
      /\ isSavepoint' = isSavepoint /\ savepointVersion' = savepointVersion
      /\ UNCHANGED counters
  BY <1>0, BusyIsUp DEF WriteStat, At, memory, saving, WriterInv
<1>2. Holds(w)
  BY <1>0, <1>1 DEF LockedInv, At, Passive
<1>3. CreateDelta \/ (list' = list /\ logs' = logs)
  BY DEF WriteStat
<1>4. list' # <<>> /\ list'[Len(list')] \in Ids
  <2>1. CASE CreateDelta
    BY <1>0, <1>1, <2>1, CreatedFile
  <2>2. CASE list' = list /\ logs' = logs
    BY <1>0, <1>1, <2>2, ListFacts
  <2> QED
    BY <1>3, <2>1, <2>2
<1>5. /\ OnlyCall(w) /\ call'[w].id = list'[Len(list')]
      /\ call'[w].pc = IF isInitialized THEN "append" ELSE "read"
      /\ call'[w].key = call[w].key /\ call'[w].val = call[w].val
  <2> DEFINE d == [call[w] EXCEPT !.pc = Get(w), !.id = list'[Len(list')]]
  <2>1. Get(w) = IF isInitialized THEN "append" ELSE "read"
    BY DEF Get, AfterGet
  <2>2. /\ d \in Call /\ d.pc = Get(w) /\ d.id = list'[Len(list')]
        /\ d.key = call[w].key /\ d.val = call[w].val
    <3>1. call[w] \in Call
      BY <1>0 DEF TypeOK
    <3>2. Get(w) \in Steps
      BY <2>1 DEF Steps
    <3> QED
      BY <1>4, <3>1, <3>2 DEF Call, Ids
  <2>3. call' = [call EXCEPT ![w] = d]
    BY DEF WriteStat
  <2> HIDE DEF d
  <2> QED
    BY <1>0, <2>1, <2>2, <2>3, CallBecomes DEF TypeOK
<1>6. At("resetter", "unlink")' <=> At("resetter", "unlink")
  BY <1>0, <1>5, Callers DEF OnlyCall, At
<1>7. Control'
  <2>1. call'[w].pc \in StepsOf(w) /\ ~At(w, "idle")
    BY <1>0, <1>1, <1>5 DEF StepsOf, At, Loading
  <2> QED
    BY <1>0, <1>1, <1>2, <1>5, <2>1, ControlKept DEF TypeOK
<1>8. CallInv(w)'
  BY <1>0, <1>1, <1>4, <1>5 DEF CallInv, WriterInv, LoadInv, Loading
<1>9. CASE CreateDelta
  <2>1. TypeOK'
    BY <1>0, <1>1, <1>5, <1>9, CreatedFile DEF TypeOK, OnlyCall, counters, Ids
  <2>2. call[w].pc \in {"lock", "stat"} /\ call'[w].pc \notin {"apply", "truncate"}
    BY <1>1, <1>5 DEF At
  <2>3. DiskInv' /\ Content' = Content
    BY <1>0, <1>1, <1>2, <1>5, <1>7, <1>8, <1>9, <2>1, <2>2, CreateKeeps
  <2> QED
    BY <1>0, <1>1, <1>5, <1>6, <2>3, StoredSame
<1>10. CASE list' = list /\ logs' = logs
  <2>1. TypeOK'
    BY <1>0, <1>1, <1>5, <1>10 DEF TypeOK, OnlyCall, counters
  <2>2. LeavesFiles(w)
    <3>1. ~Refuses(call[w]) /\ ~Refuses(call'[w]) /\ ~At(w, "apply")
      BY <1>1, <1>5 DEF At, Refuses
    <3> QED
      BY <1>0, <1>1, <1>5, <1>6, <1>10, <3>1 DEF LeavesFiles
  <2>3. DiskInv' /\ Content' = Content
    BY <1>0, <1>7, <1>8, <2>1, <2>2, QuietStep
  <2> QED
    BY <1>0, <1>1, <1>5, <1>6, <2>3, StoredSame
<1> QED
  BY <1>3, <1>9, <1>10

\* Every delta file is the newest one, or before it: the one a writer appends to.
LEMMA WritersFile ==
  ASSUME DiskInv, NEW w \in Writers, call[w].pc \in {"append", "apply", "truncate"}
  PROVE  /\ status # "down" /\ Holds(w) /\ isInitialized /\ call[w].id \in Existing
         /\ \A i \in Existing : i <= call[w].id
         /\ \A q \in Procs \ {w} : call[q].pc \in Passive
         /\ ~At("resetter", "unlink")
         /\ \A i : i # call[w].id => Lines(i) = logs[i]
<1>0. /\ TypeOK /\ DownInv /\ LockedInv /\ ListInv /\ WriterInv(w)
      /\ w \in Procs /\ w \notin Readers /\ w # "resetter"
  BY Callers DEF DiskInv, Control, CallInv
<1>1. status # "down" /\ ~At(w, "idle") /\ Holds(w)
  BY <1>0, BusyIsUp DEF At, LockedInv, Passive
<1>2. list # <<>> /\ call[w].id = list[Len(list)] /\ isInitialized
  BY <1>0 DEF WriterInv
<1>3. call[w].id \in Existing /\ \A i \in Existing : i <= call[w].id
  BY <1>0, <1>1, <1>2, ListFacts
<1>4. \A q \in Procs \ {w} : call[q].pc \in Passive
  BY <1>0, <1>1, OthersPassive
<1>5. ~At("resetter", "unlink")
  BY <1>0, <1>4, Callers DEF At, Passive
<1>6. ASSUME NEW i, i # call[w].id PROVE Lines(i) = logs[i]
  <2>1. Undone(i) = {}
    BY <1>4, <1>6, Callers DEF Undone, Passive
  <2> QED
    BY <2>1 DEF Lines
<1> QED
  BY <1>1, <1>2, <1>3, <1>4, <1>5, <1>6

\* What the data of another savepoint covers stays covered when the replay of it does.
LEMMA SnapKept ==
  ASSUME DiskInv, NEW p \in Procs \ {"resetter"}, NEW s \in Savers \ {p}, OnlyCall(p),
         call[s].pc \in {"writing", "relock"},
         tempFile' = tempFile, savepointVersion' = savepointVersion,
         Existing \subseteq Existing',
         \A c : \A id \in Existing : Covers(c, id, BaseData, Existing, Kept)
                                      => Covers(c, id, BaseData', Existing', Kept')
  PROVE  SnapInv(s)'
<1>1. call'[s] = call[s] /\ call'["resetter"] = call["resetter"] /\ s \in Procs
  BY Callers DEF OnlyCall
<1>2. Snapshotted(s)' = Snapshotted(s)
  BY <1>1 DEF Snapshotted, At
<1>3. SnapInv(s)
  BY <1>1 DEF DiskInv, CallInv, SaverInv
<1> SUFFICES ASSUME call[s].own = savepointVersion, ~At("resetter", "unlink")
             PROVE  /\ call[s].id \in Existing'
                    /\ Covers(Snapshotted(s), call[s].id, BaseData', Existing', Kept')
  BY <1>1, <1>2 DEF SnapInv, At
<1>4. call[s].id \in Existing /\ Covers(Snapshotted(s), call[s].id, BaseData, Existing, Kept)
  BY <1>3 DEF SnapInv
<1> QED
  BY <1>4

\* A step of a writer that changes its delta file, but no line that stays.
LEMMA SameLinesStep ==
  ASSUME DiskInv, NEW w \in Writers, OnlyCall(w), call[w].pc \in {"append", "apply", "truncate"},
         list' = list, status' = status, dataFile' = dataFile, tempFile' = tempFile,
         savepointVersion' = savepointVersion,
         Existing' = Existing, \A i \in Existing : Lines(i)' = Lines(i)
  PROVE  /\ dataFile' # Torn /\ FilesInv' /\ ListInv' /\ LinesInv' /\ ResetInv'
         /\ Content' = Content /\ \A q \in Procs \ {w} : CallInv(q)'
<1>0. /\ TypeOK /\ LockedInv /\ FilesInv /\ ListInv /\ LinesInv /\ dataFile # Torn
      /\ w \in Procs /\ w # "resetter" /\ w \notin Savers /\ savepointVersion \in Nat
  BY Callers DEF DiskInv, Control, TypeOK
<1>1. status # "down" /\ \A q \in Procs \ {w} : call[q].pc \in Passive
  BY WritersFile
<1>2. BaseData' = BaseData /\ Existing \subseteq Ids /\ \A i \in Existing : Kept'[i] = Kept[i]
  <2>1. Existing' \subseteq Ids
    BY ExistingIdsNext
  <2> QED
    BY <2>1, ExistingIds, ExistingIdsNext DEF BaseData
<1>3. Content' = Content
  BY <1>2, ReplayOfSame DEF Content
<1>4. FilesInv' /\ ListInv' /\ LinesInv'
  BY <1>0 DEF FilesInv, ListInv, LinesInv
<1>5. \A c : \A id \in Existing : Covers(c, id, BaseData, Existing, Kept)
                                    => Covers(c, id, BaseData', Existing', Kept')
  BY <1>2, CoversSame
<1>6. \A s \in Savers \ {w} : call[s].pc \in {"writing", "relock"} => SnapInv(s)'
  BY <1>0, <1>5, SnapKept
<1>7. ResetInv' /\ \A q \in Procs \ {w} : CallInv(q)'
  BY <1>0, <1>1, <1>6, LockedFrame
<1> QED
  BY <1>0, <1>3, <1>4, <1>7

\* A write() takes effect when its line is appended, unless the operation will refuse the value.
LEMMA AppendDeltaKeeps ==
  ASSUME DiskInv, NEW w \in Writers, AppendDelta(w)
  PROVE  /\ DiskInv'
         /\ Stored' = IF call[w].val = Bad THEN Stored ELSE [Stored EXCEPT ![call[w].key] = call[w].val]
         /\ OnlyCall(w) /\ call'[w].key = call[w].key /\ call'[w].val = call[w].val
         /\ At(w, "append") /\ call'[w].pc = "apply"
<1> DEFINE m == call[w].id
           key == call[w].key
           val == call[w].val
<1>0. /\ TypeOK /\ Control /\ LockedInv /\ ListInv /\ LinesInv /\ DataInv /\ FilesInv /\ WriterInv(w)
      /\ dataFile # Torn /\ w \in Procs /\ w \notin Savers /\ w \notin Readers /\ w # "resetter"
      /\ savepointVersion \in Nat
  BY Callers DEF DiskInv, Control, CallInv, TypeOK
<1>1. /\ At(w, "append") /\ dataFile' = dataFile /\ tempFile' = tempFile /\ status' = status
      /\ queue' = queue /\ list' = list /\ dirty' = dirty /\ data' = data
      /\ isInitialized' = isInitialized /\ version' = version
      /\ isSavepoint' = isSavepoint /\ savepointVersion' = savepointVersion
      /\ UNCHANGED counters
      /\ logs' = [logs EXCEPT ![m] = [logs[m] EXCEPT ![key] = val]]
  BY DEF AppendDelta, At, delta, memory, saving
<1>2. /\ status # "down" /\ Holds(w) /\ isInitialized /\ m \in Existing
      /\ (\A i \in Existing : i <= m) /\ (\A q \in Procs \ {w} : call[q].pc \in Passive)
      /\ ~At("resetter", "unlink")
  BY <1>1, WritersFile DEF At
<1>3. /\ m \in Ids /\ logs[m] \in Log /\ key \in Keys /\ val \in Vals \cup {Absent, Bad}
      /\ val # NoOp
  <2>1. call[w] \in Call
    BY <1>0 DEF TypeOK
  <2>2. logs[m] # NoFile /\ m \in Ids /\ logs \in [Ids -> Log \cup {NoFile}]
    BY <1>0, <1>2 DEF Existing, TypeOK, Ids
  <2> QED
    BY <2>1, <2>2, DiskAssumption DEF Call
<1>4. /\ OnlyCall(w) /\ call'[w].id = m /\ call'[w].pc = "apply" /\ call'[w].before = logs[m]
      /\ call'[w].key = key /\ call'[w].val = val
  <2> DEFINE d == [call[w] EXCEPT !.pc = "apply", !.before = logs[m]]
  <2>1. /\ d \in Call /\ d.pc = "apply" /\ d.id = m /\ d.before = logs[m]
        /\ d.key = key /\ d.val = val
    <3>1. call[w] \in Call
      BY <1>0 DEF TypeOK
    <3> QED
      BY <1>3, <3>1 DEF Call, Steps
  <2>2. call' = [call EXCEPT ![w] = d]
    BY DEF AppendDelta
  <2> HIDE DEF d
  <2> QED
    BY <1>0, <2>1, <2>2, CallBecomes DEF TypeOK
<1> HIDE DEF m, key, val
<1>5. /\ logs' \in [Ids -> Log \cup {NoFile}] /\ logs'[m] = [logs[m] EXCEPT ![key] = val]
      /\ \A i \in Ids \ {m} : logs'[i] = logs[i]
  <2>1. [logs[m] EXCEPT ![key] = val] \in Log
    BY <1>3 DEF Log
  <2> QED
    BY <1>0, <1>1, <1>3, <2>1 DEF TypeOK, Ids
<1>6. Existing' = Existing
  <2>1. logs'[m] # NoFile
    BY <1>3, <1>5, DiskAssumption DEF Log
  <2> QED
    BY <1>2, <1>5, <2>1 DEF Existing, Ids
<1>7. \A i : Lines(i) = logs[i]
  <2>1. \A q \in Writers : call[q].pc \notin {"apply", "truncate"}
    BY <1>1, <1>2, Callers DEF At, Passive
  <2> QED
    BY <2>1, QuietLines
<1>8. TypeOK'
  BY <1>0, <1>1, <1>4, <1>5 DEF TypeOK, OnlyCall, counters, Ids
<1>9. Control'
  <2>1. "apply" \in StepsOf(w) /\ ~At(w, "idle")
    BY <1>0, <1>1 DEF StepsOf, At
  <2> QED
    BY <1>0, <1>1, <1>2, <1>4, <2>1, ControlKept DEF TypeOK
<1>10. CallInv(w)'
  <2>1. logs[m] \in Clean
    BY <1>0, <1>2, <1>7 DEF LinesInv
  <2>2. list # <<>> /\ m = list[Len(list)]
    BY <1>0, <1>1 DEF WriterInv, At, m
  <2> QED
    BY <1>0, <1>1, <1>2, <1>4, <1>5, <2>1, <2>2 DEF CallInv, WriterInv, LoadInv, Loading
<1>11. At("resetter", "unlink")' <=> At("resetter", "unlink")
  BY <1>0, <1>4, Callers DEF OnlyCall, At
<1>12. \A k \in Keys : data[k] = Content[k]
  <2>1. \A q \in Writers : ~At(q, "apply")
    BY <1>1, <1>2, Callers DEF At, Passive
  <2> QED
    BY <1>0, <1>2, <2>1 DEF DataInv
<1>13. CASE val = Bad
  <2>1. ASSUME NEW i \in Existing PROVE Lines(i)' = Lines(i)
    <3>1. \A q \in Writers \ {w} : call'[q].pc \in Passive
      BY <1>2, <1>4, Callers DEF OnlyCall
    <3>2. CASE i = m
      <4>1. Undone(i)' = {w}
        BY <1>4, <1>13, <3>1, <3>2 DEF Undone, Passive, val
      <4>2. Lines(i)' = call'[w].before
        BY <4>1 DEF Lines
      <4> QED
        BY <1>4, <1>7, <3>2, <4>2
    <3>3. CASE i # m
      <4>1. Undone(i)' = {}
        BY <1>4, <3>1, <3>3 DEF Undone, Passive
      <4>2. Lines(i)' = logs'[i]
        BY <4>1 DEF Lines
      <4> QED
        BY <1>5, <1>7, <3>3, <4>2, ExistingIds
    <3> QED
      BY <3>2, <3>3
  <2>2. /\ dataFile' # Torn /\ FilesInv' /\ ListInv' /\ LinesInv' /\ ResetInv'
        /\ Content' = Content /\ \A q \in Procs \ {w} : CallInv(q)'
    BY <1>1, <1>4, <1>6, <2>1, SameLinesStep DEF At
  <2>3. DataInv'
    BY <1>1, <1>12, <2>2 DEF DataInv
  <2>4. DiskInv'
    BY <1>8, <1>9, <1>10, <2>2, <2>3 DEF DiskInv
  <2>5. Stored' = Stored
    BY <1>0, <1>4, <1>11, <2>2, StoredSame
  <2> QED
    BY <1>1, <1>4, <1>13, <2>4, <2>5 DEF val, key
<1>14. CASE val # Bad
  <2>1. \A i : Lines(i)' = logs'[i]
    <3>1. ASSUME NEW i PROVE Lines(i)' = logs'[i]
      <4>1. Undone(i)' = {}
        BY <1>2, <1>4, <1>14, Callers DEF Undone, OnlyCall, Passive
      <4> QED
        BY <4>1 DEF Lines
    <3> QED
      BY <3>1
  <2>2. /\ Existing \subseteq Ids /\ BaseData' = BaseData
        /\ \A i \in Ids : Kept[i] = logs[i] /\ Kept'[i] = logs'[i]
    BY <1>1, <1>7, <2>1, ExistingIds, ExistingIdsNext DEF BaseData
  <2>3. /\ \A i \in Existing \ {m} : Kept'[i] = Kept[i]
        /\ Kept'[m][key] = val /\ \A k \in Keys \ {key} : Kept'[m][k] = Kept[m][k]
    BY <1>3, <1>5, <2>2 DEF Log
  <2>4. \A k \in Keys : Content'[k] = IF k = key THEN val ELSE Content[k]
    <3> DEFINE B == BaseData
              S == Existing
              L == Kept
              L2 == Kept'
    <3>1. Content = Replayed(B, S, L) /\ Content' = Replayed(B, S, L2)
      BY <1>6, <2>2 DEF Content
    <3>2. S \in SUBSET Ids /\ m \in S /\ key \in Keys /\ L2[m][key] = val /\ L2[m][key] # NoOp
      BY <1>2, <1>3, <2>2, <2>3
    <3>3. \A i \in S : i <= m
      BY <1>2
    <3>4. \A k \in Keys \ {key} : \A i \in S : L2[i][k] = L[i][k]
      BY <2>3
    <3> HIDE DEF B, S, L, L2
    <3>5. Replayed(B, S, L2)[key] = val
      BY <3>2, <3>3, ReplayOfAppended, SMTT(30)
    <3>6. ASSUME NEW k \in Keys \ {key}
          PROVE  Replayed(B, S, L2)[k] = Replayed(B, S, L)[k]
      BY <3>2, <3>4, ReplayOfOtherKey
    <3> QED
      BY <3>1, <3>5, <3>6
  <2>5. LinesInv'
    <3>1. \A i \in Existing : logs[i] \in Clean
      BY <1>0, <1>7 DEF LinesInv
    <3>2. logs'[m] \in Clean
      BY <1>2, <1>3, <1>5, <1>14, <3>1 DEF Clean
    <3>3. \A i \in Existing : logs'[i] \in Clean
      BY <1>5, <2>2, <3>1, <3>2
    <3> QED
      BY <1>6, <2>1, <3>3 DEF LinesInv
  <2>6. FilesInv' /\ ListInv'
    BY <1>0, <1>1, <1>6 DEF FilesInv, ListInv
  <2>7. DataInv'
    <3>1. At(w, "apply")' /\ call'[w].key = key /\ call'[w].val = val
      BY <1>4 DEF At
    <3>2. \A k \in Keys : IF k = key THEN call'[w].val = Content'[k] ELSE data'[k] = Content'[k]
      BY <1>1, <1>12, <2>4, <3>1
    <3> QED
      BY <3>1, <3>2 DEF DataInv
  <2>8. \A c : \A id \in Existing : Covers(c, id, BaseData, Existing, Kept)
                                      => Covers(c, id, BaseData', Existing', Kept')
    BY <1>2, <1>3, <1>6, <2>2, <2>3, CoversAppended
  <2>9. \A s \in Savers \ {w} : call[s].pc \in {"writing", "relock"} => SnapInv(s)'
    BY <1>0, <1>1, <1>4, <1>6, <2>8, SnapKept
  <2>10. ResetInv' /\ \A q \in Procs \ {w} : CallInv(q)'
    BY <1>0, <1>1, <1>2, <1>4, <2>9, LockedFrame
  <2>11. DiskInv'
    BY <1>0, <1>1, <1>8, <1>9, <1>10, <2>5, <2>6, <2>7, <2>10 DEF DiskInv
  <2>12. Stored' = [Stored EXCEPT ![key] = val]
    <3>1. Stored = Content /\ Stored' = Content'
      BY <1>2, <1>11, StoredIs, StoredIsNext
    <3>2. Content = [k \in Keys |-> Content[k]] /\ Content' = [k \in Keys |-> Content'[k]]
      BY ReplayedIsFunction DEF Content
    <3> QED
      BY <2>4, <3>1, <3>2
  <2> QED
    BY <1>1, <1>4, <1>14, <2>11, <2>12 DEF val, key
<1> QED
  BY <1>13, <1>14

\* The line of an operation that was not refused is what the files stand for.
LEMMA ApplyKeeps ==
  ASSUME DiskInv, NEW w \in Writers, Apply(w)
  PROVE  /\ DiskInv' /\ Stored' = Stored /\ At(w, "apply")
         /\ IF call[w].val = Bad THEN Moves(w, "truncate") ELSE Returns(w)
<1>0. /\ TypeOK /\ Control /\ WriterInv(w) /\ DataInv
      /\ w \in Procs /\ w \notin Savers /\ w \notin Readers /\ w # "resetter"
  BY Callers DEF DiskInv, Control, CallInv
<1>1. /\ At(w, "apply") /\ dataFile' = dataFile /\ tempFile' = tempFile /\ logs' = logs
      /\ status' = status /\ list' = list /\ isInitialized' = isInitialized
      /\ isSavepoint' = isSavepoint /\ savepointVersion' = savepointVersion
      /\ UNCHANGED counters
  BY DEF Apply, files, saving
<1>2. /\ status # "down" /\ Holds(w) /\ isInitialized /\ call[w].id \in Existing
      /\ (\A i \in Existing : i <= call[w].id) /\ (\A q \in Procs \ {w} : call[q].pc \in Passive)
      /\ ~At("resetter", "unlink") /\ \A i : i # call[w].id => Lines(i) = logs[i]
  BY <1>1, WritersFile DEF At
<1>3. OnlyCall(w) => (At("resetter", "unlink")' <=> At("resetter", "unlink"))
  BY <1>0, Callers DEF OnlyCall, At
<1>4. call[w].key \in Keys /\ call[w].val \in Vals \cup {Absent, Bad} /\ call[w].val # NoOp
  <2>1. call[w] \in Call
    BY <1>0 DEF TypeOK
  <2> QED
    BY <2>1, DiskAssumption DEF Call
<1>5. CASE call[w].val # Bad
  <2>1. /\ data' = [data EXCEPT ![call[w].key] = call[w].val] /\ version' = version + 1
        /\ dirty' = TRUE /\ queue' = Tail(queue) /\ Return(w)
    BY <1>5 DEF Apply, Release
  <2>2. Returns(w) /\ OnlyCall(w) /\ call'[w].pc = "idle"
    BY <1>0, <2>1, ReturnReturns, NoCallIsCall DEF Returns, TypeOK
  <2>3. TypeOK'
    <3>1. data' \in Data
      BY <1>0, <1>4, <1>5, <2>1 DEF TypeOK, Data
    <3> QED
      BY <1>0, <1>1, <1>2, <2>1, <2>2, <3>1, QueueMoves DEF TypeOK, OnlyCall, counters
  <2>4. Control'
    <3>1. "idle" \in StepsOf(w) /\ "idle" \in Passive /\ ~At(w, "idle")
      BY <1>0, <1>1 DEF StepsOf, At, Passive
    <3> QED
      BY <1>0, <1>1, <1>2, <2>1, <2>2, <3>1, ControlKept DEF TypeOK
  <2>5. CallInv(w)'
    BY <1>0, <2>2 DEF CallInv, WriterInv, LoadInv, Loading
  <2>6. ~Refuses(call[w]) /\ ~Refuses(call'[w])
    BY <1>5, <2>2 DEF Refuses
  <2>7. \A i : Lines(i)' = Lines(i)
    BY <1>0, <1>1, <2>2, <2>6, LinesSame
  <2>8. Existing' = Existing
    BY <1>1 DEF Existing
  <2>9. /\ dataFile' # Torn /\ FilesInv' /\ ListInv' /\ LinesInv' /\ ResetInv'
        /\ Content' = Content /\ \A q \in Procs \ {w} : CallInv(q)'
    BY <1>1, <2>2, <2>7, <2>8, SameLinesStep DEF At
  <2>10. Content[call[w].key] = call[w].val
    <3>1. Undone(call[w].id) = {}
      BY <1>2, <1>5, Callers DEF Undone, Passive
    <3>2. Lines(call[w].id) = logs[call[w].id]
      BY <3>1 DEF Lines
    <3>3. logs[call[w].id] = [call[w].before EXCEPT ![call[w].key] = call[w].val]
          /\ call[w].before \in Clean
      BY <1>0, <1>1 DEF WriterInv, At
    <3>4. Kept[call[w].id][call[w].key] = call[w].val /\ Existing \subseteq Ids
      BY <1>2, <1>4, <3>2, <3>3, ExistingIds DEF Clean
    <3> QED
      BY <1>2, <1>4, <3>4, ReplayOfAppended DEF Content
  <2>11. DataInv'
    <3>1. ASSUME NEW k \in Keys PROVE data'[k] = Content[k]
      <4>1. CASE k = call[w].key
        BY <1>0, <1>4, <2>1, <2>10, <4>1 DEF TypeOK, Data
      <4>2. CASE k # call[w].key
        <5>1. data'[k] = data[k]
          BY <1>0, <2>1, <4>2 DEF TypeOK, Data
        <5>2. \A q \in Writers : ~(At(q, "apply") /\ call[q].key = k)
          BY <1>2, <4>2, Callers DEF At, Passive
        <5> QED
          BY <1>0, <1>2, <5>1, <5>2 DEF DataInv
      <4> QED
        BY <4>1, <4>2
    <3> QED
      BY <2>9, <3>1 DEF DataInv
  <2>12. DiskInv'
    BY <2>3, <2>4, <2>5, <2>9, <2>11 DEF DiskInv
  <2> QED
    BY <1>0, <1>1, <1>3, <1>5, <2>2, <2>9, <2>12, StoredSame
<1>6. CASE call[w].val = Bad
  <2>1. Goto(w, "truncate") /\ data' = data /\ version' = version /\ dirty' = dirty /\ queue' = queue
    BY <1>6 DEF Apply
  <2>2. Moves(w, "truncate") /\ OnlyCall(w) /\ call'[w].pc = "truncate"
    BY <1>0, <2>1, GotoMoves DEF Moves, Steps, TypeOK
  <2>3. TypeOK'
    BY <1>0, <1>1, <2>1, <2>2 DEF TypeOK, OnlyCall, counters
  <2>4. Control'
    <3>1. "truncate" \in StepsOf(w) /\ ~At(w, "idle")
      BY <1>0, <1>1 DEF StepsOf, At
    <3> QED
      BY <1>0, <1>1, <1>2, <2>1, <2>2, <3>1, ControlKept DEF TypeOK
  <2>5. CallInv(w)'
    BY <1>0, <1>1, <1>6, <2>2 DEF CallInv, WriterInv, LoadInv, Loading, At, Moves, SameButPc
  <2>6. LeavesFiles(w)
    <3>1. Refuses(call[w]) /\ Refuses(call'[w])
      BY <1>1, <1>6, <2>2 DEF At, Refuses, Moves, SameButPc
    <3> QED
      BY <1>0, <1>1, <1>2, <1>3, <1>6, <2>1, <2>2, <3>1 DEF LeavesFiles, Moves, SameButPc
  <2>7. DiskInv' /\ Content' = Content
    BY <1>0, <2>3, <2>4, <2>5, <2>6, QuietStep
  <2> QED
    BY <1>0, <1>1, <1>3, <1>6, <2>2, <2>7, StoredSame
<1> QED
  BY <1>5, <1>6

\* A refused write() cuts its line off the delta file again.
LEMMA TruncateKeeps ==
  ASSUME DiskInv, NEW w \in Writers, Truncate(w)
  PROVE  /\ DiskInv' /\ Stored' = Stored
         /\ At(w, "truncate") /\ Returns(w)
<1>0. /\ TypeOK /\ Control /\ WriterInv(w) /\ DataInv
      /\ w \in Procs /\ w \notin Savers /\ w \notin Readers /\ w # "resetter"
  BY Callers DEF DiskInv, Control, CallInv
<1>1. /\ At(w, "truncate") /\ dataFile' = dataFile /\ tempFile' = tempFile
      /\ status' = status /\ list' = list /\ isInitialized' = isInitialized /\ dirty' = dirty
      /\ data' = data /\ version' = version
      /\ isSavepoint' = isSavepoint /\ savepointVersion' = savepointVersion
      /\ UNCHANGED counters
      /\ logs' = [logs EXCEPT ![call[w].id] = call[w].before] /\ queue' = Tail(queue) /\ Return(w)
  BY DEF Truncate, delta, memory, saving, Release
<1>2. /\ status # "down" /\ Holds(w) /\ isInitialized /\ call[w].id \in Existing
      /\ (\A q \in Procs \ {w} : call[q].pc \in Passive)
      /\ ~At("resetter", "unlink") /\ \A i : i # call[w].id => Lines(i) = logs[i]
  BY <1>1, WritersFile DEF At
<1>3. Returns(w) /\ OnlyCall(w) /\ call'[w].pc = "idle"
  BY <1>0, <1>1, ReturnReturns, NoCallIsCall DEF Returns, TypeOK
<1>4. At("resetter", "unlink")' <=> At("resetter", "unlink")
  BY <1>0, <1>3, Callers DEF OnlyCall, At
<1>5. call[w].before \in Clean /\ call[w].val = Bad /\ call[w].id \in Ids
  BY <1>0, <1>1, <1>2, ExistingIds DEF WriterInv, At
<1>6. /\ logs' \in [Ids -> Log \cup {NoFile}] /\ logs'[call[w].id] = call[w].before
      /\ \A i \in Ids \ {call[w].id} : logs'[i] = logs[i]
  BY <1>0, <1>1, <1>5, DataIsLog DEF TypeOK, Ids
<1>7. Existing' = Existing
  <2>1. logs'[call[w].id] # NoFile
    BY <1>5, <1>6, DataIsLog, DiskAssumption DEF Log
  <2> QED
    BY <1>2, <1>6, <2>1 DEF Existing, Ids
<1>8. ASSUME NEW i \in Existing PROVE Lines(i)' = Lines(i)
  <2>1. Undone(i)' = {}
    BY <1>2, <1>3, Callers DEF Undone, OnlyCall, Passive
  <2>2. Lines(i)' = logs'[i]
    BY <2>1 DEF Lines
  <2>3. CASE i = call[w].id
    <3>1. Undone(i) = {w}
      BY <1>1, <1>2, <1>5, <2>3, Callers DEF Undone, At, Passive
    <3>2. Lines(i) = call[w].before
      BY <3>1 DEF Lines
    <3> QED
      BY <1>6, <2>2, <2>3, <3>2
  <2>4. CASE i # call[w].id
    BY <1>2, <1>6, <2>2, <2>4, ExistingIds
  <2> QED
    BY <2>3, <2>4
<1>9. TypeOK'
  BY <1>0, <1>1, <1>2, <1>3, <1>6, QueueMoves DEF TypeOK, OnlyCall, counters, Ids
<1>10. Control'
  <2>1. "idle" \in StepsOf(w) /\ "idle" \in Passive /\ ~At(w, "idle")
    BY <1>0, <1>1 DEF StepsOf, At, Passive
  <2> QED
    BY <1>0, <1>1, <1>2, <1>3, <2>1, ControlKept DEF TypeOK
<1>11. CallInv(w)'
  BY <1>0, <1>3 DEF CallInv, WriterInv, LoadInv, Loading
<1>12. /\ dataFile' # Torn /\ FilesInv' /\ ListInv' /\ LinesInv' /\ ResetInv'
       /\ Content' = Content /\ \A q \in Procs \ {w} : CallInv(q)'
  BY <1>1, <1>3, <1>7, <1>8, SameLinesStep DEF At
<1>13. DataInv'
  <2>1. \A q \in Writers : ~At(q, "apply")
    BY <1>1, <1>2, Callers DEF At, Passive
  <2> QED
    BY <1>0, <1>1, <1>2, <1>12, <2>1 DEF DataInv
<1>14. DiskInv'
  BY <1>9, <1>10, <1>11, <1>12, <1>13 DEF DiskInv
<1> QED
  BY <1>0, <1>1, <1>3, <1>4, <1>12, <1>14, StoredSame

-----------------------------------------------------------------------------
(* The loading of the data: getData(), initializeData() and applyDelta().   *)

\* The list is the files in ascending order.
LEMMA ListIsAscending ==
  ASSUME TypeOK, ListInv, status # "down"
  PROVE  /\ Len(list) \in Nat /\ {list[n] : n \in 1 .. Len(list)} = Existing
         /\ \A n \in 1 .. Len(list) : list[n] \in Ids /\ list[n] \in Existing
         /\ \A n, m \in 1 .. Len(list) : n < m => list[n] < list[m]
<1>0. list \in Seq(Ids) /\ MaxId \in Nat /\ Len(list) \in Nat
  BY DiskAssumption DEF TypeOK, Ids
<1>1. CASE list = <<>>
  BY <1>0, <1>1 DEF ListInv
<1>2. CASE list # <<>>
  <2>1. /\ Len(list) >= 1 /\ list[1] \in Ids /\ list[Len(list)] = list[1] + Len(list) - 1
        /\ Existing = list[1] .. list[Len(list)]
    BY <1>2, ListFacts
  <2>2. \A n \in 1 .. Len(list) : list[n] = list[1] + n - 1
    BY DEF ListInv
  <2>3. ASSUME NEW n \in 1 .. Len(list)
        PROVE  list[n] \in Ids /\ list[n] \in Existing
    <3>1. list[n] \in Ids
      BY <1>0
    <3>2. list[n] = list[1] + n - 1
      BY <2>2
    <3>3. \A i \in Ids : i \in Int
      BY <1>0 DEF Ids
    <3>4. list[n] \in list[1] .. list[Len(list)]
      BY <1>0, <2>1, <3>2, <3>3
    <3> QED
      BY <2>1, <3>1, <3>4
  <2>4. ASSUME NEW i \in Existing PROVE \E n \in 1 .. Len(list) : i = list[n]
    <3>1. i \in Int /\ i >= list[1] /\ i <= list[1] + Len(list) - 1 /\ list[1] \in Int
      BY <1>0, <2>1 DEF Ids
    <3>2. i - list[1] + 1 \in 1 .. Len(list)
      BY <1>0, <3>1
    <3>3. list[i - list[1] + 1] = i
      BY <2>2, <3>1, <3>2
    <3> QED
      BY <3>2, <3>3
  <2>5. ASSUME NEW n \in 1 .. Len(list), NEW m \in 1 .. Len(list), n < m
        PROVE  list[n] < list[m]
    <3>1. list[n] = list[1] + n - 1 /\ list[m] = list[1] + m - 1 /\ list[1] \in Int
      BY <1>0, <2>1, <2>2 DEF Ids
    <3> QED
      BY <2>5, <3>1
  <2>6. {list[n] : n \in 1 .. Len(list)} = Existing
    BY <2>3, <2>4
  <2> QED
    BY <1>0, <2>3, <2>5, <2>6
<1> QED
  BY <1>1, <1>2

\* While a call loads the data nobody writes.
LEMMA LoaderAlone ==
  ASSUME DiskInv, NEW p \in Procs, call[p].pc \in Loading
  PROVE  /\ status # "down" /\ ~isInitialized /\ p # "resetter" /\ ~At(p, "idle")
         /\ \A q \in Procs \ {p} : call[q].pc \in Passive
         /\ IF p \in Readers THEN \A q \in Procs \ {p} : At(q, "idle") ELSE Holds(p)
         /\ \A w \in Writers : call[w].pc \notin {"apply", "truncate"}
         /\ ~At("resetter", "unlink") /\ \A i : Lines(i) = logs[i]
<1>0. StepsInv /\ LockedInv /\ LoadInv(p)
  BY DEF DiskInv, Control, CallInv
<1>1. status # "down" /\ ~isInitialized /\ p # "resetter" /\ ~At(p, "idle") /\ call[p].pc \notin Passive
  BY <1>0 DEF LoadInv, StepsInv, Loading, Passive, At
<1>2. \A q \in Procs \ {p} : call[q].pc \in Passive
  BY <1>0, <1>1, OthersPassive
<1>3. \A w \in Writers : call[w].pc \notin {"apply", "truncate"}
  BY <1>2, Callers DEF Passive, Loading
<1>4. ~At("resetter", "unlink")
  BY <1>1, <1>2, Callers DEF At, Passive
<1> QED
  BY <1>0, <1>1, <1>2, <1>3, <1>4, QuietLines DEF LockedInv

\* A step of the loading, which leaves the files alone.
LEMMA LoadingStep ==
  ASSUME DiskInv, NEW p \in Procs, call[p].pc \in Loading, OnlyCall(p),
         call'[p].pc \notin {"apply", "truncate"},
         files' = files, list' = list, status' = status, savepointVersion' = savepointVersion,
         TypeOK', Control', isInitialized' => data' = Content,
         Existing' = Existing /\ Kept' = Kept /\ BaseData' = BaseData => CallInv(p)'
  PROVE  DiskInv' /\ Stored' = Stored
<1>0. /\ TypeOK /\ dataFile # Torn /\ FilesInv /\ ListInv /\ LinesInv /\ savepointVersion \in Nat
      /\ dataFile' = dataFile /\ tempFile' = tempFile /\ logs' = logs
  BY DEF DiskInv, TypeOK, files
<1>1. /\ status # "down" /\ p # "resetter" /\ \A q \in Procs \ {p} : call[q].pc \in Passive
      /\ \A w \in Writers : call[w].pc \notin {"apply", "truncate"}
      /\ \A i : Lines(i) = logs[i]
  BY LoaderAlone
<1>2. \A i : Lines(i)' = Lines(i)
  <2>1. \A w \in Writers : call'[w].pc \notin {"apply", "truncate"}
    BY <1>1, Callers DEF OnlyCall
  <2> QED
    BY <1>0, <1>1, <2>1, QuietLinesNext
<1>3. Existing' = Existing /\ BaseData' = BaseData /\ Kept' = Kept /\ Content' = Content
  <2>1. Existing' = Existing /\ BaseData' = BaseData
    BY <1>0 DEF Existing, BaseData
  <2>2. Kept' = Kept
    BY <1>2 DEF Kept
  <2> QED
    BY <2>1, <2>2 DEF Content
<1>4. FilesInv' /\ ListInv' /\ LinesInv' /\ DataInv'
  BY <1>0, <1>2, <1>3 DEF FilesInv, ListInv, LinesInv, DataInv
<1>5. \A s \in Savers \ {p} : call[s].pc \in {"writing", "relock"} => SnapInv(s)'
  BY <1>0, <1>1, <1>3, SnapKept
<1>6. ResetInv' /\ \A q \in Procs : CallInv(q)'
  BY <1>0, <1>1, <1>3, <1>5, LockedFrame
<1>7. At("resetter", "unlink")' <=> At("resetter", "unlink")
  BY <1>1, Callers DEF OnlyCall, At
<1> QED
  BY <1>0, <1>1, <1>3, <1>4, <1>6, <1>7, StoredSame DEF DiskInv

\* The loading reads the data file and the list, then one delta file after the other.
LEMMA LoadDataKeeps ==
  ASSUME DiskInv, NEW p \in Procs, LoadData(p)
  PROVE  /\ DiskInv' /\ Stored' = Stored /\ OnlyCall(p)
         /\ call'[p].key = call[p].key /\ call'[p].val = call[p].val
         /\ call[p].pc \in Loading /\ call'[p].pc \in Loading
<1>0. /\ TypeOK /\ Control /\ StepsInv /\ CallInv(p) /\ dataFile # Torn
      /\ "fetch" \in StepsOf(p) /\ Len(list) \in Nat
  BY Callers DEF DiskInv, Control, StepsOf, StepsInv, Loading, TypeOK, LoadData, At
<1>1. /\ At(p, "read") /\ data' = BaseData /\ queue' = queue /\ files' = files /\ list' = list
      /\ dirty' = dirty /\ status' = status /\ isInitialized' = isInitialized /\ version' = version
      /\ isSavepoint' = isSavepoint /\ savepointVersion' = savepointVersion /\ UNCHANGED counters
  BY DEF LoadData, delta, saving
<1>2. /\ status # "down" /\ ~isInitialized /\ p # "resetter" /\ ~At(p, "idle")
      /\ IF p \in Readers THEN \A q \in Procs \ {p} : At(q, "idle") ELSE Holds(p)
  BY <1>1, LoaderAlone DEF At, Loading
<1>3. /\ OnlyCall(p) /\ call'[p].pc = "fetch" /\ call'[p].pos = 1 /\ call'[p].upto = Len(list)
      /\ call'[p].key = call[p].key /\ call'[p].val = call[p].val /\ call'[p].id = call[p].id
      /\ call'[p].own = call[p].own
  <2> DEFINE d == [call[p] EXCEPT !.pc = "fetch", !.pos = 1, !.upto = Len(list)]
  <2>1. /\ d \in Call /\ d.pc = "fetch" /\ d.pos = 1 /\ d.upto = Len(list) /\ d.key = call[p].key
        /\ d.val = call[p].val /\ d.id = call[p].id /\ d.own = call[p].own
    <3>1. call[p] \in Call
      BY <1>0 DEF TypeOK
    <3> QED
      BY <1>0, <3>1 DEF Call, Steps
  <2>2. call' = [call EXCEPT ![p] = d]
    BY DEF LoadData
  <2> HIDE DEF d
  <2> QED
    BY <1>0, <2>1, <2>2, CallBecomes DEF TypeOK
<1>4. TypeOK'
  <2>1. data' \in Data
    BY <1>0, <1>1, BaseIsData
  <2> QED
    BY <1>0, <1>1, <1>3, <2>1 DEF TypeOK, OnlyCall, counters, files
<1>5. Control'
  <2>1. p \in Savers => isSavepoint
    BY <1>0, <1>2 DEF Control, SaversInv
  <2>2. "fetch" \notin Passive /\ "fetch" # "idle" /\ queue \in Seq(Procs)
    BY <1>0 DEF Passive, TypeOK
  <2> QED
    BY <1>0, <1>1, <1>2, <1>3, <2>1, <2>2, ControlKept
<1>6. CallInv(p)'
  <2>1. data' = Replayed(BaseData', {list'[n] : n \in 1 .. 0}, Kept')
    <3>1. {list'[n] : n \in 1 .. 0} = {} /\ BaseData' = BaseData /\ BaseData \in Data
      BY <1>0, <1>1, BaseIsData DEF BaseData, files
    <3> QED
      BY <1>1, <3>1, ReplayOfNone
  <2>2. LoadInv(p)'
    BY <1>0, <1>1, <1>2, <1>3, <2>1 DEF LoadInv, Loading
  <2>3. p \in Writers => WriterInv(p)'
    BY <1>0, <1>1, <1>3 DEF CallInv, WriterInv, At
  <2>4. p \in Savers => SaverInv(p)'
    BY <1>0, <1>1, <1>3 DEF CallInv, SaverInv, At, Loading, files
  <2> QED
    BY <2>2, <2>3, <2>4 DEF CallInv
<1>7. DiskInv' /\ Stored' = Stored
  BY <1>1, <1>2, <1>3, <1>4, <1>5, <1>6, LoadingStep DEF At, Loading
<1> QED
  BY <1>1, <1>3, <1>7 DEF At, Loading

\* The next delta file is there, as only the list says which ones there are: loading throws
\* nothing.
LEMMA FetchDeltaKeeps ==
  ASSUME DiskInv, NEW p \in Procs, FetchDelta(p)
  PROVE  /\ DiskInv' /\ Stored' = Stored /\ OnlyCall(p)
         /\ call'[p].key = call[p].key /\ call'[p].val = call[p].val
         /\ call[p].pc \in Loading /\ call'[p].pc \in Loading \cup {AfterGet(p)}
<1> DEFINE c == call[p]
<1>0. /\ TypeOK /\ Control /\ StepsInv /\ CallInv(p) /\ LoadInv(p) /\ dataFile # Torn /\ ListInv
      /\ AfterGet(p) \in StepsOf(p) /\ "replay" \in StepsOf(p) /\ c \in Call /\ queue \in Seq(Procs)
      /\ AfterGet(p) \in Steps
  BY Callers DEF DiskInv, Control, StepsOf, StepsInv, Loading, TypeOK, FetchDelta, At, AfterGet,
     CallInv, Steps
<1>1. At(p, "fetch") /\ c.pc = "fetch" /\ c.pc \in Loading
  BY DEF FetchDelta, At, Loading
<1>2. /\ status # "down" /\ ~isInitialized /\ p # "resetter" /\ ~At(p, "idle")
      /\ IF p \in Readers THEN \A q \in Procs \ {p} : At(q, "idle") ELSE Holds(p)
      /\ \A i : Lines(i) = logs[i]
  BY <1>1, LoaderAlone
<1>3. p \in Savers => isSavepoint
  BY <1>0, <1>2 DEF Control, SaversInv
<1>4. /\ c.upto = Len(list) /\ Len(list) \in Nat /\ c.pos \in 1 .. Len(list) + 1
      /\ data = Replayed(BaseData, {list[n] : n \in 1 .. c.pos - 1}, Kept)
  BY <1>0, <1>1, <1>2, ListIsAscending DEF LoadInv
<1>5. CASE ~(c.pos <= c.upto /\ c.pos <= Len(list))
  <2>1. /\ isInitialized' = TRUE /\ Goto(p, AfterGet(p)) /\ files' = files /\ status' = status
        /\ queue' = queue /\ list' = list /\ dirty' = dirty /\ data' = data /\ version' = version
        /\ isSavepoint' = isSavepoint /\ savepointVersion' = savepointVersion /\ UNCHANGED counters
    BY <1>5 DEF FetchDelta, delta, saving
  <2>2. Moves(p, AfterGet(p)) /\ OnlyCall(p) /\ call'[p].pc = AfterGet(p)
    BY <1>0, <2>1, GotoMoves DEF Moves, TypeOK
  <2>3. /\ call'[p].key = c.key /\ call'[p].val = c.val /\ call'[p].id = c.id /\ call'[p].own = c.own
    BY <2>2 DEF Moves, SameButPc
  <2>4. TypeOK'
    BY <1>0, <2>1, <2>2 DEF TypeOK, OnlyCall, counters, files
  <2>5. Control'
    <3>1. p \in Savers => AfterGet(p) = "snapshot"
      BY Callers DEF AfterGet
    <3>2. AfterGet(p) \notin Passive => p \notin Readers
      BY Callers DEF AfterGet, Passive
    <3> QED
      BY <1>0, <1>2, <1>3, <2>1, <2>2, <3>1, <3>2, ControlKept
  <2>6. data = Content
    <3>1. c.pos - 1 = Len(list)
      BY <1>4, <1>5
    <3>2. {list[n] : n \in 1 .. Len(list)} = Existing
      BY <1>0, <1>2, ListIsAscending
    <3> QED
      BY <1>4, <3>1, <3>2 DEF Content
  <2>7. CallInv(p)'
    <3>1. p \in Writers => WriterInv(p)'
      BY <1>0, <1>1, <2>1, <2>2, <2>3 DEF CallInv, WriterInv, AfterGet
    <3>2. p \in Savers => SaverInv(p)'
      <4>1. p \in Savers => AfterGet(p) = "snapshot"
        BY Callers DEF AfterGet
      <4> QED
        BY <1>0, <1>1, <2>1, <2>2, <2>3, <4>1 DEF CallInv, SaverInv, Loading, files
    <3>3. LoadInv(p)'
      BY <2>2 DEF LoadInv, AfterGet, Loading
    <3> QED
      BY <3>1, <3>2, <3>3 DEF CallInv
  <2>8. call'[p].pc \notin {"apply", "truncate"}
    BY <2>2 DEF AfterGet
  <2>9. DiskInv' /\ Stored' = Stored
    BY <1>1, <2>1, <2>2, <2>4, <2>5, <2>6, <2>7, <2>8, LoadingStep
  <2> QED
    BY <1>1, <2>2, <2>3, <2>9
<1>6. CASE c.pos <= c.upto /\ c.pos <= Len(list)
  <2> DEFINE path == list[c.pos]
  <2>1. path \in Ids /\ path \in Existing /\ logs[path] # NoFile /\ logs[path] \in Log
    <3>1. c.pos \in 1 .. Len(list)
      BY <1>4, <1>6
    <3>2. path \in Ids /\ path \in Existing
      BY <1>0, <1>2, <3>1, ListIsAscending
    <3> QED
      BY <1>0, <3>2 DEF Existing, TypeOK, Ids
  <2>2. /\ files' = files /\ status' = status /\ isInitialized' = isInitialized
        /\ queue' = queue /\ list' = list /\ dirty' = dirty /\ data' = data /\ version' = version
        /\ isSavepoint' = isSavepoint /\ savepointVersion' = savepointVersion /\ UNCHANGED counters
        /\ call' = [call EXCEPT ![p] = [call[p] EXCEPT !.pc = "replay", !.content = logs[path]]]
    BY <1>6, <2>1 DEF FetchDelta, delta, saving, memory
  <2>3. /\ OnlyCall(p) /\ call'[p].pc = "replay" /\ call'[p].content = logs[path]
        /\ call'[p].key = c.key /\ call'[p].val = c.val /\ call'[p].id = c.id
        /\ call'[p].own = c.own /\ call'[p].pos = c.pos /\ call'[p].upto = c.upto
    <3> DEFINE d == [call[p] EXCEPT !.pc = "replay", !.content = logs[path]]
    <3>1. /\ d \in Call /\ d.pc = "replay" /\ d.content = logs[path] /\ d.key = c.key /\ d.val = c.val
          /\ d.id = c.id /\ d.own = c.own /\ d.pos = c.pos /\ d.upto = c.upto
      BY <1>0, <2>1 DEF Call, Steps
    <3> HIDE DEF d
    <3> QED
      BY <1>0, <2>2, <3>1, CallBecomes DEF TypeOK, d
  <2>4. TypeOK'
    BY <1>0, <2>2, <2>3 DEF TypeOK, OnlyCall, counters, files
  <2>5. Control'
    <3>1. "replay" \notin Passive /\ "replay" # "idle"
      BY DEF Passive
    <3> QED
      BY <1>0, <1>2, <1>3, <2>2, <2>3, <3>1, ControlKept
  <2>6. ASSUME BaseData' = BaseData, Kept' = Kept
        PROVE  CallInv(p)'
    <3>1. p \in Writers => WriterInv(p)'
      BY <1>0, <1>1, <2>2, <2>3 DEF CallInv, WriterInv
    <3>2. p \in Savers => SaverInv(p)'
      BY <1>0, <1>1, <2>2, <2>3 DEF CallInv, SaverInv, Loading, files
    <3>3. logs[path] = Kept[path]
      BY <1>2, <2>1, ExistingIds
    <3>4. LoadInv(p)'
      BY <1>2, <1>4, <1>6, <2>2, <2>3, <2>6, <3>3 DEF LoadInv, Loading
    <3> QED
      BY <3>1, <3>2, <3>4 DEF CallInv
  <2>7. DiskInv' /\ Stored' = Stored
    BY <1>1, <1>2, <2>2, <2>3, <2>4, <2>5, <2>6, LoadingStep
  <2> QED
    BY <1>1, <2>3, <2>7 DEF Loading
<1> QED
  BY <1>5, <1>6

\* No line that stays is refused when it is replayed.
LEMMA ReplayDeltaKeeps ==
  ASSUME DiskInv, NEW p \in Procs, ReplayDelta(p)
  PROVE  /\ DiskInv' /\ Stored' = Stored /\ OnlyCall(p)
         /\ call'[p].key = call[p].key /\ call'[p].val = call[p].val
         /\ call[p].pc \in Loading /\ call'[p].pc \in Loading
<1> DEFINE c == call[p]
           path == list[c.pos]
<1>0. /\ TypeOK /\ Control /\ StepsInv /\ CallInv(p) /\ LoadInv(p) /\ dataFile # Torn /\ ListInv
      /\ LinesInv /\ "fetch" \in StepsOf(p) /\ c \in Call /\ queue \in Seq(Procs)
  BY Callers DEF DiskInv, Control, StepsOf, StepsInv, Loading, TypeOK, ReplayDelta, At, CallInv
<1>1. At(p, "replay") /\ c.pc = "replay" /\ c.pc \in Loading
  BY DEF ReplayDelta, At, Loading
<1>2. /\ status # "down" /\ ~isInitialized /\ p # "resetter" /\ ~At(p, "idle")
      /\ IF p \in Readers THEN \A q \in Procs \ {p} : At(q, "idle") ELSE Holds(p)
      /\ \A i : Lines(i) = logs[i]
  BY <1>1, LoaderAlone
<1>3. p \in Savers => isSavepoint
  BY <1>0, <1>2 DEF Control, SaversInv
<1>4. /\ c.upto = Len(list) /\ Len(list) \in Nat /\ c.pos \in 1 .. Len(list)
      /\ data = Replayed(BaseData, {list[n] : n \in 1 .. c.pos - 1}, Kept) /\ c.content = Kept[path]
  <2>1. Len(list) \in Nat
    BY <1>0, <1>2, ListIsAscending
  <2>2. /\ c.upto = Len(list) /\ c.pos \in 1 .. Len(list) + 1 /\ c.pos <= Len(list)
        /\ data = Replayed(BaseData, {list[n] : n \in 1 .. c.pos - 1}, Kept) /\ c.content = Kept[path]
    BY <1>0, <1>1 DEF LoadInv
  <2> QED
    BY <2>1, <2>2
<1>5. path \in Ids /\ Kept[path] \in Clean
  <2>1. path \in Ids /\ path \in Existing
    BY <1>0, <1>2, <1>4, ListIsAscending
  <2> QED
    BY <1>0, <2>1, ExistingIds DEF LinesInv
<1>6. Replayable(c.content)
  BY <1>4, <1>5, DiskAssumption DEF Clean, Replayable
<1>7. /\ data' = Overlay(data, c.content) /\ files' = files /\ status' = status
      /\ isInitialized' = isInitialized /\ queue' = queue /\ list' = list /\ dirty' = dirty
      /\ version' = version /\ isSavepoint' = isSavepoint /\ savepointVersion' = savepointVersion
      /\ UNCHANGED counters
  BY <1>6 DEF ReplayDelta, delta, saving
<1>8. /\ OnlyCall(p) /\ call'[p].pc = "fetch" /\ call'[p].pos = c.pos + 1
      /\ call'[p].key = c.key /\ call'[p].val = c.val /\ call'[p].id = c.id
      /\ call'[p].own = c.own /\ call'[p].upto = c.upto
  <2> DEFINE d == [call[p] EXCEPT !.pc = "fetch", !.pos = call[p].pos + 1, !.content = EmptyLog]
  <2>1. /\ d \in Call /\ d.pc = "fetch" /\ d.pos = c.pos + 1 /\ d.key = c.key /\ d.val = c.val
        /\ d.id = c.id /\ d.own = c.own /\ d.upto = c.upto
    <3>1. EmptyLog \in Log \cup Data /\ c.pos + 1 \in Nat
      BY <1>4, DataIsLog
    <3> QED
      BY <1>0, <3>1 DEF Call, Steps
  <2>2. call' = [call EXCEPT ![p] = d]
    BY <1>6 DEF ReplayDelta
  <2> HIDE DEF d
  <2> QED
    BY <1>0, <2>1, <2>2, CallBecomes DEF TypeOK
<1>9. TypeOK'
  <2>1. data' \in Data
    BY <1>0, <1>4, <1>5, <1>7 DEF TypeOK, Overlay, Data, Clean
  <2> QED
    BY <1>0, <1>7, <1>8, <2>1 DEF TypeOK, OnlyCall, counters, files
<1>10. Control'
  <2>1. "fetch" \notin Passive /\ "fetch" # "idle"
    BY DEF Passive
  <2> QED
    BY <1>0, <1>2, <1>3, <1>7, <1>8, <2>1, ControlKept
<1>11. ASSUME BaseData' = BaseData, Kept' = Kept
       PROVE  CallInv(p)'
  <2> DEFINE S == {list[n] : n \in 1 .. c.pos - 1}
  <2>1. p \in Writers => WriterInv(p)'
    BY <1>0, <1>1, <1>7, <1>8 DEF CallInv, WriterInv
  <2>2. p \in Savers => SaverInv(p)'
    BY <1>0, <1>1, <1>7, <1>8 DEF CallInv, SaverInv, Loading, files
  <2>3. S \in SUBSET Ids /\ \A i \in S : i < path
    BY <1>0, <1>2, <1>4, ListIsAscending, SMTT(30)
  <2>4. {list[n] : n \in 1 .. c.pos} = S \cup {path}
    BY <1>4
  <2>5. data' = Overlay(Replayed(BaseData, S, Kept), Kept[path])
    BY <1>4, <1>7
  <2> HIDE DEF S, path
  <2>6. Replayed(BaseData, S \cup {path}, Kept) = Overlay(Replayed(BaseData, S, Kept), Kept[path])
    BY <1>5, <2>3, ReplayOfNext
  <2>7. {list'[n] : n \in 1 .. call'[p].pos - 1} = S \cup {path}
    <3>1. call'[p].pos - 1 = c.pos /\ list' = list
      BY <1>4, <1>7, <1>8
    <3> QED
      BY <2>4, <3>1
  <2>8. call'[p].upto = Len(list') /\ call'[p].pos \in 1 .. Len(list') + 1
    BY <1>4, <1>7, <1>8
  <2>9. LoadInv(p)'
    BY <1>2, <1>7, <1>8, <1>11, <2>5, <2>6, <2>7, <2>8 DEF LoadInv, Loading
  <2> QED
    BY <2>1, <2>2, <2>9 DEF CallInv
<1>12. DiskInv' /\ Stored' = Stored
  BY <1>1, <1>2, <1>7, <1>8, <1>9, <1>10, <1>11, LoadingStep
<1> QED
  BY <1>1, <1>8, <1>12 DEF Loading

-----------------------------------------------------------------------------
(* savepoint().                                                             *)

\* The periodic task or close() asks for a savepoint.
LEMMA SavepointCallKeeps ==
  ASSUME SafelyUsed, DiskInv, NEW s \in Savers, SavepointCall(s)
  PROVE  DiskInv' /\ Stored' = Stored /\ OnlyCall(s)
<1>0. TypeOK /\ Control /\ s \in Procs /\ s \notin Writers /\ s \notin Readers /\ s # "resetter"
  BY Callers DEF DiskInv
<1>1. /\ At(s, "idle") /\ status = "ready" /\ \A r \in Readers : At(r, "idle")
      /\ files' = files /\ list' = list /\ dirty' = dirty /\ data' = data
      /\ isInitialized' = isInitialized /\ version' = version /\ savepointVersion' = savepointVersion
      /\ UNCHANGED counters
  BY DEF SavepointCall, SafelyUsed, MayCall, delta, memory
<1>2. \/ /\ ~isSavepoint /\ isSavepoint' = TRUE /\ queue' = Append(queue, s) /\ Goto(s, "lock")
         /\ status' = status
      \/ /\ status' = "closed" /\ isSavepoint' = isSavepoint /\ queue' = queue /\ call' = call
  BY DEF SavepointCall, Lock
<1>3. OnlyCall(s) /\ call'[s].pc \in {"idle", "lock"}
  <2>1. CASE Goto(s, "lock")
    BY <1>0, <2>1, GotoMoves DEF Moves, Steps, TypeOK
  <2>2. CASE call' = call
    BY <1>0, <1>1, <2>2 DEF OnlyCall, TypeOK, At
  <2> QED
    BY <1>2, <2>1, <2>2
<1>4. TypeOK'
  BY <1>0, <1>1, <1>2, <1>3, QueueMoves DEF TypeOK, OnlyCall, counters, files
<1>5. Control'
  <2>1. call'[s].pc \in StepsOf(s) /\ call'[s].pc \in Passive
    BY <1>0, <1>3 DEF StepsOf, Passive
  <2>2. call'[s].pc # "idle" => isSavepoint' = TRUE /\ ~isSavepoint
    BY <1>1, <1>2 DEF At
  <2>3. call'[s].pc = "idle" => isSavepoint' = isSavepoint
    <3>1. Goto(s, "lock") => call'[s].pc = "lock"
      BY <1>0, GotoMoves DEF Moves, Steps, TypeOK
    <3> QED
      BY <1>2, <3>1
  <2> QED
    BY <1>0, <1>1, <1>2, <1>3, <2>1, <2>2, <2>3, ControlKept DEF TypeOK
<1>6. CallInv(s)'
  BY <1>0, <1>3 DEF CallInv, SaverInv, LoadInv, Loading
<1>7. At("resetter", "unlink")' <=> At("resetter", "unlink")
  BY <1>0, <1>3, Callers DEF OnlyCall, At
<1>8. LeavesFiles(s)
  <2>1. ~Refuses(call[s])
    BY <1>1 DEF At, Refuses
  <2> QED
    BY <1>0, <1>1, <1>2, <1>3, <1>7, <2>1 DEF LeavesFiles, files
<1>9. DiskInv' /\ Content' = Content
  BY <1>0, <1>4, <1>5, <1>6, <1>8, QuietStep
<1> QED
  BY <1>0, <1>3, <1>7, <1>9, StoredSame

\* The end of savepoint() without a change of the files.
LEMMA SavepointLeaves ==
  ASSUME DiskInv, NEW s \in Savers, ~At(s, "idle"), SavepointEnds(s), Return(s),
         \/ queue' = queue
         \/ queue' = Tail(queue) /\ Holds(s),
         files' = files, list' = list, memory' = memory, dirty' \in BOOLEAN,
         savepointVersion' \in Nat,
         writes' = writes, crashes' = crashes, resets' = resets, ioFailed' \in BOOLEAN
  PROVE  DiskInv' /\ Stored' = Stored /\ OnlyCall(s)
<1>0. /\ TypeOK /\ Control /\ DownInv /\ s \in Procs /\ s \notin Writers /\ s \notin Readers
      /\ s # "resetter"
  BY Callers DEF DiskInv, Control
<1>1. /\ status # "down" /\ status' # "down" /\ status' \in {"ready", "closed"} /\ isSavepoint' = FALSE
      /\ dataFile' = dataFile /\ tempFile' = tempFile /\ logs' = logs /\ data' = data
      /\ isInitialized' = isInitialized /\ version' = version
  BY <1>0, BusyIsUp DEF SavepointEnds, files, memory, TypeOK
<1>2. OnlyCall(s) /\ call'[s].pc = "idle"
  BY <1>0, ReturnReturns, NoCallIsCall DEF Returns, TypeOK
<1>3. TypeOK'
  BY <1>0, <1>1, <1>2, QueueMoves DEF TypeOK, OnlyCall
<1>4. Control'
  <2>1. "idle" \in StepsOf(s) /\ "idle" \in Passive
    BY <1>0 DEF StepsOf, Passive
  <2> QED
    BY <1>0, <1>1, <1>2, <2>1, ControlKept DEF TypeOK
<1>5. CallInv(s)'
  BY <1>0, <1>2 DEF CallInv, SaverInv, LoadInv, Loading
<1>6. At("resetter", "unlink")' <=> At("resetter", "unlink")
  BY <1>0, <1>2, Callers DEF OnlyCall, At
<1>7. LeavesFiles(s)
  <2>1. ~Refuses(call[s])
    BY <1>0, Callers DEF Control, StepsInv, Refuses, Loading
  <2> QED
    BY <1>0, <1>1, <1>2, <1>6, <2>1 DEF LeavesFiles
<1>8. DiskInv' /\ Content' = Content
  BY <1>0, <1>3, <1>4, <1>5, <1>7, QuietStep
<1> QED
  BY <1>0, <1>2, <1>6, <1>8, StoredSame

\* What is known of a savepoint on its way.
LEMMA SaverFacts ==
  ASSUME DiskInv, NEW s \in Savers, ~At(s, "idle")
  PROVE  /\ TypeOK /\ Control /\ ListInv /\ LinesInv /\ FilesInv /\ DataInv /\ dataFile # Torn
         /\ SaverInv(s) /\ LoadInv(s) /\ call[s] \in Call /\ isSavepoint /\ status # "down"
         /\ queue \in Seq(Procs) /\ savepointVersion \in Nat
         /\ \A t \in Savers \ {s} : At(t, "idle")
         /\ s \in Procs /\ s \notin Writers /\ s \notin Readers /\ s # "resetter"
         /\ call[s].pc \in {"lock", "snapshot", "writing", "relock", "unlink"} \cup Loading
         /\ OnlyCall(s) => (At("resetter", "unlink")' <=> At("resetter", "unlink"))
         /\ ~Refuses(call[s])
<1>0. s \in Procs /\ s \notin Writers /\ s \notin Readers /\ s # "resetter" /\ "resetter" \in Procs
  BY Callers
<1>1. call[s].pc \in {"lock", "snapshot", "writing", "relock", "unlink"} \cup Loading
  BY DEF DiskInv, Control, StepsInv, At
<1>2. TypeOK /\ Control /\ SaversInv /\ DownInv /\ CallInv(s)
  BY <1>0 DEF DiskInv, Control
<1>3. OnlyCall(s) => (At("resetter", "unlink")' <=> At("resetter", "unlink"))
  BY <1>0 DEF OnlyCall, At
<1>4. ~Refuses(call[s])
  BY <1>1 DEF Refuses, Loading
<1>5. SaverInv(s) /\ LoadInv(s) /\ isSavepoint /\ \A t \in Savers \ {s} : At(t, "idle")
  BY <1>2 DEF CallInv, SaversInv
<1>6. status # "down" /\ call[s] \in Call /\ queue \in Seq(Procs) /\ savepointVersion \in Nat
  BY <1>0, <1>2, BusyIsUp DEF TypeOK
<1> QED
  BY <1>0, <1>1, <1>2, <1>3, <1>4, <1>5, <1>6 DEF DiskInv

\* A savepoint that gets the mutex creates the delta file of the writes after it, or gives up when the
\* persistence is not ready.
LEMMA SavepointLockedKeeps ==
  ASSUME DiskInv, NEW s \in Savers, SavepointLocked(s)
  PROVE  DiskInv' /\ Stored' = Stored /\ OnlyCall(s)
<1>0. At(s, "lock") /\ Holds(s) /\ ~At(s, "idle") /\ call[s].pc = "lock"
  BY DEF SavepointLocked, At
<1>1. /\ TypeOK /\ Control /\ ListInv /\ call[s] \in Call /\ isSavepoint /\ status # "down"
      /\ queue \in Seq(Procs) /\ savepointVersion \in Nat
      /\ s \in Procs /\ s \notin Writers /\ s \notin Readers /\ s # "resetter"
      /\ OnlyCall(s) => (At("resetter", "unlink")' <=> At("resetter", "unlink"))
  BY <1>0, SaverFacts
<1>2. /\ savepointVersion' = savepointVersion + 1 /\ dataFile' = dataFile /\ tempFile' = tempFile
      /\ dirty' = dirty /\ memory' = memory /\ data' = data /\ isInitialized' = isInitialized
      /\ version' = version /\ UNCHANGED counters
  BY DEF SavepointLocked, memory
<1>3. CASE status = "ready"
  <2>1. /\ CreateDelta /\ queue' = queue /\ isSavepoint' = isSavepoint /\ status' = status
        /\ call' = [call EXCEPT ![s] = [call[s] EXCEPT !.pc = Get(s), !.id = NewId,
                                                       !.own = savepointVersion + 1]]
    BY <1>3 DEF SavepointLocked
  <2>2. Get(s) = IF isInitialized THEN "snapshot" ELSE "read"
    BY <1>1 DEF Get, AfterGet
  <2>3. /\ NewId \in Ids /\ list' # <<>> /\ list'[Len(list')] = NewId /\ logs'[NewId] = EmptyLog
        /\ list' \in Seq(Ids) /\ logs' \in [Ids -> Log \cup {NoFile}]
    BY <1>1, <2>1, CreatedFile
  <2>4. OnlyCall(s) /\ call'[s].pc = Get(s) /\ call'[s].id = NewId /\ call'[s].own = savepointVersion + 1
    <3> DEFINE d == [call[s] EXCEPT !.pc = Get(s), !.id = NewId, !.own = savepointVersion + 1]
    <3>1. d \in Call /\ d.pc = Get(s) /\ d.id = NewId /\ d.own = savepointVersion + 1
      <4>1. Get(s) \in Steps /\ NewId \in 0 .. MaxId /\ savepointVersion + 1 \in Nat
        BY <1>1, <2>2, <2>3 DEF Steps, Ids
      <4> QED
        BY <1>1, <4>1 DEF Call
    <3>2. call' = [call EXCEPT ![s] = d]
      BY <2>1
    <3> HIDE DEF d
    <3> QED
      BY <1>1, <3>1, <3>2, CallBecomes DEF TypeOK
  <2>5. TypeOK'
    BY <1>1, <1>2, <2>1, <2>3, <2>4 DEF TypeOK, OnlyCall, counters, Ids
  <2>6. Control'
    <3>1. call'[s].pc \in StepsOf(s) /\ call'[s].pc # "idle"
      BY <1>1, <2>2, <2>4 DEF StepsOf, Loading
    <3> QED
      BY <1>0, <1>1, <2>1, <2>4, <3>1, ControlKept
  <2>7. CallInv(s)'
    BY <1>1, <1>2, <2>1, <2>2, <2>3, <2>4 DEF CallInv, SaverInv, LoadInv, Loading
  <2>8. call'[s].pc \notin {"apply", "truncate"}
    BY <2>2, <2>4
  <2>9. DiskInv' /\ Content' = Content
    BY <1>0, <1>1, <1>2, <2>1, <2>4, <2>5, <2>6, <2>7, <2>8, CreateKeeps
  <2> QED
    BY <1>1, <2>4, <2>9, StoredSame
<1>4. CASE status # "ready"
  <2>1. SavepointEnds(s) /\ Return(s) /\ queue' = Tail(queue) /\ list' = list /\ logs' = logs
    BY <1>4 DEF SavepointLocked, Release
  <2>2. /\ files' = files /\ writes' = writes /\ crashes' = crashes /\ resets' = resets
        /\ dirty' \in BOOLEAN /\ ioFailed' \in BOOLEAN /\ savepointVersion' \in Nat
    BY <1>1, <1>2, <2>1 DEF files, counters, TypeOK
  <2> QED
    BY <1>0, <1>2, <2>1, <2>2, SavepointLeaves
<1> QED
  BY <1>3, <1>4

\* The data of a savepoint is what all delta files make of the data file: the one it created
\* has no line.
LEMMA SnapshotKeeps ==
  ASSUME DiskInv, NEW s \in Savers, Snapshot(s)
  PROVE  DiskInv' /\ Stored' = Stored /\ OnlyCall(s)
<1>0. At(s, "snapshot") /\ ~At(s, "idle") /\ call[s].pc = "snapshot" /\ call[s].pc \notin Passive
  BY DEF Snapshot, At, Passive
<1>1. /\ TypeOK /\ Control /\ LockedInv /\ ListInv /\ DataInv /\ SaverInv(s) /\ call[s] \in Call
      /\ isSavepoint /\ status # "down"
      /\ queue \in Seq(Procs) /\ s \in Procs /\ s \notin Writers /\ s \notin Readers /\ s # "resetter"
      /\ OnlyCall(s) => (At("resetter", "unlink")' <=> At("resetter", "unlink"))
      /\ ~Refuses(call[s])
  BY <1>0, SaverFacts DEF Control
<1>2. Holds(s) /\ \A q \in Procs \ {s} : call[q].pc \in Passive
  BY <1>0, <1>1, OthersPassive DEF LockedInv
<1>3. /\ tempFile' = Torn /\ dirty' = FALSE /\ queue' = Tail(queue) /\ dataFile' = dataFile
      /\ logs' = logs /\ status' = status /\ list' = list /\ data' = data
      /\ isInitialized' = isInitialized /\ version' = version /\ isSavepoint' = isSavepoint
      /\ savepointVersion' = savepointVersion /\ UNCHANGED counters
      /\ call' = [call EXCEPT ![s] = [call[s] EXCEPT !.pc = "writing", !.content = data]]
  BY DEF Snapshot, Release, memory, saving
<1>4. data \in Data /\ data = Content
  <2>1. isInitialized /\ ~At("resetter", "unlink") /\ \A w \in Writers : ~At(w, "apply")
    BY <1>0, <1>1, <1>2, Callers DEF SaverInv, At, Passive
  <2>2. \A k \in Keys : data[k] = Content[k]
    BY <1>1, <2>1 DEF DataInv
  <2>3. data \in Data /\ Content = [k \in Keys |-> Content[k]]
    BY <1>1, ReplayedIsFunction DEF TypeOK, Content
  <2> QED
    BY <2>2, <2>3 DEF Data
<1>5. /\ OnlyCall(s) /\ call'[s].pc = "writing" /\ call'[s].content = data
      /\ call'[s].id = call[s].id /\ call'[s].own = call[s].own
  <2> DEFINE d == [call[s] EXCEPT !.pc = "writing", !.content = data]
  <2>1. /\ d \in Call /\ d.pc = "writing" /\ d.content = data
        /\ d.id = call[s].id /\ d.own = call[s].own
    BY <1>1, <1>4 DEF Call, Steps
  <2>2. call' = [call EXCEPT ![s] = d]
    BY <1>3
  <2> HIDE DEF d
  <2> QED
    BY <1>1, <2>1, <2>2, CallBecomes DEF TypeOK
<1>6. TypeOK'
  BY <1>1, <1>2, <1>3, <1>5, QueueMoves DEF TypeOK, OnlyCall, counters
<1>7. Control'
  <2>1. "writing" \in StepsOf(s) /\ "writing" \in Passive
    BY <1>1 DEF StepsOf, Passive
  <2> QED
    BY <1>0, <1>1, <1>2, <1>3, <1>5, <2>1, ControlKept
<1>8. ASSUME Existing' = Existing, Kept' = Kept, BaseData' = BaseData
      PROVE  CallInv(s)'
  <2>1. Snapshotted(s)' = data
    BY <1>5 DEF Snapshotted, At
  <2>2. call[s].id \in Existing
    BY <1>0, <1>1, ListFacts DEF SaverInv
  <2>3. Covers(data, call[s].id, BaseData, Existing, Kept)
    BY <1>4 DEF Covers, Content
  <2>4. SnapInv(s)'
    BY <1>5, <1>8, <2>1, <2>2, <2>3 DEF SnapInv
  <2>5. call'[s].own = savepointVersion /\ savepointVersion \in Nat
    BY <1>0, <1>1, <1>5 DEF SaverInv, TypeOK
  <2>6. SaverInv(s)'
    BY <1>3, <1>4, <1>5, <2>1, <2>4, <2>5 DEF SaverInv, Loading
  <2>7. LoadInv(s)'
    BY <1>5 DEF LoadInv, Loading
  <2> QED
    BY <1>1, <2>6, <2>7 DEF CallInv
<1>9. LeavesFiles(s)
  BY <1>0, <1>1, <1>3, <1>5 DEF LeavesFiles
<1>10. DiskInv' /\ Content' = Content
  BY <1>1, <1>6, <1>7, <1>8, <1>9, QuietStep
<1> QED
  BY <1>1, <1>5, <1>10, StoredSame

\* The snapshot is in the temporary file, or its writing failed; the mutex is asked for again.
LEMMA TempWrittenKeeps ==
  ASSUME DiskInv, NEW s \in Savers, TempWritten(s)
  PROVE  DiskInv' /\ Stored' = Stored /\ OnlyCall(s)
<1>0. At(s, "writing") /\ ~At(s, "idle") /\ call[s].pc = "writing"
  BY DEF TempWritten, At
<1>1. /\ TypeOK /\ Control /\ SaverInv(s) /\ call[s] \in Call
      /\ isSavepoint /\ status # "down" /\ savepointVersion \in Nat
      /\ queue \in Seq(Procs) /\ s \in Procs /\ s \notin Writers /\ s \notin Readers /\ s # "resetter"
      /\ OnlyCall(s) => (At("resetter", "unlink")' <=> At("resetter", "unlink"))
      /\ ~Refuses(call[s])
  BY <1>0, SaverFacts
<1>2. /\ dataFile' = dataFile /\ logs' = logs /\ list' = list /\ dirty' = dirty /\ memory' = memory
      /\ data' = data /\ isInitialized' = isInitialized /\ version' = version
      /\ savepointVersion' = savepointVersion
      /\ writes' = writes /\ crashes' = crashes /\ resets' = resets
  BY DEF TempWritten, delta, memory
<1>3. call[s].content \in Data /\ SnapInv(s) /\ Snapshotted(s) = call[s].content
  BY <1>0, <1>1 DEF SaverInv, Snapshotted, At
<1>4. CASE /\ tempFile' = call[s].content /\ Lock(s)
           /\ call' = [call EXCEPT ![s] = [call[s] EXCEPT !.pc = "relock", !.content = EmptyLog]]
           /\ UNCHANGED <<status, isSavepoint, ioFailed>>
  <2>1. /\ tempFile' = call[s].content /\ queue' = Append(queue, s) /\ status' = status
        /\ isSavepoint' = isSavepoint /\ ioFailed' = ioFailed
        /\ call' = [call EXCEPT ![s] = [call[s] EXCEPT !.pc = "relock", !.content = EmptyLog]]
    BY <1>4 DEF Lock
  <2>2. /\ OnlyCall(s) /\ call'[s].pc = "relock" /\ call'[s].id = call[s].id
        /\ call'[s].own = call[s].own
    <3> DEFINE d == [call[s] EXCEPT !.pc = "relock", !.content = EmptyLog]
    <3>1. d \in Call /\ d.pc = "relock" /\ d.id = call[s].id /\ d.own = call[s].own
      <4>1. EmptyLog \in Log \cup Data
        BY DataIsLog
      <4> QED
        BY <1>1, <4>1 DEF Call, Steps
    <3>2. call' = [call EXCEPT ![s] = d]
      BY <2>1
    <3> HIDE DEF d
    <3> QED
      BY <1>1, <3>1, <3>2, CallBecomes DEF TypeOK
  <2>3. TypeOK'
    BY <1>1, <1>2, <1>3, <2>1, <2>2, QueueMoves DEF TypeOK, OnlyCall
  <2>4. Control'
    <3>1. "relock" \in StepsOf(s) /\ "relock" \in Passive
      BY <1>1 DEF StepsOf, Passive
    <3> QED
      BY <1>0, <1>1, <2>1, <2>2, <3>1, ControlKept
  <2>5. ASSUME Existing' = Existing, Kept' = Kept, BaseData' = BaseData
        PROVE  CallInv(s)'
    <3>1. Snapshotted(s)' = call[s].content
      BY <2>1, <2>2 DEF Snapshotted, At
    <3>2. SnapInv(s)'
      BY <1>1, <1>2, <1>3, <2>2, <2>5, <3>1 DEF SnapInv
    <3>3. SaverInv(s)'
      BY <1>0, <1>1, <1>2, <1>3, <2>2, <3>1, <3>2 DEF SaverInv, Loading
    <3>4. LoadInv(s)'
      BY <2>2 DEF LoadInv, Loading
    <3> QED
      BY <1>1, <3>3, <3>4 DEF CallInv
  <2>6. LeavesFiles(s)
    BY <1>0, <1>1, <1>2, <2>1, <2>2 DEF LeavesFiles
  <2>7. DiskInv' /\ Content' = Content
    BY <1>1, <2>3, <2>4, <2>5, <2>6, QuietStep
  <2> QED
    BY <1>1, <2>2, <2>7, StoredSame
<1>5. CASE ioFailed' = TRUE /\ SavepointEnds(s) /\ Return(s) /\ UNCHANGED <<tempFile, queue>>
  <2>1. /\ files' = files /\ queue' = queue /\ dirty' \in BOOLEAN /\ ioFailed' \in BOOLEAN
        /\ savepointVersion' \in Nat
    BY <1>1, <1>2, <1>5 DEF files, TypeOK
  <2> QED
    BY <1>0, <1>2, <1>5, <2>1, SavepointLeaves
<1> QED
  BY <1>4, <1>5 DEF TempWritten

\* The temporary file becomes the data file under the delta files it covers.
LEMMA SavepointReplaceKeeps ==
  ASSUME DiskInv, NEW s \in Savers, SavepointReplace(s)
  PROVE  DiskInv' /\ Stored' = Stored /\ OnlyCall(s)
<1>0. At(s, "relock") /\ Holds(s) /\ ~At(s, "idle") /\ call[s].pc = "relock"
  BY DEF SavepointReplace, At
<1>1. /\ TypeOK /\ Control /\ LockedInv /\ ListInv /\ LinesInv /\ FilesInv /\ DataInv /\ dataFile # Torn
      /\ SaverInv(s) /\ call[s] \in Call /\ isSavepoint /\ status # "down" /\ savepointVersion \in Nat
      /\ queue \in Seq(Procs) /\ s \in Procs /\ s \notin Writers /\ s \notin Readers /\ s # "resetter"
      /\ \A t \in Savers \ {s} : At(t, "idle")
      /\ OnlyCall(s) => (At("resetter", "unlink")' <=> At("resetter", "unlink"))
      /\ ~Refuses(call[s])
  BY <1>0, SaverFacts DEF Control
<1>2. /\ logs' = logs /\ list' = list /\ dirty' = dirty /\ memory' = memory /\ data' = data
      /\ isInitialized' = isInitialized /\ version' = version
      /\ savepointVersion' = savepointVersion /\ UNCHANGED counters
  BY DEF SavepointReplace, delta, memory
<1>3. CASE call[s].own = savepointVersion /\ status = "ready"
  <2>1. /\ dataFile' = tempFile /\ tempFile' = NoFile /\ Goto(s, "unlink") /\ queue' = queue
        /\ isSavepoint' = isSavepoint /\ status' = status
    BY <1>3 DEF SavepointReplace
  <2>2. /\ OnlyCall(s) /\ call'[s].pc = "unlink" /\ call'[s].id = call[s].id
        /\ call'[s].own = call[s].own
    BY <1>1, <2>1, GotoMoves DEF Moves, SameButPc, Steps, TypeOK
  <2>3. \A q \in Procs \ {s} : call[q].pc \in Passive
    BY <1>0, <1>1, OthersPassive
  <2>4. ~At("resetter", "unlink")
    BY <1>1, <2>3, Callers DEF At, Passive
  <2>5. /\ tempFile \in Data /\ call[s].id \in Existing
        /\ Covers(tempFile, call[s].id, BaseData, Existing, Kept)
    BY <1>0, <1>1, <1>3, <2>4 DEF SaverInv, SnapInv, Snapshotted, At
  <2>6. tempFile # NoFile /\ tempFile # Torn
    BY <2>5, DiskAssumption DEF Data
  <2>7. BaseData' = tempFile
    BY <2>1, <2>6 DEF BaseData
  <2>8. ~Refuses(call'[s])
    BY <2>2 DEF Refuses
  <2>9. Existing' = Existing /\ Kept' = Kept /\ \A i : Lines(i)' = Lines(i)
    <3>1. \A i : Lines(i)' = Lines(i)
      BY <1>1, <1>2, <2>2, LinesSame
    <3> QED
      BY <1>2, <3>1 DEF Existing, Kept
  <2>10. Content' = Content
    BY <2>5, <2>7, <2>9, ExistingIds, ReplayOverCover DEF Content
  <2>11. TypeOK'
    BY <1>1, <1>2, <2>1, <2>2, <2>5 DEF TypeOK, OnlyCall, counters
  <2>12. Control'
    <3>1. "unlink" \in StepsOf(s)
      BY <1>1 DEF StepsOf
    <3> QED
      BY <1>0, <1>1, <2>1, <2>2, <3>1, ControlKept
  <2>13. CallInv(s)'
    <3>1. Snapshotted(s)' = tempFile
      BY <2>1, <2>2 DEF Snapshotted, At
    <3>2. Covers(tempFile, call[s].id, tempFile, Existing, Kept)
      BY <2>5, ExistingIds, CoversItself
    <3>3. SnapInv(s)'
      BY <2>2, <2>5, <2>7, <2>9, <3>1, <3>2 DEF SnapInv
    <3>4. SaverInv(s)'
      BY <1>1, <1>2, <1>3, <2>2, <2>5, <3>1, <3>3 DEF SaverInv, Loading
    <3>5. LoadInv(s)'
      BY <2>2 DEF LoadInv, Loading
    <3> QED
      BY <1>1, <3>4, <3>5 DEF CallInv
  <2>14. \A t \in Savers \ {s} : call[t].pc \in {"writing", "relock"} => SnapInv(t)'
    BY <1>1 DEF At
  <2>15. ResetInv' /\ \A q \in Procs : CallInv(q)'
    BY <1>0, <1>1, <1>2, <2>2, <2>3, <2>13, <2>14, LockedFrame
  <2>16. FilesInv' /\ ListInv' /\ LinesInv'
    BY <1>1, <1>2, <2>1, <2>9 DEF FilesInv, ListInv, LinesInv
  <2>17. DataInv'
    <3>1. \A w \in Writers : ~At(w, "apply")
      BY <1>1, <2>3, Callers DEF At, Passive
    <3> QED
      BY <1>1, <1>2, <2>4, <2>10, <3>1 DEF DataInv
  <2>18. DiskInv'
    BY <2>1, <2>6, <2>11, <2>12, <2>15, <2>16, <2>17 DEF DiskInv
  <2> QED
    BY <1>1, <2>2, <2>10, <2>18, StoredSame
<1>4. CASE ~(call[s].own = savepointVersion /\ status = "ready")
  <2>1. SavepointEnds(s) /\ Return(s) /\ queue' = Tail(queue) /\ UNCHANGED <<dataFile, tempFile>>
    BY <1>4 DEF SavepointReplace, Release
  <2>2. /\ files' = files /\ writes' = writes /\ crashes' = crashes /\ resets' = resets
        /\ dirty' \in BOOLEAN /\ ioFailed' \in BOOLEAN /\ savepointVersion' \in Nat
    BY <1>1, <1>2, <2>1 DEF files, counters, TypeOK
  <2> QED
    BY <1>0, <1>2, <2>1, <2>2, SavepointLeaves
<1> QED
  BY <1>3, <1>4

\* replaceDataNoLock(): what is left after the oldest delta file is removed.
LEMMA OldestUnlinked ==
  ASSUME TypeOK, ListInv, status # "down", list # <<>>, UnlinkOldest
  PROVE  /\ list[1] \in Existing /\ \A i \in Existing : list[1] <= i
         /\ Existing' = Existing \ {list[1]}
         /\ logs' \in [Ids -> Log \cup {NoFile}] /\ list' \in Seq(Ids)
         /\ \A i \in Ids \ {list[1]} : logs'[i] = logs[i]
         /\ \A n \in 1 .. Len(list') : list'[n] = list'[1] + n - 1
         /\ Existing' = IF list' = <<>> THEN {} ELSE list'[1] .. list'[Len(list')]
<1>0. list \in Seq(Ids) /\ MaxId \in Nat /\ logs \in [Ids -> Log \cup {NoFile}]
  BY DiskAssumption DEF TypeOK, Ids
<1>1. /\ Len(list) \in Nat /\ Len(list) >= 1 /\ list[1] \in Ids /\ Head(list) = list[1]
      /\ list[Len(list)] = list[1] + Len(list) - 1 /\ Existing = list[1] .. list[Len(list)]
      /\ list[1] \in Existing /\ \A i \in Existing : list[1] <= i
  BY ListFacts
<1>2. logs' = [logs EXCEPT ![list[1]] = NoFile] /\ list' = Tail(list)
  BY <1>1 DEF UnlinkOldest
<1>3. /\ logs' \in [Ids -> Log \cup {NoFile}] /\ logs'[list[1]] = NoFile
      /\ \A i \in Ids \ {list[1]} : logs'[i] = logs[i]
  BY <1>0, <1>1, <1>2
<1>4. Existing' = Existing \ {list[1]}
  BY <1>1, <1>3 DEF Existing, Ids
<1>5. /\ list' \in Seq(Ids) /\ Len(list') = Len(list) - 1
      /\ \A n \in 1 .. Len(list) - 1 : list'[n] = list[n + 1]
  BY <1>0, <1>1, <1>2
<1>6. list[1] \in Int
  BY <1>0, <1>1 DEF Ids
<1>7. ASSUME NEW n \in 1 .. Len(list) - 1 PROVE list'[n] = list[1] + n
  <2>1. n + 1 \in 1 .. Len(list)
    BY <1>1
  <2>2. list[n + 1] = list[1] + (n + 1) - 1
    BY <2>1 DEF ListInv
  <2> QED
    BY <1>1, <1>5, <1>6, <2>2
<1>8. \A n \in 1 .. Len(list') : list'[n] = list'[1] + n - 1
  <2> SUFFICES ASSUME NEW n \in 1 .. Len(list) - 1
               PROVE  list'[n] = list'[1] + n - 1
    BY <1>5
  <2>1. 1 \in 1 .. Len(list) - 1
    BY <1>1
  <2>2. list'[n] = list[1] + n /\ list'[1] = list[1] + 1
    BY <1>7, <2>1
  <2> QED
    BY <1>1, <1>6, <2>2
<1>9. Existing' = IF list' = <<>> THEN {} ELSE list'[1] .. list'[Len(list')]
  <2>1. CASE list' = <<>>
    <3>1. Len(list) = 1
      BY <1>1, <1>5, <2>1
    <3> QED
      BY <1>1, <1>4, <1>6, <2>1, <3>1
  <2>2. CASE list' # <<>>
    <3>1. Len(list') >= 1 /\ Len(list) >= 2
      BY <1>1, <1>5, <2>2
    <3>2. list'[1] = list[1] + 1 /\ list'[Len(list')] = list[1] + (Len(list) - 1)
      BY <1>1, <1>5, <1>7, <3>1
    <3> QED
      BY <1>1, <1>4, <1>6, <2>2, <3>1, <3>2
  <2> QED
    BY <2>1, <2>2
<1> QED
  BY <1>1, <1>3, <1>4, <1>5, <1>8, <1>9

\* ListIsFiles in the next state.
LEMMA ListIsFilesNext ==
  (TypeOK /\ ListInv /\ status # "down" => FilesInv)'
BY ListIsFiles, PTL

\* The data file covers every delta file that is removed.
LEMMA UnlinkKeeps ==
  ASSUME DiskInv, NEW s \in Savers, Unlink(s)
  PROVE  DiskInv' /\ Stored' = Stored /\ OnlyCall(s)
<1>0. At(s, "unlink") /\ ~At(s, "idle") /\ call[s].pc = "unlink" /\ call[s].pc \notin Passive
  BY DEF Unlink, At, Passive
<1>1. /\ TypeOK /\ Control /\ LockedInv /\ ListInv /\ LinesInv /\ FilesInv /\ DataInv /\ dataFile # Torn
      /\ SaverInv(s) /\ call[s] \in Call /\ isSavepoint /\ status # "down" /\ savepointVersion \in Nat
      /\ queue \in Seq(Procs) /\ s \in Procs /\ s \notin Writers /\ s \notin Readers /\ s # "resetter"
      /\ \A t \in Savers \ {s} : At(t, "idle")
      /\ OnlyCall(s) => (At("resetter", "unlink")' <=> At("resetter", "unlink"))
      /\ ~Refuses(call[s])
  BY <1>0, SaverFacts DEF Control
<1>2. Holds(s) /\ \A q \in Procs \ {s} : call[q].pc \in Passive
  BY <1>0, <1>1, OthersPassive DEF LockedInv
<1>3. /\ dataFile' = dataFile /\ tempFile' = tempFile /\ memory' = memory /\ data' = data
      /\ isInitialized' = isInitialized /\ version' = version
      /\ savepointVersion' = savepointVersion /\ UNCHANGED counters
  BY DEF Unlink, memory
<1>4. CASE list # <<>> /\ Head(list) # call[s].id /\ UnlinkOldest
           /\ UNCHANGED <<call, queue, isSavepoint, status, dirty>>
  <2> DEFINE lo == list[1]
             id == call[s].id
  <2>1. /\ lo \in Existing /\ (\A i \in Existing : lo <= i) /\ Existing' = Existing \ {lo}
        /\ logs' \in [Ids -> Log \cup {NoFile}] /\ list' \in Seq(Ids)
        /\ \A i \in Ids \ {lo} : logs'[i] = logs[i]
        /\ \A n \in 1 .. Len(list') : list'[n] = list'[1] + n - 1
        /\ Existing' = IF list' = <<>> THEN {} ELSE list'[1] .. list'[Len(list')]
    BY <1>1, <1>4, OldestUnlinked
  <2>2. OnlyCall(s) /\ call' = call
    BY <1>1, <1>4 DEF OnlyCall, TypeOK
  <2>3. ~At("resetter", "unlink") /\ \A w \in Writers : call[w].pc \notin {"apply", "truncate"}
    BY <1>1, <1>2, Callers DEF At, Passive
  <2>4. \A i : Lines(i) = logs[i] /\ Lines(i)' = logs'[i]
    BY <2>2, <2>3, QuietLines, QuietLinesNext
  <2>5. /\ dataFile \in Data /\ call[s].own = savepointVersion /\ id \in Existing
        /\ Covers(dataFile, id, BaseData, Existing, Kept)
    BY <1>0, <1>1, <2>3 DEF SaverInv, SnapInv, Snapshotted, At
  <2>6. BaseData = dataFile /\ BaseData' = dataFile
    BY <1>3, <2>5, DiskAssumption DEF BaseData, Data
  <2>7. Existing \in SUBSET Ids /\ \A i \in Existing \ {lo} : Kept'[i] = Kept[i]
    BY <2>1, <2>4, ExistingIds, ExistingIdsNext
  <2>8. id > lo /\ id \in Int /\ id \in Existing \ {lo}
    <3>1. id # lo
      BY <1>1, <1>4, ListFacts
    <3>2. id \in Int /\ lo \in Int
      <4>1. \A i \in Ids : i \in Int
        BY DiskAssumption DEF Ids
      <4> QED
        BY <2>1, <2>5, <2>7, <4>1
    <3> QED
      BY <2>1, <2>5, <3>1, <3>2
  <2> HIDE DEF lo, id
  <2> DEFINE S == Existing
             L == Kept
             L2 == Kept'
  <2>a. /\ S \in SUBSET Ids /\ lo \in S /\ id > lo /\ id \in Int /\ Covers(dataFile, id, dataFile, S, L)
        /\ \A i \in S : lo <= i
        /\ \A i \in S \ {lo} : L2[i] = L[i]
    BY <2>1, <2>5, <2>6, <2>7, <2>8
  <2>b. /\ Existing' = S \ {lo} /\ Content = Replayed(dataFile, S, L)
        /\ Content' = Replayed(dataFile, S \ {lo}, L2)
    BY <2>1, <2>6 DEF Content
  <2>c. Covers(dataFile, id, dataFile, S \ {lo}, L2) => Covers(dataFile, id, dataFile, Existing', Kept')
    BY <2>1
  <2> HIDE DEF S, L, L2
  <2>9. Content' = Content
    BY <2>a, <2>b, ReplayWithoutOldest
  <2>10. Covers(dataFile, id, dataFile, Existing', Kept')
    BY <2>a, <2>c, CoversWithoutOldest
  <2>11. TypeOK'
    BY <1>1, <1>3, <1>4, <2>1 DEF TypeOK, counters, Ids
  <2>12. Control'
    <3>1. "unlink" \in StepsOf(s) /\ queue' = queue /\ isSavepoint' = isSavepoint /\ status' = status
      BY <1>1, <1>4 DEF StepsOf
    <3> QED
      BY <1>0, <1>1, <1>2, <2>2, <3>1, ControlKept
  <2>13. CallInv(s)'
    <3>1. Snapshotted(s)' = dataFile
      BY <1>0, <1>3, <2>2 DEF Snapshotted, At
    <3>2. SnapInv(s)'
      BY <2>1, <2>2, <2>6, <2>8, <2>10, <3>1 DEF SnapInv, id
    <3>3. SaverInv(s)'
      BY <1>0, <1>1, <1>3, <2>2, <2>5, <3>1, <3>2 DEF SaverInv, Loading
    <3>4. LoadInv(s)'
      BY <1>0, <2>2 DEF LoadInv, Loading
    <3> QED
      BY <1>1, <3>3, <3>4 DEF CallInv
  <2>14. \A t \in Savers \ {s} : call[t].pc \in {"writing", "relock"} => SnapInv(t)'
    BY <1>1 DEF At
  <2>15. ResetInv' /\ \A q \in Procs : CallInv(q)'
    BY <1>0, <1>1, <1>2, <1>3, <2>2, <2>13, <2>14, LockedFrame
  <2>16. ListInv' /\ FilesInv'
    <3>1. ListInv' /\ status' # "down"
      BY <1>1, <1>4, <2>1 DEF ListInv
    <3> QED
      BY <2>11, <3>1, ListIsFilesNext
  <2>17. LinesInv'
    <3>1. \A i \in Existing' : i \in Existing /\ Lines(i)' = Lines(i)
      BY <2>1, <2>4, <2>7
    <3> QED
      BY <1>1, <3>1 DEF LinesInv
  <2>18. DataInv'
    BY <1>1, <1>3, <2>2, <2>9 DEF DataInv, At
  <2>19. DiskInv'
    BY <1>1, <1>3, <2>11, <2>12, <2>15, <2>16, <2>17, <2>18 DEF DiskInv
  <2> QED
    BY <1>1, <2>2, <2>9, <2>19, StoredSame
<1>5. CASE /\ dirty' = (dirty /\ list # <<>>) /\ Release /\ SavepointEnds(s) /\ Return(s)
           /\ UNCHANGED <<logs, list>>
  <2>1. /\ files' = files /\ list' = list /\ writes' = writes /\ crashes' = crashes /\ resets' = resets
        /\ dirty' \in BOOLEAN /\ ioFailed' \in BOOLEAN /\ savepointVersion' \in Nat
        /\ queue' = Tail(queue)
    BY <1>1, <1>3, <1>5 DEF files, counters, TypeOK, Release
  <2> QED
    BY <1>0, <1>2, <1>3, <1>5, <2>1, SavepointLeaves
<1> QED
  BY <1>4, <1>5 DEF Unlink

-----------------------------------------------------------------------------
(* reset().                                                                 *)

\* What is known of a reset on its way.
LEMMA ResetFacts ==
  ASSUME DiskInv
  PROVE  /\ TypeOK /\ Control /\ ListInv /\ LinesInv /\ FilesInv /\ DataInv /\ ResetInv /\ dataFile # Torn
         /\ DownInv /\ LockedInv /\ queue \in Seq(Procs) /\ savepointVersion \in Nat
         /\ call["resetter"] \in Call /\ ~Refuses(call["resetter"])
         /\ "resetter" \in Procs /\ "resetter" \notin Writers /\ "resetter" \notin Readers
         /\ "resetter" \notin Savers
         /\ StepsOf("resetter") = {"idle", "lock", "move", "unlink"}
<1>1. /\ "resetter" \in Procs /\ "resetter" \notin Writers /\ "resetter" \notin Readers
      /\ "resetter" \notin Savers
  BY Callers
<1>2. call["resetter"] \in Call /\ queue \in Seq(Procs) /\ savepointVersion \in Nat
  BY <1>1 DEF DiskInv, TypeOK
<1>3. ~Refuses(call["resetter"])
  BY DEF DiskInv, Control, StepsInv, Refuses
<1> QED
  BY <1>1, <1>2, <1>3 DEF DiskInv, Control, StepsOf

\* A reset() asks for the mutex.
LEMMA ResetCallKeeps ==
  ASSUME SafelyUsed, DiskInv, NEW d \in ResetTargets, ResetCall(d)
  PROVE  /\ DiskInv' /\ Stored' = Stored /\ At("resetter", "idle")
         /\ OnlyCall("resetter") /\ call'["resetter"].pc = "lock" /\ call'["resetter"].content = d
         /\ d \in Data
<1> DEFINE r == "resetter"
<1>0. /\ TypeOK /\ Control /\ queue \in Seq(Procs) /\ r \in Procs /\ r \notin Writers /\ r \notin Readers
      /\ r \notin Savers /\ StepsOf(r) = {"idle", "lock", "move", "unlink"}
      /\ ~Refuses(call[r])
  BY ResetFacts
<1>1. /\ At(r, "idle") /\ status # "down" /\ queue' = Append(queue, r) /\ resets < MaxResets
      /\ resets' = resets + 1 /\ (\A q \in Readers : At(q, "idle")) /\ files' = files
      /\ status' = status /\ list' = list /\ dirty' = dirty /\ data' = data
      /\ isInitialized' = isInitialized /\ version' = version /\ isSavepoint' = isSavepoint
      /\ savepointVersion' = savepointVersion
      /\ writes' = writes /\ crashes' = crashes /\ ioFailed' = ioFailed
  BY DEF ResetCall, SafelyUsed, MayCall, Lock, delta, memory, saving
<1>2. d \in Data
  BY DEF ResetTargets, Initial, Data
<1>3. OnlyCall(r) /\ call'[r].pc = "lock" /\ call'[r].content = d
  <2> DEFINE e == [NoCall EXCEPT !.pc = "lock", !.content = d]
  <2>1. e \in Call /\ e.pc = "lock" /\ e.content = d
    BY <1>2, NoCallIsCall DEF Call, Steps
  <2>2. call' = [call EXCEPT ![r] = e]
    BY DEF ResetCall
  <2> HIDE DEF e
  <2> QED
    BY <1>0, <2>1, <2>2, CallBecomes DEF TypeOK
<1>4. TypeOK'
  <2>1. resets' \in 0 .. MaxResets
    BY <1>0, <1>1, DiskAssumption DEF TypeOK
  <2> QED
    BY <1>0, <1>1, <1>3, <2>1, QueueMoves DEF TypeOK, files, OnlyCall
<1>5. Control'
  BY <1>0, <1>1, <1>3, ControlKept DEF Passive
<1>6. CallInv(r)' /\ ResetInv'
  BY <1>0, <1>2, <1>3 DEF CallInv, LoadInv, Loading, ResetInv, At
<1>7. At(r, "unlink")' <=> At(r, "unlink")
  BY <1>1, <1>3 DEF At
<1>8. LeavesFiles(r)
  BY <1>0, <1>1, <1>3, <1>7 DEF LeavesFiles, files
<1>9. DiskInv' /\ Content' = Content
  BY <1>0, <1>4, <1>5, <1>6, <1>8, QuietStep
<1> QED
  BY <1>0, <1>1, <1>2, <1>3, <1>7, <1>9, StoredSame DEF At

\* A reset() gets the mutex and writes its data to the temporary file, or throws.
LEMMA ResetLockedKeeps ==
  ASSUME DiskInv, ResetLocked
  PROVE  /\ DiskInv' /\ Stored' = Stored /\ At("resetter", "lock")
         /\ Moves("resetter", "move") \/ Returns("resetter")
<1> DEFINE r == "resetter"
<1>0. /\ TypeOK /\ Control /\ DownInv /\ ResetInv /\ queue \in Seq(Procs) /\ r \in Procs /\ r \notin Writers
      /\ r \notin Readers /\ r \notin Savers /\ StepsOf(r) = {"idle", "lock", "move", "unlink"}
      /\ ~Refuses(call[r])
  BY ResetFacts
<1>1. /\ At(r, "lock") /\ Holds(r) /\ files' = files
      /\ status' = status /\ list' = list /\ dirty' = dirty /\ data' = data
      /\ isInitialized' = isInitialized /\ version' = version /\ isSavepoint' = isSavepoint
      /\ savepointVersion' = savepointVersion
      /\ writes' = writes /\ crashes' = crashes /\ resets' = resets
  BY DEF ResetLocked, delta, memory, saving
<1>2. status # "down" /\ ~At(r, "idle")
  BY <1>0, <1>1, BusyIsUp DEF At
<1>3. \/ Moves(r, "move") /\ queue' = queue /\ ioFailed' = ioFailed
      \/ Returns(r) /\ queue' = Tail(queue) /\ ioFailed' \in BOOLEAN
  <2>1. Goto(r, "move") => Moves(r, "move")
    BY <1>0, GotoMoves DEF Steps, TypeOK
  <2>2. Return(r) => Returns(r)
    BY <1>0, ReturnReturns DEF TypeOK
  <2>3. ioFailed \in BOOLEAN
    BY <1>0 DEF TypeOK
  <2> QED
    BY <2>1, <2>2, <2>3 DEF ResetLocked, Release
<1>4. /\ OnlyCall(r) /\ call'[r].pc \in {"idle", "move"}
      /\ call'[r].pc = "move" => call'[r].content = call[r].content /\ queue' = queue
  BY <1>3, NoCallIsCall DEF Moves, Returns, SameButPc
<1>5. TypeOK'
  <2>1. queue' \in Seq(Procs) /\ ioFailed' \in BOOLEAN
    BY <1>0, <1>1, <1>3, QueueMoves DEF TypeOK
  <2> QED
    BY <1>0, <1>1, <1>4, <2>1 DEF TypeOK, files, OnlyCall
<1>6. Control'
  BY <1>0, <1>1, <1>2, <1>3, <1>4, ControlKept DEF Passive
<1>7. CallInv(r)' /\ ResetInv'
  BY <1>0, <1>1, <1>2, <1>4 DEF CallInv, LoadInv, Loading, ResetInv, At
<1>8. At(r, "unlink")' <=> At(r, "unlink")
  BY <1>1, <1>4 DEF At
<1>9. LeavesFiles(r)
  BY <1>0, <1>1, <1>2, <1>4, <1>8 DEF LeavesFiles, files
<1>10. DiskInv' /\ Content' = Content
  BY <1>0, <1>5, <1>6, <1>7, <1>9, QuietStep
<1> QED
  BY <1>0, <1>1, <1>3, <1>4, <1>8, <1>10, StoredSame DEF At

\* The reset happens when the data file is replaced.
LEMMA ResetMoveKeeps ==
  ASSUME DiskInv, ResetMove
  PROVE  /\ DiskInv' /\ At("resetter", "move") /\ Moves("resetter", "unlink")
         /\ Stored' = call["resetter"].content
<1> DEFINE r == "resetter"
<1>0. /\ TypeOK /\ Control /\ DownInv /\ LockedInv /\ ListInv /\ LinesInv /\ FilesInv /\ ResetInv
      /\ queue \in Seq(Procs) /\ savepointVersion \in Nat /\ r \in Procs /\ r \notin Writers
      /\ r \notin Readers /\ r \notin Savers /\ StepsOf(r) = {"idle", "lock", "move", "unlink"}
      /\ ~Refuses(call[r])
  BY ResetFacts
<1>1. /\ At(r, "move") /\ dataFile' = call[r].content /\ tempFile' = tempFile /\ logs' = logs
      /\ status' = status /\ queue' = queue /\ list' = list /\ dirty' = dirty /\ data' = data
      /\ isInitialized' = isInitialized /\ version' = version /\ isSavepoint' = isSavepoint
      /\ savepointVersion' = savepointVersion /\ UNCHANGED counters /\ Goto(r, "unlink")
  BY DEF ResetMove, delta, memory, saving
<1>2. /\ status # "down" /\ ~At(r, "idle") /\ Holds(r)
      /\ \A q \in Procs \ {r} : call[q].pc \in Passive
  <2>1. ~At(r, "idle") /\ call[r].pc \notin Passive
    BY <1>1 DEF At, Passive
  <2> QED
    BY <1>0, <2>1, BusyIsUp, OthersPassive DEF LockedInv
<1>3. Moves(r, "unlink")
  BY <1>0, <1>1, GotoMoves DEF Steps, TypeOK
<1>4. OnlyCall(r) /\ call'[r].pc = "unlink" /\ call'[r].content = call[r].content
  BY <1>3 DEF Moves, SameButPc
<1>5. call[r].content \in Data /\ call[r].content # Torn
  <2>1. call[r].content \in Data
    BY <1>0, <1>2 DEF ResetInv
  <2> QED
    BY <2>1, DiskAssumption DEF Data
<1>6. TypeOK'
  BY <1>0, <1>1, <1>4, <1>5 DEF TypeOK, counters, OnlyCall
<1>7. Control'
  BY <1>0, <1>1, <1>2, <1>4, ControlKept
<1>8. CallInv(r)' /\ ResetInv' /\ DataInv'
  BY <1>0, <1>1, <1>4, <1>5 DEF CallInv, LoadInv, Loading, ResetInv, DataInv, At
<1>9. \A i : Lines(i)' = Lines(i)
  BY <1>0, <1>1, <1>4, LinesSame
<1>10. FilesInv' /\ ListInv' /\ LinesInv'
  <2>1. Existing' = Existing
    BY <1>1 DEF Existing
  <2> QED
    BY <1>0, <1>1, <1>9, <2>1 DEF FilesInv, ListInv, LinesInv
<1>11. \A s \in Savers \ {r} : call[s].pc \in {"writing", "relock"} => SnapInv(s)'
  BY <1>4 DEF SnapInv, At
<1>12. \A q \in Procs : CallInv(q)'
  BY <1>0, <1>1, <1>2, <1>4, <1>8, <1>11, LockedFrame
<1>13. DiskInv'
  BY <1>1, <1>5, <1>6, <1>7, <1>8, <1>10, <1>12 DEF DiskInv
<1>14. Stored' = call[r].content
  BY <1>4, StoredIsNext DEF At
<1> QED
  BY <1>1, <1>3, <1>13, <1>14

\* The delta files go one after the other, and no savepoint that was taken before is used.
LEMMA ResetUnlinkKeeps ==
  ASSUME DiskInv, ResetUnlink
  PROVE  /\ DiskInv' /\ Stored' = Stored /\ At("resetter", "unlink")
         /\ call' = call \/ Returns("resetter")
<1> DEFINE r == "resetter"
<1>0. /\ TypeOK /\ Control /\ DownInv /\ LockedInv /\ ListInv /\ LinesInv /\ FilesInv /\ ResetInv
      /\ queue \in Seq(Procs) /\ savepointVersion \in Nat /\ r \in Procs /\ r \notin Writers
      /\ r \notin Readers /\ r \notin Savers /\ StepsOf(r) = {"idle", "lock", "move", "unlink"}
      /\ ~Refuses(call[r])
  BY ResetFacts
<1>1. /\ At(r, "unlink") /\ dataFile' = dataFile /\ tempFile' = tempFile
      /\ isInitialized' = isInitialized /\ version' = version /\ isSavepoint' = isSavepoint
      /\ UNCHANGED counters
  BY DEF ResetUnlink
<1>2. /\ status # "down" /\ ~At(r, "idle") /\ Holds(r)
      /\ \A q \in Procs \ {r} : call[q].pc \in Passive
  <2>1. ~At(r, "idle") /\ call[r].pc \notin Passive
    BY <1>1 DEF At, Passive
  <2> QED
    BY <1>0, <2>1, BusyIsUp, OthersPassive DEF LockedInv
<1>3. /\ dataFile = call[r].content /\ dataFile \in Data /\ dataFile # Torn /\ dataFile # NoFile
      /\ Stored = dataFile
  <2>1. dataFile = call[r].content /\ dataFile \in Data /\ Stored = call[r].content
    BY <1>0, <1>1, <1>2, StoredIs DEF ResetInv
  <2> QED
    BY <2>1, DiskAssumption DEF Data
<1>4. \A w \in Writers : call[w].pc \notin {"apply", "truncate"}
  BY <1>0, <1>2, Callers DEF Passive
<1>5. CASE list # <<>> /\ UnlinkOldest
           /\ UNCHANGED <<call, queue, dirty, data, savepointVersion, status>>
  <2>1. /\ Existing' = Existing \ {list[1]} /\ list[1] \in Existing
        /\ logs' \in [Ids -> Log \cup {NoFile}] /\ list' \in Seq(Ids)
        /\ \A i \in Ids \ {list[1]} : logs'[i] = logs[i]
        /\ \A n \in 1 .. Len(list') : list'[n] = list'[1] + n - 1
        /\ Existing' = IF list' = <<>> THEN {} ELSE list'[1] .. list'[Len(list')]
    BY <1>0, <1>2, <1>5, OldestUnlinked
  <2>2. OnlyCall(r) /\ call' = call /\ queue' = queue
    BY <1>0, <1>5 DEF OnlyCall, TypeOK
  <2>3. \A i : Lines(i) = logs[i] /\ Lines(i)' = logs'[i]
    BY <1>4, <2>2, QuietLines, QuietLinesNext
  <2>4. TypeOK'
    BY <1>0, <1>1, <1>5, <2>1 DEF TypeOK, counters, Ids
  <2>5. Control'
    <3>1. call'[r].pc \in StepsOf(r)
      BY <1>0, <1>1, <2>2 DEF At
    <3> QED
      BY <1>0, <1>1, <1>2, <1>5, <2>2, <3>1, ControlKept
  <2>6. CallInv(r)' /\ ResetInv' /\ DataInv'
    BY <1>0, <1>1, <2>2 DEF CallInv, LoadInv, Loading, ResetInv, DataInv, At
  <2>7. ListInv' /\ FilesInv'
    <3>1. ListInv' /\ status' # "down"
      BY <1>2, <1>5, <2>1 DEF ListInv
    <3> QED
      BY <2>4, <3>1, ListIsFilesNext
  <2>8. LinesInv'
    <3>1. \A i \in Existing' : i \in Existing /\ Lines(i)' = Lines(i)
      BY <2>1, <2>3, ExistingIds
    <3> QED
      BY <1>0, <3>1 DEF LinesInv
  <2>9. \A s \in Savers \ {r} : call[s].pc \in {"writing", "relock"} => SnapInv(s)'
    BY <1>1, <2>2 DEF SnapInv, At
  <2>10. \A q \in Procs : CallInv(q)'
    BY <1>0, <1>1, <1>2, <1>5, <2>2, <2>6, <2>9, LockedFrame
  <2>11. DiskInv'
    BY <1>1, <1>3, <2>4, <2>5, <2>6, <2>7, <2>8, <2>10 DEF DiskInv
  <2>12. Stored' = Stored
    BY <1>1, <1>3, <2>2, StoredIsNext DEF At
  <2> QED
    BY <1>1, <2>2, <2>11, <2>12
<1>6. CASE /\ list = <<>> /\ dirty' = FALSE /\ data' = call[r].content
           /\ savepointVersion' = savepointVersion + 1 /\ status' = "ready"
           /\ Release /\ Return(r) /\ UNCHANGED <<logs, list>>
  <2>1. Returns(r) /\ OnlyCall(r) /\ call'[r].pc = "idle" /\ queue' = Tail(queue)
    BY <1>0, <1>6, ReturnReturns, NoCallIsCall DEF Returns, TypeOK, Release
  <2>2. TypeOK'
    <3>1. /\ data' \in Data /\ savepointVersion' \in Nat /\ queue' \in Seq(Procs) /\ dirty' \in BOOLEAN
          /\ status' \in {"down", "ready", "closed"} /\ call' \in [Procs -> Call]
      <4>1. data' \in Data /\ savepointVersion' \in Nat
        BY <1>0, <1>3, <1>6
      <4>2. queue' \in Seq(Procs)
        BY <1>0, <1>2, <2>1, QueueMoves
      <4> QED
        BY <1>6, <2>1, <4>1, <4>2 DEF OnlyCall
    <3>2. UNCHANGED <<dataFile, tempFile, logs, list, isInitialized, version, isSavepoint, counters>>
      BY <1>1, <1>6
    <3> QED
      BY <1>0, <3>1, <3>2 DEF TypeOK, counters
  <2>3. Control'
    BY <1>0, <1>1, <1>2, <1>6, <2>1, ControlKept DEF Passive
  <2>4. Existing = {} /\ Existing' = {} /\ BaseData' = dataFile
    BY <1>0, <1>1, <1>2, <1>3, <1>6 DEF ListInv, Existing, BaseData
  <2>5. Content' = dataFile
    <3>1. Replayed(dataFile, {}, Kept') = dataFile
      BY <1>3, ReplayOfNone
    <3> QED
      BY <2>4, <3>1 DEF Content
  <2>6. CallInv(r)' /\ ResetInv' /\ DataInv'
    BY <1>0, <1>3, <1>6, <2>1, <2>5 DEF CallInv, LoadInv, Loading, ResetInv, DataInv, At
  <2>7. FilesInv' /\ ListInv' /\ LinesInv'
    BY <1>0, <1>2, <1>6, <2>4 DEF FilesInv, ListInv, LinesInv
  <2>8. ASSUME NEW s \in Savers \ {r}, call[s].pc \in {"writing", "relock"}
        PROVE  SnapInv(s)'
    <3>1. s \in Procs /\ call'[s] = call[s]
      BY <2>1, Callers DEF OnlyCall
    <3>2. call[s].own <= savepointVersion /\ call[s].own \in Nat
      BY <1>0, <2>8, <3>1 DEF DiskInv, CallInv, SaverInv, TypeOK, Call
    <3>3. call'[s].own # savepointVersion'
      BY <1>0, <1>6, <3>1, <3>2
    <3> QED
      BY <3>3 DEF SnapInv
  <2>9. savepointVersion' \in Nat /\ savepointVersion' >= savepointVersion
    BY <1>0, <1>6
  <2>10. \A q \in Procs : CallInv(q)'
    BY <1>0, <1>1, <1>2, <2>1, <2>6, <2>8, <2>9, LockedFrame
  <2>11. DiskInv'
    BY <1>1, <1>3, <2>2, <2>3, <2>6, <2>7, <2>10 DEF DiskInv
  <2>12. Stored' = Stored
    BY <1>3, <2>1, <2>5, StoredIsNext DEF At
  <2> QED
    BY <1>1, <2>1, <2>11, <2>12
<1> QED
  BY <1>5, <1>6 DEF ResetUnlink

-----------------------------------------------------------------------------
(* Crash, and the start of the next instance.                               *)

\* Ascending lists the files when their identifiers are consecutive.
LEMMA AscendingIs ==
  ASSUME NEW lo \in Int, NEW hi \in Int, lo <= hi
  PROVE  Ascending(lo .. hi) = [n \in 1 .. hi - lo + 1 |-> lo + n - 1]
<1> DEFINE S == lo .. hi
           before(i) == {j \in S : j < i}
<1>1. Cardinality(S) = hi - lo + 1
  BY FS_Interval
<1>2. ASSUME NEW i \in S PROVE Cardinality(before(i)) = i - lo
  <2>1. before(i) = lo .. (i - 1)
    OBVIOUS
  <2>2. Cardinality(lo .. (i - 1)) = IF lo > i - 1 THEN 0 ELSE (i - 1) - lo + 1
    BY FS_Interval
  <2> HIDE DEF before
  <2> QED
    BY <2>1, <2>2
<1>3. ASSUME NEW n \in 1 .. hi - lo + 1
      PROVE  (CHOOSE i \in S : Cardinality(before(i)) = n - 1) = lo + n - 1
  <2>1. lo + n - 1 \in S
    OBVIOUS
  <2> HIDE DEF before
  <2>2. Cardinality(before(lo + n - 1)) = n - 1
    BY <1>2, <2>1
  <2>3. ASSUME NEW i \in S, Cardinality(before(i)) = n - 1
        PROVE  i = lo + n - 1
    BY <1>2, <2>3
  <2> QED
    BY <2>1, <2>2, <2>3
<1> HIDE DEF S
<1>4. Ascending(S) = [n \in 1 .. Cardinality(S) |-> CHOOSE i \in S : Cardinality(before(i)) = n - 1]
  BY DEF Ascending
<1> HIDE DEF before
<1> QED
  BY <1>1, <1>3, <1>4 DEF S

\* No delta file is an empty list.
LEMMA AscendingIsNone == Ascending({}) = <<>>
<1>1. Cardinality({}) = 0
  BY FS_EmptySet
<1>2. Ascending({}) = [n \in 1 .. 0 |-> CHOOSE i \in {} : Cardinality({j \in {} : j < i}) = n - 1]
  BY <1>1 DEF Ascending
<1> QED
  BY <1>2

\* initializeDelta(): the list that is read from the disk.
LEMMA ListRead ==
  ASSUME FilesInv
  PROVE  LET l == Ascending(Existing)
         IN  /\ l \in Seq(Ids)
             /\ \A n \in 1 .. Len(l) : l[n] = l[1] + n - 1
             /\ Existing = IF l = <<>> THEN {} ELSE l[1] .. l[Len(l)]
<1> DEFINE l == Ascending(Existing)
<1>1. CASE Existing = {}
  <2>1. l = <<>>
    BY <1>1, AscendingIsNone
  <2> HIDE DEF l
  <2>2. l \in Seq(Ids) /\ Len(l) = 0
    BY <2>1
  <2>3. \A n \in 1 .. Len(l) : l[n] = l[1] + n - 1
    BY <2>2
  <2>4. Existing = IF l = <<>> THEN {} ELSE l[1] .. l[Len(l)]
    BY <1>1, <2>1
  <2> QED
    BY <2>2, <2>3, <2>4 DEF l
<1>2. CASE \E lo, hi \in Ids : lo <= hi /\ Existing = lo .. hi
  <2>1. PICK lo, hi \in Ids : lo <= hi /\ Existing = lo .. hi
    BY <1>2
  <2>2. MaxId \in Nat /\ lo \in Int /\ hi \in Int /\ lo \in 0 .. MaxId /\ hi \in 0 .. MaxId
    BY DiskAssumption DEF Ids
  <2>3. l = [n \in 1 .. hi - lo + 1 |-> lo + n - 1]
    BY <2>1, <2>2, AscendingIs
  <2> HIDE DEF l
  <2>4. hi - lo + 1 \in Nat /\ hi - lo + 1 >= 1 /\ \A n \in 1 .. hi - lo + 1 : lo + n - 1 \in Ids
    BY <2>1, <2>2 DEF Ids
  <2>5. l \in Seq(Ids) /\ Len(l) = hi - lo + 1
    BY <2>3, <2>4
  <2>6. l[1] = lo /\ l[Len(l)] = hi /\ l # <<>>
    BY <2>2, <2>3, <2>4, <2>5
  <2> QED
    BY <2>1, <2>2, <2>3, <2>5, <2>6 DEF l
<1> QED
  BY <1>1, <1>2 DEF FilesInv

\* The files of every moment but those of the two windows are those of what was stored.
LEMMA CrashKeeps ==
  ASSUME SafelyUsed, DiskInv, Crash
  PROVE  DiskInv' /\ Stored' = Stored /\ call' = [p \in Procs |-> NoCall]
<1>0. /\ TypeOK /\ dataFile # Torn /\ FilesInv /\ LinesInv
  BY DEF DiskInv
<1>1. /\ ~InWindow /\ crashes < MaxCrashes /\ crashes' = crashes + 1
      /\ status' = "down" /\ queue' = <<>> /\ list' = <<>> /\ dirty' = FALSE
      /\ data' = Initial /\ isInitialized' = FALSE /\ version' = 0
      /\ isSavepoint' = FALSE /\ savepointVersion' = 0
      /\ call' = [p \in Procs |-> NoCall] /\ dataFile' = dataFile /\ tempFile' = tempFile /\ logs' = logs
      /\ UNCHANGED <<writes, resets, ioFailed>>
  BY DEF Crash, SafelyUsed, files
<1>2. \A p \in Procs : call'[p] = NoCall /\ call'[p].pc = "idle"
  BY <1>1, NoCallIsCall
<1>3. ~At("resetter", "unlink") /\ ~At("resetter", "unlink")'
  BY <1>1, <1>2, Callers DEF InWindow, At
<1>4. \A i : Lines(i) = logs[i] /\ Lines(i)' = logs[i]
  <2>1. \A i : Undone(i) = {}
    BY <1>1 DEF InWindow, Undone
  <2>2. \A w \in Writers : call'[w].pc \notin {"apply", "truncate"}
    BY <1>2, Callers
  <2> QED
    BY <1>1, <2>1, <2>2, QuietLinesNext DEF Lines
<1>5. Existing' = Existing /\ Kept' = Kept /\ BaseData' = BaseData /\ Content' = Content
  <2>1. Existing' = Existing /\ BaseData' = BaseData
    BY <1>1 DEF Existing, BaseData
  <2>2. Kept' = Kept
    BY <1>4 DEF Kept
  <2> QED
    BY <2>1, <2>2 DEF Content
<1>6. TypeOK'
  <2>1. call' \in [Procs -> Call] /\ Initial \in Data /\ crashes + 1 \in 0 .. MaxCrashes
    BY <1>0, <1>1, NoCallIsCall, DiskAssumption DEF Initial, Data, TypeOK
  <2> QED
    <3>1. /\ dataFile' \in Data \cup {NoFile, Torn} /\ tempFile' \in Data \cup {NoFile, Torn}
          /\ logs' \in [0 .. MaxId -> Log \cup {NoFile}] /\ writes' \in 0 .. MaxWrites
          /\ resets' \in 0 .. MaxResets /\ ioFailed' \in BOOLEAN
      BY <1>0, <1>1 DEF TypeOK
    <3>2. /\ data' \in Data /\ call' \in [Procs -> Call] /\ crashes' \in 0 .. MaxCrashes
      BY <1>1, <2>1
    <3>3. queue' \in Seq(Procs) /\ list' \in Seq(0 .. MaxId)
      BY <1>1
    <3>4. dirty' \in BOOLEAN /\ isInitialized' \in BOOLEAN /\ isSavepoint' \in BOOLEAN
      BY <1>1
    <3>5. /\ status' \in {"down", "ready", "closed"} /\ savepointVersion' \in Nat /\ version' \in Nat
      BY <1>1
    <3> QED
      BY <3>1, <3>2, <3>3, <3>4, <3>5 DEF TypeOK
<1>7. Control'
  <2>1. StepsInv'
    BY <1>2, StepsAreNext DEF StepsOf
  <2>2. LockedInv' /\ SaversInv' /\ DownInv'
    BY <1>2, Callers DEF LockedInv, SaversInv, DownInv, At, Passive
  <2> QED
    BY <2>1, <2>2 DEF Control
<1>8. \A p \in Procs : CallInv(p)'
  BY <1>2 DEF CallInv, WriterInv, SaverInv, LoadInv, Loading
<1>9. FilesInv' /\ ListInv' /\ LinesInv' /\ DataInv' /\ ResetInv'
  BY <1>0, <1>1, <1>2, <1>4, <1>5, Callers DEF FilesInv, ListInv, LinesInv, DataInv, ResetInv, At
<1>10. DiskInv'
  BY <1>0, <1>1, <1>6, <1>7, <1>8, <1>9 DEF DiskInv
<1> QED
  BY <1>1, <1>3, <1>5, <1>10, StoredIs, StoredIsNext

\* A start finds the files as they are.
LEMMA RestartKeeps ==
  ASSUME DiskInv, Restart
  PROVE  DiskInv' /\ Stored' = Stored /\ call' = call
<1>0. /\ TypeOK /\ dataFile # Torn /\ FilesInv /\ LinesInv /\ DataInv /\ Control /\ DownInv
  BY DEF DiskInv, Control
<1>1. /\ status = "down" /\ list' = Ascending(Existing) /\ dirty' \in BOOLEAN /\ status' = "ready"
      /\ dataFile' = dataFile /\ tempFile' = tempFile /\ logs' = logs /\ queue' = queue
      /\ data' = data /\ isInitialized' = isInitialized /\ version' = version
      /\ isSavepoint' = isSavepoint /\ savepointVersion' = savepointVersion /\ call' = call
      /\ UNCHANGED counters
  BY DEF Restart, files, memory, saving
<1>2. \A p \in Procs : call[p].pc = "idle"
  BY <1>0, <1>1 DEF DownInv, At
<1>3. /\ list' \in Seq(Ids) /\ \A n \in 1 .. Len(list') : list'[n] = list'[1] + n - 1
      /\ Existing = IF list' = <<>> THEN {} ELSE list'[1] .. list'[Len(list')]
  BY <1>0, <1>1, ListRead
<1>4. \A i : Lines(i)' = Lines(i)
  BY <1>1 DEF Lines, Undone
<1>5. Existing' = Existing /\ Kept' = Kept /\ BaseData' = BaseData /\ Content' = Content
  <2>1. Existing' = Existing /\ BaseData' = BaseData
    BY <1>1 DEF Existing, BaseData
  <2>2. Kept' = Kept
    BY <1>4 DEF Kept
  <2> QED
    BY <2>1, <2>2 DEF Content
<1>6. TypeOK'
  BY <1>0, <1>1, <1>3 DEF TypeOK, counters, Ids
<1>7. Control'
  <2>1. StepsInv'
    BY <1>1, <1>2, StepsAreNext DEF StepsOf
  <2>2. LockedInv' /\ SaversInv' /\ DownInv'
    BY <1>1, <1>2, Callers DEF LockedInv, SaversInv, DownInv, At, Passive
  <2> QED
    BY <2>1, <2>2 DEF Control
<1>8. \A p \in Procs : CallInv(p)'
  BY <1>1, <1>2 DEF CallInv, WriterInv, SaverInv, LoadInv, Loading
<1>9. FilesInv' /\ ListInv' /\ LinesInv' /\ ResetInv'
  BY <1>0, <1>1, <1>2, <1>3, <1>4, <1>5, Callers DEF FilesInv, ListInv, LinesInv, ResetInv, At
<1>10. DataInv'
  BY <1>0, <1>1, <1>5 DEF DataInv, At
<1>11. DiskInv'
  BY <1>0, <1>1, <1>6, <1>7, <1>8, <1>9, <1>10 DEF DiskInv
<1> QED
  BY <1>1, <1>5, <1>11, StoredIs, StoredIsNext DEF At

\* A step that changes nothing.
LEMMA StutterKeeps ==
  ASSUME DiskInv, UNCHANGED vars
  PROVE  DiskInv' /\ Stored' = Stored /\ call' = call
<1>1. /\ dataFile' = dataFile /\ tempFile' = tempFile /\ logs' = logs /\ status' = status
      /\ queue' = queue /\ list' = list /\ dirty' = dirty
      /\ data' = data /\ isInitialized' = isInitialized /\ version' = version
      /\ isSavepoint' = isSavepoint /\ savepointVersion' = savepointVersion /\ call' = call
      /\ UNCHANGED counters
  BY DEF vars, files, delta, memory, saving
<1>2. \A i : Lines(i)' = Lines(i)
  BY <1>1 DEF Lines, Undone
<1>3. Existing' = Existing /\ Kept' = Kept /\ BaseData' = BaseData /\ Content' = Content
  <2>1. Existing' = Existing /\ BaseData' = BaseData
    BY <1>1 DEF Existing, BaseData
  <2>2. Kept' = Kept
    BY <1>2 DEF Kept
  <2> QED
    BY <2>1, <2>2 DEF Content
<1>4. TypeOK' /\ dataFile' # Torn
  BY <1>1 DEF DiskInv, TypeOK, counters
<1>5. Control'
  BY <1>1 DEF DiskInv, Control, StepsInv, LockedInv, SaversInv, DownInv, At, Holds
<1>6. FilesInv' /\ ListInv' /\ LinesInv' /\ DataInv' /\ ResetInv'
  BY <1>1, <1>2, <1>3 DEF DiskInv, FilesInv, ListInv, LinesInv, DataInv, ResetInv, At
<1>7. ASSUME NEW p \in Procs PROVE CallInv(p)'
  <2>1. CallInv(p)
    BY DEF DiskInv
  <2>2. Snapshotted(p)' = Snapshotted(p)
    BY <1>1 DEF Snapshotted, At
  <2>3. SnapInv(p)' <=> SnapInv(p)
    BY <1>1, <1>3, <2>2 DEF SnapInv, At
  <2>4. WriterInv(p)' <=> WriterInv(p)
    BY <1>1 DEF WriterInv
  <2>5. SaverInv(p)' <=> SaverInv(p)
    BY <1>1, <2>2, <2>3 DEF SaverInv
  <2>6. LoadInv(p)' <=> LoadInv(p)
    BY <1>1, <1>3 DEF LoadInv
  <2> QED
    BY <2>1, <2>4, <2>5, <2>6 DEF CallInv
<1>8. DiskInv'
  BY <1>4, <1>5, <1>6, <1>7 DEF DiskInv
<1> QED
  BY <1>1, <1>3, <1>8, StoredIs, StoredIsNext DEF At

\* The inductive invariant holds before the first start.
LEMMA InitDisk ==
  ASSUME Init
  PROVE  DiskInv
<1>1. /\ dataFile = NoFile /\ tempFile = NoFile /\ logs = [i \in Ids |-> NoFile]
      /\ status = "down" /\ queue = <<>> /\ list = <<>> /\ dirty = FALSE
      /\ data = Initial /\ isInitialized = FALSE /\ version = 0
      /\ isSavepoint = FALSE /\ savepointVersion = 0
      /\ call = [p \in Procs |-> NoCall]
      /\ writes = 0 /\ crashes = 0 /\ resets = 0 /\ ioFailed = FALSE
  BY DEF Init, Ids
<1>2. \A p \in Procs : call[p] = NoCall /\ call[p].pc = "idle"
  BY <1>1, NoCallIsCall
<1>3. Existing = {}
  BY <1>1 DEF Existing, Ids
<1>4. TypeOK
  <2>1. call \in [Procs -> Call] /\ Initial \in Data
    BY <1>1, NoCallIsCall DEF Initial, Data
  <2> QED
    BY <1>1, <2>1, DiskAssumption DEF TypeOK, Ids
<1>5. Control
  <2>1. StepsInv
    BY <1>2, StepsAre DEF StepsOf
  <2>2. LockedInv /\ SaversInv /\ DownInv
    BY <1>2, Callers DEF LockedInv, SaversInv, DownInv, At, Passive
  <2> QED
    BY <2>1, <2>2 DEF Control
<1>6. \A p \in Procs : CallInv(p)
  BY <1>2 DEF CallInv, WriterInv, SaverInv, LoadInv, Loading
<1>7. FilesInv /\ ListInv /\ LinesInv /\ DataInv /\ ResetInv
  BY <1>1, <1>2, <1>3, Callers DEF FilesInv, ListInv, LinesInv, DataInv, ResetInv, At
<1>8. dataFile # Torn
  BY <1>1, DiskAssumption
<1> QED
  BY <1>4, <1>5, <1>6, <1>7, <1>8 DEF DiskInv

-----------------------------------------------------------------------------
(* The requests: the calls as the persistence in memory sees them.          *)

MemoryCallers == Writers \cup {"resetter"}

\* A call that is on its way is a request, and is "done" once it took effect.
Done(c) == (c = "resetter" /\ At(c, "unlink")) \/ (c \in Writers /\ At(c, "apply") /\ call[c].val # Bad)

\* The request of a caller, as the persistence in memory sees it.
LEMMA RequestIs ==
  ASSUME NEW c \in MemoryCallers
  PROVE  Requests[c] =
           IF At(c, "idle") THEN NoRequest
           ELSE [change |-> IF c = "resetter" THEN [type |-> "reset", data |-> call[c].content]
                            ELSE [type |-> "write", key |-> call[c].key, val |-> call[c].val],
                 state |-> IF Done(c) THEN "done" ELSE "called"]
BY DEF Requests, MemoryCallers, Done

\* The same in the next state.
LEMMA RequestIsNext ==
  ASSUME NEW c \in MemoryCallers
  PROVE  Requests'[c] =
           IF At(c, "idle")' THEN NoRequest
           ELSE [change |-> IF c = "resetter" THEN [type |-> "reset", data |-> call'[c].content]
                            ELSE [type |-> "write", key |-> call'[c].key, val |-> call'[c].val],
                 state |-> IF Done(c)' THEN "done" ELSE "called"]
BY DEF Requests, MemoryCallers, Done, NoRequest, Initial

\* Requests are functions on the callers.
LEMMA RequestsAreFunctions ==
  /\ Requests = [c \in MemoryCallers |-> Requests[c]]
  /\ Requests' = [c \in MemoryCallers |-> Requests'[c]]
BY DEF Requests, MemoryCallers

\* A step of one call changes its request only.
LEMMA RequestOfOne ==
  ASSUME NEW p \in Procs, OnlyCall(p)
  PROVE  /\ \A c \in MemoryCallers \ {p} : Requests'[c] = Requests[c]
         /\ p \in MemoryCallers => Requests' = [Requests EXCEPT ![p] = Requests'[p]]
<1>1. ASSUME NEW c \in MemoryCallers \ {p}
      PROVE  Requests'[c] = Requests[c]
  <2>1. call'[c] = call[c]
    BY Callers DEF OnlyCall, MemoryCallers
  <2>2. (At(c, "idle")' <=> At(c, "idle")) /\ (Done(c)' <=> Done(c))
    BY <2>1 DEF At, Done
  <2> QED
    BY <2>1, <2>2, RequestIs, RequestIsNext
<1>2. ASSUME p \in MemoryCallers
      PROVE  Requests' = [Requests EXCEPT ![p] = Requests'[p]]
  <2> DEFINE F == Requests
             G == Requests'
  <2>1. /\ F = [c \in MemoryCallers |-> F[c]] /\ G = [c \in MemoryCallers |-> G[c]]
        /\ \A c \in MemoryCallers \ {p} : G[c] = F[c]
    BY <1>1, RequestsAreFunctions
  <2> HIDE DEF F, G
  <2>2. G = [F EXCEPT ![p] = G[p]]
    BY <1>2, <2>1
  <2> QED
    BY <2>2 DEF F, G
<1> QED
  BY <1>1, <1>2

\* A step of a caller of get() or savepoint() changes none.
LEMMA OtherRequests ==
  ASSUME NEW p \in Procs \ MemoryCallers, OnlyCall(p)
  PROVE  Requests' = Requests
<1>1. \A c \in MemoryCallers : Requests'[c] = Requests[c]
  BY RequestOfOne
<1> QED
  BY <1>1, RequestsAreFunctions

\* A step of a call on its way that does not make it done.
LEMMA RequestGoesOn ==
  ASSUME NEW c \in MemoryCallers, OnlyCall(c), ~At(c, "idle"), ~At(c, "idle")', Done(c)' <=> Done(c),
         IF c = "resetter" THEN call'[c].content = call[c].content
         ELSE call'[c].key = call[c].key /\ call'[c].val = call[c].val
  PROVE  Requests' = Requests
<1>0. c \in Procs
  BY Callers DEF MemoryCallers
<1>1. Requests'[c] = Requests[c]
  BY RequestIs, RequestIsNext
<1>2. \A d \in MemoryCallers : Requests'[d] = Requests[d]
  BY <1>0, <1>1, RequestOfOne
<1> QED
  BY <1>2, RequestsAreFunctions

\* The return of a call.
LEMMA RequestReturns ==
  ASSUME NEW c \in MemoryCallers, Returns(c), ~At(c, "idle"), Stored' = Stored
  PROVE  MemoryOfFiles!MemoryReturn(c)
<1>0. c \in Procs /\ OnlyCall(c) /\ call'[c].pc = "idle"
  BY Callers, NoCallIsCall DEF MemoryCallers, Returns
<1>1. Requests'[c] = NoRequest
  BY <1>0, RequestIsNext DEF At
<1>2. Requests' = [Requests EXCEPT ![c] = NoRequest]
  BY <1>0, <1>1, RequestOfOne
<1>3. NoRequest = MemoryOfFiles!NoRequest
  BY DEF NoRequest, MemoryOfFiles!NoRequest, MemoryOfFiles!Reset, Initial, MemoryOfFiles!Initial
<1>4. Requests[c].state = (IF Done(c) THEN "done" ELSE "called") /\ NoRequest.state = "none"
  <2> DEFINE change == IF c = "resetter" THEN [type |-> "reset", data |-> call[c].content]
                       ELSE [type |-> "write", key |-> call[c].key, val |-> call[c].val]
  <2>1. Requests[c] = [change |-> change, state |-> IF Done(c) THEN "done" ELSE "called"]
    BY RequestIs
  <2> HIDE DEF change
  <2> QED
    BY <2>1 DEF NoRequest
<1>5. Requests[c] # NoRequest
  BY <1>4
<1> QED
  BY <1>2, <1>3, <1>5 DEF MemoryOfFiles!MemoryReturn

\* The call.
LEMMA RequestCalled ==
  ASSUME NEW c \in MemoryCallers, OnlyCall(c), At(c, "idle"), call'[c].pc = "lock", Stored' = Stored,
         NEW change,
         change = IF c = "resetter" THEN [type |-> "reset", data |-> call'[c].content]
                  ELSE [type |-> "write", key |-> call'[c].key, val |-> call'[c].val]
  PROVE  MemoryOfFiles!MemoryCall(c, change)
<1>0. c \in Procs
  BY Callers DEF MemoryCallers
<1>1. Requests[c] = NoRequest
  BY RequestIs
<1>2. Requests'[c] = [change |-> change, state |-> "called"]
  BY RequestIsNext DEF At, Done
<1>3. Requests' = [Requests EXCEPT ![c] = [change |-> change, state |-> "called"]]
  BY <1>0, <1>2, RequestOfOne
<1>4. NoRequest = MemoryOfFiles!NoRequest
  BY DEF NoRequest, MemoryOfFiles!NoRequest, MemoryOfFiles!Reset, Initial, MemoryOfFiles!Initial
<1> QED
  BY <1>1, <1>3, <1>4 DEF MemoryOfFiles!MemoryCall

\* The call takes effect.
LEMMA RequestPerformed ==
  ASSUME NEW c \in MemoryCallers, OnlyCall(c), ~At(c, "idle"), ~At(c, "idle")', ~Done(c), Done(c)',
         IF c = "resetter" THEN /\ call'[c].content = call[c].content
                                /\ Stored' = call[c].content
         ELSE /\ call'[c].key = call[c].key /\ call'[c].val = call[c].val /\ call[c].val # Bad
              /\ Stored' = [Stored EXCEPT ![call[c].key] = call[c].val]
  PROVE  MemoryOfFiles!MemoryPerform(c)
<1>0. c \in Procs
  BY Callers DEF MemoryCallers
<1> DEFINE change == IF c = "resetter" THEN [type |-> "reset", data |-> call[c].content]
                     ELSE [type |-> "write", key |-> call[c].key, val |-> call[c].val]
<1>1. Requests[c] = [change |-> change, state |-> "called"]
  BY RequestIs
<1>2. Requests'[c] = [change |-> change, state |-> "done"]
  BY RequestIsNext
<1>3. ~MemoryOfFiles!Refused(change)
  BY DEF MemoryOfFiles!Refused
<1>4. Stored' = MemoryOfFiles!Effect(change, Stored)
  BY DEF MemoryOfFiles!Effect
<1> HIDE DEF change
<1>5. Requests'[c] = [Requests[c] EXCEPT !.state = "done"]
  BY <1>1, <1>2
<1>6. Requests' = [Requests EXCEPT ![c].state = "done"]
  BY <1>0, <1>5, RequestOfOne
<1>7. Requests[c].state = "called" /\ Requests[c].change = change
  BY <1>1
<1> QED
  BY <1>3, <1>4, <1>6, <1>7 DEF MemoryOfFiles!MemoryPerform

-----------------------------------------------------------------------------
(* Every step keeps DiskInv, and is a step of the persistence in memory or none. *)

MemoryStep == MemoryOfFiles!MemoryNext \/ UNCHANGED <<Stored, Requests>>

\* A return in memory is a step of the refinement.
LEMMA ReturnIsStep ==
  ASSUME NEW c \in MemoryCallers, MemoryOfFiles!MemoryReturn(c)
  PROVE  MemoryStep
BY DEF MemoryStep, MemoryOfFiles!MemoryNext, MemoryCallers

\* A change in memory is a step of the refinement.
LEMMA PerformIsStep ==
  ASSUME NEW c \in MemoryCallers, MemoryOfFiles!MemoryPerform(c)
  PROVE  MemoryStep
BY DEF MemoryStep, MemoryOfFiles!MemoryNext, MemoryCallers

\* A call in memory is a step of the refinement.
LEMMA CallIsStep ==
  ASSUME NEW c \in MemoryCallers, NEW change \in MemoryOfFiles!Changes,
         MemoryOfFiles!MemoryCall(c, change)
  PROVE  MemoryStep
BY DEF MemoryStep, MemoryOfFiles!MemoryNext, MemoryCallers

\* A call that moves on or returns.
LEMMA QuietRequest ==
  ASSUME NEW c \in MemoryCallers, ~At(c, "idle"), Stored' = Stored,
         \/ Returns(c)
         \/ \E s : Moves(c, s) /\ s # "idle" /\ (Done(c)' <=> Done(c))
  PROVE  MemoryStep
<1>1. CASE Returns(c)
  BY <1>1, RequestReturns, ReturnIsStep
<1>2. CASE \E s : Moves(c, s) /\ s # "idle" /\ (Done(c)' <=> Done(c))
  <2>1. OnlyCall(c) /\ ~At(c, "idle")' /\ (Done(c)' <=> Done(c)) /\ SameButPc(call[c], call'[c])
    BY <1>2 DEF Moves, At
  <2>2. Requests' = Requests
    BY <2>1, RequestGoesOn DEF SameButPc
  <2> QED
    BY <2>2 DEF MemoryStep
<1> QED
  BY <1>1, <1>2

\* write().
LEMMA WriterSteps ==
  ASSUME DiskInv, NEW w \in Writers, WriterStep(w)
  PROVE  DiskInv' /\ MemoryStep
<1>0. w \in MemoryCallers /\ w # "resetter" /\ w \in Procs
  BY Callers DEF MemoryCallers
<1>1. CASE WriteLocked(w)
  <2>1. /\ DiskInv' /\ Stored' = Stored /\ At(w, "lock")
        /\ Moves(w, "stat") \/ Returns(w)
    BY <1>1, WriteLockedKeeps DEF WriteLocked
  <2>2. ~At(w, "idle") /\ ~Done(w) /\ (Moves(w, "stat") => ~Done(w)')
    BY <1>0, <2>1 DEF At, Done, Moves
  <2> QED
    BY <1>0, <2>1, <2>2, QuietRequest
<1>2. CASE WriteStat(w)
  <2>1. /\ DiskInv' /\ Stored' = Stored /\ OnlyCall(w) /\ At(w, "stat")
        /\ call'[w].key = call[w].key /\ call'[w].val = call[w].val
        /\ call'[w].pc \in {"append", "read"}
    BY <1>2, WriteStatKeeps
  <2>2. ~At(w, "idle") /\ ~At(w, "idle")' /\ ~Done(w) /\ ~Done(w)'
    BY <1>0, <2>1 DEF At, Done
  <2> QED
    BY <1>0, <2>1, <2>2, RequestGoesOn DEF MemoryStep
<1>3. CASE AppendDelta(w)
  <2>1. /\ DiskInv'
        /\ Stored' = IF call[w].val = Bad THEN Stored ELSE [Stored EXCEPT ![call[w].key] = call[w].val]
        /\ OnlyCall(w) /\ call'[w].key = call[w].key /\ call'[w].val = call[w].val
        /\ At(w, "append") /\ call'[w].pc = "apply"
    BY <1>3, AppendDeltaKeeps
  <2>2. ~At(w, "idle") /\ ~At(w, "idle")' /\ ~Done(w) /\ (Done(w)' <=> call[w].val # Bad)
    BY <1>0, <2>1 DEF At, Done
  <2>3. CASE call[w].val = Bad
    BY <1>0, <2>1, <2>2, <2>3, RequestGoesOn DEF MemoryStep
  <2>4. CASE call[w].val # Bad
    BY <1>0, <2>1, <2>2, <2>4, RequestPerformed, PerformIsStep
  <2> QED
    BY <2>3, <2>4
<1>4. CASE Apply(w)
  <2>1. /\ DiskInv' /\ Stored' = Stored /\ At(w, "apply")
        /\ IF call[w].val = Bad THEN Moves(w, "truncate") ELSE Returns(w)
    BY <1>4, ApplyKeeps
  <2>2. ~At(w, "idle") /\ (call[w].val = Bad => ~Done(w) /\ ~Done(w)')
    BY <1>0, <2>1 DEF At, Done, Moves, SameButPc
  <2> QED
    BY <1>0, <2>1, <2>2, QuietRequest
<1>5. CASE Truncate(w)
  <2>1. DiskInv' /\ Stored' = Stored /\ At(w, "truncate") /\ Returns(w)
    BY <1>5, TruncateKeeps
  <2> QED
    BY <1>0, <2>1, QuietRequest DEF At
<1> QED
  BY <1>1, <1>2, <1>3, <1>4, <1>5 DEF WriterStep

\* The loading, by whoever calls get() first.
LEMMA LoadSteps ==
  ASSUME DiskInv, NEW p \in Procs, LoadStep(p)
  PROVE  DiskInv' /\ MemoryStep
<1>1. /\ DiskInv' /\ Stored' = Stored /\ OnlyCall(p)
      /\ call'[p].key = call[p].key /\ call'[p].val = call[p].val
      /\ call[p].pc \in Loading /\ call'[p].pc \in Loading \cup {AfterGet(p)}
  BY LoadDataKeeps, FetchDeltaKeeps, ReplayDeltaKeeps DEF LoadStep
<1>2. Requests' = Requests
  <2>1. CASE p \in Writers
    <3>1. /\ p \in MemoryCallers /\ p # "resetter" /\ ~At(p, "idle") /\ ~At(p, "idle")'
          /\ ~Done(p) /\ ~Done(p)'
      BY <1>1, <2>1, Callers DEF MemoryCallers, At, Done, Loading, AfterGet
    <3> QED
      BY <1>1, <3>1, RequestGoesOn
  <2>2. CASE p \notin Writers
    <3>1. p # "resetter"
      BY <1>1, LoaderAlone
    <3> QED
      BY <1>1, <2>2, <3>1, OtherRequests DEF MemoryCallers
  <2> QED
    BY <2>1, <2>2
<1> QED
  BY <1>1, <1>2 DEF MemoryStep

\* savepoint() is nothing the callers see.
LEMMA SaverSteps ==
  ASSUME SafelyUsed, DiskInv, NEW s \in Savers, SavepointCall(s) \/ SaverStep(s)
  PROVE  DiskInv' /\ MemoryStep
<1>1. DiskInv' /\ Stored' = Stored /\ OnlyCall(s)
  BY SavepointCallKeeps, SavepointLockedKeeps, SnapshotKeeps, TempWrittenKeeps, SavepointReplaceKeeps,
     UnlinkKeeps DEF SaverStep
<1>2. s \in Procs \ MemoryCallers
  BY Callers DEF MemoryCallers
<1> QED
  BY <1>1, <1>2, OtherRequests DEF MemoryStep

\* reset().
LEMMA ResetSteps ==
  ASSUME DiskInv, ResetStep
  PROVE  DiskInv' /\ MemoryStep
<1>0. "resetter" \in MemoryCallers /\ "resetter" \notin Writers
  BY Callers DEF MemoryCallers
<1>1. CASE ResetLocked
  <2>1. /\ DiskInv' /\ Stored' = Stored /\ At("resetter", "lock")
        /\ Moves("resetter", "move") \/ Returns("resetter")
    BY <1>1, ResetLockedKeeps
  <2>2. /\ ~At("resetter", "idle") /\ ~Done("resetter")
        /\ Moves("resetter", "move") => ~Done("resetter")'
    BY <1>0, <2>1 DEF At, Done, Moves
  <2> QED
    BY <1>0, <2>1, <2>2, QuietRequest
<1>2. CASE ResetMove
  <2>1. /\ DiskInv' /\ At("resetter", "move") /\ Moves("resetter", "unlink")
        /\ Stored' = call["resetter"].content
    BY <1>2, ResetMoveKeeps
  <2>2. /\ ~At("resetter", "idle") /\ ~At("resetter", "idle")' /\ ~Done("resetter") /\ Done("resetter")'
        /\ OnlyCall("resetter") /\ call'["resetter"].content = call["resetter"].content
    BY <1>0, <2>1 DEF At, Done, Moves, SameButPc
  <2> QED
    BY <1>0, <2>1, <2>2, RequestPerformed, PerformIsStep
<1>3. CASE ResetUnlink
  <2>1. /\ DiskInv' /\ Stored' = Stored /\ At("resetter", "unlink")
        /\ call' = call \/ Returns("resetter")
    BY <1>3, ResetUnlinkKeeps
  <2>2. CASE call' = call
    <3>1. Requests' = Requests
      BY <2>2 DEF Requests, At
    <3> QED
      BY <2>1, <3>1 DEF MemoryStep
  <2>3. CASE Returns("resetter")
    BY <1>0, <2>1, <2>3, QuietRequest DEF At
  <2> QED
    BY <2>1, <2>2, <2>3
<1> QED
  BY <1>1, <1>2, <1>3 DEF ResetStep

\* Every step keeps the inductive invariant and is a step of the persistence in memory, or none.
LEMMA NextKeeps ==
  ASSUME SafelyUsed, DiskInv, [Next]_vars
  PROVE  DiskInv' /\ MemoryStep
<1>1. ASSUME NEW r \in Readers, GetCall(r)
      PROVE  DiskInv' /\ MemoryStep
  <2>1. DiskInv' /\ Stored' = Stored /\ OnlyCall(r) /\ r \in Procs \ MemoryCallers
    BY <1>1, GetCallKeeps, Callers DEF MemoryCallers
  <2> QED
    BY <2>1, OtherRequests DEF MemoryStep
<1>2. ASSUME NEW w \in Writers, NEW k \in Keys, NEW v \in Vals \cup {Absent, Bad}, WriteCall(w, k, v)
      PROVE  DiskInv' /\ MemoryStep
  <2> DEFINE change == [type |-> "write", key |-> k, val |-> v]
  <2>1. /\ DiskInv' /\ Stored' = Stored /\ At(w, "idle")
        /\ OnlyCall(w) /\ call'[w].pc = "lock" /\ call'[w].key = k /\ call'[w].val = v
    BY <1>2, WriteCallKeeps DEF WriteCall
  <2>2. w \in MemoryCallers /\ w # "resetter"
    BY Callers DEF MemoryCallers
  <2>3. change \in MemoryOfFiles!Changes
    BY DEF MemoryOfFiles!Changes, MemoryOfFiles!Write
  <2>4. change = [type |-> "write", key |-> call'[w].key, val |-> call'[w].val]
    BY <2>1
  <2> HIDE DEF change
  <2>5. MemoryOfFiles!MemoryCall(w, change)
    BY <2>1, <2>2, <2>4, RequestCalled
  <2> QED
    BY <2>1, <2>2, <2>3, <2>5, CallIsStep
<1>3. ASSUME NEW d \in ResetTargets, ResetCall(d)
      PROVE  DiskInv' /\ MemoryStep
  <2> DEFINE change == [type |-> "reset", data |-> d]
  <2>1. /\ DiskInv' /\ Stored' = Stored /\ At("resetter", "idle")
        /\ OnlyCall("resetter") /\ call'["resetter"].pc = "lock" /\ call'["resetter"].content = d
        /\ d \in Data
    BY <1>3, ResetCallKeeps
  <2>2. "resetter" \in MemoryCallers
    BY DEF MemoryCallers
  <2>3. change \in MemoryOfFiles!Changes
    BY <2>1 DEF MemoryOfFiles!Changes, MemoryOfFiles!Reset, MemoryOfFiles!Data, Data
  <2>4. change = [type |-> "reset", data |-> call'["resetter"].content]
    BY <2>1
  <2> HIDE DEF change
  <2>5. MemoryOfFiles!MemoryCall("resetter", change)
    BY <2>1, <2>2, <2>4, RequestCalled
  <2> QED
    BY <2>1, <2>2, <2>3, <2>5, CallIsStep
<1>4. CASE Crash
  <2>1. DiskInv' /\ Stored' = Stored /\ call' = [p \in Procs |-> NoCall]
    BY <1>4, CrashKeeps
  <2>2. \A c \in MemoryCallers : Requests'[c] = MemoryOfFiles!NoRequest
    <3>1. NoRequest = MemoryOfFiles!NoRequest
      BY DEF NoRequest, MemoryOfFiles!NoRequest, MemoryOfFiles!Reset, Initial, MemoryOfFiles!Initial
    <3>2. \A c \in MemoryCallers : At(c, "idle")'
      BY <2>1, NoCallIsCall, Callers DEF MemoryCallers, At
    <3> QED
      BY <3>1, <3>2, RequestIsNext
  <2>3. Requests' = [c \in Writers \cup {"resetter"} |-> MemoryOfFiles!NoRequest]
    BY <2>2, RequestsAreFunctions DEF MemoryCallers
  <2> QED
    BY <2>1, <2>3 DEF MemoryStep, MemoryOfFiles!MemoryNext, MemoryOfFiles!MemoryCrash
<1>5. CASE Restart \/ UNCHANGED vars
  <2>1. DiskInv' /\ Stored' = Stored /\ call' = call
    BY <1>5, RestartKeeps, StutterKeeps
  <2>2. Requests' = Requests
    BY <2>1 DEF Requests, At
  <2> QED
    BY <2>1, <2>2 DEF MemoryStep
<1> QED
  BY <1>1, <1>2, <1>3, <1>4, <1>5, LoadSteps, WriterSteps, SaverSteps, ResetSteps DEF Next

-----------------------------------------------------------------------------
(* Theorems.                                                               *)

\* DiskInv holds of every state of the persistence as the key value store uses it.
LEMMA DiskInvariance == SafelyUsed /\ Spec => []DiskInv
<1> SUFFICES ASSUME SafelyUsed
             PROVE  Spec => []DiskInv
  OBVIOUS
<1>1. Init => DiskInv
  BY InitDisk
<1>2. DiskInv /\ [Next]_vars => DiskInv'
  BY NextKeeps
<1> QED
  BY <1>1, <1>2, PTL DEF Spec

\* Type correctness.
THEOREM DiskTypeCorrect == SafelyUsed /\ Spec => []TypeOK
<1>1. DiskInv => TypeOK
  BY DEF DiskInv
<1> QED
  BY <1>1, DiskInvariance, PTL

\* What is in memory is what the files stand for, the data file is whole, and the list of
\* deltas is the files on disk whenever nobody holds the mutex, which consistencyCheck() asserts.
THEOREM FilesAreExact == SafelyUsed /\ Spec => []FilesExact
<1>1. ASSUME DiskInv PROVE FilesExact
  <2>1. DataIsStored
    <3>1. ~At("resetter", "unlink") => Stored = Content
      BY StoredIs
    <3> QED
      BY <1>1, <3>1 DEF DiskInv, DataInv, DataIsStored
  <2>2. DataFileWhole
    BY <1>1 DEF DiskInv, DataFileWhole
  <2>3. ASSUME status # "down"
        PROVE  list = Ascending(Existing)
    <3>0. TypeOK /\ ListInv
      BY <1>1 DEF DiskInv
    <3>1. CASE list = <<>>
      BY <2>3, <3>0, <3>1, AscendingIsNone DEF ListInv
    <3>2. CASE list # <<>>
      <4>1. /\ Len(list) \in Nat /\ Len(list) >= 1 /\ list[1] \in Ids /\ list[Len(list)] \in Ids
            /\ list[Len(list)] = list[1] + Len(list) - 1 /\ Existing = list[1] .. list[Len(list)]
        BY <2>3, <3>0, <3>2, ListFacts
      <4>2. list[1] \in Int /\ list[Len(list)] \in Int
        BY <4>1, DiskAssumption DEF Ids
      <4>3. list[1] <= list[Len(list)] /\ list[Len(list)] - list[1] + 1 = Len(list)
        BY <4>1, <4>2
      <4>4. Ascending(Existing) = [n \in 1 .. Len(list) |-> list[1] + n - 1]
        BY <4>1, <4>2, <4>3, AscendingIs
      <4>5. \A n \in 1 .. Len(list) : list[n] = list[1] + n - 1
        BY <2>3, <3>0 DEF ListInv
      <4>6. list = [n \in 1 .. Len(list) |-> list[n]]
        BY <3>0 DEF TypeOK
      <4> QED
        BY <4>4, <4>5, <4>6
    <3> QED
      BY <3>1, <3>2
  <2>4. DeltasConsistent
    BY <2>3 DEF DeltasConsistent
  <2> QED
    BY <2>1, <2>2, <2>4 DEF FilesExact
<1> QED
  BY <1>1, DiskInvariance, PTL

\* The persistence on disk, with its savepoints, crashes and starts, is the persistence in memory.
THEOREM DiskIsMemory == SafelyUsed /\ Spec => ImplementsMemory
<1> SUFFICES ASSUME SafelyUsed
             PROVE  Spec => MemoryOfFiles!MemorySpec
  BY DEF ImplementsMemory
<1>1. Init => MemoryOfFiles!MemoryInit
  <2> SUFFICES ASSUME Init PROVE MemoryOfFiles!MemoryInit
    OBVIOUS
  <2>1. /\ call = [p \in Procs |-> NoCall] /\ dataFile = NoFile
        /\ logs = [i \in 0 .. MaxId |-> NoFile]
    BY DEF Init
  <2>2. \A c \in MemoryCallers : At(c, "idle")
    BY <2>1, NoCallIsCall, Callers DEF MemoryCallers, At
  <2>3. Existing = {} /\ BaseData = Initial /\ Initial \in Data
    BY <2>1 DEF Existing, BaseData, Initial, Data
  <2>4. Stored = Initial
    <3>1. Stored = Content
      BY <2>2, StoredIs DEF MemoryCallers, At
    <3>2. Content = Replayed(Initial, {}, Kept)
      BY <2>3 DEF Content
    <3> QED
      BY <2>3, <3>1, <3>2, ReplayOfNone
  <2>5. Requests = [c \in MemoryCallers |-> NoRequest]
    BY <2>2, RequestIs, RequestsAreFunctions
  <2>6. NoRequest = MemoryOfFiles!NoRequest /\ Initial = MemoryOfFiles!Initial
    BY DEF NoRequest, MemoryOfFiles!NoRequest, MemoryOfFiles!Reset, Initial, MemoryOfFiles!Initial
  <2> QED
    BY <2>4, <2>5, <2>6 DEF MemoryOfFiles!MemoryInit, MemoryCallers
<1>2. DiskInv /\ [Next]_vars => [MemoryOfFiles!MemoryNext]_<<Stored, Requests>>
  BY NextKeeps DEF MemoryStep
<1> QED
  BY <1>1, <1>2, DiskInvariance, PTL DEF Spec, MemoryOfFiles!MemorySpec

=============================================================================
