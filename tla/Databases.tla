----------------------------- MODULE Databases ------------------------------
(****************************************************************************)
(* The databases of core: time series on disk, and the key value stores     *)
(* that are not PersistenceDisk.                                            *)
(****************************************************************************)
EXTENDS Integers, Functions, SequencesExt, FiniteSetsExt

(****************************************************************************)
(* A time series on disk (core/persistence/timeseries.js): the points are   *)
(* split over data files, an index tells the first timestamp, the length    *)
(* and the last timestamp of each.  One caller inserts, another lists; both *)
(* yield at every await.  A file is opened by whoever needs it and kept.    *)
(* The process may crash; a start rebuilds an index of an older version.    *)
(* A point is its timestamp, positions count from 0 as in the code.         *)
(****************************************************************************)
CONSTANTS
  MaxTimestamp,        \* bound: timestamps are 1 .. MaxTimestamp
  MaxEntriesPerFile,   \* maxEntriesPerFile
  MaxInserts,          \* bound: calls of insert()
  MaxLists,            \* bound: calls of forEach()
  MaxSeriesCrashes     \* bound: crashes

ASSUME TimeSeriesAssumption ==
  /\ MaxTimestamp \in Nat \ {0} /\ MaxEntriesPerFile \in Nat \ {0}
  /\ {MaxInserts, MaxLists, MaxSeriesCrashes} \subseteq Nat

Stamps == 1 .. MaxTimestamp
Null == 0

VARIABLES
  seriesFiles,   \* path (the timestamp it is named after) -> the points on disk
  seriesOpen,    \* path -> the points of the persistence that is open
  seriesIndex,   \* entries in their order
  inserter,      \* the call of insert()
  lister,        \* the call of forEach()
  seriesAcked,   \* timestamps whose insertion was confirmed
  seriesCount,   \* calls and crashes so far
  exact,         \* no crash fell into an insertion since the index was built
  alone          \* forEach() did not overlap an insertion so far

seriesVars == <<seriesFiles, seriesOpen, seriesIndex, inserter, lister, seriesAcked, seriesCount, exact, alone>>

NoInsert == [pc |-> "idle", t |-> Null, path |-> Null, orphan |-> FALSE, data |-> <<>>]
NoList   == [pc |-> "idle", t |-> Null, end |-> Null, path |-> Null, data |-> <<>>, items |-> <<>>, known |-> {}]

SeriesInit ==
  /\ seriesFiles = <<>> /\ seriesOpen = <<>> /\ seriesIndex = <<>>
  /\ inserter = NoInsert /\ lister = NoList /\ seriesAcked = {}
  /\ seriesCount = [inserts |-> 0, lists |-> 0, crashes |-> 0] /\ exact = TRUE /\ alone = TRUE

-----------------------------------------------------------------------------
(* core/timeseries.js, over a sequence of timestamps.                       *)

Find(list, t) ==
  LET from[p \in (0 .. Len(list)) \X (-1 .. Len(list) - 1)] ==
        LET s == p[1]
            e == p[2]
            m == (s + e) \div 2
        IN  IF s > e THEN s
            ELSE IF list[m + 1] = t THEN m
            ELSE IF list[m + 1] < t THEN from[<<m + 1, e>>] ELSE from[<<s, m - 1>>]
  IN  from[<<0, Len(list) - 1>>]

MatchesRange(list, t) == LET i == Find(list, t) IN i < Len(list) /\ list[i + 1] = t
FindBefore(list, t) == IF MatchesRange(list, t) THEN Find(list, t) ELSE Find(list, t) - 1
FindAfter(list, t) == Find(list, t)
InsertPoint(list, t) == InsertAt(list, Find(list, t) + 1, t)
GetTimestamp(list, i) ==
  IF i >= 0 /\ i < Len(list) THEN list[i + 1] ELSE IF i < 0 /\ -i <= Len(list) THEN list[Len(list) + i + 1] ELSE Null
\* Mutant: the end is excluded.
ForEachExclusive(list, from, to) == SelectSeq(SubSeq(list, FindAfter(list, from) + 1, Len(list)), LAMBDA t : t < to)
ForEach(list, from, to) == SelectSeq(SubSeq(list, FindAfter(list, from) + 1, Len(list)), LAMBDA t : t <= to)

-----------------------------------------------------------------------------
IndexStamps == [i \in DOMAIN seriesIndex |-> seriesIndex[i].t]
Entry(i) == seriesIndex[i + 1]
Points(path) == IF path \in DOMAIN seriesFiles THEN seriesFiles[path] ELSE <<>>
With(f, path, list) == (path :> list) @@ f
IsOpen(path) == path \in DOMAIN seriesOpen

\* getPersistenceByTimestamp(): the file is opened unless it is; another caller may open it in the meantime.
Opening(call, path) == [call EXCEPT !.path = path, !.pc = IF IsOpen(path) THEN "opened" ELSE "read", !.orphan = FALSE]

\* insert(): getMetadata() decides which file takes the timestamp.
\* Mutant: a full file is left although the timestamp falls inside it.
TakesNewFileWhenFull(t) == LET i == FindBefore(IndexStamps, t) IN i = -1 \/ Entry(i).length >= MaxEntriesPerFile
TakesNewFile(t) ==
  LET i == FindBefore(IndexStamps, t) IN i = -1 \/ (Entry(i).length >= MaxEntriesPerFile /\ Entry(i).end < t)
SeriesInsert(t) ==
  /\ inserter.pc = "idle" /\ seriesCount.inserts < MaxInserts /\ seriesCount' = [seriesCount EXCEPT !.inserts = @ + 1]
  /\ inserter' = IF TakesNewFile(t) THEN [NoInsert EXCEPT !.t = t, !.pc = "create"]
                 ELSE Opening([NoInsert EXCEPT !.t = t], Entry(FindBefore(IndexStamps, t)).path)
  /\ alone' = (alone /\ lister.pc = "idle")
  /\ UNCHANGED <<seriesFiles, seriesOpen, seriesIndex, lister, seriesAcked, exact>>

\* createIndexEntry(): with one insertion at a time there is no entry of that timestamp yet.
CreateIndexEntry ==
  LET t == inserter.t IN
  /\ inserter.pc = "create" /\ inserter' = Opening(inserter, t)
  /\ seriesIndex' = InsertAt(seriesIndex, Find(IndexStamps, t) + 1, [t |-> t, path |-> t, length |-> 0, end |-> 0])
  /\ UNCHANGED <<seriesFiles, seriesOpen, lister, seriesAcked, seriesCount, exact, alone>>

\* PersistenceDisk.make() reads the file, and only later is it among the open ones.
InserterReads ==
  /\ inserter.pc = "read" /\ inserter' = [inserter EXCEPT !.pc = "open", !.data = Points(inserter.path)]
  /\ seriesFiles' = With(seriesFiles, inserter.path, Points(inserter.path))
  /\ UNCHANGED <<seriesOpen, seriesIndex, lister, seriesAcked, seriesCount, exact, alone>>
InserterOpens ==
  /\ inserter.pc = "open" /\ inserter' = [inserter EXCEPT !.pc = "opened"]
  /\ seriesOpen' = With(seriesOpen, inserter.path, inserter.data)
  /\ UNCHANGED <<seriesFiles, seriesIndex, lister, seriesAcked, seriesCount, exact, alone>>

\* Both writes are started together; each persistence applies its own in its own time.
WriteData ==
  LET path == inserter.path IN
  /\ inserter.pc \in {"opened", "indexed"}
  /\ seriesFiles' = With(seriesFiles, path, InsertPoint(Points(path), inserter.t))
  /\ seriesOpen' = IF inserter.orphan THEN seriesOpen ELSE With(seriesOpen, path, InsertPoint(seriesOpen[path], inserter.t))
  /\ IF inserter.pc = "opened" THEN inserter' = [inserter EXCEPT !.pc = "written"] /\ UNCHANGED seriesAcked
     ELSE inserter' = NoInsert /\ seriesAcked' = seriesAcked \cup {inserter.t}
  /\ UNCHANGED <<seriesIndex, lister, seriesCount, exact, alone>>
\* Mutant: the length is counted, the last timestamp is the one that was just inserted.
UpdatedLatest(entry, t) == [entry EXCEPT !.length = @ + 1, !.end = t]
UpdatedEntry(entry, t) == [entry EXCEPT !.length = @ + 1, !.end = Max({@, t})]
UpdateIndex ==
  LET i == FindBefore(IndexStamps, inserter.t) IN
  /\ inserter.pc \in {"opened", "written"}
  /\ seriesIndex' = [seriesIndex EXCEPT ![i + 1] = UpdatedEntry(@, inserter.t)]
  /\ IF inserter.pc = "opened" THEN inserter' = [inserter EXCEPT !.pc = "indexed"] /\ UNCHANGED seriesAcked
     ELSE inserter' = NoInsert /\ seriesAcked' = seriesAcked \cup {inserter.t}
  /\ UNCHANGED <<seriesFiles, seriesOpen, lister, seriesCount, exact, alone>>

-----------------------------------------------------------------------------
\* forEach(): it asks for the first timestamp, then for the last, then goes from file to file.
ListerOpening(call, path) == [call EXCEPT !.path = path, !.pc = IF IsOpen(path) THEN call.pc ELSE call.pc \o "Read"]
List ==
  /\ lister.pc = "idle" /\ seriesIndex # <<>> /\ seriesCount.lists < MaxLists
  /\ seriesCount' = [seriesCount EXCEPT !.lists = @ + 1]
  /\ lister' = ListerOpening([NoList EXCEPT !.pc = "first", !.known = seriesAcked], Entry(0).path)
  /\ alone' = (alone /\ inserter.pc = "idle")
  /\ UNCHANGED <<seriesFiles, seriesOpen, seriesIndex, inserter, seriesAcked, exact>>
ListerReads ==
  \E pc \in {"first", "last", "loop"} :
  /\ lister.pc = pc \o "Read" /\ lister' = [lister EXCEPT !.pc = pc \o "Open", !.data = Points(lister.path)]
  /\ seriesFiles' = With(seriesFiles, lister.path, Points(lister.path))
  /\ UNCHANGED <<seriesOpen, seriesIndex, inserter, seriesAcked, seriesCount, exact, alone>>
\* What the inserter holds is not the open one any more.
ListerOpens ==
  \E pc \in {"first", "last", "loop"} :
  /\ lister.pc = pc \o "Open" /\ lister' = [lister EXCEPT !.pc = pc] /\ seriesOpen' = With(seriesOpen, lister.path, lister.data)
  /\ inserter' = IF inserter.pc \in {"opened", "written", "indexed"} /\ inserter.path = lister.path
                 THEN [inserter EXCEPT !.orphan = TRUE] ELSE inserter
  /\ UNCHANGED <<seriesFiles, seriesIndex, seriesAcked, seriesCount, exact, alone>>

ListDone == [lister EXCEPT !.pc = "done"]
FirstTimestamp ==
  LET t == GetTimestamp(seriesOpen[lister.path], 0) IN
  /\ lister.pc = "first"
  /\ lister' = IF t = Null THEN ListDone ELSE ListerOpening([lister EXCEPT !.pc = "last", !.t = t], Last(seriesIndex).path)
  /\ UNCHANGED <<seriesFiles, seriesOpen, seriesIndex, inserter, seriesAcked, seriesCount, exact, alone>>
LastTimestamp ==
  /\ lister.pc = "last"
  /\ lister' = ListerOpening([lister EXCEPT !.pc = "loop", !.end = GetTimestamp(seriesOpen[lister.path], -1)],
                             Entry(FindBefore(IndexStamps, lister.t)).path)
  /\ UNCHANGED <<seriesFiles, seriesOpen, seriesIndex, inserter, seriesAcked, seriesCount, exact, alone>>
\* One file, and the next one if the end is not reached; without a next one the call fails.  A list longer than the
\* insertions is not followed further: after a crash that left an empty file the code goes around for ever.
LoopOverFile ==
  LET list == seriesOpen[lister.path]
      items == lister.items \o ForEach(list, lister.t, lister.end)
      last == GetTimestamp(list, -1)
      next == FindAfter(IndexStamps, last + 1)
      done == [lister EXCEPT !.items = items, !.pc = "done"]
  IN  /\ lister.pc = "loop"
      /\ lister' = IF lister.end <= last \/ next >= Len(seriesIndex) \/ Len(items) > MaxInserts THEN done
                   ELSE ListerOpening([lister EXCEPT !.items = items, !.t = last + 1], Entry(next).path)
      /\ UNCHANGED <<seriesFiles, seriesOpen, seriesIndex, inserter, seriesAcked, seriesCount, exact, alone>>
ListReturns ==
  /\ lister.pc = "done" /\ lister' = NoList
  /\ UNCHANGED <<seriesFiles, seriesOpen, seriesIndex, inserter, seriesAcked, seriesCount, exact, alone>>

-----------------------------------------------------------------------------
\* rebuildIndex(): the files in the order of the directory; a second one with the same first timestamp is left out.
FileEntry(path) ==
  LET list == seriesFiles[path]
  IN  [t |-> GetTimestamp(list, 0), path |-> path, length |-> Len(list), end |-> GetTimestamp(list, -1)]
\* Mutant: a file without points ends the loop.
RebuiltUntilEmpty ==
  LET before(path) == \A q \in DOMAIN seriesFiles : q <= path => seriesFiles[q] # <<>>
  IN  SetToSortSeq({FileEntry(p) : p \in {q \in DOMAIN seriesFiles : before(q)}}, LAMBDA a, b : a.t < b.t)
Rebuilt ==
  LET first(path) == ~\E q \in DOMAIN seriesFiles : q < path /\ FileEntry(q).t = FileEntry(path).t
      entries == {FileEntry(p) : p \in {q \in DOMAIN seriesFiles : first(q)}}
  IN  SetToSortSeq(entries, LAMBDA a, b : a.t < b.t)
\* A crash, and the next start; the index of another version is built anew.
Restart(otherVersion) ==
  /\ seriesCount.crashes < MaxSeriesCrashes /\ seriesCount' = [seriesCount EXCEPT !.crashes = @ + 1]
  /\ seriesOpen' = <<>> /\ inserter' = NoInsert /\ lister' = NoList
  /\ seriesIndex' = IF otherVersion THEN Rebuilt ELSE seriesIndex
  /\ exact' = IF otherVersion THEN \A p \in DOMAIN seriesFiles : seriesFiles[p] # <<>> ELSE exact /\ inserter.pc = "idle"
  /\ alone' = TRUE
  /\ UNCHANGED <<seriesFiles, seriesAcked>>

SeriesNext ==
  \/ \E t \in Stamps : SeriesInsert(t)
  \/ CreateIndexEntry \/ InserterReads \/ InserterOpens \/ WriteData \/ UpdateIndex
  \/ List \/ ListerReads \/ ListerOpens \/ FirstTimestamp \/ LastTimestamp \/ LoopOverFile \/ ListReturns
  \/ \E v \in BOOLEAN : Restart(v)

-----------------------------------------------------------------------------
\* A confirmed point is in a file that the index knows, through crashes and rebuilt indexes.
AckedInIndexedFile ==
  \A t \in seriesAcked : \E i \in DOMAIN seriesIndex : t \in ToSet(Points(seriesIndex[i].path))

\* Between insertions the index tells the truth about every file, and no file reaches into the next one.
IndexExact == exact /\ inserter.pc = "idle" =>
  /\ \A i \in DOMAIN seriesIndex : LET list == Points(seriesIndex[i].path) IN
       list # <<>> /\ seriesIndex[i] = [t |-> list[1], path |-> seriesIndex[i].path, length |-> Len(list), end |-> Last(list)]
  /\ \A i \in 1 .. Len(seriesIndex) - 1 : seriesIndex[i].end < seriesIndex[i + 1].t

\* forEach() without bounds goes "until the end" (timeseries.js:122): every timestamp is in the list, once the calls do not overlap.
ListReachesAll == exact /\ alone /\ lister.pc = "done" =>
  ToSet(lister.items) = UNION {ToSet(seriesFiles[p]) : p \in DOMAIN seriesFiles} /\ (\A i \in 1 .. Len(lister.items) - 1 : lister.items[i] <= lister.items[i + 1])

\* ... and every point is, also the ones that share their timestamp.  Not satisfied: the
\* points of the first timestamp of a list are one (core/timeseries.js:145).
ListHasEveryPoint == exact /\ alone /\ lister.pc = "done" =>
  Len(lister.items) = FoldFunction(LAMBDA list, n : Len(list) + n, 0, seriesFiles)

\* forEach() beside an insertion still finds what was confirmed before it began.  Not
\* satisfied: the file of an entry is looked up by an index that moves (timeseries.js:381).
ListFindsAcked == exact /\ lister.pc = "done" => lister.known \subseteq ToSet(lister.items)

-----------------------------------------------------------------------------
(****************************************************************************)
(* The key value stores of db/key_value_store over memory, Elasticsearch    *)
(* and MongoDB: update() reads, lets the caller modify, and writes back     *)
(* under the condition each database offers; dump() lists a bucket page by  *)
(* page while others write.  A value is the document it was created as and  *)
(* the number of updates since.  The databases are external: a request is   *)
(* atomic.  The store on disk is in KeyValueStoreDisk.                      *)
(****************************************************************************)
CONSTANTS
  StoreKinds,      \* the databases
  StoreKeys,       \* a set of integers, the order of the keys
  Updaters,        \* callers of update()
  MaxUpdates,      \* bound: calls of update() by each
  MaxConflicts,    \* maxConflicts
  MaxStoreWrites,  \* bound: creations and deletions by others
  PageSize,        \* entries per page of dump()
  MaxDumps         \* bound: calls of dump()

ASSUME KeyValueStoresAssumption ==
  /\ StoreKinds \subseteq {"memory", "elasticsearch", "mongodb"} /\ StoreKeys \subseteq Nat
  /\ PageSize \in Nat \ {0} /\ {MaxUpdates, MaxConflicts, MaxStoreWrites, MaxDumps} \subseteq Nat

VARIABLES
  storeKind,
  documents,    \* key -> document
  sequence,     \* the number of the last write of the database
  updaters,     \* calls of update()
  dumper,       \* the call of dump()
  misplaced,    \* writes of update() that replaced something else than what they were computed from
  storeWrites   \* creations and deletions so far

storesVars == <<storeKind, documents, sequence, updaters, dumper, misplaced, storeWrites>>

NoDocument == [id |-> 0, updates |-> 0, version |-> 0]
NoUpdate == [pc |-> "idle", key |-> 0, base |-> NoDocument, left |-> 0, calls |-> 0]
NoDump == [pc |-> "idle", page |-> 0, got |-> {}, kept |-> {}, deleted |-> FALSE, calls |-> 0]

StoresInit ==
  /\ storeKind \in StoreKinds /\ documents = [k \in StoreKeys |-> NoDocument] /\ sequence = 0
  /\ updaters = [u \in Updaters |-> NoUpdate] /\ dumper = NoDump /\ misplaced = {}
  /\ storeWrites = [created |-> 0, deleted |-> 0]

-----------------------------------------------------------------------------
(* The databases.  Elasticsearch numbers all writes, MongoDB documents carry*)
(* a counter of their own, which begins again with the document.            *)

Present(k) == documents[k] # NoDocument
Version(k) == IF storeKind = "elasticsearch" THEN sequence + 1 ELSE documents[k].version + 1
Value(doc) == [id |-> doc.id, updates |-> doc.updates]
Store(k, doc) == documents' = [documents EXCEPT ![k] = [doc EXCEPT !.version = Version(k)]] /\ sequence' = sequence + 1

\* set() of a key that is not there.
CreateDocument(k) ==
  /\ ~Present(k) /\ storeWrites.created < MaxStoreWrites /\ storeWrites' = [storeWrites EXCEPT !.created = @ + 1]
  /\ Store(k, [NoDocument EXCEPT !.id = sequence + 1])
  /\ UNCHANGED <<storeKind, updaters, dumper, misplaced>>
DeleteDocument(k) ==
  /\ Present(k) /\ storeWrites.deleted < MaxStoreWrites /\ storeWrites' = [storeWrites EXCEPT !.deleted = @ + 1]
  /\ documents' = [documents EXCEPT ![k] = NoDocument] /\ sequence' = sequence + 1
  /\ dumper' = [dumper EXCEPT !.kept = @ \ {k}, !.deleted = (@ \/ dumper.pc = "page")]
  /\ UNCHANGED <<storeKind, updaters, misplaced>>

-----------------------------------------------------------------------------
\* update(): the read, after which the modifier is awaited.
UpdateCall(u, k) ==
  /\ updaters[u].pc = "idle" /\ updaters[u].calls < MaxUpdates
  /\ updaters' = [updaters EXCEPT ![u] = [NoUpdate EXCEPT !.pc = "read", !.key = k, !.left = MaxConflicts, !.calls = updaters[u].calls + 1]]
  /\ UNCHANGED <<storeKind, documents, sequence, dumper, misplaced, storeWrites>>
UpdateReads(u) ==
  /\ updaters[u].pc = "read" /\ updaters' = [updaters EXCEPT ![u].pc = "write", ![u].base = documents[updaters[u].key]]
  /\ UNCHANGED <<storeKind, documents, sequence, dumper, misplaced, storeWrites>>

\* Whether the database accepts the write that is computed from base.
\* Mutant: MongoDB replaces the document of the key, whatever its counter.
MayWriteAnyTransaction(k, base) ==
  CASE storeKind = "memory" -> TRUE
    [] storeKind = "elasticsearch" -> base = NoDocument \/ documents[k].version = base.version
    [] storeKind = "mongodb" -> (base = NoDocument) = ~Present(k)
MayWrite(k, base) ==
  CASE storeKind = "memory" -> TRUE
    [] storeKind = "elasticsearch" -> base = NoDocument \/ documents[k].version = base.version
    [] storeKind = "mongodb" -> documents[k].version = base.version
Modified(base) == IF base = NoDocument THEN [NoDocument EXCEPT !.id = sequence + 1] ELSE [base EXCEPT !.updates = @ + 1]

UpdateWrites(u) ==
  LET k == updaters[u].key
      base == updaters[u].base
  IN  /\ updaters[u].pc = "write" /\ MayWrite(k, base)
      /\ Store(k, Modified(base))
      /\ misplaced' = IF Value(documents[k]) = Value(base) THEN misplaced
                      ELSE misplaced \cup {[new |-> base = NoDocument, recreated |-> documents[k].id # base.id]}
      /\ updaters' = [updaters EXCEPT ![u] = [NoUpdate EXCEPT !.calls = updaters[u].calls]]
      /\ UNCHANGED <<storeKind, dumper, storeWrites>>
\* A conflict: MongoDB tries again, Elasticsearch passes the error on.
UpdateConflicts(u) ==
  LET again == storeKind = "mongodb" /\ updaters[u].left > 0 IN
  /\ updaters[u].pc = "write" /\ ~MayWrite(updaters[u].key, updaters[u].base)
  /\ updaters' = [updaters EXCEPT ![u] = IF again THEN [@ EXCEPT !.pc = "read", !.left = @ - 1]
                                         ELSE [NoUpdate EXCEPT !.calls = updaters[u].calls]]
  /\ UNCHANGED <<storeKind, documents, sequence, dumper, misplaced, storeWrites>>

-----------------------------------------------------------------------------
\* dump(): one page after the other, each of what the bucket holds by then (makeFromObject, with sorted keys).
KeyList == SetToSortSeq({k \in StoreKeys : Present(k)}, <)
DumpCall ==
  /\ dumper.pc = "idle" /\ storeKind = "memory" /\ dumper.calls < MaxDumps
  /\ dumper' = [NoDump EXCEPT !.pc = "page", !.kept = ToSet(KeyList), !.calls = dumper.calls + 1]
  /\ UNCHANGED <<storeKind, documents, sequence, updaters, misplaced, storeWrites>>
\* Mutant: the end of the page is compared with the size of the bucket minus one.
IsLastPageEarly(page) == (page + 1) * PageSize >= Len(KeyList) - 1
IsLastPage(page) == (page + 1) * PageSize >= Len(KeyList)
DumpPage ==
  LET from == dumper.page * PageSize
      slice == SubSeq(KeyList, from + 1, Min({from + PageSize, Len(KeyList)}))
  IN  /\ dumper.pc = "page"
      /\ dumper' = [dumper EXCEPT !.got = @ \cup ToSet(slice), !.page = @ + 1, !.pc = IF IsLastPage(dumper.page) THEN "done" ELSE "page"]
      /\ UNCHANGED <<storeKind, documents, sequence, updaters, misplaced, storeWrites>>
DumpReturns ==
  /\ dumper.pc = "done" /\ dumper' = [NoDump EXCEPT !.calls = dumper.calls]
  /\ UNCHANGED <<storeKind, documents, sequence, updaters, misplaced, storeWrites>>

StoresNext ==
  \/ \E k \in StoreKeys : CreateDocument(k) \/ DeleteDocument(k) \/ \E u \in Updaters : UpdateCall(u, k)
  \/ \E u \in Updaters : UpdateReads(u) \/ UpdateWrites(u) \/ UpdateConflicts(u)
  \/ DumpCall \/ DumpPage \/ DumpReturns

-----------------------------------------------------------------------------
\* update() is an "Atomic operation that consists of a read, modify and write operation." (key_value_store.js:79): what it
\* replaces is what it was computed from.  Memory does not keep this; Elasticsearch does for documents that it read, MongoDB
\* unless the document was deleted and created again in the meantime.
UpdateReplacesItsBase == \A m \in misplaced :
  CASE storeKind = "memory" -> TRUE
    [] storeKind = "elasticsearch" -> m.new
    [] storeKind = "mongodb" -> m.recreated

\* A key that stays in the bucket during the whole dump() is in it, as long as nothing is deleted meanwhile.
DumpComplete == dumper.pc = "done" /\ ~dumper.deleted => dumper.kept \subseteq dumper.got


-----------------------------------------------------------------------------
\* Time series: what insert() confirmed is in the file its index names, through crashes, and a list
\* reaches it.  Key value stores: an update replaces the value it was computed from, a dump is complete.
DatabasesSafe ==
  /\ AckedInIndexedFile
  /\ IndexExact
  /\ ListReachesAll
  /\ UpdateReplacesItsBase
  /\ DumpComplete
=============================================================================
