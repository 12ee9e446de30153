------------------------------ MODULE Records -------------------------------
(***************************************************************************)
(* The records of a node on disk (apps/artifacts/plugins/nodes/records):    *)
(* write() appends to the newest file of a storage, compresses it when it   *)
(* is full and removes the oldest ones; init() rebuilds everything after a  *)
(* crash; the lock-free reader follows while all this goes on.  One storage *)
(* with its lock (nodejs/core/lock.js), so that one write is under way at a *)
(* time.  An action ends at an await, where a crash may come.               *)
(***************************************************************************)
EXTENDS Integers, FiniteSets, Sequences, SequencesExt, FiniteSetsExt

CONSTANTS
  PayloadSizes,    \* the sizes of what is written, for each write
  RecordMaxSize,   \* options.recordMaxSize
  RecordsMaxSize,  \* options.maxSize
  CompressedSize,  \* the size of a compressed file
  MaxRecordWrites, \* bound on the calls of write()
  MaxRecordCrashes \* bound on the crashes

ASSUME RecordsAssumption ==
  /\ PayloadSizes \in [1 .. MaxRecordWrites -> SUBSET (Nat \ {0})] /\ RecordMaxSize <= RecordsMaxSize
  /\ {RecordMaxSize, RecordsMaxSize, CompressedSize, MaxRecordWrites, MaxRecordCrashes} \subseteq Nat

VARIABLES
  disk,         \* the files: tick and number of .gz in the name, content, whether it parses
  index,        \* storage.records
  recordsTick,  \* this.tick
  service,      \* down, loading, ready or failed
  loading,      \* the files init() has not looked at
  writing,      \* the write under way
  nbWrites,     \* the payloads are numbered
  acked,        \* payloads whose write() returned (history)
  evicted,      \* payloads of files removed as the oldest (history)
  lost,         \* payloads of files that a crash tore, or that were compressed twice (history)
  follower,     \* a reader: its tick, what it knows of the files, the read under way
  delivered,    \* payloads it was given (history)
  recordCrashes,
  crashedAt     \* where the write was when the last crash came (history)

recordsVars == <<disk, index, recordsTick, service, loading, writing, nbWrites, acked, evicted, lost,
                 follower, delivered, recordCrashes, crashedAt>>

NotWriting == [pc |-> "idle", tick |-> 0, id |-> 0, size |-> 0]
NotReading == [pc |-> "idle", tick |-> 0, known |-> <<>>, listing |-> <<>>, memo |-> {}, at |-> 1, processed |-> FALSE]

\* After init() of an empty directory.
RecordsInit ==
  /\ disk = {} /\ index = <<>> /\ recordsTick = 0
  /\ service = "ready" /\ loading = {}
  /\ writing = NotWriting /\ nbWrites = 0
  /\ acked = {} /\ evicted = {} /\ lost = {}
  /\ follower = NotReading /\ delivered = {}
  /\ recordCrashes = 0 /\ crashedAt = "idle"

-----------------------------------------------------------------------------
Ids(entries) == {entries[i].id : i \in DOMAIN entries}
IdsOf(files) == UNION {Ids(f.entries) : f \in files}
Named(tick, gz) == {f \in disk : f.tick = tick /\ f.gz = gz}
\* getTickFromPath() recognizes .rec and .rec.gz only.
HasTick(f) == f.gz <= 1
EntriesSize(entries) == FoldLeft(LAMBDA n, e : n + e.size, 0, entries)
FileSize(f) == IF f.gz = 0 THEN EntriesSize(f.entries) ELSE CompressedSize
IndexSize(ix) == FoldLeft(LAMBDA n, e : n + e.size, 0, ix)
TooMuch(ix) == ix # <<>> /\ IndexSize(ix) > RecordsMaxSize - RecordMaxSize

\* write(): the lock is free, the tick is taken and _getLastEntryForWriting() decides.
Newest == Last(index)
WritePlan(size) ==
  IF index # <<>> /\ Newest.size + size > RecordMaxSize THEN "compress"
  ELSE IF index = <<>> \/ Newest.gz > 0 THEN "touch"
  ELSE "append"
WriteCall ==
  /\ service = "ready" /\ writing.pc = "idle" /\ nbWrites < MaxRecordWrites
  /\ \E size \in PayloadSizes[nbWrites + 1] :
       writing' = [pc |-> WritePlan(size), tick |-> recordsTick + 1, id |-> nbWrites + 1, size |-> size]
  /\ recordsTick' = recordsTick + 1 /\ nbWrites' = nbWrites + 1
  /\ UNCHANGED <<disk, index, service, loading, acked, evicted, lost, follower, delivered, recordCrashes, crashedAt>>

WriteGoes(pc) == writing' = [writing EXCEPT !.pc = pc]
WriteFrame == UNCHANGED <<recordsTick, service, loading, nbWrites, lost, follower, delivered, recordCrashes, crashedAt>>

\* Mutant: the file is removed before the compressed one is written.
CompressBeginsUnlinked ==
  /\ writing.pc = "compress"
  /\ disk' = (disk \ Named(Newest.tick, Newest.gz))
             \cup {[f EXCEPT !.gz = @ + 1, !.whole = FALSE] : f \in Named(Newest.tick, Newest.gz)}
  /\ WriteGoes("compressing") /\ WriteFrame /\ UNCHANGED <<index, acked, evicted>>
\* _compressEntry(): the compressed file is written, first in part,
CompressBegins ==
  /\ writing.pc = "compress"
  /\ disk' = disk \cup {[f EXCEPT !.gz = @ + 1, !.whole = FALSE] : f \in Named(Newest.tick, Newest.gz)}
  /\ WriteGoes("compressing") /\ WriteFrame /\ UNCHANGED <<index, acked, evicted>>
CompressEnds ==
  /\ writing.pc = "compressing"
  /\ LET part == Named(Newest.tick, Newest.gz + 1)
     IN  disk' = (disk \ part) \cup {[f EXCEPT !.whole = TRUE] : f \in part}
  /\ WriteGoes("replace") /\ WriteFrame /\ UNCHANGED <<index, acked, evicted>>
\* then the other one is removed.
CompressUnlinks ==
  /\ writing.pc = "replace"
  /\ disk' = disk \ Named(Newest.tick, Newest.gz)
  /\ index' = [index EXCEPT ![Len(index)] = [@ EXCEPT !.gz = @ + 1, !.size = CompressedSize]]
  /\ lost' = IF Newest.gz = 0 THEN lost ELSE lost \cup IdsOf(Named(Newest.tick, Newest.gz))
  /\ WriteGoes("touch") /\ UNCHANGED <<recordsTick, service, loading, nbWrites, acked, evicted>>
  /\ UNCHANGED <<follower, delivered, recordCrashes, crashedAt>>

\* _addRecordEntry(): an empty file, its header,
Touch ==
  /\ writing.pc = "touch"
  /\ disk' = disk \cup {[tick |-> writing.tick, gz |-> 0, whole |-> FALSE, entries |-> <<>>]}
  /\ WriteGoes("header") /\ WriteFrame /\ UNCHANGED <<index, acked, evicted>>
Header ==
  /\ writing.pc = "header"
  /\ LET new == Named(writing.tick, 0)
     IN  disk' = (disk \ new) \cup {[f EXCEPT !.whole = TRUE] : f \in new}
  /\ index' = Append(index, [tick |-> writing.tick, gz |-> 0, size |-> 0])
  /\ WriteGoes("evict") /\ WriteFrame /\ UNCHANGED <<acked, evicted>>
\* and the oldest files go while there is too much.
Evict ==
  /\ writing.pc = "evict" /\ TooMuch(index)
  /\ index' = Tail(index)
  /\ disk' = disk \ Named(Head(index).tick, Head(index).gz)
  /\ evicted' = evicted \cup IdsOf(Named(Head(index).tick, Head(index).gz))
  /\ WriteGoes("evict") /\ WriteFrame /\ UNCHANGED acked
EvictEnds ==
  /\ writing.pc = "evict" /\ ~TooMuch(index)
  /\ WriteGoes("append") /\ WriteFrame /\ UNCHANGED <<disk, index, acked, evicted>>

\* appendFile(): the line is there in part, then as a whole, and write() returns.
AppendBegins ==
  /\ writing.pc = "append"
  /\ LET file == Named(Newest.tick, Newest.gz)
     IN  disk' = (disk \ file) \cup {[f EXCEPT !.whole = FALSE] : f \in file}
  /\ WriteGoes("appending") /\ WriteFrame /\ UNCHANGED <<index, acked, evicted>>
AppendEnds ==
  /\ writing.pc = "appending"
  /\ LET file == Named(Newest.tick, Newest.gz)
         new == [tick |-> writing.tick, id |-> writing.id, size |-> writing.size]
     IN  disk' = (disk \ file) \cup {[f EXCEPT !.whole = TRUE, !.entries = Append(@, new)] : f \in file}
  /\ index' = [index EXCEPT ![Len(index)].size = @ + writing.size]
  /\ acked' = acked \cup {writing.id}
  /\ writing' = NotWriting /\ WriteFrame /\ UNCHANGED evicted

-----------------------------------------------------------------------------
\* A crash: the process is gone, and so are the files that were half written.
Tears == IdsOf({f \in disk : ~f.whole /\ f.gz = 0})
RecordsCrash ==
  /\ recordCrashes < MaxRecordCrashes /\ service \in {"loading", "ready"}
  /\ recordCrashes' = recordCrashes + 1 /\ crashedAt' = IF service = "ready" THEN writing.pc ELSE crashedAt
  /\ service' = "down" /\ index' = <<>> /\ recordsTick' = 0 /\ loading' = {}
  /\ writing' = NotWriting /\ follower' = NotReading /\ delivered' = {}
  /\ lost' = lost \cup Tears
  /\ UNCHANGED <<disk, nbWrites, acked, evicted>>

\* init(): every file of the directory,
LoadFrame == UNCHANGED <<writing, nbWrites, acked, lost, follower, delivered, recordCrashes, crashedAt>>
RecordsStart ==
  /\ service = "down" /\ service' = "loading" /\ loading' = disk
  /\ LoadFrame /\ UNCHANGED <<disk, index, recordsTick, evicted>>

\* in any order, becomes an entry at its place; one with an unknown name is removed, two
\* with the same tick are refused.
\* Mutant: at the end.
InsertLast(ix, f) == Append(ix, [tick |-> f.tick, gz |-> f.gz, size |-> FileSize(f)])
Insert(ix, f) ==
  LET after == Cardinality({i \in DOMAIN ix : ix[i].tick <= f.tick})
  IN  InsertAt(ix, after + 1, [tick |-> f.tick, gz |-> f.gz, size |-> FileSize(f)])
\* How many of the oldest are too much.
Excess(ix) == Min({n \in 0 .. Len(ix) : ~TooMuch(SubSeq(ix, n + 1, Len(ix)))})
LoadFile(f) ==
  /\ service = "loading" /\ f \in loading /\ loading' = loading \ {f}
  /\ IF ~HasTick(f)
     THEN disk' = disk \ {f} /\ UNCHANGED <<index, service, evicted>>
     ELSE IF \E i \in DOMAIN index : index[i].tick = f.tick
     THEN service' = "failed" /\ UNCHANGED <<disk, index, evicted>>
     ELSE LET ix == Insert(index, f)
              n == Excess(ix)
              gone == UNION {Named(ix[i].tick, ix[i].gz) : i \in 1 .. n}
          IN  /\ index' = SubSeq(ix, n + 1, Len(ix))
              /\ disk' = disk \ gone /\ evicted' = evicted \cup IdsOf(gone)
              /\ UNCHANGED service
  /\ LoadFrame /\ UNCHANGED recordsTick

\* _sanitizeStorage(): the ticks must increase from file to file and within a file; a file
\* that does not parse is removed; the tick goes on after the last one.
FileOf(e) == CHOOSE f \in disk : f.tick = e.tick /\ f.gz = e.gz
\* Mutant: the tick goes on after the number of the last file.
LastTickOfName(e) == e.tick
LastTick(e) == IF FileOf(e).whole /\ FileOf(e).entries # <<>> THEN Last(FileOf(e).entries).tick ELSE e.tick - 1
InOrder ==
  /\ \A i \in 2 .. Len(index) : index[i].tick > LastTick(index[i - 1])
  /\ \A i \in DOMAIN index : LET es == FileOf(index[i]).entries IN
       \A j \in DOMAIN es : es[j].tick > (IF j = 1 THEN index[i].tick - 1 ELSE es[j - 1].tick)
SanitizeRecords ==
  /\ service = "loading" /\ loading = {}
  /\ IF InOrder
     THEN /\ index' = SelectSeq(index, LAMBDA e : FileOf(e).whole)
          /\ disk' = {f \in disk : f.whole}
          /\ recordsTick' = IF index = <<>> THEN 0 ELSE LastTick(Last(index))
          /\ service' = "ready"
     ELSE service' = "failed" /\ UNCHANGED <<disk, index, recordsTick>>
  /\ LoadFrame /\ UNCHANGED <<loading, evicted>>

-----------------------------------------------------------------------------
\* The reader.  _readStorageByChunk() looks for the files when it knows of none.
FollowFrame ==
  UNCHANGED <<disk, index, recordsTick, service, loading, writing, nbWrites, acked, evicted, lost, recordCrashes, crashedAt>>
Begin(fo) == [fo EXCEPT !.pc = IF fo.known = <<>> THEN "list" ELSE "pick", !.memo = {}, !.processed = FALSE]
ReadCall ==
  /\ service = "ready" /\ follower.pc = "idle"
  /\ follower' = Begin(follower)
  /\ FollowFrame /\ UNCHANGED delivered

\* discover(): the names, in any order between files of one tick,
ReadList ==
  /\ follower.pc = "list"
  /\ \E first \in {0, 1} :
       LET names == {[tick |-> f.tick, gz |-> f.gz] : f \in {g \in disk : HasTick(g)}}
           before(a, b) == a.tick < b.tick \/ (a.tick = b.tick /\ a.gz = first)
       IN  follower' = [follower EXCEPT !.pc = "stat", !.listing = SetToSortSeq(names, before)]
  /\ FollowFrame /\ UNCHANGED delivered
\* then their sizes; when one is gone the former knowledge is kept.
Hash(n) == LET f == CHOOSE f \in disk : f.tick = n.tick /\ f.gz = n.gz IN <<Len(f.entries), f.whole>>
ReadStat ==
  /\ follower.pc = "stat"
  /\ follower' = [follower EXCEPT !.pc = "pick", !.listing = <<>>, !.known =
       IF \A i \in DOMAIN follower.listing : Named(follower.listing[i].tick, follower.listing[i].gz) # {}
       THEN [i \in DOMAIN follower.listing |-> [tick |-> follower.listing[i].tick, gz |-> follower.listing[i].gz,
                                                hash |-> Hash(follower.listing[i])]]
       ELSE @]
  /\ FollowFrame /\ UNCHANGED delivered

\* The first file to look at, then the next ones that were not read at this size.
\* Mutant: compared the other way around.
StartAtAbove == LET upTo == {i \in DOMAIN follower.known : follower.known[i].tick >= follower.tick}
                IN  IF upTo = {} THEN 1 ELSE Max(upTo)
StartAt == LET upTo == {i \in DOMAIN follower.known : follower.known[i].tick <= follower.tick}
           IN  IF upTo = {} THEN 1 ELSE Max(upTo)
Unread(from) == {i \in DOMAIN follower.known : i >= from /\ follower.known[i] \notin follower.memo}
\* A file that is gone or does not parse makes the reader look at the directory again.
\* Mutant: the next time.
LookAgainLater(fo) == [fo EXCEPT !.pc = "idle", !.memo = {}, !.at = 1]
LookAgain(fo) == [fo EXCEPT !.pc = "list", !.at = 1]
\* At the end of the list: look again when something was read, otherwise there is nothing.
EndOfList(fo) == IF fo.processed THEN LookAgain(fo)
                 ELSE [fo EXCEPT !.pc = "idle", !.memo = {}, !.at = 1]
Seek(from, fo) ==
  IF Unread(from) = {} THEN EndOfList(fo)
  ELSE [fo EXCEPT !.pc = "read", !.at = Min(Unread(from))]
ReadPick ==
  /\ follower.pc = "pick"
  /\ follower' = Seek(StartAt, [follower EXCEPT !.processed = FALSE])
  /\ FollowFrame /\ UNCHANGED delivered

\* The content of a file: the entries from the tick on, if any.
ReadFile ==
  /\ follower.pc = "read"
  /\ LET e == follower.known[follower.at]
         file == {f \in Named(e.tick, e.gz) : f.whole}
         new == UNION {{f.entries[i] : i \in {j \in DOMAIN f.entries : f.entries[j].tick >= follower.tick}} : f \in file}
         went == [follower EXCEPT !.processed = TRUE, !.memo = @ \cup {e}]
     IN  IF file = {} THEN follower' = LookAgain(went) /\ UNCHANGED delivered
         ELSE IF new = {} THEN follower' = Seek(follower.at + 1, went) /\ UNCHANGED delivered
         ELSE /\ follower' = [follower EXCEPT !.pc = "idle", !.memo = {}, !.processed = FALSE, !.at = 1,
                                              !.tick = Max({n.tick : n \in new}) + 1]
              /\ delivered' = delivered \cup {n.id : n \in new}
  /\ FollowFrame

WriteStep == CompressBegins \/ CompressEnds \/ CompressUnlinks \/ Touch \/ Header \/ Evict \/ EvictEnds
             \/ AppendBegins \/ AppendEnds
ReadStep == ReadCall \/ ReadList \/ ReadStat \/ ReadPick \/ ReadFile
LoadStep == RecordsStart \/ (\E f \in loading : LoadFile(f)) \/ SanitizeRecords

RecordsNext == WriteCall \/ WriteStep \/ RecordsCrash \/ LoadStep \/ ReadStep

\* The file system answers and the reader reads again and again.
RecordsFairness ==
  WF_recordsVars(WriteStep) /\ WF_recordsVars(LoadStep) /\ WF_recordsVars(nbWrites > 0 /\ ReadStep)

RecordsSpec == RecordsInit /\ [][RecordsNext]_recordsVars /\ RecordsFairness

-----------------------------------------------------------------------------
Loaded == IdsOf({f \in disk : HasTick(f)})

\* What write() confirmed is on disk, through compression, eviction, crashes and restarts,
\* unless it was evicted, a crash tore the file it is in, or that file was compressed although
\* it was already (records.js:207 comes before records.js:213; no name ends in .rec.gz.gz).
AckedKept == acked \subseteq Loaded \cup evicted \cup lost

\* The entries on disk have increasing ticks in the order they were written, which the
\* reader's tick relies on, also after a restart took up the count again.
EntriesOf(files) == UNION {{f.entries[i] : i \in DOMAIN f.entries} : f \in files}
TicksOrdered == \A e, g \in EntriesOf(disk) : e.id < g.id => e.tick < g.tick

\* init() refuses to start only when the crash came while a file was being replaced by its
\* compressed form (records.js:148).
FailsOnlyInCompression == service = "failed" => crashedAt \in {"compressing", "replace"}

\* The reader passes over no entry that is on disk: below its tick everything that is not lost was
\* delivered,
\* although files are extended, replaced and removed while it reads.
ReaderSkipsNothing == \A e \in EntriesOf(disk) :
  (e.tick < follower.tick /\ e.id \notin lost) => e.id \in delivered

\* A confirmed entry is delivered at last, unless it goes away before.
ReaderCatchesUp == \A id \in 1 .. MaxRecordWrites :
  (id \in acked /\ service = "ready") ~> (id \in delivered \/ id \notin Loaded \/ service # "ready")

\* What is confirmed stays, in order and readable, whatever the writer, the eviction, a crash
\* and a restart do between two steps.
RecordsSafe ==
  /\ AckedKept
  /\ TicksOrdered
  /\ FailsOnlyInCompression
  /\ ReaderSkipsNothing
=============================================================================
