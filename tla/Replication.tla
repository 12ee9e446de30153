----------------------------- MODULE Replication ----------------------------
(***************************************************************************)
(* Who follows the records of a node (apps/artifacts/plugins/nodes):        *)
(*   - the databases of the same process (databases/database.js), from the  *)
(*     periodic process and from the stop process;                          *)
(*   - a source on another host (sources/source.js, sources/nodes.js),      *)
(*     through the endpoint /@records (backend.js), which keeps what it got *)
(*     with the tick to go on from.                                         *)
(* The node has several storages with a lock each and one count of ticks.   *)
(* Reads see whole files here; Records models how they are read.            *)
(***************************************************************************)
EXTENDS Integers, FiniteSets, Sequences, SequencesExt, FiniteSetsExt

CONSTANTS
  RecordStorages,   \* the storages, in the order of their names in memory
  Ranks,            \* how payloads compare with each other
  Exporters,        \* concurrent calls of processNext()
  ReadMaxSize,      \* records in an answer
  MaxProduced,      \* bound on the records written
  MaxLosses         \* bound on crashes, failures and lost records

ASSUME ReplicationAssumption ==
  /\ RecordStorages \in Seq(STRING) /\ Ranks \subseteq Nat
  /\ ReadMaxSize \in Nat \ {0} /\ {MaxProduced, MaxLosses} \subseteq Nat

VARIABLES
  logs,         \* the entries of every storage
  taken,        \* a write that has its tick and has not appended yet
  nodeTick,     \* this.tick of the node
  life,         \* how often the node lost its records
  produced,     \* the payloads are numbered
  db,           \* the tick of the database, and the records it has
  exporter,     \* the calls of processNext()
  source,       \* nextTickRemote, the process under way, and which life its tick is of
  kept,         \* what the source has written: payloads and the last tickRemote
  inMemory,     \* what is in the data of the source's host
  losses,
  partial,      \* a batch of the source was cut by a crash or a failure (history)
  overtaken     \* the tick of a former life was taken for one of this life (history)

replicationVars == <<logs, taken, nodeTick, life, produced, db, exporter, source, kept, inMemory, losses, partial, overtaken>>

Storage == ToSet(RecordStorages)
NoEntry == [tick |-> 0, id |-> 0, rank |-> 0]
NoBatch == [pc |-> "idle", batch |-> <<>>, next |-> 0]

ReplicationInit ==
  /\ logs = [s \in Storage |-> <<>>] /\ taken = [s \in Storage |-> NoEntry]
  /\ nodeTick = 0 /\ life = 0 /\ produced = 0
  /\ db = [tick |-> 0, has |-> {}]
  /\ exporter = [e \in Exporters |-> NoBatch]
  /\ source = [pc |-> "idle", batch |-> <<>>, next |-> -1, life |-> 0]
  /\ kept = [ids |-> {}, tick |-> 0, life |-> 0]
  /\ inMemory = {}
  /\ losses = 0 /\ partial = FALSE /\ overtaken = FALSE

-----------------------------------------------------------------------------
\* Records.write(): the tick is taken when the lock of the storage is, and the line is
\* appended later.
TakeTick(s) ==
  /\ taken[s] = NoEntry /\ produced < MaxProduced
  /\ \E r \in Ranks : taken' = [taken EXCEPT ![s] = [tick |-> nodeTick + 1, id |-> produced + 1, rank |-> r]]
  /\ nodeTick' = nodeTick + 1 /\ produced' = produced + 1
  /\ UNCHANGED <<logs, life, db, exporter, source, kept, inMemory, losses, partial, overtaken>>
AppendRecord(s) ==
  /\ taken[s] # NoEntry
  /\ logs' = [logs EXCEPT ![s] = Append(@, taken[s])]
  /\ taken' = [taken EXCEPT ![s] = NoEntry]
  /\ UNCHANGED <<nodeTick, life, produced, db, exporter, source, kept, inMemory, losses, partial, overtaken>>

\* The node starts again without its records; the tick begins at 0.
LoseRecords ==
  /\ losses < MaxLosses /\ losses' = losses + 1
  /\ logs' = [s \in Storage |-> <<>>] /\ taken' = [s \in Storage |-> NoEntry]
  /\ nodeTick' = 0 /\ life' = life + 1
  /\ db' = [tick |-> 0, has |-> {}] /\ exporter' = [e \in Exporters |-> NoBatch]
  /\ UNCHANGED <<produced, source, kept, inMemory, partial, overtaken>>

\* Plugin.read(): RecordsReader.read() starts in every storage at the first entry from the
\* tick on; each time the entry whose payload compares lowest is next (reader.js:238
\* compares the payloads, not the ticks), until the size is reached.
First(s, tick) == CHOOSE i \in 1 .. Len(logs[s]) + 1 :
  /\ \A j \in 1 .. i - 1 : logs[s][j].tick < tick
  /\ i <= Len(logs[s]) => logs[s][i].tick >= tick
EntryAt(at, i) == logs[RecordStorages[i]][at[RecordStorages[i]]]
Heads(at) == {i \in DOMAIN RecordStorages : at[RecordStorages[i]] <= Len(logs[RecordStorages[i]])}
MinIndex(at) == CHOOSE i \in Heads(at) : \A j \in Heads(at) :
  LET a == EntryAt(at, i).rank
      b == EntryAt(at, j).rank
  IN  a < b \/ (a = b /\ i <= j)
Yield(st) ==
  IF Heads(st.at) = {} THEN st
  ELSE LET i == MinIndex(st.at)
       IN  [out |-> Append(st.out, EntryAt(st.at, i)), at |-> [st.at EXCEPT ![RecordStorages[i]] = @ + 1]]
ReadFrom(tick) ==
  LET start == [out |-> <<>>, at |-> [s \in Storage |-> First(s, tick)]]
      read[n \in 0 .. ReadMaxSize] == IF n = 0 THEN start ELSE Yield(read[n - 1])
  IN  read[ReadMaxSize].out
\* Mutant: the tick of the first record is the one to go on from.
NextTickFirst(tick, out) == IF out = <<>> THEN tick ELSE Head(out).tick + Len(out) + 1
NextTick(tick, out) == IF out = <<>> THEN tick ELSE Last(out).tick + 1

AllEntries == UNION {ToSet(logs[s]) : s \in Storage}
IdsIn(out) == {out[i].id : i \in DOMAIN out}

-----------------------------------------------------------------------------
\* processNext(): read, give the records to the database, and only then move the tick.
Export(e) ==
  /\ exporter[e].pc = "idle"
  /\ LET out == ReadFrom(db.tick)
     IN  /\ out # <<>>
         /\ exporter' = [exporter EXCEPT ![e] = [pc |-> "store", batch |-> out, next |-> NextTick(db.tick, out)]]
  /\ UNCHANGED <<logs, taken, nodeTick, life, produced, db, source, kept, inMemory, losses, partial, overtaken>>
ExportStores(e) ==
  /\ exporter[e].pc = "store"
  /\ db' = [tick |-> exporter[e].next, has |-> db.has \cup IdsIn(exporter[e].batch)]
  /\ exporter' = [exporter EXCEPT ![e] = NoBatch]
  /\ UNCHANGED <<logs, taken, nodeTick, life, produced, source, kept, inMemory, losses, partial, overtaken>>
\* Mutant: the tick moves although the database failed.
ExportFailsForward(e) ==
  /\ exporter[e].pc = "store" /\ losses < MaxLosses /\ losses' = losses + 1
  /\ db' = [db EXCEPT !.tick = exporter[e].next]
  /\ exporter' = [exporter EXCEPT ![e] = NoBatch]
  /\ UNCHANGED <<logs, taken, nodeTick, life, produced, source, kept, inMemory, partial, overtaken>>
ExportFails(e) ==
  /\ exporter[e].pc = "store" /\ losses < MaxLosses /\ losses' = losses + 1
  /\ exporter' = [exporter EXCEPT ![e] = NoBatch]
  /\ UNCHANGED <<logs, taken, nodeTick, life, produced, db, source, kept, inMemory, partial, overtaken>>

-----------------------------------------------------------------------------
\* process() of the source: the first time the tick comes from the records; the endpoint
\* takes a tick beyond its own for one of a former life and starts from 0.
From == IF source.next = -1 THEN kept.tick ELSE source.next
\* Mutant: the endpoint answers from any tick.
ServedFromAny == From
ServedFrom == IF From > nodeTick + 1 THEN 0 ELSE From
Fetch ==
  /\ source.pc = "idle"
  /\ LET out == ReadFrom(ServedFrom)
         next == NextTick(ServedFrom, out)
     IN  /\ out # <<>> \/ next # source.next \/ source.life # life
         /\ source' = [pc |-> IF out = <<>> THEN "idle" ELSE "apply", batch |-> out, next |-> next, life |-> life]
         /\ overtaken' = (overtaken \/ (source.life # life /\ From \in 1 .. nodeTick + 1))
  /\ UNCHANGED <<logs, taken, nodeTick, life, produced, db, exporter, kept, inMemory, losses, partial>>
\* A record is inserted in the data and written with the tick to go on from.
Apply ==
  /\ source.pc = "apply"
  /\ LET e == Head(source.batch)
     IN  /\ inMemory' = inMemory \cup {e.id}
         /\ kept' = [ids |-> kept.ids \cup {e.id}, tick |-> source.next, life |-> source.life]
  /\ source' = [source EXCEPT !.batch = Tail(@), !.pc = IF Len(source.batch) = 1 THEN "idle" ELSE "apply"]
  /\ UNCHANGED <<logs, taken, nodeTick, life, produced, db, exporter, losses, partial, overtaken>>
\* A write fails: the rest of the batch is not applied, and the tick stays.
ApplyFails ==
  /\ source.pc = "apply" /\ losses < MaxLosses /\ losses' = losses + 1
  /\ inMemory' = inMemory \cup {Head(source.batch).id}
  /\ source' = [source EXCEPT !.batch = <<>>, !.pc = "idle"]
  /\ partial' = TRUE
  /\ UNCHANGED <<logs, taken, nodeTick, life, produced, db, exporter, kept, overtaken>>
\* The host of the source crashes and starts again from its records.
SourceCrash ==
  /\ losses < MaxLosses /\ losses' = losses + 1
  /\ source' = [pc |-> "idle", batch |-> <<>>, next |-> -1, life |-> kept.life]
  /\ inMemory' = kept.ids
  /\ partial' = (partial \/ (source.pc = "apply" /\ kept.tick = source.next))
  /\ UNCHANGED <<logs, taken, nodeTick, life, produced, db, exporter, kept, overtaken>>

ProduceStep == \E s \in Storage : TakeTick(s) \/ AppendRecord(s)
ExportStep(e) == Export(e) \/ ExportStores(e)
ReplicationNext ==
  \/ ProduceStep \/ LoseRecords
  \/ \E e \in Exporters : ExportStep(e) \/ ExportFails(e)
  \/ Fetch \/ Apply \/ ApplyFails \/ SourceCrash

\* Writes end, and both processes are run periodically whether they failed or not: what
\* they have to do does not stay undone.  Their steps are finitely many in a behaviour, so
\* that this is their weak fairness.
ToExport(e) == exporter[e].pc = "store" \/ \E x \in AllEntries : x.tick >= db.tick
ToFetch == source.pc = "apply" \/ source.life # life \/ \E x \in AllEntries : x.tick >= ServedFrom
ReplicationFairness ==
  /\ \A s \in Storage : WF_replicationVars(AppendRecord(s))
  /\ \A e \in Exporters : []<>~ToExport(e)
  /\ []<>~ToFetch

ReplicationSpec == ReplicationInit /\ [][ReplicationNext]_replicationVars /\ ReplicationFairness

-----------------------------------------------------------------------------
\* Below its tick the database has every record, through failures and overlapping calls.
DatabaseComplete == \A e \in AllEntries : e.tick < db.tick => e.id \in db.has

\* Between two batches the source has every record below its tick, unless a batch was cut
\* or the node lost its records and wrote as many again before the next request.
SourceComplete ==
  (source.pc = "idle" /\ source.life = life /\ ~partial /\ ~overtaken) =>
    \A e \in AllEntries : e.tick < From => e.id \in inMemory /\ e.id \in kept.ids

\* What is read is merged "based on the tick values" (docs/records.md:54).  That is so with one
\* storage; with more, getMinIndex() compares the payloads.
MergedByTick == \A e \in Exporters : \A i, j \in DOMAIN exporter[e].batch :
  i < j => exporter[e].batch[i].tick < exporter[e].batch[j].tick

\* Every record reaches the database and the source, with the same exceptions.
DatabaseCatchesUp == \A id \in 1 .. MaxProduced :
  (\E e \in AllEntries : e.id = id) ~> (id \in db.has \/ ~\E e \in AllEntries : e.id = id)
SourceCatchesUp == \A id \in 1 .. MaxProduced :
  (\E e \in AllEntries : e.id = id) ~>
    (id \in inMemory \/ partial \/ overtaken \/ ~\E e \in AllEntries : e.id = id)
=============================================================================
