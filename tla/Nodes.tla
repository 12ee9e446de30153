------------------------------- MODULE Nodes --------------------------------
(****************************************************************************)
(* The nodes plugin of the artifacts application: the values of its nodes   *)
(* and the requests for them.                                               *)
(****************************************************************************)
EXTENDS Integers, SequencesExt, FiniteSetsExt

(****************************************************************************)
(* The values of one node of the artifacts application: the newest ones in  *)
(* memory (db/data/data.js), all of them, later, in a database              *)
(* (databases/influxdb.js), what a request gets from both, and the export   *)
(* of a time range, page by page, as rows (db/data/generator.js) while      *)
(* values keep coming.  A value is its timestamp; a key gets no two values  *)
(* of the same millisecond.  An export asks for all that is after its start.*)
(****************************************************************************)
CONSTANTS
  NodeKeys,     \* keys of the node
  MaxTime,      \* timestamps are 1 .. MaxTime
  History,      \* values kept in memory per key
  Page,         \* values asked at once by an export
  MaxPosts,     \* bound: values that are posted
  MaxLost       \* bound: records that could not be written

ASSUME NodeDataAssumption == {MaxTime, History, Page, MaxPosts} \subseteq Nat \ {0} /\ MaxLost \in Nat

VARIABLES
  held,       \* values of a key in memory, newest first
  posted,     \* values of a key that were ever inserted
  unwritten,  \* values in memory whose record is being written
  recorded,   \* the records <<key, time>>, in their order
  sentRecords,\* how many of them the database has
  lostRecords,\* how many could not be written
  gapped,     \* a value left the memory before the database had it
  late,       \* a value came after a newer one of its key
  export,     \* the export: pc, after, count, columns and the pages being fetched
  wanted,     \* values of the export's range when it started
  rows        \* rows of the export: <<time, keys>>

nodeDataVars == <<held, posted, unwritten, recorded, sentRecords, lostRecords, gapped, late, export, wanted, rows>>

NoPage == [waits |-> FALSE, values |-> <<>>]
Newer(a, b) == a > b
Sorted(S) == SetToSortSeq(S, Newer)
FirstOf(s, n) == SubSeq(s, 1, IF n < Len(s) THEN n ELSE Len(s))
LastOf(s, n) == SubSeq(s, IF n < Len(s) THEN Len(s) - n + 1 ELSE 1, Len(s))

NodeDataInit ==
  /\ held = [k \in NodeKeys |-> <<>>] /\ posted = [k \in NodeKeys |-> {}]
  /\ unwritten = {} /\ recorded = <<>> /\ sentRecords = 0 /\ lostRecords = 0 /\ gapped = FALSE /\ late = FALSE
  /\ export = [pc |-> "idle", after |-> 0, first |-> TRUE, columns |-> {}, pages |-> [k \in NodeKeys |-> NoPage]]
  /\ wanted = [k \in NodeKeys |-> {}] /\ rows = <<>>

InDatabase(k) == {recorded[i][2] : i \in {j \in 1 .. sentRecords : recorded[j][1] = k}}

-----------------------------------------------------------------------------
\* insert(): before the first value that is not newer; what exceeds the history is dropped.
\* Mutant: a value older than all others is taken for the newest.
InsertedFront(s, t) ==
  LET i == SelectInSeq(s, LAMBDA d : d <= t) IN FirstOf(InsertAt(s, IF i = 0 THEN 1 ELSE i, t), History)
Inserted(s, t) ==
  LET i == SelectInSeq(s, LAMBDA d : d <= t) IN FirstOf(InsertAt(s, IF i = 0 THEN Len(s) + 1 ELSE i, t), History)

\* POST: into the memory at once, then the record is written; it may fail, the value stays.
Post(k, t) ==
  /\ MapThenSumSet(LAMBDA x : Cardinality(posted[x]), NodeKeys) < MaxPosts /\ t \notin posted[k]
  /\ held' = [held EXCEPT ![k] = Inserted(@, t)] /\ posted' = [posted EXCEPT ![k] = @ \cup {t}]
  /\ late' = (late \/ \E u \in posted[k] : u > t)
  /\ unwritten' = unwritten \cup {<<k, t>>}
  /\ gapped' = (gapped \/ ~(ToSet(held[k]) \cup {t} \subseteq ToSet(held'[k]) \cup InDatabase(k)))
  /\ UNCHANGED <<recorded, sentRecords, lostRecords, export, wanted, rows>>
RecordWritten(r) ==
  /\ r \in unwritten /\ unwritten' = unwritten \ {r} /\ recorded' = Append(recorded, r)
  /\ UNCHANGED <<held, posted, sentRecords, lostRecords, gapped, late, export, wanted, rows>>
RecordRefused(r) ==
  /\ r \in unwritten /\ lostRecords < MaxLost /\ unwritten' = unwritten \ {r} /\ lostRecords' = lostRecords + 1
  /\ UNCHANGED <<held, posted, recorded, sentRecords, gapped, late, export, wanted, rows>>
\* onRecords(): the database takes the records that it has not got.
DatabaseStores ==
  /\ sentRecords < Len(recorded) /\ sentRecords' = Len(recorded)
  /\ UNCHANGED <<held, posted, unwritten, recorded, lostRecords, gapped, late, export, wanted, rows>>

-----------------------------------------------------------------------------
(* getWithMetadata_() with `after`, `before` or neither; onExternal().      *)

\* The database is read in ascending order of time with `after`, in descending order otherwise, and
\* the result is reversed.
ExternalAfter(k, after, n) == Reverse(FirstOf(Reverse(Sorted({t \in InDatabase(k) : t > after})), n))
ExternalBefore(k, before, n) == Reverse(FirstOf(Sorted({t \in InDatabase(k) : t < before}), n))

\* The values in memory: the oldest `n` after `after`.  The database is asked when even the oldest
\* value in memory is one of them.
\* Mutant: and the value at `after` itself.
LocalAfterFrom(s, after, n) ==
  LET end == SelectLastInSeq(s, LAMBDA d : d >= after)
  IN  [waits |-> end > 0 /\ end = Len(s), values |-> LastOf(SubSeq(s, 1, end), n)]
LocalAfter(s, after, n) ==
  LET end == SelectLastInSeq(s, LAMBDA d : d > after)
  IN  [waits |-> end > 0 /\ end = Len(s), values |-> LastOf(SubSeq(s, 1, end), n)]
MergedRows(values, external, n) ==
  IF external = <<>> THEN LastOf(values, n)
  ELSE LastOf(SubSeq(values, 1, SelectLastInSeq(values, LAMBDA d : Head(external) < d)) \o external, n)

\* The newest `n` before `before`.
\* Mutant: the database is asked for what is before `before` again.
GetBeforeAgain(k, before, n) ==
  LET local == FirstOf(SelectSeq(held[k], LAMBDA d : d < before), n)
  IN  IF Len(local) = n THEN local ELSE local \o ExternalBefore(k, before, n - Len(local))
GetBefore(k, before, n) ==
  LET local == FirstOf(SelectSeq(held[k], LAMBDA d : d < before), n)
  IN  IF Len(local) = n THEN local
      ELSE local \o ExternalBefore(k, IF local = <<>> THEN before ELSE Last(local), n - Len(local))

-----------------------------------------------------------------------------
(* The export.                                                              *)

CountRows(x) == IF x.first THEN 1 ELSE Page
\* get(): what is in memory is looked up for all keys at once, the database answers for each later.
Fetching(x, after) ==
  [x EXCEPT !.pc = "fetch", !.after = after, !.pages = [k \in NodeKeys |-> LocalAfter(held[k], after, CountRows(x))]]

ExportBegins(after) ==
  /\ export.pc = "idle" /\ export' = Fetching(export, after)
  /\ wanted' = [k \in NodeKeys |-> {t \in posted[k] : t > after}]
  /\ UNCHANGED <<held, posted, unwritten, recorded, sentRecords, lostRecords, gapped, late, rows>>
DatabaseAnswers(k) ==
  /\ export.pc = "fetch" /\ export.pages[k].waits
  /\ export' = [export EXCEPT !.pages[k] =
       [waits |-> FALSE, values |-> MergedRows(@.values, ExternalAfter(k, export.after, CountRows(export)), CountRows(export))]]
  /\ UNCHANGED <<held, posted, unwritten, recorded, sentRecords, lostRecords, gapped, late, wanted, rows>>

\* byTimestamp(): rows as long as every key of the page has a value; then the rest is fetched again.
\* Mutant: until no key has one.
LimitAll(pages, ks) == Max({Head(pages[k].values) : k \in ks})
Limit(pages, ks) == Min({Head(pages[k].values) : k \in ks})
Row(pages, ks, t) == <<t, {k \in ks : t \in ToSet(pages[k].values)}>>
RowsUpTo(pages, ks, limit) ==
  LET times == {t \in UNION {ToSet(pages[k].values) : k \in ks} : t <= limit}
  IN  [i \in 1 .. Cardinality(times) |-> Row(pages, ks, Reverse(Sorted(times))[i])]
PageEnds ==
  LET filled == {k \in NodeKeys : export.pages[k].values # <<>>} IN
  /\ export.pc = "fetch" /\ \A k \in NodeKeys : ~export.pages[k].waits
  /\ IF export.first THEN export' = Fetching([export EXCEPT !.first = FALSE, !.columns = filled], export.after) /\ UNCHANGED rows
     ELSE IF filled = {} THEN export' = [export EXCEPT !.pc = "done"] /\ UNCHANGED rows
     ELSE /\ rows' = rows \o RowsUpTo(export.pages, filled, Limit(export.pages, filled))
          /\ export' = Fetching(export, Limit(export.pages, filled))
  /\ UNCHANGED <<held, posted, unwritten, recorded, sentRecords, lostRecords, gapped, late, wanted>>

NodeDataNext ==
  \/ \E k \in NodeKeys, t \in 1 .. MaxTime : Post(k, t)
  \/ \E r \in unwritten : RecordWritten(r) \/ RecordRefused(r)
  \/ DatabaseStores
  \/ ExportBegins(0) \/ \E k \in NodeKeys : DatabaseAnswers(k)
  \/ PageEnds

-----------------------------------------------------------------------------
\* The memory holds the newest values of all that came, newest first, in whatever order they came
\* (data.js:435-461).
HoldsNewest == \A k \in NodeKeys : held[k] = FirstOf(Sorted(posted[k]), History)

\* The rows of an export go forward in time: no row is there twice, whatever comes meanwhile and
\* whenever the database answers (generator.js:68-101).
RowsInOrder == \A i, j \in DOMAIN rows : i < j => rows[i][1] < rows[j][1]

\* An export has every value that was there when it started, unless one of them was in neither place
\* for a while (the history is shorter than the database is late) or came out of order.
ExportComplete ==
  export.pc = "done" /\ ~gapped /\ ~late =>
    \A k \in NodeKeys : \A t \in wanted[k] : k \in export.columns /\ \E i \in DOMAIN rows : rows[i][1] = t /\ k \in rows[i][2]

\* A request for the newest values, or those before a time, finds the same ones as if all were in
\* memory, with the same exception.
BeforeIsExact ==
  ~gapped => \A k \in NodeKeys, before \in 2 .. MaxTime + 1, n \in 1 .. Page + 1 :
    LET known == ToSet(held[k]) \cup InDatabase(k)
    IN  ToSet(GetBefore(k, before, n)) = ToSet(FirstOf(Sorted({t \in known : t < before}), n))

\* "The value might correspond to a time series, where the newest values come first." (data.js:166)
\* Not satisfied: the database answers with the oldest first (influxdb.js:334).
NewestFirst ==
  \A k \in NodeKeys, before \in 2 .. MaxTime + 1, n \in 1 .. Page + 1 : IsSorted(GetBefore(k, before, n), Newer)

-----------------------------------------------------------------------------
(****************************************************************************)
(* The nodes plugin of the artifacts application: what a POST does between  *)
(* its body and its answer (plugins/nodes/backend.js), the handlers that a  *)
(* value goes through (db/data/handlers), how it is put into the memory and *)
(* on the disk (nodes.js, db/data/data.js), the tags of the nodes and the   *)
(* dashboards that are made of their keys.  A key is a sequence of numbers, *)
(* 0 is the empty string, and numbers are ordered as their strings are.     *)
(****************************************************************************)
CONSTANTS
  Bodies,         \* bodies of a POST: sequences of [uid, key, leaves] or "malformed"
  PluginCalls,    \* the POSTs
  HandlersAt,     \* root key |-> the kinds of its handlers
  TagsFromUid,    \* tag |-> uids
  TagsFromKey,    \* tag |-> keys
  Dashboards,     \* sequence of [inputs |-> sequence of patterns, groupBy |-> positions]
  MaxPluginRestarts, MaxRefused, MaxMillis  \* bounds: restarts, writes that fail, the clock

ASSUME NodesPluginAssumption == {MaxPluginRestarts, MaxRefused, MaxMillis} \subseteq Nat

Var == -1       \* the segment of a pattern that is a variable
Malformed == [uid |-> "malformed", key |-> <<>>, leaves |-> {}]

VARIABLES
  stored,         \* Data.storage: values [uid, key, time, depth]
  nodeTags,       \* storage[uid].metadata.tags, <<uid, tag>>
  onDisk,         \* the records, each a set of clusters
  ackedValues,    \* values of POSTs that were answered 200
  posts,          \* the POSTs: pc, body left, records made so far
  pluginClock, pluginRestarts, refused

pluginVars == <<stored, nodeTags, onDisk, ackedValues, posts, pluginClock, pluginRestarts, refused>>

-----------------------------------------------------------------------------
(* handlers.js                                                              *)

Before(a, b) ==
  \/ Len(a) < Len(b) /\ \A i \in DOMAIN a : a[i] = b[i]
  \/ \E i \in DOMAIN a \cap DOMAIN b : a[i] < b[i] /\ \A j \in 1 .. i - 1 : a[j] = b[j]
SortFragments(F) == SetToSortSeq(F, LAMBDA f, g : Before(f.key, g.key))
KeyStartsWith(k, root) == IsPrefix(root, k)

\* FragmentRange.all(): from an index on, the fragments below the root.
RangeOf(fragments, i, root) ==
  LET outside == {j \in i .. Len(fragments) : ~KeyStartsWith(fragments[j].key, root)}
  IN  i .. (IF outside = {} THEN Len(fragments) ELSE Min(outside) - 1)

\* ToStringHandler.process(): the values of one parent become one value; the parent's key relative
\* to the root is [""] when the parent is the root itself.
Joined(fragments, range, root) ==
  LET below == {fragments[j] : j \in {n \in range : Len(fragments[n].key) > Len(root)}}
      parent(f) == SubSeq(f.key, Len(root) + 1, Len(f.key) - 1)
      joined(p) == [key   |-> root \o (IF p = <<>> THEN <<0>> ELSE p),
                    value |-> "text",
                    depth |-> 1 + Max({f.depth : f \in {g \in below : parent(g) = p}})]
  IN  SortFragments((ToSet(fragments) \ below) \cup {joined(parent(f)) : f \in below})

\* ValidationHandler.process(): the values below the root, put together, against the schema.
Invalid(fragments, range) == \E j \in range : fragments[j].value = "bad"

\* The handlers of one root, in their order.  The others only set options.
SortedHandlers(root) ==
  SelectSeq(<<"validation", "toString", "expires", "unit", "history">>, LAMBDA h : h \in HandlersAt[root])
Handle(state, i, root) ==
  LET step(s, kind) ==
        LET range == RangeOf(s.fragments, i, root) IN
        CASE s.failed            -> s
          [] kind = "validation" -> [s EXCEPT !.failed = Invalid(s.fragments, range)]
          [] kind = "toString"   -> [s EXCEPT !.fragments = Joined(s.fragments, range, root)]
          [] OTHER               -> s
  IN  FoldLeft(step, state, SortedHandlers(root))

\* process(): the roots on the way to the key of each fragment; not again for the next fragment.
\* Mutant: for every fragment.
HandledBeforeNever(fragments, i, root) == FALSE
HandledBefore(fragments, i, root) == i > 1 /\ KeyStartsWith(fragments[i - 1].key, root)
ProcessFragments(F) ==
  LET depths == 1 .. Max({0} \cup {Len(r) : r \in DOMAIN HandlersAt})
      at(s, i, root) == IF s.failed \/ HandledBefore(s.fragments, i, root) THEN s ELSE Handle(s, i, root)
      visit(s, i) ==
        IF i > Len(s.fragments) THEN s
        ELSE LET key == s.fragments[i].key
             IN  FoldLeft(LAMBDA t, n : IF n <= Len(key) /\ SubSeq(key, 1, n) \in DOMAIN HandlersAt
                                        THEN at(t, i, SubSeq(key, 1, n)) ELSE t,
                          s, [n \in depths |-> n])
  IN  FoldLeft(visit, [fragments |-> SortFragments(F), failed |-> FALSE], [i \in 1 .. Cardinality(F) |-> i])

-----------------------------------------------------------------------------
(* nodes.js and data.js                                                     *)

\* getAllPathAndValues(): one fragment per leaf of the dictionary.
Fragments(item) == {[key |-> item.key \o l[1], value |-> l[2], depth |-> 0] : l \in item.leaves}
\* insert(): the handlers, then all fragments with one timestamp.
NodesInsert(item, now) ==
  {[uid |-> item.uid, key |-> f.key, time |-> now, depth |-> f.depth] : f \in ToSet(ProcessFragments(Fragments(item)).fragments)}

\* recordToDisk(): clusters by uid and time, each a tree where the value of a node is beside its children.
\* Mutant: where the children of a node replace its value.
ClusteredLeaves(values) ==
  {[uid |-> v.uid, time |-> v.time, tree |-> {w \in values : w.uid = v.uid /\ w.time = v.time
        /\ ~\E x \in values : x.uid = w.uid /\ x.time = w.time /\ x.key # w.key /\ KeyStartsWith(x.key, w.key)}] : v \in values}
Clustered(values) ==
  {[uid |-> v.uid, time |-> v.time, tree |-> {w \in values : w.uid = v.uid /\ w.time = v.time}] : v \in values}
RecordFromDisk(record) == UNION {c.tree : c \in record}

\* onCreateUid() and onCreateKey(): called by getDataInternal_() for what is new.
\* Mutant: the key is looked at only when the node is new.
KeyTagsFirst(uid, keys, known) ==
  IF \E v \in known : v.uid = uid THEN {} ELSE {t \in DOMAIN TagsFromKey : TagsFromKey[t] \cap keys # {}}
KeyTags(uid, keys, known) == {t \in DOMAIN TagsFromKey : TagsFromKey[t] \cap keys # {}}
UidTags(uid) == {t \in DOMAIN TagsFromUid : uid \in TagsFromUid[t]}
TagsFor(values, known) ==
  UNION {{<<v.uid, t>> : t \in UidTags(v.uid) \cup KeyTags(v.uid, {w.key : w \in {x \in values : x.uid = v.uid}}, known)} : v \in values}

-----------------------------------------------------------------------------
(* The POST endpoint.                                                       *)

PluginInit ==
  /\ stored = {} /\ nodeTags = {} /\ onDisk = <<>> /\ ackedValues = {} /\ pluginClock = 1
  /\ pluginRestarts = 0 /\ refused = 0
  /\ posts = [c \in PluginCalls |-> [pc |-> "idle", left |-> <<>>, records |-> {}]]

PostBegins(c, body) ==
  /\ posts[c].pc = "idle" /\ posts' = [posts EXCEPT ![c] = [pc |-> "insert", left |-> body, records |-> {}]]
  /\ UNCHANGED <<stored, nodeTags, onDisk, ackedValues, pluginClock, pluginRestarts, refused>>
\* rawBodyParse() throws: 400.
PostUnparsable(c) ==
  /\ posts[c].pc = "idle" /\ posts' = [posts EXCEPT ![c].pc = "failed"]
  /\ UNCHANGED <<stored, nodeTags, onDisk, ackedValues, pluginClock, pluginRestarts, refused>>

\* processValue(): the handlers, then the memory.  A malformed entry or a refused value ends the
\* request; what came before it stays in the memory.
Fails(item) == item = Malformed \/ ProcessFragments(Fragments(item)).failed
PostInserts(c) ==
  LET item == Head(posts[c].left)
      values == NodesInsert(item, pluginClock)
  IN  /\ posts[c].pc = "insert" /\ posts[c].left # <<>>
      /\ IF Fails(item) THEN posts' = [posts EXCEPT ![c].pc = "failed"] /\ UNCHANGED <<stored, nodeTags>>
         ELSE /\ stored' = stored \cup values /\ nodeTags' = nodeTags \cup TagsFor(values, stored)
              /\ posts' = [posts EXCEPT ![c].left = Tail(@), ![c].records = @ \cup values]
      /\ UNCHANGED <<onDisk, ackedValues, pluginClock, pluginRestarts, refused>>
PostWrites(c) ==
  /\ posts[c].pc = "insert" /\ posts[c].left = <<>>
  /\ onDisk' = Append(onDisk, Clustered(posts[c].records)) /\ ackedValues' = ackedValues \cup posts[c].records
  /\ posts' = [posts EXCEPT ![c].pc = "done"]
  /\ UNCHANGED <<stored, nodeTags, pluginClock, pluginRestarts, refused>>
PostRefused(c) ==
  /\ posts[c].pc = "insert" /\ posts[c].left = <<>> /\ refused < MaxRefused /\ refused' = refused + 1
  /\ posts' = [posts EXCEPT ![c].pc = "failed"]
  /\ UNCHANGED <<stored, nodeTags, onDisk, ackedValues, pluginClock, pluginRestarts>>
PluginTime ==
  /\ pluginClock < MaxMillis /\ pluginClock' = pluginClock + 1
  /\ UNCHANGED <<stored, nodeTags, onDisk, ackedValues, posts, pluginRestarts, refused>>

\* "records.initialize": the records are applied in their order; requests in flight are gone.
PluginRestart ==
  LET values == UNION {RecordFromDisk(r) : r \in ToSet(onDisk)} IN
  /\ pluginRestarts < MaxPluginRestarts /\ pluginRestarts' = pluginRestarts + 1
  /\ stored' = values /\ nodeTags' = TagsFor(values, {})
  /\ posts' = [c \in PluginCalls |-> [posts[c] EXCEPT !.pc = IF @ = "idle" THEN @ ELSE "done"]]
  /\ UNCHANGED <<onDisk, ackedValues, pluginClock, refused>>

PluginNext ==
  \/ \E c \in PluginCalls : (\E b \in Bodies : PostBegins(c, b)) \/ PostUnparsable(c) \/ PostInserts(c) \/ PostWrites(c) \/ PostRefused(c)
  \/ PluginTime \/ PluginRestart

-----------------------------------------------------------------------------
(* The dashboards of a node.                                                *)

\* getKeys_(): the keys with a value at a root or below it, in the tree of all keys.
KeyTree(uid) == {v.key : v \in {w \in stored : w.uid = uid}}
LeafKeys(uid, root) == {k \in KeyTree(uid) : KeyStartsWith(k, root)}
Matches(pattern, k) == Len(pattern) = Len(k) /\ \A i \in DOMAIN k : pattern[i] \in {Var, k[i]}
\* buildRouterForDashboards(): all patterns in one router, the first one that matches is taken.
RouterPatterns == FoldLeft(LAMBDA s, d : s \o SelectSeq(d.inputs, LAMBDA p : p \notin ToSet(s)), <<>>, Dashboards)
RouterMatch(k) == LET i == SelectInSeq(RouterPatterns, LAMBDA p : Matches(p, k)) IN IF i = 0 THEN <<>> ELSE RouterPatterns[i]
\* The variables that are not grouped tell the dashboards apart.
\* Mutant: the ones that are.
FilteredVarsGrouped(d, pattern, k) == [i \in {j \in DOMAIN k : pattern[j] = Var /\ j \in d.groupBy} |-> k[i]]
FilteredVars(d, pattern, k) == [i \in {j \in DOMAIN k : pattern[j] = Var /\ j \notin d.groupBy} |-> k[i]]
DashboardsOf(uid, root) ==
  UNION {LET d == Dashboards[n]
             found == {k \in LeafKeys(uid, root) : RouterMatch(k) \in ToSet(d.inputs)}
             vars(k) == FilteredVars(d, RouterMatch(k), k)
         IN  {[index |-> n, vars |-> vars(k), inputs |-> {x \in found : vars(x) = vars(k)}] : k \in found} : n \in DOMAIN Dashboards}

-----------------------------------------------------------------------------
\* A POST that was answered with 200 is there, also after restarts: each of its keys has a value as
\* recent as the one that was posted.
AckedStored == \A v \in ackedValues : \E w \in stored : w.uid = v.uid /\ w.key = v.key /\ w.time >= v.time

\* No value goes through the pattern of a toString handler twice, whatever was posted together.
JoinedOnce == \A v \in stored : v.depth <= 1

\* The tags of a node are the ones of its uid and of all its keys, in which order they ever came.
TagsExact ==
  nodeTags = {<<u, t>> \in {v.uid : v \in stored} \X (DOMAIN TagsFromUid \cup DOMAIN TagsFromKey) :
                \/ t \in DOMAIN TagsFromUid /\ u \in TagsFromUid[t]
                \/ t \in DOMAIN TagsFromKey /\ TagsFromKey[t] \cap KeyTree(u) # {}}

\* Keys are on one dashboard exactly when they differ at most in segments that it groups by.
DashboardsGrouped ==
  \A u \in {v.uid : v \in stored} : \A a, b \in DashboardsOf(u, <<>>) : \A j \in a.inputs, k \in b.inputs :
    a.index = b.index /\ Len(j) = Len(k) /\ RouterMatch(j) = RouterMatch(k) =>
      ((a = b) <=> \A i \in DOMAIN j : j[i] # k[i] => i \in Dashboards[a.index].groupBy)


-----------------------------------------------------------------------------
\* Values of nodes: the newest are in memory, a request or an export finds each one once and in order
\* across memory and database, and a POST records what it stored.
NodesSafe ==
  /\ HoldsNewest
  /\ RowsInOrder
  /\ ExportComplete
  /\ BeforeIsExact
  /\ AckedStored
  /\ JoinedOnce
  /\ TagsExact
  /\ DashboardsGrouped
=============================================================================
