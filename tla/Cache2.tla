------------------------------- MODULE Cache2 -------------------------------
(***************************************************************************)
(* The in-memory cache of the Node.js backends (nodejs/core/cache2.js).    *)
(* A collection is a Map, kept here as the sequence of its entries in       *)
(* insertion order; the caller that fetches a key leaves an entry with the  *)
(* status "fetching", the other callers of the same key wait for it.  The   *)
(* garbage collector is an event triggered process of services.js: it runs  *)
(* inside set(), and a trigger is dropped while the promise of the previous *)
(* run has not settled (services.js:91).                                    *)
(*                                                                          *)
(* origin is the version of the data that fetch() reads; an application     *)
(* that changes it calls setDirty().  Everything between two awaits is one  *)
(* action.                                                                  *)
(***************************************************************************)
EXTENDS Integers, Sequences, FiniteSets, SequencesExt, FiniteSetsExt

CONSTANTS
  Collections,   \* the names of the collections, in the order of register()
  Places,        \* the keys in use, each with its collection
  Getters,       \* the calls of get(), each made once
  SizeOf,        \* what getSize() says of the value of a key
  ErrorSize,     \* the size of an error entry
  CacheMaxSize,  \* options.maxSize
  CacheTimeout,  \* options.timeoutMs
  MaxCacheTime,  \* bound on the clock
  MaxOrigin      \* bound on the changes of the data behind the cache

ASSUME Cache2Assumption ==
  /\ Collections \in Seq(STRING) /\ Len(Collections) > 0
  /\ Places # {} /\ Places \subseteq ToSet(Collections) \X STRING
  /\ SizeOf \in [Places -> Nat \ {0}] /\ ErrorSize \in Nat \ {0}
  /\ {CacheMaxSize, CacheTimeout, MaxCacheTime} \subseteq Nat /\ MaxOrigin \in [Places -> Nat]

VARIABLES
  values,        \* data[collection].values, the Map in its order
  sizes,         \* data[collection].size
  cacheSize,     \* this.size
  cacheTime,     \* Date.now()
  collecting,    \* the record of the garbage collector has the status running
  missed,        \* the trigger of the last set() was dropped (history)
  getter,        \* a call of get(): its place, key, and the resolve list it filled
  origin,        \* version of the data that fetch() returns
  raced          \* the key was changed while it was being fetched (history)

cacheVars == <<values, sizes, cacheSize, cacheTime, collecting, missed, getter, origin, raced>>

Idle == [pc |-> "idle", at |-> CHOOSE p \in Places : TRUE, list |-> {}, got |-> 0]

CacheInit ==
  /\ values = [c \in ToSet(Collections) |-> <<>>]
  /\ sizes = [c \in ToSet(Collections) |-> 0]
  /\ cacheSize = 0 /\ cacheTime = 1
  /\ collecting = FALSE /\ missed = FALSE
  /\ getter = [g \in Getters |-> Idle]
  /\ origin = [p \in Places |-> 1]
  /\ raced = [p \in Places |-> FALSE]

-----------------------------------------------------------------------------
\* The Map of a collection: has(), get(), delete(), and set(), which keeps the
\* place of a key that is there.
Has(map, k) == \E i \in DOMAIN map : map[i].key = k
IndexOf(map, k) == CHOOSE i \in DOMAIN map : map[i].key = k
EntryOf(map, k) == map[IndexOf(map, k)]
Delete(map, k) == IF Has(map, k) THEN RemoveAt(map, IndexOf(map, k)) ELSE map
Put(map, e) ==
  IF Has(map, e.key) THEN [i \in DOMAIN map |-> IF map[i].key = e.key THEN e ELSE map[i]]
                     ELSE Append(map, e)
SizeAt(map, k) == IF Has(map, k) THEN EntryOf(map, k).size ELSE 0
TotalSize(map) == SumFunction([i \in DOMAIN map |-> map[i].size])

\* What the garbage collector works on: the maps and the two kinds of sizes.
Stored(v, s, n) == [values |-> v, sizes |-> s, total |-> n]

\* One collection: expired entries go first, then the oldest ones until the
\* whole cache fits.
DropEntries(st, c, map) ==
  LET gone == TotalSize(st.values[c]) - TotalSize(map)
  IN  Stored([st.values EXCEPT ![c] = map], [st.sizes EXCEPT ![c] = @ - gone], st.total - gone)
Expired(e) == e.timeout > 0 /\ e.timeout < cacheTime
Unexpired(map) ==
  LET kept[i \in 0..Len(map)] == IF i = 0 THEN <<>>
                                 ELSE IF Expired(map[i]) THEN kept[i - 1] ELSE Append(kept[i - 1], map[i])
  IN  kept[Len(map)]
EvictExpired(st, c) == DropEntries(st, c, Unexpired(st.values[c]))
\* Mutant: only one entry is evicted.
EvictOldestOnce(st, c) ==
  IF st.total <= CacheMaxSize \/ st.values[c] = <<>> THEN st
  ELSE DropEntries(st, c, Tail(st.values[c]))
WithoutOldest(st, c, m) == DropEntries(st, c, SubSeq(st.values[c], m + 1, Len(st.values[c])))
EvictOldest(st, c) ==
  WithoutOldest(st, c, Min({m \in 0..Len(st.values[c]) :
    WithoutOldest(st, c, m).total <= CacheMaxSize \/ m = Len(st.values[c])}))
Collect(st) ==
  LET after[i \in 0..Len(Collections)] ==
        IF i = 0 THEN st ELSE EvictOldest(EvictExpired(after[i - 1], Collections[i]), Collections[i])
  IN  after[Len(Collections)]

\* set(): the entry moves to the end, and the collector runs when the cache is
\* too large; it is synchronous up to the await of runProcess().
CacheSet(p, data, status) ==
  LET c == p[1]
      k == p[2]
      size == IF status = "error" THEN ErrorSize ELSE SizeOf[p]
      diff == size - SizeAt(values[c], k)
      entry == [key |-> k, data |-> data, status |-> status, size |-> size,
                timeout |-> cacheTime + CacheTimeout]
      st == Stored([values EXCEPT ![c] = Append(Delete(@, k), entry)],
                   [sizes EXCEPT ![c] = @ + diff], cacheSize + diff)
      over == st.total > CacheMaxSize
      after == IF over /\ ~collecting THEN Collect(st) ELSE st
  IN  /\ values' = after.values /\ sizes' = after.sizes /\ cacheSize' = after.total
      /\ collecting' = (collecting \/ over)
      /\ missed' = (over /\ collecting)

\* The promise of the collector settles and runProcess() marks the record idle.
CollectorEnds ==
  /\ collecting /\ collecting' = FALSE
  /\ UNCHANGED <<values, sizes, cacheSize, cacheTime, missed, getter, origin, raced>>

-----------------------------------------------------------------------------
\* getInstant() finds a value: the entry is there and has not expired.  An error
\* is thrown before the entry is touched.
Valid(p) == Has(values[p[1]], p[2]) /\ EntryOf(values[p[1]], p[2]).timeout >= cacheTime
Touch(p) ==
  LET e == EntryOf(values[p[1]], p[2])
  IN  IF e.status = "error" THEN values
      ELSE [values EXCEPT ![p[1]] = Append(Delete(@, p[2]), e)]

GetInstant(p) ==
  /\ Valid(p) /\ values' = Touch(p)
  /\ UNCHANGED <<sizes, cacheSize, cacheTime, collecting, missed, getter, origin, raced>>

IsFetching(p) == Has(values[p[1]], p[2]) /\ EntryOf(values[p[1]], p[2]).status = "fetching"

GetCall(g, p) ==
  /\ getter[g].pc = "idle"
  /\ getter' = [getter EXCEPT ![g] = [pc |-> "loop", at |-> p, list |-> {}, got |-> 0]]
  /\ UNCHANGED <<values, sizes, cacheSize, cacheTime, collecting, missed, origin, raced>>

\* The loop of get(): the value is there,
GetHit(g) ==
  LET p == getter[g].at IN
  /\ getter[g].pc = "loop" /\ Valid(p)
  /\ values' = Touch(p)
  /\ getter' = [getter EXCEPT ![g].pc = "done", ![g].got = EntryOf(values[p[1]], p[2]).data]
  /\ UNCHANGED <<sizes, cacheSize, cacheTime, collecting, missed, origin, raced>>

\* or another call fetches it: the caller is added to its resolve list,
GetWait(g) ==
  LET p == getter[g].at IN
  /\ getter[g].pc = "loop" /\ ~Valid(p) /\ IsFetching(p)
  /\ getter' = [getter EXCEPT ![g].pc = "waiting",
                              ![EntryOf(values[p[1]], p[2]).data].list = @ \cup {g}]
  /\ UNCHANGED <<values, sizes, cacheSize, cacheTime, collecting, missed, origin, raced>>

\* or this call fetches: the entry keeps its place and its size.
\* Mutant: the entry of a fetch has no size, although the size is not deducted.
FetchingEntryEmpty(g, p) ==
  [key |-> p[2], data |-> g, status |-> "fetching", timeout |-> -1, size |-> 0]
FetchingEntry(g, p) ==
  [key |-> p[2], data |-> g, status |-> "fetching", timeout |-> -1, size |-> SizeAt(values[p[1]], p[2])]
GetFetch(g) ==
  LET p == getter[g].at IN
  /\ getter[g].pc = "loop" /\ ~Valid(p) /\ ~IsFetching(p)
  /\ values' = [values EXCEPT ![p[1]] = Put(@, FetchingEntry(g, p))]
  /\ getter' = [getter EXCEPT ![g].pc = "fetch"]
  /\ UNCHANGED <<sizes, cacheSize, cacheTime, collecting, missed, origin, raced>>

\* fetch() answers with what the data is at that moment,
FetchReads(g) ==
  /\ getter[g].pc = "fetch"
  /\ getter' = [getter EXCEPT ![g].pc = "read", ![g].got = origin[getter[g].at]]
  /\ UNCHANGED <<values, sizes, cacheSize, cacheTime, collecting, missed, origin, raced>>

\* and get() stores the value, or the error, and resolves its list.
\* Mutant: the list of the entry is resolved, which may be gone or another one.
FetchEndsByEntry(g, status) ==
  LET p == getter[g].at
      woken == IF IsFetching(p) THEN getter[EntryOf(values[p[1]], p[2]).data].list ELSE {}
  IN  /\ getter[g].pc = "read"
      /\ CacheSet(p, getter[g].got, status)
      /\ getter' = [h \in Getters |-> IF h = g THEN [getter[g] EXCEPT !.pc = "done", !.list = {}]
                                      ELSE IF h \in woken THEN [getter[h] EXCEPT !.pc = "loop"]
                                      ELSE getter[h]]
      /\ UNCHANGED <<cacheTime, origin, raced>>
FetchEnds(g, status) ==
  /\ getter[g].pc = "read"
  /\ CacheSet(getter[g].at, getter[g].got, status)
  /\ getter' = [h \in Getters |-> IF h = g THEN [getter[g] EXCEPT !.pc = "done", !.list = {}]
                                  ELSE IF h \in getter[g].list THEN [getter[h] EXCEPT !.pc = "loop"]
                                  ELSE getter[h]]
  /\ UNCHANGED <<cacheTime, origin, raced>>

-----------------------------------------------------------------------------
\* The application stores the data itself.
ManualSet(p) ==
  /\ CacheSet(p, origin[p], "value")
  /\ UNCHANGED <<cacheTime, getter, origin, raced>>

\* The application changes the data and calls setDirty().
InFlight(p) == \E g \in Getters : getter[g].pc \in {"fetch", "read"} /\ getter[g].at = p
\* Mutant: setDirty() marks the first entry of the collection.
DirtiedFirst(p) ==
  IF values[p[1]] # <<>> THEN [values EXCEPT ![p[1]][1].timeout = -1] ELSE values
Dirtied(p) ==
  IF Has(values[p[1]], p[2])
  THEN [values EXCEPT ![p[1]] = Put(@, [EntryOf(@, p[2]) EXCEPT !.timeout = -1])]
  ELSE values
SetDirty(p) ==
  /\ origin[p] < MaxOrigin[p]
  /\ origin' = [origin EXCEPT ![p] = @ + 1]
  /\ values' = Dirtied(p)
  /\ raced' = [raced EXCEPT ![p] = InFlight(p)]
  /\ UNCHANGED <<sizes, cacheSize, cacheTime, collecting, missed, getter>>

CacheTick ==
  /\ cacheTime < MaxCacheTime /\ cacheTime' = cacheTime + 1
  /\ UNCHANGED <<values, sizes, cacheSize, collecting, missed, getter, origin, raced>>

GetLoop(g) == GetHit(g) \/ GetWait(g) \/ GetFetch(g)

CacheNext ==
  \/ \E g \in Getters : \/ \E p \in Places : GetCall(g, p)
                        \/ GetLoop(g) \/ FetchReads(g)
                        \/ \E status \in {"value", "error"} : FetchEnds(g, status)
  \/ \E p \in Places : GetInstant(p) \/ ManualSet(p) \/ SetDirty(p)
  \/ CollectorEnds \/ CacheTick

\* The event loop runs every callback that is ready, and fetch() settles: a fetch
\* that runs is not running for ever, which is weak fairness of FetchReads and
\* FetchEnds.
CacheFairness ==
  \A g \in Getters : /\ WF_cacheVars(GetLoop(g))
                     /\ []<>(getter[g].pc \notin {"fetch", "read"})

Cache2Spec == CacheInit /\ [][CacheNext]_cacheVars /\ CacheFairness

-----------------------------------------------------------------------------
\* The sizes that decide about evictions are the sums of the sizes of what is
\* stored, through fetches that overlap evictions, errors and set() of their key.
SizesExact ==
  /\ \A c \in ToSet(Collections) : sizes[c] = TotalSize(values[c])
  /\ cacheSize = SumFunction(sizes)

\* The cache is over its limit only when a trigger came while the promise of the
\* previous collection had not settled.
BoundedUnlessMissed == cacheSize > CacheMaxSize => missed

\* A call that waits is in the resolve list of a fetch that is still running, even
\* when the entry of that fetch was evicted or replaced.
WaiterHasFetcher ==
  \A g \in Getters : getter[g].pc = "waiting" =>
    \E f \in Getters : getter[f].pc \in {"fetch", "read"} /\ g \in getter[f].list

\* After setDirty() no caller is given the former value, unless the key was being
\* fetched at that moment.
FreshAfterDirty ==
  \A p \in Places : (Valid(p) /\ ~raced[p]) => EntryOf(values[p[1]], p[2]).data = origin[p]

\* Every get() returns or throws.
GetReturns == \A g \in Getters : (getter[g].pc = "loop") ~> (getter[g].pc = "done")
=============================================================================
