------------------------------- MODULE Cache --------------------------------
(***************************************************************************)
(* The first cache of the Node.js code (nodejs/core/cache.js), which holds  *)
(* among others the open databases of db/key_value_store/disk.js.  An entry *)
(* is an object with optional fields; get() of a dirty entry starts the     *)
(* update of the object and waits for the event "updated", which every      *)
(* update of the cache triggers; getInstant() is content with the former    *)
(* data while the new one is fetched.  delete() forgets the object, also    *)
(* while it is being updated.  The garbage collector is off by default      *)
(* ("Doesn't work.") and left out.                                          *)
(***************************************************************************)
EXTENDS Integers, FiniteSets, Functions

CONSTANTS
  Ids,             \* the identifiers of a collection
  Objects,         \* the objects that entries can be, each created once
  Callers,         \* the calls of get() and getInstant(), each made once
  InstantCallers,  \* those of getInstant()
  Deleters,        \* the calls of delete(), each made once
  DataSize,        \* the size of the data of an identifier
  Ttl,             \* _timeoutMs of the collection
  ErrorTtl,        \* how long an error is kept
  GetTimeout,      \* config.timeoutMs
  MaxNow,          \* bound on the clock
  MaxVersion       \* bound on the changes of the data

ASSUME CacheAssumption ==
  /\ IsFiniteSet(Ids) /\ "none" \notin Objects
  /\ DataSize \in [Ids -> Nat] /\ {Ttl, ErrorTtl, GetTimeout, MaxNow, MaxVersion} \subseteq Nat \ {0}

VARIABLES
  entry,           \* the object of an identifier, or "none"
  object,          \* its fields, and the update that is under way
  collectionSize,  \* _size of the collection
  nbEntries,       \* _nbEntries of the collection
  caller,          \* a call of get() or getInstant()
  deleter,         \* a call of delete()
  now,             \* Date.now()
  version,         \* version of the data the trigger function reads
  mixed,           \* the identifier was changed while it was updated (history)
  disturbed        \* an entry was updated or deleted while it was deleted (history)

oldCacheVars == <<entry, object, collectionSize, nbEntries, caller, deleter, now, version, mixed, disturbed>>

None == -1
NewObject == [used |-> FALSE, data |-> None, error |-> FALSE, timeout |-> None, size |-> 0,
              pc |-> "none", id |-> "none", previousSize |-> 0, previousNb |-> 0, got |-> None]

NoCaller == [pc |-> "idle", id |-> "none", instant |-> FALSE, asked |-> FALSE, start |-> 0, on |-> "none",
             seen |-> 0, got |-> None]

OldCacheInit ==
  /\ entry = [i \in Ids |-> "none"]
  /\ object = [o \in Objects |-> NewObject]
  /\ collectionSize = 0 /\ nbEntries = 0
  /\ caller = [c \in Callers |-> NoCaller]
  /\ deleter = [d \in Deleters |-> [pc |-> "idle", id |-> "none"]]
  /\ now = 1 /\ version = [i \in Ids |-> 1]
  /\ mixed = [i \in Ids |-> FALSE] /\ disturbed = FALSE

-----------------------------------------------------------------------------
IsUpdating(i) == entry[i] # "none" /\ object[entry[i]].pc # "none"
IsDirty(i) == IF entry[i] = "none" THEN TRUE
              ELSE object[entry[i]].timeout # None /\ object[entry[i]].timeout < now
HasData(o) == IF object[o].data # None THEN 1 ELSE 0
Closing(i) == \E d \in Deleters : deleter[d].pc = "close" /\ deleter[d].id = i
Others == UNCHANGED <<deleter, now, version, mixed, disturbed>>

CacheCall(c, i) ==
  LET instant == c \in InstantCallers IN
  /\ caller[c].pc = "idle"
  /\ caller' = [caller EXCEPT ![c] = [pc |-> "loop", id |-> i, instant |-> instant, asked |-> instant, start |-> now,
                                      on |-> "none", seen |-> version[i], got |-> None]]
  /\ UNCHANGED <<entry, object, collectionSize, nbEntries>> /\ Others

\* The loop of get(), from one await to the next.
InLoop(c) == caller[c].pc = "loop"
Answer(data) == [NoCaller EXCEPT !.pc = "done", !.got = data]
Return(c, data) == caller' = [caller EXCEPT ![c] = Answer(data)]

\* The entry is fetched: the former error or data, when that will do,
Satisfied(c) == caller[c].instant /\ LET o == entry[caller[c].id] IN object[o].error \/ object[o].data # None
ReturnFormer(c) ==
  /\ InLoop(c) /\ IsUpdating(caller[c].id) /\ Satisfied(c)
  /\ Return(c, IF object[entry[caller[c].id]].error THEN None ELSE object[entry[caller[c].id]].data)
  /\ UNCHANGED <<entry, object, collectionSize, nbEntries>> /\ Others
\* or wait for an update.
WaitForUpdate(c) ==
  /\ InLoop(c) /\ IsUpdating(caller[c].id) /\ ~Satisfied(c)
  /\ caller' = [caller EXCEPT ![c].pc = "waiting", ![c].on = entry[caller[c].id]]
  /\ UNCHANGED <<entry, object, collectionSize, nbEntries>> /\ Others

\* The entry is dirty: triggerUpdate() up to its first await marks it as fetching.
Fresh == {o \in Objects : ~object[o].used}
StartUpdate(c) ==
  LET i == caller[c].id IN
  /\ InLoop(c) /\ ~IsUpdating(i) /\ IsDirty(i)
  /\ \E o \in (IF entry[i] = "none" THEN {x \in Fresh : x = CHOOSE y \in Fresh : TRUE} ELSE {entry[i]}) :
       /\ entry' = [entry EXCEPT ![i] = o]
       /\ object' = [object EXCEPT ![o] = [@ EXCEPT !.used = TRUE, !.id = i, !.previousSize = object[o].size,
                                                     !.previousNb = HasData(o), !.pc = "fetch"]]
  /\ disturbed' = (disturbed \/ Closing(i))
  /\ UNCHANGED <<collectionSize, nbEntries, caller, deleter, now, version, mixed>>

\* The entry is valid: its error or its data.
ReturnValid(c) ==
  LET i == caller[c].id IN
  /\ InLoop(c) /\ ~IsUpdating(i) /\ ~IsDirty(i)
  /\ Return(c, IF object[entry[i]].error THEN None ELSE object[entry[i]].data)
  /\ UNCHANGED <<entry, object, collectionSize, nbEntries>> /\ Others

\* The trigger function reads the data (after the former data was closed),
UpdateReads(o) ==
  /\ object[o].pc = "fetch"
  /\ object' = [object EXCEPT ![o].pc = "read", ![o].got = version[object[o].id]]
  /\ UNCHANGED <<entry, collectionSize, nbEntries, caller>> /\ Others

\* and the update ends, with the data or with an error.  The counters are adjusted by the
\* difference to what they were when it started, and the event wakes every caller that
\* waits; one that waited for this object long enough is content with what is there.
Ended(o, ok) ==
  IF ok THEN [object[o] EXCEPT !.pc = "none", !.data = object[o].got, !.error = FALSE,
                               !.got = None, !.previousSize = 0,
                               !.previousNb = 0, !.timeout = now + Ttl, !.size = DataSize[object[o].id]]
        ELSE [object[o] EXCEPT !.pc = "none", !.data = None, !.got = None, !.previousSize = 0,
                               !.previousNb = 0, !.error = TRUE, !.timeout = now + ErrorTtl, !.size = 0]
Woken(c, obj) ==
  IF caller[c].pc # "waiting" THEN caller[c]
  ELSE LET up == [caller[c] EXCEPT !.instant = @ \/ obj[caller[c].on].timeout > caller[c].start]
       IN  IF now - up.start < GetTimeout THEN [up EXCEPT !.pc = "loop", !.on = "none"] ELSE Answer(None)
\* Mutant: the event is not triggered after an error.
UpdateEndsSilently(o, ok) ==
  /\ object[o].pc = "read"
  /\ object' = [object EXCEPT ![o] = Ended(o, ok)]
  /\ collectionSize' = collectionSize + Ended(o, ok).size - object[o].previousSize
  /\ nbEntries' = nbEntries + (IF ok THEN 1 ELSE 0) - object[o].previousNb
  /\ caller' = IF ok THEN [c \in Callers |-> Woken(c, [object EXCEPT ![o] = Ended(o, ok)])] ELSE caller
  /\ UNCHANGED entry /\ Others
\* Mutant: what the entry had before the update is not taken off.
UpdateEndsAdds(o, ok) ==
  /\ object[o].pc = "read"
  /\ object' = [object EXCEPT ![o] = Ended(o, ok)]
  /\ collectionSize' = collectionSize + Ended(o, ok).size
  /\ nbEntries' = nbEntries + (IF ok THEN 1 ELSE 0) - object[o].previousNb
  /\ caller' = [c \in Callers |-> Woken(c, [object EXCEPT ![o] = Ended(o, ok)])]
  /\ UNCHANGED entry /\ Others
UpdateEnds(o, ok) ==
  /\ object[o].pc = "read"
  /\ object' = [object EXCEPT ![o] = Ended(o, ok)]
  /\ collectionSize' = collectionSize + Ended(o, ok).size - object[o].previousSize
  /\ nbEntries' = nbEntries + (IF ok THEN 1 ELSE 0) - object[o].previousNb
  /\ caller' = [c \in Callers |-> Woken(c, [object EXCEPT ![o] = Ended(o, ok)])]
  /\ UNCHANGED entry /\ Others

-----------------------------------------------------------------------------
\* delete(): the counters first, then the data, if any, is closed, then the entry goes.
DeleteCall(d, i) ==
  /\ deleter[d].pc = "idle"
  /\ IF entry[i] = "none"
     THEN /\ deleter' = [deleter EXCEPT ![d].pc = "done"]
          /\ UNCHANGED <<entry, collectionSize, nbEntries, disturbed>>
     ELSE /\ collectionSize' = collectionSize - object[entry[i]].size
          /\ nbEntries' = nbEntries - HasData(entry[i])
          /\ IF HasData(entry[i]) = 1
             THEN deleter' = [deleter EXCEPT ![d] = [pc |-> "close", id |-> i]] /\ UNCHANGED entry
             ELSE deleter' = [deleter EXCEPT ![d].pc = "done"] /\ entry' = [entry EXCEPT ![i] = "none"]
          /\ disturbed' = (disturbed \/ IsUpdating(i) \/ Closing(i))
  /\ UNCHANGED <<object, caller, now, version, mixed>>
DeleteEnds(d) ==
  /\ deleter[d].pc = "close"
  /\ deleter' = [deleter EXCEPT ![d].pc = "done"]
  /\ entry' = [entry EXCEPT ![deleter[d].id] = "none"]
  /\ UNCHANGED <<object, collectionSize, nbEntries, caller, now, version, mixed, disturbed>>

\* The data changes and the application calls setDirty().
\* Mutant: the timeout is set to now, which is not in the past.
OutdatedNow(o) == [object EXCEPT ![o].timeout = now]
Outdated(o) == [object EXCEPT ![o].timeout = now - 1]
ChangeAndSetDirty(i) ==
  /\ version[i] < MaxVersion
  /\ version' = [version EXCEPT ![i] = @ + 1]
  /\ object' = IF entry[i] = "none" THEN object ELSE Outdated(entry[i])
  /\ mixed' = [mixed EXCEPT ![i] = \E o \in Objects : object[o].id = i /\ object[o].pc # "none"]
  /\ UNCHANGED <<entry, collectionSize, nbEntries, caller, deleter, now, disturbed>>

OldCacheTick ==
  /\ now < MaxNow /\ now' = now + 1
  /\ UNCHANGED <<entry, object, collectionSize, nbEntries, caller, deleter, version, mixed, disturbed>>

GetProgress(c) == ReturnFormer(c) \/ WaitForUpdate(c) \/ StartUpdate(c) \/ ReturnValid(c)

OldCacheNext ==
  \/ \E c \in Callers : \/ \E i \in Ids : CacheCall(c, i)
                        \/ GetProgress(c)
  \/ \E o \in Objects : UpdateReads(o) \/ \E ok \in BOOLEAN : UpdateEnds(o, ok)
  \/ \E d \in Deleters : DeleteEnds(d) \/ \E i \in Ids : DeleteCall(d, i)
  \/ \E i \in Ids : ChangeAndSetDirty(i)
  \/ OldCacheTick

\* Callbacks run and the trigger function settles.
OldCacheFairness ==
  /\ \A c \in Callers : WF_oldCacheVars(GetProgress(c))
  /\ \A o \in Objects : []<>(object[o].pc = "none")

OldCacheSpec == OldCacheInit /\ [][OldCacheNext]_oldCacheVars /\ OldCacheFairness

-----------------------------------------------------------------------------
\* The counters of a collection agree with its entries, unless an entry was deleted while
\* it was being updated or deleted (cache.js:572 adds the difference to a size that
\* delete() took away).  An entry whose delete() waits for close() is counted no more.
CountedEntry(i) == entry[i] # "none" /\ ~Closing(i)
CountersMatch ==
  ~disturbed =>
    /\ collectionSize = SumFunction([i \in {j \in Ids : CountedEntry(j)} |-> object[entry[i]].size])
    /\ nbEntries = Cardinality({i \in Ids : CountedEntry(i) /\ object[entry[i]].data # None})

\* get() returns what the data was after it was called, unless the data changed while it
\* was being read.  getInstant() may return older data.
GetIsFresh ==
  [][\A c \in Callers :
       (caller[c].pc = "loop" /\ caller'[c].pc = "done" /\ caller'[c].got # None /\ ~caller[c].asked
          /\ ~mixed[caller[c].id]) => caller'[c].got >= caller[c].seen]_oldCacheVars

\* Every call returns, throws the error of the update, or times out.
OldGetReturns == \A c \in Callers : (caller[c].pc = "loop") ~> (caller[c].pc = "done")
=============================================================================
