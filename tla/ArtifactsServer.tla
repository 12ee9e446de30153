-------------------------- MODULE ArtifactsServer ---------------------------
(****************************************************************************)
(* The server of the artifacts application and its caching proxy.           *)
(****************************************************************************)
EXTENDS Integers, Sequences, FiniteSets

(****************************************************************************)
(* The server of the artifacts application: a volume whose service starts   *)
(* and stops, its storage in a cache, and the requests for its files        *)
(* (artifacts/backend/app.js, plugin.js), for the tools of its MCP server   *)
(* (core/mcp/server.js), and the access tokens they carry                   *)
(* (core/authentication/server.js).                                         *)
(*                                                                          *)
(* A storage is the number of the start that made it, 0 is none, -1 is the  *)
(* error that there is none, which the cache keeps as well.                 *)
(****************************************************************************)
CONSTANTS
  VolumeCalls,   \* requests
  MaxVolumeStarts, \* bound: starts of the volume
  SchemaOverrides  \* schemas and what they are overridden with

VARIABLES
  volume,        \* its service: idle, running or stopping; whether it is private; number of starts
  volumeStorage, \* instance.storage
  volumeCache,   \* entry of the cache: absent, fetching (with what was read), a value; what it is; whether it is dirty
  dirtyLost,     \* a stop came while the entry was being fetched
  volumeCalls,   \* request -> what it asks for, its token, its step, the storage it got, the starts when it began
  toolRuns,      \* tools that ran: whether the tool is known, whether its arguments are valid
  override       \* a schema, its override, and the schema that results

volumeVars == <<volume, volumeStorage, volumeCache, dirtyLost>>
callVars == <<volumeCalls, toolRuns>>
serverVars == <<volumeVars, callVars, override>>

NoCache == [at |-> "absent", storage |-> 0, dirty |-> FALSE]
NoVolumeCall == [op |-> "none", token |-> "none", pc |-> "none", storage |-> 0, began |-> 0]

-----------------------------------------------------------------------------
(* The volume.                                                              *)

\* services.start(): the start process of the plugin calls setStorage().
VolumeStart ==
  /\ volume.at = "idle" /\ volume.starts < MaxVolumeStarts
  /\ volume' = [volume EXCEPT !.at = "running", !.starts = @ + 1]
  /\ volumeStorage' = volume.starts + 1
  /\ UNCHANGED <<volumeCache, dirtyLost, callVars, override>>
\* services.stop(): the status first, then the processes, of which "destructor" is one.
VolumeStopBegins ==
  /\ volume.at = "running" /\ volume' = [volume EXCEPT !.at = "stopping"]
  /\ UNCHANGED <<volumeStorage, volumeCache, dirtyLost, callVars, override>>
\* setDirty(): an entry that is being fetched is replaced when the fetch ends.
\* Mutant: the cache keeps the storage.
DirtyCacheKept == volumeCache
DirtyCache == [volumeCache EXCEPT !.dirty = TRUE]
VolumeStopEnds ==
  /\ volume.at = "stopping" /\ volume' = [volume EXCEPT !.at = "idle"]
  /\ volumeStorage' = 0 /\ volumeCache' = DirtyCache
  /\ dirtyLost' = (dirtyLost \/ volumeCache.at = "fetching")
  /\ UNCHANGED <<callVars, override>>

-----------------------------------------------------------------------------
(* Requests.                                                                *)

Become(c, fields) == volumeCalls' = [volumeCalls EXCEPT ![c] = fields]
VolumeAnswer(c, status) == Become(c, [volumeCalls[c] EXCEPT !.pc = status])
\* _getAccessToken() and verify(): the scopes of the session must match the volume.
VerifiedToken(token) == token = "scope"
IsAuthorizedVolume(token) == volume.private => VerifiedToken(token)
\* The file and list handlers: assertVolumeReady(), then assertAuthorizedVolume() which waits.
CallBegins(c, op, t) ==
  /\ volumeCalls[c].pc = "none"
  /\ Become(c, [op |-> op, token |-> t, storage |-> 0, began |-> volume.starts,
                pc |-> IF op = "mcp" \/ volume.at = "running" THEN "authorize" ELSE "not ready"])
  /\ UNCHANGED <<volumeVars, toolRuns, override>>
\* Mutant: the volumes are listed before anything is verified.
MayPassListed(call) == call.op = "list" \/ IsAuthorizedVolume(call.token)
MayPass(call) == IsAuthorizedVolume(call.token)
CallAuthorized(c) ==
  /\ volumeCalls[c].pc = "authorize"
  /\ VolumeAnswer(c, IF ~MayPass(volumeCalls[c]) THEN "unauthorized" ELSE IF volumeCalls[c].op = "mcp" THEN "tool" ELSE "storage")
  /\ UNCHANGED <<volumeVars, toolRuns, override>>
CacheHas == volumeCache.at = "value" /\ ~volumeCache.dirty
WithStorage(call, s) == [call EXCEPT !.storage = s, !.pc = IF s = -1 THEN "failed" ELSE "read"]
\* cache.get("volume"): what is there, or what getStorage() gives, which becomes the entry when the fetch ends.
CallGetsCached(c) ==
  /\ volumeCalls[c].pc = "storage" /\ CacheHas
  /\ Become(c, WithStorage(volumeCalls[c], volumeCache.storage))
  /\ UNCHANGED <<volumeVars, toolRuns, override>>
CallFetches(c) ==
  /\ volumeCalls[c].pc = "storage" /\ ~CacheHas /\ volumeCache.at # "fetching"
  /\ volumeCache' = [at |-> "fetching", storage |-> IF volumeStorage = 0 THEN -1 ELSE volumeStorage, dirty |-> FALSE]
  /\ VolumeAnswer(c, "fetching")
  /\ UNCHANGED <<volume, volumeStorage, dirtyLost, toolRuns, override>>
CallFetched(c) ==
  /\ volumeCalls[c].pc = "fetching"
  /\ volumeCache' = [volumeCache EXCEPT !.at = "value", !.dirty = FALSE]
  /\ Become(c, WithStorage(volumeCalls[c], volumeCache.storage))
  /\ UNCHANGED <<volume, volumeStorage, dirtyLost, toolRuns, override>>
\* storage.metadata() and read(), or storage.list(): FileNotFoundError is answered 404.
CallServed(c, found) ==
  /\ volumeCalls[c].pc = "read"
  /\ VolumeAnswer(c, IF found THEN "served" ELSE "not found") /\ UNCHANGED <<volumeVars, toolRuns, override>>
\* tools/call: the tool is known and its arguments are valid, or it does not run; it answers even if it throws.
\* Mutant: the arguments are validated by the tool.
MayRunUnvalidated(known, valid) == known
MayRun(known, valid) == known /\ valid
CallTool(c, known, valid) ==
  /\ volumeCalls[c].pc = "tool"
  /\ toolRuns' = IF MayRun(known, valid) THEN toolRuns \cup {<<known, valid>>} ELSE toolRuns
  /\ VolumeAnswer(c, IF MayRun(known, valid) THEN "served" ELSE "refused")
  /\ UNCHANGED <<volumeVars, override>>

-----------------------------------------------------------------------------
(* MCPServer.updateSchema().                                                *)

\* A schema is a text, a number, or an object: keys with what they hold.  Refused is a tuple that is no schema.
Refused == [kind |-> "refused", text |-> "", keys |-> <<>>]
Merged(f, g) == [k \in DOMAIN f \cup DOMAIN g |-> IF k \in DOMAIN g THEN g[k] ELSE f[k]]
RECURSIVE UpdateSchema(_, _), UpdateKey(_, _, _)
\* Mutant: a key that the schema has not is added.
UpdateKeyAdds(schema, key, content) ==
  CASE key \notin DOMAIN schema.keys -> content
    [] schema.keys[key].kind # content.kind -> Refused
    [] key = "description" -> content
    [] content.kind = "object" -> UpdateSchema(schema.keys[key], content)
    [] OTHER -> Refused
UpdateKey(schema, key, content) ==
  CASE key \notin DOMAIN schema.keys -> Refused
    [] schema.keys[key].kind # content.kind -> Refused
    [] key = "description" -> content
    [] content.kind = "object" -> UpdateSchema(schema.keys[key], content)
    [] OTHER -> Refused
UpdateSchema(schema, content) ==
  LET updated == [k \in DOMAIN content.keys |-> UpdateKey(schema, k, content.keys[k])]
  IN  IF \E k \in DOMAIN updated : updated[k] = Refused THEN Refused ELSE [schema EXCEPT !.keys = Merged(@, updated)]
\* registerMCP() of a plugin with the overrides of its configuration.
Override(pair) ==
  /\ override.result = "none" /\ override' = [schema |-> pair[1], content |-> pair[2], result |-> "updated", to |-> UpdateSchema(pair[1], pair[2])]
  /\ UNCHANGED <<volumeVars, callVars>>

-----------------------------------------------------------------------------
NoOverride == [schema |-> Refused, content |-> Refused, result |-> "none", to |-> Refused]
ServerInit ==
  /\ volume \in {[at |-> "idle", private |-> p, starts |-> 0] : p \in BOOLEAN}
  /\ volumeStorage = 0 /\ volumeCache = NoCache /\ dirtyLost = FALSE
  /\ volumeCalls = [c \in VolumeCalls |-> NoVolumeCall] /\ toolRuns = {}
  /\ override = NoOverride
\* The overrides are applied while the server is set up, and looked at on their own.
VolumeNext ==
  \/ VolumeStart \/ VolumeStopBegins \/ VolumeStopEnds
  \/ \E c \in VolumeCalls :
       \/ \E op \in {"file", "list", "mcp"}, t \in {"none", "other scope", "scope"} : CallBegins(c, op, t)
       \/ CallAuthorized(c) \/ CallGetsCached(c) \/ CallFetches(c) \/ CallFetched(c)
       \/ \E b \in BOOLEAN : CallServed(c, b)
       \/ \E known, valid \in BOOLEAN : CallTool(c, known, valid)
ServerNext ==
  \/ override.result = "none" /\ VolumeNext
  \/ volume.starts = 0 /\ (\A c \in VolumeCalls : volumeCalls[c] = NoVolumeCall) /\ \E pair \in SchemaOverrides : Override(pair)

-----------------------------------------------------------------------------
\* Nothing of a private volume is given without the scope of the volume, whatever the volume did meanwhile.
PrivateGuarded == \A c \in VolumeCalls : volume.private /\ volumeCalls[c].pc \in {"served", "not found"} => volumeCalls[c].token = "scope"

\* A request is served by the storage of a start that was still to come or current when the request began: the cache
\* never gives one that a stop had reset before.  Excluded: a stop that came while the entry was being fetched, whose
\* setDirty() is lost (cache2.js:314).
StorageCurrent ==
  \A c \in VolumeCalls : ~dirtyLost /\ volumeCalls[c].storage > 0 => volumeCalls[c].storage >= volumeCalls[c].began

\* A tool only runs if it is known and its arguments are valid.
ToolsRunValid == toolRuns \subseteq {<<TRUE, TRUE>>}

\* Keys and kinds of a schema, down to the keys called description.
RECURSIVE SameShape(_, _)
SameShape(s, t) ==
  /\ s.kind = t.kind /\ DOMAIN s.keys = DOMAIN t.keys
  /\ \A k \in DOMAIN s.keys \ {"description"} : SameShape(s.keys[k], t.keys[k])
\* An override changes descriptions and nothing else: no key appears or changes its kind (server.js:77).
OverrideKeepsSchema == override.result = "updated" /\ override.to # Refused => SameShape(override.schema, override.to)

-----------------------------------------------------------------------------
(****************************************************************************)
(* The caching proxy of the artifacts application: requests for an url are  *)
(* served from an entry of the storage or fetched, sent and stored under a  *)
(* temporary name that is then moved; a garbage collector keeps the size    *)
(* of the storage within a budget (caching_proxy.js).  A move of storage.js *)
(* is a copy and a deletion, and nobody but a fetcher takes the lock of an  *)
(* entry.  Entries have size 1 and are missing, partly written or whole.    *)
(****************************************************************************)
CONSTANTS
  Entries,          \* cache keys
  ProxyRequests,    \* requests under way at the same time
  MaxStorageSize,   \* options.cachingProxy.maxStorageSize
  MaxProxyAsks, MaxCollects, MaxProxyRestarts  \* bounds

ASSUME ProxyAssumption == {MaxStorageSize, MaxProxyAsks, MaxCollects, MaxProxyRestarts} \subseteq Nat

VARIABLES
  final, temp,     \* the files of an entry
  entryLock,       \* plugin.locks
  request,         \* pc and entry of a request
  accessed,        \* globalMetadataUpdate: entries with an access that is not saved
  tracked,         \* metadata.json: entries with a saved access
  collector,       \* the garbage collector: what it found and has to delete
  unclean,         \* the process was killed while a file was written
  proxyLeft

proxyVars == <<final, temp, entryLock, request, accessed, tracked, collector, unclean, proxyLeft>>

NoRequest == [pc |-> "idle", entry |-> "none"]
NoCollect == [pc |-> "idle", current |-> {}]

ProxyInit ==
  /\ final = [e \in Entries |-> "none"] /\ temp = final /\ entryLock = final
  /\ request = [q \in ProxyRequests |-> NoRequest] /\ accessed = {} /\ tracked = {}
  /\ collector = NoCollect /\ unclean = FALSE
  /\ proxyLeft = [asks |-> MaxProxyAsks, collects |-> MaxCollects, restarts |-> MaxProxyRestarts]

ProxySpend(k) == proxyLeft[k] > 0 /\ proxyLeft' = [proxyLeft EXCEPT ![k] = @ - 1]
PGo(q, pc) == request' = [request EXCEPT ![q].pc = pc]
PAt(q, pc) == request[q].pc = pc

-----------------------------------------------------------------------------
\* The handler of the endpoint.  Its access is noted before anything else.
Ask(q, e) ==
  /\ PAt(q, "idle") /\ ProxySpend("asks") /\ request' = [request EXCEPT ![q] = [pc |-> "read", entry |-> e]]
  /\ accessed' = accessed \cup {e}
  /\ UNCHANGED <<final, temp, entryLock, tracked, collector, unclean>>
Read(q) ==
  /\ PAt(q, "read") /\ PGo(q, IF final[request[q].entry] = "none" THEN "fetch" ELSE "idle")
  /\ UNCHANGED <<final, temp, entryLock, accessed, tracked, collector, unclean, proxyLeft>>
\* fetchFile(): an error or an error status ends the request, and nothing is stored.
FetchRefused(q) ==
  /\ PAt(q, "fetch") /\ PGo(q, "idle")
  /\ UNCHANGED <<final, temp, entryLock, accessed, tracked, collector, unclean, proxyLeft>>
\* tryLock(): who does not get it sends the stream and stores nothing.
FetchAnswered(q) ==
  LET e == request[q].entry IN
  /\ PAt(q, "fetch")
  /\ IF entryLock[e] = "none" THEN PGo(q, "write") /\ entryLock' = [entryLock EXCEPT ![e] = q]
     ELSE PGo(q, "idle") /\ UNCHANGED entryLock
  /\ UNCHANGED <<final, temp, accessed, tracked, collector, unclean, proxyLeft>>

WriteBegins(q) ==
  /\ PAt(q, "write") /\ PGo(q, "writing") /\ temp' = [temp EXCEPT ![request[q].entry] = "part"]
  /\ UNCHANGED <<final, entryLock, accessed, tracked, collector, unclean, proxyLeft>>
\* Promise.all() of the sending and the writing.
WriteEnds(q) ==
  /\ PAt(q, "writing") /\ PGo(q, "copy") /\ temp' = [temp EXCEPT ![request[q].entry] = IF @ = "none" THEN "none" ELSE "whole"]
  /\ UNCHANGED <<final, entryLock, accessed, tracked, collector, unclean, proxyLeft>>
\* The client left, or the source broke, before or while the file is copied.
StreamFails(q) ==
  /\ request[q].pc \in {"writing", "copying"} /\ PGo(q, "cleanTemp")
  /\ UNCHANGED <<final, temp, entryLock, accessed, tracked, collector, unclean, proxyLeft>>

\* storage.move().
CopyBegins(q) ==
  LET e == request[q].entry IN
  /\ PAt(q, "copy")
  /\ IF temp[e] = "none" THEN PGo(q, "cleanTemp") /\ UNCHANGED final
     ELSE PGo(q, "copying") /\ final' = [final EXCEPT ![e] = "part"]
  /\ UNCHANGED <<temp, entryLock, accessed, tracked, collector, unclean, proxyLeft>>
CopyEnds(q) ==
  /\ PAt(q, "copying") /\ PGo(q, "delete")
  /\ final' = [final EXCEPT ![request[q].entry] = IF @ = "none" THEN "none" ELSE "whole"]
  /\ UNCHANGED <<temp, entryLock, accessed, tracked, collector, unclean, proxyLeft>>
DeleteTemp(q) ==
  LET e == request[q].entry IN
  /\ PAt(q, "delete") /\ PGo(q, IF temp[e] = "none" THEN "cleanTemp" ELSE "unlock")
  /\ temp' = [temp EXCEPT ![e] = "none"]
  /\ UNCHANGED <<final, entryLock, accessed, tracked, collector, unclean, proxyLeft>>

\* After an error the two files are deleted; in all cases the lock is released.
CleanTemp(q) ==
  /\ PAt(q, "cleanTemp") /\ PGo(q, "cleanFinal") /\ temp' = [temp EXCEPT ![request[q].entry] = "none"]
  /\ UNCHANGED <<final, entryLock, accessed, tracked, collector, unclean, proxyLeft>>
\* Mutant: the error is thought to precede the move.
CleanFinalKept(q) ==
  /\ PAt(q, "cleanFinal") /\ PGo(q, "unlock") /\ UNCHANGED final
  /\ UNCHANGED <<temp, entryLock, accessed, tracked, collector, unclean, proxyLeft>>
CleanFinal(q) ==
  /\ PAt(q, "cleanFinal") /\ PGo(q, "unlock") /\ final' = [final EXCEPT ![request[q].entry] = "none"]
  /\ UNCHANGED <<temp, entryLock, accessed, tracked, collector, unclean, proxyLeft>>
Unlock(q) ==
  /\ PAt(q, "unlock") /\ PGo(q, "idle") /\ entryLock' = [entryLock EXCEPT ![request[q].entry] = "none"]
  /\ UNCHANGED <<final, temp, accessed, tracked, collector, unclean, proxyLeft>>

-----------------------------------------------------------------------------
\* "cache.garbage-collect": the walk over all files ...
Found == {<<"final", e>> : e \in {x \in Entries : final[x] # "none"}} \cup
         {<<"temp", e>> : e \in {x \in Entries : temp[x] # "none"}}
Collect ==
  /\ collector.pc \in {"idle", "ended", "failed"} /\ ProxySpend("collects")
  /\ collector' = [current |-> Found, pc |-> IF Cardinality(Found) > MaxStorageSize THEN "sync" ELSE "ended"]
  /\ UNCHANGED <<final, temp, entryLock, request, accessed, tracked, unclean>>
\* ... syncGlobalMetadata(), which names a variable that it does not have and fails when there
\* is an access to save ...
CollectSync ==
  /\ collector.pc = "sync"
  /\ collector' = [collector EXCEPT !.pc = IF accessed = {} THEN "orphans" ELSE "failed"]
  /\ UNCHANGED <<final, temp, entryLock, request, accessed, tracked, unclean, proxyLeft>>
\* ... the files without metadata, one by one ...
IsTracked(f) == f[1] = "final" /\ f[2] \in tracked
CollectOrphan(f) ==
  /\ collector.pc = "orphans" /\ f \in collector.current /\ ~IsTracked(f)
  /\ collector' = [collector EXCEPT !.current = @ \ {f}]
  /\ final' = IF f[1] = "final" THEN [final EXCEPT ![f[2]] = "none"] ELSE final
  /\ temp' = IF f[1] = "temp" THEN [temp EXCEPT ![f[2]] = "none"] ELSE temp
  /\ UNCHANGED <<entryLock, request, accessed, tracked, unclean, proxyLeft>>
\* ... and the oldest ones until the rest is within the budget.  Nothing is ever tracked, as
\* the metadata is written here only: the second phase finds no file left.
CollectEnds ==
  /\ collector.pc = "orphans" /\ \A f \in collector.current : IsTracked(f)
  /\ collector' = [collector EXCEPT !.pc = "ended"]
  /\ tracked' = {e \in tracked : <<"final", e>> \in collector.current}
  /\ UNCHANGED <<final, temp, entryLock, request, accessed, unclean, proxyLeft>>

\* The process ends and starts again; its locks expire.
ProxyRestart ==
  /\ ProxySpend("restarts") /\ request' = [q \in ProxyRequests |-> NoRequest] /\ accessed' = {}
  /\ entryLock' = [e \in Entries |-> "none"] /\ collector' = NoCollect
  /\ unclean' = (unclean \/ \E e \in Entries : entryLock[e] # "none")
  /\ UNCHANGED <<final, temp, tracked>>

ProxyNext ==
  \/ \E q \in ProxyRequests :
       \/ \E e \in Entries : Ask(q, e)
       \/ Read(q) \/ FetchRefused(q) \/ FetchAnswered(q) \/ WriteBegins(q) \/ WriteEnds(q) \/ StreamFails(q)
       \/ CopyBegins(q) \/ CopyEnds(q) \/ DeleteTemp(q) \/ CleanTemp(q) \/ CleanFinal(q) \/ Unlock(q)
  \/ Collect \/ CollectSync \/ CollectEnds \/ ProxyRestart
  \/ \E f \in {"final", "temp"} \X Entries : CollectOrphan(f)

-----------------------------------------------------------------------------
\* No part of an entry stays: what is partly written, or has a temporary name, belongs to the
\* request that holds the lock, whatever step of the fetch fails and whatever the collector
\* deletes, unless the process is killed (caching_proxy.js:180-207).
NoPartStays ==
  unclean \/ \A e \in Entries : (final[e] = "part" \/ temp[e] # "none") =>
    \E q \in ProxyRequests : entryLock[e] = q /\ request[q].entry = e

\* "evict oldest entries until under budget": when the collector is done, what it found is
\* within the budget (caching_proxy.js:298).  Not satisfied: the collection ends with a
\* ReferenceError when there is an access to save (caching_proxy.js:125).
BudgetKept == collector.pc \in {"ended", "failed"} => Cardinality(collector.current) <= MaxStorageSize


-----------------------------------------------------------------------------
\* A private volume needs its token, a request gets the storage of the running volume, a tool runs
\* with valid arguments, and a fetch that fails leaves no part of a file in the caching proxy.
ServerSafe ==
  /\ NoPartStays
  /\ PrivateGuarded
  /\ StorageCurrent
  /\ ToolsRunValid
  /\ OverrideKeepsSchema
=============================================================================
