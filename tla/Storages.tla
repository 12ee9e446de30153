------------------------------ MODULE Storages ------------------------------
(****************************************************************************)
(* The storages and the protocols in front of them.                         *)
(****************************************************************************)
EXTENDS Integers, Sequences, FiniteSets, SequencesExt, FiniteSetsExt

(****************************************************************************)
(* The WebDAV extension of the artifacts application (extension/webdav/     *)
(* webdav.js) over a storage: memory.js, disk.js or google_drive.js, used   *)
(* through storage.js.  Requests run one at a time in a Lock (core/lock.js).*)
(* A path has nothing, a directory or a file; a file stands for its content,*)
(* "" is an empty file.  Google Drive finds files by ids that are cached.   *)
(* readLoop is the download loop of google_drive.js on its own.             *)
(****************************************************************************)
CONSTANTS
  StorageKinds,    \* "memory", "disk", "drive"
  DavClients,      \* who sends requests
  Contents,        \* contents of files
  MaxRequests,     \* bound: requests
  DavFileSize,        \* size of the file that readLoop downloads
  MaxRetries       \* tries without progress, 3

ASSUME WebDavAssumption == MaxRetries \in Nat \ {0} /\ DavFileSize \in Nat

VARIABLES
  storage,      \* kind, path -> what is there, path -> id in Drive, path -> cached id, number of ids given
  lockQueue,    \* clients that called lock.acquire(), the first one runs
  dav,          \* client -> its request, its step, what it has read, and the status of the former one
  requests,     \* number of requests
  davAcked,        \* path -> what the answered requests left there
  unsure,       \* paths for which a request that failed or exited promises nothing
  readLoop      \* bytes given to the reader, tries left, whether the loop has ended

webdavVars == <<storage, lockQueue, dav, requests, davAcked, unsure, readLoop>>

DavPaths == {<<"d">>, <<"d", "f">>, <<"g">>}
DavNothing == "none"
IsFile(what) == what \notin {DavNothing, "dir"}
NoDavRequest == [op |-> "none", path |-> <<>>, to |-> <<>>, content |-> "", pc |-> "idle", status |-> "none"]
\* At the start there is a file in a directory.
First == [p \in DavPaths |-> CASE p = <<"d">> -> "dir" [] p = <<"d", "f">> -> "first" [] OTHER -> DavNothing]
WebDavInit ==
  /\ storage \in {[kind |-> k, tree |-> First, id |-> [p \in DavPaths |-> Len(p)], cache |-> [p \in DavPaths |-> 0], ids |-> 2, unflushed |-> FALSE] :
                  k \in StorageKinds}
  /\ lockQueue = <<>> /\ dav = [c \in DavClients |-> NoDavRequest] /\ requests = 0
  /\ davAcked = First /\ unsure = {} /\ readLoop = [read |-> 0, given |-> <<>>, left |-> MaxRetries, ended |-> FALSE]

ParentOf(path) == Front(path)
DavAt(st, path) == IF path = <<>> THEN "dir" ELSE st.tree[path]
DavBelow(path) == {p \in DavPaths : IsPrefix(path, p)}

-----------------------------------------------------------------------------
(* Google Drive: the cache of ids; a cached id may be one that was deleted. *)

Alive(st, path) == path = <<>> \/ (st.tree[path] # DavNothing /\ (st.cache[path] = 0 \/ st.cache[path] = st.id[path]))
Cached(st, path) == path # <<>> /\ st.cache[path] # 0
\* cache.get("id", path): the cached id, or the one that the parent lists; FileNotFoundError otherwise.
DavKnown(st, path) == path = <<>> \/ Cached(st, path) \/ (Alive(st, ParentOf(path)) /\ st.tree[path] # DavNothing)
WithIds(st, path) == [st EXCEPT !.cache = [p \in DavPaths |-> IF IsPrefix(p, path) /\ DavKnown(st, p) /\ st.cache[p] = 0 THEN st.id[p] ELSE st.cache[p]]]
\* files.create() and cache.set().
Put(st, path, what) == [st EXCEPT !.tree[path] = what, !.ids = @ + 1, !.id[path] = st.ids + 1, !.cache[path] = st.ids + 1]

-----------------------------------------------------------------------------
(* The operations of a storage: the outcomes are [storage, status, unsure]; *)
(* status "exit" is an error event of a write stream that nobody listens to.*)

DavOutcome(st, status, paths) == [storage |-> st, status |-> status, unsure |-> paths]
\* Mutant: what is in a directory is forgotten.
RemovedAlone(st, path) == [st EXCEPT !.tree[path] = DavNothing]
DavRemoved(st, path) == [st EXCEPT !.tree = [p \in DavPaths |-> IF p \in DavBelow(path) THEN DavNothing ELSE st.tree[p]]]
Through(st, path) == IF DavAt(st, ParentOf(path)) = DavNothing THEN "404" ELSE IF IsFile(DavAt(st, ParentOf(path))) THEN "error" ELSE "ok"

WriteMemory(st, path, content) ==
  IF Through(st, path) # "ok" THEN DavOutcome(st, Through(st, path), {}) ELSE IF DavAt(st, path) = "dir" THEN DavOutcome(st, "error", {})
  ELSE DavOutcome([st EXCEPT !.tree[path] = content], "ok", {})
\* copyStream() resolves when the source ends: the file is written later.
WriteDisk(st, path, content) ==
  IF Through(st, path) # "ok" \/ DavAt(st, path) = "dir" THEN DavOutcome(st, "exit", {})
  ELSE DavOutcome([st EXCEPT !.tree[path] = content, !.unflushed = TRUE], "ok", {})
\* update() of a deleted id has used the stream when _createFile() sends it again.
WriteDrive(st, path, content) ==
  IF ~DavKnown(st, path)
  THEN {IF ~DavKnown(st, ParentOf(path)) THEN DavOutcome(st, "404", {})
        ELSE IF ~Alive(st, ParentOf(path)) \/ DavAt(st, ParentOf(path)) # "dir" THEN DavOutcome(st, "error", {})
        ELSE DavOutcome(Put(WithIds(st, ParentOf(path)), path, content), "ok", {})}
  ELSE IF Alive(st, path) THEN {IF DavAt(st, path) = "dir" THEN DavOutcome(st, "error", {}) ELSE DavOutcome([WithIds(st, path) EXCEPT !.tree[path] = content], "ok", {})}
  ELSE IF Alive(st, ParentOf(path)) THEN {DavOutcome(Put(st, path, sent), "ok", {path}) : sent \in {content, ""}}
  ELSE {DavOutcome(st, "error", {})}
Write(st, path, content) ==
  CASE st.kind = "memory" -> {WriteMemory(st, path, content)} [] st.kind = "disk" -> {WriteDisk(st, path, content)} [] OTHER -> WriteDrive(st, path, content)

\* The directories of a path one after the other; in Drive a cached id is enough, and a file is not told from a directory.
MkdirOne(o, path) ==
  LET st == o.storage IN
  IF o.status # "ok" THEN o
  ELSE IF st.kind = "drive"
  THEN IF DavKnown(st, path) THEN [o EXCEPT !.storage = WithIds(st, path), !.unsure = IF Alive(st, path) THEN @ ELSE @ \cup {path}]
       ELSE IF ~Alive(st, ParentOf(path)) \/ DavAt(st, ParentOf(path)) # "dir" THEN [o EXCEPT !.status = "error"]
       ELSE [o EXCEPT !.storage = Put(st, path, "dir")]
  ELSE IF IsFile(DavAt(st, path)) THEN [o EXCEPT !.status = "error"] ELSE [o EXCEPT !.storage.tree[path] = "dir"]
Mkdir(st, path) == FoldLeft(MkdirOne, DavOutcome(st, "ok", {}), [i \in 1 .. Len(path) |-> SubSeq(path, 1, i)])
\* What mkdir() promises: directories, where there was no file.
WithDirectories(now, path) == [p \in DavPaths |-> IF IsPrefix(p, path) /\ now[p] = DavNothing THEN "dir" ELSE now[p]]

\* memory.js does not mind that the entry is absent.
DeleteMemory(st, path) == IF Through(st, path) = "ok" THEN DavOutcome(DavRemoved(st, path), "ok", {}) ELSE DavOutcome(st, Through(st, path), {})
DeleteDisk(st, path) == IF DavAt(st, path) = DavNothing THEN DavOutcome(st, "404", {}) ELSE DavOutcome(DavRemoved(st, path), "ok", {})
DeleteDrive(st, path) ==
  IF ~DavKnown(st, path) THEN DavOutcome(st, "404", {}) ELSE IF Alive(st, path) THEN DavOutcome(DavRemoved(WithIds(st, path), path), "ok", {}) ELSE DavOutcome(st, "error", {})
Delete(st, path) ==
  CASE st.kind = "memory" -> DeleteMemory(st, path) [] st.kind = "disk" -> DeleteDisk(st, path) [] OTHER -> DeleteDrive(st, path)

\* The stream of a file; a directory fails when it is read, and in Drive gives no byte (readLoop).
ReadLocal(st, path) ==
  IF DavAt(st, path) = DavNothing THEN <<IF st.kind = "memory" /\ Through(st, path) = "error" THEN "error" ELSE "404", "">>
  ELSE IF DavAt(st, path) = "dir" THEN <<"error", "">> ELSE <<"ok", DavAt(st, path)>>
ReadDrive(st, path) == IF ~DavKnown(st, path) THEN <<"404", "">> ELSE IF ~Alive(st, path) \/ DavAt(st, path) = "dir" THEN <<"ok", "">> ELSE <<"ok", DavAt(st, path)>>
DavRead(st, path) == IF st.kind = "drive" THEN ReadDrive(st, path) ELSE ReadLocal(st, path)

-----------------------------------------------------------------------------
(* core/lock.js and scopeExceptionHandler() of webdav.js.                   *)

Acquire(c, op, path, to, content) ==
  /\ dav[c].pc = "idle" /\ requests < MaxRequests /\ requests' = requests + 1
  /\ dav' = [dav EXCEPT ![c] = [op |-> op, path |-> path, to |-> to, content |-> content, pc |-> "queued", status |-> "none"]]
  /\ lockQueue' = Append(lockQueue, c) /\ UNCHANGED <<storage, davAcked, unsure, readLoop>>
\* The callback of the first task starts.
DavBegin(c) ==
  /\ lockQueue # <<>> /\ Head(lockQueue) = c /\ dav[c].pc = "queued"
  /\ dav' = [dav EXCEPT ![c].pc = IF dav[c].op \in {"copy", "move"} THEN "read" ELSE "do"]
  /\ UNCHANGED <<storage, lockQueue, requests, davAcked, unsure, readLoop>>
\* A task that fails with anything but FileNotFoundError rejects the chain: the tasks behind it do not run.
\* Mutant: the lock is left as it is when its last task fails.
QueueAfterKept(failed) == IF failed THEN <<Head(lockQueue)>> ELSE Tail(lockQueue)
QueueAfter(failed) == IF failed THEN <<>> ELSE Tail(lockQueue)
Ends(c, status, now) ==
  LET failed == status \in {"error", "exit"}
      all == IF failed THEN Range(lockQueue) ELSE {c} IN
  /\ lockQueue' = QueueAfter(failed)
  /\ dav' = [k \in DavClients |-> IF k \in all THEN [NoDavRequest EXCEPT !.status = IF k = c THEN status ELSE "error"] ELSE dav[k]]
  /\ davAcked' = now

-----------------------------------------------------------------------------
(* The requests, once they have the lock.                                   *)

Get(c) ==
  /\ dav[c].pc = "do" /\ dav[c].op = "get" /\ Ends(c, DavRead(storage, dav[c].path)[1], davAcked) /\ UNCHANGED <<storage, requests, unsure, readLoop>>
PutFile(c) ==
  /\ dav[c].pc = "do" /\ dav[c].op = "put"
  /\ \E o \in Write(storage, dav[c].path, dav[c].content) :
       /\ storage' = o.storage /\ unsure' = unsure \cup o.unsure
       /\ Ends(c, o.status, IF o.status = "ok" THEN [davAcked EXCEPT ![dav[c].path] = dav[c].content] ELSE davAcked)
  /\ UNCHANGED <<requests, readLoop>>
DeletePath(c) ==
  LET o == Delete(storage, dav[c].path) IN
  /\ dav[c].pc = "do" /\ dav[c].op = "delete" /\ storage' = o.storage /\ unsure' = unsure \cup o.unsure
  /\ Ends(c, o.status, IF o.status = "ok" THEN [p \in DavPaths |-> IF p \in DavBelow(dav[c].path) THEN DavNothing ELSE davAcked[p]] ELSE davAcked)
  /\ UNCHANGED <<requests, readLoop>>
Mkcol(c) ==
  LET o == Mkdir(storage, dav[c].path) IN
  /\ dav[c].pc = "do" /\ dav[c].op = "mkcol" /\ storage' = o.storage /\ unsure' = unsure \cup o.unsure
  /\ Ends(c, o.status, IF o.status = "ok" THEN WithDirectories(davAcked, dav[c].path) ELSE davAcked) /\ UNCHANGED <<requests, readLoop>>

\* copy() and move(): the source is opened, the directory of the destination made, the file written and, for move(), the source deleted.
\* On a disk the destination is created before the read of a directory fails; in Drive a directory reads as an empty file.
CopyReads(c) ==
  LET read == DavRead(storage, dav[c].path)
      spoiled == storage.kind # "memory" /\ DavAt(storage, dav[c].path) = "dir" IN
  /\ dav[c].pc = "read"
  /\ unsure' = IF spoiled \/ (storage.kind = "drive" /\ ~Alive(storage, dav[c].path)) THEN unsure \cup DavBelow(dav[c].path) \cup DavBelow(dav[c].to) ELSE unsure
  /\ IF read[1] # "ok" THEN Ends(c, read[1], davAcked)
     ELSE dav' = [dav EXCEPT ![c].pc = "mkdir", ![c].content = read[2]] /\ UNCHANGED <<lockQueue, davAcked>>
  /\ UNCHANGED <<storage, requests, readLoop>>
\* Mutant: move() deletes the source as soon as it has its stream.
WhileCopiedDeletes(st, request) == IF request.op = "move" THEN DavRemoved(st, request.path) ELSE st
WhileCopied(st, request) == st
CopyMkdir(c) ==
  LET parent == ParentOf(dav[c].to)
      o == Mkdir(storage, parent) IN
  /\ dav[c].pc = "mkdir" /\ storage' = WhileCopied(o.storage, dav[c]) /\ unsure' = unsure \cup o.unsure
  /\ IF o.status # "ok" THEN Ends(c, o.status, davAcked)
     ELSE dav' = [dav EXCEPT ![c].pc = "write"] /\ davAcked' = WithDirectories(davAcked, parent) /\ UNCHANGED lockQueue
  /\ UNCHANGED <<requests, readLoop>>
CopyWrites(c) ==
  /\ dav[c].pc = "write"
  /\ \E o \in Write(storage, dav[c].to, dav[c].content) :
       /\ storage' = o.storage /\ unsure' = unsure \cup o.unsure
       /\ LET now == IF o.status = "ok" THEN [davAcked EXCEPT ![dav[c].to] = dav[c].content] ELSE davAcked IN
          IF o.status = "ok" /\ dav[c].op = "move" THEN dav' = [dav EXCEPT ![c].pc = "unlink"] /\ davAcked' = now /\ UNCHANGED lockQueue
          ELSE Ends(c, o.status, now)
  /\ UNCHANGED <<requests, readLoop>>
MoveDeletes(c) ==
  LET o == Delete(storage, dav[c].path) IN
  /\ dav[c].pc = "unlink" /\ storage' = o.storage
  /\ unsure' = unsure \cup o.unsure \cup (IF dav[c].to \in DavBelow(dav[c].path) THEN {dav[c].to} ELSE {})
  /\ Ends(c, o.status, IF o.status = "ok" THEN [p \in DavPaths |-> IF p \in DavBelow(dav[c].path) THEN DavNothing ELSE davAcked[p]] ELSE davAcked)
  /\ UNCHANGED <<requests, readLoop>>
\* The data that copyStream() did not wait for is on the disk.
Flushed == storage.unflushed /\ storage' = [storage EXCEPT !.unflushed = FALSE] /\ UNCHANGED <<lockQueue, dav, requests, davAcked, unsure, readLoop>>

-----------------------------------------------------------------------------
(* The loop of _readImpl(): each request asks for the bytes from bytesRead. *)

\* Mutant: the request after a failure starts where the former one did.
ResumeAtPrevious(read, n) == read
ResumeAt(read, n) == read + n
Download(n, fails) ==
  LET loop == readLoop
      read == ResumeAt(loop.read, n)
      whole == loop.read + n = DavFileSize
      left == IF ~fails THEN loop.left ELSE IF n = 0 THEN loop.left - 1 ELSE MaxRetries IN
  /\ ~loop.ended /\ loop.read + n <= DavFileSize /\ (~fails => whole)
  /\ readLoop' = [read |-> read, given |-> loop.given \o [i \in 1 .. n |-> loop.read + i], left |-> left, ended |-> ~fails \/ left = 0]
  /\ UNCHANGED <<storage, lockQueue, dav, requests, davAcked, unsure>>

WebDavNext ==
  \/ Flushed
  \/ requests = 0 /\ \E n \in 0 .. DavFileSize, fails \in BOOLEAN : Download(n, fails)
  \/ readLoop.given = <<>> /\ \E c \in DavClients :
       \/ \E op \in {"get", "delete", "mkcol"}, p \in DavPaths : Acquire(c, op, p, <<>>, "")
       \/ \E p \in DavPaths, content \in Contents : Acquire(c, "put", p, <<>>, content)
       \/ \E op \in {"copy", "move"}, p, q \in DavPaths : p # q /\ Acquire(c, op, p, q, "")
       \/ DavBegin(c) \/ Get(c) \/ PutFile(c) \/ DeletePath(c) \/ Mkcol(c) \/ CopyReads(c) \/ CopyMkdir(c) \/ CopyWrites(c) \/ MoveDeletes(c)

-----------------------------------------------------------------------------
\* Once no request is under way the storage holds what the answered requests say, whatever order they came in and whichever of them failed
\* half-way; left open are the paths of unsure: a deleted path in Drive, whose id stays in the cache (google_drive.js:281), a directory
\* that was copied, and a file moved below itself.
AsAnswered == lockQueue = <<>> => \A p \in DavPaths : DavBelow(p) \cap unsure = {} /\ (\A q \in unsure : ~IsPrefix(q, p)) => storage.tree[p] = davAcked[p]

\* The copy is written before the source goes: at each moment of a move of a file its content is at one of the two paths (storage.js:136).
MoveKeepsContent == \A c \in DavClients :
  dav[c].pc \in {"mkdir", "write", "unlink"} /\ dav[c].path \notin unsure
    => storage.tree[dav[c].path] = dav[c].content \/ storage.tree[dav[c].to] = dav[c].content

\* The lock is usable again after a failure: who waits in the queue has a request, and the first of the queue can run (lock.js:17-21).
LockUsable == Range(lockQueue) = {c \in DavClients : dav[c].pc # "idle"}

\* The reader of a Drive file gets a prefix of it, each byte once and in order, over any number of interruptions (google_drive.js:149-201).
ReadIsPrefix == readLoop.given = [i \in 1 .. Len(readLoop.given) |-> i]

-----------------------------------------------------------------------------
(****************************************************************************)
(* The file system of the Node.js code (core/filesystem.js) and the one in  *)
(* memory that the tests, and records that are not kept on disk, use in its *)
(* place (core/mock/filesystem.js).  Both are given the same calls, one     *)
(* after the other.  What the calls of fs.promises do is external; paths    *)
(* are relative and there are no links.                                     *)
(****************************************************************************)
CONSTANTS
  Names,        \* names of entries
  Depth,        \* bound: names of a path
  GivenPaths,   \* paths as given to the calls, with ".." in them
  Blocks,       \* contents
  MaxFsCalls    \* bound: calls

ASSUME FileSystemsAssumption == Depth \in Nat \ {0} /\ MaxFsCalls \in Nat

VARIABLES
  realTree, mockTree, \* the entry of each path: its kind, its content and its last modification
  fsCalls,            \* calls so far, the clock as well
  fsAgreed,           \* results of the last call: those of fs and of the mock
  fsApart             \* a call was made where the two may differ

fsVars == <<realTree, mockTree, fsCalls, fsAgreed, fsApart>>

TreePaths == UNION {[1 .. n -> Names] : n \in 1 .. Depth}
Nothing == [kind |-> "none", content |-> <<>>, mtime |-> 0]
NewDirectory == [kind |-> "dir", content |-> <<>>, mtime |-> 0]
NewFile(now) == [kind |-> "file", content |-> <<>>, mtime |-> now]
KindAt(tree, p) == IF p = <<>> THEN "dir" ELSE IF p \in TreePaths THEN tree[p].kind ELSE "deep"
Above(p) == {SubSeq(p, 1, n) : n \in 1 .. Len(p) - 1}
Below(p) == {q \in TreePaths : Len(q) >= Len(p) /\ SubSeq(q, 1, Len(p)) = p}
Failed == "failed"

-----------------------------------------------------------------------------
(* The mock.                                                                *)

\* Path.normalize: before anything is looked up.
Normalize(given) ==
  FoldLeft(LAMBDA done, segment : CASE done = <<Failed>> -> done
                                    [] segment = ".." -> IF done = <<>> THEN <<Failed>> ELSE Front(done)
                                    [] OTHER -> Append(done, segment), <<>>, given)
\* _toEntry(): every entry above is a directory, the ones that do not exist are made when the policy says
\* so; the last one is made as well and is of the kind the policy says.  TRUE when it finds the entry.
AllowedKinds(policy) ==
  {k \in {"dir", "file", "none"} :
     (k = "none" => "create" \in policy) /\ (k = "dir" => "file" \notin policy) /\ (k = "file" => "directory" \notin policy)}
ToEntryFinds(p, policy) ==
  /\ p # <<Failed>> /\ p \in TreePaths \cup {<<>>}
  /\ \A q \in Above(p) : KindAt(mockTree, q) \in IF "create" \in policy THEN {"dir", "none"} ELSE {"dir"}
  /\ KindAt(mockTree, p) \in AllowedKinds(policy)
\* Mutant: directories on the way are not made.
WithParentsNone(p) == mockTree
WithParents(p) == [q \in TreePaths |-> IF q \in Above(p) /\ mockTree[q] = Nothing THEN NewDirectory ELSE mockTree[q]]
\* The entry the mock finds, made when there is none, and the tree with it.
Found(p, new) == IF mockTree[p] = Nothing THEN new ELSE mockTree[p]
Entered(p, entry) == [WithParents(p) EXCEPT ![p] = entry]
\* Mutant: the date stays the one of the creation.
TouchedNot(e) == e
Touched(e) == [e EXCEPT !.mtime = fsCalls]

MockCall(op, p, data) ==
  LET parent == IF p = <<Failed>> \/ p = <<>> THEN <<Failed>> ELSE Front(p)
      dirAbove == ToEntryFinds(parent, {"directory"})
  IN  CASE op = "mkdir" -> IF ToEntryFinds(p, {"create", "directory"}) /\ p # <<>>
                             THEN <<"done", Entered(p, Found(p, NewDirectory))>> ELSE <<Failed, mockTree>>
        [] op = "mkdirNew" -> IF dirAbove /\ KindAt(mockTree, p) = "none"
                                THEN <<"done", Entered(p, Found(p, NewDirectory))>> ELSE <<Failed, mockTree>>
        [] op \in {"rmdir", "rmdirForce"} ->
             (CASE ~dirAbove -> <<Failed, mockTree>>
                [] KindAt(mockTree, p) = "none" -> <<IF op = "rmdirForce" THEN "done" ELSE Failed, mockTree>>
                [] KindAt(mockTree, p) = "dir" ->
                     <<"done", [q \in TreePaths |-> IF q \in Below(p) THEN Nothing ELSE mockTree[q]]>>
                [] OTHER -> <<Failed, mockTree>>)
        [] op = "unlink" -> IF dirAbove /\ KindAt(mockTree, p) \in {"file", "dir"}
                              THEN <<"done", [q \in TreePaths |-> IF q \in Below(p) THEN Nothing ELSE mockTree[q]]>>
                              ELSE <<Failed, mockTree>>
        [] op \in {"append", "write", "touch"} ->
             IF ToEntryFinds(p, {"create", "file"}) /\ p # <<>>
               THEN <<"done", Entered(p, [Touched(Found(p, NewFile(fsCalls))) EXCEPT !.content =
                        CASE op = "append" -> Append(@, data) [] op = "write" -> <<data>> [] OTHER -> @])>>
               ELSE <<Failed, mockTree>>
        [] op = "utimes" -> IF ToEntryFinds(p, {}) /\ p # <<>>
                              THEN <<"done", Entered(p, [mockTree[p] EXCEPT !.mtime = IF mockTree[p].kind = "file" THEN 0 ELSE @])>>
                              ELSE <<Failed, mockTree>>
        [] OTHER -> IF ToEntryFinds(p, {}) THEN <<"done", mockTree>> ELSE <<Failed, mockTree>>

-----------------------------------------------------------------------------
(* The calls of fs.promises: a path is followed entry by entry.             *)

FollowPath(given) ==
  FoldLeft(LAMBDA done, segment :
             CASE done = <<Failed>> \/ KindAt(realTree, done) # "dir" -> <<Failed>>
               [] segment = ".." -> IF done = <<>> THEN <<Failed>> ELSE Front(done)
               [] OTHER -> Append(done, segment), <<>>, given)
RealCall(op, given, data) ==
  LET p == IF op = "mkdir" THEN Normalize(given) ELSE FollowPath(given)
      kind == IF p = <<Failed>> THEN "unreachable" ELSE KindAt(realTree, p)
      without == [q \in TreePaths |-> IF q \in Below(p) THEN Nothing ELSE realTree[q]]
      file == IF kind = "none" THEN NewFile(fsCalls) ELSE realTree[p]
  IN  CASE op = "mkdir" ->
             IF kind \in {"none", "dir"} /\ p # <<>> /\ \A q \in Above(p) : KindAt(realTree, q) \in {"none", "dir"}
               THEN <<"done", [q \in TreePaths |-> IF q \in Above(p) \cup {p} /\ realTree[q] = Nothing
                                                    THEN NewDirectory ELSE realTree[q]]>>
               ELSE <<Failed, realTree>>
        [] op = "mkdirNew" -> IF kind = "none" THEN <<"done", [realTree EXCEPT ![p] = NewDirectory]>> ELSE <<Failed, realTree>>
        [] op = "rmdir" -> IF kind \in {"dir", "file"} /\ p # <<>> THEN <<"done", without>> ELSE <<Failed, realTree>>
        [] op = "rmdirForce" -> IF kind \in {"dir", "file"} /\ p # <<>> THEN <<"done", without>> ELSE <<"done", realTree>>
        [] op = "unlink" -> IF kind = "file" THEN <<"done", without>> ELSE <<Failed, realTree>>
        [] op \in {"append", "write", "touch"} ->
             IF kind \in {"none", "file"}
               THEN <<"done", [realTree EXCEPT ![p] =
                        CASE op = "append" -> [file EXCEPT !.content = Append(@, data), !.mtime = fsCalls]
                          [] op = "write" -> [file EXCEPT !.content = <<data>>, !.mtime = fsCalls]
                          [] OTHER -> file]>>
               ELSE <<Failed, realTree>>
        [] op = "utimes" -> IF kind \in {"file", "dir"} /\ p # <<>>
                              THEN <<"done", IF kind = "file" THEN [realTree EXCEPT ![p].mtime = 0] ELSE realTree>>
                              ELSE <<Failed, realTree>>
        [] OTHER -> <<IF kind \in {"file", "dir"} THEN "done" ELSE Failed, realTree>>

-----------------------------------------------------------------------------
FsOperations == {"mkdir", "mkdirNew", "rmdir", "rmdirForce", "unlink", "append", "write", "touch", "utimes", "read"}
FileSystemsInit ==
  /\ realTree = [p \in TreePaths |-> Nothing] /\ mockTree = realTree
  /\ fsCalls = 0 /\ fsAgreed = <<"done", "done">> /\ fsApart = FALSE

\* Where the two are known to differ: rmdir() of a file, or forced below a directory that does not exist,
\* and touch() of a file that exists, of which fs.promises leaves the date alone.
KnownApart(op, given) ==
  \/ op \in {"rmdir", "rmdirForce"} /\ FollowPath(given) # <<Failed>> /\ KindAt(realTree, FollowPath(given)) = "file"
  \/ op = "rmdirForce" /\ FollowPath(given) = <<Failed>>
  \/ op = "touch" /\ FollowPath(given) # <<Failed>> /\ KindAt(realTree, FollowPath(given)) = "file"
FsCall(op, given, data) ==
  /\ fsCalls < MaxFsCalls /\ ~fsApart /\ fsCalls' = fsCalls + 1
  /\ LET real == RealCall(op, given, data)
         mock == MockCall(op, Normalize(given), data)
     IN  /\ realTree' = real[2] /\ mockTree' = mock[2] /\ fsAgreed' = <<real[1], mock[1]>>
         /\ fsApart' = (real[1] = Failed \/ KnownApart(op, given))
FileSystemsNext ==
  \E op \in FsOperations, given \in GivenPaths :
    \E data \in IF op \in {"append", "write"} THEN Blocks ELSE {"none"} : FsCall(op, given, data)

-----------------------------------------------------------------------------
\* As long as no call fails on the real file system (and but for the three cases of KnownApart), the mock
\* succeeds as well and holds the same directories, files, contents and dates after any sequence of calls:
\* what is tested on the mock holds on the disk (mock/filesystem.js, _toEntry() and the calls built on it).
MockFollows == ~fsApart => (mockTree = realTree /\ fsAgreed[2] = "done")

\* What the mock holds is a tree whatever fails: an entry is in a directory.
MockIsTree == \A p \in TreePaths : mockTree[p] # Nothing => \A q \in Above(p) : mockTree[q].kind = "dir"

-----------------------------------------------------------------------------
(****************************************************************************)
(* The storages of nodejs/db/storage as they are made from a configuration  *)
(* (make_from_config.js), tested (storage.js) and listed page by page while *)
(* entries come and go (disk.js, docker_v2.js, google_cloud_storage.js,     *)
(* webdav.js, CollectionPaging of db/utils.js).                             *)
(*                                                                          *)
(* A directory is a set of names; a name is a number and the servers list   *)
(* in that order.  The registry of docker wants a token, kept in a cache.   *)
(* The registry, the bucket and the WebDAV server are external.             *)
(****************************************************************************)
CONSTANTS
  ListKinds,       \* "disk", "tags", "layers", "bucket", "webdav", "webdav root"
  ListNames,       \* names: positive integers
  ListPage,        \* size of a page
  MaxListChanges,  \* bound: entries created or removed during a listing
  TokenLifetime,   \* expires_in of a token
  MaxListTime,     \* bound: time
  StorageFaults    \* what the storage under test does wrong

ASSUME ListingsAssumption == ListNames \subseteq Nat \ {0} /\ ListPage \in Nat \ {0} /\ TokenLifetime \in Nat

VARIABLES
  listTime,
  listKind,
  present,       \* names in the directory
  listChanges,   \* names created and names removed since the listing began
  cursor,        \* the iteration: its step, the paging of the next page, the names of this page, what was yielded
  token,         \* the cached token: until when the cache gives it, when the registry drops it; the request for one
  tokenRefused,  \* the registry refused a token the cache had given
  making         \* makeFromConfig(): the step, the configuration, the files of the tests, the fault

listingVars == <<listTime, listKind, present, listChanges, cursor, token, tokenRefused>>
storageMakeVars == <<making>>
listingsVars == <<listingVars, storageMakeVars>>

\* The pages of the tags of an image and of a bucket begin after a name, the others at a place of the list.
ByName(kind) == kind \in {"tags", "bucket"}
NoToken == [at |-> "none", until |-> 0, dropped |-> 0, asked |-> 0, issued |-> 0]

-----------------------------------------------------------------------------
(* Pages.                                                                   *)

\* _listLayers(): two entries that are not layers come first.
LayerEntries(names) == <<-1, 0>> \o names
\* _request(): propfind answers with the directory and its entries; the first is dropped by _listImpl(), but the
\* root has no name and was dropped before.
WebdavEntries(names) ==
  LET answered == IF listKind = "webdav root" THEN names ELSE <<0>> \o names
  IN  IF answered = <<>> THEN <<>> ELSE Tail(answered)
\* What a place is counted in.
ListEntries ==
  LET names == SetToSortSeq(present, <)
  IN  CASE listKind = "layers" -> LayerEntries(names)
        [] listKind \in {"webdav", "webdav root"} -> WebdavEntries(names)
        [] OTHER -> names
\* Array.slice().
Sliced(s, from, end) == SubSeq(s, from, Min({end, Len(s)}))
\* makeFromList(): the slice of this page, and whether there is another.
\* Mutant: the next page is number page + 1 of the pages seen so far, the first one being 1.
MakeFromListFrom1(page) ==
  [data |-> Sliced(ListEntries, page * ListPage + 1, (page + 1) * ListPage),
   next |-> IF (page + 1) * ListPage >= Len(ListEntries) THEN -1 ELSE IF page = 0 THEN page + 2 ELSE page + 1]
MakeFromList(page) ==
  [data |-> Sliced(ListEntries, page * ListPage + 1, (page + 1) * ListPage),
   next |-> IF (page + 1) * ListPage >= Len(ListEntries) THEN -1 ELSE page + 1]
\* _listPagination(): n names after the last one; a link in the answer says that there are more.
\* Mutant: the paging is the place of the page.
ListPaginationByPlace(last) == MakeFromList(last)
ListPagination(last) ==
  LET after == SetToSortSeq({n \in present : n > last}, <)
      data == Sliced(after, 1, ListPage)
  IN  [data |-> data, next |-> IF Len(after) > ListPage THEN Last(data) ELSE -1]
PageOf(paging) == IF ByName(listKind) THEN ListPagination(paging) ELSE MakeFromList(paging)

-----------------------------------------------------------------------------
(* The token.                                                               *)

\* The cache keeps a token for its lifetime less twice the time it took to get it.
\* Mutant: for its lifetime.
TokenTimeoutWhole(elapsed) == TokenLifetime
TokenTimeout(elapsed) == TokenLifetime - elapsed * 2
NeedsToken == listKind \in {"tags", "layers"}
TokenCached == token.at = "cached" /\ listTime < token.until
TokenAsked ==
  /\ cursor.at = "page" /\ NeedsToken /\ ~TokenCached /\ token.at \in {"none", "cached"}
  /\ token' = [NoToken EXCEPT !.at = "asked", !.asked = listTime]
  /\ UNCHANGED <<listTime, listKind, present, listChanges, cursor, tokenRefused>>
TokenIssued ==
  /\ token.at = "asked" /\ token' = [token EXCEPT !.at = "issued", !.issued = listTime]
  /\ UNCHANGED <<listTime, listKind, present, listChanges, cursor, tokenRefused>>
TokenArrives ==
  /\ token.at = "issued"
  /\ token' = [token EXCEPT !.at = "cached", !.dropped = token.issued + TokenLifetime,
                            !.until = listTime + TokenTimeout(listTime - token.asked)]
  /\ UNCHANGED <<listTime, listKind, present, listChanges, cursor, tokenRefused>>

-----------------------------------------------------------------------------
(* makeIterator() over list().                                              *)

ListTick ==
  /\ cursor.at # "done" /\ listTime < MaxListTime /\ listTime' = listTime + 1
  /\ UNCHANGED <<listKind, present, listChanges, cursor, token, tokenRefused>>
Changes == Cardinality(listChanges.created) + Cardinality(listChanges.removed)
EntryCreated(n) ==
  /\ cursor.at \in {"page", "metadata"} /\ n \notin present /\ Changes < MaxListChanges
  /\ present' = present \cup {n} /\ listChanges' = [listChanges EXCEPT !.created = @ \cup {n}]
  /\ UNCHANGED <<listTime, listKind, cursor, token, tokenRefused>>
EntryRemoved(n) ==
  /\ cursor.at \in {"page", "metadata"} /\ n \in present /\ Changes < MaxListChanges
  /\ present' = present \ {n} /\ listChanges' = [listChanges EXCEPT !.removed = @ \cup {n}]
  /\ UNCHANGED <<listTime, listKind, cursor, token, tokenRefused>>

AfterPage(page, got) == [at |-> IF page.next = -1 THEN "done" ELSE "page", paging |-> page.next, todo |-> <<>>, got |-> got]
\* A page is asked for; disk.js then reads the metadata of each of its entries.
\* A failing request ends the iteration.
ListPageRead ==
  /\ cursor.at = "page" /\ (NeedsToken => TokenCached)
  /\ LET page == PageOf(cursor.paging)
     IN  cursor' = IF NeedsToken /\ listTime >= token.dropped THEN [cursor EXCEPT !.at = "failed"]
                   ELSE IF listKind = "disk" /\ page.data # <<>>
                     THEN [cursor EXCEPT !.at = "metadata", !.todo = page.data, !.paging = page.next]
                   ELSE AfterPage(page, cursor.got \o page.data)
  /\ tokenRefused' = (NeedsToken /\ listTime >= token.dropped)
  /\ UNCHANGED <<listTime, listKind, present, listChanges, token>>
\* getMetadata(): an entry that is gone fails the whole page.
ListMetadataRead ==
  /\ cursor.at = "metadata"
  /\ LET got == Append(cursor.got, Head(cursor.todo))
     IN  cursor' = IF Head(cursor.todo) \notin present THEN [cursor EXCEPT !.at = "failed"]
                   ELSE IF Len(cursor.todo) > 1 THEN [cursor EXCEPT !.todo = Tail(@), !.got = got]
                   ELSE AfterPage([next |-> cursor.paging], got)
  /\ UNCHANGED <<listTime, listKind, present, listChanges, token, tokenRefused>>

-----------------------------------------------------------------------------
(* makeFromConfig() and runValidationTests().                               *)

NoFiles == [a |-> "none", b |-> "none", c |-> "none", root |-> FALSE]
\* What a write leaves in a file: a faulty storage keeps the former content or forgets a new one.
Wrote(file, content) ==
  CASE making.fault = "overwrite" /\ file # "none" -> file
    [] making.fault = "write" -> "none"
    [] OTHER -> content
\* list(): the names of the files that have a content.
ListedFiles == {f \in {"a", "b", "c"} : making.files[f] # "none" /\ ~(making.fault = "list" /\ f = "b")}
ToTests(pc) == making.made = "no" /\ making.pc = pc
\* validateConfig(), then the storage is made and initialized.
MakeStorage ==
  /\ ToTests("config")
  /\ making' = [making EXCEPT !.pc = IF making.tests THEN "mkdir" ELSE "end",
                              !.made = IF ~making.valid THEN "failed" ELSE IF making.tests THEN "no" ELSE "yes"]
  /\ UNCHANGED listingVars
\* A step of the tests: the next one, or the finally.
Tested(ok, next, files) == making' = [making EXCEPT !.pc = IF ok THEN next ELSE "finally", !.passed = ok, !.files = files]
TestMkdir ==
  /\ ToTests("mkdir") /\ UNCHANGED listingVars
  /\ IF making.fault = "mkdir" THEN Tested(FALSE, "finally", making.files) ELSE Tested(TRUE, "write", [making.files EXCEPT !.root = TRUE])
TestWrite ==
  /\ ToTests("write") /\ UNCHANGED listingVars
  /\ LET files == [making.files EXCEPT !.a = Wrote(@, "first")] IN Tested(files.a = "first", "overwrite", files)
\* Mutant: the new content is not read back.
TestOverwriteUnread ==
  /\ ToTests("overwrite") /\ UNCHANGED listingVars
  /\ Tested(TRUE, "others", [making.files EXCEPT !.a = Wrote(@, "second")])
TestOverwrite ==
  /\ ToTests("overwrite") /\ UNCHANGED listingVars
  /\ LET files == [making.files EXCEPT !.a = Wrote(@, "second")] IN Tested(files.a = "second", "others", files)
TestOthers ==
  /\ ToTests("others") /\ UNCHANGED listingVars
  /\ Tested(TRUE, "list", [making.files EXCEPT !.b = Wrote(@, "first"), !.c = Wrote(@, "first")])
TestList == ToTests("list") /\ UNCHANGED listingVars /\ Tested(ListedFiles = {"a", "b", "c"}, "finally", making.files)
\* Whatever happened the directory is deleted; when that fails its error is the one that is thrown.
\* Mutant: after a test that failed nothing is deleted.
TestFinallyPassed ==
  /\ ToTests("finally") /\ UNCHANGED listingVars
  /\ making' = [making EXCEPT !.pc = "end", !.files = IF making.passed THEN NoFiles ELSE @, !.made = IF making.passed THEN "yes" ELSE "failed"]
TestFinally ==
  /\ ToTests("finally") /\ UNCHANGED listingVars
  /\ making' = [making EXCEPT !.pc = "end", !.files = NoFiles,
                              !.made = IF making.passed /\ making.files.root THEN "yes" ELSE "failed"]

-----------------------------------------------------------------------------
IterationInit ==
  /\ listTime = 0 /\ listKind \in ListKinds /\ present \in SUBSET ListNames
  /\ listChanges = [created |-> {}, removed |-> {}]
  /\ cursor = [at |-> "page", paging |-> 0, todo |-> <<>>, got |-> <<>>]
  /\ token = NoToken /\ tokenRefused = FALSE
  /\ making = [pc |-> "none", made |-> "no", valid |-> TRUE, tests |-> FALSE, fault |-> "none", passed |-> FALSE, files |-> NoFiles]
\* The storage of a configuration is made on its own: nothing is listed.
MakingInit ==
  /\ listTime = 0 /\ listKind = "disk" /\ present = {} /\ listChanges = [created |-> {}, removed |-> {}]
  /\ cursor = [at |-> "done", paging |-> 0, todo |-> <<>>, got |-> <<>>] /\ token = NoToken /\ tokenRefused = FALSE
  /\ making \in [pc : {"config"}, made : {"no"}, valid : BOOLEAN, tests : BOOLEAN, fault : StorageFaults, passed : {FALSE}, files : {NoFiles}]

ListingsInit == IterationInit \/ MakingInit
ListingsNext ==
  \/ (TokenAsked \/ TokenIssued \/ TokenArrives \/ ListTick \/ ListPageRead \/ ListMetadataRead) /\ UNCHANGED storageMakeVars
  \/ (\E n \in ListNames : EntryCreated(n) \/ EntryRemoved(n)) /\ UNCHANGED storageMakeVars
  \/ MakeStorage \/ TestMkdir \/ TestWrite \/ TestOverwrite \/ TestOthers \/ TestList \/ TestFinally

-----------------------------------------------------------------------------
ListCount(n) == Cardinality({i \in DOMAIN cursor.got : cursor.got[i] = n})
\* The names that were there all the time.
Stable == present \ listChanges.created
(****************************************************************************)
(* An iteration that ends has yielded what was there all the time.  Where   *)
(* the next page begins after a name (_listPagination(), the page token of  *)
(* the bucket) each of these names comes once, whatever else comes and      *)
(* goes; where it begins at a place (makeFromList()) none is missed unless  *)
(* another is removed meanwhile, and none comes twice unless another is     *)
(* created.  The root of a WebDAV server is excluded: its first entry is    *)
(* dropped in place of the directory (webdav.js:97).                        *)
(****************************************************************************)
IterationComplete ==
  cursor.at = "done" /\ listKind # "webdav root" =>
    \A n \in Stable :
      /\ ByName(listKind) => ListCount(n) = 1
      /\ listChanges.removed = {} => ListCount(n) >= 1
      /\ listChanges.created = {} => ListCount(n) <= 1

\* The names of an image or a bucket come in order, so that none comes twice even if it is removed and created again.
NamesInOrder == ByName(listKind) => \A i, j \in DOMAIN cursor.got : i < j => cursor.got[i] < cursor.got[j]

\* The registry never refuses a token that the cache still gives: it is kept for less than its lifetime, however
\* long it took to arrive (docker_v2.js:37).
TokenAlive == ~tokenRefused

\* A storage that was asked to be tested is used only if it does what the tests are about.
UsedIsSound == making.made = "yes" /\ making.tests => making.fault = "none"

\* Whatever test failed, the tests leave nothing on the storage.
TestsLeaveNothing == making.pc = "end" => making.files = NoFiles


-----------------------------------------------------------------------------
\* A request on a storage has the effect it was answered with, listings have each entry once, and the
\* two file systems agree.
StoragesSafe ==
  /\ AsAnswered
  /\ MoveKeepsContent
  /\ LockUsable
  /\ ReadIsPrefix
  /\ MockFollows
  /\ MockIsTree
  /\ IterationComplete
  /\ NamesInOrder
  /\ TokenAlive
  /\ UsedIsSound
  /\ TestsLeaveNothing
=============================================================================
