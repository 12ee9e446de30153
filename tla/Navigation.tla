----------------------------- MODULE Navigation -----------------------------
(****************************************************************************)
(* The router, the tree of the file explorer, and the terminal.             *)
(****************************************************************************)
EXTENDS Integers, SequencesExt, FiniteSetsExt

(****************************************************************************)
(* Navigation in the front end: dispatches of vue/router/router.js that     *)
(* overlap, the matching of a path (core/router.js), the check of the       *)
(* session, and the component that shows the route, which may still have to *)
(* be mounted (vue/router/registry.js).  A path is matched by the routes    *)
(* that list it.                                                            *)
(****************************************************************************)
CONSTANTS
  Dispatches,   \* calls of dispatch()
  Tables,       \* the routers in their order: each a sequence of routes
  RoutePaths,   \* paths that are dispatched
  MaxMounts     \* bound: mounts of the component and logouts

\* A route: the paths it matches, its number of variables, whether it needs a session, its redirection.
NoRoute == [paths |-> {}, vars |-> 0, auth |-> FALSE, redirect |-> "none"]
ASSUME RouterAssumption ==
  MaxMounts \in Nat /\ \A i \in DOMAIN Tables : \A j \in DOMAIN Tables[i] : DOMAIN Tables[i][j] = DOMAIN NoRoute

VARIABLES
  current,     \* this.path: the path and whether something of it remains
  calls,       \* a dispatch: pc, the router it is at, its route, whether it is inside another
  mounted,     \* the component of the routes is in the registry
  waiting,     \* dispatches that wait for it, in their order
  loggedIn,    \* there is a session
  displayedRoute,   \* the route that is displayed
  checked,     \* routes whose session was checked
  found,       \* paths and the route that was taken for them
  mounts

routerVars == <<current, calls, mounted, waiting, loggedIn, displayedRoute, checked, found, mounts>>

NoDispatch == [pc |-> "none", at |-> 1, route |-> NoRoute, nested |-> FALSE]

RouterInit ==
  /\ current = [path |-> "none", remains |-> FALSE] /\ calls = [d \in Dispatches |-> NoDispatch]
  /\ mounted = FALSE /\ waiting = <<>> /\ loggedIn = TRUE /\ displayedRoute = NoRoute /\ checked = {} /\ found = {} /\ mounts = 0

-----------------------------------------------------------------------------
(* core/router.js: one expression for all routes of a table; each has as    *)
(* many groups as the one with the most variables and one more.             *)

Groups(table) == Max({table[i].vars : i \in DOMAIN table}) + 1
\* The last group that is set when the i-th route matches.
LastGroup(table, i) == i * Groups(table)
\* Mutant: the groups are counted from 1.
RouteIndexFrom1(table, group) == group \div Groups(table) + 1
RouteIndex(table, group) == (group - 1) \div Groups(table) + 1
Match(table, path) ==
  LET first == SelectInSeq(table, LAMBDA r : path \in r.paths)
  IN  IF first = 0 THEN NoRoute ELSE table[RouteIndex(table, LastGroup(table, first))]

-----------------------------------------------------------------------------
\* reset() of the registry: whoever waits is rejected.
\* Mutant: it is only forgotten.
RejectedForgets == calls
Rejected == [d \in Dispatches |-> IF calls[d].pc = "wait" THEN [calls[d] EXCEPT !.pc = "failed"] ELSE calls[d]]
\* dispatch() until its loop.
Enter(d, path, isNested) ==
  /\ calls' = [Rejected EXCEPT ![d] = [NoDispatch EXCEPT !.pc = "loop", !.nested = isNested]] /\ waiting' = <<>>
  /\ current' = [path |-> path, remains |-> TRUE]
Dispatch(d, path) ==
  /\ calls[d].pc = "none" /\ Enter(d, path, FALSE)
  /\ UNCHANGED <<mounted, loggedIn, displayedRoute, checked, found, mounts>>

\* The next router, with what remains of this.path, whoever set it.
Route(d) ==
  LET c == calls[d]
      route == Match(Tables[c.at], current.path)
  IN  /\ c.pc = "loop" /\ c.at <= Len(Tables) /\ current.remains
      /\ IF route = NoRoute THEN calls' = [calls EXCEPT ![d].at = @ + 1] /\ UNCHANGED <<current, found>>
         ELSE /\ calls' = [calls EXCEPT ![d].route = route, ![d].pc = IF route.auth THEN "check" ELSE "component"]
              /\ current' = [current EXCEPT !.remains = FALSE] /\ found' = found \cup {<<c.at, current.path, route>>}
      /\ UNCHANGED <<mounted, waiting, loggedIn, displayedRoute, checked, mounts>>
\* The end of the loop: the fallback when something remains.
LoopEnds(d) ==
  /\ calls[d].pc = "loop" /\ (IF calls[d].at > Len(Tables) THEN TRUE ELSE ~current.remains)
  /\ calls' = [calls EXCEPT ![d].pc = IF current.remains THEN "component" ELSE "done"]
  /\ UNCHANGED <<current, mounted, waiting, loggedIn, displayedRoute, checked, found, mounts>>

\* assertScopes().
\* Mutant: without a session the callback is called and that is all.
CheckFailsOpen(d) ==
  /\ calls[d].pc = "check" /\ calls' = [calls EXCEPT ![d].pc = "component"]
  /\ checked' = IF loggedIn THEN checked \cup {calls[d].route} ELSE checked
  /\ UNCHANGED <<current, mounted, waiting, loggedIn, displayedRoute, found, mounts>>
Check(d) ==
  /\ calls[d].pc = "check"
  /\ calls' = [calls EXCEPT ![d].pc = IF loggedIn THEN "component" ELSE "failed"]
  /\ checked' = IF loggedIn THEN checked \cup {calls[d].route} ELSE checked
  /\ UNCHANGED <<current, mounted, waiting, loggedIn, displayedRoute, found, mounts>>

\* setComponent(): at once, or after waitFor().
Component(d) ==
  /\ calls[d].pc = "component"
  /\ IF mounted THEN displayedRoute' = calls[d].route /\ calls' = [calls EXCEPT ![d].pc = "shown"] /\ UNCHANGED waiting
     ELSE calls' = [calls EXCEPT ![d].pc = "wait"] /\ waiting' = Append(waiting, d) /\ UNCHANGED displayedRoute
  /\ UNCHANGED <<current, mounted, loggedIn, checked, found, mounts>>
\* register() resolves those that wait, in their order, and they set the component before anything else happens.
Mount ==
  LET last == calls[Last(waiting)].route IN
  /\ ~mounted /\ mounts < MaxMounts /\ mounts' = mounts + 1 /\ mounted' = TRUE /\ waiting' = <<>>
  /\ calls' = [d \in Dispatches |-> IF d \in ToSet(waiting) THEN [calls[d] EXCEPT !.pc = "shown"] ELSE calls[d]]
  /\ displayedRoute' = IF waiting = <<>> THEN NoRoute ELSE last
  /\ UNCHANGED <<current, loggedIn, checked, found>>
Unmount ==
  /\ mounted /\ mounted' = FALSE /\ displayedRoute' = NoRoute
  /\ UNCHANGED <<current, calls, waiting, loggedIn, checked, found, mounts>>
Logout ==
  /\ loggedIn /\ mounts < MaxMounts /\ mounts' = mounts + 1 /\ loggedIn' = FALSE
  /\ UNCHANGED <<current, calls, mounted, waiting, displayedRoute, checked, found>>

\* After the component: the redirection, which is a dispatch of its own; then the outer one ends.
Redirect(d) ==
  /\ calls[d].pc = "shown" /\ calls[d].route.redirect # "none" /\ ~calls[d].nested
  /\ Enter(d, calls[d].route.redirect, TRUE)
  /\ UNCHANGED <<mounted, loggedIn, displayedRoute, checked, found, mounts>>
Return(d) ==
  /\ calls[d].pc = "shown" /\ (IF calls[d].route.redirect = "none" THEN TRUE ELSE calls[d].nested)
  /\ calls' = [calls EXCEPT ![d].pc = "done"]
  /\ current' = IF calls[d].route # NoRoute \/ calls[d].nested THEN [current EXCEPT !.remains = FALSE] ELSE current
  /\ UNCHANGED <<mounted, waiting, loggedIn, displayedRoute, checked, found, mounts>>

RouterStep(d) == Route(d) \/ LoopEnds(d) \/ Check(d) \/ Component(d) \/ Redirect(d) \/ Return(d)
RouterNext ==
  \/ \E d \in Dispatches : (\E p \in RoutePaths : Dispatch(d, p)) \/ RouterStep(d)
  \/ Mount \/ Unmount \/ Logout

-----------------------------------------------------------------------------
\* A route that needs a session is displayed only after a check that found one, whatever overlaps.
ShownIsChecked == displayedRoute.auth => displayedRoute \in checked

\* Every dispatch that waits for a component will hear from the registry (registry.js:13-52).
WaitersKnown == \A d \in Dispatches : calls[d].pc = "wait" <=> d \in ToSet(waiting)

\* The groups of the expression lead to the first route of the table that matches (core/router.js:54-61).
FirstRouteTaken == \A f \in found :
  LET table == Tables[f[1]]
  IN  \E i \in DOMAIN table : table[i] = f[3] /\ f[2] \in table[i].paths /\ \A j \in 1 .. i - 1 : f[2] \notin table[j].paths

\* "Clear current actions if any." (router.js:202): what is displayed is the path that was dispatched last.
\* Not satisfied: overlapping dispatches share this.path (router.js:204-216).
NewestShown ==
  mounted /\ displayedRoute # NoRoute /\ (\A d \in Dispatches : calls[d].pc \in {"none", "done"}) => current.path \in displayedRoute.paths

-----------------------------------------------------------------------------
(****************************************************************************)
(* The tree of the file explorer (file_explorer/tree.vue): one component    *)
(* per directory that is open.  It fetches what is in its directory when it *)
(* is mounted and then again and again, opens what is on the path to show   *)
(* and what is clicked, and its directories are components below it.        *)
(****************************************************************************)
CONSTANTS
  ExplorerPaths,      \* the entries that the storage may have: sequences of names
  TreeFiles,      \* those that are files: they cannot be listed
  LockedPaths,    \* those that the user is not authorized for
  BeginsWith,     \* pairs of different names, the text of the first begins with the second
  ShowPaths,      \* the paths that are shown
  MaxTreeChanges, \* changes of the storage
  MaxTreeClicks,
  MaxShows

VARIABLES
  treeExisting,    \* entries of the storage
  showPath,    \* the path to show
  treeNodes,       \* the components that are mounted, by their path
  givenPath,       \* whether the path to show is given, or is the entry that was clicked last
  refreshes,   \* whether refreshPeriodS is given
  treeEvents,      \* "item" events at the top: what was clicked, and the path that came
  closedPaths,      \* history: entries closed by a click since the path was given
  treeCount    \* changes, clicks and shows

treeVars == <<treeExisting, givenPath, showPath, treeNodes, refreshes, treeEvents, closedPaths, treeCount>>

ParentPath(p) == SubSeq(p, 1, Len(p) - 1)
IsPermissionList(p) == p \notin TreeFiles
IsAuthorized(p) == p \notin LockedPaths

\* data and mounted(): it is loading.
TreeMounted == [list |-> {}, expanded |-> {}, fetching |-> TRUE, timer |-> FALSE, loading |-> TRUE]
\* The template: the components that are there, a new one for a directory that has just been opened.
IsOpened(ns, p) ==
  /\ ParentPath(p) \in DOMAIN ns /\ ~ns[ParentPath(p)].loading /\ Last(p) \in ns[ParentPath(p)].list \cap ns[ParentPath(p)].expanded
  /\ IsAuthorized(p)
TreeRendered(ns) ==
  LET there(p) == \A k \in 1 .. Len(p) : IsOpened(ns, SubSeq(p, 1, k))
  IN  [p \in {q \in ExplorerPaths \cup {<<>>} : there(q)} |-> IF p \in DOMAIN ns THEN ns[p] ELSE TreeMounted]

\* nameToExpand(): the texts of the paths are compared.
PathStartsWith(path, p) ==
  /\ Len(p) <= Len(path)
  /\ Len(p) > 0 => ParentPath(p) = SubSeq(path, 1, Len(p) - 1) /\ (IF Last(p) = path[Len(p)] THEN TRUE ELSE <<path[Len(p)], Last(p)>> \in BeginsWith)
NamesToExpand(path, p) == IF PathStartsWith(path, p) /\ Len(path) > Len(p) THEN {path[Len(p) + 1]} ELSE {}
\* updateExpand(): when it is in the list and can be listed.
UpdateExpand(node, p, path) ==
  [node EXCEPT !.expanded = @ \cup {n \in NamesToExpand(path, p) \cap node.list : IsPermissionList(Append(p, n))}]

TreeInit ==
  /\ treeExisting \in {ExplorerPaths, {p \in ExplorerPaths : Len(p) = 1}} /\ refreshes \in BOOLEAN
  /\ givenPath \in BOOLEAN /\ showPath \in IF givenPath THEN ShowPaths ELSE {<<>>}
  /\ treeNodes = (<<>> :> TreeMounted) /\ treeEvents = {} /\ closedPaths = {} /\ treeCount = [changes |-> 0, clicks |-> 0, shows |-> 0]

-----------------------------------------------------------------------------
\* fetchPath(): what is there is listed, or the error is told; then the timer is set.
TreeEntries(p) == {Last(q) : q \in {r \in treeExisting : Len(r) = Len(p) + 1 /\ ParentPath(r) = p}}
\* Mutant: before the list is there.
ListedFirst(node, p) == [UpdateExpand(node, p, showPath) EXCEPT !.list = TreeEntries(p)]
ListedNow(node, p) == UpdateExpand([node EXCEPT !.list = TreeEntries(p)], p, showPath)
\* Mutant: when nothing failed.
AfterFetchListed(node, failed) ==
  [node EXCEPT !.fetching = FALSE, !.loading = FALSE, !.timer = refreshes /\ ~failed]
AfterFetch(node, failed) == [node EXCEPT !.fetching = FALSE, !.loading = FALSE, !.timer = refreshes]
DirFetched(p, failed) ==
  /\ treeNodes[p].fetching /\ (p = <<>> \/ p \in treeExisting \/ failed)
  /\ treeNodes' = TreeRendered([treeNodes EXCEPT ![p] = AfterFetch(IF failed THEN @ ELSE ListedNow(@, p), failed)])
  /\ UNCHANGED <<treeExisting, givenPath, showPath, refreshes, treeEvents, closedPaths, treeCount>>
\* The timer: fetchPath() again, without the sign that it is loading.
DirRefresh(p) ==
  /\ treeNodes[p].timer /\ ~treeNodes[p].fetching /\ treeNodes' = [treeNodes EXCEPT ![p].fetching = TRUE, ![p].timer = FALSE]
  /\ UNCHANGED <<treeExisting, givenPath, showPath, refreshes, treeEvents, closedPaths, treeCount>>

\* handleItemPropagation(): every component above adds its name, up to the top.
\* Mutant: at the end.
PropagatedLast(p) == FoldRight(LAMBDA n, path : Append(path, n), p, <<>>)
Propagated(p) == FoldRight(LAMBDA n, path : <<n>> \o path, p, <<>>)
\* handleItem(): what is clicked is shown, when no path is given.
ShownAfter(path) == IF givenPath THEN showPath ELSE path
\* handleSelect(): closes, or tells of the entry and opens it.
HandleSelect(p, name) ==
  LET item == Append(p, name)
      path == ShownAfter(Append(Propagated(p), name))
      opened == IF IsPermissionList(item) THEN [treeNodes EXCEPT ![p].expanded = @ \cup {name}] ELSE treeNodes IN
  /\ name \in treeNodes[p].list /\ ~treeNodes[p].loading /\ IsAuthorized(item)
  /\ treeCount.clicks < MaxTreeClicks /\ treeCount' = [treeCount EXCEPT !.clicks = @ + 1]
  /\ IF name \in treeNodes[p].expanded
     THEN /\ treeNodes' = TreeRendered([treeNodes EXCEPT ![p].expanded = @ \ {name}])
          /\ closedPaths' = closedPaths \cup {item} /\ UNCHANGED <<showPath, treeEvents>>
     ELSE /\ showPath' = path /\ closedPaths' = IF givenPath THEN closedPaths ELSE {}
          /\ treeNodes' = TreeRendered(IF givenPath THEN opened ELSE [q \in DOMAIN opened |-> UpdateExpand(opened[q], q, path)])
          /\ treeEvents' = treeEvents \cup {<<item, Append(Propagated(p), name)>>}
  /\ UNCHANGED <<treeExisting, givenPath, refreshes>>
\* refresh() of the file explorer: another tree.
RefreshAll ==
  /\ treeNodes' = (<<>> :> TreeMounted) /\ closedPaths' = {}
  /\ treeCount.clicks < MaxTreeClicks /\ treeCount' = [treeCount EXCEPT !.clicks = @ + 1]
  /\ UNCHANGED <<treeExisting, givenPath, showPath, refreshes, treeEvents>>
\* The watcher of the path to show, in every component.
ShowGiven(path) ==
  /\ givenPath /\ path # showPath /\ showPath' = path /\ closedPaths' = {}
  /\ treeCount.shows < MaxShows /\ treeCount' = [treeCount EXCEPT !.shows = @ + 1]
  /\ treeNodes' = TreeRendered([p \in DOMAIN treeNodes |-> UpdateExpand(treeNodes[p], p, path)])
  /\ UNCHANGED <<treeExisting, givenPath, refreshes, treeEvents>>
\* The storage: an entry comes, or goes with what is below it.
StorageChanges(p) ==
  /\ treeExisting' = IF p \in treeExisting THEN {q \in treeExisting : ~IsPrefix(p, q)} ELSE treeExisting \cup {p}
  /\ p \notin treeExisting /\ Len(p) > 1 => ParentPath(p) \in treeExisting
  /\ treeCount.changes < MaxTreeChanges /\ treeCount' = [treeCount EXCEPT !.changes = @ + 1]
  /\ UNCHANGED <<givenPath, showPath, treeNodes, refreshes, treeEvents, closedPaths>>

TreeNext ==
  \/ \E p \in DOMAIN treeNodes : \/ \E failed \in BOOLEAN : DirFetched(p, failed)
                             \/ DirRefresh(p)
                             \/ \E name \in treeNodes[p].list : HandleSelect(p, name)
  \/ RefreshAll
  \/ \E path \in ShowPaths : ShowGiven(path)
  \/ \E p \in ExplorerPaths : StorageChanges(p)

-----------------------------------------------------------------------------
\* Every directory of the path to show that is listed is open, unless it was closed by a click,
\* in whatever order the path and the lists come (tree.vue:82-98, 143-157, 189-196).
PathRevealed ==
  \A k \in 1 .. Len(showPath) : LET q == SubSeq(showPath, 1, k) IN
    (ParentPath(q) \in DOMAIN treeNodes /\ Last(q) \in treeNodes[ParentPath(q)].list /\ IsPermissionList(q) /\ q \notin closedPaths)
      => Last(q) \in treeNodes[ParentPath(q)].expanded

\* The directories that are displayed are fetched again for as long as they are, also after an error
\* (tree.vue:140-167).
RefreshGoesOn == refreshes => \A p \in DOMAIN treeNodes : treeNodes[p].fetching \/ treeNodes[p].timer

\* The event of a click that comes out of the tree has the path of the entry, at every depth
\* (tree.vue:201-218).
EventPathExact == \A e \in treeEvents : e[1] = e[2]

-----------------------------------------------------------------------------
(****************************************************************************)
(* A terminal in the browser: the output of a command, which the backend    *)
(* keeps and sends in chunks (terminal/backend/base.js), and the screen     *)
(* that makes of it (frontend/websocket.vue, frontend/vt100.vue).  Chunks   *)
(* end anywhere, also in a control sequence, except after its first         *)
(* character, which is shown when its chunk ends there.  Styles and the     *)
(* sequences without an effect on the text are left out.                    *)
(****************************************************************************)
CONSTANTS
  Outputs,        \* what the command may print: sequences of characters
  MaxOutputSize,  \* characters that the backend keeps
  ScreenWidth     \* columns of the terminal

ASSUME TerminalAssumption == MaxOutputSize \in Nat \ {0} /\ ScreenWidth \in Nat \ {0}

VARIABLES
  output,        \* what the command prints
  printed,       \* how many characters it has printed
  chunks,        \* all chunks it printed
  outputs,       \* the chunks that the backend keeps
  outputSize,    \* their size as counted
  joinedAt,      \* where the output starts for the viewer, -1: not connected
  stream,        \* chunks that the viewer has not processed
  screen,        \* content, cursor and mode of the screen
  remainder,     \* a control sequence whose end has not come
  processed      \* what the viewer has processed

terminalVars == <<output, printed, chunks, outputs, outputSize, joinedAt, stream, screen, remainder, processed>>

EmptyScreen == [content |-> <<>>, x |-> 0, y |-> 0, insertMode |-> FALSE]

TerminalInit ==
  /\ output \in Outputs /\ printed = 0 /\ chunks = <<>> /\ outputs = <<>> /\ outputSize = 0
  /\ joinedAt = -1 /\ stream = <<>> /\ screen = EmptyScreen /\ remainder = <<>> /\ processed = <<>>

-----------------------------------------------------------------------------
(* The screen; x and y count from 0.                                        *)

Digit == [c \in {"1", "2", "4"} |-> CASE c = "1" -> 1 [] c = "2" -> 2 [] c = "4" -> 4]
AtLeast0(n) == IF n < 0 THEN 0 ELSE n
Fill(row, n) == [i \in 1 .. (IF n > Len(row) THEN n ELSE Len(row)) |-> IF i <= Len(row) THEN row[i] ELSE " "]
Cut(row, n) == SubSeq(row, 1, IF n < Len(row) THEN n ELSE Len(row))

\* The start of write(): the line of the cursor exists and reaches it.
Padded(s) ==
  LET rows == [i \in 1 .. (IF s.y + 1 > Len(s.content) THEN s.y + 1 ELSE Len(s.content)) |->
                 IF i <= Len(s.content) THEN s.content[i] ELSE <<>>]
  IN  [s EXCEPT !.content = [rows EXCEPT ![s.y + 1] = Fill(@, s.x)]]

\* write() of a character.
WriteOutput(s, c) ==
  Padded(CASE c = "nl" -> [s EXCEPT !.y = @ + 1, !.x = 0]
           [] c = "cr" -> [s EXCEPT !.x = 0, !.y = IF s.x = ScreenWidth + 1 THEN @ + 1 ELSE @]
           [] c = "bs" -> [s EXCEPT !.x = AtLeast0(@ - 1)]
           [] OTHER    -> [s EXCEPT !.x = @ + 1, !.content[s.y + 1] =
                             IF s.insertMode \/ s.x = Len(@) THEN InsertAt(@, s.x + 1, c) ELSE ReplaceAt(@, s.x + 1, c)])

\* eraseLine() and eraseScreen().
EraseLine(s, n) ==
  CASE n <= 0 -> [s EXCEPT !.content[s.y + 1] = Cut(@, s.x)]
    [] n = 1  -> [s EXCEPT !.content[s.y + 1] = [i \in DOMAIN @ |-> IF i <= s.x THEN " " ELSE @[i]]]
    [] OTHER  -> [s EXCEPT !.content[s.y + 1] = <<>>]
EraseScreen(s, n) ==
  CASE n <= 0 -> [EraseLine(s, 0) EXCEPT !.content = Cut(@, s.y)]
    [] n = 1  -> [EraseLine(s, 1) EXCEPT !.content = SubSeq(@, s.y + 1, Len(@))]
    [] OTHER  -> [s EXCEPT !.content = <<>>]

\* The control sequence with the argument n, -1 when there is none, that ends in f.
Control(s, n, f) ==
  LET some == IF n = -1 THEN 1 ELSE n IN
  CASE f = "A" -> [s EXCEPT !.y = AtLeast0(@ - some)]
    [] f = "B" -> [s EXCEPT !.y = @ + some]
    [] f = "C" -> [s EXCEPT !.x = @ + some]
    [] f = "D" -> [s EXCEPT !.x = AtLeast0(@ - some)]
    [] f = "E" -> [s EXCEPT !.y = @ + some, !.x = 0]
    [] f = "F" -> [s EXCEPT !.y = AtLeast0(@ - some), !.x = 0]
    [] f = "G" -> [s EXCEPT !.x = n]
    [] f = "H" -> [s EXCEPT !.x = 0, !.y = AtLeast0(n)]
    [] f = "J" -> EraseScreen(s, n)
    [] f = "K" -> EraseLine(s, n)
    [] f = "P" -> [s EXCEPT !.content[s.y + 1] = Cut(@, s.x) \o SubSeq(@, s.x + some + 1, Len(@))]
    [] f = "X" -> [s EXCEPT !.content[s.y + 1] = [i \in DOMAIN Fill(@, s.x + some) |->
                     IF i \in s.x + 1 .. s.x + some THEN " " ELSE @[i]]]
    [] f = "@" -> [s EXCEPT !.content[s.y + 1] = Cut(@, s.x) \o [i \in 1 .. some |-> "unstyled"] \o SubSeq(@, s.x + 1, Len(@))]
    [] f = "h" -> [s EXCEPT !.insertMode = @ \/ n = 4]
    [] f = "l" -> [s EXCEPT !.insertMode = @ /\ n # 4]
    [] OTHER   -> s

\* process(): p.pending is what may become a control sequence.  What write() adds for the cursor
\* is there before the next control sequence and at the end.
Parse(p, c) ==
  CASE c = "esc" /\ Len(p.pending) = 0 -> [p EXCEPT !.pending = <<c>>]
    [] Len(p.pending) = 0              -> [p EXCEPT !.s = WriteOutput(Padded(@), c)]
    [] Len(p.pending) = 1              -> IF c = "[" THEN [p EXCEPT !.pending = Append(@, c)]
                                          ELSE [p EXCEPT !.s = WriteOutput(WriteOutput(Padded(@), "esc"), c), !.pending = <<>>]
    [] c \in DOMAIN Digit              -> [p EXCEPT !.pending = Append(@, c)]
    [] OTHER -> [p EXCEPT !.s = Padded(Control(Padded(@), IF Len(p.pending) = 2 THEN -1 ELSE Digit[Last(p.pending)], c)), !.pending = <<>>]
\* Mutant: what is not finished is dropped.
ProcessDrops(s, chars) ==
  [FoldLeft(Parse, [s |-> Padded(s), pending |-> <<>>], chars) EXCEPT !.pending = <<>>]
Process(s, chars) ==
  LET p == FoldLeft(Parse, [s |-> Padded(s), pending |-> <<>>], chars)
  IN  IF Len(p.pending) = 1 THEN [s |-> WriteOutput(p.s, "esc"), pending |-> <<>>] ELSE p
\* The blank for the cursor.
WithCursor(s) == [s EXCEPT !.content[s.y + 1] = Fill(@, s.x + 1)]

-----------------------------------------------------------------------------
\* "output" of the command: the backend keeps the last chunks.
\* Mutant: what is removed is not counted.
KeptUncounted(kept, size) ==
  LET n == Min({i \in 0 .. Len(kept) : i = Len(kept) \/ size <= MaxOutputSize})
  IN  [kept |-> SubSeq(kept, n + 1, Len(kept)), size |-> size]
Kept(kept, size) ==
  LET sizeAfter(i) == size - Len(FlattenSeq(SubSeq(kept, 1, i)))
      n == Min({i \in 0 .. Len(kept) : sizeAfter(i) <= MaxOutputSize})
  IN  [kept |-> SubSeq(kept, n + 1, Len(kept)), size |-> sizeAfter(n)]
Prints(n) ==
  LET chunk == SubSeq(output, printed + 1, n)
      k == Kept(Append(outputs, chunk), outputSize + Len(chunk))
  IN  /\ n \in printed + 1 .. Len(output) /\ output[n] # "esc" /\ printed' = n
      /\ chunks' = Append(chunks, chunk) /\ outputs' = k.kept /\ outputSize' = k.size
      /\ stream' = IF joinedAt = -1 THEN stream ELSE Append(stream, chunk)
      /\ UNCHANGED <<output, joinedAt, screen, remainder, processed>>
\* installWebsocketForOutput(): what is kept is sent, then what comes.
\* Mutant: only what comes.
JoinLive ==
  /\ joinedAt = -1 /\ joinedAt' = printed - Len(FlattenSeq(outputs)) /\ stream' = <<>>
  /\ UNCHANGED <<output, printed, chunks, outputs, outputSize, screen, remainder, processed>>
Join ==
  /\ joinedAt = -1 /\ joinedAt' = printed - Len(FlattenSeq(outputs)) /\ stream' = outputs
  /\ UNCHANGED <<output, printed, chunks, outputs, outputSize, screen, remainder, processed>>
\* The watcher of the stream: all chunks that have come, after what remained.
Watch(n) ==
  LET chars == FlattenSeq(SubSeq(stream, 1, n))
      p == Process(screen, remainder \o chars)
  IN  /\ n \in 1 .. Len(stream) /\ stream' = SubSeq(stream, n + 1, Len(stream))
      /\ screen' = WithCursor(p.s) /\ remainder' = p.pending /\ processed' = processed \o chars
      /\ UNCHANGED <<output, printed, chunks, outputs, outputSize, joinedAt>>

TerminalNext ==
  \/ \E n \in 1 .. Len(output) : Prints(n)
  \/ Join
  \/ \E n \in 1 .. Len(stream) : Watch(n)

-----------------------------------------------------------------------------
\* The backend keeps the longest end of the output, in whole chunks, that fits (base.js:28-35).
LastChunksKept ==
  /\ IsSuffix(outputs, chunks) /\ Len(FlattenSeq(outputs)) <= MaxOutputSize
  /\ Len(outputs) < Len(chunks) => Len(FlattenSeq(LET n == Len(chunks) - Len(outputs) IN SubSeq(chunks, n, Len(chunks)))) > MaxOutputSize

\* A viewer that comes late gets the output without a hole and without repetition (base.js:93-104).
ViewerGetsAll == joinedAt # -1 => processed \o FlattenSeq(stream) = SubSeq(output, joinedAt + 1, printed)

\* How the output is cut in chunks, and how many chunks are processed at once, does not change what
\* is shown, apart from the blanks at the end of the lines (vt100.vue:76-81, 468-507).
Shown(s) == [i \in DOMAIN s.content |->
  Cut(s.content[i], Max({0} \cup {j \in DOMAIN s.content[i] : s.content[i][j] # " "}))]
ChunksInvisible ==
  processed # <<>> => LET whole == WithCursor(Process(EmptyScreen, processed).s)
                      IN  Shown(screen) = Shown(whole) /\ screen.x = whole.x /\ screen.y = whole.y

\* Every cell can be drawn: "Unsupported predefined style '{}'." is unreachable (vt100.vue:200).
\* Not satisfied: the cells that CSI @ inserts have no style (vt100.vue:383).
CellsDrawable == \A i \in DOMAIN screen.content : \A j \in DOMAIN screen.content[i] : screen.content[i][j] # "unstyled"


-----------------------------------------------------------------------------
\* The router displays checked routes, the tree reveals its path and goes on refreshing, and the
\* terminal shows the same however its input is cut into chunks.
NavigationSafe ==
  /\ LastChunksKept
  /\ ViewerGetsAll
  /\ ChunksInvisible
  /\ ShownIsChecked
  /\ WaitersKnown
  /\ FirstRouteTaken
  /\ PathRevealed
  /\ RefreshGoesOn
  /\ EventPathExact
=============================================================================
