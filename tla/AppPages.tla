------------------------------ MODULE AppPages ------------------------------
(****************************************************************************)
(* Two pages: the player of code examples and the diagram of a BDL          *)
(* composition.                                                             *)
(****************************************************************************)
EXTENDS Integers, FiniteSets, SequencesExt, FiniteSetsExt

(****************************************************************************)
(* The files of the player application: the tree and the selected file in   *)
(* the browser (player/lib/filesystem.js), the editor that saves by itself  *)
(* one second after the last key (player/frontend/editor.vue), the          *)
(* handlers that join them (player/frontend/app.vue) and the disk behind    *)
(* the backend (player/backend/app.js).  Requests take their time and are   *)
(* answered in any order.  What the browser does in one task, rendering and *)
(* watchers included, is one action.                                        *)
(*                                                                          *)
(* A text says in which file it was typed and whether the content of that   *)
(* file was displayed; files are never empty and never equal.               *)
(****************************************************************************)
CONSTANTS
  PlayerFiles,      \* the files of the root folder
  MaxListings,      \* listings of the root that the tree starts when it is mounted
  MaxPlayerTypes,   \* bound: texts typed
  MaxPlayerClicks   \* bound: files clicked

VARIABLES
  fileDisk,       \* the content of each file
  treeGeneration, \* 0 (children is null) or the listing that made the nodes of the tree
  listings,       \* listings on their way
  fileSelected,   \* files.selected: its path, the listing of its node, its content
  editorText,     \* what the editor displays
  editorPath,     \* currentPath of the editor
  editorTimer,    \* updateRequested is set
  fileCalls,      \* requests on their way
  typedLast,      \* reference: the last text typed in each file that has to be kept
  playerSteps     \* what the user did

playerVars == <<fileDisk, treeGeneration, listings, fileSelected, editorText, editorPath, editorTimer, fileCalls,
                typedLast, playerSteps>>

NoFile == "no file"
NoText == [of |-> NoFile, loaded |-> FALSE, n |-> 0]     \* null, and the empty text
TextOf(f, loaded, n) == [of |-> f, loaded |-> loaded, n |-> n]

PlayerInit ==
  /\ fileDisk = [f \in PlayerFiles |-> TextOf(f, TRUE, 0)]
  /\ treeGeneration = 0 /\ listings = MaxListings
  /\ fileSelected = [path |-> NoFile, generation |-> 0, content |-> NoText]
  /\ editorText = NoText /\ editorPath = NoFile /\ editorTimer = FALSE
  /\ fileCalls = {} /\ typedLast = [f \in PlayerFiles |-> NoText]
  /\ playerSteps = [typed |-> 0, clicked |-> 0]

\* saveContent(): the request posts the content.
SaveCall(f, text) == [type |-> "post", file |-> f, text |-> text, at |-> "sent", generation |-> 0]
FetchCall(f, g) == [type |-> "get", file |-> f, text |-> NoText, at |-> "sent", generation |-> g]
OnTheWay(f) == {c \in fileCalls : c.file = f}

-----------------------------------------------------------------------------
(* The watcher of the editor's value: with another path the text that waits *)
(* is saved under the path where it was typed; with the same path it is     *)
(* dropped.  Then the new value is displayed.                               *)

\* Mutant: under the path that is displayed now.
SavedPathDisplayed(f) == f
SavedPath(f) == editorPath
\* Mutant: the text that waits is dropped whenever the value changes.
MustSaveNever(f) == FALSE
MustSave(f) == editorPath # f /\ editorTimer
ValueChanged(f, value, calls) ==
  IF value = fileSelected.content /\ fileSelected.path # NoFile
    THEN fileCalls' = calls /\ UNCHANGED <<editorText, editorPath, editorTimer>>
    ELSE /\ fileCalls' = calls \cup IF MustSave(f) THEN {SaveCall(SavedPath(f), editorText)} ELSE {}
         /\ editorText' = value /\ editorPath' = f /\ editorTimer' = FALSE

-----------------------------------------------------------------------------
\* list(): every listing makes new nodes.
Listed ==
  /\ listings > 0 /\ listings' = listings - 1 /\ treeGeneration' = treeGeneration + 1
  /\ UNCHANGED <<fileDisk, fileSelected, editorText, editorPath, editorTimer, fileCalls, typedLast, playerSteps>>

\* handleTreeSelected(): select(), then fetchContent() unless the content is there.  A node of an
\* earlier listing is another node, and the file is loaded again: what waits in its editor is dropped.
IsSelected(f) == fileSelected.path = f /\ fileSelected.generation = treeGeneration
ClickFile(f) ==
  /\ playerSteps.clicked < MaxPlayerClicks /\ treeGeneration > 0
  /\ playerSteps' = [playerSteps EXCEPT !.clicked = @ + 1]
  /\ fileSelected' = IF IsSelected(f) THEN fileSelected
                     ELSE [path |-> f, generation |-> treeGeneration, content |-> NoText]
  /\ ValueChanged(f, fileSelected'.content,
                  fileCalls \cup IF fileSelected'.content = NoText THEN {FetchCall(f, treeGeneration)} ELSE {})
  /\ typedLast' = IF ~IsSelected(f) /\ fileSelected.path = f THEN [typedLast EXCEPT ![f] = NoText] ELSE typedLast
  /\ UNCHANGED <<fileDisk, treeGeneration, listings>>

\* The backend reads or writes the file (storage.read, storage.writeFromChunk).
ServeFile(c) ==
  /\ c.at = "sent"
  /\ fileDisk' = IF c.type = "post" THEN [fileDisk EXCEPT ![c.file] = c.text] ELSE fileDisk
  /\ fileCalls' = (fileCalls \ {c}) \cup
       {[c EXCEPT !.at = "served", !.text = IF c.type = "get" THEN fileDisk[c.file] ELSE @]}
  /\ UNCHANGED <<treeGeneration, listings, fileSelected, editorText, editorPath, editorTimer, typedLast, playerSteps>>

\* The reply of fetchContent() goes into the node it was called for, which may no longer be the selected
\* one; the one of handleContentUpdate() into the selected file if its path is the one saved.
FetchReplied(c) == c.type = "get" /\ fileSelected.path = c.file /\ fileSelected.generation = c.generation
SaveReplied(c) == c.type = "post" /\ fileSelected.path = c.file
Replied(c) ==
  /\ c.at = "served"
  /\ IF FetchReplied(c) \/ SaveReplied(c)
       THEN /\ fileSelected' = [fileSelected EXCEPT !.content = c.text]
            /\ ValueChanged(c.file, c.text, fileCalls \ {c})
       ELSE fileCalls' = fileCalls \ {c} /\ UNCHANGED <<fileSelected, editorText, editorPath, editorTimer>>
  /\ UNCHANGED <<fileDisk, treeGeneration, listings, typedLast, playerSteps>>

-----------------------------------------------------------------------------
\* handleInput(): the timer starts anew.
TypeText ==
  /\ fileSelected.path # NoFile /\ playerSteps.typed < MaxPlayerTypes
  /\ playerSteps' = [playerSteps EXCEPT !.typed = @ + 1]
  /\ editorText' = TextOf(fileSelected.path, fileSelected.content # NoText, playerSteps'.typed)
  /\ editorTimer' = TRUE
  /\ typedLast' = [typedLast EXCEPT ![fileSelected.path] =
                     IF fileSelected.content # NoText /\ OnTheWay(fileSelected.path) = {} THEN editorText' ELSE NoText]
  /\ UNCHANGED <<fileDisk, treeGeneration, listings, fileSelected, editorPath, fileCalls>>

\* update(), by the timer.
AutoSave ==
  /\ editorTimer /\ editorTimer' = FALSE
  /\ fileCalls' = fileCalls \cup {SaveCall(editorPath, editorText)}
  /\ UNCHANGED <<fileDisk, treeGeneration, listings, fileSelected, editorText, editorPath, typedLast, playerSteps>>

PlayerNext ==
  \/ Listed \/ TypeText \/ AutoSave
  \/ \E f \in PlayerFiles : ClickFile(f)
  \/ \E c \in fileCalls : ServeFile(c) \/ Replied(c)

-----------------------------------------------------------------------------
\* A text that was typed while the content of its file was displayed is never saved under another file,
\* whatever the user clicks while it waits to be saved (editor.vue, update() and the watcher of value).
SavedWhereTyped == \A f \in PlayerFiles : fileDisk[f].loaded => fileDisk[f].of = f

\* The last text typed in a file waits in the editor, is on its way or is on the disk, until another one is
\* typed; it may get lost only when it is typed while a request about the file is on its way, or when the
\* file is clicked again after a second listing of the tree.
LastTypedKept ==
  \A f \in PlayerFiles : typedLast[f] # NoText =>
    \/ fileDisk[f] = typedLast[f]
    \/ editorTimer /\ editorPath = f /\ editorText = typedLast[f]
    \/ \E c \in OnTheWay(f) : c.type = "post" /\ c.text = typedLast[f]

-----------------------------------------------------------------------------
(****************************************************************************)
(* The diagram of a BDL composition: the components of every target become  *)
(* a tree by their names, with the connections and dependencies as edges    *)
(* (bdl_to_elk.js), and what is to be displayed is taken out of it          *)
(* (library.js).  Names are sequences of characters; "." separates their    *)
(* parts.  How it is drawn is left out.                                     *)
(****************************************************************************)
CONSTANT Bdls  \* sequences of targets: their name, elements with name and deps, and ios by name

VARIABLES
  bdls,     \* the targets to come
  bdlTree,     \* the targets that were added
  ios,      \* the ios of their elements, by name
  elk,      \* the graph
  drawn     \* the graph that is drawn

diagramVars == <<bdls, bdlTree, ios, elk, drawn>>
NoGraph == [id |-> <<>>, children |-> <<>>, edges |-> {}, ports |-> {}]

DiagramInit ==
  /\ bdls \in Bdls /\ bdlTree = <<>> /\ ios = {} /\ elk = NoGraph /\ drawn = NoGraph

-----------------------------------------------------------------------------
\* makeTree(): an element is a member of all those whose name its own begins with.
IsMember(list, j, i) == i # j /\ IsPrefix(list[i].fqn, list[j].fqn)
RECURSIVE BdlElement(_, _)
BdlElement(list, i) ==
  LET indices == SelectSeq([j \in DOMAIN list |-> j], LAMBDA j : IsMember(list, j, i))
  IN  [fqn |-> list[i].fqn, deps |-> list[i].deps, members |-> [k \in DOMAIN indices |-> BdlElement(list, indices[k])]]
MakeTree(list) ==
  LET top == SelectSeq([j \in DOMAIN list |-> j], LAMBDA j : \A i \in DOMAIN list : ~IsMember(list, j, i))
  IN  [k \in DOMAIN top |-> BdlElement(list, top[k])]
AddTarget ==
  /\ bdls # <<>> /\ bdls' = Tail(bdls)
  /\ bdlTree' = Append(bdlTree, [fqn |-> bdls[1].target, deps |-> {}, members |-> MakeTree(bdls[1].list)])
  /\ ios' = ios \cup bdls[1].ios
  /\ UNCHANGED <<elk, drawn>>

\* isEdgeKnown()
\* Mutant: one end is enough.
IsEdgeKnownHalf(e, targets) == e.from \in targets \/ e.to \in targets
IsEdgeKnown(e, targets) == e.from \in targets /\ e.to \in targets
\* processComponents(): the edges that were found so far go to the first component that has both
\* ends among its members.
RECURSIVE ProcessComponents(_, _)
ProcessComponents(root, level) ==
  LET component(acc, c) ==
        LET own == {io \in ios : io.fqn = c.fqn}
            members == ProcessComponents(c.members, level + 1)
            deps == members.deps \cup c.deps
            edges == acc.edges \cup members.edges
                       \cup {[from |-> x[1].uid, to |-> x[2], kind |-> "io"] :
                              x \in UNION {{<<io, sink>> : sink \in io.connections} : io \in {i \in own : i.source}}}
                       \cup {[from |-> c.fqn, to |-> d, kind |-> "dependency"] :
                              d \in IF level = 1 THEN {dep \in deps : ~IsPrefix(dep, c.fqn)} ELSE {}}
            inside == {e \in edges : IsEdgeKnown(e, members.targets)}
        IN  [children |-> Append(acc.children, [id |-> c.fqn, children |-> members.children, edges |-> inside, ports |-> {io.uid : io \in own}]),
             edges |-> edges \ inside, deps |-> acc.deps \cup deps,
             targets |-> acc.targets \cup {c.fqn} \cup {io.uid : io \in own} \cup members.targets]
  IN  FoldLeft(component, [children |-> <<>>, edges |-> {}, deps |-> {}, targets |-> {}], root)
ProcessGraph ==
  LET all == ProcessComponents(bdlTree, 0) IN
  /\ bdls = <<>> /\ elk = NoGraph
  /\ elk' = [id |-> <<"r", "o", "o", "t">>, children |-> all.children, edges |-> all.edges, ports |-> {}]
  /\ UNCHANGED <<bdls, bdlTree, ios, drawn>>

-----------------------------------------------------------------------------
\* getNodeIds(): the nodes, with their level, and the edges of a graph.
RECURSIVE NodesOf(_, _)
NodesOf(n, level) ==
  {[node |-> n, level |-> level]} \cup UNION {NodesOf(n.children[i], level + 1) : i \in DOMAIN n.children}
EdgesOf(n) == UNION {m.node.edges : m \in NodesOf(n, 0)}
IdsOfIos(n) == {m.node.id : m \in NodesOf(n, 0)}
PortsOf(n) == UNION {m.node.ports : m \in NodesOf(n, 0)}

\* findClosestNodeFromId(): parts are taken off the end until it is a node.
FindClosest(id) ==
  LET parts == {k \in 1 .. Len(id) : (IF k = Len(id) THEN TRUE ELSE id[k + 1] = ".") /\ SubSeq(id, 1, k) \in IdsOfIos(elk)}
  IN  SubSeq(id, 1, Max(parts))
\* addEdgesToNodeIds()
IosOf(id) ==
  {FindClosest(e.to) : e \in {x \in EdgesOf(elk) : x.kind = "io" /\ FindClosest(x.from) = id}}
    \cup {FindClosest(e.from) : e \in {x \in EdgesOf(elk) : x.kind = "io" /\ FindClosest(x.to) = id}}
\* identifyNodesToShow()
NodesToShow(ignore) ==
  LET kept == {m.node.id : m \in {x \in NodesOf(elk, 0) : x.level = 2 => \A i \in ignore : ~IsPrefix(i, x.node.id)}}
  IN  kept \cup UNION {IosOf(id) : id \in kept}

\* filter(): ids are what has been displayed when the edges of a node are looked at.
\* Used by a mutant: its children come after them.
RECURSIVE FilterEdgesFirst(_, _, _)
FilterEdgesFirst(n, show, ids) ==
  LET own == ids \cup {n.id} \cup n.ports
      child(acc, c) == LET f == FilterEdgesFirst(c, show, acc.ids)
                       IN  [ids |-> f.ids, children |-> Append(acc.children, f.node)]
      all == FoldLeft(child, [ids |-> own, children |-> <<>>], SelectSeq(n.children, LAMBDA c : c.id \in show))
  IN  [ids |-> all.ids, node |-> [n EXCEPT !.children = all.children, !.edges = {e \in @ : e.from \in own /\ e.to \in own}]]
RECURSIVE FilterNodes(_, _, _)
FilterNodes(n, show, ids) ==
  LET child(acc, c) == LET f == FilterNodes(c, show, acc.ids)
                       IN  [ids |-> f.ids, children |-> Append(acc.children, f.node)]
      all == FoldLeft(child, [ids |-> ids \cup {n.id} \cup n.ports, children |-> <<>>], SelectSeq(n.children, LAMBDA c : c.id \in show))
  IN  [ids |-> all.ids, node |-> [n EXCEPT !.children = all.children, !.edges = {e \in @ : e.from \in all.ids /\ e.to \in all.ids}]]
\* Mutant: the edges of a node before its children.
FilterGraphBefore(n, show) == FilterEdgesFirst(n, show, {}).node
FilterGraph(n, show) == FilterNodes(n, show, {}).node
\* render(): all nodes, or without the components of the targets.
RenderGraph(all) ==
  /\ elk # NoGraph /\ drawn' = FilterGraph(elk, NodesToShow(IF all THEN {} ELSE {t.fqn : t \in ToSet(bdlTree)}))
  /\ UNCHANGED <<bdls, bdlTree, ios, elk>>

DiagramNext == AddTarget \/ ProcessGraph \/ \E all \in BOOLEAN : RenderGraph(all)

-----------------------------------------------------------------------------
\* Every edge is at the lowest node that has both ends below it, and an edge that is at the top is in
\* no target: the layout finds its ends (bdl_to_elk.js:122-129, 184-191).
BelowNode(n) == (IdsOfIos(n) \cup PortsOf(n)) \ ({n.id} \cup n.ports)
EdgesLowest ==
  elk # NoGraph => \A m \in NodesOf(elk, 0) : LET n == m.node IN
    \A e \in n.edges :
      /\ m.level > 0 => {e.from, e.to} \subseteq BelowNode(n)
      /\ \A i \in DOMAIN n.children : ~({e.from, e.to} \subseteq BelowNode(n.children[i]))

\* What is drawn has exactly the edges between what is drawn, wherever in the tree they are
\* (library.js:96-124).
DrawnEdgesExact ==
  drawn # NoGraph => EdgesOf(drawn) = {e \in EdgesOf(elk) : {e.from, e.to} \subseteq IdsOfIos(drawn) \cup PortsOf(drawn)}


-----------------------------------------------------------------------------
\* The player saves what was typed, where it was typed; the diagram draws the edges of the composition.
AppPagesSafe ==
  /\ SavedWhereTyped
  /\ LastTypedKept
  /\ EdgesLowest
  /\ DrawnEdgesExact
=============================================================================
