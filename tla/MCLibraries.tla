---------------------------- MODULE MCLibraries -----------------------------
(***************************************************************************)
(* The libraries below the applications (src/nodejs): the storages and databases, *)
(* the HTTP client, validation, and the components of the pages, one at a time. *)
(* A page has one thread; what interleaves are the events of its user, its timers *)
(* and the answers of the server.                                           *)
(***************************************************************************)
EXTENDS Databases, Storages, HttpClient, Values, FormElements, Interactions, Navigation, TLC

VARIABLE librariesSubject  \* the part that is checked: the others do not move

\* FileSystems
MCGivenPaths == {<<"x">>, <<"y">>, <<"x", "x">>, <<"x", "y">>, <<"x", "..", "y">>, <<"y", "..", "x", "y">>}

\* HttpClient
MCCallKinds ==
  {[type |-> "json", auth |-> FALSE, expect |-> "stream"], [type |-> "form", auth |-> FALSE, expect |-> "json"],
   [type |-> "query", auth |-> TRUE, expect |-> "json"]}

\* Validation
AConstraint(n, x) == [name |-> n, args |-> x]
Constraints == {AConstraint("mandatory", 0), AConstraint("type", "integer"), AConstraint("type", "boolean"),
                AConstraint("min", 2), AConstraint("values", 2), AConstraint("same", "b")}
MCLists == {<<>>} \cup {<<c>> : c \in Constraints} \cup {<<c, d>> : c \in {x \in Constraints : x.name # "type"}, d \in Constraints}
MCOtherLists == {<<>>, <<AConstraint("type", "integer")>>, <<AConstraint("mandatory", 0), AConstraint("min", 1)>>}
JsInteger(n) == [js |-> "integer", v |-> n]
JsText(t) == [js |-> "text", v |-> t]
JsObject(f) == [js |-> "object", v |-> f]
MCInputs == {Absent, Undefined, JsInteger(2), JsInteger(1), [js |-> "digits", v |-> 2], [js |-> "digits", v |-> 10], JsText("x"),
             [js |-> "boolean", v |-> TRUE], [js |-> "truth", v |-> TRUE]}
SmallInteger == [type |-> {"integer"}, minimum |-> 1]
ListNode == [type |-> {"object"}, properties |-> [x |-> SmallInteger, next |-> [ref |-> "#"]], required |-> {"x"}, additional |-> <<>>]
MCSchemas ==
  {ListNode,
   [type |-> {"object"}, required |-> {"x"}, properties |-> [x |-> [type |-> {"integer", "string"}], next |-> [ref |-> "d"]], defs |-> [d |-> ListNode]],
   [type |-> {"object"}, properties |-> [x |-> SmallInteger], anyOf |-> {[required |-> {"x"}], [required |-> {"next"}]}],
   [type |-> {"array"}, items |-> SmallInteger], [type |-> {"object"}, allOf |-> <<[required |-> {"x"}], [properties |-> [x |-> SmallInteger]]>>],
   [type |-> {"object"}, additional |-> <<SmallInteger>>], [type |-> {"integer"}, anyOf |-> {[minimum |-> 1], [maximum |-> 0]}],
   [type |-> {"string"}, enum |-> {"x"}]}
FlatValues == {JsObject(<<>>), JsObject([x |-> JsInteger(1)]), JsObject([x |-> JsInteger(0)]), JsObject([x |-> JsText("x")]),
               JsInteger(0), JsInteger(1), JsText("x"), JsText("y")}
MCValues ==
  FlatValues \cup {JsObject([next |-> a]) : a \in FlatValues} \cup {JsObject([x |-> b, next |-> a]) : a \in FlatValues, b \in FlatValues}
    \cup {[js |-> "array", v |-> <<a, b>>] : a, b \in FlatValues} \cup {[js |-> "boolean", v |-> TRUE]}

\* Formatting
MCUnits ==
  {[base |-> b, prefix |-> p, n |-> n, d |-> d] :
     b \in {"time"}, p \in {"ys", "us", "ms", "s", "min", "h", "d"}, n \in {0, 1, 9, 59, 60, 61, 1440, 3601, 90000}, d \in {1, 7, 1000}} \cup
  {[base |-> b, prefix |-> p, n |-> n, d |-> d] :
     b \in {"g"}, p \in {"y", "m", "c", "", "h", "k", "Y"}, n \in {0, 1, 9, 10, 11, 1001, 99999}, d \in {1, 7, 1000}} \cup
  {[base |-> b, prefix |-> p, n |-> n, d |-> d] :
     b \in {"Hz", "By"}, p \in {""}, n \in {0, 1, 999, 1000, 1024, 1025, 2000000}, d \in {1, 3}} \cup
  {[base |-> "By", prefix |-> p, n |-> n, d |-> 1024] : p \in {"Ki", "Ti"}, n \in {1, 2000, 3000000}}
Leaves == {Number(<<"1", "2">>), Text(<<>>), Text(<<"a", "b", "c">>)}
Level1 == Leaves \cup {ListOf(t, s) : t \in {"array", "set"}, s \in {<<>>} \cup {<<l>> : l \in Leaves} \cup
                         {<<Number(<<"1", "2">>), Text(<<"a", "b", "c">>)>>}}
         \cup {DictOf(<<<<"k">>>>, <<l>>) : l \in Leaves}
Level2 == Level1 \cup {ListOf("array", <<x, y>>) : x \in Level1, y \in Leaves} \cup
          {DictOf(<<<<"k">>, <<"a", "b">>>>, <<x, y>>) : x \in Level1, y \in {Number(<<"3">>)}}
MCDumps == {[item |-> i, size |-> s] : i \in Level2, s \in 1 .. 16}
Level2e == Leaves \cup {ListOf(t, s) : t \in {"array", "set"}, s \in {<<>>, <<Number(<<"1">>)>>, <<Number(<<"1">>), Number(<<"2">>)>>, <<Number(<<"2">>), Number(<<"1">>)>>}}
MCEquals == {[left |-> x, right |-> y] : x, y \in Level2e \cup {ListOf("array", <<x>>) : x \in Level2e} \cup {DictOf(<<<<"k">>>>, <<x>>) : x \in Level2e}}

\* Dropdown
MCListWords == UNION {[1 .. n -> {"a", "b"}] : n \in 1 .. 3}
MCDropItems == {<<"x">>}
MCTexts == {<<>>, <<"a","b">>}

\* Widgets
MCSlides == <<"s1", "s2", "s3">>
MCFirstDays == {[m |-> 1, d |-> 31], [m |-> 2, d |-> 5], [m |-> 6, d |-> 28]}

\* Touch
MCFirstItems == <<"a", "b">>

\* VueRouter
ARoute(ps, vars, auth, redirect) == [paths |-> ps, vars |-> vars, auth |-> auth, redirect |-> redirect]
MCTables ==
  << <<ARoute({"/a"}, 0, FALSE, "none"), ARoute({"/u", "/a"}, 2, TRUE, "none")>>,
     <<ARoute({"/r"}, 1, FALSE, "/u"), ARoute({"/b"}, 0, FALSE, "none")>> >>

\* FileTree
MCTreePaths == {<<"a">>, <<"ab">>, <<"a", "b">>, <<"ab", "b">>, <<"a", "b", "f">>}
MCTreeFiles == {<<"a", "b", "f">>}
MCLockedPaths == {<<"ab", "b">>}
MCBeginsWith == {<<"ab", "a">>}
MCShowPaths == {<<>>, <<"a", "b">>, <<"ab", "b">>}

\* Terminal
TermControls ==
  {<<"esc", "[", f>> : f \in {"A", "C", "D", "E", "J", "K", "P"}} \cup {<<"esc", "[", "1", f>> : f \in {"K", "G", "J"}}
    \cup {<<"esc", "[", "2", f>> : f \in {"J", "K", "X", "H", "B", "F"}} \cup {<<"esc", "[", "4", f>> : f \in {"h", "l"}}
    \cup {<<"esc", "[", "m">>, <<"esc", "a">>}
MCOutputs == {<<"a", "b">> \o i \o j : i \in TermControls, j \in {<<"nl">>, <<"cr", "b">>, <<"bs">>, <<"esc", "[", "1", "K">>}}

-----------------------------------------------------------------------------
\* Every part starts in its initial states when it is checked, and stays in one of them otherwise.
InitLibraries ==
  /\ librariesSubject \in {"time series", "key value stores", "webdav", "file systems", "listings", "http client", "validation", "formatting", "form", "dropdown", "file list", "widgets", "touch", "overlays", "router", "file tree", "terminal"}
  /\ SeriesInit
  /\ (IF librariesSubject = "key value stores" THEN TRUE ELSE storeKind = "memory") /\ StoresInit
  /\ WebDavInit /\ (librariesSubject # "webdav" => storage.kind = "memory")
  /\ FileSystemsInit
  /\ ListingsInit /\ (librariesSubject # "listings" => listKind = "disk" /\ present = {} /\ making.pc = "none")
  /\ HttpInit
  /\ ValidationInit
  /\ IF librariesSubject = "formatting" THEN FormattingInit
     ELSE formatInput = [task |-> "unit", unit |-> [base |-> "time", prefix |-> "s", n |-> 0, d |-> 1]] /\ formatOutput = <<>>
  /\ FormInit
  /\ (IF librariesSubject = "dropdown" THEN TRUE ELSE source = "static") /\ DropdownInit
  /\ FileListInit
  /\ (IF librariesSubject = "widgets" THEN TRUE ELSE widget = "editor" /\ document = "a") /\ WidgetsInit
  /\ TouchInit
  /\ (IF librariesSubject = "overlays" THEN TRUE ELSE overlay = "resize") /\ OverlaysInit
  /\ RouterInit
  /\ (IF librariesSubject = "file tree" THEN TRUE ELSE treeExisting = ExplorerPaths /\ refreshes = FALSE /\ givenPath = FALSE) /\ TreeInit
  /\ IF librariesSubject = "terminal" THEN TerminalInit
     ELSE /\ output = <<"a", "b", "esc", "a", "nl">> /\ printed = 0 /\ chunks = <<>> /\ outputs = <<>> /\ outputSize = 0
          /\ joinedAt = -1 /\ stream = <<>> /\ screen = EmptyScreen /\ remainder = <<>> /\ processed = <<>>

\* What belongs to the parts that are not checked.
OthersUnchanged(part) ==
  /\ UNCHANGED librariesSubject
  /\ IF part = "time series"      THEN TRUE ELSE UNCHANGED seriesVars
  /\ IF part = "key value stores" THEN TRUE ELSE UNCHANGED storesVars
  /\ IF part = "webdav"           THEN TRUE ELSE UNCHANGED webdavVars
  /\ IF part = "file systems"     THEN TRUE ELSE UNCHANGED fsVars
  /\ IF part = "listings"         THEN TRUE ELSE UNCHANGED listingsVars
  /\ IF part = "http client"      THEN TRUE ELSE UNCHANGED httpVars
  /\ IF part = "validation"       THEN TRUE ELSE UNCHANGED validationVars
  /\ IF part = "formatting"       THEN TRUE ELSE UNCHANGED formatVars
  /\ IF part = "form"             THEN TRUE ELSE UNCHANGED formVars
  /\ IF part = "dropdown"         THEN TRUE ELSE UNCHANGED dropdownVars
  /\ IF part = "file list"        THEN TRUE ELSE UNCHANGED fileVars
  /\ IF part = "widgets"          THEN TRUE ELSE UNCHANGED widgetVars
  /\ IF part = "touch"            THEN TRUE ELSE UNCHANGED touchVars
  /\ IF part = "overlays"         THEN TRUE ELSE UNCHANGED overlayVars
  /\ IF part = "router"           THEN TRUE ELSE UNCHANGED routerVars
  /\ IF part = "file tree"        THEN TRUE ELSE UNCHANGED treeVars
  /\ IF part = "terminal"         THEN TRUE ELSE UNCHANGED terminalVars

NextLibraries ==
  \/ librariesSubject = "time series"      /\ SeriesNext /\ OthersUnchanged("time series")
  \/ librariesSubject = "key value stores" /\ StoresNext /\ OthersUnchanged("key value stores")
  \/ librariesSubject = "webdav"           /\ WebDavNext /\ OthersUnchanged("webdav")
  \/ librariesSubject = "file systems"     /\ FileSystemsNext /\ OthersUnchanged("file systems")
  \/ librariesSubject = "listings"         /\ ListingsNext /\ OthersUnchanged("listings")
  \/ librariesSubject = "http client"      /\ HttpNext /\ OthersUnchanged("http client")
  \/ librariesSubject = "validation"       /\ ValidationNext /\ OthersUnchanged("validation")
  \/ librariesSubject = "formatting"       /\ FormattingNext /\ OthersUnchanged("formatting")
  \/ librariesSubject = "form"             /\ FormNext /\ OthersUnchanged("form")
  \/ librariesSubject = "dropdown"         /\ DropdownNext /\ OthersUnchanged("dropdown")
  \/ librariesSubject = "file list"        /\ FileListNext /\ OthersUnchanged("file list")
  \/ librariesSubject = "widgets"          /\ WidgetsNext /\ OthersUnchanged("widgets")
  \/ librariesSubject = "touch"            /\ TouchNext /\ OthersUnchanged("touch")
  \/ librariesSubject = "overlays"         /\ OverlaysNext /\ OthersUnchanged("overlays")
  \/ librariesSubject = "router"           /\ RouterNext /\ OthersUnchanged("router")
  \/ librariesSubject = "file tree"        /\ TreeNext /\ OthersUnchanged("file tree")
  \/ librariesSubject = "terminal"         /\ TerminalNext /\ OthersUnchanged("terminal")
=============================================================================
