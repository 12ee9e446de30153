------------------------------- MODULE MCApps -------------------------------
(***************************************************************************)
(* The applications (src/apps), one part at a time.  The parts meet in databases, *)
(* storages and requests, which each module models from its own side: they are *)
(* checked apart, with the interleavings, failures and restarts of each.    *)
(***************************************************************************)
EXTENDS Records, Jobs, Authentication, Accounts, Payments, Nodes, NodeClients, ArtifactsServer,
        AppPages, TLC

VARIABLE appsSubject  \* the part that is checked: the others do not move

\* Records
MCPayloadSizes == <<{1}, {1}, {2}>>

\* Jobs
MCInstances == 0 :> <<"queue", "queue">> @@ 1 :> <<"always">>

\* Sessions
Mix(l, r, o, x) == [login |-> l, refresh |-> r, logout |-> o, lost |-> x]
MCAuthCalls == {Mix(3, 0, 0, 0), Mix(1, 2, 1, 0), Mix(1, 2, 0, 1), Mix(2, 1, 0, 0)}

\* TokenServer
ScopeChars(n) == UNION {[1 .. m -> {"/", "a", "b"}] : m \in 0 .. n}
MCScopeTexts == {s \in ScopeChars(4) : Len(s) <= 2 \/ s[1] = "/"} \ {<<"b">>}

\* AdminPages
MCAdminUids == <<"u1", "u2">>

\* NodesPlugin
Item(u, k, ls) == [uid |-> u, key |-> k, leaves |-> ls]
MCBodies == { <<Item("u", <<>>, {<<<<1,1>>, "x">>, <<<<1,2>>, "x">>, <<<<1,2,1>>, "x">>})>>,
  <<Item("u", <<2>>, {<<<<>>, "x">>, <<<<1>>, "x">>, <<<<2>>,"x">>})>>,
  <<Item("u", <<1,1>>, {<<<<>>, "x">>}), Item("v", <<2>>, {<<<<1>>, "x">>}), Item("u", <<2,2>>, {<<<<>>, "x">>})>>,
  <<Item("v", <<2,1>>, {<<<<>>, "x">>}), Item("v", <<3>>, {<<<<>>,"bad">>, <<<<1>>,"x">>})>>,
  <<Item("v", <<3>>, {<<<<>>,"x">>, <<<<1>>,"x">>}), Malformed>> }
MCHandlersAt == <<1>> :> {"history", "toString"} @@ <<3>> :> {"unit", "validation"}
MCTagsFromUid == "t1" :> {"v"}
MCTagsFromKey == "t2" :> {<<2,2>>} @@ "t1" :> {<<1,0>>}
MCDashboards == << [inputs |-> << <<2, Var>>, <<3, Var>> >>, groupBy |-> {2}], [inputs |-> << <<Var, Var>>, <<2, Var>> >>, groupBy |-> {1}] >>

\* NodePublisher
MCRemotes == <<"r1", "r2">>

\* LiveGraph
MCPlotSeries == UNION {[1 .. n -> {<<1, 3>>, <<2, -4>>, <<4, -1>>, <<5, 0>>, <<6, 4>>}] : n \in 1 .. 4}

\* Dashboard
SnmpItem(o, t, ops) == [oid |-> o, ttl |-> t, ops |-> ops]
MCSnmpConfigs == {<<SnmpItem(<<FALSE, 1>>, 2, {})>>,
  <<SnmpItem(<<FALSE, 1>>, 1, {<<TRUE, 2>>}), SnmpItem(<<TRUE, 2>>, 3, {})>>,
  <<SnmpItem(<<TRUE, 1>>, 0, {}), SnmpItem(<<FALSE, 2>>, 2, {<<FALSE, 1>>})>>}

\* ArtifactsServer
Leaf(k, t) == [kind |-> k, text |-> t, keys |-> <<>>]
Obj(f) == [kind |-> "object", text |-> "", keys |-> f]
SchemaLeaves == {Leaf("string", "x"), Leaf("number", "1")}
SchemaObjects(values) == {Obj(f) : f \in UNION {[d -> values] : d \in SUBSET {"description", "type"}}}
Schemas1 == SchemaLeaves \cup SchemaObjects(SchemaLeaves)
OneTool == {Obj([tool |-> t]) : t \in Schemas1}
MCOverrides == OneTool \X (OneTool \cup {Obj([tool |-> t, description |-> d]) : t \in Schemas1, d \in SchemaLeaves})

\* Diagram
DElement(fqn, deps) == [fqn |-> fqn, deps |-> deps]
DIo(fqn, name, isSource, connections) == [fqn |-> fqn, uid |-> fqn \o <<".", name>>, source |-> isSource, connections |-> connections]
DNames == {<<"a">>, <<"b">>, <<"a", ".", "c">>, <<"a", ".", "d">>}
DIos(a, b) == {DIo(a, "o", TRUE, {b \o <<".", "i">>}), DIo(b, "i", FALSE, {})}
DList(dep) == <<DElement(<<"a", ".", "c">>, {dep}), DElement(<<"a">>, {}), DElement(<<"b">>, {<<"a">>}), DElement(<<"a", ".", "d">>, {})>>
MCBdls == {<<[target |-> <<"t">>, list |-> DList(dep), ios |-> DIos(x[1], x[2]) \cup DIos(y[1], y[2])]>> \o rest :
             dep \in DNames, x \in DNames \X DNames, y \in DNames \X DNames,
             rest \in {<<>>, <<[target |-> <<"u">>, list |-> <<DElement(<<"u", ".", "e">>, {<<"b">>})>>, ios |-> {DIo(<<"u", ".", "e">>, "o", TRUE, {<<"b", ".", "i">>})}]>>}}
FirstBdl == CHOOSE b \in MCBdls : TRUE

-----------------------------------------------------------------------------
\* Every part starts in its initial states when it is checked, and stays in one of them otherwise.
InitApps ==
  /\ appsSubject \in {"records", "jobs", "sessions", "token server", "users", "pending actions", "admin pages", "payments", "subscriptions", "node data", "nodes plugin", "node publisher", "live graph", "dashboard", "artifacts server", "caching proxy", "player", "diagram"}
  /\ RecordsInit
  /\ JobsInit
  /\ (IF appsSubject = "sessions" THEN TRUE ELSE authLeft = Mix(3, 0, 0, 0)) /\ SessionsInit
  /\ TokenServerInit
  /\ UsersInit
  /\ PendingInit
  /\ (IF appsSubject = "admin pages" THEN TRUE ELSE table = "users") /\ AdminInit
  /\ PaymentsInit
  /\ SubInit
  /\ NodeDataInit
  /\ PluginInit
  /\ PublisherInit
  /\ (IF appsSubject = "live graph" THEN TRUE ELSE graphPeriod = 1 /\ plotInput = [series |-> <<>>, mouse |-> 0]) /\ LiveInit
  /\ (IF appsSubject = "dashboard" THEN TRUE ELSE snmpConfig = <<>>) /\ DashboardInit
  /\ ServerInit /\ (appsSubject # "artifacts server" => ~volume.private)
  /\ ProxyInit
  /\ PlayerInit
  /\ IF appsSubject = "diagram" THEN DiagramInit
     ELSE bdls = FirstBdl /\ bdlTree = <<>> /\ ios = {} /\ elk = NoGraph /\ drawn = NoGraph

\* What belongs to the parts that are not checked.
OthersUnchanged(part) ==
  /\ UNCHANGED appsSubject
  /\ IF part = "records"          THEN TRUE ELSE UNCHANGED recordsVars
  /\ IF part = "jobs"             THEN TRUE ELSE UNCHANGED jobsVars
  /\ IF part = "sessions"         THEN TRUE ELSE UNCHANGED sessionsVars
  /\ IF part = "token server"     THEN TRUE ELSE UNCHANGED tokenServerVars
  /\ IF part = "users"            THEN TRUE ELSE UNCHANGED usersVars
  /\ IF part = "pending actions"  THEN TRUE ELSE UNCHANGED pendingVars
  /\ IF part = "admin pages"      THEN TRUE ELSE UNCHANGED adminVars
  /\ IF part = "payments"         THEN TRUE ELSE UNCHANGED paymentsVars
  /\ IF part = "subscriptions"    THEN TRUE ELSE UNCHANGED subVars
  /\ IF part = "node data"        THEN TRUE ELSE UNCHANGED nodeDataVars
  /\ IF part = "nodes plugin"     THEN TRUE ELSE UNCHANGED pluginVars
  /\ IF part = "node publisher"   THEN TRUE ELSE UNCHANGED publisherVars
  /\ IF part = "live graph"       THEN TRUE ELSE UNCHANGED liveVars
  /\ IF part = "dashboard"        THEN TRUE ELSE UNCHANGED dashboardVars
  /\ IF part = "artifacts server" THEN TRUE ELSE UNCHANGED serverVars
  /\ IF part = "caching proxy"    THEN TRUE ELSE UNCHANGED proxyVars
  /\ IF part = "player"           THEN TRUE ELSE UNCHANGED playerVars
  /\ IF part = "diagram"          THEN TRUE ELSE UNCHANGED diagramVars

NextApps ==
  \/ appsSubject = "records"          /\ RecordsNext /\ OthersUnchanged("records")
  \/ appsSubject = "jobs"             /\ JobsNext /\ OthersUnchanged("jobs")
  \/ appsSubject = "sessions"         /\ SessionsNext /\ OthersUnchanged("sessions")
  \/ appsSubject = "token server"     /\ TokenServerNext /\ OthersUnchanged("token server")
  \/ appsSubject = "users"            /\ UsersNext /\ OthersUnchanged("users")
  \/ appsSubject = "pending actions"  /\ PendingNext /\ OthersUnchanged("pending actions")
  \/ appsSubject = "admin pages"      /\ AdminNext /\ OthersUnchanged("admin pages")
  \/ appsSubject = "payments"         /\ PaymentsNext /\ OthersUnchanged("payments")
  \/ appsSubject = "subscriptions"    /\ SubNext /\ OthersUnchanged("subscriptions")
  \/ appsSubject = "node data"        /\ NodeDataNext /\ OthersUnchanged("node data")
  \/ appsSubject = "nodes plugin"     /\ PluginNext /\ OthersUnchanged("nodes plugin")
  \/ appsSubject = "node publisher"   /\ PublisherNext /\ OthersUnchanged("node publisher")
  \/ appsSubject = "live graph"       /\ LiveNext /\ OthersUnchanged("live graph")
  \/ appsSubject = "dashboard"        /\ DashboardNext /\ OthersUnchanged("dashboard")
  \/ appsSubject = "artifacts server" /\ ServerNext /\ OthersUnchanged("artifacts server")
  \/ appsSubject = "caching proxy"    /\ ProxyNext /\ OthersUnchanged("caching proxy")
  \/ appsSubject = "player"           /\ PlayerNext /\ OthersUnchanged("player")
  \/ appsSubject = "diagram"          /\ DiagramNext /\ OthersUnchanged("diagram")
=============================================================================
