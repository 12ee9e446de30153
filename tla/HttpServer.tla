----------------------------- MODULE HttpServer -----------------------------
(***************************************************************************)
(* The HTTP server of the backends (nodejs/core/http/server.js), with the   *)
(* handler the REST server wraps around an endpoint (nodejs/core/rest/      *)
(* server.js) and the websocket connections with their heartbeat.           *)
(*                                                                          *)
(* A request goes through the body parser, the authentication, the          *)
(* callback of the endpoint and the answer; what each of them makes of the  *)
(* request is a choice.  An exception is caught by up to three handlers,    *)
(* one around the other: of the REST server, of the HTTP server and of      *)
(* Express (express 5 hands a rejected promise to the error handler).       *)
(* Sending an answer whose headers are out is itself an exception.          *)
(***************************************************************************)
EXTENDS Integers, FiniteSets

CONSTANTS
  Requests,        \* the requests, each sent once
  Sockets,         \* the websocket clients, each connects once
  Responsive       \* those that answer a ping within the heartbeat interval

ASSUME HttpServerAssumption == Responsive \subseteq Sockets

VARIABLES
  web,             \* new, listening, closingSockets, closingServer or closed
  request,         \* a request: its place, the exception under way, what was sent
  socket,          \* a websocket: its place, isAlive, and a ping not yet answered
  heartbeat        \* websocketsInterval is set

httpVars == <<web, request, socket, heartbeat>>

Errors == {"http", "precondition", "other"}

HttpInit ==
  /\ web = "new" /\ heartbeat = FALSE
  /\ request = [r \in Requests |-> [pc |-> "none", error |-> "none", sent |-> "no", answers |-> 0, session |-> FALSE]]
  /\ socket = [s \in Sockets |-> [pc |-> "none", alive |-> FALSE, pinged |-> FALSE]]

-----------------------------------------------------------------------------
\* start(): the websocket server is hooked to the server, which listens.
WebListen == web' = "listening" /\ heartbeat' = TRUE
WebStart == web = "new" /\ WebListen /\ UNCHANGED <<request, socket>>

\* stop(): the heartbeat ends and the open websockets are asked to close,
WebStop ==
  /\ web = "listening"
  /\ web' = "closingSockets" /\ heartbeat' = FALSE
  /\ socket' = [s \in Sockets |-> IF socket[s].pc = "open" THEN [socket[s] EXCEPT !.pc = "closing"] ELSE socket[s]]
  /\ UNCHANGED request
\* once they all did the server stops listening,
\* Mutant: the callback of close() is not waited for.
WebSocketsClosedNotAwaited ==
  /\ web = "closingSockets"
  /\ web' = "closed"
  /\ UNCHANGED <<request, socket, heartbeat>>
WebSocketsClosed ==
  /\ web = "closingSockets" /\ \A s \in Sockets : socket[s].pc \in {"none", "closed"}
  /\ web' = "closingServer"
  /\ UNCHANGED <<request, socket, heartbeat>>
\* and close() calls back when the last request was answered.
WebClosed ==
  /\ web = "closingServer" /\ \A r \in Requests : request[r].pc \in {"none", "done"}
  /\ web' = "closed"
  /\ UNCHANGED <<request, socket, heartbeat>>

-----------------------------------------------------------------------------
\* Send, or fail because the headers are out.
Headers(r) == request[r].sent # "no"
Sent(r) == [request[r] EXCEPT !.pc = "done", !.sent = "complete", !.answers = @ + 1]
Throws(r, level, error) == [request[r] EXCEPT !.pc = level, !.error = error]
\* Mutant: the answer of an error is sent whatever was sent before.
SendOrThrowBlind(r, level) == Sent(r)
SendOrThrow(r, level) ==
  IF ~Headers(r) THEN Sent(r)
  ELSE IF level = "done" THEN [request[r] EXCEPT !.pc = "done"]
  ELSE Throws(r, level, "other")

RequestStep(r, pc, next) ==
  /\ request[r].pc = pc
  /\ \E q \in next : request' = [request EXCEPT ![r] = q]
  /\ UNCHANGED <<web, socket, heartbeat>>

Arrive(r) ==
  /\ web \in {"listening", "closingSockets"}
  /\ RequestStep(r, "none", {[request[r] EXCEPT !.pc = "parse"]})
\* The body parser refuses the body, which goes to the error handler of Express.
Parse(r) == RequestStep(r, "parse", {[request[r] EXCEPT !.pc = "verify"], Throws(r, "express", "other")})
\* The authentication finds a session, or none, or fails.
Verify(r) ==
  RequestStep(r, "verify", {[request[r] EXCEPT !.pc = "call", !.session = TRUE]}
                           \cup {Throws(r, "server", e) : e \in Errors})
\* The input is validated and the callback is called; it may answer by itself
\* (sendStatus() sets manualResponse) and may throw, before or after.
Called(r) ==
  {[request[r] EXCEPT !.pc = "respond"], Sent(r)}
    \cup {Throws(r, "rest", e) : e \in Errors}
    \cup {[Throws(r, "rest", e) EXCEPT !.sent = "complete", !.answers = @ + 1] : e \in Errors}
Call(r) == RequestStep(r, "call", Called(r))
\* The result is validated and filtered, then sent at once or as a stream.
Respond(r) ==
  RequestStep(r, "respond", {Sent(r), Throws(r, "rest", "other"),
                             [request[r] EXCEPT !.pc = "stream", !.sent = "headers"]})
\* A stream ends, or breaks; that the client left is not an error.
Stream(r) ==
  RequestStep(r, "stream", {Sent(r), [request[r] EXCEPT !.pc = "done"], Throws(r, "rest", "other")})
\* The exception handlers: of the REST server,
RestCatch(r) == RequestStep(r, "rest", {SendOrThrow(r, "server")})
\* of the route of the HTTP server, which passes on what it does not know,
\* Mutant: what it does not know ends there.
ServerCatchDrops(r) ==
  RequestStep(r, "server", {IF request[r].error = "other" THEN [request[r] EXCEPT !.pc = "done"]
                            ELSE SendOrThrow(r, "express")})
ServerCatch(r) ==
  RequestStep(r, "server", {IF request[r].error = "other" THEN Throws(r, "express", "other")
                            ELSE SendOrThrow(r, "express")})
\* and of Express, which gives up.
ExpressCatch(r) == RequestStep(r, "express", {SendOrThrow(r, "done")})

HandleRequest(r) ==
  \/ Parse(r) \/ Verify(r) \/ Call(r) \/ Respond(r) \/ Stream(r)
  \/ RestCatch(r) \/ ServerCatch(r) \/ ExpressCatch(r)

-----------------------------------------------------------------------------
SocketStep(s, to) == socket' = [socket EXCEPT ![s] = to] /\ UNCHANGED <<web, request, heartbeat>>

\* The upgrade of a connection: no route matches, the handler fails, or the socket
\* is marked alive.  A server that closes refuses it.
Upgrade(s) ==
  /\ web \in {"listening", "closingSockets"} /\ socket[s].pc = "none"
  /\ \E pc \in IF web = "listening" THEN {"open", "closing", "closed"} ELSE {"closed"} :
       SocketStep(s, [pc |-> pc, alive |-> (pc = "open"), pinged |-> FALSE])
\* The pong of a client.
Pong(s) ==
  /\ s \in Responsive /\ socket[s].pc = "open" /\ socket[s].pinged
  /\ SocketStep(s, [socket[s] EXCEPT !.alive = TRUE, !.pinged = FALSE])
\* The closing handshake, or its timeout in ws; also a client that leaves.
SocketCloses(s) ==
  /\ socket[s].pc \in {"open", "closing"}
  /\ SocketStep(s, [socket[s] EXCEPT !.pc = "closed"])

\* The interval: who did not answer since the last one is terminated, the others are
\* asked again.  A responsive client answers within the interval.
\* Mutant: the flag is cleared before it is tested.
BeatClearsFirst(x) == IF x.pc # "open" THEN x ELSE [x EXCEPT !.pc = "terminated"]
\* Mutant: every client is asked, whether it answered or not.
BeatAsksAgain(x) == IF x.pc # "open" THEN x ELSE [x EXCEPT !.alive = FALSE, !.pinged = TRUE]
Beat(x) ==
  IF x.pc # "open" THEN x
  ELSE IF ~x.alive THEN [x EXCEPT !.pc = "terminated"]
  ELSE [x EXCEPT !.alive = FALSE, !.pinged = TRUE]
Heartbeat ==
  /\ heartbeat /\ \A s \in Responsive : ~(socket[s].pc = "open" /\ socket[s].pinged)
  /\ socket' = [s \in Sockets |-> Beat(socket[s])]
  /\ UNCHANGED <<web, request, heartbeat>>
\* terminate() destroys the connection.
Terminated(s) ==
  /\ socket[s].pc = "terminated"
  /\ SocketStep(s, [socket[s] EXCEPT !.pc = "closed"])

SocketNext ==
  \/ \E s \in Sockets : Upgrade(s) \/ Pong(s) \/ SocketCloses(s) \/ Terminated(s)
  \/ Heartbeat
RequestNext ==
  \/ \E r \in Requests : Arrive(r) \/ HandleRequest(r)
  \/ WebSocketsClosed \/ WebClosed
HttpNext == WebStart \/ WebStop \/ RequestNext \/ SocketNext

\* Handlers settle, intervals fire, closing sockets close.
HttpFairness ==
  /\ \A r \in Requests : WF_httpVars(HandleRequest(r))
  /\ \A s \in Sockets : WF_httpVars(Pong(s)) /\ WF_httpVars(Terminated(s))
                        /\ WF_httpVars(socket[s].pc = "closing" /\ SocketCloses(s))
  /\ WF_httpVars(Heartbeat) /\ WF_httpVars(WebSocketsClosed) /\ WF_httpVars(WebClosed)

-----------------------------------------------------------------------------
\* No request is answered twice, whichever handlers its exceptions went through.
AnsweredOnce == \A r \in Requests : request[r].answers <= 1

\* Every request ends, and with an answer unless its stream broke.
AnsweredEventually ==
  \A r \in Requests : (request[r].pc = "parse") ~>
    (request[r].pc = "done" /\ (request[r].answers = 1 \/ request[r].sent = "headers"))

\* The heartbeat terminates only clients that do not answer,
LiveNotTerminated == \A s \in Responsive : socket[s].pc # "terminated"
\* and a client that does not answer does not stay.
DeadTerminated == \A s \in Sockets \ Responsive : (socket[s].pc = "open") ~> (socket[s].pc = "closed")
=============================================================================
