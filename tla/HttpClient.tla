----------------------------- MODULE HttpClient -----------------------------
(***************************************************************************)
(* The client side of HTTP: a REST call (core/rest/client.js) validates its *)
(* data, completes its authentication and sends a request (core/http/       *)
(* client.js) that node.http.js follows over redirections, and whose body   *)
(* is read, previewed or handed over; the websocket client (node.ws.js);    *)
(* and the two users of streamed requests on the server: the proxy (proxy.js*)
(* ) and the multipart form (processForm of server_context.js).             *)
(***************************************************************************)
EXTENDS Integers, FiniteSets

CONSTANTS
  HttpCalls,        \* calls of RestClient.request() or of the proxy
  CallKinds,        \* [type, auth, expect]: what the schema of the route says
  MAX_REDIRECTION,
  FormFiles         \* files of a multipart form

ASSUME HttpClientAssumption == MAX_REDIRECTION \in Nat

VARIABLES
  httpCalls,    \* call -> where it is, its route, its redirections, whether its answer is an error
  responses,    \* call -> responses whose socket is open, by how they are used
  client,       \* what the proxy did with the request of its client, per call
  ws,           \* the websocket: state of the socket, promise, context, heartbeat
  form          \* the form: what busboy has emitted and what became of the files

httpVars == <<httpCalls, responses, client, ws, form>>

NoCall == [pc |-> "idle", kind |-> [type |-> "none", auth |-> FALSE, expect |-> "json"], redirection |-> 0, timer |-> FALSE, error |-> FALSE]
HttpInit ==
  /\ httpCalls = [c \in HttpCalls |-> NoCall] /\ responses = [c \in HttpCalls |-> {}]
  /\ client = [c \in HttpCalls |-> "none"]
  /\ ws = [socket |-> "none", promise |-> "pending", context |-> FALSE, beat |-> FALSE]
  /\ form = [busboy |-> "none", files |-> [f \in FormFiles |-> "absent"], serialized |-> FALSE, promise |-> "pending", blobs |-> {}]

Http(c, pc) == [httpCalls EXCEPT ![c].pc = pc]
Settled(call) == call.pc \in {"resolved", "rejected"}

-----------------------------------------------------------------------------
(* RestClient.request().                                                     *)

\* Validation of the data and the assertions on its type; a route with authentication awaits updateAuthenticationFetch().
RestRequest(c, k, valid) ==
  /\ httpCalls[c].pc = "idle"
  /\ httpCalls' = [httpCalls EXCEPT ![c] = [NoCall EXCEPT !.kind = k, !.pc = IF ~valid THEN "rejected" ELSE IF k.auth THEN "auth" ELSE "prepare"]]
  /\ UNCHANGED <<responses, client, ws, form>>
RestAuthenticated(c, authenticated) ==
  /\ httpCalls[c].pc = "auth" /\ httpCalls' = Http(c, IF authenticated THEN "prepare" ELSE "rejected")
  /\ UNCHANGED <<responses, client, ws, form>>

\* HttpClient.request(): url, query, body and headers are put together; it throws for a url or an authentication that is not supported.
Prepare(c, supported) ==
  /\ httpCalls[c].pc = "prepare" /\ httpCalls' = Http(c, IF supported THEN "send" ELSE "rejected")
  /\ UNCHANGED <<responses, client, ws, form>>

-----------------------------------------------------------------------------
(* requestResponse() and the loop over redirections.                         *)

\* A form is neither text nor a stream for node.http.js: the promise is rejected, and the request stays until its timeout.
Request(c) ==
  /\ httpCalls[c].pc = "send"
  /\ httpCalls' = [httpCalls EXCEPT ![c].pc = IF httpCalls[c].kind.type = "form" THEN "rejected" ELSE "sent", ![c].timer = TRUE]
  /\ UNCHANGED <<responses, client, ws, form>>
\* The timeout and the error of a request: it is destroyed.
RequestFails(c) ==
  /\ httpCalls[c].timer
  /\ httpCalls' = [httpCalls EXCEPT ![c].pc = IF Settled(httpCalls[c]) THEN @ ELSE "rejected", ![c].timer = FALSE]
  /\ UNCHANGED <<responses, client, ws, form>>

\* The callback with the response removes the timeout; from here on nothing limits the time of the call.
Responded(c, pc) == [httpCalls EXCEPT ![c].pc = pc, ![c].timer = FALSE]
\* Mutant: a followed redirection leaves its response open.
FollowKeepsOpen(c) == responses[c] \cup {"redirect"}
Follow(c) == responses[c]
Redirected(c, location) ==
  /\ httpCalls[c].pc = "sent"
  /\ IF httpCalls[c].redirection >= MAX_REDIRECTION
     THEN /\ httpCalls' = Responded(c, "rejected")
          /\ responses' = [responses EXCEPT ![c] = @ \cup {"refused"}]
     ELSE /\ httpCalls' = [Responded(c, "send") EXCEPT ![c].redirection = @ + 1]
          /\ responses' = [responses EXCEPT ![c] = IF location THEN Follow(c) ELSE @ \cup {"unlocated"}]
  /\ UNCHANGED <<client, ws, form>>

\* A final answer, 2xx or an error: a stream is handed over at once, another body is read by toString().
Answered(c, error) ==
  /\ httpCalls[c].pc = "sent"
  /\ httpCalls' = [Responded(c, IF httpCalls[c].kind.expect # "stream" THEN "read" ELSE IF error /\ client[c] = "none" THEN "peek" ELSE "resolved")
                   EXCEPT ![c].error = error]
  /\ responses' = [responses EXCEPT ![c] = @ \cup {IF httpCalls[c].kind.expect = "stream" /\ ~(error /\ client[c] = "none") THEN "handed" ELSE "body"}]
  /\ UNCHANGED <<client, ws, form>>
\* toString(): the body ends or breaks; then the code, the JSON and, for a REST call, the response are checked.
BodyRead(c, fine) ==
  /\ httpCalls[c].pc = "read" /\ responses' = [responses EXCEPT ![c] = @ \ {"body"}]
  /\ httpCalls' = Http(c, IF fine /\ ~httpCalls[c].error THEN "resolved" ELSE "rejected")
  /\ UNCHANGED <<client, ws, form>>
\* peekReadStream(): whatever ends first, the read, its failure or the timer, the stream is destroyed.
\* Mutant: only once the stream was read.
PeekedUnlessLate(c, inTime) == IF inTime THEN responses[c] \ {"body"} ELSE responses[c]
Peeked(c, inTime) == responses[c] \ {"body"}
Peek(c, inTime) ==
  /\ httpCalls[c].pc = "peek" /\ responses' = [responses EXCEPT ![c] = Peeked(c, inTime)]
  /\ httpCalls' = Http(c, "rejected") /\ UNCHANGED <<client, ws, form>>

-----------------------------------------------------------------------------
(* The proxy: beforeRequest() may answer itself; else the request is         *)
(* forwarded, with its body as a stream and every code as an answer.         *)

ProxyRequest(c) ==
  /\ httpCalls[c].pc = "idle" /\ client[c] = "none"
  /\ httpCalls' = [httpCalls EXCEPT ![c].pc = "before"] /\ client' = [client EXCEPT ![c] = "waits"]
  /\ UNCHANGED <<responses, ws, form>>
\* Mutant: the early answer is not looked for.
ForwardedAlways(c) == TRUE
Forwarded(c) == client[c] # "answered"
ProxyBefore(c, answers) ==
  LET now == [client EXCEPT ![c] = IF answers THEN "answered" ELSE @] IN
  /\ httpCalls[c].pc = "before" /\ client' = now /\ httpCalls' = Http(c, "checked") /\ UNCHANGED <<responses, ws, form>>
ProxyForwards(c) ==
  /\ httpCalls[c].pc = "checked"
  /\ httpCalls' = IF Forwarded(c) THEN [httpCalls EXCEPT ![c].pc = "prepare", ![c].kind = [type |-> "query", auth |-> FALSE, expect |-> "stream"]]
                  ELSE Http(c, "resolved")
  /\ UNCHANGED <<responses, client, ws, form>>
\* afterRequest(), writeHead() and pipe(): the stream is the response of the client, and closed with it.
ProxyPipes(c) ==
  /\ httpCalls[c].pc = "resolved" /\ client[c] \in {"waits", "answered"} /\ "handed" \in responses[c]
  /\ client' = [client EXCEPT ![c] = IF @ = "answered" THEN "twice" ELSE "piped"]
  /\ responses' = [responses EXCEPT ![c] = @ \ {"handed"}] /\ UNCHANGED <<httpCalls, ws, form>>

-----------------------------------------------------------------------------
(* The websocket client of Node.js and its context.                          *)

WsHandle ==
  /\ ws.socket = "none" /\ ws' = [ws EXCEPT !.socket = "connecting", !.context = TRUE, !.beat = TRUE]
  /\ UNCHANGED <<httpCalls, responses, client, form>>
WsOpen ==
  /\ ws.socket = "connecting" /\ ws' = [ws EXCEPT !.socket = "open", !.promise = "resolved"]
  /\ UNCHANGED <<httpCalls, responses, client, form>>
WsError ==
  /\ ws.socket \in {"connecting", "open"}
  /\ ws' = IF ws.promise = "pending" THEN [ws EXCEPT !.promise = "rejected", !.socket = "closing"] ELSE [ws EXCEPT !.socket = "closing"]
  /\ UNCHANGED <<httpCalls, responses, client, form>>
\* close() of the context, by the user.
WsContextClose ==
  /\ ws.promise = "resolved" /\ ws.context /\ ws.socket = "open"
  /\ ws' = [ws EXCEPT !.context = FALSE, !.socket = "closing"] /\ UNCHANGED <<httpCalls, responses, client, form>>
\* The close event.
\* Mutant: the interval is left to find out by itself.
WsClosedLater == [ws EXCEPT !.socket = "closed", !.context = FALSE]
WsClosed == [ws EXCEPT !.socket = "closed", !.beat = FALSE, !.context = FALSE]
WsClose == ws.socket \in {"open", "closing"} /\ ws' = WsClosed /\ UNCHANGED <<httpCalls, responses, client, form>>
\* The interval: a ping if the socket is open; otherwise, while it is connecting too, the interval ends for good.
WsHeartbeat ==
  /\ ws.beat /\ ws.socket # "open" /\ ws' = [ws EXCEPT !.beat = FALSE] /\ UNCHANGED <<httpCalls, responses, client, form>>

-----------------------------------------------------------------------------
(* processForm(): busboy emits files and fields, then closes, or fails.      *)

FormBegins == form.busboy = "none" /\ form' = [form EXCEPT !.busboy = "open"] /\ UNCHANGED <<httpCalls, responses, client, ws>>
FormFile(f) ==
  /\ form.busboy = "open" /\ form.files[f] = "absent" /\ form' = [form EXCEPT !.files[f] = "task"]
  /\ UNCHANGED <<httpCalls, responses, client, ws>>
FormField == form.busboy = "open" /\ ~form.serialized /\ form' = [form EXCEPT !.serialized = TRUE] /\ UNCHANGED <<httpCalls, responses, client, ws>>
\* onFile() returns or throws; the stream is drained in both cases.
FormFileEnds(f, fine) ==
  /\ form.files[f] = "task"
  /\ form' = [form EXCEPT !.files[f] = IF fine THEN "done" ELSE "failed", !.blobs = IF fine THEN @ \cup {f} ELSE @]
  /\ UNCHANGED <<httpCalls, responses, client, ws>>
FormClose == form.busboy = "open" /\ form' = [form EXCEPT !.busboy = "closed"] /\ UNCHANGED <<httpCalls, responses, client, ws>>
FormError ==
  /\ form.busboy = "open" /\ form' = [form EXCEPT !.busboy = "error", !.promise = "rejected"]
  /\ UNCHANGED <<httpCalls, responses, client, ws>>
\* Promise.all(): settles when all are done or one has failed; the files of the serialized fields are replaced by what onFile() gave.
\* Mutant: the tasks are started and not awaited.
AllDoneOrOneFailedAtOnce == TRUE
AllDoneOrOneFailed == (\E f \in FormFiles : form.files[f] = "failed") \/ (\A f \in FormFiles : form.files[f] \in {"absent", "done"})
FormSettles ==
  /\ form.busboy = "closed" /\ form.promise = "pending" /\ AllDoneOrOneFailed
  /\ form' = [form EXCEPT !.promise = IF \E f \in FormFiles : form.files[f] = "failed" THEN "rejected" ELSE "resolved"]
  /\ UNCHANGED <<httpCalls, responses, client, ws>>

HttpNext ==
  \/ \E c \in HttpCalls :
       \/ \E k \in CallKinds, valid \in BOOLEAN : RestRequest(c, k, valid)
       \/ Request(c) \/ RequestFails(c) \/ ProxyRequest(c) \/ ProxyForwards(c) \/ ProxyPipes(c)
       \/ \E b \in BOOLEAN : RestAuthenticated(c, b) \/ Prepare(c, b) \/ Redirected(c, b) \/ Answered(c, b) \/ BodyRead(c, b) \/ Peek(c, b) \/ ProxyBefore(c, b)
  \/ WsHandle \/ WsOpen \/ WsError \/ WsContextClose \/ WsClose \/ WsHeartbeat
  \/ FormBegins \/ FormField \/ FormClose \/ FormError \/ FormSettles
  \/ \E f \in FormFiles : FormFile(f) \/ \E b \in BOOLEAN : FormFileEnds(f, b)

-----------------------------------------------------------------------------
\* Sockets are not leaked: of a call that is settled only a stream handed to the caller is open, and the responses of redirections that
\* were not followed, because they name no location or exceed MAX_REDIRECTION: node.http.js destroys a response only to follow it.
SettledClosed == \A c \in HttpCalls : Settled(httpCalls[c]) =>
  responses[c] \subseteq {"handed", "unlocated", "refused"} /\ ("refused" \in responses[c] => httpCalls[c].redirection = MAX_REDIRECTION)

\* The client of the proxy is answered once, by beforeRequest() or by the target (proxy.js:65).
ProxyAnswersOnce == \A c \in HttpCalls : client[c] # "twice"

\* A closed websocket keeps neither a context that sends nor an interval that keeps the process alive (node.ws.js:71-74).
ClosedIsQuiet == ws.socket = "closed" => ~ws.beat /\ ~ws.context

\* processForm() gives its inputs only once every file was processed: no placeholder of a file is left in them (server_context.js:89).
FormComplete == form.promise = "resolved" => \A f \in FormFiles : form.files[f] # "absent" => f \in form.blobs

-----------------------------------------------------------------------------
\* Requests, forms, the proxy and web sockets settle once, with everything closed that they opened.
HttpSafe ==
  /\ SettledClosed
  /\ ProxyAnswersOnce
  /\ ClosedIsQuiet
  /\ FormComplete
=============================================================================
