---------------------------- MODULE McpConnections ----------------------------
(***************************************************************************)
(* MCP servers and the connections velox-ui opens to them (mcp/manager.py, *)
(* the transports of mcp/, api/routes/mcp.py).  A connection lives for one *)
(* operation - a connect that caches the server's tools, or one tool call  *)
(* of a turn - and speaks over a child's pipes, over Streamable HTTP, over *)
(* the older HTTP+SSE, or over whichever of the two HTTP ones the server   *)
(* turns out to speak.                                                     *)
(*                                                                         *)
(* An operation sends two requests, the handshake and then its work, so a  *)
(* request is 1 or 2 and at most one is pending.  The server is free: it   *)
(* answers, refuses, repeats an answer it gave, says nothing, hangs up, or *)
(* does not end when it is told to.  What an operation holds is a set of   *)
(* resources; a server's name, its owner and whether it is enabled, which  *)
(* call_tool does not look at, are left out.                               *)
(***************************************************************************)
EXTENDS Naturals, FiniteSets

CONSTANTS
  Servers,
  Transports,      \* those servers are configured with
  Operations,
  MaxServerEdits   \* bound: requests that change a server

ASSUME McpAssumption ==
  /\ Transports \subseteq {"stdio", "http_sse", "sse", "http_auto"}
  /\ MaxServerEdits \in Nat
  /\ Servers # {}

VARIABLES
  server,   \* mcp_server rows: the empty set, or the one row
  secrets,  \* servers with a row in the secret table
  edits,    \* what was changed so far; also the version of a configuration
  op        \* the operations and their connections

mcpVars == <<server, secrets, edits, op>>

Resources == {"child", "reader", "session", "client"}

Row == [transport : Transports, config : 0..MaxServerEdits, auth : BOOLEAN,
        tools : {{}} \cup {{v} : v \in 0..MaxServerEdits}]

Operation ==
  [stage : {"idle", "opening", "asking", "switching", "closing", "saving", "over"},
   work : {"connect", "call"}, server : Servers, config : 0..MaxServerEdits,
   auto : BOOLEAN, via : {"stdio", "streamable", "sse"}, held : SUBSET Resources,
   ready : BOOLEAN, failed : BOOLEAN, asked : 0..2,
   future : {"open", "answered", "refused", "failed", "legacy"},
   answered : SUBSET (1..2), outcome : {"none", "ok", "error", "stopped"}, cut : BOOLEAN]

(* The configured servers, the credentials and every connection have the   *)
(* shape the code gives them; an encrypted credential belongs to a server  *)
(* (mcp/manager.py, db/repositories/mcp_servers.py).                       *)
McpTypeOK ==
  /\ \A s \in Servers : server[s] = {} \/ \E r \in Row : server[s] = {r}
  /\ secrets = {s \in Servers : \E r \in server[s] : r.auth}
  /\ edits \in 0..MaxServerEdits
  /\ op \in [Operations -> Operation]

NoOperation ==
  [stage |-> "idle", work |-> "call", server |-> CHOOSE s \in Servers : TRUE, config |-> 0,
   auto |-> FALSE, via |-> "stdio", held |-> {}, ready |-> FALSE, failed |-> FALSE,
   asked |-> 0, future |-> "open", answered |-> {}, outcome |-> "none", cut |-> FALSE]

McpInit ==
  /\ server = [s \in Servers |-> {}]
  /\ secrets = {}
  /\ edits = 0
  /\ op = [o \in Operations |-> NoOperation]

-----------------------------------------------------------------------------
(* The rows (api/routes/mcp.py, db/repositories/mcp_servers.py) *)

Edits ==
  /\ edits < MaxServerEdits
  /\ edits' = edits + 1
  /\ UNCHANGED op

\* create_server; import_servers, whose credentials stay in the configuration.
CreatesServer(s, t, auth) ==
  /\ Edits
  /\ server[s] = {}
  /\ server' = [server EXCEPT ![s] =
       {[transport |-> t, config |-> edits', auth |-> auth, tools |-> {}]}]
  /\ secrets' = IF auth THEN secrets \cup {s} ELSE secrets

\* update_server: the tools cached from another configuration stay.
UpdatesServer(s, reconfigured, auth) ==
  /\ Edits
  /\ \E r \in server[s] :
       server' = [server EXCEPT ![s] =
         {[r EXCEPT !.config = IF reconfigured THEN edits' ELSE @, !.auth = auth]}]
  /\ secrets' = IF auth THEN secrets \cup {s} ELSE secrets \ {s}

DeletesServer(s) ==
  /\ Edits
  /\ server[s] # {}
  /\ server' = [server EXCEPT ![s] = {}]
  /\ secrets' = secrets \ {s}

-----------------------------------------------------------------------------
(* An operation's own steps *)

Becomes(o, new) ==
  /\ op' = [op EXCEPT ![o] = new]
  /\ UNCHANGED <<server, secrets, edits>>

\* _request registers a future under a fresh id; what it asks is the next request.
Asking(c) == [c EXCEPT !.stage = "asking", !.asked = @ + 1, !.future = "open"]

\* The connection is released: a connect with tools has them still to save.
Released(c) ==
  [c EXCEPT !.held = {},
            !.stage = IF c.work = "connect" /\ c.outcome = "ok" THEN "saving" ELSE "over"]

\* What close() has to wait for: a child told to end, the stream's reader, the DELETE
\* of a session.
Awaited(c) == c.held \cap CASE c.via = "stdio"      -> {"child"}
                            [] c.via = "sse"        -> {"reader"}
                            [] c.via = "streamable" -> {"session"}

\* The manager's finally: close(), up to the first thing it waits for.
Closing(c, outcome) ==
  LET closing == [c EXCEPT !.stage = "closing", !.outcome = outcome,
                           !.held = IF c.via = "stdio" THEN @ \ {"reader"} ELSE @]
  IN  IF Awaited(closing) = {} THEN Released(closing) ELSE closing

\* connect, call_tool: the row is read, a client built and its transport opened.  An
\* auto client tries Streamable HTTP first.
OpensStdio(c) ==
  {Asking([c EXCEPT !.via = "stdio", !.held = {"child", "reader"}]),
   Closing([c EXCEPT !.via = "stdio"], "error")}

OpensSse(c) ==
  [c EXCEPT !.via = "sse", !.held = {"client", "reader"}, !.stage = "opening"]

OpensStreamable(c) == Asking([c EXCEPT !.via = "streamable", !.held = {"client"}])

OperationOpens(o, s, work) ==
  /\ op[o].stage = "idle"
  /\ \E r \in server[s] :
       LET c == [op[o] EXCEPT !.work = work, !.server = s, !.config = r.config,
                              !.auto = (r.transport = "http_auto")]
       IN  \E new \in CASE r.transport = "stdio" -> OpensStdio(c)
                        [] r.transport = "sse"   -> {OpensSse(c)}
                        [] OTHER                 -> {OpensStreamable(c)} :
             Becomes(o, new)

\* initialize of the older transport goes on once it knows where to post, or has failed.
StreamIsReady(o) ==
  LET c == op[o]
  IN  /\ c.stage = "opening"
      /\ c.ready \/ c.failed
      /\ Becomes(o, IF c.failed THEN Closing(c, "error") ELSE Asking(c))

\* An answer is read: after the handshake comes the work, refused by a stream that ended
\* meanwhile; a write to a child that is gone may fail.
RequestSucceeds(o) ==
  LET c == op[o]
  IN  /\ c.stage = "asking"
      /\ c.future = "answered"
      /\ \/ /\ c.asked = 1
            /\ ~c.failed
            /\ Becomes(o, Asking(c))
         \/ /\ c.asked = 1
            /\ c.failed \/ (c.via = "stdio" /\ "child" \notin c.held)
            /\ Becomes(o, Closing(c, "error"))
         \/ /\ c.asked = 2
            /\ Becomes(o, Closing(c, "ok"))

RequestFails(o) ==
  /\ op[o].stage = "asking"
  /\ op[o].future \in {"refused", "failed"}
  /\ Becomes(o, Closing(op[o], "error"))

\* The deadline of the handshake, of the endpoint, or of one request.
DeadlinePasses(o) ==
  LET c == op[o]
  IN  /\ \/ c.stage = "asking" /\ c.future = "open"
         \/ c.stage = "opening" /\ ~c.ready /\ ~c.failed
      /\ Becomes(o, Closing(c, "error"))

\* AutoHttpMcpClient: the server is an older one.  The first attempt is closed, its
\* session ended, and the stream of the second opened.
Switches(o) ==
  /\ op[o].stage = "asking"
  /\ op[o].future = "legacy"
  /\ Becomes(o, [op[o] EXCEPT !.stage = "switching"])

OpensLegacy(o) ==
  /\ op[o].stage = "switching"
  /\ Becomes(o, [OpensSse(op[o]) EXCEPT !.asked = 0, !.answered = {}])

\* Mutant: close of a stdio client does not go on to kill.
CloseEnds_NeverKills(o) ==
  /\ op[o].stage = "closing"
  /\ op[o].via = "stdio" => "child" \notin op[o].held
  /\ Becomes(o, Released(op[o]))

\* What close() waited for has happened: the child ended or was killed after 5 s, the
\* reader unwound, the session's DELETE was answered or given up.
CloseEnds(o) ==
  /\ op[o].stage = "closing"
  /\ Becomes(o, Released(op[o]))

\* connect: set_tool_cache, whatever became of the row since it was read.
ToolsAreSaved(o) ==
  /\ op[o].stage = "saving"
  /\ op' = [op EXCEPT ![o].stage = "over"]
  /\ server' = [server EXCEPT ![op[o].server] =
                  {[r EXCEPT !.tools = {op[o].config}] : r \in @}]
  /\ UNCHANGED <<secrets, edits>>

\* A stop of the turn cancels the call where it waits.  In close() it cuts the release
\* short, except that closing an SSE client waits for its reader under
\* suppress(CancelledError): there the stop is lost.
OperationIsStopped(o) ==
  LET c == op[o]
  IN  /\ c.work = "call"
      /\ \/ /\ c.stage \in {"opening", "asking"}
            /\ Becomes(o, Closing(c, "stopped"))
         \/ /\ c.stage = "switching"
            /\ Becomes(o, [c EXCEPT !.stage = "over", !.outcome = "stopped",
                                    !.held = @ \ {"client"}, !.cut = TRUE])
         \/ /\ c.stage = "closing"
            /\ c.via = "sse"
            /\ Becomes(o, Released(c))
         \/ /\ c.stage = "closing"
            /\ c.via # "sse"
            /\ Becomes(o, [c EXCEPT !.stage = "over", !.outcome = "stopped", !.cut = TRUE,
                 !.held = IF c.auto /\ c.asked = 1 THEN @ \ {"client"} ELSE @])

-----------------------------------------------------------------------------
(* What the server does, as the transports hear it *)

\* _dispatch, _resolve, _read_response: a response ends the request whose id it has, once.
Resolved(c, r, verdict) ==
  [c EXCEPT !.answered = @ \cup {r},
            !.future = IF r = c.asked /\ @ = "open" THEN verdict ELSE @]

\* Over pipes and over the event stream a response may also be one given before.
Hears(c, r) ==
  \/ c.via = "streamable" /\ r = c.asked
  \/ c.via # "streamable" /\ "reader" \in c.held

Responds(o, r, verdict) ==
  /\ op[o].stage = "asking"
  /\ r \in 1..op[o].asked
  /\ Hears(op[o], r)
  /\ Becomes(o, Resolved(op[o], r, verdict))

\* A first answer over Streamable HTTP names the session.
GivesSession(o) ==
  /\ op[o].stage = "asking"
  /\ op[o].via = "streamable"
  /\ op[o].future = "open"
  /\ "session" \notin op[o].held
  /\ Becomes(o, [op[o] EXCEPT !.held = @ \cup {"session"}])

\* An error status, a connection refused, a body without a response.  400, 404, 405 and a
\* stream that opens with an endpoint event make an auto client switch.
PostFails(o) ==
  LET c == op[o]
  IN  /\ c.stage = "asking"
      /\ c.via # "stdio"
      /\ c.future = "open"
      /\ \E f \in {"failed"} \cup IF c.auto /\ c.via = "streamable" /\ c.asked = 1
                                  THEN {"legacy"} ELSE {} :
           Becomes(o, [c EXCEPT !.future = f])

\* The endpoint event: of this origin, or refused.
EndpointArrives(o, sameOrigin) ==
  /\ op[o].stage = "opening"
  /\ "reader" \in op[o].held
  /\ ~op[o].ready
  /\ Becomes(o, IF sameOrigin
                THEN [op[o] EXCEPT !.ready = TRUE]
                ELSE [op[o] EXCEPT !.failed = TRUE, !.held = @ \ {"reader"}])

\* Mutant: the reader of a stream that ended leaves the pending request to its deadline.
StreamEnds_Silently(o) ==
  /\ op[o].stage \in {"opening", "asking"}
  /\ op[o].via = "sse"
  /\ "reader" \in op[o].held
  /\ Becomes(o, [op[o] EXCEPT !.failed = TRUE, !.held = @ \ {"reader"}])

\* _read_stream is over, whatever the reason: _fail ends the pending request.
StreamEnds(o) ==
  /\ op[o].stage \in {"opening", "asking"}
  /\ op[o].via = "sse"
  /\ "reader" \in op[o].held
  /\ Becomes(o, [op[o] EXCEPT !.failed = TRUE, !.held = @ \ {"reader"},
                              !.future = IF @ = "open" THEN "failed" ELSE @])

\* A child exits: _read_loop sees the end of its output and stops; a pending request
\* goes on waiting.
ChildExits(o) ==
  /\ "child" \in op[o].held
  /\ Becomes(o, [op[o] EXCEPT !.held = @ \ {"child", "reader"}])

-----------------------------------------------------------------------------

ServerEdits ==
  \E s \in Servers :
    \/ \E t \in Transports, auth \in BOOLEAN : CreatesServer(s, t, auth)
    \/ \E reconfigured, auth \in BOOLEAN :
         UpdatesServer(s, reconfigured, auth)
    \/ DeletesServer(s)

OperationSteps(o) ==
  \/ StreamIsReady(o)
  \/ RequestSucceeds(o)
  \/ RequestFails(o)
  \/ DeadlinePasses(o)
  \/ Switches(o)
  \/ OpensLegacy(o)
  \/ CloseEnds(o)
  \/ ToolsAreSaved(o)

ServerSteps(o) ==
  \/ \E r \in 1..2, verdict \in {"answered", "refused"} : Responds(o, r, verdict)
  \/ GivesSession(o)
  \/ PostFails(o)
  \/ \E sameOrigin \in BOOLEAN : EndpointArrives(o, sameOrigin)
  \/ StreamEnds(o)
  \/ ChildExits(o)

McpNext ==
  \/ ServerEdits
  \/ \E o \in Operations :
       \/ \E s \in Servers, work \in {"connect", "call"} : OperationOpens(o, s, work)
       \/ OperationSteps(o)
       \/ OperationIsStopped(o)
       \/ ServerSteps(o)

\* The event loop runs a task that can go on, and its timers; nothing is asked of servers.
McpFairness == \A o \in Operations : WF_mcpVars(OperationSteps(o))

McpSpec == McpInit /\ [][McpNext]_mcpVars /\ McpFairness

-----------------------------------------------------------------------------

(* An operation that is over has let go of its child, its reader, its      *)
(* session and its HTTP client, however it ended and whatever the server   *)
(* did, unless a stop cut close() itself short (McpManager.connect,        *)
(* call_tool, the clients' close).                                         *)
OperationsLetGo ==
  \A o \in Operations :
    op[o].stage \in {"saving", "over"} /\ ~op[o].cut => op[o].held = {}

(* Over HTTP+SSE nobody waits for a response on a stream nobody reads: if  *)
(* it ends, the pending request fails at once (mcp/sse.py _fail).          *)
DeadStreamsStrandNobody ==
  \A o \in Operations :
    op[o].via = "sse" /\ op[o].stage \in {"opening", "asking"} /\ "reader" \notin op[o].held
      => op[o].failed /\ (op[o].stage = "asking" => op[o].future # "open")

(* A result is the server's response to that very request, whatever it     *)
(* repeats or sends late (_dispatch, _resolve, _read_response).            *)
ResultsAnswerTheirRequest ==
  \A o \in Operations :
    /\ op[o].future = "answered" /\ op[o].stage = "asking" => op[o].asked \in op[o].answered
    /\ op[o].outcome = "ok" => 2 \in op[o].answered

(* What connect and call_tool leave behind, and what they return: all of   *)
(* the above.                                                              *)
ConnectionsInv == McpTypeOK /\ OperationsLetGo /\ DeadStreamsStrandNobody /\ ResultsAnswerTheirRequest

(* Every operation comes to an end, though its server never answers, hangs *)
(* up, or ignores the signal to end (_CALL_TIMEOUT_S, _REQUEST_TIMEOUT_S,  *)
(* kill after terminate).                                                  *)
OperationsEnd ==
  \A o \in Operations : op[o].stage # "idle" ~> op[o].stage = "over"

(* "never leaking a subprocess or a stale session" (mcp/manager.py:10-12): *)
(* what the module says of every operation.                                *)
NeverLeaks == \A o \in Operations : op[o].stage = "over" => op[o].held = {}
=============================================================================
