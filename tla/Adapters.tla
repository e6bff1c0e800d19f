------------------------------ MODULE Adapters ------------------------------
(***************************************************************************)
(* One turn's rounds of generation against a backend, for each of the four *)
(* adapters (providers/ollama.py, openai_compat.py, anthropic.py,          *)
(* llamacpp.py): the backend's frames as they are translated into stream   *)
(* events, the queue between the adapter and the turn (_pump), the tool    *)
(* calls put together from their fragments, and the messages of the next   *)
(* round (services/chat.py).  The second part is the capability cache an   *)
(* adapter keeps about its backend's models.                               *)
(*                                                                         *)
(* The backend follows its protocol, but may fail or go away at any frame. *)
(***************************************************************************)
EXTENDS Naturals, Sequences, FiniteSets, SequencesExt

CONSTANTS
  MaxTexts,     \* bound: texts of one round
  MaxCalls,     \* bound: tool calls of one round
  MaxParts,     \* bound: argument fragments of one call
  MaxRounds,    \* MAX_TOOL_ITERATIONS
  QueueSize,    \* maxsize of the queue in _pump
  Probers,      \* requests that ask for a model's capabilities
  MaxVersions   \* bound: changes made to a model

ASSUME AdaptersAssumption ==
  /\ MaxTexts \in Nat /\ MaxCalls \in Nat /\ MaxParts \in Nat /\ MaxVersions \in Nat
  /\ MaxRounds \in Nat \ {0} /\ QueueSize \in Nat \ {0}

AdapterKinds == {"ollama", "openai", "anthropic", "llamacpp"}
CallIndexes == 1 .. MaxCalls

VARIABLES
  wire,      \* the adapter, and whether its backend gives calls an id
  backend,   \* what the backend has sent in this round
  stream,    \* the local variables of stream_chat
  queue,     \* the events between the adapter and the turn
  round,     \* the local variables of the turn's round
  turn,      \* the turn: its rounds, its messages, its status
  caps       \* the capability cache

adapterVars == <<wire, backend, stream, queue, round, turn, caps>>
streamVars == <<wire, backend, stream, queue, round, turn>>

----------------------------------------------------------------------------
\* Errors: the class each adapter raises, and whether the turn catches it.

Typed(code) == [kind |-> "raise", code |-> code, caught |-> TRUE]

\* httpx raises more than ConnectError and TimeoutException once a stream is
\* open (ReadError, RemoteProtocolError); those leave the adapter as they are.
Untyped == [kind |-> "raise", code |-> "internal", caught |-> FALSE]

\* What a refusal says, as each adapter reads it: by its wording, by the class the
\* server names, or by the status first.
OllamaError(wording) ==
  IF wording = "not found" THEN "model_not_found"
  ELSE IF wording = "memory" THEN "out_of_memory" ELSE "upstream_error"

LlamaCppError(wording) == IF wording = "context" THEN "context_overflow" ELSE "upstream_error"

OpenAIError(status, wording) ==
  CASE status \in {401, 403} -> "invalid_credentials"
    [] status = 429 -> IF wording = "quota" THEN "quota_exceeded" ELSE "rate_limited"
    [] status \notin {401, 403, 429} /\ wording = "context" -> "context_overflow"
    [] status \notin {401, 403, 429} /\ wording = "memory" -> "out_of_memory"
    [] status = 503 /\ wording = "load" -> "model_loading"
    [] status = 404 /\ wording = "not found" -> "model_not_found"
    [] OTHER -> "upstream_error"

AnthropicError(status, wording) ==
  CASE wording = "quota" -> "quota_exceeded"
    [] wording # "quota" /\ status \in {401, 403} -> "invalid_credentials"
    [] wording # "quota" /\ status = 429 -> "rate_limited"
    [] wording = "context" -> "context_overflow"
    [] status = 404 -> "model_not_found"
    [] OTHER -> "upstream_error"

RefusalAnswers == {<<401, "key">>, <<404, "not found">>, <<429, "quota">>, <<503, "load">>,
                   <<400, "context">>, <<500, "memory">>}

Refusals ==
  { CASE wire.kind = "ollama" -> OllamaError(answer[2])
      [] wire.kind = "llamacpp" -> LlamaCppError(answer[2])
      [] wire.kind = "openai" -> OpenAIError(answer[1], answer[2])
      [] wire.kind = "anthropic" -> AnthropicError(answer[1], answer[2]) : answer \in RefusalAnswers }

----------------------------------------------------------------------------
\* One round.

NoBackend == [texts |-> 0, calls |-> <<>>, finished |-> FALSE, over |-> FALSE]
NoStream == [open |-> FALSE, started |-> FALSE, finish |-> "stop", usage |-> FALSE,
             known |-> [i \in CallIndexes |-> {}], tools |-> FALSE]
NoRound == [texts |-> 0, calls |-> <<>>, usage |-> 0, finish |-> "stop"]

AdaptersInit ==
  /\ wire \in [kind : AdapterKinds, ids : BOOLEAN]
  /\ wire.kind \in {"ollama", "anthropic", "llamacpp"} => wire.ids = (wire.kind = "anthropic")
  /\ backend = NoBackend /\ stream = NoStream /\ queue = <<>> /\ round = NoRound
  /\ turn = [round |-> 1, status |-> "error", stage |-> "reading", messages |-> <<>>, code |-> "none"]
  /\ caps = [real |-> 0, cached |-> {}, changing |-> "none", raced |-> FALSE,
             probe |-> [p \in Probers |-> [stage |-> "idle", version |-> 0]]]

\* drain puts each event of a frame in turn, and waits while the queue is full.
Puts(events) ==
  /\ Len(queue) < QueueSize
  /\ queue' = queue \o events

Started == IF stream.started THEN <<>> ELSE <<[kind |-> "status"]>>

\* The request is refused, or the host does not answer.
StreamOpens ==
  /\ turn.stage = "reading" /\ ~stream.open /\ ~backend.over
  /\ stream' = [stream EXCEPT !.open = TRUE]
  /\ UNCHANGED <<wire, backend, queue, round, turn, caps>>

StreamIsRefused ==
  /\ turn.stage = "reading" /\ ~stream.open /\ ~backend.over
  /\ \E code \in Refusals \cup {"backend_offline", "backend_timeout"} : Puts(<<Typed(code)>>)
  /\ backend' = [backend EXCEPT !.over = TRUE]
  /\ UNCHANGED <<wire, stream, round, turn, caps>>

Sends(kinds) == turn.stage = "reading" /\ stream.open /\ ~backend.over /\ wire.kind \in kinds

\* Text or reasoning: the first one says that generation started.
TextFrame(kind) ==
  /\ ~backend.finished /\ backend.texts < MaxTexts
  /\ backend' = [backend EXCEPT !.texts = @ + 1]
  /\ Puts(Started \o <<[kind |-> kind]>>)
  /\ stream' = [stream EXCEPT !.started = TRUE]
  /\ UNCHANGED <<wire, round, turn, caps>>

CallEvent(known, parts) == [kind |-> "call", id |-> known.id, name |-> known.name, parts |-> parts]

\* A call begins with so many of its fragments, and the adapter remembers its id.
CallOpens(known, parts) ==
  LET i == Len(backend.calls) + 1
  IN /\ ~backend.finished /\ i <= MaxCalls
     /\ backend' = [backend EXCEPT !.calls = Append(@, parts)]
     /\ stream' = [stream EXCEPT !.known[i] = {known}, !.tools = TRUE,
                                 !.started = @ \/ wire.kind # "anthropic"]
     /\ UNCHANGED <<wire, round, turn, caps>>

NewCall(id) == [id |-> id, name |-> Len(backend.calls) + 1]

\* One more fragment of a call that is open, named by its index alone.
CallGoesOn(i) ==
  LET n == backend.calls[i] + 1
  IN /\ ~backend.finished /\ n <= MaxParts
     /\ backend' = [backend EXCEPT !.calls[i] = n]
     /\ \E known \in stream.known[i] : Puts(<<CallEvent(known, <<<<i, n>>>>)>>)
     /\ UNCHANGED <<wire, stream, round, turn, caps>>

\* Why generation stopped, before the end of the stream: after calls it asks for tools, unless it
\* ran out of its length.  Tokens may be counted.
FinishFrame(counted) ==
  /\ ~backend.finished
  /\ backend' = [backend EXCEPT !.finished = TRUE]
  /\ \E reason \in {IF backend.calls = <<>> THEN "stop" ELSE "tool_calls", "length"} :
       stream' = [stream EXCEPT !.usage = counted, !.finish = reason]
  /\ UNCHANGED <<wire, queue, round, turn, caps>>

Finished(finish, usage) ==
  (IF usage THEN <<[kind |-> "usage"]>> ELSE <<>>) \o <<[kind |-> "done", finish |-> finish], [kind |-> "over"]>>

\* The last frame.
EndFrame(finish, usage) ==
  /\ backend' = [backend EXCEPT !.finished = TRUE, !.over = TRUE]
  /\ Puts(Finished(finish, usage))
  /\ UNCHANGED <<wire, stream, round, turn, caps>>

\* Ollama sends a call whole, under an id that is minted for it, and reports "stop"
\* even when all it did was ask for a tool.
OllamaFinish(reason) == IF stream.tools THEN "tool_calls" ELSE reason

OllamaFrames ==
  /\ Sends({"ollama"})
  /\ \/ \E kind \in {"text", "thought"} : TextFrame(kind)
     \/ LET call == NewCall(<<"id", turn.round, Len(backend.calls) + 1>>)
        IN /\ CallOpens(call, MaxParts)
           /\ Puts(Started \o <<CallEvent(call, [n \in 1 .. MaxParts |-> <<call.name, n>>])>>)
     \/ \E reason \in {"stop", "length"} : EndFrame(OllamaFinish(reason), TRUE)

\* OpenAI-style servers send a call's id and name with its first fragment, some send
\* no id at all, and the fragments of several calls may alternate.
OpenAIFrames ==
  /\ Sends({"openai"})
  /\ \/ \E kind \in {"text", "thought"} : TextFrame(kind)
     \/ LET i == Len(backend.calls) + 1
            call == NewCall(IF wire.ids THEN <<"id", turn.round, i>> ELSE <<"call", 0, i>>)
        IN /\ CallOpens(call, 0)
           /\ Puts(Started \o <<CallEvent(call, <<>>)>>)
     \/ \E i \in DOMAIN backend.calls : CallGoesOn(i)
     \/ \E counted \in BOOLEAN : FinishFrame(counted)
     \/ backend.finished /\ EndFrame(stream.finish, stream.usage)

\* Anthropic names a call in a frame of its own, which yields nothing, and finishes
\* one content block before the next.
AnthropicFrames ==
  LET i == Len(backend.calls)
  IN /\ Sends({"anthropic"})
     /\ \/ \E kind \in {"text", "thought"} : TextFrame(kind)
        \/ /\ i > 0 => backend.calls[i] > 0
           /\ CallOpens(NewCall(<<"id", turn.round, i + 1>>), 0)
           /\ UNCHANGED queue
        \/ i > 0 /\ CallGoesOn(i)
        \/ (i > 0 => backend.calls[i] > 0) /\ FinishFrame(TRUE)
        \/ backend.finished /\ EndFrame(stream.finish, TRUE)

LlamaCppFrames ==
  /\ Sends({"llamacpp"})
  /\ \/ TextFrame("text")
     \/ \E reason \in {"stop", "length"} : EndFrame(reason, TRUE)

\* The connection is closed in good order before the last frame: the loops over
\* its lines just end, and two of the adapters then report that all is done.
ClosedEarly ==
  /\ Sends(AdapterKinds)
  /\ backend' = [backend EXCEPT !.over = TRUE]
  /\ Puts(CASE wire.kind = "openai" -> Finished(stream.finish, stream.usage)
            [] wire.kind = "anthropic" -> Finished(stream.finish, TRUE)
            [] OTHER -> <<[kind |-> "over"]>>)
  /\ UNCHANGED <<wire, stream, round, turn, caps>>

\* An error frame inside the stream, a silence past the timeout, a lost connection.
StreamFails ==
  /\ Sends(AdapterKinds)
  /\ backend' = [backend EXCEPT !.over = TRUE]
  /\ \/ \E code \in Refusals \cup {"backend_timeout"} : Puts(<<Typed(code)>>)
     \/ Puts(<<Untyped>>)
  /\ UNCHANGED <<wire, stream, round, turn, caps>>

----------------------------------------------------------------------------
\* The turn takes the events from the queue.

Event == Head(queue)

Takes(kind) ==
  /\ turn.stage = "reading" /\ queue # <<>> /\ Event.kind = kind
  /\ queue' = Tail(queue)
  /\ UNCHANGED <<wire, caps>>

TakesText ==
  /\ \E kind \in {"text", "thought", "status"} : Takes(kind)
  /\ round' = [round EXCEPT !.texts = IF Event.kind = "status" THEN @ ELSE @ + 1]
  /\ UNCHANGED <<backend, stream, turn>>

\* One buffer for each call id, in the order the ids first appear.
Gathered(calls, e) ==
  IF \E k \in DOMAIN calls : calls[k].id = e.id
  THEN [k \in DOMAIN calls |->
          IF calls[k].id = e.id
          THEN [id |-> e.id, name |-> calls[k].name, parts |-> calls[k].parts \o e.parts]
          ELSE calls[k]]
  ELSE Append(calls, [id |-> e.id, name |-> e.name, parts |-> e.parts])

TakesCall ==
  /\ Takes("call")
  /\ round' = [round EXCEPT !.calls = Gathered(@, Event)]
  /\ UNCHANGED <<backend, stream, turn>>

TakesUsage ==
  /\ Takes("usage")
  /\ round' = [round EXCEPT !.usage = @ + 1]
  /\ UNCHANGED <<backend, stream, turn>>

TakesDone ==
  /\ Takes("done")
  /\ round' = [round EXCEPT !.finish = Event.finish]
  /\ turn' = [turn EXCEPT !.status = "complete"]
  /\ UNCHANGED <<backend, stream>>

\* _detect_tool_calls, with the tools offered natively.
Detected == IF round.finish = "tool_calls" THEN round.calls ELSE <<>>

Asked(calls) == [role |-> "assistant", calls |-> [k \in DOMAIN calls |-> <<calls[k].id, calls[k].name>>]]
Result(call) == [role |-> "tool", id |-> call.id, name |-> call.name]

\* Mutant: one result for several calls.
RoundEnds_FirstCallOnly ==
  /\ Takes("over")
  /\ IF Detected # <<>> /\ turn.round < MaxRounds
     THEN /\ turn' = [turn EXCEPT !.round = @ + 1,
                !.messages = @ \o <<Asked(Detected), Result(Detected[1])>>]
          /\ backend' = NoBackend /\ stream' = NoStream /\ round' = NoRound
     ELSE /\ turn' = [turn EXCEPT !.stage = "over"]
          /\ UNCHANGED <<backend, stream, round>>

\* The end of a round: with calls, their results are appended and the next one
\* begins, unless it was the last the turn may have.
RoundEnds ==
  /\ Takes("over")
  /\ IF Detected # <<>> /\ turn.round < MaxRounds
     THEN /\ turn' = [turn EXCEPT !.round = @ + 1,
                !.messages = @ \o <<Asked(Detected)>> \o [k \in DOMAIN Detected |-> Result(Detected[k])]]
          /\ backend' = NoBackend /\ stream' = NoStream /\ round' = NoRound
     ELSE /\ turn' = [turn EXCEPT !.stage = "over"]
          /\ UNCHANGED <<backend, stream, round>>

\* A ProviderError ends the turn as failed; anything else ends it as it stood.
TakesError ==
  /\ Takes("raise")
  /\ turn' = [turn EXCEPT !.stage = "over", !.code = Event.code,
                          !.status = IF Event.caught THEN "error" ELSE @]
  /\ UNCHANGED <<backend, stream, round>>

\* The turn is stopped: what the queue held is gone with its reader.
TurnIsStopped ==
  /\ turn.stage = "reading"
  /\ turn' = [turn EXCEPT !.stage = "over", !.status = "stopped"]
  /\ queue' = <<>>
  /\ UNCHANGED <<wire, backend, stream, round, caps>>

\* The request each adapter makes of a message: what ties a result to its call there.
\* Ollama knows a call by its name alone, llama.cpp is sent the text alone.
OpenAITies(m) == IF m.role = "tool" THEN {m.id} ELSE {m.calls[k][1] : k \in DOMAIN m.calls}
AnthropicTies(m) == OpenAITies(m)
OllamaTies(m) == IF m.role = "tool" THEN {m.name} ELSE {m.calls[k][2] : k \in DOMAIN m.calls}

Encoded(m) ==
  CASE wire.kind = "openai" -> OpenAITies(m)
    [] wire.kind = "anthropic" -> AnthropicTies(m)
    [] wire.kind = "ollama" -> OllamaTies(m)
    [] wire.kind = "llamacpp" -> {}

----------------------------------------------------------------------------
\* The capabilities of a model, cached for the life of the process: a model that
\* is pulled again, created, copied over or deleted is forgotten.

ProbeBegins(p) ==
  /\ caps.probe[p].stage = "idle" /\ caps.cached = {}
  /\ caps' = [caps EXCEPT !.probe[p].stage = "asked"]
  /\ UNCHANGED streamVars

ProbeIsAnswered(p) ==
  /\ caps.probe[p].stage = "asked"
  /\ \E failed \in BOOLEAN :
       caps' = [caps EXCEPT !.probe[p] =
         [stage |-> IF failed THEN "idle" ELSE "answered", version |-> caps.real]]
  /\ UNCHANGED streamVars

ProbeStores(p) ==
  /\ caps.probe[p].stage = "answered"
  /\ caps' = [caps EXCEPT !.cached = {caps.probe[p].version}, !.probe[p].stage = "idle"]
  /\ UNCHANGED streamVars

\* A pull or a creation is a transfer; a deletion and a copy are plain requests.
ModelIsChanged ==
  /\ caps.changing = "none" /\ caps.real < MaxVersions
  /\ \E by \in {"transfer", "request"} : caps' = [caps EXCEPT !.real = @ + 1, !.changing = by]
  /\ UNCHANGED streamVars

\* _forget, in the finally of a transfer and after a delete or a copy that was answered.
Forgotten ==
  /\ caps.changing # "none"
  /\ caps' = [caps EXCEPT !.cached = {}, !.changing = "none",
                          !.raced = @ \/ \E p \in Probers : caps.probe[p].stage = "answered"]
  /\ UNCHANGED streamVars

\* A delete or a copy that was carried out and whose answer did not come: nothing is forgotten.
AnswerIsLost ==
  /\ caps.changing = "request"
  /\ caps' = [caps EXCEPT !.changing = "none", !.raced = TRUE]
  /\ UNCHANGED streamVars

----------------------------------------------------------------------------

StreamSteps ==
  \/ StreamOpens \/ StreamIsRefused
  \/ OllamaFrames \/ OpenAIFrames \/ AnthropicFrames \/ LlamaCppFrames
  \/ ClosedEarly \/ StreamFails
  \/ TakesText \/ TakesCall \/ TakesUsage \/ TakesDone \/ RoundEnds \/ TakesError \/ TurnIsStopped

CapsSteps ==
  \/ \E p \in Probers : ProbeBegins(p) \/ ProbeIsAnswered(p) \/ ProbeStores(p)
  \/ ModelIsChanged \/ Forgotten \/ AnswerIsLost

AdaptersNext == StreamSteps \/ CapsSteps
AdaptersSpec == AdaptersInit /\ [][AdaptersNext]_adapterVars

----------------------------------------------------------------------------
\* Properties.

\* Types, and the events of a stream: nothing follows its end, an error or "done".
AdaptersTypeOK ==
  /\ turn.status \in {"error", "complete", "stopped"} /\ turn.round \in 1 .. MaxRounds
  /\ Len(queue) <= QueueSize + 3
  /\ \A k \in DOMAIN queue :
       /\ queue[k].kind \in {"over", "raise"} => k = Len(queue)
       /\ queue[k].kind = "done" => k = Len(queue) - 1

\* A round whose backend finished it is read whole by the turn: every text, and
\* every call under one id with its own fragments in order, however the
\* fragments of several calls were interleaved; and when it made calls, the turn
\* does not take it for one that just stopped: it runs them, unless the backend
\* said that it ran out of its length.
RoundsAreReadWhole ==
  turn.stage = "reading" /\ queue = <<[kind |-> "over"]>> /\ backend.finished =>
    /\ round.texts = backend.texts
    /\ Len(round.calls) = Len(backend.calls)
    /\ \A k \in DOMAIN round.calls :
         round.calls[k].name = k /\ round.calls[k].parts = [n \in 1 .. backend.calls[k] |-> <<k, n>>]
    /\ backend.calls # <<>> => round.finish # "stop"

\* In the request of a later round every call of an assistant message has one
\* result before the next one, tied to it in the terms of that adapter, and no
\* result stands without its call: a backend refuses such a conversation.
EveryCallIsAnsweredOnce ==
  \A k \in DOMAIN turn.messages :
    LET m == turn.messages[k]
        results == {j \in k + 1 .. Len(turn.messages) :
                      \A i \in k + 1 .. j : turn.messages[i].role = "tool"}
    IN m.role = "assistant" /\ wire.kind # "llamacpp" =>
         /\ Cardinality(results) = Len(m.calls)
         /\ UNION {Encoded(turn.messages[j]) : j \in results} = Encoded(m)

\* The cache outlives a change of the model only when an answer from before the
\* change was on its way to be stored, or the answer to a delete or a copy got lost
\* (capabilities, _forget).
CapabilitiesStaleOnlyByRace ==
  caps.changing = "none" /\ ~caps.raced => \A version \in caps.cached : version = caps.real

\* What the turn loop may count on from every adapter: all of the above.
AdaptersInv == AdaptersTypeOK /\ RoundsAreReadWhole /\ EveryCallIsAnsweredOnce /\ CapabilitiesStaleOnlyByRace

\* A reply recorded as complete was finished by its backend.
CompleteTurnsWereFinished == turn.stage = "over" /\ turn.status = "complete" => backend.finished
=============================================================================
