------------------------------ MODULE TurnStream ------------------------------
(***************************************************************************)
(* One turn's generator: PreparedTurn.stream and _run_tool_call of         *)
(* services/chat.py, with the splitter of services/think_split.py, the     *)
(* approval gate of mcp/manager.py as one turn sees it, and a reader that  *)
(* follows the frames to their end (frontend conversation.svelte.ts).      *)
(*                                                                         *)
(* A step runs to the next yield or the next await.  A cancellation lands  *)
(* only at an await (the pump's queue, an approval, a tool, the shielded   *)
(* finalizer); the broker's overflow abandons the generator only at a      *)
(* yield.  A piece of text is a token; usage accounting, status frames and *)
(* heartbeats are left out.                                                *)
(***************************************************************************)
EXTENDS Integers, Sequences

CONSTANTS
  Tokens,         \* pieces of text a model emits
  Names,          \* tool names a model may ask for
  CallIn,         \* the tool a token's <tool_call> block names, or None
  ToolKind,       \* tool_index: how each offered name runs
  CallIds,        \* ids a backend gives its native calls
  Native,         \* native_tools
  MaxIterations,  \* MAX_TOOL_ITERATIONS
  MaxPieces,      \* bound: pieces of text and reasoning in a turn
  None

Kinds == {"builtin", "never", "once", "always"}

ASSUME StreamAssumption ==
  /\ Native \in BOOLEAN
  /\ MaxIterations \in Nat \ {0}
  /\ MaxPieces \in Nat
  /\ DOMAIN ToolKind \subseteq Names
  /\ ToolKind \in [DOMAIN ToolKind -> Kinds]
  /\ CallIn \in [Tokens -> Names \cup {None}]
  /\ None \notin Names \cup CallIds \cup Nat

VARIABLES
  phase,          \* where the generator is suspended
  round,          \* iteration
  finish,         \* round_finish
  splitter,       \* ThinkSplitter: no tag yet, inside a block, or after one
  roundText,      \* round_text_parts
  calls,          \* native_calls, then the calls still to run
  gate,           \* how the announced call will run, then how it ended
  status,         \* the status to persist
  text,           \* StreamWriter.text
  thoughts,       \* reasoning_parts
  trace,          \* tool_trace
  messages,       \* what the loop appended to the request's messages
  exit,           \* how the generator leaves its try block
  kept,           \* what the finalizer was given
  shownText, shownThoughts, shownTrace,  \* the reader's reply, reasoning and tool trace
  prompt,         \* the reader's pendingApproval
  shownStatus     \* the reader's message status

loop   == <<round, finish, splitter, roundText, calls, gate>>
reply  == <<status, text, thoughts, trace, messages>>
ending == <<exit, kept>>
reader == <<shownText, shownThoughts, shownTrace, prompt, shownStatus>>
vars   == <<phase, loop, reply, ending, reader>>

Awaits == {"reading", "drained", "approval", "executing"}
Yields == {"reading", "announced", "asked", "answered", "finishing"}
Phases == Awaits \cup Yields \cup {"calling", "finalizing", "ended"}

\* A native call keeps the backend's id; an emulated one gets a fresh one per round.
Ids     == CallIds \cup 0..MaxIterations
Call    == [id : Ids, name : Names]
Result  == [id : Ids, name : Names, ok : BOOLEAN]
Finishes == {"stop", "tool_calls"}
Statuses == {"complete", "stopped", "error"}
Message == [role : {"assistant", "tool"}, ids : Seq(Ids)]
Kept    == [status : Statuses, text : Seq(Tokens), thoughts : Seq(Tokens), trace : Seq(Result)]

ASSUME NoneAssumption == None \notin Kept \cup Call

TypeOK ==
  /\ phase \in Phases
  /\ round \in 0..(MaxIterations - 1)
  /\ finish \in Finishes
  /\ splitter \in {"plain", "think", "closed"}
  /\ roundText \in Seq(Tokens)
  /\ calls \in Seq(Call)
  /\ gate \in {"run", "wait", "unknown", "ok", "failed"}
  /\ status \in Statuses
  /\ text \in Seq(Tokens)
  /\ thoughts \in Seq(Tokens)
  /\ trace \in Seq(Result)
  /\ messages \in Seq(Message)
  /\ exit \in {"running", "returned", "raised", "cancelled", "abandoned", "lost"}
  /\ kept \in Kept \cup {None}
  /\ shownText \in Seq(Tokens)
  /\ shownThoughts \in Seq(Tokens)
  /\ shownTrace \in Seq(Result)
  /\ prompt \in Ids \cup {None}
  /\ shownStatus \in {"streaming", "complete", "error"}

Init ==
  /\ phase = "reading"
  /\ round = 0
  /\ finish = "stop"
  /\ splitter = "plain"
  /\ roundText = << >>
  /\ calls = << >>
  /\ gate = "run"
  /\ status = "error"
  /\ text = << >> /\ thoughts = << >> /\ trace = << >> /\ messages = << >>
  /\ exit = "running"
  /\ kept = None
  /\ shownText = << >> /\ shownThoughts = << >> /\ shownTrace = << >>
  /\ prompt = None
  /\ shownStatus = "streaming"

-----------------------------------------------------------------------------
(* The reader: what each frame does to the message on its screen. *)

DropLast(s, n) == SubSeq(s, 1, Len(s) - n)
EndsWith(s, e) == Len(e) <= Len(s) /\ SubSeq(s, Len(s) - Len(e) + 1, Len(s)) = e

OnDelta(x) ==
  /\ shownText' = Append(shownText, x)
  /\ UNCHANGED <<shownThoughts, shownTrace, prompt, shownStatus>>

OnReasoning(x) ==
  /\ shownThoughts' = Append(shownThoughts, x)
  /\ UNCHANGED <<shownText, shownTrace, prompt, shownStatus>>

OnRetract(moved) ==
  /\ shownText' = IF EndsWith(shownText, moved) THEN DropLast(shownText, Len(moved)) ELSE << >>
  /\ shownThoughts' = shownThoughts \o moved
  /\ UNCHANGED <<shownTrace, prompt, shownStatus>>

OnToolCall(id, waits) ==
  /\ prompt' = IF waits THEN id ELSE None
  /\ UNCHANGED <<shownText, shownThoughts, shownTrace, shownStatus>>

OnToolResult(r) ==
  /\ shownTrace' = Append(shownTrace, r)
  /\ prompt' = IF prompt = r.id THEN None ELSE prompt
  /\ UNCHANGED <<shownText, shownThoughts, shownStatus>>

OnError ==
  /\ shownStatus' = "error"
  /\ UNCHANGED <<shownText, shownThoughts, shownTrace, prompt>>

\* The log of frames ends; the broker adds an error first when the generator raised
\* or overflowed.
OnEnd(how) ==
  /\ shownStatus' = IF how \in {"raised", "abandoned", "lost"} \/ shownStatus = "error"
                    THEN "error" ELSE "complete"
  /\ UNCHANGED <<shownText, shownThoughts, shownTrace, prompt>>

-----------------------------------------------------------------------------
(* Leaving the try block: the finally spawns the finalizer and awaits it. *)

Leave(how, s) ==
  /\ phase' = "finalizing"
  /\ exit' = how
  /\ status' = s
  /\ kept' = [status |-> s, text |-> text, thoughts |-> thoughts, trace |-> trace]
  /\ UNCHANGED <<loop, text, thoughts, trace, messages>>

(* One round: the pump yields the backend's events in order. *)

Reads == phase = "reading" /\ Len(text) + Len(thoughts) < MaxPieces

Answer(x) ==
  /\ Reads
  /\ splitter # "think"
  /\ roundText' = Append(roundText, x)
  /\ text' = Append(text, x)
  /\ OnDelta(x)
  /\ UNCHANGED <<phase, round, finish, splitter, calls, gate, status, thoughts, trace,
                 messages, ending>>

\* Inside a think block, or a backend that reports its reasoning apart.
Think(x) ==
  /\ Reads
  /\ thoughts' = Append(thoughts, x)
  /\ OnReasoning(x)
  /\ UNCHANGED <<phase, loop, status, text, trace, messages, ending>>

OpenTag ==
  /\ phase = "reading"
  /\ splitter # "think"
  /\ splitter' = "think"
  /\ UNCHANGED <<phase, round, finish, roundText, calls, gate, reply, ending, reader>>

CloseTag ==
  /\ phase = "reading"
  /\ splitter = "think" \/ (splitter = "plain" /\ roundText = << >>)
  /\ splitter' = "closed"
  /\ UNCHANGED <<phase, round, finish, roundText, calls, gate, reply, ending, reader>>

\* Mutant: the retraction takes back the whole reply, not only this round's.
Retract_WholeReply ==
  /\ phase = "reading"
  /\ splitter = "plain"
  /\ roundText # << >>
  /\ splitter' = "closed"
  /\ roundText' = << >>
  /\ text' = << >>
  /\ thoughts' = thoughts \o roundText
  /\ OnRetract(roundText)
  /\ UNCHANGED <<phase, round, finish, calls, gate, status, trace, messages, ending>>

\* A closing tag before any opening one: what the round said so far was reasoning.
Retract ==
  /\ phase = "reading"
  /\ splitter = "plain"
  /\ roundText # << >>
  /\ splitter' = "closed"
  /\ roundText' = << >>
  /\ text' = DropLast(text, Len(roundText))
  /\ thoughts' = thoughts \o roundText
  /\ OnRetract(roundText)
  /\ UNCHANGED <<phase, round, finish, calls, gate, status, trace, messages, ending>>

\* ToolCallDelta; later fragments of a call already seen only extend its arguments.
NativeCall(c) ==
  /\ phase = "reading"
  /\ \A i \in 1..Len(calls) : calls[i].id # c.id
  /\ calls' = Append(calls, c)
  /\ UNCHANGED <<phase, round, finish, splitter, roundText, gate, reply, ending, reader>>

\* The backend's Done event: every adapter ends its stream after it, if it sends it at all.
Reports(f) ==
  /\ phase = "reading"
  /\ phase' = "drained"
  /\ finish' = f
  /\ status' = "complete"
  /\ UNCHANGED <<round, splitter, roundText, calls, gate, text, thoughts, trace,
                 messages, ending, reader>>

\* parse_tool_call: the first block of the round's text; at most one call a round.
FirstBlock ==
  {i \in 1..Len(roundText) : /\ CallIn[roundText[i]] # None
                             /\ \A j \in 1..(i - 1) : CallIn[roundText[j]] = None}

EmulatedCalls ==
  IF FirstBlock = {} THEN << >>
  ELSE << [id |-> round, name |-> CallIn[roundText[CHOOSE i \in FirstBlock : TRUE]]] >>

Detected ==
  IF DOMAIN ToolKind = {} \/ (Native /\ finish # "tool_calls") THEN << >>
  ELSE IF Native THEN calls ELSE EmulatedCalls

LastRound == Detected = << >> \/ round = MaxIterations - 1

StreamOver == phase \in {"reading", "drained"}

\* Yields the usage frame.
StreamEnds ==
  /\ StreamOver
  /\ LastRound
  /\ phase' = "finishing"
  /\ UNCHANGED <<loop, reply, ending, reader>>

IdsOf(cs) == [i \in 1..Len(cs) |-> cs[i].id]

ToolRound ==
  /\ StreamOver
  /\ ~LastRound
  /\ phase' = "calling"
  /\ calls' = Detected
  /\ messages' = Append(messages, [role |-> "assistant", ids |-> IdsOf(Detected)])
  /\ UNCHANGED <<round, finish, splitter, roundText, gate, status, text, thoughts, trace,
                 ending, reader>>

SendDone ==
  /\ phase = "finishing"
  /\ Leave("returned", status)
  /\ UNCHANGED reader

-----------------------------------------------------------------------------
(* _run_tool_call, for each call of the round in turn. *)

\* McpManager.gate; `once` remembers approvals any turn was given.
Gates(name) ==
  IF name \notin DOMAIN ToolKind THEN {"unknown"}
  ELSE CASE ToolKind[name] \in {"builtin", "never"} -> {"run"}
         [] ToolKind[name] = "always" -> {"wait"}
         [] ToolKind[name] = "once" -> {"run", "wait"}

Announce ==
  /\ phase = "calling"
  /\ calls # << >>
  /\ phase' = "announced"
  /\ gate' \in Gates(Head(calls).name)
  /\ OnToolCall(Head(calls).id, gate' = "wait")
  /\ UNCHANGED <<round, finish, splitter, roundText, calls, reply, ending>>

\* register_pending comes before the yield of the tool_wait frame.
AsksFirst ==
  /\ phase = "announced" /\ gate = "wait"
  /\ phase' = "asked"
  /\ UNCHANGED <<loop, reply, ending, reader>>

RunsAtOnce ==
  /\ phase = "announced" /\ gate = "run"
  /\ phase' = "executing"
  /\ UNCHANGED <<loop, reply, ending, reader>>

Waits ==
  /\ phase = "asked"
  /\ phase' = "approval"
  /\ UNCHANGED <<loop, reply, ending, reader>>

Approved ==
  /\ phase = "approval"
  /\ phase' = "executing"
  /\ UNCHANGED <<loop, reply, ending, reader>>

\* Yields the tool_result frame.
YieldResult(ok) ==
  /\ phase' = "answered"
  /\ gate' = IF ok THEN "ok" ELSE "failed"
  /\ OnToolResult([id |-> Head(calls).id, name |-> Head(calls).name, ok |-> ok])
  /\ UNCHANGED <<round, finish, splitter, roundText, calls, reply, ending>>

UnknownTool == phase = "announced" /\ gate = "unknown" /\ YieldResult(FALSE)
Rejected    == phase = "approval" /\ YieldResult(FALSE)
\* Mutant: a wait without a deadline.
TimesOut_Never == FALSE

TimesOut    == phase = "approval" /\ YieldResult(FALSE)
ToolReturns(ok) == phase = "executing" /\ YieldResult(ok)

ResultMessage(c) == [role |-> "tool", ids |-> <<c.id>>]

\* Mutant: a failed call is not reported back to the model.
Record_OnlyOk ==
  /\ phase = "answered"
  /\ trace' = Append(trace, [id |-> Head(calls).id, name |-> Head(calls).name, ok |-> gate = "ok"])
  /\ messages' = IF gate = "ok" THEN Append(messages, ResultMessage(Head(calls))) ELSE messages
  /\ calls' = Tail(calls)
  /\ phase' = "calling"
  /\ UNCHANGED <<round, finish, splitter, roundText, gate, status, text, thoughts, ending, reader>>

Record ==
  /\ phase = "answered"
  /\ trace' = Append(trace, [id |-> Head(calls).id, name |-> Head(calls).name, ok |-> gate = "ok"])
  /\ messages' = Append(messages, ResultMessage(Head(calls)))
  /\ calls' = Tail(calls)
  /\ phase' = "calling"
  /\ UNCHANGED <<round, finish, splitter, roundText, gate, status, text, thoughts, ending, reader>>

NextRound ==
  /\ phase = "calling"
  /\ calls = << >>
  /\ phase' = "reading"
  /\ round' = round + 1
  /\ finish' = "stop"
  /\ splitter' = "plain"
  /\ roundText' = << >>
  /\ UNCHANGED <<calls, gate, reply, ending, reader>>

-----------------------------------------------------------------------------
(* How a turn can end other than by its own last round. *)

\* ProviderError, or a VeloxError of a tool (a server removed meanwhile): error and done frames.
Fails ==
  /\ phase \in {"reading", "executing"}
  /\ OnError
  /\ Leave("returned", "error")

\* Any other exception is none of the except clauses' business.
Breaks ==
  /\ phase \in {"reading", "executing"}
  /\ Leave("raised", status)
  /\ UNCHANGED reader

\* Mutant: an await between the tool_result frame and the trace.
Stopped_AnywhereInACall ==
  /\ phase \in Awaits \cup {"answered"}
  /\ Leave("cancelled", "stopped")
  /\ UNCHANGED reader

Stopped ==
  /\ phase \in Awaits
  /\ Leave("cancelled", "stopped")
  /\ UNCHANGED reader

\* The broker's buffer overflows on the frame just yielded: it sends its own error and
\* returns; the generator is closed later, by GeneratorExit at that yield.
Overflows ==
  /\ phase \in Yields
  /\ OnError
  /\ Leave("abandoned", status)

Ends(how) ==
  /\ phase = "finalizing"
  /\ phase' = "ended"
  /\ exit' = how
  /\ OnEnd(how)
  /\ UNCHANGED <<loop, reply, kept>>

FinalizerEnds  == Ends(exit)
\* Its exception replaces the generator's; nobody is left to see it after an overflow.
FinalizerFails == exit # "abandoned" /\ Ends("lost")
\* Another cancellation while the finalizer is awaited is suppressed.
StoppedAgain   == exit # "abandoned" /\ Ends(exit)

-----------------------------------------------------------------------------

Generator == AsksFirst \/ RunsAtOnce \/ Waits \/ UnknownTool \/ Announce \/ Record
             \/ NextRound \/ SendDone

Backend ==
  \/ \E x \in Tokens : Answer(x) \/ Think(x)
  \/ OpenTag \/ CloseTag \/ Retract
  \/ \E c \in [id : CallIds, name : Names] : NativeCall(c)
  \/ \E f \in Finishes : Reports(f)

RoundEnds == StreamEnds \/ ToolRound

User == Approved \/ Rejected \/ Stopped \/ StoppedAgain

Next ==
  \/ Generator \/ Backend \/ RoundEnds \/ User
  \/ TimesOut
  \/ \E ok \in BOOLEAN : ToolReturns(ok)
  \/ Fails \/ Breaks \/ Overflows
  \/ FinalizerEnds \/ FinalizerFails
  \/ phase = "ended" /\ UNCHANGED vars

Spec == Init /\ [][Next]_vars

\* The event loop runs what is ready, backends end or fail their streams, tools and
\* approvals have deadlines, the finalizer ends.  Nothing is asked of the user.
FairSpec ==
  /\ Spec
  /\ WF_vars(Generator)
  /\ WF_vars(RoundEnds)
  /\ WF_vars(TimesOut)
  /\ WF_vars(\E ok \in BOOLEAN : ToolReturns(ok))
  /\ WF_vars(FinalizerEnds)

-----------------------------------------------------------------------------
(* Properties *)

\* What is handed to the store is what a reader of every frame has on the screen, however
\* the turn ended: deltas and retractions of all rounds (_route_split against the reader's
\* own handling of the frames), reasoning, and the tool trace -- of which an overflow may
\* cost the very result it fell on.
ShownIsKept ==
  kept # None =>
    /\ kept.text = shownText
    /\ kept.thoughts = shownThoughts
    /\ \/ kept.trace = shownTrace
       \/ exit = "abandoned" /\ kept.trace = DropLast(shownTrace, 1)

\* Every request after the first answers each call of its assistant message, in order,
\* before anything else: the shape native backends reject a conversation without.
RequestsAreAnswered ==
  phase = "reading" =>
    \A i \in 1..Len(messages) :
      /\ messages[i].role = "assistant" =>
           LET n == Len(messages[i].ids)
           IN  /\ i + n <= Len(messages)
               /\ \A k \in 1..n : messages[i + k] = [role |-> "tool", ids |-> <<messages[i].ids[k]>>]
               /\ i + n < Len(messages) => messages[i + n + 1].role = "assistant"
      /\ i = 1 => messages[i].role = "assistant"

\* Whatever the generator waits for the user to approve, the user is being asked about.
WaitsAreAsked == phase \in {"asked", "approval"} => prompt = Head(calls).id

\* The reader's screen and the generator agree (chat.py, conversation.svelte.ts): types, what is
\* kept and what is asked.
ShownInv == TypeOK /\ ShownIsKept /\ WaitsAreAsked

\* A call of a server that always asks runs only from an approval.
GatedCallsAsk ==
  [][phase # "executing" /\ phase' = "executing" /\ Head(calls).name \in DOMAIN ToolKind
       /\ ToolKind[Head(calls).name] = "always" => phase = "approval"]_vars

\* A reader of the frames sees a reply in the sense of module Reply.
InCall == phase \in {"announced", "asked", "approval", "executing"}

R == INSTANCE Reply WITH
       said    <- shownText,
       thought <- shownThoughts,
       results <- shownTrace,
       open    <- IF InCall THEN Head(calls) ELSE None,
       firm    <- Len(text) - Len(roundText),
       keeps   <- IF kept = None THEN None
                  ELSE [text |-> kept.text, thoughts |-> kept.thoughts, trace |-> kept.trace]

ImplementsReply == R!Spec

\* A turn ends whatever its model, its tools and its user do, as long as streams end:
\* rounds are bounded and every wait has a deadline.
TurnsEnd == <>(phase = "ended")

-----------------------------------------------------------------------------
(* What the repository says of a turn, and the code does not do. *)

\* tests/integration/test_chat_stream.py:220, `test_failed_turn_is_persisted_as_an_error`.
FailedTurnsArePersistedAsErrors ==
  phase = "ended" /\ exit = "raised" => kept.status = "error"

\* conversation.svelte.ts:71, of pendingApproval: a tool call currently blocked on approval.
PromptsAreLive == prompt # None => exit \in {"running", "abandoned"}
===============================================================================
