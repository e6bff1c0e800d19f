------------------------------- MODULE Rendering -------------------------------
(***************************************************************************)
(* Markdown of a message that streams in (frontend/src/lib/markdown): the  *)
(* page asks the worker to render the text so far, blocks.ts splits off    *)
(* the block still being written, and replies may overtake each other      *)
(* while one of them loads a grammar.  A text is a sequence of tokens: "x" *)
(* for characters of no importance, "n" for a line break, "fence" and      *)
(* "longfence" for two lengths of one marker at the start of a line.  HTML *)
(* is identified with the text it was made from.                           *)
(***************************************************************************)
EXTENDS SequencesExt, FiniteSetsExt, Integers

CONSTANTS
  Tokens,      \* the kinds of tokens that arrive
  MaxTokens,   \* bound: tokens of the message
  MaxRenders   \* bound: requests

ASSUME RenderAssumption == MaxTokens \in Nat /\ MaxRenders \in Nat

VARIABLES
  written,   \* the text so far
  ended,     \* whether the stream has
  sequence,  \* #sequence
  rendering, \* the requests the worker has not answered: seq, text, complete
  shown      \* the last one applied (#pending's applied), with its html and tail

renderVars == <<written, ended, sequence, rendering, shown>>

RenderInit ==
  /\ written = <<>> /\ ended = FALSE
  /\ sequence = 0 /\ rendering = {}
  /\ shown = [seq |-> -1, text |-> <<>>, html |-> <<>>, tail |-> <<>>]

-----------------------------------------------------------------------------
(* splitStreamingText.                                                     *)

\* Where the line breaks are.
Breaks(text) ==
  LET before[n \in 0 .. Len(text)] ==
        IF n = 0 THEN <<>>
        ELSE IF text[n] = "n" THEN Append(before[n - 1], n) ELSE before[n - 1]
  IN before[Len(text)]

\* The lines of a text: between the breaks, before the first and after the last.
Lines(text) ==
  LET breaks == <<0>> \o Breaks(text) \o <<Len(text) + 1>>
  IN [k \in 1 .. Len(breaks) - 1 |-> SubSeq(text, breaks[k] + 1, breaks[k + 1] - 1)]

Marker(line) == IF line # <<>> /\ line[1] \in {"fence", "longfence"} THEN line[1] ELSE "none"
Closes(marker, open) == marker # "none" /\ (marker = open \/ open = "fence")

\* One line of the walk: the fence it is in, and after which line the document was last
\* between two blocks.
Walked(at, k, line) ==
  LET marker == Marker(line)
  IN IF at.fence # "none"
     THEN IF Closes(marker, at.fence) THEN [fence |-> "none", safe |-> k] ELSE at
     ELSE IF marker # "none" THEN [at EXCEPT !.fence = marker]
     ELSE IF line = <<>> THEN [at EXCEPT !.safe = k] ELSE at

\* The last line is always in progress.
SafeLines(text) ==
  LET lines == Lines(text)
      walk[k \in 0 .. Len(lines)] ==
        IF k = 0 THEN [fence |-> "none", safe |-> 0] ELSE Walked(walk[k - 1], k, lines[k])
      end == walk[Len(lines)]
  IN IF end.fence = "none" /\ end.safe >= Len(lines) THEN Len(lines) - 1 ELSE end.safe

\* The text up to and including the break after the last safe line, and what follows it;
\* a break with nothing before it is dropped.
Split(text, complete) ==
  LET lines == SafeLines(text)
      cut == IF complete THEN Len(text) ELSE IF lines <= 0 THEN 0 ELSE Breaks(text)[lines]
  IN [html |-> IF ~complete /\ cut = 1 THEN <<>> ELSE SubSeq(text, 1, cut),
      tail |-> SubSeq(text, cut + 1, Len(text))]

-----------------------------------------------------------------------------

Writes ==
  /\ ~ended /\ Len(written) < MaxTokens
  /\ \E token \in Tokens :
       /\ token \in {"fence", "longfence"} => Last(Lines(written)) = <<>>
       /\ written' = Append(written, token)
  /\ UNCHANGED <<ended, sequence, rendering, shown>>

Asks(complete) ==
  /\ sequence' = sequence + 1
  /\ rendering' = rendering \cup {[seq |-> sequence + 1, text |-> written, complete |-> complete]}
  /\ UNCHANGED <<written, shown>>

\* #maybeRenderMarkdown: once in a while as the text grows.
Requests == ~ended /\ sequence < MaxRenders /\ Asks(FALSE) /\ UNCHANGED ended

\* The end of the stream renders all of it.
Ends == ~ended /\ Asks(TRUE) /\ ended' = TRUE

\* The worker's answer: rendered, or all of it as plain text when that failed.
Answers(request) ==
  {Split(request.text, request.complete), [html |-> <<>>, tail |-> request.text]}

\* Mutant: an answer is applied however old it is.
Receives_Unordered(request, answer) ==
  shown' = [seq |-> request.seq, text |-> request.text, html |-> answer.html, tail |-> answer.tail]

\* #receive: an answer that was overtaken by a newer one is dropped.
Receives(request, answer) ==
  shown' = IF request.seq < shown.seq THEN shown
           ELSE [seq |-> request.seq, text |-> request.text,
                 html |-> answer.html, tail |-> answer.tail]

\* One of the worker's handlers finishes; which one depends on what each was loading.
Replies ==
  /\ \E request \in rendering :
       /\ rendering' = rendering \ {request}
       /\ \E answer \in Answers(request) : Receives(request, answer)
  /\ UNCHANGED <<written, ended, sequence>>

RenderNext == Writes \/ Requests \/ Ends \/ Replies

RenderSpec == RenderInit /\ [][RenderNext]_renderVars

-----------------------------------------------------------------------------
(* Properties.                                                             *)

\* A message never goes back to an older text, whatever order the worker answers in; what is
\* shown is all of the text that was asked for, but for a line break it may start with; and
\* once the stream has ended and the worker is idle, that is the whole message (client.ts,
\* blocks.ts).
ShownIsTheLatest ==
  LET answered == 1 .. sequence \ {request.seq : request \in rendering}
  IN /\ shown.seq = Max({-1} \cup answered)
     /\ shown.text \in {shown.html \o shown.tail, <<"n">> \o (shown.html \o shown.tail)}
     /\ ended /\ rendering = {} => shown.text = written

\* "Everything before the last unterminated block is stable: it will never change again"
\* (blocks.ts:9): what has been rendered is a part of everything rendered later.
StableTextStays ==
  \A n \in 0 .. Len(written) :
    IsPrefix(Split(SubSeq(written, 1, n), FALSE).html, Split(written, FALSE).html)
=============================================================================
