------------------------------ MODULE ThinkSplitter ------------------------------
(***************************************************************************)
(* Splitting reasoning out of a stream of text (services/think_split.py).  *)
(* The text comes in chunks cut anywhere, so also inside a tag; what may   *)
(* become a tag is held back.  Characters are the places they have in the  *)
(* text: what was given out as answer or as reasoning is a set of places,  *)
(* and giving out is in their order, as `given` only grows.                *)
(***************************************************************************)
EXTENDS Naturals, Sequences

CONSTANTS
  Characters,
  Open, Close,  \* the two tags
  MaxLength     \* bound: characters of the text

\* The text t has the first n characters of a word from the place after `at` on.
Reads(t, at, word, n) == \A i \in 1..n : t[at + i] = word[i]
Within(t, at, word) == at + Len(word) <= Len(t) /\ Reads(t, at, word, Len(word))

\* No tag begins inside a tag.
ASSUME SplitterAssumption ==
  /\ Open \in Seq(Characters) /\ Open # <<>>
  /\ Close \in Seq(Characters) /\ Close # <<>>
  /\ \A v, w \in {Open, Close} : \A at \in 0..Len(v) : Within(v, at, w) => at = 0 /\ v = w
  /\ Open # Close
  /\ MaxLength \in Nat

VARIABLES
  received,  \* the text of the chunks so far
  splitter,  \* the splitter, with what it has given out
  complete

splitVars == <<received, splitter, complete>>

Kinds == {"open", "close"}
Tag(kind) == IF kind = "open" THEN Open ELSE Close
Found == [at : Nat, kind : Kinds]
\* Its fields: the characters dealt with, so that _buffer is what follows them; _in_think,
\* _seen_open, _seen_close, _emitted; the tags taken, and what has been given out.
Splitter == [given : Nat, thinking : BOOLEAN, opened : BOOLEAN, closed : BOOLEAN,
             emitted : SUBSET Nat, tags : Seq(Found), answer : SUBSET Nat, thought : SUBSET Nat]

SplitTypeOK == received \in Seq(Characters) /\ splitter \in Splitter /\ complete \in BOOLEAN

SplitInit ==
  /\ received = <<>> /\ complete = FALSE
  /\ splitter = [given |-> 0, thinking |-> FALSE, opened |-> FALSE, closed |-> FALSE,
                 emitted |-> {}, tags |-> <<>>, answer |-> {}, thought |-> {}]

-----------------------------------------------------------------------------
(* The loop of _drain *)

\* _emit: what precedes a place is reasoning inside a block, and answer outside.
Emitted(s, upto) ==
  LET places == s.given + 1..upto
  IN IF s.thinking THEN [s EXCEPT !.given = upto, !.thought = @ \cup places]
     ELSE [s EXCEPT !.given = upto, !.answer = @ \cup places, !.emitted = @ \cup places]

\* Mutant: outside a block a closing tag always counts.
Counting_Always(s) == IF s.thinking THEN {"close"} ELSE Kinds

\* Outside a block a lone closing tag counts too, until the first tag.
Counting(s) ==
  IF s.thinking THEN {"close"} ELSE IF s.opened \/ s.closed THEN {"open"} ELSE Kinds

Candidates(t, s) ==
  {f \in [at : s.given..Len(t), kind : Counting(s)] : Within(t, f.at, Tag(f.kind))}

First(t, s) == CHOOSE f \in Candidates(t, s) : \A g \in Candidates(t, s) : f.at <= g.at

\* A tag and what precedes it.  Closing outside a block, it retracts all that was emitted.
TakesTag(s, f) ==
  LET e == Emitted(s, f.at)
      after == [e EXCEPT !.given = f.at + Len(Tag(f.kind)), !.tags = Append(@, f)]
  IN IF f.kind = "open" THEN [after EXCEPT !.thinking = TRUE, !.opened = TRUE]
     ELSE IF s.thinking THEN [after EXCEPT !.thinking = FALSE, !.closed = TRUE]
     ELSE [after EXCEPT !.closed = TRUE, !.emitted = {},
                        !.answer = @ \ e.emitted, !.thought = @ \cup e.emitted]

Turned(t, s) == IF Candidates(t, s) = {} THEN s ELSE TakesTag(s, First(t, s))

\* Each turn of the loop takes a tag, so there are fewer than there are characters.
Drained(t, s) ==
  LET turns[n \in 0..Len(t)] == IF n = 0 THEN s ELSE Turned(t, turns[n - 1])
  IN turns[Len(t)]

\* _holdback: the longest end of the buffer that is how a tag begins, as the place before it.
Begins(t, b) == \E kind \in Kinds : Len(t) - b < Len(Tag(kind)) /\ Reads(t, b, Tag(kind), Len(t) - b)
Held(t, s) ==
  CHOOSE b \in s.given..Len(t) : Begins(t, b) /\ \A c \in s.given..b - 1 : ~Begins(t, c)

Settled(t, s, final) == Emitted(s, IF final THEN Len(t) ELSE Held(t, s))

-----------------------------------------------------------------------------
(* feed and finish *)

Feed(chunk) ==
  /\ ~complete
  /\ received' = received \o chunk
  /\ splitter' = Settled(received', Drained(received', splitter), FALSE)
  /\ UNCHANGED complete

Finish ==
  /\ ~complete
  /\ splitter' = Settled(received, Drained(received, splitter), TRUE)
  /\ complete' = TRUE
  /\ UNCHANGED received

\* A chunk is a string of characters; an empty one is fed too.
Chunks == UNION {[1..n -> Characters] : n \in 0..MaxLength - Len(received)}

SplitNext == Finish \/ \E chunk \in Chunks : Feed(chunk)

SplitSpec == SplitInit /\ [][SplitNext]_splitVars

-----------------------------------------------------------------------------
(* Splitting a whole text *)

\* Behind n tags: where the text goes on, and the kinds of tag that count there.
Behind(g, n) == IF n = 0 THEN 0 ELSE g[n].at + Len(Tag(g[n].kind))
Due(g, n) == IF n = 0 THEN Kinds ELSE Kinds \ {g[n].kind}

\* No tag that is due after the first n begins at a place from behind them to before `upto`.
NoneDue(t, g, n, upto) ==
  \A kind \in Due(g, n) : \A b \in Behind(g, n)..upto - 1 : ~Within(t, b, Tag(kind))

\* The tags of a text: each is the first that is due behind the one before it.
TagsOf(t, g) ==
  /\ \A n \in 1..Len(g) :
       /\ g[n].kind \in Due(g, n - 1) /\ g[n].at >= Behind(g, n - 1)
       /\ Within(t, g[n].at, Tag(g[n].kind))
       /\ NoneDue(t, g, n - 1, g[n].at)
  /\ NoneDue(t, g, Len(g), Len(t) + 1)

\* A place in a tag, and one that is reasoning: behind an opening tag up to the next, or before
\* a closing tag that is the first of all.
InTag(g, p) == \E n \in 1..Len(g) : g[n].at < p /\ p <= Behind(g, n)
InThought(g, p) ==
  \/ \E n \in 1..Len(g) :
       g[n].kind = "open" /\ Behind(g, n) < p /\ (n < Len(g) => p <= g[n + 1].at)
  \/ Len(g) > 0 /\ g[1].kind = "close" /\ p <= g[1].at

-----------------------------------------------------------------------------
(* Properties *)

\* However the text is cut into chunks, the tags taken are those of the text as a whole.
TagsAreTheTexts == TagsOf(received, splitter.tags)

\* Every character dealt with is in one place: in a tag, in the reasoning, or in the answer,
\* and where the tags of the whole text say; so none is lost, shown twice or on the wrong side.
PlacesAreRight ==
  /\ splitter.thought =
       {p \in 1..splitter.given : ~InTag(splitter.tags, p) /\ InThought(splitter.tags, p)}
  /\ splitter.answer =
       {p \in 1..splitter.given : ~InTag(splitter.tags, p) /\ ~InThought(splitter.tags, p)}

\* Between chunks only the beginning of a tag is held back, and at the end nothing is.
LittleIsHeld ==
  /\ splitter.given <= Len(received)
  /\ complete => splitter.given = Len(received)
  /\ Begins(received, splitter.given)

\* The splitter: all of the above.
SplitInv == SplitTypeOK /\ TagsAreTheTexts /\ PlacesAreRight /\ LittleIsHeld
=================================================================================
