------------------------------- MODULE Chunking -------------------------------
(***************************************************************************)
(* Splitting a document into overlapping chunks (rag/chunking.py).  A text *)
(* is a sequence of paragraphs, a paragraph a sequence of words with one   *)
(* space between them, and the characters of its words are numbered from 1 *)
(* in reading order; 0 is a space or a line break, so that a content is a  *)
(* sequence of numbers.                                                    *)
(***************************************************************************)
EXTENDS Integers, Sequences

CONSTANTS
  Texts,         \* the documents that are split
  MaxChars,      \* max_tokens * 4
  OverlapChars   \* overlap_tokens * 4, at most half of MaxChars

\* A word by its first and its last character.
Word == {w \in [from : Nat \ {0}, to : Nat] : w.from <= w.to}
WordLength(word) == word.to - word.from + 1

\* No paragraph is empty, and each word begins after the one before it.
NumberedInOrder(t) ==
  /\ t \in Seq(Seq(Word))
  /\ \A p \in DOMAIN t : t[p] # <<>>
  /\ \A p \in DOMAIN t : t[p][1].from = IF p = 1 THEN 1 ELSE t[p - 1][Len(t[p - 1])].to + 1
  /\ \A p \in DOMAIN t : \A w \in 2 .. Len(t[p]) : t[p][w].from = t[p][w - 1].to + 1

ASSUME ChunkingAssumption ==
  /\ MaxChars \in Nat /\ OverlapChars \in 0 .. MaxChars \div 2
  /\ \A t \in Texts : NumberedInOrder(t)

VARIABLES
  text,      \* the document
  contents   \* the contents of its chunks, <<>> before it is split

chunkVars == <<text, contents>>

ChunkInit == text \in Texts /\ contents = <<>>

-----------------------------------------------------------------------------

Letters(word) == [i \in 1 .. WordLength(word) |-> word.from + i - 1]

Space == <<0>>
BlankLine == <<0, 0>>

Joined(content, gap, part) == IF content = <<>> THEN part ELSE content \o gap \o part

Spelled(words) == [w \in 1 .. Len(words) |-> Letters(words[w])]

\* The text of a paragraph.
Content(words) ==
  LET content[k \in 0 .. Len(words)] ==
        IF k = 0 THEN <<>> ELSE Joined(content[k - 1], Space, Spelled(words)[k])
  IN content[Len(words)]

\* How much of a chunk the next one repeats: its trailing characters.
Repeats(buffer, overlap) == IF Len(buffer) < overlap THEN Len(buffer) ELSE overlap
Carry(buffer, overlap) == SubSeq(buffer, Len(buffer) - Repeats(buffer, overlap) + 1, Len(buffer))

\* One part onto the buffer, or into a new one, which starts with the carry, when that would
\* be too long.
Pack(packed, part, gap, overlap) ==
  LET candidate == Joined(packed.buffer, gap, part)
  IN IF packed.buffer # <<>> /\ Len(candidate) > MaxChars
     THEN [written |-> Append(packed.written, packed.buffer),
           buffer |-> Joined(Carry(packed.buffer, overlap), gap, part)]
     ELSE [written |-> packed.written, buffer |-> candidate]

Packed(parts, gap, overlap) ==
  LET packed[k \in 0 .. Len(parts)] ==
        IF k = 0 THEN [written |-> <<>>, buffer |-> <<>>]
        ELSE Pack(packed[k - 1], parts[k], gap, overlap)
  IN packed[Len(parts)]

\* The last buffer is written too.
Flushed(packed) ==
  IF packed.buffer = <<>> THEN packed.written ELSE Append(packed.written, packed.buffer)

\* _hard_split: a paragraph over the budget becomes pieces, between words, with no overlap.
HardSplit(words) == Flushed(Packed(Spelled(words), Space, 0))

Split(words) ==
  LET content == Content(words)
  IN IF Len(content) > MaxChars THEN HardSplit(words) ELSE <<content>>

\* The pieces of a text, paragraph by paragraph.
Pieces(t) ==
  LET pieces[p \in 0 .. Len(t)] == IF p = 0 THEN <<>> ELSE pieces[p - 1] \o Split(t[p])
  IN pieces[Len(t)]

\* Mutant: what is in the buffer after the last piece is not written.
ChunkText_NoTail(t) == Packed(Pieces(t), BlankLine, OverlapChars).written

\* chunk_text: pieces are packed while they fit, and a chunk starts with the end of the last.
ChunkText(t) == Flushed(Packed(Pieces(t), BlankLine, OverlapChars))

Splits ==
  /\ contents = <<>> /\ text # <<>>
  /\ contents' = ChunkText(text)
  /\ UNCHANGED text

ChunkSpec == ChunkInit /\ [][Splits]_chunkVars

-----------------------------------------------------------------------------
(* Properties.                                                             *)

Characters == text[Len(text)][Len(text[Len(text)])].to

\* What the k-th chunk repeats of the one before it.
Repeated(k) == IF k = 1 THEN 0 ELSE Repeats(contents[k - 1], OverlapChars)

\* The places in the chunks that hold a character which is not a repeated one.
FreshPlaces ==
  {q \in UNION {{k} \X (Repeated(k) + 1 .. Len(contents[k])) : k \in DOMAIN contents} :
     contents[q[1]][q[2]] # 0}

\* A chunk starts with the end of the one before it, and without that the chunks are the
\* text: every character once and in order (chunk_text).  None is longer than the budget, the
\* overlap and a blank line together, or than a word that is.
ChunksCoverTheText ==
  contents # <<>> =>
    LET At(q) == contents[q[1]][q[2]]
        Before(q, r) == q[1] < r[1] \/ (q[1] = r[1] /\ q[2] < r[2])
    IN /\ {At(q) : q \in FreshPlaces} = 1 .. Characters
       /\ \A q, r \in FreshPlaces : Before(q, r) => At(q) < At(r)
       /\ \A k \in DOMAIN contents :
            /\ Repeated(k) <= Len(contents[k])
            /\ \A i \in 1 .. Repeated(k) :
                 contents[k][i] = contents[k - 1][Len(contents[k - 1]) - Repeated(k) + i]
            /\ \/ Len(contents[k]) <= MaxChars + OverlapChars + 2
               \/ \E p \in DOMAIN text : \E w \in DOMAIN text[p] :
                    Len(contents[k]) <= WordLength(text[p][w]) + OverlapChars + 2

\* "paragraphs are packed into chunks up to ``max_tokens``" (rag/chunking.py:5).
ChunksFitTheBudget ==
  (\A p \in DOMAIN text : \A w \in DOMAIN text[p] : WordLength(text[p][w]) <= MaxChars) =>
    \A k \in DOMAIN contents : Len(contents[k]) <= MaxChars
=============================================================================
