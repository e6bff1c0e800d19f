----------------------------- MODULE MCTurnStream -----------------------------
EXTENDS TurnStream

CONSTANTS t, u, none, c0, c1, clock, notes, ghost

\* Two tools are offered, one behind an approval; a model may name one that does not exist.
MCNames    == {clock, notes, ghost}
MCToolKind == [n \in {clock, notes} |-> IF n = clock THEN "builtin" ELSE "always"]
MCOnce     == [n \in {notes} |-> "once"]
MCNoCall   == [x \in {t} |-> none]
\* u carries a <tool_call> block.
MCCallIn   == [x \in {t, u} |-> IF x = u THEN notes ELSE none]
===============================================================================
