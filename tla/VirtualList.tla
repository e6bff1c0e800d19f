------------------------------ MODULE VirtualList ------------------------------
(***************************************************************************)
(* The variable-height virtual list (frontend/src/lib/virtual/list.ts):    *)
(* a height per item, measured or estimated, and the prefix sums over      *)
(* them, which are rebuilt from the first dirty item when they are asked   *)
(* for.  Any call may follow any other, as the component and the tests do. *)
(* Items are numbered from 0; entry i + 1 of a sequence is about item i.   *)
(***************************************************************************)
EXTENDS Sequences, Integers

CONSTANTS
  ItemHeights,   \* the heights a rendered item may turn out to have
  BaseEstimate,  \* estimatedItemHeight
  Overscan,
  Viewport,      \* viewportHeight
  MaxItems       \* bound: items in the list

ASSUME ListAssumption ==
  /\ ItemHeights \subseteq Nat /\ BaseEstimate \in Nat
  /\ Overscan \in Nat /\ Viewport \in Nat \ {0} /\ MaxItems \in Nat

VARIABLES
  heights,        \* #heights
  measured,       \* #measured
  offsets,        \* #offsets: one more than the items, once they are rebuilt
  dirtyFrom,      \* #dirtyFrom
  measuredCount,  \* #measuredCount
  measuredTotal,  \* #measuredTotal
  shift           \* what the last call returned: pixels added above the items after it

listVars == <<heights, measured, offsets, dirtyFrom, measuredCount, measuredTotal, shift>>

ListInit ==
  /\ heights = <<>> /\ measured = <<>>
  /\ offsets = <<0>> /\ dirtyFrom = 0
  /\ measuredCount = 0 /\ measuredTotal = 0
  /\ shift = 0

ItemCount == Len(heights)
Smaller(a, b) == IF a < b THEN a ELSE b
Larger(a, b) == IF a < b THEN b ELSE a

\* The sum of the first i numbers, of which all the sums are made.
Sums(s) ==
  LET sum[i \in 0 .. Len(s)] == IF i = 0 THEN 0 ELSE sum[i - 1] + s[i]
  IN sum
Top(s, i) == Sums(s)[i]
Dropped(s, count) == Top(s, Len(s)) - Top(s, count)

\* What each item adds to #measuredCount and to #measuredTotal.
Marks(ms) == [i \in 1 .. Len(ms) |-> IF ms[i] THEN 1 ELSE 0]
Weights(ms, hs) == [i \in 1 .. Len(ms) |-> IF ms[i] THEN hs[i] ELSE 0]

\* Heights are chosen so that the average is a whole number.
Estimate == IF measuredCount > 0 THEN measuredTotal \div measuredCount ELSE BaseEstimate

MarkDirty(from) == dirtyFrom' = Smaller(dirtyFrom, from)

-----------------------------------------------------------------------------

\* setCount: items are dropped from the end, or added there unmeasured.
SetCount ==
  \E count \in 0 .. MaxItems \ {ItemCount} :
    /\ IF count < ItemCount
       THEN /\ measuredCount' = measuredCount - Dropped(Marks(measured), count)
            /\ measuredTotal' = measuredTotal - Dropped(Weights(measured, heights), count)
            /\ heights' = SubSeq(heights, 1, count)
            /\ measured' = SubSeq(measured, 1, count)
       ELSE /\ heights' = heights \o [i \in 1 .. count - ItemCount |-> Estimate]
            /\ measured' = measured \o [i \in 1 .. count - ItemCount |-> FALSE]
            /\ UNCHANGED <<measuredCount, measuredTotal>>
    /\ MarkDirty(count)
    /\ shift' = 0
    /\ UNCHANGED offsets

\* prepend: an older page arrives above everything there is.
Prepend ==
  \E count \in 1 .. MaxItems - ItemCount :
    /\ heights' = [i \in 1 .. count |-> Estimate] \o heights
    /\ measured' = [i \in 1 .. count |-> FALSE] \o measured
    /\ MarkDirty(0)
    /\ shift' = Estimate * count
    /\ UNCHANGED <<offsets, measuredCount, measuredTotal>>

\* invalidateMeasurements: the width changed.
InvalidateMeasurements ==
  /\ measuredCount > 0
  /\ measuredCount' = 0 /\ measuredTotal' = 0
  /\ measured' = [i \in 1 .. ItemCount |-> FALSE]
  /\ heights' = [i \in 1 .. ItemCount |-> BaseEstimate]
  /\ MarkDirty(0)
  /\ shift' = 0
  /\ UNCHANGED offsets

\* Mutant: the sums are taken to be good up to and including the end of the measured item.
Measured_DirtyAfter(i, height) ==
  /\ measured' = [measured EXCEPT ![i] = TRUE]
  /\ heights' = [heights EXCEPT ![i] = height]
  /\ measuredCount' = IF measured[i] THEN measuredCount ELSE measuredCount + 1
  /\ measuredTotal' = measuredTotal + height - (IF measured[i] THEN heights[i] ELSE 0)
  /\ MarkDirty(i)
  /\ shift' = height - heights[i]

\* measure, of item i - 1: its first measurement, or another one.
Measured(i, height) ==
  /\ measured' = [measured EXCEPT ![i] = TRUE]
  /\ heights' = [heights EXCEPT ![i] = height]
  /\ measuredCount' = IF measured[i] THEN measuredCount ELSE measuredCount + 1
  /\ measuredTotal' = measuredTotal + height - (IF measured[i] THEN heights[i] ELSE 0)
  /\ MarkDirty(i - 1)
  /\ shift' = height - heights[i]

Measure ==
  \E i \in 1 .. ItemCount, height \in ItemHeights :
    /\ ~(measured[i] /\ heights[i] = height)
    /\ Measured(i, height)
    /\ UNCHANGED offsets

\* #rebuild keeps the sums before the first dirty item and adds up from there.
Rebuilt ==
  LET from == Smaller(dirtyFrom, ItemCount)
      start == offsets[from + 1]
  IN [i \in 1 .. ItemCount + 1 |->
        IF i <= from THEN offsets[i] ELSE start + Top(heights, i - 1) - Top(heights, from)]

Clean == dirtyFrom >= ItemCount /\ Len(offsets) = ItemCount + 1

\* Any question about a position: offsetOf, totalHeight, windowFor.
Rebuild ==
  /\ ~Clean
  /\ offsets' = Rebuilt
  /\ dirtyFrom' = ItemCount
  /\ UNCHANGED <<heights, measured, measuredCount, measuredTotal, shift>>

ListNext == SetCount \/ Prepend \/ InvalidateMeasurements \/ Measure \/ Rebuild

ListSpec == ListInit /\ [][ListNext]_listVars

-----------------------------------------------------------------------------
(* The window.                                                             *)

\* #indexAt: the binary search over the sums.  One turn of its loop, which ends when low is
\* past high; an item that is hit ends it too.
Halved(offset, s) ==
  LET middle == (s.low + s.high) \div 2
      top == offsets[middle + 1]
      Near(l) == Larger(0, Smaller(l, ItemCount - 1))
  IN IF s.low > s.high THEN s
     ELSE IF offset < top THEN [low |-> s.low, high |-> middle - 1, found |-> Near(s.low)]
     ELSE IF offset >= top + heights[middle + 1]
       THEN [low |-> middle + 1, high |-> s.high, found |-> Near(middle + 1)]
     ELSE [low |-> s.high + 1, high |-> s.high, found |-> middle]

\* The interval loses an item at every turn.
Search(offset) ==
  LET turn[n \in 0 .. ItemCount] ==
        IF n = 0 THEN [low |-> 0, high |-> ItemCount - 1, found |-> ItemCount - 1]
        ELSE Halved(offset, turn[n - 1])
  IN turn[ItemCount].found

\* windowFor: the items that are rendered, from start up to but not including end.
WindowFor(scrollTop) ==
  LET first == Search(Larger(0, scrollTop))
      last == Search(Larger(0, scrollTop + Viewport - 1))
  IN [start |-> Larger(0, first - Overscan), end |-> Smaller(ItemCount, last + 1 + Overscan)]

-----------------------------------------------------------------------------
(* Properties.                                                             *)

\* Sums that are not dirty are sums of the heights, in whatever order counts, pages and
\* measurements came, and the average is over what is measured (list.ts).
SumsAreTrue ==
  /\ dirtyFrom \in 0 .. MaxItems /\ Len(measured) = ItemCount
  /\ \A i \in 0 .. Smaller(dirtyFrom, ItemCount) : offsets[i + 1] = Top(heights, i)
  /\ measuredCount = Top(Marks(measured), ItemCount)
  /\ measuredTotal = Top(Weights(measured, heights), ItemCount)

\* With sums that are true, every pixel of the viewport that has an item under it has that item
\* rendered, wherever the reader has scrolled to, also past the end of what is left (windowFor).
WindowsCoverTheView ==
  SumsAreTrue /\ (Clean /\ ItemCount > 0 =>
    \A scrollTop \in 0 .. Top(heights, ItemCount) :
      LET window == WindowFor(scrollTop)
      IN /\ window.start < window.end
         /\ \A pixel \in scrollTop .. scrollTop + Viewport - 1 : \A i \in 0 .. ItemCount - 1 :
              Top(heights, i) <= pixel /\ pixel < Top(heights, i + 1)
                => window.start <= i /\ i < window.end)
=============================================================================
