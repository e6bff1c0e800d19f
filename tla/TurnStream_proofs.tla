--------------------------- MODULE TurnStream_proofs ---------------------------
(***************************************************************************)
(* Theorems about TurnStream for every set of tools, ids and tokens, every *)
(* round limit and both ways of calling tools.  The invariant says at each *)
(* point of the generator what the reader's screen and the growing request *)
(* hold; each action is shown to keep it.                                  *)
(***************************************************************************)
EXTENDS TurnStream, TLAPS

Entry == [id |-> Head(calls).id, name |-> Head(calls).name, ok |-> gate = "ok"]

\* The call at the head of the list is being dealt with.
Engaged == InCall \/ phase = "answered"

Screen == shownText = text /\ shownThoughts = thoughts

Over ==
  /\ kept = None <=> phase \notin {"finalizing", "ended"}
  /\ kept = None <=> exit = "running"
  /\ kept # None => kept.text = text /\ kept.thoughts = thoughts /\ kept.trace = trace

Traced ==
  /\ phase = "answered" => shownTrace = Append(trace, Entry)
  /\ phase # "answered" /\ exit # "abandoned" => shownTrace = trace
  /\ exit = "abandoned" => trace \in {shownTrace, DropLast(shownTrace, 1)}

Asked ==
  /\ Engaged => calls # << >>
  /\ Engaged \/ phase = "calling" => round < MaxIterations - 1
  /\ phase \in {"asked", "approval"} \/ (phase = "announced" /\ gate = "wait")
       => prompt = Head(calls).id
  /\ phase = "announced" /\ gate = "run" /\ Head(calls).name \in DOMAIN ToolKind
       => ToolKind[Head(calls).name] # "always"

Inv == /\ TypeOK /\ Screen /\ Over /\ Traced /\ Asked
       /\ EndsWith(text, roundText)

-----------------------------------------------------------------------------
(* Sequences *)

LEMMA EndsWithAppend ==
  ASSUME NEW S, NEW s \in Seq(S), NEW e \in Seq(S), NEW x \in S, EndsWith(s, e)
  PROVE  EndsWith(Append(s, x), Append(e, x))
BY DEF EndsWith

LEMMA EndsWithNothing == ASSUME NEW S, NEW s \in Seq(S) PROVE EndsWith(s, << >>)
BY DEF EndsWith

\* Taking back an ending leaves a sequence.
LEMMA DropLastType ==
  ASSUME NEW S, NEW s \in Seq(S), NEW n \in Nat
  PROVE  DropLast(s, n) \in Seq(S)
BY DEF DropLast

LEMMA IdsOfType ==
  ASSUME NEW cs \in Seq(Call)
  PROVE  IdsOf(cs) \in Seq(Ids) /\ Len(IdsOf(cs)) = Len(cs)
<1>1. ASSUME NEW i \in 1..Len(cs) PROVE cs[i].id \in Ids
  <2>1. cs[i] \in Call
    OBVIOUS
  <2> QED BY <2>1 DEF Call
<1> QED BY <1>1 DEF IdsOf

LEMMA DetectedType ==
  ASSUME TypeOK
  PROVE  Detected \in Seq(Call)
<1>1. EmulatedCalls \in Seq(Call)
  <2>1. CASE FirstBlock = {}
    BY <2>1 DEF EmulatedCalls
  <2>2. CASE FirstBlock # {}
    <3> DEFINE i == CHOOSE j \in FirstBlock : TRUE
    <3>1. i \in FirstBlock
      BY <2>2
    <3>2. i \in 1..Len(roundText) /\ CallIn[roundText[i]] # None
      BY <3>1 DEF FirstBlock
    <3>3. roundText[i] \in Tokens
      BY <3>2 DEF TypeOK
    <3>4. CallIn[roundText[i]] \in Names
      BY <3>2, <3>3, StreamAssumption DEF StreamAssumption
    <3>5. round \in Ids
      BY StreamAssumption DEF TypeOK, Ids, StreamAssumption
    <3> HIDE DEF i
    <3>6. [id |-> round, name |-> CallIn[roundText[i]]] \in Call
      BY <3>4, <3>5 DEF Call
    <3>7. EmulatedCalls = << [id |-> round, name |-> CallIn[roundText[i]]] >>
      BY <2>2 DEF EmulatedCalls, i
    <3> QED BY <3>6, <3>7
  <2> QED BY <2>1, <2>2
<1> QED BY <1>1 DEF Detected, TypeOK

-----------------------------------------------------------------------------
(* Types *)

LEMMA TypeInit == Init => TypeOK
BY StreamAssumption DEF StreamAssumption, Init, TypeOK, Phases, Awaits, Finishes, Statuses

\* Every way of leaving the try block hands the finalizer what the loop has.
LEMMA LeaveType ==
  ASSUME TypeOK, NEW how \in {"returned", "raised", "cancelled", "abandoned"},
         NEW s \in Statuses, Leave(how, s)
  PROVE  /\ phase' \in Phases /\ exit' \in {"returned", "raised", "cancelled", "abandoned"}
         /\ status' \in Statuses /\ kept' \in Kept
         /\ text' \in Seq(Tokens) /\ thoughts' \in Seq(Tokens)
         /\ trace' \in Seq(Result) /\ messages' \in Seq(Message)
BY DEF TypeOK, Leave, Phases, Kept

\* Yielding a result needs a call to answer.
LEMMA ResultType ==
  ASSUME TypeOK, calls # << >>, NEW ok \in BOOLEAN
  PROVE  /\ Head(calls) \in Call
         /\ [id |-> Head(calls).id, name |-> Head(calls).name, ok |-> ok] \in Result
         /\ Tail(calls) \in Seq(Call)
<1>1. Head(calls) \in Call /\ Tail(calls) \in Seq(Call)
  BY DEF TypeOK
<1> QED BY <1>1 DEF Call, Result

LEMMA TypeStep ==
  ASSUME TypeOK, Asked, [Next]_vars
  PROVE  TypeOK'
<1> USE DEF TypeOK, loop, reply, ending, reader
<1> USE DEF Phases, Awaits, Yields
<1>1. ASSUME NEW x \in Tokens, Answer(x) PROVE TypeOK'
  BY <1>1 DEF Answer, OnDelta
<1>2. ASSUME NEW x \in Tokens, Think(x) PROVE TypeOK'
  BY <1>2 DEF Think, OnReasoning
<1>3. CASE OpenTag \/ CloseTag
  BY <1>3 DEF OpenTag, CloseTag
<1>4. CASE Retract
  <2>1. text' \in Seq(Tokens) /\ shownText' \in Seq(Tokens)
    BY <1>4, DropLastType DEF Retract, OnRetract
  <2>2. thoughts' \in Seq(Tokens) /\ shownThoughts' \in Seq(Tokens)
    BY <1>4 DEF Retract, OnRetract
  <2> QED BY <1>4, <2>1, <2>2 DEF Retract, OnRetract
<1>5. ASSUME NEW c \in [id : CallIds, name : Names], NativeCall(c) PROVE TypeOK'
  <2>1. c \in Call
    BY DEF Call, Ids
  <2> QED BY <1>5, <2>1 DEF NativeCall
<1>6. ASSUME NEW f \in Finishes, Reports(f) PROVE TypeOK'
  BY <1>6 DEF Reports, Statuses
<1>7. CASE StreamEnds
  BY <1>7 DEF StreamEnds
<1>8. CASE ToolRound
  <2>1. Detected \in Seq(Call)
    BY DetectedType
  <2>2. [role |-> "assistant", ids |-> IdsOf(Detected)] \in Message
    BY <2>1, IdsOfType DEF Message
  <2> QED BY <1>8, <2>1, <2>2 DEF ToolRound
<1>9. CASE SendDone
  BY <1>9, LeaveType DEF SendDone, Leave
<1>10. CASE Announce
  <2> DEFINE c == Head(calls)
  <2>1. c \in Call
    BY <1>10 DEF Announce
  <2>2. c.id \in Ids
    BY <2>1 DEF Call
  <2>3. c.name \in DOMAIN ToolKind => ToolKind[c.name] \in Kinds
    BY StreamAssumption DEF StreamAssumption
  <2>4. gate' \in Gates(c.name)
    BY <1>10 DEF Announce
  <2>5. gate' \in {"run", "wait", "unknown"}
    BY <2>3, <2>4 DEF Gates, Kinds
  <2> QED BY <1>10, <2>2, <2>5 DEF Announce, OnToolCall
<1>11. CASE AsksFirst \/ RunsAtOnce \/ Waits \/ Approved
  BY <1>11 DEF AsksFirst, RunsAtOnce, Waits, Approved
<1>12. ASSUME NEW ok \in BOOLEAN, Engaged, YieldResult(ok) PROVE TypeOK'
  BY <1>12, ResultType DEF Asked, YieldResult, OnToolResult
<1>13. CASE Record
  <2>1. calls # << >>
    BY <1>13 DEF Record, Asked, Engaged
  <2>2. Entry \in Result /\ Head(calls) \in Call /\ Tail(calls) \in Seq(Call)
    BY <2>1, ResultType DEF Entry
  <2>3. ResultMessage(Head(calls)) \in Message
    BY <2>2 DEF ResultMessage, Message, Call
  <2> QED BY <1>13, <2>2, <2>3 DEF Record, Entry
<1>14. CASE NextRound
  <2>1. round < MaxIterations - 1
    BY <1>14 DEF NextRound, Asked
  <2>2. round' \in 0..(MaxIterations - 1)
    BY <1>14, <2>1, StreamAssumption DEF NextRound, StreamAssumption
  <2> QED BY <1>14, <2>2 DEF NextRound, Finishes
<1>15. CASE Fails
  BY <1>15, LeaveType DEF Fails, Leave, OnError, Statuses
<1>16. CASE Breaks
  BY <1>16, LeaveType DEF Breaks, Leave
<1>17. CASE Stopped
  BY <1>17, LeaveType DEF Stopped, Leave, Statuses
<1>18. CASE Overflows
  BY <1>18, LeaveType DEF Overflows, Leave, OnError
<1>19. CASE FinalizerEnds \/ FinalizerFails \/ StoppedAgain
  BY <1>19 DEF FinalizerEnds, FinalizerFails, StoppedAgain, Ends, OnEnd
<1>20. CASE UnknownTool \/ Rejected \/ TimesOut \/ \E ok \in BOOLEAN : ToolReturns(ok)
  BY <1>20, <1>12 DEF UnknownTool, Rejected, TimesOut, ToolReturns, Engaged, InCall
<1>21. CASE UNCHANGED vars
  BY <1>21 DEF vars
<1> QED
  BY <1>1, <1>2, <1>3, <1>4, <1>5, <1>6, <1>7, <1>8, <1>9, <1>10, <1>11, <1>13, <1>14, <1>15,
     <1>16, <1>17, <1>18, <1>19, <1>20, <1>21
  DEF Next, Generator, Backend, RoundEnds, User

-----------------------------------------------------------------------------
(* The reader's screen, the trace and the announced call *)

LEMMA InvInit == Init => Inv
<1> SUFFICES ASSUME Init PROVE Inv
  OBVIOUS
<1>1. TypeOK
  BY TypeInit
<1>2. EndsWith(text, roundText)
  BY <1>1, EndsWithNothing DEF Init, TypeOK
<1> QED
  BY <1>1, <1>2 DEF Init, Inv, Screen, Over, Traced, Asked, Engaged, InCall

LEMMA ScreenStep ==
  ASSUME Inv, [Next]_vars
  PROVE  Screen' /\ EndsWith(text, roundText)'
<1> USE DEF Inv, Screen, loop, reply, ending, reader
<1>1. ASSUME NEW x \in Tokens, Answer(x) PROVE Screen' /\ EndsWith(text, roundText)'
  BY <1>1, EndsWithAppend DEF Answer, OnDelta, TypeOK
<1>2. ASSUME NEW x \in Tokens, Think(x) PROVE Screen' /\ EndsWith(text, roundText)'
  BY <1>2 DEF Think, OnReasoning
<1>3. CASE Retract
  <2>1. text' = shownText' /\ thoughts' = shownThoughts'
    BY <1>3 DEF Retract, OnRetract
  <2>2. text' \in Seq(Tokens) /\ roundText' = << >>
    BY <1>3, DropLastType DEF Retract, TypeOK
  <2> QED BY <2>1, <2>2, EndsWithNothing
<1>4. CASE NextRound
  <2>1. UNCHANGED <<text, thoughts, shownText, shownThoughts>> /\ roundText' = << >>
    BY <1>4 DEF NextRound
  <2> QED BY <2>1, EndsWithNothing DEF TypeOK
<1>5. CASE UNCHANGED <<text, thoughts, roundText, shownText, shownThoughts>>
  BY <1>5
<1> QED
  BY <1>1, <1>2, <1>3, <1>4, <1>5
  DEF Next, Generator, Backend, RoundEnds, User, vars, OpenTag, CloseTag, NativeCall, Reports,
      StreamEnds, ToolRound, SendDone, Leave, Announce, OnToolCall, AsksFirst, RunsAtOnce, Waits,
      Approved, UnknownTool, Rejected, TimesOut, ToolReturns, YieldResult, OnToolResult, Record,
      Fails, OnError, Breaks, Stopped, Overflows, FinalizerEnds, FinalizerFails, StoppedAgain,
      Ends, OnEnd

\* What the finalizer was given is fixed once the try block is left.
LEMMA OverStep ==
  ASSUME Inv, [Next]_vars
  PROVE  Over'
<1> USE DEF Inv, Over, loop, reply, ending, reader, TypeOK
<1>1. ASSUME NEW how \in {"returned", "raised", "cancelled", "abandoned"}, NEW s \in Statuses,
             Leave(how, s), kept = None
      PROVE  Over'
  <2>1. kept' \in Kept /\ kept' # None
    <3>1. kept' \in Kept
      BY <1>1, LeaveType
    <3> QED BY <3>1, NoneAssumption DEF NoneAssumption
  <2> QED BY <1>1, <2>1 DEF Leave
<1>2. CASE SendDone \/ Fails \/ Breaks \/ Stopped \/ Overflows
  BY <1>1, <1>2 DEF SendDone, Fails, Breaks, Stopped, Overflows, Awaits, Yields, Statuses
<1>3. CASE FinalizerEnds \/ FinalizerFails \/ StoppedAgain
  BY <1>3 DEF FinalizerEnds, FinalizerFails, StoppedAgain, Ends
<1>4. CASE UNCHANGED <<kept, exit>> /\ kept = None /\ phase' \notin {"finalizing", "ended"}
  BY <1>4
<1>5. CASE UNCHANGED vars
  BY <1>5 DEF vars
<1> QED
  BY <1>2, <1>3, <1>4, <1>5
  DEF Next, Generator, Backend, RoundEnds, User, Answer, Think, OpenTag, CloseTag, Retract,
      NativeCall, Reports, StreamEnds, StreamOver, ToolRound, Announce, AsksFirst, RunsAtOnce,
      Waits, Approved, UnknownTool, Rejected, TimesOut, ToolReturns, YieldResult, Record,
      NextRound, Reads

\* The trace lags the screen by the result that was just yielded, and only then.
LEMMA TracedStep ==
  ASSUME Inv, [Next]_vars
  PROVE  Traced'
<1> USE DEF Inv, Traced, Over, loop, reply, ending, reader
<1>1. ASSUME NEW ok \in BOOLEAN, Engaged, phase # "answered", YieldResult(ok) PROVE Traced'
  <2>1. exit = "running" /\ shownTrace = trace
    BY <1>1 DEF Engaged, InCall
  <2>2. phase' = "answered" /\ exit' = "running" /\ trace' = trace /\ calls' = calls
    BY <1>1, <2>1 DEF YieldResult
  <2>3. (gate = "ok")' = ok
    BY <1>1 DEF YieldResult
  <2>4. shownTrace' = Append(trace, [id |-> Head(calls).id, name |-> Head(calls).name, ok |-> ok])
    BY <1>1, <2>1 DEF YieldResult, OnToolResult
  <2>5. Entry' = [id |-> Head(calls).id, name |-> Head(calls).name, ok |-> ok]
    BY <2>2, <2>3 DEF Entry
  <2> QED BY <2>2, <2>4, <2>5
<1>2. CASE UnknownTool \/ Rejected \/ TimesOut \/ \E ok \in BOOLEAN : ToolReturns(ok)
  BY <1>1, <1>2 DEF UnknownTool, Rejected, TimesOut, ToolReturns, Engaged, InCall
<1>3. CASE Record
  <2>1. exit = "running" /\ shownTrace = Append(trace, Entry)
    BY <1>3 DEF Record
  <2>2. phase' = "calling" /\ exit' = "running" /\ shownTrace' = shownTrace
    BY <1>3, <2>1 DEF Record
  <2>3. trace' = Append(trace, Entry)
    BY <1>3 DEF Record, Entry
  <2> QED BY <2>1, <2>2, <2>3
<1>4. CASE Overflows
  <2>1. exit = "running" /\ exit' = "abandoned" /\ phase' = "finalizing"
    BY <1>4 DEF Overflows, Leave, Yields
  <2>2. trace' = trace /\ shownTrace' = shownTrace
    BY <1>4 DEF Overflows, Leave, OnError
  <2>3. CASE phase = "answered"
    <3>1. calls # << >>
      BY <2>3 DEF Asked, Engaged
    <3>2. Entry \in Result /\ trace \in Seq(Result)
      BY <3>1, ResultType DEF Entry, TypeOK
    <3>3. DropLast(Append(trace, Entry), 1) = trace
      BY <3>2 DEF DropLast
    <3> QED BY <2>1, <2>2, <2>3, <3>3
  <2>4. CASE phase # "answered"
    BY <2>1, <2>2, <2>4
  <2> QED BY <2>3, <2>4
<1>5. CASE SendDone \/ Fails \/ Breaks \/ Stopped
  <2>1. phase # "answered" /\ exit = "running"
    BY <1>5 DEF SendDone, Fails, Breaks, Stopped, Awaits
  <2>2. phase' = "finalizing" /\ exit' \in {"returned", "raised", "cancelled"}
        /\ trace' = trace /\ shownTrace' = shownTrace
    BY <1>5 DEF SendDone, Fails, Breaks, Stopped, Leave, OnError
  <2> QED BY <2>1, <2>2
<1>6. CASE FinalizerEnds \/ FinalizerFails \/ StoppedAgain
  BY <1>6 DEF FinalizerEnds, FinalizerFails, StoppedAgain, Ends, OnEnd
<1>7. CASE UNCHANGED <<trace, shownTrace, exit>> /\ phase # "answered" /\ phase' # "answered"
  BY <1>7
<1>8. CASE UNCHANGED vars
  BY <1>8 DEF vars, Entry
<1> QED
  BY <1>2, <1>3, <1>4, <1>5, <1>6, <1>7, <1>8
  DEF Next, Generator, Backend, RoundEnds, User, Answer, OnDelta, Think, OnReasoning, OpenTag,
      CloseTag, Retract, OnRetract, NativeCall, Reports, StreamEnds, StreamOver, ToolRound,
      Announce, OnToolCall, AsksFirst, RunsAtOnce, Waits, Approved, NextRound, Reads

LEMMA RoundBound == TypeOK /\ round # MaxIterations - 1 => round < MaxIterations - 1
<1>1. TypeOK => round \in 0..(MaxIterations - 1)
  BY DEF TypeOK
<1>2. MaxIterations \in Int
  BY StreamAssumption DEF StreamAssumption
<1> QED BY <1>1, <1>2

\* An announced call is the head of a non-empty list; the reader is asked before the wait.
LEMMA AskedStep ==
  ASSUME Inv, [Next]_vars
  PROVE  Asked'
<1> USE DEF Inv, Asked, Engaged, InCall, loop, reply, ending, reader
<1>1. CASE Announce
  <2>1. /\ phase' = "announced" /\ calls' = calls /\ round' = round
        /\ calls # << >> /\ round < MaxIterations - 1
    BY <1>1 DEF Announce
  <2>2. gate' = "wait" => prompt' = Head(calls).id
    BY <1>1 DEF Announce, OnToolCall
  <2>3. gate' \in Gates(Head(calls).name)
    BY <1>1 DEF Announce
  <2>4. gate' = "run" /\ Head(calls).name \in DOMAIN ToolKind => ToolKind[Head(calls).name] # "always"
    BY <2>3 DEF Gates
  <2> QED BY <2>1, <2>2, <2>4
<1>2. CASE AsksFirst \/ RunsAtOnce \/ Waits \/ Approved
  BY <1>2 DEF AsksFirst, RunsAtOnce, Waits, Approved
<1>3. CASE UnknownTool \/ Rejected \/ TimesOut \/ \E ok \in BOOLEAN : ToolReturns(ok)
  BY <1>3 DEF UnknownTool, Rejected, TimesOut, ToolReturns, YieldResult
<1>4. CASE Record
  BY <1>4 DEF Record
<1>5. CASE ToolRound
  <2>1. phase' = "calling" /\ round' = round /\ round # MaxIterations - 1
    BY <1>5 DEF ToolRound, LastRound
  <2>2. round < MaxIterations - 1
    BY <2>1, RoundBound
  <2> QED BY <2>1, <2>2
<1>6. CASE phase' \in {"reading", "drained", "finishing", "finalizing", "ended"}
  BY <1>6
<1>7. CASE UNCHANGED vars
  BY <1>7 DEF vars
<1> QED
  BY <1>1, <1>2, <1>3, <1>4, <1>5, <1>6, <1>7
  DEF Next, Generator, Backend, RoundEnds, User, Answer, Think, OpenTag, CloseTag, Retract,
      NativeCall, Reports, StreamEnds, NextRound, Reads, SendDone, Fails, Breaks, Stopped,
      Overflows, Leave, FinalizerEnds, FinalizerFails, StoppedAgain, Ends

LEMMA InvStep == Inv /\ [Next]_vars => Inv'
<1> SUFFICES ASSUME Inv, [Next]_vars PROVE Inv'
  OBVIOUS
<1>1. TypeOK'
  BY TypeStep DEF Inv
<1> QED BY <1>1, ScreenStep, OverStep, TracedStep, AskedStep DEF Inv

\* The invariant of the generator and its reader.
THEOREM Invariance == Spec => []Inv
BY InvInit, InvStep, PTL DEF Spec

\* Every variable keeps its type; the round never reaches MAX_TOOL_ITERATIONS.
THEOREM TypeCorrect == Spec => []TypeOK
<1>1. Inv => TypeOK
  BY DEF Inv
<1> QED BY <1>1, Invariance, PTL

\* What the finalizer is given is what a reader of every frame has on the screen, however
\* the turn ended.
THEOREM KeptIsShown == Spec => []ShownIsKept
<1>1. Inv => ShownIsKept
  BY DEF Inv, Screen, Over, Traced, ShownIsKept
<1> QED BY <1>1, Invariance, PTL

\* Whatever the generator waits for the user to approve, the user is being asked about.
THEOREM WaitsAsked == Spec => []WaitsAreAsked
<1>1. Inv => WaitsAreAsked
  BY DEF Inv, Asked, WaitsAreAsked
<1> QED BY <1>1, Invariance, PTL

\* A call of a server that always asks runs only from an approval.
THEOREM GatedAsk == Spec => GatedCallsAsk
<1>1. ASSUME Inv, [Next]_vars, phase # "executing", phase' = "executing",
             Head(calls).name \in DOMAIN ToolKind, ToolKind[Head(calls).name] = "always"
      PROVE  phase = "approval"
  <2>1. RunsAtOnce \/ Approved
    BY <1>1 DEF Next, Generator, Backend, RoundEnds, User, Answer, Think, OpenTag, CloseTag, Retract,
      NativeCall, Reports, StreamEnds, NextRound, Reads, SendDone, Fails, Breaks, Stopped,
      Overflows, Leave, FinalizerEnds, FinalizerFails, StoppedAgain, Ends, ToolRound, Announce,
      AsksFirst, Waits, UnknownTool, Rejected, TimesOut, ToolReturns, YieldResult, Record, vars
  <2> QED BY <1>1, <2>1 DEF RunsAtOnce, Approved, Inv, Asked
<1> QED BY <1>1, Invariance, PTL DEF GatedCallsAsk, Spec

-----------------------------------------------------------------------------
(* The reader sees a Reply *)

LEMMA ReplyInit == Init => R!Init
BY DEF Init, R!Init, InCall

LEMMA LeavesClose ==
  ASSUME Inv, NEW how \in {"returned", "raised", "cancelled", "abandoned"}, NEW s \in Statuses,
         Leave(how, s), UNCHANGED <<shownText, shownThoughts, shownTrace>>,
         kept = None, phase = "answered" => how = "abandoned"
  PROVE  R!Close
<1>1. kept' # None
  BY LeaveType, NoneAssumption DEF NoneAssumption, Inv
<1>2. kept' = [status |-> s, text |-> text, thoughts |-> thoughts, trace |-> trace]
  BY DEF Leave
<1>3. text = shownText /\ thoughts = shownThoughts
  BY DEF Inv, Screen
<1>4. trace \in {shownTrace, SubSeq(shownTrace, 1, Len(shownTrace) - 1)}
  <2>1. CASE phase = "answered"
    <3>1. calls # << >> /\ shownTrace = Append(trace, Entry)
      BY <2>1 DEF Inv, Asked, Engaged, Traced
    <3>2. Entry \in Result /\ trace \in Seq(Result)
      BY <3>1, ResultType DEF Entry, TypeOK, Inv
    <3> QED BY <3>1, <3>2
  <2>2. CASE phase # "answered"
    BY <2>2 DEF Inv, Traced, Over
  <2> QED BY <2>1, <2>2
<1>5. UNCHANGED <<text, roundText>> /\ ~InCall'
  BY DEF Leave, loop, InCall
<1> DEFINE Keeps == [text |-> kept.text, thoughts |-> kept.thoughts, trace |-> kept.trace]
<1>6. Keeps' = [text |-> shownText, thoughts |-> shownThoughts, trace |-> trace]
  BY <1>2, <1>3
<1>7. \E shown \in {shownTrace, SubSeq(shownTrace, 1, Len(shownTrace) - 1)} :
        Keeps' = [text |-> shownText, thoughts |-> shownThoughts, trace |-> shown]
  BY <1>4, <1>6
<1> HIDE DEF Keeps
<1> QED BY <1>1, <1>5, <1>7 DEF R!Close, R!Running, Keeps

LEMMA ReplyStep ==
  ASSUME Inv, [Next]_vars
  PROVE  [R!Next]_(R!vars)
<1> USE DEF Inv, Over, loop, reply, ending, reader, R!Running, R!Talking
<1>1. ASSUME NEW x \in Tokens, Answer(x) PROVE R!Say(x)
  <2>1. kept = None /\ kept' = None /\ ~InCall /\ ~InCall'
    BY <1>1 DEF Answer, Reads, InCall
  <2>2. Len(text') - Len(roundText') = Len(text) - Len(roundText)
    BY <1>1 DEF Answer, TypeOK
  <2> QED BY <1>1, <2>1, <2>2 DEF Answer, OnDelta, R!Say
<1>2. ASSUME NEW x \in Tokens, Think(x) PROVE R!Muse(x)
  BY <1>2 DEF Think, Reads, InCall, OnReasoning, R!Muse
<1>3. CASE Retract
  <2>1. kept = None /\ kept' = None /\ ~InCall /\ ~InCall'
    BY <1>3 DEF Retract, InCall
  <2> DEFINE firm == Len(text) - Len(roundText)
  <2>2. firm \in 0..Len(text) /\ roundText = SubSeq(text, firm + 1, Len(text))
    BY DEF EndsWith, TypeOK
  <2>3. text' = SubSeq(text, 1, firm) /\ shownText' = SubSeq(shownText, 1, firm)
        /\ shownThoughts' = shownThoughts \o roundText /\ shownText = text /\ roundText' = << >>
        /\ shownTrace' = shownTrace
    BY <1>3 DEF Retract, OnRetract, Screen, DropLast
  <2>4. firm' = firm
    BY <2>2, <2>3 DEF TypeOK
  <2>5. shownText' = SubSeq(shownText, 1, firm)
        /\ shownThoughts' = shownThoughts \o SubSeq(shownText, firm + 1, Len(shownText))
    BY <2>2, <2>3
  <2> HIDE DEF Inv, Over
  <2> QED BY <2>1, <2>3, <2>4, <2>5 DEF R!Withdraw, R!Next
<1>4. CASE NextRound
  <2>1. kept = None /\ kept' = None /\ ~InCall /\ ~InCall'
    BY <1>4 DEF NextRound, InCall
  <2>2. Len(text') - Len(roundText') = Len(shownText)
    BY <1>4 DEF NextRound, Screen, TypeOK
  <2>3. UNCHANGED <<shownText, shownThoughts, shownTrace, kept>>
    BY <1>4 DEF NextRound
  <2> QED BY <2>1, <2>2, <2>3 DEF R!Firm, R!Next
<1>5. CASE Announce
  <2>1. Head(calls) \in [id : Ids, name : Names]
    <3>1. Head(calls) \in Call
      BY <1>5 DEF Announce, TypeOK
    <3> QED BY <3>1 DEF Call
  <2>2. R!Ask(Head(calls))
    BY <1>5 DEF Announce, InCall, OnToolCall, R!Ask
  <2> QED BY <2>1, <2>2 DEF R!Next
<1>6. ASSUME NEW ok \in BOOLEAN, InCall, YieldResult(ok) PROVE R!Result(ok)
  <2>1. kept = None /\ kept' = None /\ phase' = "answered" /\ ~InCall'
    BY <1>6 DEF InCall, YieldResult
  <2>2. Head(calls) \in Call
    BY <1>6 DEF Asked, Engaged, TypeOK
  <2>3. Head(calls) # None
    BY <2>2, NoneAssumption DEF NoneAssumption
  <2> QED BY <1>6, <2>1, <2>3 DEF YieldResult, OnToolResult, R!Result
<1>7. CASE UnknownTool \/ Rejected \/ TimesOut \/ \E ok \in BOOLEAN : ToolReturns(ok)
  BY <1>6, <1>7 DEF UnknownTool, Rejected, TimesOut, ToolReturns, InCall, R!Next
<1>8. CASE SendDone \/ Fails \/ Breaks \/ Stopped \/ Overflows
  <2>1. kept = None /\ UNCHANGED <<shownText, shownThoughts, shownTrace>>
    BY <1>8 DEF SendDone, Fails, Breaks, Stopped, Overflows, OnError, Awaits, Yields
  <2>2. PICK how \in {"returned", "raised", "cancelled", "abandoned"}, s \in Statuses :
          Leave(how, s) /\ (phase = "answered" => how = "abandoned")
    BY <1>8 DEF SendDone, Fails, Breaks, Stopped, Overflows, Awaits, Statuses, TypeOK
  <2> QED BY <2>1, <2>2, LeavesClose DEF R!Next
<1>9. CASE UNCHANGED <<text, roundText, kept, calls, shownText, shownThoughts, shownTrace>>
           /\ (InCall <=> InCall')
  BY <1>9 DEF R!vars
<1>10. CASE UNCHANGED <<text, roundText, kept, shownText, shownThoughts, shownTrace>>
           /\ ~InCall /\ ~InCall'
  BY <1>10 DEF R!vars
<1>11. CASE UNCHANGED vars
  BY <1>11 DEF vars, R!vars, InCall
<1> QED
  BY <1>1, <1>2, <1>3, <1>4, <1>5, <1>7, <1>8, <1>9, <1>10, <1>11
  DEF Next, Generator, Backend, RoundEnds, User, OpenTag, CloseTag, NativeCall, Reports,
      StreamEnds, StreamOver, ToolRound, AsksFirst, RunsAtOnce, Waits, Approved, Record, InCall,
      FinalizerEnds, FinalizerFails, StoppedAgain, Ends, OnEnd, R!Next

\* A reader of the frames sees a reply in the sense of module Reply.
THEOREM StreamImplementsReply == Spec => ImplementsReply
<1>1. Inv /\ [Next]_vars => [R!Next]_(R!vars)
  BY ReplyStep
<1> QED BY ReplyInit, <1>1, Invariance, PTL DEF Spec, R!Spec, ImplementsReply

-----------------------------------------------------------------------------
(* Every request answers its calls.  A block is an assistant message and the results of *)
(* its calls in order; all but the last are whole, and the last one lacks the results   *)
(* of the calls the loop still holds.                                                   *)

ResultOf(id) == [role |-> "tool", ids |-> <<id>>]

Whole(ms, i) ==
  /\ i + Len(ms[i].ids) < Len(ms)
  /\ \A k \in 1..Len(ms[i].ids) : ms[i + k] = ResultOf(ms[i].ids[k])
  /\ ms[i + Len(ms[i].ids) + 1].role = "assistant"

Lacks(ms, i, cs) ==
  /\ i + Len(ms[i].ids) = Len(ms) + Len(cs)
  /\ \A k \in 1..(Len(ms) - i) : ms[i + k] = ResultOf(ms[i].ids[k])
  /\ \A k \in 1..Len(cs) : ms[i].ids[Len(ms) - i + k] = cs[k].id

Blocks(ms, cs) ==
  /\ ms = << >> => cs = << >>
  /\ ms # << >> => ms[1].role = "assistant"
  /\ \A i \in 1..Len(ms) : ms[i].role = "assistant" => Whole(ms, i) \/ Lacks(ms, i, cs)

\* The calls the last request still owes results for; while a reply is read, calls are
\* only collected.
Owing == IF phase = "calling" \/ Engaged THEN calls ELSE << >>

Conversation == exit = "running" => Blocks(messages, Owing)

\* `new` is `ms` and one message more.
Extends(new, ms) ==
  /\ ms \in Seq(Message) /\ new \in Seq(Message)
  /\ Len(new) = Len(ms) + 1
  /\ \A j \in 1..Len(ms) : new[j] = ms[j]

LEMMA AppendExtends ==
  ASSUME NEW ms \in Seq(Message), NEW m \in Message
  PROVE  Extends(Append(ms, m), ms) /\ Append(ms, m)[Len(ms) + 1] = m
BY DEF Extends

LEMMA IdsLength ==
  ASSUME NEW ms \in Seq(Message), NEW i \in 1..Len(ms)
  PROVE  Len(ms[i].ids) \in Nat /\ ms[i] \in Message
<1>1. ms[i] \in Message
  OBVIOUS
<1>2. ms[i].ids \in Seq(Ids)
  BY <1>1 DEF Message
<1>3. Len(ms[i].ids) \in Nat
  BY <1>2
<1> QED BY <1>1, <1>3

LEMMA WholeStays ==
  ASSUME NEW ms, NEW new, Extends(new, ms), NEW i \in 1..Len(ms), Whole(ms, i)
  PROVE  Whole(new, i)
<1> DEFINE n == Len(ms[i].ids)
<1>1. Len(ms) \in Nat /\ n \in Nat /\ new[i] = ms[i] /\ i \in Nat
  BY IdsLength DEF Extends
<1> HIDE DEF n
<1>2. i + n < Len(ms) /\ i + n + 1 \in 1..Len(ms) /\ i + n < Len(new)
  BY <1>1 DEF Whole, Extends, n
<1>3. new[i + n + 1].role = "assistant"
  BY <1>2 DEF Whole, Extends, n
<1>4. ASSUME NEW k \in 1..n PROVE new[i + k] = ResultOf(ms[i].ids[k])
  <2>1. i + k \in 1..Len(ms)
    BY <1>1, <1>2
  <2>2. ms[i + k] = ResultOf(ms[i].ids[k])
    BY <1>4 DEF Whole, n
  <2> QED BY <2>1, <2>2 DEF Extends
<1> QED BY <1>1, <1>2, <1>3, <1>4 DEF Whole, n

\* A block that lacks nothing is whole when the next one opens.
LEMMA NextBlock ==
  ASSUME NEW ms, NEW new, Extends(new, ms), NEW i \in 1..Len(ms), Lacks(ms, i, << >>),
         new[Len(ms) + 1].role = "assistant"
  PROVE  Whole(new, i)
<1> DEFINE n == Len(ms[i].ids)
<1>1. Len(ms) \in Nat /\ n \in Nat /\ new[i] = ms[i] /\ i \in Nat
  BY IdsLength DEF Extends
<1> HIDE DEF n
<1>2. i + n = Len(ms) /\ i + n < Len(new) /\ n = Len(ms) - i
  BY <1>1 DEF Lacks, Extends, n
<1>3. ASSUME NEW k \in 1..n PROVE new[i + k] = ResultOf(ms[i].ids[k])
  <2>1. i + k \in 1..Len(ms) /\ k \in 1..(Len(ms) - i)
    BY <1>1, <1>2
  <2>2. ms[i + k] = ResultOf(ms[i].ids[k])
    BY <2>1 DEF Lacks
  <2> QED BY <2>1, <2>2 DEF Extends
<1> QED BY <1>1, <1>2, <1>3 DEF Whole, n

\* The result of the first call owed settles that call and no other.
LEMMA ResultSettles ==
  ASSUME NEW ms, NEW new, Extends(new, ms), NEW i \in 1..Len(ms),
         NEW cs \in Seq(Call), cs # << >>, Lacks(ms, i, cs),
         new[Len(ms) + 1] = ResultOf(cs[1].id)
  PROVE  Lacks(new, i, Tail(cs))
<1> DEFINE rest == Tail(cs)
<1>1. /\ Len(cs) \in Nat /\ Len(cs) > 0 /\ Len(rest) = Len(cs) - 1
      /\ \A k \in 1..Len(rest) : rest[k] = cs[k + 1]
  OBVIOUS
<1> HIDE DEF rest
<1>2. Len(ms) \in Nat /\ Len(ms[i].ids) \in Nat /\ new[i] = ms[i] /\ i \in Nat
      /\ Len(new) = Len(ms) + 1
  BY IdsLength DEF Extends
<1>3. i + Len(ms[i].ids) = Len(ms) + Len(cs)
  BY DEF Lacks
<1>4. i + Len(ms[i].ids) = Len(new) + Len(rest)
  <2>1. Len(new) + Len(rest) = Len(ms) + Len(cs)
    BY <1>1, <1>2
  <2> QED BY <1>3, <2>1
<1>5. ASSUME NEW k \in 1..(Len(new) - i) PROVE new[i + k] = ResultOf(ms[i].ids[k])
  <2>1. CASE k \in 1..(Len(ms) - i)
    <3>1. i + k \in 1..Len(ms)
      BY <1>2, <2>1
    <3>2. ms[i + k] = ResultOf(ms[i].ids[k])
      BY <2>1 DEF Lacks
    <3> QED BY <3>1, <3>2 DEF Extends
  <2>2. CASE k = Len(ms) - i + 1
    <3>1. i + k = Len(ms) + 1
      BY <1>2, <2>2
    <3>2. 1 \in 1..Len(cs) /\ Len(ms) - i + 1 = k
      BY <1>1, <2>2
    <3>3. ms[i].ids[Len(ms) - i + 1] = cs[1].id
      BY <3>2 DEF Lacks
    <3> QED BY <3>1, <3>2, <3>3
  <2>3. k \in 1..(Len(ms) - i) \/ k = Len(ms) - i + 1
    BY <1>2, <1>5
  <2> QED BY <2>1, <2>2, <2>3
<1>6. ASSUME NEW k \in 1..Len(rest) PROVE ms[i].ids[Len(new) - i + k] = rest[k].id
  <2>1. k + 1 \in 1..Len(cs) /\ Len(new) - i + k = Len(ms) - i + (k + 1)
    BY <1>1, <1>2
  <2>2. ms[i].ids[Len(ms) - i + (k + 1)] = cs[k + 1].id
    BY <2>1 DEF Lacks
  <2> QED BY <1>1, <2>1, <2>2
<1> QED BY <1>2, <1>4, <1>5, <1>6 DEF Lacks, rest

\* A round that asks for tools opens a block that lacks them all.
LEMMA AskOpens ==
  ASSUME NEW ms \in Seq(Message), Blocks(ms, << >>), NEW cs \in Seq(Call)
  PROVE  Blocks(Append(ms, [role |-> "assistant", ids |-> IdsOf(cs)]), cs)
<1> DEFINE m == [role |-> "assistant", ids |-> IdsOf(cs)]
           new == Append(ms, m)
<1>1. IdsOf(cs) \in Seq(Ids) /\ Len(IdsOf(cs)) = Len(cs) /\ \A k \in 1..Len(cs) : IdsOf(cs)[k] = cs[k].id
  BY IdsOfType DEF IdsOf
<1>2. m \in Message /\ m.role = "assistant" /\ m.ids = IdsOf(cs)
  BY <1>1 DEF Message
<1>3. Extends(new, ms) /\ new[Len(ms) + 1] = m
  BY <1>2, AppendExtends
<1> HIDE DEF new, m
<1>4. Len(ms) \in Nat /\ Len(new) = Len(ms) + 1 /\ Len(cs) \in Nat
  BY <1>3 DEF Extends
<1>5. new[1].role = "assistant"
  <2>1. CASE ms = << >>
    BY <1>2, <1>3, <2>1
  <2>2. CASE ms # << >>
    <3>1. 1 \in 1..Len(ms)
      BY <1>4, <2>2
    <3> QED BY <1>3, <2>2, <3>1 DEF Blocks, Extends
  <2> QED BY <2>1, <2>2
<1>6. Lacks(new, Len(ms) + 1, cs)
  <2>1. Len(new) - (Len(ms) + 1) = 0
    BY <1>4
  <2>2. \A k \in 1..Len(cs) : 0 + k = k
    BY <1>4
  <2>3. \A k \in 1..0 : FALSE
    OBVIOUS
  <2> QED BY <1>1, <1>2, <1>3, <1>4, <2>1, <2>2, <2>3 DEF Lacks
<1>7. ASSUME NEW i \in 1..Len(new), new[i].role = "assistant"
      PROVE  Whole(new, i) \/ Lacks(new, i, cs)
  <2>1. CASE i \in 1..Len(ms)
    <3>1. ms[i].role = "assistant"
      BY <1>3, <1>7, <2>1 DEF Extends
    <3>2. Whole(ms, i) \/ Lacks(ms, i, << >>)
      BY <2>1, <3>1 DEF Blocks
    <3> QED BY <1>2, <1>3, <2>1, <3>2, WholeStays, NextBlock
  <2>2. CASE i = Len(ms) + 1
    BY <1>6, <2>2
  <2> QED BY <1>4, <2>1, <2>2
<1>8. new # << >>
  BY <1>4
<1> QED BY <1>5, <1>7, <1>8 DEF Blocks, new, m

LEMMA AnswerSettles ==
  ASSUME NEW ms \in Seq(Message), NEW cs \in Seq(Call), cs # << >>, Blocks(ms, cs)
  PROVE  Blocks(Append(ms, ResultMessage(Head(cs))), Tail(cs))
<1> DEFINE m == ResultMessage(Head(cs))
           new == Append(ms, m)
<1>1. m = ResultOf(cs[1].id) /\ m \in Message /\ m.role = "tool"
  <2>1. Head(cs) = cs[1] /\ cs[1] \in Call
    OBVIOUS
  <2> QED BY <2>1 DEF ResultMessage, ResultOf, Call, Message
<1>2. Extends(new, ms) /\ new[Len(ms) + 1] = m
  BY <1>1, AppendExtends
<1> HIDE DEF new, m
<1>3. Len(ms) \in Nat /\ Len(new) = Len(ms) + 1 /\ ms # << >> /\ 1 \in 1..Len(ms)
  BY <1>2 DEF Extends, Blocks
<1>4. new[1].role = "assistant"
  BY <1>2, <1>3 DEF Blocks, Extends
<1>5. ASSUME NEW i \in 1..Len(new), new[i].role = "assistant"
      PROVE  Whole(new, i) \/ Lacks(new, i, Tail(cs))
  <2>1. CASE i \in 1..Len(ms)
    <3>1. ms[i].role = "assistant"
      BY <1>2, <1>5, <2>1 DEF Extends
    <3>2. Whole(ms, i) \/ Lacks(ms, i, cs)
      BY <2>1, <3>1 DEF Blocks
    <3> QED BY <1>1, <1>2, <2>1, <3>2, WholeStays, ResultSettles
  <2>2. CASE i = Len(ms) + 1
    BY <1>1, <1>2, <1>5, <2>2
  <2> QED BY <1>3, <2>1, <2>2
<1> QED BY <1>3, <1>4, <1>5 DEF Blocks, new, m

LEMMA ConversationStep ==
  ASSUME Inv, Conversation, [Next]_vars
  PROVE  Conversation'
<1>1. CASE exit' # "running"
  BY <1>1 DEF Conversation
<1>2. CASE ToolRound /\ exit = "running"
  <2>1. Owing = << >> /\ Owing' = Detected
    BY <1>2 DEF ToolRound, StreamOver, Owing, Engaged, InCall
  <2>2. Blocks(messages, << >>)
    BY <1>2, <2>1 DEF Conversation
  <2>3. messages' = Append(messages, [role |-> "assistant", ids |-> IdsOf(Detected)])
    BY <1>2 DEF ToolRound
  <2>4. messages \in Seq(Message) /\ Detected \in Seq(Call)
    BY DetectedType DEF Inv, TypeOK
  <2>5. Blocks(messages', Owing')
    BY <2>1, <2>2, <2>3, <2>4, AskOpens
  <2> QED BY <2>5 DEF Conversation
<1>3. CASE Record /\ exit = "running"
  <2>1. Owing = calls /\ Owing' = Tail(calls) /\ calls # << >>
    BY <1>3 DEF Record, Owing, Engaged, InCall, Inv, Asked
  <2>2. messages' = Append(messages, ResultMessage(Head(calls)))
    BY <1>3 DEF Record
  <2>3. messages \in Seq(Message) /\ calls \in Seq(Call)
    BY DEF Inv, TypeOK
  <2>4. Blocks(messages, calls)
    BY <1>3, <2>1 DEF Conversation
  <2>5. Blocks(messages', Owing')
    BY <2>1, <2>2, <2>3, <2>4, AnswerSettles
  <2> QED BY <2>5 DEF Conversation
<1>4. CASE exit = "running" /\ UNCHANGED messages /\ Owing' = Owing
  BY <1>4 DEF Conversation
<1>5. CASE UNCHANGED <<phase, calls, messages, exit>>
  BY <1>5 DEF Conversation, Owing, Engaged, InCall
<1>6. CASE Generator /\ ~Record /\ exit' = "running"
  <2>1. UNCHANGED <<messages, exit>> /\ Owing' = Owing
    BY <1>6 DEF Generator, AsksFirst, RunsAtOnce, Waits, UnknownTool, YieldResult, Announce,
       NextRound, SendDone, Leave, Owing, Engaged, InCall, loop, reply, ending
  <2> QED BY <1>4, <1>6, <2>1
<1>7. CASE Approved \/ Rejected \/ TimesOut \/ \E ok \in BOOLEAN : ToolReturns(ok)
  <2>1. UNCHANGED <<messages, exit>> /\ Owing' = Owing
    BY <1>7 DEF Approved, Rejected, TimesOut, ToolReturns, YieldResult, Owing, Engaged, InCall,
       loop, reply, ending
  <2> QED BY <1>1, <1>4, <2>1
<1>8. CASE Backend \/ StreamEnds
  <2>1. UNCHANGED <<messages, exit>> /\ Owing = << >> /\ Owing' = << >>
    BY <1>8 DEF Backend, Answer, Think, OpenTag, CloseTag, Retract, NativeCall, Reports, Reads,
       StreamEnds, StreamOver, Owing, Engaged, InCall, loop, reply, ending
  <2> QED BY <1>1, <1>4, <2>1
<1>9. CASE SendDone \/ Fails \/ Breaks \/ Stopped \/ Overflows
  BY <1>1, <1>9 DEF SendDone, Fails, Breaks, Stopped, Overflows, Leave, Inv, TypeOK, Over, Conversation
<1>10. CASE FinalizerEnds \/ FinalizerFails \/ StoppedAgain
  <2>1. phase = "finalizing" /\ exit' \in {exit, "lost"}
    BY <1>10 DEF FinalizerEnds, FinalizerFails, StoppedAgain, Ends
  <2>2. exit # "running"
    BY <2>1 DEF Inv, Over
  <2> QED BY <1>1, <2>1, <2>2
<1> QED
  <2>1. exit = "running" \/ exit' = exit \/ FinalizerEnds \/ FinalizerFails \/ StoppedAgain
        \/ SendDone \/ Fails \/ Breaks \/ Stopped \/ Overflows
    BY DEF Next, Generator, Backend, RoundEnds, User, Answer, Think, OpenTag, CloseTag, Retract,
      NativeCall, Reports, StreamEnds, NextRound, Approved, ToolRound, Announce,
      AsksFirst, RunsAtOnce, Waits, UnknownTool, Rejected, TimesOut, ToolReturns, YieldResult,
      Record, vars, ending
  <2> QED
    BY <2>1, <1>1, <1>2, <1>3, <1>5, <1>6, <1>7, <1>8, <1>9, <1>10
    DEF Next, RoundEnds, User, Generator, vars, loop, reply, ending

\* Every request after the first answers each call of its assistant message, in order,
\* before anything else.
THEOREM RequestsAnswered == Spec => []RequestsAreAnswered
<1>1. Init => Conversation
  BY DEF Init, Conversation, Blocks, Owing, Engaged, InCall
<1>2. Inv /\ Conversation /\ [Next]_vars => Conversation'
  BY ConversationStep
<1>3. Inv /\ Conversation => RequestsAreAnswered
  <2> SUFFICES ASSUME Inv, Conversation, phase = "reading", NEW i \in 1..Len(messages)
               PROVE  /\ messages[i].role = "assistant" =>
                           Whole(messages, i) \/ Lacks(messages, i, << >>)
                      /\ i = 1 => messages[i].role = "assistant"
    <3>1. ASSUME NEW i \in 1..Len(messages), messages[i].role = "assistant",
                 Whole(messages, i) \/ Lacks(messages, i, << >>)
          PROVE  LET n == Len(messages[i].ids)
                 IN  /\ i + n <= Len(messages)
                     /\ \A k \in 1..n : messages[i + k] = [role |-> "tool", ids |-> <<messages[i].ids[k]>>]
                     /\ i + n < Len(messages) => messages[i + n + 1].role = "assistant"
      BY <3>1, IdsLength DEF Whole, Lacks, ResultOf, Inv, TypeOK
    <3> QED BY <3>1 DEF RequestsAreAnswered
  <2>1. exit = "running" /\ Owing = << >>
    BY DEF Inv, Over, Owing, Engaged, InCall
  <2>2. Blocks(messages, << >>)
    BY <2>1 DEF Conversation
  <2> QED BY <2>2 DEF Blocks
<1> QED BY <1>1, <1>2, <1>3, Invariance, PTL DEF Spec

\* The screen and the generator agree about the text and about what is asked (chat.py).
THEOREM ScreenAgrees == Spec => []ShownInv
BY TypeCorrect, KeptIsShown, WaitsAsked, PTL DEF ShownInv
===============================================================================
