------------------------------ MODULE TurnBroker ------------------------------
(***************************************************************************)
(* Turns that outlive the connection that started them                     *)
(* (services/turns.py, and the completions, stream and stop routes of      *)
(* api/routes/chats.py).                                                   *)
(*                                                                         *)
(* A turn is one asyncio task that drains a frame generator into a buffer. *)
(* Any number of readers follow the buffer; a reader leaving means nothing *)
(* to the turn.  A step of this module is what one task does between two   *)
(* awaits.  The generator (PreparedTurn.stream) appears here only as the   *)
(* order in which it may yield, end, raise or unwind a cancellation.       *)
(***************************************************************************)
EXTENDS Integers, Sequences

CONSTANTS
  Chats,      \* conversations
  Turns,      \* ActiveTurn objects; each is started at most once
  Readers,    \* responses reading a turn
  Stoppers,   \* requests to stop a turn
  MaxBuffer,  \* frames a turn may buffer (MAX_BUFFER_BYTES, in frames)
  None        \* "no turn"

ASSUME BrokerAssumption ==
  /\ MaxBuffer \in Nat
  /\ None \notin Turns \cup Chats

VARIABLES
  registry,   \* TurnBroker._turns: the latest turn of each conversation
  owner,      \* ActiveTurn.chat_id
  task,       \* the asyncio task running _run
  cancel,     \* a CancelledError waits to be thrown into that task
  lost,       \* the latest stop of a running turn was swallowed in its body
  source,     \* where the frame generator is suspended
  frames,     \* ActiveTurn.frames
  done,       \* ActiveTurn.done
  expired,    \* RETENTION_S has passed since finished_at
  reader,     \* ActiveTurn.read, one generator per response
  stopper     \* TurnBroker.cancel, one call per request

\* What a reader may ask to resume from: a turn buffers at most MaxBuffer + 3 frames.
Positions == -1..(MaxBuffer + 4)

turnVars == <<owner, task, cancel, lost, source, frames, done>>
vars == <<registry, turnVars, expired, reader, stopper>>

Ends  == {"done_ok", "done_stopped", "done_error"}
Frame == {"start", "delta", "error"} \cup Ends

\* Where a generator may be suspended when its task is cancelled: inside its body, or
\* in its final block, awaiting the task that persists what was produced.
Finalizing == {"closing", "unwinding", "raising"}
SourceState == {"unopened", "open", "abandoned", "closed"} \cup Finalizing

ReaderState ==
  [state : {"idle", "following", "waiting", "ended"},
   turn  : Turns \cup {None},
   start : Nat,
   index : Nat,
   got   : Seq(Frame)]

Nobody == [state |-> "idle", turn |-> None, start |-> 0, index |-> 0, got |-> << >>]

TypeOK ==
  /\ registry \in [Chats -> Turns \cup {None}]
  /\ owner    \in [Turns -> Chats \cup {None}]
  /\ task     \in [Turns -> {"unused", "created", "running", "over"}]
  /\ cancel   \in [Turns -> BOOLEAN]
  /\ lost     \in [Turns -> BOOLEAN]
  /\ source   \in [Turns -> SourceState]
  /\ frames   \in [Turns -> Seq(Frame)]
  /\ done     \in [Turns -> BOOLEAN]
  /\ expired  \in [Turns -> BOOLEAN]
  /\ reader   \in [Readers -> ReaderState]
  /\ stopper  \in [Stoppers -> [state : {"idle", "waiting", "answered"},
                                turn  : Turns \cup {None}]]

Init ==
  /\ registry = [c \in Chats |-> None]
  /\ owner    = [t \in Turns |-> None]
  /\ task     = [t \in Turns |-> "unused"]
  /\ cancel   = [t \in Turns |-> FALSE]
  /\ lost     = [t \in Turns |-> FALSE]
  /\ source   = [t \in Turns |-> "unopened"]
  /\ frames   = [t \in Turns |-> << >>]
  /\ done     = [t \in Turns |-> FALSE]
  /\ expired  = [t \in Turns |-> FALSE]
  /\ reader   = [r \in Readers |-> Nobody]
  /\ stopper  = [s \in Stoppers |-> [state |-> "idle", turn |-> None]]

-----------------------------------------------------------------------------
(* The registry.  Every lookup first evicts finished turns past retention. *)

\* Mutant: a turn with no end time yet counts as long finished.
Evict_Unfinished(reg) ==
  [c \in Chats |-> IF reg[c] # None /\ (expired[reg[c]] \/ ~done[reg[c]]) THEN None ELSE reg[c]]

Evict(reg) ==
  [c \in Chats |-> IF reg[c] # None /\ expired[reg[c]] THEN None ELSE reg[c]]

Running(c) == Evict(registry)[c] # None /\ ~done[Evict(registry)[c]]

Free(r) == reader[r].state \in {"idle", "ended"}

From(i) == IF i < 0 THEN 0 ELSE i

Follow(r, t, i) ==
  reader' = [reader EXCEPT ![r] =
    [state |-> "following", turn |-> t, start |-> From(i), index |-> From(i), got |-> << >>]]

\* POST completions: start() spawns the task and the response begins reading it.
StartTurn(c, t, r) ==
  /\ task[t] = "unused"
  /\ ~Running(c)
  /\ Free(r)
  /\ registry' = [Evict(registry) EXCEPT ![c] = t]
  /\ owner' = [owner EXCEPT ![t] = c]
  /\ task' = [task EXCEPT ![t] = "created"]
  /\ Follow(r, t, 0)
  /\ UNCHANGED <<cancel, lost, source, frames, done, expired, stopper>>

\* A lookup that changes nothing but evicts: the 409 of a second turn, the 404 of a
\* stream with nothing to read, a stop with nothing to stop.
LookupOnly(c) ==
  /\ registry' = Evict(registry)
  /\ UNCHANGED <<turnVars, expired, reader, stopper>>

\* GET stream: from=0 replays, from=<index> resumes, from=now is Len(frames).  The index
\* is the caller's, and may lie outside the buffer.
Attach(r, c, i) ==
  LET t == Evict(registry)[c] IN
  /\ Free(r)
  /\ t # None
  /\ i \in -1..(Len(frames[t]) + 1)
  /\ registry' = Evict(registry)
  /\ Follow(r, t, i)
  /\ UNCHANGED <<turnVars, expired, stopper>>

\* Mutant: a stop that finds the turn between two frames does not reach its task.
Stop_Unflagged(s, c) ==
  LET t == Evict(registry)[c] IN
  /\ stopper[s].state # "waiting"
  /\ Running(c)
  /\ registry' = Evict(registry)
  /\ stopper' = [stopper EXCEPT ![s] = [state |-> "waiting", turn |-> t]]
  /\ UNCHANGED <<turnVars, expired, reader>>

\* POST stop: cancel() flags the task, then awaits it.  A finished task ignores it.
Stop(s, c) ==
  LET t == Evict(registry)[c] IN
  /\ stopper[s].state # "waiting"
  /\ Running(c)
  /\ registry' = Evict(registry)
  /\ cancel' = [cancel EXCEPT ![t] = task[t] # "over"]
  /\ lost' = [lost EXCEPT ![t] = FALSE]
  /\ stopper' = [stopper EXCEPT ![s] = [state |-> "waiting", turn |-> t]]
  /\ UNCHANGED <<owner, task, source, frames, done, expired, reader>>

StopReturns(s) ==
  /\ stopper[s].state = "waiting"
  /\ task[stopper[s].turn] = "over"
  /\ stopper' = [stopper EXCEPT ![s].state = "answered"]
  /\ UNCHANGED <<registry, turnVars, expired, reader>>

-----------------------------------------------------------------------------
(* The task.  append() and finish() wake every reader waiting on the turn. *)

Woken(t) ==
  [r \in Readers |->
    IF reader[r].state = "waiting" /\ reader[r].turn = t
    THEN [reader[r] EXCEPT !.state = "following"]
    ELSE reader[r]]

\* Mutant: finish() does not set the event.
AppendFrames_SilentEnd(t, fs) ==
  /\ frames' = [frames EXCEPT ![t] = @ \o fs]
  /\ reader' = IF fs = << >> THEN reader ELSE Woken(t)

AppendFrames(t, fs) ==
  /\ frames' = [frames EXCEPT ![t] = @ \o fs]
  /\ reader' = Woken(t)

\* The last step of _run: whatever it appends, then finish().
Finish(t, fs, next) ==
  /\ AppendFrames(t, fs)
  /\ done' = [done EXCEPT ![t] = TRUE]
  /\ task' = [task EXCEPT ![t] = "over"]
  /\ cancel' = [cancel EXCEPT ![t] = FALSE]
  /\ lost' = [lost EXCEPT ![t] = FALSE]
  /\ source' = [source EXCEPT ![t] = next]
  /\ UNCHANGED <<registry, owner, expired, stopper>>

\* Mutant: the safety valve finishes the turn but does not leave the loop.
Publish_NoReturn(t, fs, next) ==
  LET over == Len(frames[t]) + Len(fs) > MaxBuffer IN
  /\ AppendFrames(t, IF over THEN fs \o <<"error", "done_error">> ELSE fs)
  /\ done' = [done EXCEPT ![t] = @ \/ over]
  /\ source' = [source EXCEPT ![t] = next]
  /\ task' = [task EXCEPT ![t] = "running"]
  /\ UNCHANGED <<registry, owner, cancel, lost, expired, stopper>>

\* The loop of _run, over the frames its source yields without suspending.  The frame
\* that passes the safety valve ends the turn, and the source is left where it is.
Publish(t, fs, next) ==
  LET room == MaxBuffer - Len(frames[t]) IN
  \/ /\ Len(fs) > room
     /\ Finish(t, SubSeq(fs, 1, room + 1) \o <<"error", "done_error">>, "abandoned")
  \/ /\ Len(fs) <= room
     /\ AppendFrames(t, fs)
     /\ source' = [source EXCEPT ![t] = next]
     /\ task' = [task EXCEPT ![t] = "running"]
     /\ UNCHANGED <<registry, owner, cancel, lost, done, expired, stopper>>

Active(t, at) == task[t] = "running" /\ source[t] \in at

RunBegins(t) ==
  /\ task[t] = "created"
  /\ ~cancel[t]
  /\ Publish(t, <<"start">>, "open")

\* A task cancelled before its first step never enters the body of _run: none of the
\* handlers of _run, and not its finally block, gets to run.
CancelledBeforeStart(t) ==
  /\ task[t] = "created"
  /\ cancel[t]
  /\ task' = [task EXCEPT ![t] = "over"]
  /\ cancel' = [cancel EXCEPT ![t] = FALSE]
  /\ UNCHANGED <<registry, owner, lost, source, frames, done, expired, reader, stopper>>

\* A frame, the last one, or a typed failure: an error frame and a done frame.
SourceYields(t) == Active(t, {"open"}) /\ ~cancel[t] /\ Publish(t, <<"delta">>, "open")
SourceEnds(t)   == Active(t, {"open"}) /\ ~cancel[t] /\ Publish(t, <<"done_ok">>, "closing")
SourceFails(t)  ==
  Active(t, {"open"}) /\ ~cancel[t] /\ Publish(t, <<"error", "done_error">>, "closing")

SourceMoves(t, next) ==
  /\ source' = [source EXCEPT ![t] = next]
  /\ cancel' = [cancel EXCEPT ![t] = FALSE]
  /\ UNCHANGED <<registry, owner, task, lost, frames, done, expired, reader, stopper>>

\* An unexpected exception, or a cancellation, leaves the body for the final block.
SourceRaises(t)  == Active(t, {"open"}) /\ ~cancel[t] /\ SourceMoves(t, "raising")
SourceUnwinds(t) == Active(t, {"open"}) /\ cancel[t] /\ SourceMoves(t, "unwinding")

\* A cancellation that comes while the body closes an MCP client, which awaits its reader and
\* suppresses CancelledError (mcp/sse.py), is taken for the reader's: the body goes on.
SourceLosesStop(t) ==
  /\ Active(t, {"open"}) /\ cancel[t]
  /\ cancel' = [cancel EXCEPT ![t] = FALSE]
  /\ lost' = [lost EXCEPT ![t] = TRUE]
  /\ UNCHANGED <<registry, owner, task, source, frames, done, expired, reader, stopper>>

\* Mutant: a stopped turn gets no done frame.
RunCancelled_Silent(t) == Active(t, {"unwinding"}) /\ Finish(t, << >>, "closed")

\* The final block is over: the finalizer ended, or a cancellation cut the wait short
\* and was suppressed.
RunEnds(t)      == Active(t, {"closing"}) /\ Finish(t, << >>, "closed")
RunCancelled(t) == Active(t, {"unwinding"}) /\ Finish(t, <<"done_stopped">>, "closed")
\* The exception of the body, or the finalizer's own.
RunRaises(t) ==
  /\ Active(t, Finalizing)
  /\ cancel[t] => source[t] = "raising"
  /\ Finish(t, <<"error", "done_error">>, "closed")

RetentionPasses(t) ==
  /\ done[t]
  /\ ~expired[t]
  /\ expired' = [expired EXCEPT ![t] = TRUE]
  /\ UNCHANGED <<registry, turnVars, reader, stopper>>

-----------------------------------------------------------------------------
(* A reader, between two awaits of its response.                           *)

CaughtUp(r) == reader[r].index >= Len(frames[reader[r].turn])

ReaderMoves(r, rec) ==
  /\ reader' = [reader EXCEPT ![r] = rec]
  /\ UNCHANGED <<registry, turnVars, expired, stopper>>

Sent(rd, f) ==
  [state |-> rd.state, turn |-> rd.turn, start |-> rd.start,
   index |-> rd.index + 1, got |-> Append(rd.got, f)]

SendFrame(r) ==
  /\ reader[r].state = "following"
  /\ ~CaughtUp(r)
  /\ ReaderMoves(r, Sent(reader[r], frames[reader[r].turn][reader[r].index + 1]))

\* The event is cleared and waited on in one step, so no append falls between.
Park(r) ==
  /\ reader[r].state = "following"
  /\ CaughtUp(r)
  /\ ~done[reader[r].turn]
  /\ ReaderMoves(r, [reader[r] EXCEPT !.state = "waiting"])

Heartbeat(r) ==
  /\ reader[r].state = "waiting"
  /\ ReaderMoves(r, [reader[r] EXCEPT !.state = "following"])

EndOfTurn(r) ==
  /\ reader[r].state = "following"
  /\ CaughtUp(r)
  /\ done[reader[r].turn]
  /\ ReaderMoves(r, [reader[r] EXCEPT !.state = "ended"])

\* The connection closes: another chat opened, the page reloaded.
Leave(r) ==
  /\ reader[r].state \in {"following", "waiting"}
  /\ ReaderMoves(r, Nobody)

-----------------------------------------------------------------------------
RunStep(t) ==
  \/ RunBegins(t) \/ CancelledBeforeStart(t)
  \/ SourceYields(t) \/ SourceEnds(t) \/ SourceFails(t)
  \/ SourceRaises(t) \/ SourceUnwinds(t) \/ SourceLosesStop(t)
  \/ RunEnds(t) \/ RunCancelled(t) \/ RunRaises(t)

\* What an awake reader comes to: its connection takes the next frame, or breaks.
Served(r) ==
  SendFrame(r) \/ EndOfTurn(r) \/ (reader[r].state = "following" /\ Leave(r))

ReaderStep(r) ==
  SendFrame(r) \/ Park(r) \/ Heartbeat(r) \/ EndOfTurn(r) \/ Leave(r)

RequestStep ==
  \/ \E c \in Chats, t \in Turns, r \in Readers : StartTurn(c, t, r)
  \/ \E c \in Chats : LookupOnly(c)
  \/ \E r \in Readers, c \in Chats, i \in Positions : Attach(r, c, i)
  \/ \E s \in Stoppers, c \in Chats : Stop(s, c)
  \/ \E s \in Stoppers : StopReturns(s)

Next ==
  \/ RequestStep
  \/ \E t \in Turns : RunStep(t) \/ RetentionPasses(t)
  \/ \E r \in Readers : ReaderStep(r)

Spec == Init /\ [][Next]_vars

(***************************************************************************)
(* The event loop runs every ready task and the database answers, so what  *)
(* the process does by itself is fair; a connection either drains what is  *)
(* written to it or breaks.  What a backend produces (yielding, ending,    *)
(* failing) and what people do (starting, stopping) is not fair: a model   *)
(* may never say another word.  A cancellation reaches the body of its     *)
(* turn; whether the body lets it through is not promised.                 *)
(***************************************************************************)
Fairness ==
  /\ \A t \in Turns :
       /\ WF_vars(RunBegins(t) \/ CancelledBeforeStart(t))
       /\ WF_vars(SourceUnwinds(t) \/ SourceLosesStop(t))
       /\ WF_vars(RunEnds(t) \/ RunCancelled(t) \/ RunRaises(t))
  /\ \A r \in Readers : WF_vars(Served(r))
  /\ \A s \in Stoppers : WF_vars(StopReturns(s))

FairSpec == Spec /\ Fairness

-----------------------------------------------------------------------------
(* What must hold. *)

Started(t) == task[t] # "unused"

\* A turn that was started and has not ended is the one the registry holds for its
\* conversation: no eviction, no later turn and no failed lookup can put it where
\* neither a reader nor a stop would find it.  So a conversation never has two.
RunningIsReachable ==
  \A t \in Turns : Started(t) /\ ~done[t] => registry[owner[t]] = t

\* A reader asleep on the turn's event has nothing left to send and the turn has not
\* ended: clearing the event, shared by every reader, never swallows another's news.
NoMissedWakeup ==
  \A r \in Readers :
    reader[r].state = "waiting" => CaughtUp(r) /\ ~done[reader[r].turn]

\* What a reader sent is frame by frame what the turn buffered from the index it asked
\* for, whenever it arrived and however often it slept; when its response ends, the
\* turn has ended and nothing is left out.
ReadersReplayTheTurn ==
  \A r \in Readers : reader[r].turn # None =>
    LET rd == reader[r] IN
    /\ \A j \in 1..Len(rd.got) : rd.got[j] = frames[rd.turn][rd.start + j]
    /\ rd.index = rd.start + Len(rd.got)
    /\ rd.state = "ended" => done[rd.turn] /\ CaughtUp(r)

\* What a reader may count on (turns.py: read): types, and both of the above.
ReadersInv == TypeOK /\ NoMissedWakeup /\ ReadersReplayTheTurn

\* A turn readers consider over opened with its start frame and closed with a done
\* frame, on every way out of _run: end, failure, stop, exception and overflow.
FinishedTurnsAreFramed ==
  \A t \in Turns : done[t] =>
    /\ frames[t] # << >>
    /\ frames[t][1] = "start"
    /\ frames[t][Len(frames[t])] \in Ends

\* Nothing is added to a turn once it has ended, and it does not come back: a reader
\* that stopped reading missed nothing, and retention starts from the real end.
EndedTurnsAreFrozen ==
  [][\A t \in Turns : done[t] => UNCHANGED <<frames[t], done[t], owner[t]>>]_vars

\* An answered stop means the turn's end is in the buffer, as cancel() says of itself:
\* "this only waits for it to unwind so `done` is in the buffer before we answer".
StopAnsweredMeansDone ==
  \A s \in Stoppers : stopper[s].state = "answered" => done[stopper[s].turn]

\* What does hold of an answered stop: the turn has ended unless it never published a
\* frame, whatever was suspended where when the cancellation came.
StopEndsWhatBegan ==
  \A s \in Stoppers : stopper[s].state = "answered" =>
    done[stopper[s].turn] \/ frames[stopper[s].turn] = << >>

\* What a conversation may count on (turns.py: start, _run, cancel): a running turn is found, an
\* ended one is framed, and an answered stop found its turn over, or never published.
TurnsInv == RunningIsReachable /\ FinishedTurnsAreFramed /\ StopEndsWhatBegan

\* Every stop is answered, except one the turn's body swallowed while it closed an MCP client:
\* none is lost to a source that has already left its body, to a second stop, to a turn that
\* has not begun, or to an end that came first.
StopsAreAnswered ==
  \A s \in Stoppers :
    stopper[s].state = "waiting" ~>
      stopper[s].state = "answered" \/ \E t \in Turns : t = stopper[s].turn /\ lost[t]

\* "this only waits for it to unwind" (turns.py:154): a stop is answered without the model
\* having to say another word.
EveryStopIsAnswered ==
  \A s \in Stoppers : stopper[s].state = "waiting" ~> stopper[s].state = "answered"

\* Once a turn has ended, every response reading it comes to its end or its connection
\* is gone; none sleeps on.
ReadersFinish ==
  \A r \in Readers, t \in Turns :
    (reader[r].turn = t /\ done[t]) ~> (reader[r].turn # t \/ Free(r))

-----------------------------------------------------------------------------
(* The turns implement append-only logs with subscribers. *)

Standing(r) ==
  CASE reader[r].state = "idle"  -> "gone"
    [] reader[r].state = "ended" -> "complete"
    [] OTHER -> "reading"

Shown == [r \in Readers |-> [turn  |-> reader[r].turn, start |-> reader[r].start,
                             got   |-> reader[r].got,  state |-> Standing(r)]]

Log == INSTANCE TurnLog WITH
  Positions <- 0..(MaxBuffer + 4),
  place     <- owner,
  log       <- frames,
  closed    <- done,
  view      <- Shown

\* The broker, its readers and its stops implement the append-only log of TurnLog:
\* what a detached turn promises whoever reads it (turns.py, ADR-0024).
ImplementsLog == Log!Spec
=============================================================================
