--------------------------- MODULE TurnBroker_proofs ---------------------------
(***************************************************************************)
(* The invariants of TurnBroker hold, and it implements TurnLog, for every *)
(* number of conversations, turns, readers and stops, and every MaxBuffer. *)
(***************************************************************************)
EXTENDS TurnBroker, SequenceTheorems, TLAPS

-----------------------------------------------------------------------------
(* The inductive invariant. *)

\* Where a turn stands and what its buffer then holds.
Framed(s) == s # << >> /\ s[1] = "start" /\ s[Len(s)] \in Ends

TaskOK(t) ==
  /\ task[t] = "unused" <=> owner[t] = None
  /\ task[t] \in {"unused", "created"} => frames[t] = << >> /\ ~done[t]
  /\ task[t] = "running" =>
       /\ ~done[t]
       /\ source[t] \in {"open"} \cup Finalizing
       /\ Len(frames[t]) \in 1..MaxBuffer
       /\ frames[t][1] = "start"
       /\ source[t] = "closing" => frames[t][Len(frames[t])] \in Ends
  /\ task[t] = "over" => done[t] \/ frames[t] = << >>
  /\ done[t] => task[t] = "over" /\ Framed(frames[t])
  /\ expired[t] => done[t]

TaskInv == \A t \in Turns : TaskOK(t)

\* The registry names turns of the right conversation, and every running one.
RegistryInv ==
  /\ \A c \in Chats : registry[c] # None => owner[registry[c]] = c
  /\ RunningIsReachable

\* What a reader got, relative to the turn it reads.
ReaderOK(r) ==
  LET rd == reader[r] IN
  /\ rd.state = "idle" => rd = Nobody
  /\ rd.state # "idle" =>
       /\ rd.turn \in Turns
       /\ task[rd.turn] # "unused"
       /\ rd.index = rd.start + Len(rd.got)
       /\ rd.got # << >> => rd.index <= Len(frames[rd.turn])
       /\ \A j \in 1..Len(rd.got) : rd.got[j] = frames[rd.turn][rd.start + j]
  /\ rd.state = "waiting" => CaughtUp(r) /\ ~done[rd.turn]
  /\ rd.state = "ended" => CaughtUp(r) /\ done[rd.turn]

ReaderInv == \A r \in Readers : ReaderOK(r)

StopperInv ==
  \A s \in Stoppers :
    /\ stopper[s].state # "idle" => stopper[s].turn \in Turns
    /\ stopper[s].state = "answered" => task[stopper[s].turn] = "over"

IInv == TypeOK /\ TaskInv /\ RegistryInv /\ ReaderInv /\ StopperInv

-----------------------------------------------------------------------------
(* What one step of a task does to its turn. *)

\* Turn t grows by g, and whoever waits on it wakes.
Grown(t, g) ==
  /\ g \in Seq(Frame)
  /\ frames' = [frames EXCEPT ![t] = @ \o g]
  /\ reader' = Woken(t)

\* Extending a buffer keeps what it held and ends it with the last frame added.
LEMMA GrownFacts ==
  ASSUME TypeOK, NEW t \in Turns, NEW g \in Seq(Frame), Grown(t, g)
  PROVE  /\ frames' \in [Turns -> Seq(Frame)]
         /\ \A u \in Turns \ {t} : frames'[u] = frames[u]
         /\ frames'[t] = frames[t] \o g
         /\ Len(frames'[t]) = Len(frames[t]) + Len(g)
         /\ \A i \in 1..Len(frames[t]) : frames'[t][i] = frames[t][i]
         /\ \A i \in 1..Len(g) : frames'[t][Len(frames[t]) + i] = g[i]
         /\ g = << >> => frames'[t] = frames[t]
<1>1. frames'[t] = frames[t] \o g /\ \A u \in Turns \ {t} : frames'[u] = frames[u]
  BY DEF Grown, TypeOK
<1>2. frames[t] \in Seq(Frame)
  BY DEF TypeOK
<1>3. /\ frames[t] \o g \in Seq(Frame)
      /\ Len(frames[t] \o g) = Len(frames[t]) + Len(g)
      /\ \A i \in 1..(Len(frames[t]) + Len(g)) :
           (frames[t] \o g)[i] = IF i <= Len(frames[t]) THEN frames[t][i]
                                 ELSE g[i - Len(frames[t])]
  BY <1>2, ConcatProperties
<1>4. frames' \in [Turns -> Seq(Frame)]
  BY <1>1, <1>3 DEF Grown, TypeOK
<1>5. Len(frames[t]) \in Nat /\ Len(g) \in Nat
  BY <1>2, LenProperties
<1>6. g = << >> => frames'[t] = frames[t]
  BY <1>1, <1>2, ConcatEmptySeq
<1> QED
  BY <1>1, <1>3, <1>4, <1>5, <1>6

\* Frames the loop may publish at once; the last one says where its source is then.
Published(fs, next) ==
  \/ fs = <<"start">> /\ next = "open"
  \/ fs = <<"delta">> /\ next = "open"
  \/ fs = <<"done_ok">> /\ next = "closing"
  \/ fs = <<"error", "done_error">> /\ next = "closing"

\* Every way a task may end its turn leaves the end frame last.
Ended(t, g) ==
  /\ Grown(t, g)
  /\ done' = [done EXCEPT ![t] = TRUE]
  /\ task' = [task EXCEPT ![t] = "over"]
  /\ cancel' = [cancel EXCEPT ![t] = FALSE]
  /\ lost' = [lost EXCEPT ![t] = FALSE]
  /\ source'[t] \in SourceState
  /\ source' = [source EXCEPT ![t] = source'[t]]
  /\ UNCHANGED <<registry, owner, expired, stopper>>

Continued(t, g) ==
  /\ Grown(t, g)
  /\ task' = [task EXCEPT ![t] = "running"]
  /\ source'[t] \in {"open", "closing"}
  /\ source' = [source EXCEPT ![t] = source'[t]]
  /\ UNCHANGED <<registry, owner, cancel, lost, done, expired, stopper>>

\* The safety valve cuts off at the frame that passed it; below it, all are buffered.
LEMMA PublishFacts ==
  ASSUME TypeOK, BrokerAssumption, NEW t \in Turns, NEW fs, NEW next,
         Published(fs, next), Publish(t, fs, next), Len(frames[t]) <= MaxBuffer
  PROVE  \/ \E g \in Seq(Frame) :
              /\ Ended(t, g)
              /\ Len(g) > 0
              /\ g[1] = fs[1]
              /\ g[Len(g)] \in Ends
         \/ /\ Continued(t, fs)
            /\ source'[t] = next
            /\ Len(frames[t]) + Len(fs) <= MaxBuffer
<1> DEFINE room == MaxBuffer - Len(frames[t])
           cut  == SubSeq(fs, 1, room + 1)
           tail == <<"error", "done_error">>
<1>1. frames[t] \in Seq(Frame) /\ Len(frames[t]) \in Nat
  BY LenProperties DEF TypeOK
<1>2. fs \in Seq(Frame) /\ tail \in Seq(Frame) /\ Len(fs) \in 1..2
  <2>1. "start" \in Frame /\ "delta" \in Frame /\ "error" \in Frame
        /\ "done_ok" \in Frame /\ "done_error" \in Frame
    BY DEF Frame, Ends
  <2>2. tail \in Seq(Frame)
    BY <2>1
  <2>3. CASE fs = <<"start">>
    BY <2>1, <2>2, <2>3
  <2>4. CASE fs = <<"delta">>
    BY <2>1, <2>2, <2>4
  <2>5. CASE fs = <<"done_ok">>
    BY <2>1, <2>2, <2>5
  <2>6. CASE fs = tail
    BY <2>1, <2>2, <2>6
  <2> QED
    BY <2>3, <2>4, <2>5, <2>6 DEF Published
<1>3. room \in Nat
  BY <1>1 DEF BrokerAssumption
<1>4. CASE Len(fs) > room
  <2>1. Finish(t, cut \o tail, "abandoned")
    <3>1. ~(Len(fs) <= room)
      BY <1>4, <1>3, <1>2
    <3> QED
      BY <3>1, Zenon DEF Publish
  <2>2. /\ cut \in Seq(Frame)
        /\ Len(cut) = room + 1
        /\ \A i \in 1..(room + 1) : cut[i] = fs[i]
    <3>1. \A i \in 1..(room + 1) : fs[i] \in Frame
      BY <1>2, <1>3, <1>4, ElementOfSeq
    <3>2. room + 1 \in Int /\ 1 <= room + 1
      BY <1>3
    <3> HIDE DEF room
    <3> QED
      BY <3>1, <3>2, SubSeqProperties
  <2>3. /\ cut \o tail \in Seq(Frame)
        /\ Len(cut \o tail) = room + 3
        /\ (cut \o tail)[1] = fs[1]
        /\ (cut \o tail)[room + 3] = "done_error"
    <3>1. /\ cut \o tail \in Seq(Frame)
          /\ Len(cut \o tail) = Len(cut) + Len(tail)
          /\ \A i \in 1..(Len(cut) + Len(tail)) :
               (cut \o tail)[i] = IF i <= Len(cut) THEN cut[i] ELSE tail[i - Len(cut)]
      BY <2>2, <1>2, ConcatProperties, ZenonT(60)
    <3>2. Len(tail) = 2 /\ tail[2] = "done_error"
      OBVIOUS
    <3> HIDE DEF cut, tail, room
    <3> QED
      BY <3>1, <3>2, <2>2, <1>3
  <2>4. Ended(t, cut \o tail)
    BY <2>1, <2>3 DEF Finish, AppendFrames, Ended, Grown, SourceState, TypeOK
  <2> QED
    <3> DEFINE g == cut \o tail
    <3>1. /\ g \in Seq(Frame)
          /\ Len(g) = room + 3
          /\ g[1] = fs[1]
          /\ g[room + 3] = "done_error"
          /\ Ended(t, g)
      BY <2>3, <2>4
    <3> HIDE DEF g, room
    <3> QED
      BY <3>1, <1>3 DEF Ends
<1>5. CASE Len(fs) <= room
  <2>1. Continued(t, fs) /\ source'[t] = next
    BY <1>5, <1>2, <1>3 DEF Publish, AppendFrames, Continued, Grown, Published, TypeOK
  <2> QED
    BY <2>1, <1>5, <1>1, <1>2 DEF BrokerAssumption
<1> QED
  BY <1>2, <1>3, <1>4, <1>5

\* A step of a task ends the turn with a framed buffer, lengthens it, or moves without
\* publishing anything.
Ending(t) == \E g \in Seq(Frame) : Ended(t, g) /\ Framed(frames'[t])

Lengthening(t) ==
  \E g \in Seq(Frame) :
    /\ Continued(t, g)
    /\ Len(frames'[t]) \in 1..MaxBuffer
    /\ frames'[t][1] = "start"
    /\ source'[t] = "closing" => frames'[t][Len(frames'[t])] \in Ends

Silent(t) ==
  /\ UNCHANGED <<registry, owner, frames, done, expired, reader, stopper>>
  /\ cancel' = [cancel EXCEPT ![t] = FALSE]
  /\ lost' = [lost EXCEPT ![t] = lost'[t]] /\ lost'[t] \in BOOLEAN
  /\ \/ /\ task[t] = "created"
        /\ task' = [task EXCEPT ![t] = "over"]
        /\ UNCHANGED source
     \/ /\ task[t] = "running"
        /\ UNCHANGED task
        /\ source' = [source EXCEPT ![t] = source'[t]]
        /\ source'[t] \in {"open", "raising", "unwinding"}

LEMMA RunStepShape ==
  ASSUME TypeOK, TaskInv, BrokerAssumption, NEW t \in Turns, RunStep(t)
  PROVE  /\ task[t] \in {"created", "running"}
         /\ ~done[t]
         /\ Ending(t) \/ Lengthening(t) \/ Silent(t)
<1>1. task[t] \in {"created", "running"} /\ ~done[t]
  BY DEF RunStep, RunBegins, CancelledBeforeStart, SourceYields, SourceEnds, SourceFails,
         SourceRaises, SourceUnwinds, SourceLosesStop, RunEnds, RunCancelled, RunRaises, Active, TaskInv, TaskOK
<1> SUFFICES Ending(t) \/ Lengthening(t) \/ Silent(t)
  BY <1>1
<1>2. frames[t] \in Seq(Frame) /\ Len(frames[t]) \in Nat /\ Len(frames[t]) <= MaxBuffer
  <2>1. frames[t] \in Seq(Frame)
    BY DEF TypeOK
  <2>2. Len(frames[t]) \in Nat
    BY <2>1, LenProperties
  <2>3. CASE task[t] = "created"
    BY <2>1, <2>3 DEF TaskInv, TaskOK, BrokerAssumption
  <2>4. CASE task[t] = "running"
    BY <2>1, <2>2, <2>4 DEF TaskInv, TaskOK, BrokerAssumption
  <2> QED
    BY <1>1, <2>1, <2>2, <2>3, <2>4
\* The steps that go through the loop of _run.
<1>3. ASSUME NEW fs, NEW next, Published(fs, next), Publish(t, fs, next),
             \/ task[t] = "created" /\ fs[1] = "start"
             \/ task[t] = "running"
      PROVE  Ending(t) \/ Lengthening(t)
  <2>1. fs \in Seq(Frame) /\ Len(fs) \in 1..2
        /\ (next = "closing" => fs[Len(fs)] \in Ends)
    <3>1. "start" \in Frame /\ "delta" \in Frame /\ "error" \in Frame
          /\ "done_ok" \in Frame /\ "done_error" \in Frame
      BY DEF Frame, Ends
    <3>2. CASE fs = <<"start">> /\ next = "open"
      BY <3>1, <3>2
    <3>3. CASE fs = <<"delta">> /\ next = "open"
      BY <3>1, <3>3
    <3>4. CASE fs = <<"done_ok">> /\ next = "closing"
      BY <3>1, <3>4 DEF Ends
    <3>5. CASE fs = <<"error", "done_error">> /\ next = "closing"
      BY <3>1, <3>5 DEF Ends
    <3> QED
      BY <1>3, <3>2, <3>3, <3>4, <3>5 DEF Published
  <2>2. ASSUME NEW g \in Seq(Frame), Grown(t, g), Len(g) > 0, g[1] = fs[1]
        PROVE  /\ frames'[t][1] = "start"
               /\ Len(frames'[t]) = Len(frames[t]) + Len(g)
               /\ Len(frames'[t]) > 0
               /\ frames'[t] # << >>
               /\ frames'[t][Len(frames'[t])] = g[Len(g)]
    <3>1. Len(g) \in Nat
      BY LenProperties
    <3>2. /\ Len(frames'[t]) = Len(frames[t]) + Len(g)
          /\ \A i \in 1..Len(frames[t]) : frames'[t][i] = frames[t][i]
          /\ \A i \in 1..Len(g) : frames'[t][Len(frames[t]) + i] = g[i]
      BY <2>2, GrownFacts
    <3>3. frames'[t][1] = "start"
      <4>1. CASE task[t] = "created"
        <5>1. Len(frames[t]) = 0
          BY <4>1 DEF TaskInv, TaskOK
        <5> QED
          BY <1>3, <2>2, <3>1, <3>2, <4>1, <5>1
      <4>2. CASE task[t] = "running"
        BY <3>2, <4>2 DEF TaskInv, TaskOK
      <4> QED
        BY <1>1, <4>1, <4>2
    <3> QED
      BY <1>2, <2>2, <3>1, <3>2, <3>3
  <2>3. CASE \E g \in Seq(Frame) :
               Ended(t, g) /\ Len(g) > 0 /\ g[1] = fs[1] /\ g[Len(g)] \in Ends
    BY <2>2, <2>3 DEF Ending, Ended, Framed
  <2>4. CASE Continued(t, fs) /\ source'[t] = next /\ Len(frames[t]) + Len(fs) <= MaxBuffer
    <3>1. Grown(t, fs)
      BY <2>4 DEF Continued
    <3>2. /\ frames'[t][1] = "start"
          /\ Len(frames'[t]) = Len(frames[t]) + Len(fs)
          /\ Len(frames'[t]) > 0
          /\ frames'[t][Len(frames'[t])] = fs[Len(fs)]
      BY <2>1, <2>2, <3>1
    <3> QED
      BY <1>2, <2>1, <2>4, <3>2 DEF Lengthening, BrokerAssumption
  <2> QED
    BY <1>2, <1>3, <2>3, <2>4, PublishFacts
<1>4. CASE RunBegins(t)
  <2>1. Published(<<"start">>, "open") /\ <<"start">>[1] = "start"
    BY DEF Published
  <2>2. task[t] = "created" /\ Publish(t, <<"start">>, "open")
    BY <1>4 DEF RunBegins
  <2> QED
    BY <1>3, <2>1, <2>2, Zenon
<1>5. CASE SourceYields(t) \/ SourceEnds(t) \/ SourceFails(t)
  <2>1. /\ Published(<<"delta">>, "open")
        /\ Published(<<"done_ok">>, "closing")
        /\ Published(<<"error", "done_error">>, "closing")
    BY DEF Published
  <2>2. /\ task[t] = "running"
        /\ \/ Publish(t, <<"delta">>, "open")
           \/ Publish(t, <<"done_ok">>, "closing")
           \/ Publish(t, <<"error", "done_error">>, "closing")
    BY <1>5 DEF SourceYields, SourceEnds, SourceFails, Active
  <2> QED
    BY <1>3, <2>1, <2>2, Zenon
<1>6. CASE CancelledBeforeStart(t) \/ SourceRaises(t) \/ SourceUnwinds(t) \/ SourceLosesStop(t)
  <2>1. CASE CancelledBeforeStart(t)
    BY <2>1 DEF CancelledBeforeStart, Silent, TypeOK
  <2>2. CASE SourceRaises(t) \/ SourceUnwinds(t)
    BY <2>2 DEF SourceRaises, SourceUnwinds, SourceMoves, Active, Silent, TypeOK
  <2>3. CASE SourceLosesStop(t)
    BY <2>3 DEF SourceLosesStop, Active, Silent, TypeOK
  <2> QED
    BY <1>6, <2>1, <2>2, <2>3
\* The steps that leave _run.
<1>7. ASSUME NEW g \in Seq(Frame), Finish(t, g, "closed"), task[t] = "running",
             \/ g = << >> /\ source[t] = "closing"
             \/ Len(g) > 0 /\ g[Len(g)] \in Ends
      PROVE  Ending(t)
  <2>1. Ended(t, g)
    BY <1>7 DEF Finish, AppendFrames, Ended, Grown, SourceState, TypeOK
  <2>2. /\ Len(frames'[t]) = Len(frames[t]) + Len(g)
        /\ \A i \in 1..Len(frames[t]) : frames'[t][i] = frames[t][i]
        /\ \A i \in 1..Len(g) : frames'[t][Len(frames[t]) + i] = g[i]
        /\ g = << >> => frames'[t] = frames[t]
        /\ Len(g) \in Nat
    BY <2>1, GrownFacts, LenProperties DEF Ended
  <2>3. Len(frames[t]) >= 1 /\ frames[t][1] = "start"
        /\ (source[t] = "closing" => frames[t][Len(frames[t])] \in Ends)
    BY <1>7 DEF TaskInv, TaskOK
  <2>4. Framed(frames'[t])
    <3>1. Len(frames[t]) \in Nat /\ Len(frames[t]) \in 1..Len(frames[t])
      BY <1>2, <2>3
    <3>2. frames'[t] # << >> /\ frames'[t][1] = "start"
      BY <1>2, <2>2, <2>3, <3>1
    <3>3. CASE g = << >>
      BY <1>7, <2>2, <2>3, <3>2, <3>3 DEF Framed
    <3>4. CASE g # << >>
      <4>1. Len(g) > 0 /\ g[Len(g)] \in Ends
        BY <1>7, <3>4
      <4>2. Len(g) \in 1..Len(g) /\ frames'[t][Len(frames'[t])] = g[Len(g)]
        BY <2>2, <4>1
      <4> QED
        BY <3>2, <4>1, <4>2 DEF Framed
    <3> QED
      BY <3>3, <3>4
  <2> QED
    BY <2>1, <2>4 DEF Ending
<1>8. CASE RunEnds(t)
  <2>1. << >> \in Seq(Frame)
    OBVIOUS
  <2>2. Finish(t, << >>, "closed") /\ task[t] = "running" /\ source[t] = "closing"
    BY <1>8 DEF RunEnds, Active
  <2> QED
    BY <1>7, <2>1, <2>2, Zenon
<1>9. CASE RunCancelled(t)
  <2>1. <<"done_stopped">> \in Seq(Frame)
    BY DEF Frame, Ends
  <2>2. LET g == <<"done_stopped">> IN Len(g) > 0 /\ g[Len(g)] \in Ends
    BY DEF Ends
  <2>3. Finish(t, <<"done_stopped">>, "closed") /\ task[t] = "running"
    BY <1>9 DEF RunCancelled, Active
  <2> QED
    BY <1>7, <2>1, <2>2, <2>3, Zenon
<1>10. CASE RunRaises(t)
  <2>1. <<"error", "done_error">> \in Seq(Frame)
    <3>1. "error" \in Frame /\ "done_error" \in Frame
      BY DEF Frame, Ends
    <3> QED
      BY <3>1
  <2>2. LET g == <<"error", "done_error">> IN Len(g) > 0 /\ g[Len(g)] \in Ends
    BY DEF Ends
  <2>3. Finish(t, <<"error", "done_error">>, "closed") /\ task[t] = "running"
    BY <1>10 DEF RunRaises, Active
  <2> QED
    BY <1>7, <2>1, <2>2, <2>3, Zenon
<1> QED
  BY <1>1, <1>4, <1>5, <1>6, <1>8, <1>9, <1>10 DEF RunStep

-----------------------------------------------------------------------------
(* Lookups. *)

LEMMA EvictFacts ==
  ASSUME TypeOK
  PROVE  /\ Evict(registry) \in [Chats -> Turns \cup {None}]
         /\ \A c \in Chats : Evict(registry)[c] # None =>
              Evict(registry)[c] = registry[c] /\ ~expired[registry[c]]
         /\ \A c \in Chats : registry[c] # None /\ ~expired[registry[c]] =>
              Evict(registry)[c] = registry[c]
BY DEF Evict, TypeOK

LEMMA WokenFacts ==
  ASSUME TypeOK, NEW t \in Turns
  PROVE  /\ Woken(t) \in [Readers -> ReaderState]
         /\ \A r \in Readers :
              /\ Woken(t)[r].turn = reader[r].turn
              /\ Woken(t)[r].start = reader[r].start
              /\ Woken(t)[r].index = reader[r].index
              /\ Woken(t)[r].got = reader[r].got
              /\ Woken(t)[r].state \in {reader[r].state, "following"}
              /\ Woken(t)[r].state # reader[r].state => reader[r].state = "waiting"
              /\ reader[r].turn # t => Woken(t)[r] = reader[r]
              /\ reader[r].turn = t => Woken(t)[r].state # "waiting"
<1> SUFFICES ASSUME NEW r \in Readers
             PROVE  /\ Woken(t)[r] \in ReaderState
                    /\ Woken(t)[r].turn = reader[r].turn
                    /\ Woken(t)[r].start = reader[r].start
                    /\ Woken(t)[r].index = reader[r].index
                    /\ Woken(t)[r].got = reader[r].got
                    /\ Woken(t)[r].state \in {reader[r].state, "following"}
                    /\ Woken(t)[r].state # reader[r].state => reader[r].state = "waiting"
                    /\ reader[r].turn # t => Woken(t)[r] = reader[r]
                    /\ reader[r].turn = t => Woken(t)[r].state # "waiting"
  BY DEF Woken
<1>1. reader[r] \in ReaderState
  BY DEF TypeOK
<1> QED
  BY <1>1 DEF Woken, ReaderState

-----------------------------------------------------------------------------
(* The invariant is inductive, conjunct by conjunct. *)

LEMMA TypeStep ==
  ASSUME TypeOK, TaskInv, ReaderInv, BrokerAssumption, [Next]_vars
  PROVE  TypeOK'
<1>1. CASE UNCHANGED vars
  BY <1>1 DEF vars, turnVars, TypeOK
<1>2. ASSUME NEW c \in Chats, NEW t \in Turns, NEW r \in Readers, StartTurn(c, t, r)
      PROVE  TypeOK'
  <2>1. << >> \in Seq(Frame)
    OBVIOUS
  <2> QED
    BY <1>2, <2>1, EvictFacts DEF StartTurn, Follow, From, TypeOK, ReaderState
<1>3. ASSUME NEW c \in Chats, LookupOnly(c)
      PROVE  TypeOK'
  BY <1>3, EvictFacts DEF LookupOnly, turnVars, TypeOK
<1>4. ASSUME NEW r \in Readers, NEW c \in Chats, NEW i \in Positions, Attach(r, c, i)
      PROVE  TypeOK'
  <2>1. << >> \in Seq(Frame) /\ From(i) \in Nat
    BY DEF From, Positions, BrokerAssumption
  <2>2. Evict(registry)[c] \in Turns
    BY <1>4, EvictFacts DEF Attach
  <2> QED
    BY <1>4, <2>1, <2>2, EvictFacts DEF Attach, Follow, turnVars, TypeOK, ReaderState
<1>5. ASSUME NEW s \in Stoppers, NEW c \in Chats, Stop(s, c)
      PROVE  TypeOK'
  <2>1. Evict(registry)[c] \in Turns
    BY <1>5, EvictFacts DEF Stop, Running
  <2> QED
    BY <1>5, <2>1, EvictFacts DEF Stop, TypeOK
<1>6. ASSUME NEW s \in Stoppers, StopReturns(s)
      PROVE  TypeOK'
  BY <1>6 DEF StopReturns, turnVars, TypeOK
<1>7. ASSUME NEW t \in Turns, RunStep(t)
      PROVE  TypeOK'
  <2>1. CASE Ending(t)
    <3>1. PICK g \in Seq(Frame) : Ended(t, g)
      BY <2>1 DEF Ending
    <3>2. Grown(t, g)
      BY <3>1 DEF Ended
    <3>3. frames' \in [Turns -> Seq(Frame)]
      BY <3>2, GrownFacts
    <3>4. reader' \in [Readers -> ReaderState]
      BY <3>2, WokenFacts DEF Grown
    <3> QED
      BY <3>1, <3>3, <3>4 DEF Ended, TypeOK
  <2>2. CASE Lengthening(t)
    <3>1. PICK g \in Seq(Frame) : Continued(t, g)
      BY <2>2 DEF Lengthening
    <3>2. Grown(t, g)
      BY <3>1 DEF Continued
    <3>3. frames' \in [Turns -> Seq(Frame)]
      BY <3>2, GrownFacts
    <3>4. reader' \in [Readers -> ReaderState]
      BY <3>2, WokenFacts DEF Grown
    <3>5. source' \in [Turns -> SourceState]
      BY <3>1 DEF Continued, SourceState, Finalizing, TypeOK
    <3> QED
      BY <3>1, <3>3, <3>4, <3>5 DEF Continued, TypeOK
  <2>3. CASE Silent(t)
    BY <2>3, ZenonT(60) DEF Silent, SourceState, Finalizing, TypeOK
  <2> QED
    BY <1>7, <2>1, <2>2, <2>3, RunStepShape
<1>8. ASSUME NEW t \in Turns, RetentionPasses(t)
      PROVE  TypeOK'
  BY <1>8 DEF RetentionPasses, turnVars, TypeOK
<1>9. ASSUME NEW r \in Readers, ReaderStep(r)
      PROVE  TypeOK'
  <2>1. reader[r] \in ReaderState
    BY DEF TypeOK
  <2>2. ASSUME NEW rec \in ReaderState, ReaderMoves(r, rec)
        PROVE  TypeOK'
    BY <2>2 DEF ReaderMoves, turnVars, TypeOK
  <2>3. CASE SendFrame(r)
    <3> DEFINE f == frames[reader[r].turn][reader[r].index + 1]
    <3>1. f \in Frame
      <4>1. reader[r].turn \in Turns /\ reader[r].index \in Nat
        BY <2>1, <2>3 DEF SendFrame, ReaderInv, ReaderOK, ReaderState
      <4>2. frames[reader[r].turn] \in Seq(Frame)
        BY <4>1 DEF TypeOK
      <4>3. reader[r].index + 1 \in 1..Len(frames[reader[r].turn])
        BY <2>3, <4>1, <4>2, LenProperties DEF SendFrame, CaughtUp
      <4> QED
        BY <4>2, <4>3, ElementOfSeq
    <3>2. Append(reader[r].got, f) \in Seq(Frame)
      BY <2>1, <3>1 DEF ReaderState
    <3> HIDE DEF f
    <3>3. Sent(reader[r], f) \in ReaderState
      BY <2>1, <3>2 DEF Sent, ReaderState
    <3> QED
      BY <2>2, <2>3, <3>3 DEF SendFrame, f
  <2>4. CASE Park(r) \/ Heartbeat(r) \/ EndOfTurn(r)
    BY <2>1, <2>2, <2>4 DEF Park, Heartbeat, EndOfTurn, ReaderState
  <2>5. CASE Leave(r)
    <3>1. Nobody \in ReaderState
      <4>1. << >> \in Seq(Frame)
        OBVIOUS
      <4> QED
        BY <4>1 DEF Nobody, ReaderState
    <3> QED
      BY <2>2, <2>5, <3>1 DEF Leave
  <2> QED
    BY <1>9, <2>3, <2>4, <2>5 DEF ReaderStep
<1> QED
  BY <1>1, <1>2, <1>3, <1>4, <1>5, <1>6, <1>7, <1>8, <1>9 DEF Next, RequestStep

LEMMA TaskStep ==
  ASSUME TypeOK, TaskInv, BrokerAssumption, [Next]_vars
  PROVE  TaskInv'
<1> SUFFICES ASSUME NEW u \in Turns PROVE TaskOK(u)'
  BY DEF TaskInv
<1>1. TaskOK(u)
  BY DEF TaskInv
\* A turn the step leaves alone.
<1>2. ASSUME UNCHANGED <<owner[u], task[u], frames[u], done[u], expired[u], source[u]>>
      PROVE  TaskOK(u)'
  BY <1>1, <1>2 DEF TaskOK
<1>3. CASE UNCHANGED vars
  BY <1>2, <1>3 DEF vars, turnVars
<1>4. ASSUME NEW c \in Chats, NEW t \in Turns, NEW r \in Readers, StartTurn(c, t, r)
      PROVE  TaskOK(u)'
  <2>1. CASE u = t
    BY <1>1, <1>4, <2>1 DEF StartTurn, TaskOK, TypeOK, BrokerAssumption
  <2>2. CASE u # t
    BY <1>2, <1>4, <2>2 DEF StartTurn, TypeOK
  <2> QED
    BY <2>1, <2>2
<1>5. ASSUME NEW c \in Chats, LookupOnly(c)
      PROVE  TaskOK(u)'
  BY <1>2, <1>5 DEF LookupOnly, turnVars
<1>6. ASSUME NEW r \in Readers, NEW c \in Chats, NEW i \in Positions, Attach(r, c, i)
      PROVE  TaskOK(u)'
  BY <1>2, <1>6 DEF Attach, turnVars
<1>7. ASSUME NEW s \in Stoppers, (\E c \in Chats : Stop(s, c)) \/ StopReturns(s)
      PROVE  TaskOK(u)'
  BY <1>2, <1>7 DEF Stop, StopReturns, turnVars
<1>8. ASSUME NEW t \in Turns, RunStep(t)
      PROVE  TaskOK(u)'
  <2>1. /\ task[t] \in {"created", "running"}
        /\ ~done[t]
        /\ Ending(t) \/ Lengthening(t) \/ Silent(t)
    BY <1>8, RunStepShape
  <2>2. ~expired[t] /\ owner[t] # None
    BY <2>1 DEF TaskInv, TaskOK
  <2>3. CASE Ending(t)
    <3>1. PICK g \in Seq(Frame) : Ended(t, g) /\ Framed(frames'[t])
      BY <2>3 DEF Ending
    <3>2. CASE u = t
      BY <2>2, <3>1, <3>2 DEF Ended, TaskOK, TypeOK
    <3>3. CASE u # t
      <4>1. frames'[u] = frames[u]
        BY <3>1, <3>3, GrownFacts DEF Ended
      <4> QED
        BY <1>2, <3>1, <3>3, <4>1 DEF Ended, TypeOK
    <3> QED
      BY <3>2, <3>3
  <2>4. CASE Lengthening(t)
    <3>1. PICK g \in Seq(Frame) :
            /\ Continued(t, g)
            /\ Len(frames'[t]) \in 1..MaxBuffer
            /\ frames'[t][1] = "start"
            /\ source'[t] = "closing" => frames'[t][Len(frames'[t])] \in Ends
      BY <2>4 DEF Lengthening
    <3>2. CASE u = t
      BY <2>1, <2>2, <3>1, <3>2 DEF Continued, TaskOK, TypeOK, Finalizing
    <3>3. CASE u # t
      <4>1. frames'[u] = frames[u]
        BY <3>1, <3>3, GrownFacts DEF Continued
      <4> QED
        BY <1>2, <3>1, <3>3, <4>1 DEF Continued, TypeOK
    <3> QED
      BY <3>2, <3>3
  <2>5. CASE Silent(t)
    <3>1. CASE u = t
      <4>1. UNCHANGED <<owner[u], frames[u], done[u], expired[u]>>
        BY <2>5 DEF Silent
      <4>2. \/ task[u] = "created" /\ task'[u] = "over"
            \/ /\ task[u] = "running" /\ task'[u] = "running"
               /\ source'[u] \in {"open", "raising", "unwinding"}
        BY <2>5, <3>1 DEF Silent, TypeOK
      <4> QED
        BY <1>1, <4>1, <4>2, <2>2, <3>1 DEF TaskOK, Finalizing
    <3>2. CASE u # t
      BY <1>2, <2>5, <3>2 DEF Silent, TypeOK
    <3> QED
      BY <3>1, <3>2
  <2> QED
    BY <2>1, <2>3, <2>4, <2>5
<1>9. ASSUME NEW t \in Turns, RetentionPasses(t)
      PROVE  TaskOK(u)'
  BY <1>1, <1>9 DEF RetentionPasses, turnVars, TaskOK, TypeOK
<1>10. ASSUME NEW r \in Readers, ReaderStep(r)
      PROVE  TaskOK(u)'
  BY <1>2, <1>10 DEF ReaderStep, SendFrame, Park, Heartbeat, EndOfTurn, Leave, ReaderMoves,
                     turnVars
<1> QED
  BY <1>3, <1>4, <1>5, <1>6, <1>7, <1>8, <1>9, <1>10 DEF Next, RequestStep

\* A step never un-starts a turn, and ends it for good.
LEMMA Monotone ==
  ASSUME TypeOK, TaskInv, BrokerAssumption, [Next]_vars, NEW u \in Turns
  PROVE  /\ task[u] # "unused" => task'[u] # "unused" /\ owner'[u] = owner[u]
         /\ task[u] = "over" => task'[u] = "over"
         /\ done[u] => done'[u] /\ frames'[u] = frames[u]
         /\ Len(frames'[u]) >= Len(frames[u])
         /\ \A i \in 1..Len(frames[u]) : frames'[u][i] = frames[u][i]
<1>1. Len(frames[u]) \in Nat
  BY LenProperties DEF TypeOK
<1> DEFINE Kept == UNCHANGED <<owner[u], frames[u], done[u]>> /\ task'[u] = task[u]
<1>2. ASSUME Kept
      PROVE  /\ task[u] # "unused" => task'[u] # "unused" /\ owner'[u] = owner[u]
             /\ task[u] = "over" => task'[u] = "over"
             /\ done[u] => done'[u] /\ frames'[u] = frames[u]
             /\ Len(frames'[u]) >= Len(frames[u])
             /\ \A i \in 1..Len(frames[u]) : frames'[u][i] = frames[u][i]
  BY <1>1, <1>2
<1>3. CASE UNCHANGED vars
  BY <1>2, <1>3 DEF vars, turnVars
<1>4. CASE RequestStep
  <2>1. CASE \E c \in Chats, t \in Turns, r \in Readers : StartTurn(c, t, r)
    BY <1>1, <2>1 DEF StartTurn, TaskInv, TaskOK, TypeOK
  <2>2. CASE ~(\E c \in Chats, t \in Turns, r \in Readers : StartTurn(c, t, r))
    <3>1. Kept
      BY <1>4, <2>2 DEF RequestStep, LookupOnly, Attach, Stop, StopReturns, turnVars
    <3> QED
      BY <1>2, <3>1
  <2> QED
    BY <2>1, <2>2
<1>5. ASSUME NEW t \in Turns, RunStep(t)
      PROVE  /\ task[u] # "unused" => task'[u] # "unused" /\ owner'[u] = owner[u]
             /\ task[u] = "over" => task'[u] = "over"
             /\ done[u] => done'[u] /\ frames'[u] = frames[u]
             /\ Len(frames'[u]) >= Len(frames[u])
             /\ \A i \in 1..Len(frames[u]) : frames'[u][i] = frames[u][i]
  <2>1. /\ task[t] \in {"created", "running"}
        /\ ~done[t]
        /\ Ending(t) \/ Lengthening(t) \/ Silent(t)
    BY <1>5, RunStepShape
  <2>2. CASE Silent(t)
    <3>1. UNCHANGED <<owner, frames, done>>
      BY <2>2 DEF Silent
    <3>2. task'[u] = task[u] \/ (u = t /\ task[u] = "created" /\ task'[u] = "over")
      BY <2>2 DEF Silent, TypeOK
    <3> QED
      BY <1>1, <3>1, <3>2
  <2>3. CASE Ending(t) \/ Lengthening(t)
    <3>1. PICK g \in Seq(Frame) : Ended(t, g) \/ Continued(t, g)
      BY <2>3 DEF Ending, Lengthening
    <3>2. Grown(t, g) /\ owner' = owner
      BY <3>1 DEF Ended, Continued
    <3>3. CASE u = t
      <4>1. task'[u] \in {"over", "running"}
        BY <3>1, <3>3 DEF Ended, Continued, TypeOK
      <4>2. /\ Len(frames'[u]) = Len(frames[u]) + Len(g)
            /\ \A i \in 1..Len(frames[u]) : frames'[u][i] = frames[u][i]
            /\ Len(g) \in Nat
        BY <3>2, <3>3, GrownFacts, LenProperties
      <4> QED
        BY <1>1, <2>1, <3>2, <3>3, <4>1, <4>2
    <3>4. CASE u # t
      <4>1. frames'[u] = frames[u]
        BY <3>2, <3>4, GrownFacts
      <4>2. done'[u] = done[u] /\ task'[u] = task[u]
        BY <3>1, <3>4 DEF Ended, Continued, TypeOK
      <4> QED
        BY <1>2, <3>2, <4>1, <4>2
    <3> QED
      BY <3>3, <3>4
  <2> QED
    BY <2>1, <2>2, <2>3
<1>6. ASSUME NEW t \in Turns, RetentionPasses(t)
      PROVE  Kept
  BY <1>6 DEF RetentionPasses, turnVars
<1>7. ASSUME NEW r \in Readers, ReaderStep(r)
      PROVE  Kept
  BY <1>7 DEF ReaderStep, SendFrame, Park, Heartbeat, EndOfTurn, Leave, ReaderMoves, turnVars
<1> QED
  BY <1>2, <1>3, <1>4, <1>5, <1>6, <1>7 DEF Next

LEMMA RegistryStep ==
  ASSUME TypeOK, TaskInv, RegistryInv, BrokerAssumption, [Next]_vars
  PROVE  RegistryInv'
<1> DEFINE Owned == \A c \in Chats : registry[c] # None => owner[registry[c]] = c
           Live(u) == task[u] # "unused" /\ ~done[u]
\* An eviction alone keeps the registry right: it drops only turns that are done.
<1>1. ASSUME registry' = Evict(registry), UNCHANGED <<owner, task, done>>
      PROVE  RegistryInv'
  <2>1. Owned'
    BY <1>1, EvictFacts DEF RegistryInv
  <2>2. ASSUME NEW u \in Turns, Live(u)
        PROVE  registry'[owner[u]] = u
    <3>1. registry[owner[u]] = u /\ owner[u] \in Chats
      BY <2>2 DEF RegistryInv, RunningIsReachable, Started, TaskInv, TaskOK, TypeOK
    <3>2. ~expired[u] /\ u # None
      BY <2>2 DEF TaskInv, TaskOK, BrokerAssumption
    <3> QED
      BY <1>1, <3>1, <3>2, EvictFacts
  <2> QED
    BY <1>1, <2>1, <2>2 DEF RegistryInv, RunningIsReachable, Started
<1>2. ASSUME UNCHANGED <<registry, owner>>,
             \A u \in Turns : Live(u)' => Live(u)
      PROVE  RegistryInv'
  BY <1>2 DEF RegistryInv, RunningIsReachable, Started
<1>3. CASE UNCHANGED vars
  BY <1>2, <1>3 DEF vars, turnVars
<1>4. ASSUME NEW c \in Chats, NEW t \in Turns, NEW r \in Readers, StartTurn(c, t, r)
      PROVE  RegistryInv'
  <2>1. owner[t] = None /\ None \notin Chats
    BY <1>4 DEF StartTurn, TaskInv, TaskOK, BrokerAssumption
  <2>2. Owned'
    <3> SUFFICES ASSUME NEW d \in Chats, registry'[d] # None
                 PROVE  owner'[registry'[d]] = d
      OBVIOUS
    <3>1. CASE d = c
      BY <1>4, <3>1, EvictFacts DEF StartTurn, TypeOK
    <3>2. CASE d # c
      <4>1. registry'[d] = registry[d] /\ registry[d] # None
        BY <1>4, <3>2, EvictFacts DEF StartTurn
      <4>2. owner[registry[d]] = d /\ registry[d] \in Turns
        BY <4>1 DEF RegistryInv, TypeOK
      <4>3. registry[d] # t
        BY <2>1, <4>2
      <4> QED
        BY <1>4, <4>1, <4>2, <4>3 DEF StartTurn, TypeOK
    <3> QED
      BY <3>1, <3>2
  <2>3. ASSUME NEW u \in Turns, Live(u)'
        PROVE  registry'[owner'[u]] = u
    <3>1. CASE u = t
      BY <1>4, <3>1, EvictFacts DEF StartTurn, TypeOK
    <3>2. CASE u # t
      <4>1. Live(u) /\ owner'[u] = owner[u]
        BY <1>4, <2>3, <3>2 DEF StartTurn, TypeOK
      <4>2. registry[owner[u]] = u /\ owner[u] \in Chats
        BY <4>1 DEF RegistryInv, RunningIsReachable, Started, TaskInv, TaskOK, TypeOK
      <4>3. ~expired[u] /\ u # None
        BY <4>1 DEF TaskInv, TaskOK, BrokerAssumption
      <4>4. Evict(registry)[owner[u]] = u
        BY <4>2, <4>3, EvictFacts
      <4>5. owner[u] # c
        BY <1>4, <4>1, <4>3, <4>4 DEF StartTurn, Running
      <4> QED
        BY <1>4, <4>1, <4>2, <4>4, <4>5, EvictFacts DEF StartTurn
    <3> QED
      BY <3>1, <3>2
  <2> QED
    BY <2>2, <2>3 DEF RegistryInv, RunningIsReachable, Started
<1>5. ASSUME NEW c \in Chats, \/ LookupOnly(c)
                              \/ \E r \in Readers, i \in Positions : Attach(r, c, i)
                              \/ \E s \in Stoppers : Stop(s, c)
      PROVE  RegistryInv'
  BY <1>1, <1>5 DEF LookupOnly, Attach, Stop, turnVars
<1>6. ASSUME NEW s \in Stoppers, StopReturns(s)
      PROVE  RegistryInv'
  BY <1>2, <1>6 DEF StopReturns, turnVars
<1>7. ASSUME NEW t \in Turns, RunStep(t)
      PROVE  RegistryInv'
  <2>1. Ending(t) \/ Lengthening(t) \/ Silent(t)
    BY <1>7, RunStepShape
  <2>2. UNCHANGED <<registry, owner>>
    BY <2>1 DEF Ending, Lengthening, Ended, Continued, Silent
  <2>3. task[t] # "unused"
    BY <1>7, RunStepShape
  <2>4. ASSUME NEW u \in Turns, Live(u)'
        PROVE  Live(u)
    <3>1. done[u] => done'[u]
      BY Monotone
    <3>2. u = t \/ task'[u] = task[u]
      BY <2>1 DEF Ending, Lengthening, Ended, Continued, Silent, TypeOK
    <3> QED
      BY <2>3, <2>4, <3>1, <3>2
  <2> QED
    BY <1>2, <2>2, <2>4
<1>8. ASSUME NEW t \in Turns, RetentionPasses(t)
      PROVE  RegistryInv'
  BY <1>2, <1>8 DEF RetentionPasses, turnVars
<1>9. ASSUME NEW r \in Readers, ReaderStep(r)
      PROVE  RegistryInv'
  BY <1>2, <1>9 DEF ReaderStep, SendFrame, Park, Heartbeat, EndOfTurn, Leave, ReaderMoves,
                    turnVars
<1> QED
  BY <1>3, <1>4, <1>5, <1>6, <1>7, <1>8, <1>9 DEF Next, RequestStep

LEMMA ReaderInvStep ==
  ASSUME TypeOK, TaskInv, RegistryInv, ReaderInv, BrokerAssumption, [Next]_vars
  PROVE  ReaderInv'
<1> SUFFICES ASSUME NEW q \in Readers PROVE ReaderOK(q)'
  BY DEF ReaderInv
<1>1. ReaderOK(q) /\ reader[q] \in ReaderState
  BY DEF ReaderInv, TypeOK
<1>2. Len(reader[q].got) \in Nat
  BY <1>1, LenProperties DEF ReaderState
\* A reader the step leaves alone, of a turn it leaves alone.
<1>3. ASSUME UNCHANGED <<reader[q], frames, done>>
      PROVE  ReaderOK(q)'
  <2>1. reader[q].state # "idle" => task'[reader[q].turn] # "unused"
    BY <1>1, Monotone DEF ReaderOK
  <2> QED
    BY <1>1, <1>3, <2>1 DEF ReaderOK, CaughtUp
\* A reader that begins to read a turn.
<1>4. ASSUME NEW t \in Turns, NEW i \in Int, Follow(q, t, i), task'[t] # "unused"
      PROVE  ReaderOK(q)'
  <2>1. reader'[q] = [state |-> "following", turn |-> t, start |-> From(i),
                      index |-> From(i), got |-> << >>]
    BY <1>4 DEF Follow, TypeOK
  <2> QED
    BY <1>4, <2>1 DEF ReaderOK, From
<1>5. CASE UNCHANGED vars
  BY <1>3, <1>5 DEF vars, turnVars
<1>6. ASSUME NEW c \in Chats, NEW t \in Turns, NEW r \in Readers, StartTurn(c, t, r)
      PROVE  ReaderOK(q)'
  <2>1. CASE q = r
    BY <1>4, <1>6, <2>1 DEF StartTurn, TypeOK
  <2>2. CASE q # r
    BY <1>3, <1>6, <2>2 DEF StartTurn, Follow, TypeOK
  <2> QED
    BY <2>1, <2>2
<1>7. ASSUME NEW r \in Readers, NEW c \in Chats, NEW i \in Positions, Attach(r, c, i)
      PROVE  ReaderOK(q)'
  <2> DEFINE t == Evict(registry)[c]
  <2>1. t \in Turns /\ task[t] # "unused" /\ i \in Int
    BY <1>7, EvictFacts DEF Attach, RegistryInv, TaskInv, TaskOK, Positions, BrokerAssumption
  <2>2. Follow(r, t, i) /\ UNCHANGED <<task, frames, done>>
    BY <1>7 DEF Attach, turnVars
  <2> HIDE DEF t
  <2>3. CASE q = r
    BY <1>4, <2>1, <2>2, <2>3
  <2>4. CASE q # r
    BY <1>3, <2>2, <2>4 DEF Follow, TypeOK
  <2> QED
    BY <2>3, <2>4
<1>8. ASSUME NEW c \in Chats, LookupOnly(c) \/ \E s \in Stoppers : Stop(s, c)
      PROVE  ReaderOK(q)'
  BY <1>3, <1>8 DEF LookupOnly, Stop, turnVars
<1>9. ASSUME NEW s \in Stoppers, StopReturns(s)
      PROVE  ReaderOK(q)'
  BY <1>3, <1>9 DEF StopReturns, turnVars
<1>10. ASSUME NEW t \in Turns, RunStep(t)
      PROVE  ReaderOK(q)'
  <2>1. ~done[t] /\ (Ending(t) \/ Lengthening(t) \/ Silent(t))
    BY <1>10, RunStepShape
  <2>2. CASE Silent(t)
    BY <1>3, <2>2 DEF Silent
  <2>3. CASE Ending(t) \/ Lengthening(t)
    <3>1. PICK g \in Seq(Frame) : Ended(t, g) \/ Continued(t, g)
      BY <2>3 DEF Ending, Lengthening
    <3>2. Grown(t, g)
      BY <3>1 DEF Ended, Continued
    <3>3. CASE reader[q].state = "idle"
      <4>1. reader'[q] = reader[q]
        BY <3>2, <3>3 DEF Grown, Woken
      <4> QED
        BY <1>1, <3>3, <4>1 DEF ReaderOK
    <3>4. CASE reader[q].state # "idle" /\ reader[q].turn # t
      <4>1. reader'[q] = reader[q]
        BY <3>2, <3>4, WokenFacts DEF Grown
      <4>2. reader[q].turn \in Turns
        BY <1>1, <3>4 DEF ReaderOK
      <4>3. /\ frames'[reader[q].turn] = frames[reader[q].turn]
            /\ done'[reader[q].turn] = done[reader[q].turn]
            /\ task'[reader[q].turn] = task[reader[q].turn]
        <5>1. frames'[reader[q].turn] = frames[reader[q].turn]
          BY <3>2, <3>4, <4>2, GrownFacts
        <5>2. \A u \in Turns \ {t} : done'[u] = done[u] /\ task'[u] = task[u]
          BY <3>1 DEF Ended, Continued, TypeOK
        <5> QED
          BY <3>4, <4>2, <5>1, <5>2
      <4> QED
        BY <1>1, <4>1, <4>3 DEF ReaderOK, CaughtUp
    <3>5. CASE reader[q].state # "idle" /\ reader[q].turn = t
      <4>1. reader[q].state = "following" \/ reader[q].state = "waiting"
        BY <1>1, <2>1, <3>5 DEF ReaderOK, ReaderState
      <4>2. /\ reader'[q].state = "following"
            /\ reader'[q].turn = t
            /\ reader'[q].start = reader[q].start
            /\ reader'[q].index = reader[q].index
            /\ reader'[q].got = reader[q].got
        BY <3>2, <3>5, <4>1, WokenFacts DEF Grown
      <4>3. task'[t] # "unused"
        BY <1>1, <3>5, Monotone DEF ReaderOK
      <4>4. /\ Len(frames'[t]) >= Len(frames[t])
            /\ \A j \in 1..Len(frames[t]) : frames'[t][j] = frames[t][j]
            /\ Len(frames[t]) \in Nat
            /\ Len(frames'[t]) \in Nat
        BY Monotone, <3>2, GrownFacts, LenProperties DEF TypeOK
      <4>5. reader[q].start \in Nat /\ reader[q].index \in Nat
        BY <1>1 DEF ReaderState
      <4>6. ASSUME NEW j \in 1..Len(reader[q].got)
            PROVE  reader[q].got[j] = frames'[t][reader[q].start + j]
        <5>1. reader[q].got # << >>
          BY <4>6
        <5>2. reader[q].start + j \in 1..Len(frames[t])
          <6>1. /\ reader[q].index = reader[q].start + Len(reader[q].got)
                /\ reader[q].index <= Len(frames[t])
            BY <1>1, <3>5, <5>1 DEF ReaderOK
          <6> QED
            BY <1>2, <4>4, <4>5, <4>6, <6>1, SMTT(30)
        <5> QED
          BY <1>1, <3>5, <4>4, <5>2 DEF ReaderOK
      <4>7. reader[q].got # << >> => reader[q].index <= Len(frames'[t])
        BY <1>1, <3>5, <4>4, <4>5 DEF ReaderOK
      <4> QED
        BY <1>1, <3>5, <4>2, <4>3, <4>6, <4>7 DEF ReaderOK
    <3> QED
      BY <3>3, <3>4, <3>5
  <2> QED
    BY <2>1, <2>2, <2>3
<1>11. ASSUME NEW t \in Turns, RetentionPasses(t)
      PROVE  ReaderOK(q)'
  BY <1>3, <1>11 DEF RetentionPasses, turnVars
<1>12. ASSUME NEW r \in Readers, ReaderStep(r)
      PROVE  ReaderOK(q)'
  <2>1. UNCHANGED <<task, frames, done>>
    BY <1>12 DEF ReaderStep, SendFrame, Park, Heartbeat, EndOfTurn, Leave, ReaderMoves, turnVars
  <2>2. CASE q # r
    BY <1>3, <1>12, <2>1, <2>2 DEF ReaderStep, SendFrame, Park, Heartbeat, EndOfTurn, Leave,
                                   ReaderMoves, TypeOK
  <2>3. CASE q = r /\ SendFrame(q)
    <3> DEFINE rd == reader[q]
               f  == frames[rd.turn][rd.index + 1]
    <3>1. reader'[q] = Sent(rd, f)
      BY <2>3 DEF SendFrame, ReaderMoves, TypeOK
    <3>2. /\ reader'[q].state = rd.state
          /\ reader'[q].turn = rd.turn
          /\ reader'[q].start = rd.start
          /\ reader'[q].index = rd.index + 1
          /\ reader'[q].got = Append(rd.got, f)
      BY <3>1 DEF Sent
    <3>3. rd.state = "following" /\ ~CaughtUp(q)
      BY <2>3 DEF SendFrame
    <3>4. rd.turn \in Turns /\ rd.index = rd.start + Len(rd.got) /\ task[rd.turn] # "unused"
      BY <1>1, <3>3 DEF ReaderOK
    <3>5. rd.got \in Seq(Frame) /\ rd.start \in Nat /\ rd.index \in Nat
      BY <1>1 DEF ReaderState
    <3>6. Len(frames[rd.turn]) \in Nat /\ rd.index < Len(frames[rd.turn])
      BY <3>3, <3>4, <3>5, LenProperties DEF CaughtUp, TypeOK
    <3>7. f \in Frame
      <4>1. rd.index + 1 \in 1..Len(frames[rd.turn]) /\ frames[rd.turn] \in Seq(Frame)
        BY <3>4, <3>5, <3>6 DEF TypeOK
      <4> QED
        BY <4>1, ElementOfSeq
    <3>8. /\ Len(Append(rd.got, f)) = Len(rd.got) + 1
          /\ \A j \in 1..Len(rd.got) : Append(rd.got, f)[j] = rd.got[j]
          /\ Append(rd.got, f)[Len(rd.got) + 1] = f
      BY <3>5, <3>7, AppendProperties
    <3>9. ASSUME NEW j \in 1..(Len(rd.got) + 1)
          PROVE  Append(rd.got, f)[j] = frames[rd.turn][rd.start + j]
      <4>1. CASE j \in 1..Len(rd.got)
        BY <1>1, <3>3, <3>8, <4>1 DEF ReaderOK
      <4>2. CASE j = Len(rd.got) + 1
        <5>1. rd.start + j = rd.index + 1
          BY <1>2, <3>4, <3>5, <4>2
        <5> QED
          BY <3>8, <4>2, <5>1
      <4> QED
        BY <1>2, <4>1, <4>2
    <3> DEFINE got == Append(rd.got, f)
    <3>10. Len(got) = Len(rd.got) + 1 /\ reader'[q].got = got
      BY <3>2, <3>8
    <3>11. \A j \in 1..Len(got) : got[j] = frames[rd.turn][rd.start + j]
      BY <3>8, <3>9
    <3> HIDE DEF f, got
    <3>12. /\ rd.index + 1 = rd.start + Len(got)
           /\ rd.index + 1 <= Len(frames[rd.turn])
      BY <1>2, <3>4, <3>5, <3>6, <3>10, SMTT(30)
    <3> QED
      BY <2>1, <3>2, <3>3, <3>4, <3>10, <3>11, <3>12 DEF ReaderOK
  <2>4. CASE q = r /\ (Park(q) \/ Heartbeat(q) \/ EndOfTurn(q))
    <3>1. /\ reader[q].state # "idle"
          /\ \/ reader' = [reader EXCEPT ![q] = [reader[q] EXCEPT !.state = "following"]]
             \/ /\ reader' = [reader EXCEPT ![q] = [reader[q] EXCEPT !.state = "waiting"]]
                /\ CaughtUp(q) /\ ~done[reader[q].turn]
             \/ /\ reader' = [reader EXCEPT ![q] = [reader[q] EXCEPT !.state = "ended"]]
                /\ CaughtUp(q) /\ done[reader[q].turn]
      BY <2>4 DEF Park, Heartbeat, EndOfTurn, ReaderMoves
    <3>2. /\ reader'[q].turn = reader[q].turn
          /\ reader'[q].start = reader[q].start
          /\ reader'[q].index = reader[q].index
          /\ reader'[q].got = reader[q].got
          /\ \/ reader'[q].state = "following"
             \/ reader'[q].state = "waiting" /\ CaughtUp(q) /\ ~done[reader[q].turn]
             \/ reader'[q].state = "ended" /\ CaughtUp(q) /\ done[reader[q].turn]
      BY <1>1, <3>1 DEF TypeOK, ReaderState
    <3> QED
      BY <1>1, <2>1, <3>1, <3>2 DEF ReaderOK, CaughtUp
  <2>5. CASE q = r /\ Leave(q)
    BY <2>5 DEF Leave, ReaderMoves, ReaderOK, Nobody, TypeOK
  <2> QED
    BY <1>12, <2>2, <2>3, <2>4, <2>5 DEF ReaderStep
<1> QED
  BY <1>5, <1>6, <1>7, <1>8, <1>9, <1>10, <1>11, <1>12 DEF Next, RequestStep

LEMMA StopperStep ==
  ASSUME TypeOK, TaskInv, StopperInv, BrokerAssumption, [Next]_vars
  PROVE  StopperInv'
<1> SUFFICES ASSUME NEW s \in Stoppers
             PROVE  /\ stopper'[s].state # "idle" => stopper'[s].turn \in Turns
                    /\ stopper'[s].state = "answered" => task'[stopper'[s].turn] = "over"
  BY DEF StopperInv
<1>1. /\ stopper[s].state # "idle" => stopper[s].turn \in Turns
      /\ stopper[s].state = "answered" => task[stopper[s].turn] = "over"
  BY DEF StopperInv
<1>2. stopper[s].state = "answered" => task'[stopper[s].turn] = "over"
  BY <1>1, Monotone
<1>3. CASE stopper'[s] = stopper[s]
  BY <1>1, <1>2, <1>3
<1>4. ASSUME NEW p \in Stoppers, NEW c \in Chats, Stop(p, c)
      PROVE  \/ stopper'[s] = stopper[s]
             \/ stopper'[s].state = "waiting" /\ stopper'[s].turn \in Turns
  <2>1. Evict(registry)[c] \in Turns
    BY <1>4, EvictFacts DEF Stop, Running
  <2>2. stopper' = [stopper EXCEPT ![p] = [state |-> "waiting", turn |-> Evict(registry)[c]]]
    BY <1>4 DEF Stop
  <2>3. CASE p = s
    <3>1. stopper'[s] = [state |-> "waiting", turn |-> Evict(registry)[c]]
      BY <2>2, <2>3 DEF TypeOK
    <3> QED
      BY <2>1, <3>1
  <2>4. CASE p # s
    <3>1. stopper'[s] = stopper[s]
      BY <2>2, <2>4 DEF TypeOK
    <3> QED
      BY <3>1
  <2> QED
    BY <2>3, <2>4
<1>5. ASSUME NEW p \in Stoppers, StopReturns(p), stopper'[s] # stopper[s]
      PROVE  /\ stopper'[s].state = "answered"
             /\ stopper'[s].turn \in Turns
             /\ task'[stopper'[s].turn] = "over"
  BY <1>1, <1>5 DEF StopReturns, turnVars, TypeOK
<1>6. CASE RequestStep
  BY <1>3, <1>4, <1>5, <1>6 DEF RequestStep, StartTurn, LookupOnly, Attach
<1>7. ASSUME NEW t \in Turns, RunStep(t) \/ RetentionPasses(t)
      PROVE  stopper' = stopper
  BY <1>7, RunStepShape DEF Ending, Lengthening, Ended, Continued, Silent, RetentionPasses
<1>8. ASSUME NEW r \in Readers, ReaderStep(r)
      PROVE  stopper' = stopper
  BY <1>8 DEF ReaderStep, SendFrame, Park, Heartbeat, EndOfTurn, Leave, ReaderMoves
<1> QED
  BY <1>3, <1>6, <1>7, <1>8 DEF Next, vars, turnVars

-----------------------------------------------------------------------------
(* The theorems. *)

\* The strengthening of the properties below holds initially and is kept by every step.
THEOREM Invariance == Spec => []IInv
<1>1. Init => IInv
  <2>1. << >> \in Seq(Frame)
    OBVIOUS
  <2> SUFFICES ASSUME Init PROVE IInv
    OBVIOUS
  <2>2. TypeOK
    BY <2>1, BrokerAssumption DEF Init, Nobody, TypeOK, ReaderState, SourceState
  <2>3. TaskInv
    BY DEF Init, TaskInv, TaskOK
  <2>4. RegistryInv
    BY DEF Init, RegistryInv, RunningIsReachable, Started
  <2>5. ReaderInv
    BY DEF Init, ReaderInv, ReaderOK, Nobody
  <2>6. StopperInv
    BY DEF Init, StopperInv
  <2> QED
    BY <2>2, <2>3, <2>4, <2>5, <2>6 DEF IInv
<1>2. IInv /\ [Next]_vars => IInv'
  <2> SUFFICES ASSUME IInv, [Next]_vars PROVE IInv'
    OBVIOUS
  <2> QED
    BY BrokerAssumption, TypeStep, TaskStep, RegistryStep, ReaderInvStep, StopperStep DEF IInv
<1> QED
  BY <1>1, <1>2, PTL DEF Spec

\* Every variable keeps its type, whatever the requests and the turn do.
THEOREM TypeCorrect == Spec => []TypeOK
<1>1. IInv => TypeOK
  BY DEF IInv
<1> QED
  BY <1>1, Invariance, PTL

\* A turn that has not ended can always be found by a reader or a stop, so that a
\* conversation never runs two (turns.py:start, cancel, _evict).
THEOREM RunningReachable == Spec => []RunningIsReachable
<1>1. IInv => RunningIsReachable
  BY DEF IInv, RegistryInv
<1> QED
  BY <1>1, Invariance, PTL

\* A reader never sleeps on frames or on the end of its turn (turns.py:read).
THEOREM NeverMissesAWakeup == Spec => []NoMissedWakeup
<1>1. IInv => NoMissedWakeup
  BY DEF IInv, ReaderInv, ReaderOK, NoMissedWakeup
<1> QED
  BY <1>1, Invariance, PTL

\* Every reader is sent exactly the frames of its turn from where it asked to start,
\* and all of them if its response ends (turns.py:read).
THEOREM ReplayIsExact == Spec => []ReadersReplayTheTurn
<1>1. IInv => ReadersReplayTheTurn
  BY DEF IInv, ReaderInv, ReaderOK, Nobody, ReadersReplayTheTurn
<1> QED
  BY <1>1, Invariance, PTL

\* A turn that is over began with its start frame and ends with a done frame, on every
\* path out of _run (turns.py:_run).
THEOREM EndsAreFramed == Spec => []FinishedTurnsAreFramed
<1>1. IInv => FinishedTurnsAreFramed
  BY DEF IInv, TaskInv, TaskOK, Framed, FinishedTurnsAreFramed
<1> QED
  BY <1>1, Invariance, PTL

\* An answered stop found its turn over, or a turn that never published a frame
\* (turns.py:cancel).
THEOREM StopsEndTurns == Spec => []StopEndsWhatBegan
<1>1. IInv => StopEndsWhatBegan
  BY DEF IInv, TaskInv, TaskOK, StopperInv, StopEndsWhatBegan
<1> QED
  BY <1>1, Invariance, PTL

\* For any conversations, turns, readers and stops: a running turn can be found, an ended one is
\* framed, and an answered stop found its turn over, or one that never published (turns.py).
THEOREM TurnsAreWhole == Spec => []TurnsInv
<1>1. RunningIsReachable /\ FinishedTurnsAreFramed /\ StopEndsWhatBegan => TurnsInv
  BY DEF TurnsInv
<1> QED
  BY <1>1, RunningReachable, EndsAreFramed, StopsEndTurns, PTL

\* Once a turn is over its buffer never changes (turns.py:finish).
THEOREM EndsAreFinal == Spec => EndedTurnsAreFrozen
<1>1. IInv /\ [Next]_vars =>
        [\A t \in Turns : done[t] => UNCHANGED <<frames[t], done[t], owner[t]>>]_vars
  <2> SUFFICES ASSUME IInv, [Next]_vars, NEW t \in Turns, done[t]
               PROVE  UNCHANGED <<frames[t], done[t], owner[t]>>
    OBVIOUS
  <2>1. TypeOK /\ TaskInv
    BY DEF IInv
  <2>2. task[t] # "unused" /\ done[t] \in BOOLEAN
    BY <2>1 DEF TaskInv, TaskOK, TypeOK
  <2>3. TypeOK'
    BY BrokerAssumption, TypeStep DEF IInv
  <2> QED
    BY <2>1, <2>2, <2>3, BrokerAssumption, Monotone DEF TypeOK
<1> QED
  BY <1>1, Invariance, PTL DEF Spec, EndedTurnsAreFrozen

-----------------------------------------------------------------------------
(* The broker implements TurnLog. *)

\* What a log shows of a reader changes only with what that reader is and was sent.
LEMMA ShownFacts ==
  /\ \A r \in Readers :
       /\ Shown[r].turn = reader[r].turn
       /\ Shown[r].start = reader[r].start
       /\ Shown[r].got = reader[r].got
       /\ Shown[r].state = Standing(r)
  /\ \A r \in Readers : Log!Reading(r) <=> ~Free(r)
BY DEF Shown, Standing, Log!Reading, Free

LEMMA ShownWoken ==
  ASSUME TypeOK, NEW t \in Turns, reader' = Woken(t)
  PROVE  Shown' = Shown
<1> SUFFICES ASSUME NEW r \in Readers
             PROVE  /\ reader'[r].turn = reader[r].turn
                    /\ reader'[r].start = reader[r].start
                    /\ reader'[r].got = reader[r].got
                    /\ Standing(r)' = Standing(r)
  BY DEF Shown
<1> QED
  BY WokenFacts DEF Standing

\* A step that changes one reader changes what the log shows of that reader alone.
LEMMA ShownOther ==
  ASSUME TypeOK, NEW r \in Readers, NEW rec, reader' = [reader EXCEPT ![r] = rec]
  PROVE  Shown' = [Shown EXCEPT ![r] =
           [turn |-> rec.turn, start |-> rec.start, got |-> rec.got,
            state |-> CASE rec.state = "idle" -> "gone"
                        [] rec.state = "ended" -> "complete"
                        [] OTHER -> "reading"]]
BY DEF TypeOK, Shown, Standing

LEMMA LogStep ==
  ASSUME IInv, BrokerAssumption, [Next]_vars
  PROVE  [Log!Next]_(Log!vars)
<1> USE DEF IInv
<1>1. CASE UNCHANGED vars
  BY <1>1 DEF vars, turnVars, Log!vars, Shown, Standing
<1>2. ASSUME UNCHANGED <<owner, frames, done, reader>>
      PROVE  UNCHANGED Log!vars
  BY <1>2 DEF Log!vars, Shown, Standing
<1>3. ASSUME NEW r \in Readers, NEW t \in Turns, NEW i \in Int, Follow(r, t, i), Free(r)
      PROVE  Log!Open(r, t, From(i))
  <2> DEFINE rec == [state |-> "following", turn |-> t, start |-> From(i),
                     index |-> From(i), got |-> << >>]
  <2>1. reader' = [reader EXCEPT ![r] = rec]
    BY <1>3 DEF Follow
  <2>2. /\ rec.turn = t /\ rec.start = From(i) /\ rec.got = << >>
        /\ rec.state = "following"
    OBVIOUS
  <2> HIDE DEF rec
  <2>3. Shown' = [Shown EXCEPT ![r] = [turn |-> t, start |-> From(i), got |-> << >>,
                                       state |-> "reading"]]
    BY <2>1, <2>2, ShownOther
  <2> QED
    BY <1>3, <2>3, ShownFacts DEF Log!Open
<1>4. ASSUME NEW c \in Chats, NEW t \in Turns, NEW r \in Readers, StartTurn(c, t, r)
      PROVE  Log!Begin(c, t, r)
  <2>1. owner[t] = None
    BY <1>4 DEF StartTurn, TaskInv, TaskOK
  <2>2. ASSUME NEW u \in Turns, owner[u] = c, ~done[u]
        PROVE  FALSE
    <3>1. task[u] # "unused" /\ ~expired[u] /\ u # None
      BY <2>2 DEF TaskInv, TaskOK, BrokerAssumption
    <3>2. registry[c] = u
      BY <2>2, <3>1 DEF RegistryInv, RunningIsReachable, Started
    <3>3. Evict(registry)[c] = u
      BY <3>1, <3>2, EvictFacts
    <3> QED
      BY <1>4, <2>2, <3>1, <3>3 DEF StartTurn, Running
  <2>3. Log!Open(r, t, 0)
    BY <1>3, <1>4 DEF StartTurn, From
  <2> QED
    BY <1>4, <2>1, <2>2, <2>3 DEF StartTurn, Log!Begin
<1>5. ASSUME NEW r \in Readers, NEW c \in Chats, NEW i \in Positions, Attach(r, c, i)
      PROVE  Log!Next
  <2> DEFINE t == Evict(registry)[c]
  <2>1. t \in Turns /\ owner[t] # None /\ i \in Int
    BY <1>5, EvictFacts DEF Attach, RegistryInv, TypeOK, Positions, BrokerAssumption
  <2>2. From(i) \in 0..(MaxBuffer + 4)
    BY <1>5 DEF From, Positions, BrokerAssumption
  <2>3. Follow(r, t, i) /\ Free(r) /\ UNCHANGED <<owner, frames, done>>
    BY <1>5 DEF Attach, turnVars
  <2> HIDE DEF t
  <2>4. Log!Subscribe(r, t, From(i))
    BY <1>3, <2>1, <2>3 DEF Log!Subscribe
  <2> QED
    BY <2>1, <2>2, <2>4 DEF Log!Next
<1>6. ASSUME NEW c \in Chats, LookupOnly(c) \/ \E s \in Stoppers : Stop(s, c)
      PROVE  UNCHANGED Log!vars
  BY <1>2, <1>6 DEF LookupOnly, Stop, turnVars
<1>7. ASSUME NEW s \in Stoppers, StopReturns(s)
      PROVE  UNCHANGED Log!vars
  BY <1>2, <1>7 DEF StopReturns, turnVars
<1>8. ASSUME NEW t \in Turns, RunStep(t)
      PROVE  Log!Next \/ UNCHANGED Log!vars
  <2>1. /\ ~done[t] /\ owner[t] # None
        /\ Ending(t) \/ Lengthening(t) \/ Silent(t)
    BY <1>8, RunStepShape DEF TaskInv, TaskOK
  <2>2. /\ Len(frames'[t]) >= Len(frames[t])
        /\ \A i \in 1..Len(frames[t]) : frames'[t][i] = frames[t][i]
    BY Monotone
  <2>3. ASSUME NEW g \in Seq(Frame), Grown(t, g), owner' = owner
        PROVE  Log!Grows(t)
    <3>1. frames' = [frames EXCEPT ![t] = frames'[t]]
      BY <2>3, GrownFacts DEF TypeOK
    <3>2. Shown' = Shown
      BY <2>3, ShownWoken DEF Grown
    <3> QED
      BY <2>1, <2>2, <2>3, <3>1, <3>2 DEF Log!Grows
  <2>4. CASE Ending(t)
    <3>1. PICK g \in Seq(Frame) : Ended(t, g) /\ Framed(frames'[t])
      BY <2>4 DEF Ending
    <3>2. Log!Close(t)
      BY <2>3, <3>1 DEF Ended, Framed, Log!Close
    <3> QED
      BY <3>2 DEF Log!Next
  <2>5. CASE Lengthening(t)
    <3>1. PICK g \in Seq(Frame) : Continued(t, g)
      BY <2>5 DEF Lengthening
    <3>2. Log!Extend(t)
      BY <2>3, <3>1 DEF Continued, Log!Extend
    <3> QED
      BY <3>2 DEF Log!Next
  <2>6. CASE Silent(t)
    BY <1>2, <2>6 DEF Silent
  <2> QED
    BY <2>1, <2>4, <2>5, <2>6
<1>9. ASSUME NEW t \in Turns, RetentionPasses(t)
      PROVE  UNCHANGED Log!vars
  BY <1>2, <1>9 DEF RetentionPasses, turnVars
<1>10. ASSUME NEW r \in Readers, ReaderStep(r)
       PROVE  Log!Next \/ UNCHANGED Log!vars
  <2>1. reader[r] \in ReaderState /\ ReaderOK(r)
    BY DEF TypeOK, ReaderInv
  <2>2. UNCHANGED <<owner, frames, done>>
    BY <1>10 DEF ReaderStep, SendFrame, Park, Heartbeat, EndOfTurn, Leave, ReaderMoves, turnVars
  <2>3. CASE SendFrame(r)
    <3> DEFINE rd == reader[r]
               f  == frames[rd.turn][rd.index + 1]
    <3>1. rd.state = "following" /\ ~CaughtUp(r) /\ reader' = [reader EXCEPT ![r] = Sent(rd, f)]
      BY <2>3 DEF SendFrame, ReaderMoves
    <3>2. rd.turn \in Turns /\ rd.index = rd.start + Len(rd.got)
      BY <2>1, <3>1 DEF ReaderOK
    <3>3. Log!Reading(r) /\ Log!Handed(r) = rd.index
      BY <3>1, <3>2, ShownFacts DEF Free, Log!Handed
    <3>4. rd.index \in Nat /\ Len(frames[rd.turn]) \in Nat
      BY <2>1, <3>2, LenProperties DEF ReaderState, TypeOK
    <3>5. Log!Handed(r) < Len(frames[Shown[r].turn])
      BY <3>1, <3>3, <3>4, ShownFacts DEF CaughtUp
    <3> HIDE DEF f
    <3>6. Shown' = [Shown EXCEPT ![r] = [turn |-> rd.turn, start |-> rd.start,
                                         got |-> Append(rd.got, f), state |-> "reading"]]
      BY <3>1, ShownOther DEF Sent
    <3>7. Shown[r] = [turn |-> rd.turn, start |-> rd.start, got |-> rd.got,
                      state |-> "reading"]
      BY <3>1 DEF Shown, Standing
    <3>8. Shown' = [Shown EXCEPT ![r].got =
                      Append(@, frames[Shown[r].turn][Log!Handed(r) + 1])]
      BY <3>3, <3>6, <3>7 DEF f, Shown
    <3> QED
      BY <2>2, <3>3, <3>5, <3>8 DEF Log!Deliver, Log!Next
  <2>4. CASE Park(r) \/ Heartbeat(r)
    <3>1. Shown' = Shown
      <4> SUFFICES ASSUME NEW q \in Readers
                   PROVE  /\ reader'[q].turn = reader[q].turn
                          /\ reader'[q].start = reader[q].start
                          /\ reader'[q].got = reader[q].got
                          /\ Standing(q)' = Standing(q)
        BY DEF Shown
      <4>1. CASE q = r
        BY <2>1, <2>4, <4>1 DEF Park, Heartbeat, ReaderMoves, Standing, TypeOK, ReaderState
      <4>2. CASE q # r
        BY <2>4, <4>2 DEF Park, Heartbeat, ReaderMoves, Standing, TypeOK
      <4> QED
        BY <4>1, <4>2
    <3> QED
      BY <2>2, <3>1 DEF Log!vars
  <2>5. CASE EndOfTurn(r)
    <3>1. /\ reader[r].state = "following" /\ CaughtUp(r) /\ done[reader[r].turn]
          /\ reader' = [reader EXCEPT ![r] = [reader[r] EXCEPT !.state = "ended"]]
      BY <2>5 DEF EndOfTurn, ReaderMoves
    <3>2. Log!Reading(r) /\ Log!Handed(r) = reader[r].index
      BY <2>1, <3>1, ShownFacts DEF Free, Log!Handed, ReaderOK
    <3>3. Shown' = [Shown EXCEPT ![r].state = "complete"]
      BY <2>1, <3>1 DEF Shown, Standing, TypeOK, ReaderState
    <3> QED
      BY <2>2, <3>1, <3>2, <3>3, ShownFacts DEF CaughtUp, Log!Complete, Log!Next
  <2>6. CASE Leave(r)
    <3>1. ~Free(r) /\ reader' = [reader EXCEPT ![r] = Nobody]
      BY <2>6 DEF Leave, ReaderMoves, Free
    <3>2. Shown' = [Shown EXCEPT ![r] = Log!Nobody]
      BY <3>1, ShownOther DEF Nobody, Log!Nobody
    <3> QED
      BY <2>2, <3>1, <3>2, ShownFacts DEF Log!Drop, Log!Next
  <2> QED
    BY <1>10, <2>3, <2>4, <2>5, <2>6 DEF ReaderStep
<1> QED
  BY <1>1, <1>4, <1>5, <1>6, <1>7, <1>8, <1>9, <1>10 DEF Next, RequestStep, Log!Next

\* A detached turn is an append-only log, closed once, at most one open per
\* conversation, that every reader is handed in order (turns.py, ADR-0024).
THEOREM BrokerImplementsLog == Spec => ImplementsLog
<1>1. Init => Log!Init
  BY DEF Init, Log!Init, Shown, Standing, Nobody, Log!Nobody
<1>2. IInv /\ [Next]_vars => [Log!Next]_(Log!vars)
  BY BrokerAssumption, LogStep
<1> QED
  BY <1>1, <1>2, Invariance, PTL DEF Spec, ImplementsLog, Log!Spec

\* A reader of any turn sees all of it and is woken for all of it (turns.py: read).
THEOREM ReadersAreServed == Spec => []ReadersInv
BY TypeCorrect, NeverMissesAWakeup, ReplayIsExact, PTL DEF ReadersInv
=============================================================================
