---------------------------- MODULE TurnStore_proofs ----------------------------
(***************************************************************************)
(* The invariants of TurnStore hold, and it implements MessageLife, for    *)
(* every set of conversations and turns, with and without SQLite's lock.   *)
(***************************************************************************)
EXTENDS TurnStore, FiniteSetTheorems, TLAPS

-----------------------------------------------------------------------------
(* The inductive invariant. *)

\* How the tasks of a turn, its row and its text stand to one another.
LifeOK(t) ==
  /\ gen[t] = "unused" <=> chat[t] = None
  /\ gen[t] = "unused" <=> insert[t] = "none"
  /\ gen[t] = "unused" => pending[t] = << >>
  /\ gen[t] \in {"unused", "producing"} => final[t] = "none"
  /\ final[t] # "none" => outcome[t] \in Outcomes
  /\ row[t].status = "absent" <=> insert[t] # "committed"
  /\ insert[t] # "committed" => row[t].content = 0
  /\ flush[t] # "idle" => pending[t] # << >>
  /\ flush[t] = "hit" => insert[t] = "committed"
  /\ final[t] \in {"asking", "cancelled", "executed", "done"} =>
       insert[t] = "committed" /\ pending[t] = << >>
  /\ Settled(t) <=> final[t] = "done"

LifeInv == \A t \in Turns : LifeOK(t)

\* The row is behind the snapshots on their way to it, these are in the order they were
\* taken, and the text is ahead of them all.
OrderOK(t) ==
  /\ row[t].content <= text[t]
  /\ \A i \in 1..Len(pending[t]) : row[t].content <= pending[t][i] /\ pending[t][i] <= text[t]
  /\ \A i, j \in 1..Len(pending[t]) : i < j => pending[t][i] <= pending[t][j]

OrderInv == \A t \in Turns : OrderOK(t)

SettledIn(c) == {t \in Turns : chat[t] = c /\ Settled(t)}

TallyOK(c) ==
  /\ IsFiniteSet(SettledIn(c))
  /\ count[c] = 2 * Cardinality(SettledIn(c))
  /\ leaf[c] = None <=> SettledIn(c) = {}
  /\ leaf[c] # None => leaf[c] \in SettledIn(c)

TallyInv == \A c \in Chats : TallyOK(c)

\* The jobs that wait for or hold the process's lock.
Wants(k, t) ==
  \/ k = "insert" /\ insert[t] \in {"asking", "cancelled", "executed"}
  \/ k = "flush" /\ flush[t] # "idle"
  \/ k = "final" /\ final[t] \in {"asking", "cancelled", "executed"}

\* The lock's queue holds each of them once; the holder is first; an insert is ahead of
\* the flushes of its turn.
QueueInv ==
  IsSqlite =>
    /\ \A i \in 1..Len(dblock), k \in Kinds, t \in Turns :
         dblock[i] = <<k, t>> => Wants(k, t)
    /\ \A i, j \in 1..Len(dblock) : dblock[i] = dblock[j] => i = j
    /\ \A k \in Kinds, t \in Turns :
         Wants(k, t) => \E i \in 1..Len(dblock) : dblock[i] = <<k, t>>
    /\ \A k \in Kinds, t \in Turns :
         Executing(k, t) => dblock # << >> /\ dblock[1] = <<k, t>>
    /\ \A i, j \in 1..Len(dblock) :
         dblock[i][1] = "insert" /\ dblock[j] = <<"flush", dblock[i][2]>> => i < j
    /\ FlushesFindTheirRow

IInv == TypeOK /\ LifeInv /\ OrderInv /\ TallyInv /\ QueueInv

-----------------------------------------------------------------------------
(* Types. *)

\* Every variable starts in its type.
LEMMA InitTypes == Init => TypeOK
  BY StoreAssumption DEF Init, TypeOK, Outcomes, Kinds

\* The lock's queue stays a queue of jobs.
LEMMA QueueTypes ==
  ASSUME TypeOK, NEW t \in Turns, NEW k \in Kinds
  PROVE  /\ Ask(k, t) => dblock' \in Seq(Kinds \X Turns)
         /\ Granted(k, t) /\ Release => dblock' \in Seq(Kinds \X Turns)
  <1>1. <<k, t>> \in Kinds \X Turns
    OBVIOUS
  <1>2. dblock \in Seq(Kinds \X Turns)
    BY DEF TypeOK
  <1>3. Ask(k, t) => dblock' \in Seq(Kinds \X Turns)
    BY <1>1, <1>2 DEF Ask
  <1>4. Granted(k, t) /\ Release => dblock' \in Seq(Kinds \X Turns)
    BY <1>2 DEF Granted, Release
  <1>5. QED
    BY <1>3, <1>4

\* A transaction that is executing holds the lock.
LEMMA ExecutingHolds ==
  ASSUME QueueInv, NEW t \in Turns, NEW k \in Kinds, Executing(k, t)
  PROVE  Granted(k, t)
  BY DEF QueueInv, Granted

LEMMA TypeStep == TypeOK /\ LifeInv /\ QueueInv /\ Next => TypeOK'
  <1> SUFFICES ASSUME TypeOK, LifeInv, QueueInv, Next
               PROVE  TypeOK'
    OBVIOUS
  <1>1. CASE ProcessStep
    <2>1. CASE Shutdown
      BY <2>1 DEF Shutdown, TypeOK, tasks, store
    <2>2. CASE DrainCancels
      <3>1. pending' \in [Turns -> Seq(Nat)]
        BY <2>2 DEF DrainCancels, TypeOK, LifeInv, LifeOK
      <3>2. QED
        BY <2>2, <3>1 DEF DrainCancels, TypeOK, store
    <2>3. CASE ProcessEnds
      BY <2>3 DEF ProcessEnds, TypeOK, store
    <2>4. CASE Restart
      BY <2>4 DEF Restart, TypeOK, tasks, store
    <2>5. QED
      BY <1>1, <2>1, <2>2, <2>3, <2>4 DEF ProcessStep
  <1>2. ASSUME NEW t \in Turns, NEW c \in Chats, Begin(t, c)
        PROVE  TypeOK'
    <2>1. dblock' \in Seq(Kinds \X Turns)
      BY <1>2, QueueTypes DEF Begin, Kinds
    <2>2. QED
      BY <1>2, <2>1 DEF Begin, TypeOK, store
  <1>3. ASSUME NEW t \in Turns, NEW flushNow \in BOOLEAN, Produce(t, flushNow)
        PROVE  TypeOK'
    BY <1>3 DEF Produce, TypeOK, store
  <1>4. ASSUME NEW t \in Turns, NEW s \in Outcomes, EndTurn(t, s)
        PROVE  TypeOK'
    BY <1>4 DEF EndTurn, TypeOK, store
  <1>5. ASSUME NEW t \in Turns, InsertStep(t)
        PROVE  TypeOK'
    <2>1. CASE InsertExecutes(t)
      BY <2>1 DEF InsertExecutes, TypeOK, store
    <2>2. CASE InsertCommits(t)
      <3>1. dblock' \in Seq(Kinds \X Turns)
        BY <2>2, QueueTypes, ExecutingHolds DEF InsertCommits, Kinds, Executing
      <3>2. QED
        BY <2>2, <3>1 DEF InsertCommits, TypeOK
    <2>3. CASE InsertFails(t)
      <3>1. dblock' \in Seq(Kinds \X Turns)
        BY <2>3, QueueTypes DEF InsertFails, Kinds
      <3>2. QED
        BY <2>3, <3>1 DEF InsertFails, TypeOK, store
    <2>4. QED
      BY <1>5, <2>1, <2>2, <2>3 DEF InsertStep
  <1>6. ASSUME NEW t \in Turns, FlushStep(t)
        PROVE  TypeOK'
    <2>1. CASE FlushAsks(t)
      <3>1. dblock' \in Seq(Kinds \X Turns)
        BY <2>1, QueueTypes DEF FlushAsks, Kinds
      <3>2. QED
        BY <2>1, <3>1 DEF FlushAsks, TypeOK, store
    <2>2. CASE FlushExecutes(t)
      BY <2>2 DEF FlushExecutes, TypeOK, store
    <2>3. ASSUME FlushCommits(t) \/ FlushFails(t)
          PROVE  TypeOK'
      <3>1. flush[t] # "idle" /\ Granted("flush", t) /\ FlushLeaves(t)
        BY <2>3, ExecutingHolds DEF FlushCommits, FlushFails, Executing, Kinds
      <3>2. dblock' \in Seq(Kinds \X Turns)
        BY <3>1, QueueTypes DEF FlushLeaves, Kinds
      <3>3. pending[t] \in Seq(Nat) /\ pending[t] # << >>
        BY <3>1 DEF LifeInv, LifeOK, TypeOK
      <3>4. Head(pending[t]) \in Nat /\ Tail(pending[t]) \in Seq(Nat)
        BY <3>3
      <3>5. row' \in [Turns -> [status : Outcomes \cup {"absent", "streaming"}, content : Nat]]
        <4>1. CASE row' = row
          BY <4>1 DEF TypeOK
        <4>2. CASE row' = [row EXCEPT ![t].content = Head(pending[t])]
          BY <4>2, <3>4 DEF TypeOK
        <4>3. QED
          BY <2>3, <4>1, <4>2 DEF FlushCommits, FlushFails
      <3>6. QED
        BY <3>1, <3>2, <3>4, <3>5 DEF FlushLeaves, TypeOK
    <2>4. QED
      BY <1>6, <2>1, <2>2, <2>3 DEF FlushStep
  <1>7. ASSUME NEW t \in Turns, FinalStep(t)
        PROVE  TypeOK'
    <2>1. CASE FinalAsks(t)
      <3>1. dblock' \in Seq(Kinds \X Turns)
        BY <2>1, QueueTypes DEF FinalAsks, Kinds
      <3>2. QED
        BY <2>1, <3>1 DEF FinalAsks, TypeOK, store
    <2>2. CASE FinalGivesUp(t)
      BY <2>2 DEF FinalGivesUp, TypeOK, store
    <2>3. CASE FinalExecutes(t)
      BY <2>3 DEF FinalExecutes, TypeOK, store
    <2>4. CASE FinalCommits(t)
      <3>1. dblock' \in Seq(Kinds \X Turns)
        BY <2>4, QueueTypes, ExecutingHolds DEF FinalCommits, Kinds, Executing
      <3>2. outcome[t] \in Outcomes
        BY <2>4 DEF FinalCommits, LifeInv, LifeOK
      <3>3. row' \in [Turns -> [status : Outcomes \cup {"absent", "streaming"}, content : Nat]]
        BY <2>4, <3>2 DEF FinalCommits, TypeOK
      <3>4. chat[t] \in Chats
        BY <2>4 DEF FinalCommits, LifeInv, LifeOK, TypeOK
      <3>5. leaf' \in [Chats -> Turns \cup {None}] /\ count' \in [Chats -> Nat]
        BY <2>4, <3>4 DEF FinalCommits, TypeOK
      <3>6. QED
        BY <2>4, <3>1, <3>3, <3>5 DEF FinalCommits, TypeOK
    <2>5. CASE FinalFails(t)
      <3>1. dblock' \in Seq(Kinds \X Turns)
        BY <2>5, QueueTypes DEF FinalFails, Kinds
      <3>2. QED
        BY <2>5, <3>1 DEF FinalFails, TypeOK, store
    <2>6. QED
      BY <1>7, <2>1, <2>2, <2>3, <2>4, <2>5 DEF FinalStep
  <1>8. QED
    BY <1>1, <1>2, <1>3, <1>4, <1>5, <1>6, <1>7 DEF Next

-----------------------------------------------------------------------------
(* A turn's tasks, its row and its text. *)

\* A step of a turn's generator or of one of its tasks.
TurnStep(t) ==
  \/ \E c \in Chats : Begin(t, c)
  \/ \E flushNow \in BOOLEAN : Produce(t, flushNow)
  \/ \E s \in Outcomes : EndTurn(t, s)
  \/ InsertStep(t)
  \/ FlushStep(t)
  \/ FinalStep(t)

Same(u) ==
  /\ gen'[u] = gen[u]
  /\ chat'[u] = chat[u]
  /\ outcome'[u] = outcome[u]
  /\ text'[u] = text[u]
  /\ insert'[u] = insert[u]
  /\ pending'[u] = pending[u]
  /\ flush'[u] = flush[u]
  /\ final'[u] = final[u]
  /\ row'[u] = row[u]

\* A step of one turn leaves the others alone.
LEMMA OthersSame ==
  ASSUME TypeOK, NEW t \in Turns, TurnStep(t), NEW u \in Turns, u # t
  PROVE  Same(u)
  <1>1. ASSUME NEW c \in Chats, Begin(t, c)
        PROVE  Same(u)
    BY <1>1 DEF Begin, Same, store
  <1>2. ASSUME NEW flushNow \in BOOLEAN, Produce(t, flushNow)
        PROVE  Same(u)
    BY <1>2 DEF Produce, Same, store
  <1>3. ASSUME NEW s \in Outcomes, EndTurn(t, s)
        PROVE  Same(u)
    BY <1>3 DEF EndTurn, Same, store
  <1>4. CASE InsertStep(t)
    BY <1>4 DEF InsertStep, InsertExecutes, InsertCommits, InsertFails, Same, TypeOK, store
  <1>5. CASE FlushStep(t)
    <2>1. CASE FlushAsks(t) \/ FlushExecutes(t)
      BY <2>1 DEF FlushAsks, FlushExecutes, Same, TypeOK, store
    <2>2. CASE FlushCommits(t) \/ FlushFails(t)
      <3>1. row'[u] = row[u]
        BY <2>2 DEF FlushCommits, FlushFails, TypeOK
      <3>2. FlushLeaves(t)
        BY <2>2 DEF FlushCommits, FlushFails
      <3>3. QED
        BY <3>1, <3>2 DEF FlushLeaves, Same
    <2>3. QED
      BY <1>5, <2>1, <2>2 DEF FlushStep
  <1>6. CASE FinalStep(t)
    <2>1. CASE FinalAsks(t) \/ FinalGivesUp(t) \/ FinalExecutes(t)
      BY <2>1 DEF FinalAsks, FinalGivesUp, FinalExecutes, Same, TypeOK, store
    <2>2. CASE FinalCommits(t) \/ FinalFails(t)
      BY <2>2 DEF FinalCommits, FinalFails, Same, TypeOK, store
    <2>3. QED
      BY <1>6, <2>1, <2>2 DEF FinalStep
  <1>7. QED
    BY <1>1, <1>2, <1>3, <1>4, <1>5, <1>6 DEF TurnStep

LEMMA NextIsAStep ==
  ASSUME Next
  PROVE  ProcessStep \/ \E t \in Turns : TurnStep(t)
  BY DEF Next, TurnStep

\* What a committed or failed flush leaves of its turn.
LEMMA FlushLeft ==
  ASSUME TypeOK, LifeInv, NEW t \in Turns, FlushCommits(t) \/ FlushFails(t)
  PROVE  /\ pending[t] \in Seq(Nat) /\ pending[t] # << >>
         /\ pending'[t] = Tail(pending[t])
         /\ flush'[t] = "idle"
         /\ row'[t] \in {row[t], [row[t] EXCEPT !.content = Head(pending[t])]}
         /\ row'[t] # row[t] => flush[t] = "hit"
         /\ UNCHANGED <<up, chat, gen, outcome, text, insert, final, leaf, count>>
  <1>1. FlushLeaves(t) /\ flush[t] # "idle"
    BY DEF FlushCommits, FlushFails
  <1>2. pending[t] \in Seq(Nat) /\ pending[t] # << >>
    BY <1>1 DEF LifeInv, LifeOK, TypeOK
  <1>3. row'[t] \in {row[t], [row[t] EXCEPT !.content = Head(pending[t])]}
        /\ (row'[t] # row[t] => flush[t] = "hit")
    BY DEF FlushCommits, FlushFails, TypeOK
  <1>4. QED
    BY <1>1, <1>2, <1>3 DEF FlushLeaves, TypeOK

LEMMA LifeStep == TypeOK /\ LifeInv /\ Next => LifeInv'
  <1> SUFFICES ASSUME TypeOK, LifeInv, Next
               PROVE  LifeInv'
    OBVIOUS
  <1>1. CASE ProcessStep
    <2> SUFFICES ASSUME NEW u \in Turns
                 PROVE  LifeOK(u)'
      BY DEF LifeInv
    <2> USE DEF LifeInv, LifeOK, Settled
    <2>1. CASE Shutdown \/ Restart
      BY <2>1 DEF Shutdown, Restart, tasks, store
    <2>2. CASE DrainCancels
      <3>1. flush'[u] # "idle" => pending'[u] # << >>
        BY <2>2 DEF DrainCancels, TypeOK
      <3>2. pending[u] = << >> => pending'[u] = << >>
        BY <2>2 DEF DrainCancels, TypeOK
      <3>3. QED
        BY <2>2, <3>1, <3>2 DEF DrainCancels, TypeOK, store
    <2>3. CASE ProcessEnds
      BY <2>3 DEF ProcessEnds, TypeOK, store
    <2>4. QED
      BY <1>1, <2>1, <2>2, <2>3 DEF ProcessStep
  <1>2. ASSUME NEW t \in Turns, TurnStep(t)
        PROVE  LifeInv'
    <2>1. ASSUME NEW u \in Turns, u # t
          PROVE  LifeOK(u)'
      BY <1>2, <2>1, OthersSame DEF Same, LifeInv, LifeOK, Settled
    <2>2. LifeOK(t)'
      <3> LifeOK(t)
        BY DEF LifeInv
      <3> USE DEF LifeOK, Settled
      <3>1. ASSUME NEW c \in Chats, Begin(t, c)
            PROVE  LifeOK(t)'
        BY <3>1, StoreAssumption DEF Begin, TypeOK, store
      <3>2. ASSUME NEW flushNow \in BOOLEAN, Produce(t, flushNow)
            PROVE  LifeOK(t)'
        <4>1. /\ pending[t] \in Seq(Nat)
              /\ pending'[t] \in {pending[t], Append(pending[t], text[t] + 1)}
              /\ gen[t] = "producing" /\ final[t] = "none"
          BY <3>2 DEF Produce, TypeOK
        <4>2. pending[t] # << >> => pending'[t] # << >>
          BY <4>1
        <4>3. QED
          BY <3>2, <4>1, <4>2 DEF Produce, TypeOK, store
      <3>3. ASSUME NEW s \in Outcomes, EndTurn(t, s)
            PROVE  LifeOK(t)'
        BY <3>3 DEF EndTurn, TypeOK, store
      <3>4. CASE InsertStep(t)
        <4>1. CASE InsertExecutes(t) \/ InsertFails(t)
          BY <4>1 DEF InsertExecutes, InsertFails, TypeOK, store
        <4>2. CASE InsertCommits(t)
          BY <4>2 DEF InsertCommits, TypeOK, Outcomes
        <4>3. QED
          BY <3>4, <4>1, <4>2 DEF InsertStep
      <3>5. CASE FlushStep(t)
        <4>1. CASE FlushAsks(t) \/ FlushExecutes(t)
          BY <4>1 DEF FlushAsks, FlushExecutes, TypeOK, store
        <4>2. CASE FlushCommits(t) \/ FlushFails(t)
          <5>1. row'[t].status = row[t].status
            BY <4>2, FlushLeft DEF TypeOK
          <5>2. row'[t] # row[t] => insert[t] = "committed"
            BY <4>2, FlushLeft
          <5>3. QED
            BY <4>2, <5>1, <5>2, FlushLeft
        <4>3. QED
          BY <3>5, <4>1, <4>2 DEF FlushStep
      <3>6. CASE FinalStep(t)
        <4>1. CASE FinalAsks(t) \/ FinalGivesUp(t) \/ FinalExecutes(t)
          BY <4>1 DEF FinalAsks, FinalGivesUp, FinalExecutes, TypeOK, store
        <4>2. CASE FinalCommits(t)
          BY <4>2 DEF FinalCommits, TypeOK, Outcomes
        <4>3. CASE FinalFails(t)
          BY <4>3 DEF FinalFails, TypeOK, store
        <4>4. QED
          BY <3>6, <4>1, <4>2, <4>3 DEF FinalStep
      <3>7. QED
        BY <1>2, <3>1, <3>2, <3>3, <3>4, <3>5, <3>6 DEF TurnStep
    <2>3. QED
      BY <2>1, <2>2 DEF LifeInv
  <1>3. QED
    BY <1>1, <1>2, NextIsAStep

LEMMA OrderStep == TypeOK /\ LifeInv /\ OrderInv /\ Next => OrderInv'
  <1> SUFFICES ASSUME TypeOK, LifeInv, OrderInv, Next
               PROVE  OrderInv'
    OBVIOUS
  <1>1. ASSUME NEW u \in Turns,
               row'[u] = row[u], text'[u] = text[u],
               pending'[u] = pending[u] \/ pending'[u] = << >>
        PROVE  OrderOK(u)'
    BY <1>1 DEF OrderInv, OrderOK
  <1>2. CASE ProcessStep
    <2> SUFFICES ASSUME NEW u \in Turns
                 PROVE  OrderOK(u)'
      BY DEF OrderInv
    <2>1. CASE Shutdown \/ Restart \/ ProcessEnds
      BY <2>1, <1>1 DEF Shutdown, Restart, ProcessEnds, tasks, store
    <2>2. CASE DrainCancels
      <3>1. CASE flush[u] = "idle"
        BY <2>2, <3>1, <1>1 DEF DrainCancels, store
      <3>2. CASE flush[u] # "idle"
        <4>1. pending[u] \in Seq(Nat) /\ pending[u] # << >>
          BY <3>2 DEF LifeInv, LifeOK, TypeOK
        <4>2. pending'[u] = SubSeq(pending[u], 1, 1) /\ row' = row /\ text' = text
          BY <2>2, <3>2 DEF DrainCancels, store
        <4>3. Len(pending'[u]) = 1 /\ pending'[u][1] = pending[u][1]
          BY <4>1, <4>2
        <4>4. QED
          BY <4>1, <4>2, <4>3 DEF OrderInv, OrderOK
      <3>3. QED
        BY <3>1, <3>2
    <2>3. QED
      BY <1>2, <2>1, <2>2 DEF ProcessStep
  <1>3. ASSUME NEW t \in Turns, TurnStep(t)
        PROVE  OrderInv'
    <2>1. ASSUME NEW u \in Turns, u # t
          PROVE  OrderOK(u)'
      BY <1>3, <2>1, <1>1, OthersSame DEF Same
    <2>2. OrderOK(t)'
      <3> LifeOK(t) /\ OrderOK(t)
        BY DEF LifeInv, OrderInv
      <3>1. ASSUME NEW c \in Chats, Begin(t, c)
            PROVE  OrderOK(t)'
        BY <3>1, <1>1 DEF Begin, store
      <3>2. ASSUME NEW flushNow \in BOOLEAN, Produce(t, flushNow)
            PROVE  OrderOK(t)'
        <4>1. /\ pending[t] \in Seq(Nat) /\ text[t] \in Nat
              /\ text'[t] = text[t] + 1 /\ row' = row
              /\ pending'[t] \in {pending[t], Append(pending[t], text[t] + 1)}
              /\ row[t].content \in Nat
          BY <3>2 DEF Produce, TypeOK, store
        <4>2. CASE pending'[t] = pending[t]
          BY <4>1, <4>2, SMTT(30) DEF OrderOK
        <4>3. CASE pending'[t] = Append(pending[t], text[t] + 1)
          <5>1. /\ Len(pending'[t]) = Len(pending[t]) + 1
                /\ pending'[t][Len(pending[t]) + 1] = text[t] + 1
                /\ \A i \in 1..Len(pending[t]) :
                     pending'[t][i] = pending[t][i] /\ pending[t][i] \in Nat
            BY <4>1, <4>3
          <5>2. \A i \in 1..Len(pending'[t]) :
                  i \in 1..Len(pending[t]) \/ i = Len(pending[t]) + 1
            BY <5>1, <4>1
          <5>3. ASSUME NEW i \in 1..Len(pending'[t])
                PROVE  row[t].content <= pending'[t][i] /\ pending'[t][i] <= text[t] + 1
            <6>1. CASE i \in 1..Len(pending[t])
              <7>1. row[t].content <= pending[t][i] /\ pending[t][i] <= text[t]
                BY <6>1 DEF OrderOK
              <7>2. pending'[t][i] = pending[t][i] /\ pending[t][i] \in Nat
                BY <5>1, <6>1
              <7>3. text[t] \in Nat
                BY <4>1
              <7>4. QED
                BY <7>1, <7>2, <7>3
            <6>2. CASE i = Len(pending[t]) + 1
              <7>1. pending'[t][i] = text[t] + 1
                BY <5>1, <6>2
              <7>2. row[t].content <= text[t] /\ text[t] \in Nat /\ row[t].content \in Nat
                BY <4>1 DEF OrderOK
              <7>3. QED
                BY <7>1, <7>2
            <6>3. QED
              BY <5>2, <6>1, <6>2
          <5>4. ASSUME NEW i \in 1..Len(pending'[t]), NEW j \in 1..Len(pending'[t]), i < j
                PROVE  pending'[t][i] <= pending'[t][j]
            <6>1. i \in 1..Len(pending[t])
              BY <4>1, <5>1, <5>4
            <6>2. CASE j \in 1..Len(pending[t])
              BY <5>1, <5>4, <6>1, <6>2 DEF OrderOK
            <6>3. CASE j = Len(pending[t]) + 1
              <7>1. pending'[t][i] <= text[t] + 1
                BY <5>3
              <7>2. pending'[t][j] = text[t] + 1
                BY <5>1, <6>3
              <7>3. QED
                BY <7>1, <7>2
            <6>4. QED
              BY <5>2, <6>2, <6>3
          <5>5. QED
            BY <4>1, <5>3, <5>4 DEF OrderOK
        <4>4. QED
          BY <4>1, <4>2, <4>3
      <3>3. ASSUME NEW s \in Outcomes, EndTurn(t, s)
            PROVE  OrderOK(t)'
        BY <3>3, <1>1 DEF EndTurn, store
      <3>4. CASE InsertStep(t)
        <4>1. CASE InsertExecutes(t) \/ InsertFails(t)
          BY <4>1, <1>1 DEF InsertExecutes, InsertFails, store
        <4>2. CASE InsertCommits(t)
          <5>1. row'[t].content = row[t].content /\ text' = text /\ pending' = pending
            BY <4>2 DEF InsertCommits, TypeOK, LifeOK
          <5>2. QED
            BY <5>1 DEF OrderOK
        <4>3. QED
          BY <3>4, <4>1, <4>2 DEF InsertStep
      <3>5. CASE FlushStep(t)
        <4>1. CASE FlushAsks(t) \/ FlushExecutes(t)
          BY <4>1, <1>1 DEF FlushAsks, FlushExecutes, store
        <4>2. CASE FlushCommits(t) \/ FlushFails(t)
          <5>1. /\ pending[t] \in Seq(Nat) /\ pending[t] # << >>
                /\ pending'[t] = Tail(pending[t]) /\ text' = text
            BY <4>2, FlushLeft
          <5>2. /\ Len(pending'[t]) = Len(pending[t]) - 1
                /\ \A i \in 1..Len(pending'[t]) :
                     i + 1 \in 1..Len(pending[t]) /\ pending'[t][i] = pending[t][i + 1]
            BY <5>1
          <5>3. row'[t].content \in {row[t].content, pending[t][1]}
            BY <4>2, FlushLeft DEF TypeOK
          <5>4. QED
            BY <5>1, <5>2, <5>3 DEF OrderOK, TypeOK
        <4>3. QED
          BY <3>5, <4>1, <4>2 DEF FlushStep
      <3>6. CASE FinalStep(t)
        <4>1. CASE FinalAsks(t) \/ FinalGivesUp(t) \/ FinalExecutes(t) \/ FinalFails(t)
          BY <4>1, <1>1 DEF FinalAsks, FinalGivesUp, FinalExecutes, FinalFails, store
        <4>2. CASE FinalCommits(t)
          <5>1. row'[t].content = text[t] /\ text' = text /\ pending'[t] = << >>
            BY <4>2 DEF FinalCommits, TypeOK, LifeOK
          <5>2. QED
            BY <5>1 DEF OrderOK, TypeOK
        <4>3. QED
          BY <3>6, <4>1, <4>2 DEF FinalStep
      <3>7. QED
        BY <1>3, <3>1, <3>2, <3>3, <3>4, <3>5, <3>6 DEF TurnStep
    <2>3. QED
      BY <2>1, <2>2 DEF OrderInv
  <1>4. QED
    BY <1>2, <1>3, NextIsAStep

-----------------------------------------------------------------------------
(* The count and the leaf of a conversation. *)

\* Settled rows change in one step only.
LEMMA SettledStep ==
  ASSUME TypeOK, LifeInv, Next, ~ \E t \in Turns : FinalCommits(t)
  PROVE  /\ UNCHANGED <<leaf, count>>
         /\ \A c \in Chats : SettledIn(c)' = SettledIn(c)
  <1>1. CASE ProcessStep
    BY <1>1 DEF ProcessStep, Shutdown, DrainCancels, ProcessEnds, Restart, tasks, store,
                SettledIn, Settled
  <1>2. ASSUME NEW t \in Turns, TurnStep(t)
        PROVE  /\ UNCHANGED <<leaf, count>>
               /\ \A c \in Chats : SettledIn(c)' = SettledIn(c)
    <2>1. ASSUME NEW u \in Turns, u # t
          PROVE  chat'[u] = chat[u] /\ row'[u] = row[u]
      BY <1>2, <2>1, OthersSame DEF Same
    <2> DEFINE Quiet ==
          /\ UNCHANGED <<leaf, count>>
          /\ Settled(t)' <=> Settled(t)
          /\ Settled(t) => chat'[t] = chat[t]
    <2>2. Quiet
      <3> LifeOK(t)
        BY DEF LifeInv
      <3> USE DEF LifeOK, Settled, Outcomes
      <3>1. ASSUME NEW c \in Chats, Begin(t, c)
            PROVE  Quiet
        BY <3>1 DEF Begin, TypeOK, store
      <3>2. ASSUME NEW flushNow \in BOOLEAN, Produce(t, flushNow)
            PROVE  Quiet
        BY <3>2 DEF Produce, store
      <3>3. ASSUME NEW s \in Outcomes, EndTurn(t, s)
            PROVE  Quiet
        BY <3>3 DEF EndTurn, store
      <3>4. CASE InsertStep(t)
        <4>1. CASE InsertExecutes(t) \/ InsertFails(t)
          BY <4>1 DEF InsertExecutes, InsertFails, store
        <4>2. CASE InsertCommits(t)
          BY <4>2 DEF InsertCommits, TypeOK
        <4>3. QED
          BY <3>4, <4>1, <4>2 DEF InsertStep
      <3>5. CASE FlushStep(t)
        <4>1. CASE FlushAsks(t) \/ FlushExecutes(t)
          BY <4>1 DEF FlushAsks, FlushExecutes, store
        <4>2. CASE FlushCommits(t) \/ FlushFails(t)
          <5>1. UNCHANGED <<chat, leaf, count>>
            BY <4>2, FlushLeft
          <5>2. row'[t].status = row[t].status
            <6>1. row'[t] \in {row[t], [row[t] EXCEPT !.content = Head(pending[t])]}
              BY <4>2, FlushLeft
            <6>2. QED
              BY <6>1 DEF TypeOK
          <5>3. QED
            BY <5>1, <5>2
        <4>3. QED
          BY <3>5, <4>1, <4>2 DEF FlushStep
      <3>6. CASE FinalStep(t)
        BY <3>6 DEF FinalStep, FinalAsks, FinalGivesUp, FinalExecutes, FinalFails, store
      <3>7. QED
        BY <1>2, <3>1, <3>2, <3>3, <3>4, <3>5, <3>6 DEF TurnStep
    <2>3. QED
      BY <2>1, <2>2 DEF SettledIn, Settled
  <1>3. QED
    BY <1>1, <1>2, NextIsAStep

LEMMA TallyStep == TypeOK /\ LifeInv /\ TallyInv /\ Next => TallyInv'
  <1> SUFFICES ASSUME TypeOK, LifeInv, TallyInv, Next
               PROVE  TallyInv'
    OBVIOUS
  <1>1. CASE ~ \E t \in Turns : FinalCommits(t)
    BY <1>1, SettledStep DEF TallyInv, TallyOK
  <1>2. ASSUME NEW t \in Turns, FinalCommits(t)
        PROVE  TallyInv'
    <2>1. chat[t] \in Chats /\ ~Settled(t) /\ outcome[t] \in Outcomes
      BY <1>2 DEF FinalCommits, LifeInv, LifeOK, TypeOK
    <2>2. /\ leaf' = [leaf EXCEPT ![chat[t]] = t]
          /\ count' = [count EXCEPT ![chat[t]] = @ + 2]
          /\ chat' = chat
          /\ row' = [row EXCEPT ![t] = [status |-> outcome[t], content |-> text[t]]]
      BY <1>2 DEF FinalCommits
    <2>3. ASSUME NEW c \in Chats, c # chat[t]
          PROVE  TallyOK(c)'
      <3>1. SettledIn(c)' = SettledIn(c)
        BY <2>2, <2>3 DEF SettledIn, Settled, TypeOK
      <3>2. leaf'[c] = leaf[c] /\ count'[c] = count[c]
        BY <2>2, <2>3 DEF TypeOK
      <3>3. QED
        BY <3>1, <3>2 DEF TallyInv, TallyOK
    <2>4. TallyOK(chat[t])'
      <3> DEFINE c == chat[t]
      <3>1. SettledIn(c)' = SettledIn(c) \cup {t} /\ t \notin SettledIn(c)
        BY <2>1, <2>2 DEF SettledIn, Settled, TypeOK
      <3>2. /\ IsFiniteSet(SettledIn(c) \cup {t})
            /\ Cardinality(SettledIn(c) \cup {t}) = Cardinality(SettledIn(c)) + 1
        BY <2>1, <3>1, FS_AddElement DEF TallyInv, TallyOK
      <3>3. leaf'[c] = t /\ count'[c] = count[c] + 2
        BY <2>1, <2>2 DEF TypeOK
      <3>4. Cardinality(SettledIn(c)) \in Nat /\ count[c] = 2 * Cardinality(SettledIn(c))
        BY <2>1, FS_CardinalityType DEF TallyInv, TallyOK
      <3>5. t # None
        BY StoreAssumption
      <3>6. c' = c
        BY <2>2
      <3>7. QED
        BY <3>1, <3>2, <3>3, <3>4, <3>5, <3>6 DEF TallyOK
    <2>5. QED
      BY <2>3, <2>4, <2>2 DEF TallyInv
  <1>3. QED
    BY <1>1, <1>2

-----------------------------------------------------------------------------
(* The process's lock, on SQLite. *)

Jobs == Kinds \X Turns

Enqueued(k, t) ==
  /\ dblock' = Append(dblock, <<k, t>>)
  /\ ~Wants(k, t)
  /\ k = "insert" => ~Wants("flush", t)
  /\ \A j \in Kinds, u \in Turns : Wants(j, u)' <=> Wants(j, u) \/ <<j, u>> = <<k, t>>
  /\ \A j \in Kinds, u \in Turns : Executing(j, u)' => Executing(j, u)

Dequeued(k, t) ==
  /\ dblock # << >> /\ dblock[1] = <<k, t>>
  /\ dblock' = Tail(dblock)
  /\ \A j \in Kinds, u \in Turns : Wants(j, u)' <=> Wants(j, u) /\ <<j, u>> # <<k, t>>
  /\ \A j \in Kinds, u \in Turns :
       Executing(j, u)' => Executing(j, u) /\ <<j, u>> # <<k, t>>

Kept ==
  /\ dblock' = dblock
  /\ \A j \in Kinds, u \in Turns : Wants(j, u)' <=> Wants(j, u)
  /\ \A j \in Kinds, u \in Turns :
       Executing(j, u)' => Executing(j, u) \/ (dblock # << >> /\ dblock[1] = <<j, u>>)

Emptied ==
  /\ dblock' = << >>
  /\ \A j \in Kinds, u \in Turns : ~Wants(j, u)' /\ ~Executing(j, u)'

\* A step of one turn changes what that turn wants and executes, and nothing else.
LEMMA OthersWantTheSame ==
  ASSUME TypeOK, NEW t \in Turns, TurnStep(t), NEW u \in Turns, u # t, NEW k \in Kinds
  PROVE  (Wants(k, u)' <=> Wants(k, u)) /\ (Executing(k, u)' <=> Executing(k, u))
  BY OthersSame DEF Same, Wants, Executing

LEMMA QueueShape ==
  ASSUME TypeOK, LifeInv, QueueInv, IsSqlite, Next
  PROVE  Kept \/ Emptied \/ \E k \in Kinds, t \in Turns : Enqueued(k, t) \/ Dequeued(k, t)
  <1>1. CASE ProcessStep
    <2>1. CASE Shutdown \/ Restart
      BY <2>1 DEF Shutdown, Restart, Kept, Wants, Executing, tasks
    <2>2. CASE DrainCancels
      BY <2>2 DEF DrainCancels, Kept, Wants, Executing
    <2>3. CASE ProcessEnds
      BY <2>3 DEF ProcessEnds, Emptied, Wants, Executing
    <2>4. QED
      BY <1>1, <2>1, <2>2, <2>3 DEF ProcessStep
  <1>2. ASSUME NEW t \in Turns, TurnStep(t)
        PROVE  Kept \/ \E k \in Kinds : Enqueued(k, t) \/ Dequeued(k, t)
    <2> LifeOK(t)
      BY DEF LifeInv
    <2>1. ASSUME NEW u \in Turns, u # t, NEW k \in Kinds
          PROVE  (Wants(k, u)' <=> Wants(k, u)) /\ (Executing(k, u)' => Executing(k, u))
      BY <1>2, <2>1, OthersWantTheSame
    <2>2. ASSUME dblock' = dblock,
                 \A k \in Kinds : Wants(k, t)' <=> Wants(k, t),
                 \A k \in Kinds :
                   Executing(k, t)' => Executing(k, t) \/ (dblock # << >> /\ dblock[1] = <<k, t>>)
          PROVE  Kept
      BY <2>1, <2>2 DEF Kept
    <2>3. ASSUME NEW k \in Kinds, Ask(k, t), ~Wants(k, t), k = "insert" => ~Wants("flush", t),
                 \A j \in Kinds : Wants(j, t)' <=> Wants(j, t) \/ j = k,
                 \A j \in Kinds : Executing(j, t)' => Executing(j, t)
          PROVE  Enqueued(k, t)
      BY <2>1, <2>3 DEF Enqueued, Ask
    <2>4. ASSUME NEW k \in Kinds, Granted(k, t), Release,
                 \A j \in Kinds : Wants(j, t)' <=> Wants(j, t) /\ j # k,
                 \A j \in Kinds : Executing(j, t)' => Executing(j, t) /\ j # k
          PROVE  Dequeued(k, t)
      BY <2>1, <2>4 DEF Dequeued, Granted, Release
    <2> USE DEF Wants, Executing, TypeOK
    <2>5. ASSUME NEW c \in Chats, Begin(t, c)
          PROVE  Enqueued("insert", t)
      BY <2>5, <2>3 DEF Begin, Kinds, LifeOK
    <2>6. ASSUME NEW flushNow \in BOOLEAN, Produce(t, flushNow)
          PROVE  Kept
      BY <2>6, <2>2 DEF Produce, Kinds
    <2>7. ASSUME NEW s \in Outcomes, EndTurn(t, s)
          PROVE  Kept
      BY <2>7, <2>2 DEF EndTurn, Kinds, LifeOK
    <2>8. CASE InsertStep(t)
      <3>1. CASE InsertExecutes(t)
        BY <3>1, <2>2 DEF InsertExecutes, Kinds, Granted
      <3>2. CASE InsertCommits(t)
        <4>1. Granted("insert", t)
          BY <3>2, ExecutingHolds DEF InsertCommits, Kinds
        <4>2. QED
          BY <3>2, <4>1, <2>4 DEF InsertCommits, Kinds
      <3>3. CASE InsertFails(t)
        BY <3>3, <2>4 DEF InsertFails, Kinds
      <3>4. QED
        BY <2>8, <3>1, <3>2, <3>3 DEF InsertStep, Kinds
    <2>9. CASE FlushStep(t)
      <3>1. CASE FlushAsks(t)
        BY <3>1, <2>3 DEF FlushAsks, Kinds
      <3>2. CASE FlushExecutes(t)
        BY <3>2, <2>2 DEF FlushExecutes, Kinds, Granted
      <3>3. CASE FlushCommits(t) \/ FlushFails(t)
        <4>1. Granted("flush", t) /\ FlushLeaves(t)
          BY <3>3, ExecutingHolds DEF FlushCommits, FlushFails, Kinds
        <4>2. QED
          BY <4>1, <2>4 DEF FlushLeaves, Kinds
      <3>4. QED
        BY <2>9, <3>1, <3>2, <3>3 DEF FlushStep, Kinds
    <2>10. CASE FinalStep(t)
      <3>1. CASE FinalAsks(t)
        BY <3>1, <2>3 DEF FinalAsks, Kinds
      <3>2. CASE FinalGivesUp(t)
        BY <3>2, <2>2 DEF FinalGivesUp, Kinds
      <3>3. CASE FinalExecutes(t)
        BY <3>3, <2>2 DEF FinalExecutes, Kinds, Granted
      <3>4. CASE FinalCommits(t)
        <4>1. Granted("final", t)
          BY <3>4, ExecutingHolds DEF FinalCommits, Kinds
        <4>2. QED
          BY <3>4, <4>1, <2>4 DEF FinalCommits, Kinds
      <3>5. CASE FinalFails(t)
        BY <3>5, <2>4 DEF FinalFails, Kinds
      <3>6. QED
        BY <2>10, <3>1, <3>2, <3>3, <3>4, <3>5 DEF FinalStep, Kinds
    <2>11. QED
      BY <1>2, <2>5, <2>6, <2>7, <2>8, <2>9, <2>10 DEF TurnStep, Kinds
  <1>3. QED
    BY <1>1, <1>2, NextIsAStep

\* The part of QueueInv that is about the queue alone.
QueueOK ==
  /\ \A i \in 1..Len(dblock), k \in Kinds, t \in Turns :
       dblock[i] = <<k, t>> => Wants(k, t)
  /\ \A i, j \in 1..Len(dblock) : dblock[i] = dblock[j] => i = j
  /\ \A k \in Kinds, t \in Turns :
       Wants(k, t) => \E i \in 1..Len(dblock) : dblock[i] = <<k, t>>
  /\ \A k \in Kinds, t \in Turns :
       Executing(k, t) => dblock # << >> /\ dblock[1] = <<k, t>>
  /\ \A i, j \in 1..Len(dblock) :
       dblock[i][1] = "insert" /\ dblock[j] = <<"flush", dblock[i][2]>> => i < j

\* A step that leaves the queue alone leaves it as it should be.
LEMMA KeptQueue ==
  ASSUME QueueOK, Kept
  PROVE  QueueOK'
  <1> DEFINE n == Len(dblock)
  <1>1. dblock' = dblock
    BY DEF Kept
  <1>2. ASSUME NEW k \in Kinds, NEW t \in Turns
        PROVE  /\ Wants(k, t)' <=> Wants(k, t)
               /\ Executing(k, t)' => dblock # << >> /\ dblock[1] = <<k, t>>
    BY DEF Kept, QueueOK
  <1>3. ASSUME NEW i \in 1..n, NEW k \in Kinds, NEW t \in Turns, dblock'[i] = <<k, t>>
        PROVE  Wants(k, t)'
    BY <1>1, <1>2, <1>3 DEF QueueOK
  <1>4. ASSUME NEW k \in Kinds, NEW t \in Turns, Wants(k, t)'
        PROVE  \E i \in 1..n : dblock'[i] = <<k, t>>
    BY <1>1, <1>2, <1>4 DEF QueueOK
  <1>5. \A i, j \in 1..n :
          /\ dblock'[i] = dblock'[j] => i = j
          /\ dblock'[i][1] = "insert" /\ dblock'[j] = <<"flush", dblock'[i][2]>> => i < j
    BY <1>1 DEF QueueOK
  <1>6. Len(dblock') = n
    BY <1>1
  <1>7. QED
    BY <1>1, <1>2, <1>3, <1>4, <1>5, <1>6 DEF QueueOK

LEMMA QueueOKStep ==
  ASSUME TypeOK, LifeInv, QueueInv, IsSqlite, Next
  PROVE  QueueOK'
  <1> DEFINE n == Len(dblock)
  <1>1. QueueOK
    BY DEF QueueInv, QueueOK
  <1>2. dblock \in Seq(Jobs) /\ n \in Nat
    BY DEF TypeOK, Jobs
  <1>3. \A i \in 1..n : dblock[i] = <<dblock[i][1], dblock[i][2]>>
                        /\ dblock[i][1] \in Kinds /\ dblock[i][2] \in Turns
    BY <1>2 DEF Jobs
  <1>4. CASE Kept
    BY <1>1, <1>4, KeptQueue
  <1>5. CASE Emptied
    BY <1>5 DEF Emptied, QueueOK
  <1>6. ASSUME NEW k \in Kinds, NEW t \in Turns, Enqueued(k, t)
        PROVE  QueueOK'
    <2>1. /\ dblock' = Append(dblock, <<k, t>>)
          /\ Len(dblock') = n + 1
          /\ \A i \in 1..n : dblock'[i] = dblock[i]
          /\ dblock'[n + 1] = <<k, t>>
          /\ \A i \in 1..(n + 1) : i \in 1..n \/ i = n + 1
      BY <1>2, <1>6 DEF Enqueued
    <2>2. \A i \in 1..n : dblock[i] # <<k, t>>
      BY <1>1, <1>3, <1>6 DEF Enqueued, QueueOK
    <2>3. ASSUME NEW i \in 1..(n + 1), NEW j \in Kinds, NEW u \in Turns, dblock'[i] = <<j, u>>
          PROVE  Wants(j, u)'
      <3>1. CASE i \in 1..n
        BY <1>1, <1>6, <2>1, <2>3, <3>1 DEF Enqueued, QueueOK
      <3>2. CASE i = n + 1
        BY <1>6, <2>1, <2>3, <3>2 DEF Enqueued
      <3>3. QED
        BY <2>1, <3>1, <3>2
    <2>4. ASSUME NEW i \in 1..(n + 1), NEW j \in 1..(n + 1), dblock'[i] = dblock'[j]
          PROVE  i = j
      BY <1>1, <2>1, <2>2, <2>4 DEF QueueOK
    <2>5. ASSUME NEW j \in Kinds, NEW u \in Turns, Wants(j, u)'
          PROVE  \E i \in 1..(n + 1) : dblock'[i] = <<j, u>>
      <3>1. CASE Wants(j, u)
        <4>1. PICK i \in 1..n : dblock[i] = <<j, u>>
          BY <1>1, <3>1 DEF QueueOK
        <4>2. i \in 1..(n + 1)
          BY <1>2, <4>1
        <4>3. QED
          BY <2>1, <4>1, <4>2
      <3>2. CASE <<j, u>> = <<k, t>>
        <4>1. n + 1 \in 1..(n + 1)
          BY <1>2
        <4>2. QED
          BY <2>1, <3>2, <4>1
      <3>3. QED
        BY <1>6, <2>5, <3>1, <3>2 DEF Enqueued
    <2>6. ASSUME NEW j \in Kinds, NEW u \in Turns, Executing(j, u)'
          PROVE  dblock' # << >> /\ dblock'[1] = <<j, u>>
      <3>1. dblock # << >> /\ dblock[1] = <<j, u>>
        BY <1>1, <1>6, <2>6 DEF Enqueued, QueueOK
      <3>2. 1 \in 1..n
        BY <3>1, <1>2
      <3>3. QED
        BY <3>1, <3>2, <2>1
    <2>7. ASSUME NEW i \in 1..(n + 1), NEW j \in 1..(n + 1),
                 dblock'[i][1] = "insert", dblock'[j] = <<"flush", dblock'[i][2]>>
          PROVE  i < j
      <3>1. CASE i \in 1..n /\ j \in 1..n
        BY <1>1, <2>1, <2>7, <3>1 DEF QueueOK
      <3>2. CASE i \in 1..n /\ j = n + 1
        BY <1>2, <3>2
      <3>3. CASE i = n + 1 /\ j = n + 1
        BY <2>1, <2>7, <3>3
      <3>4. CASE i = n + 1 /\ j \in 1..n
        <4>1. k = "insert" /\ dblock[j] = <<"flush", t>>
          BY <2>1, <2>7, <3>4
        <4>2. Wants("flush", t)
          BY <1>1, <3>4, <4>1 DEF QueueOK, Kinds
        <4>3. QED
          BY <1>6, <4>1, <4>2 DEF Enqueued
      <3>5. QED
        BY <2>1, <3>1, <3>2, <3>3, <3>4
    <2>8. Len(dblock') = n + 1
      BY <2>1
    <2>9. QED
      BY <2>8, <2>3, <2>4, <2>5, <2>6, <2>7, ZenonT(60) DEF QueueOK
  <1>7. ASSUME NEW k \in Kinds, NEW t \in Turns, Dequeued(k, t)
        PROVE  QueueOK'
    <2>1. /\ n > 0 /\ dblock[1] = <<k, t>>
          /\ Len(dblock') = n - 1
          /\ \A i \in 1..(n - 1) : i + 1 \in 1..n /\ dblock'[i] = dblock[i + 1]
          /\ \A i \in 1..n : i = 1 \/ i - 1 \in 1..(n - 1)
          /\ 1 \in 1..n
      BY <1>2, <1>7 DEF Dequeued
    <2>2. ASSUME NEW i \in 1..(n - 1)
          PROVE  dblock'[i] # <<k, t>>
      <3>1. i + 1 # 1 /\ i + 1 \in 1..n /\ dblock'[i] = dblock[i + 1]
        BY <2>1, <1>2
      <3>2. QED
        BY <1>1, <2>1, <3>1 DEF QueueOK
    <2>3. ASSUME NEW i \in 1..(n - 1), NEW j \in Kinds, NEW u \in Turns, dblock'[i] = <<j, u>>
          PROVE  Wants(j, u)'
      <3>1. dblock[i + 1] = <<j, u>> /\ i + 1 \in 1..n
        BY <2>1, <2>3
      <3>2. Wants(j, u)
        BY <1>1, <3>1 DEF QueueOK
      <3>3. QED
        BY <1>7, <2>2, <2>3, <3>2 DEF Dequeued
    <2>4. ASSUME NEW i \in 1..(n - 1), NEW j \in 1..(n - 1), dblock'[i] = dblock'[j]
          PROVE  i = j
      <3>1. i + 1 = j + 1
        BY <1>1, <2>1, <2>4 DEF QueueOK
      <3>2. QED
        BY <3>1, <1>2
    <2>5. ASSUME NEW j \in Kinds, NEW u \in Turns, Wants(j, u)'
          PROVE  \E i \in 1..(n - 1) : dblock'[i] = <<j, u>>
      <3>1. Wants(j, u) /\ <<j, u>> # <<k, t>>
        BY <1>7, <2>5 DEF Dequeued
      <3>2. PICK i \in 1..n : dblock[i] = <<j, u>>
        BY <1>1, <3>1 DEF QueueOK
      <3>3. i # 1
        BY <2>1, <3>1, <3>2
      <3>4. i - 1 \in 1..(n - 1) /\ (i - 1) + 1 = i
        BY <2>1, <3>3, <1>2
      <3>5. QED
        BY <2>1, <3>2, <3>4
    <2>6. ASSUME NEW j \in Kinds, NEW u \in Turns, Executing(j, u)'
          PROVE  FALSE
      <3>1. Executing(j, u) /\ <<j, u>> # <<k, t>>
        BY <1>7, <2>6 DEF Dequeued
      <3>2. QED
        BY <1>1, <2>1, <3>1 DEF QueueOK
    <2>7. ASSUME NEW i \in 1..(n - 1), NEW j \in 1..(n - 1),
                 dblock'[i][1] = "insert", dblock'[j] = <<"flush", dblock'[i][2]>>
          PROVE  i < j
      <3>1. i + 1 < j + 1
        BY <1>1, <2>1, <2>7 DEF QueueOK
      <3>2. QED
        BY <3>1, <1>2
    <2>8. QED
      BY <2>1, <2>3, <2>4, <2>5, <2>6, <2>7 DEF QueueOK
  <1>8. QED
    BY <1>4, <1>5, <1>6, <1>7, QueueShape

\* A flush that runs while its row's insert is on its way would be behind it in the queue.
LEMMA FlushStepFindsRow ==
  ASSUME TypeOK, LifeInv, QueueInv, IsSqlite, Next
  PROVE  FlushesFindTheirRow'
  <1> SUFFICES ASSUME NEW u \in Turns, flush'[u] = "missed"
               PROVE  insert'[u] = "failed"
    BY DEF FlushesFindTheirRow
  <1> LifeOK(u)
    BY DEF LifeInv
  <1>1. flush[u] = "missed" => insert[u] = "failed"
    BY DEF QueueInv, FlushesFindTheirRow
  <1>2. CASE ProcessStep
    BY <1>1, <1>2, SMTT(30) DEF ProcessStep, Shutdown, DrainCancels, ProcessEnds, Restart, tasks, LifeOK,
                      TypeOK
  <1>3. ASSUME NEW t \in Turns, TurnStep(t), u # t
        PROVE  insert'[u] = "failed"
    BY <1>1, <1>3, OthersSame DEF Same
  <1>4. ASSUME TurnStep(u)
        PROVE  insert'[u] = "failed"
    <2> USE DEF TypeOK
    <2>1. ASSUME NEW c \in Chats, Begin(u, c)
          PROVE  insert'[u] = "failed"
      BY <1>1, <2>1 DEF Begin, LifeOK
    <2>2. ASSUME NEW flushNow \in BOOLEAN, Produce(u, flushNow)
          PROVE  insert'[u] = "failed"
      BY <1>1, <2>2 DEF Produce
    <2>3. ASSUME NEW s \in Outcomes, EndTurn(u, s)
          PROVE  insert'[u] = "failed"
      BY <1>1, <2>3 DEF EndTurn
    <2>4. CASE InsertStep(u)
      BY <1>1, <2>4 DEF InsertStep, InsertExecutes, InsertCommits, InsertFails
    <2>5. CASE FlushStep(u)
      <3>1. CASE FlushExecutes(u) /\ row[u].status = "absent"
        <4>1. insert[u] \notin {"none", "committed"}
          BY <3>1 DEF FlushExecutes, LifeOK
        <4>2. dblock # << >> /\ dblock[1] = <<"flush", u>>
          BY <3>1 DEF FlushExecutes, Granted
        <4>3. ~Wants("insert", u)
          <5>1. SUFFICES ASSUME Wants("insert", u)
                         PROVE  FALSE
            OBVIOUS
          <5>2. PICK i \in 1..Len(dblock) : dblock[i] = <<"insert", u>>
            BY <5>1 DEF QueueInv, Kinds
          <5>3. 1 \in 1..Len(dblock) /\ Len(dblock) \in Nat
            BY <4>2, SMTT(30)
          <5>4. dblock[i][1] = "insert" /\ dblock[1] = <<"flush", dblock[i][2]>>
            BY <4>2, <5>2
          <5>5. i < 1
            BY <5>2, <5>3, <5>4 DEF QueueInv
          <5>6. QED
            BY <5>3, <5>5
        <4>4. insert[u] = "failed"
          BY <4>1, <4>3 DEF Wants
        <4>5. QED
          BY <3>1, <4>4 DEF FlushExecutes
      <3>2. CASE FlushAsks(u) \/ (FlushExecutes(u) /\ row[u].status # "absent")
        BY <3>2 DEF FlushAsks, FlushExecutes
      <3>3. CASE FlushCommits(u) \/ FlushFails(u)
        BY <3>3, FlushLeft
      <3>4. QED
        BY <2>5, <3>1, <3>2, <3>3 DEF FlushStep
    <2>6. CASE FinalStep(u)
      BY <1>1, <2>6 DEF FinalStep, FinalAsks, FinalGivesUp, FinalExecutes, FinalCommits, FinalFails
    <2>7. QED
      BY <1>4, <2>1, <2>2, <2>3, <2>4, <2>5, <2>6 DEF TurnStep
  <1>5. QED
    BY <1>2, <1>3, <1>4, NextIsAStep

LEMMA QueueStep == TypeOK /\ LifeInv /\ QueueInv /\ Next => QueueInv'
  BY QueueOKStep, FlushStepFindsRow DEF QueueOK, QueueInv

-----------------------------------------------------------------------------
(* The theorems. *)

LEMMA InitInvariant == Init => IInv
  <1> SUFFICES ASSUME Init
               PROVE  IInv
    OBVIOUS
  <1>1. TypeOK
    BY InitTypes
  <1>2. LifeInv /\ OrderInv
    BY StoreAssumption DEF Init, LifeInv, LifeOK, OrderInv, OrderOK, Settled, Outcomes
  <1>3. TallyInv
    <2>1. \A c \in Chats : SettledIn(c) = {}
      BY DEF Init, SettledIn, Settled, Outcomes
    <2>2. IsFiniteSet({}) /\ Cardinality({}) = 0
      BY FS_EmptySet
    <2>3. \A c \in Chats : leaf[c] = None /\ count[c] = 0
      BY DEF Init
    <2>4. QED
      BY <2>1, <2>2, <2>3 DEF TallyInv, TallyOK
  <1>4. QueueInv
    BY DEF Init, QueueInv, Wants, Executing, FlushesFindTheirRow
  <1>5. QED
    BY <1>1, <1>2, <1>3, <1>4 DEF IInv

LEMMA Inductive == IInv /\ [Next]_vars => IInv'
  <1> SUFFICES ASSUME IInv, [Next]_vars
               PROVE  IInv'
    OBVIOUS
  <1>1. CASE Next
    BY <1>1, TypeStep, LifeStep, OrderStep, TallyStep, QueueStep DEF IInv
  <1>2. CASE UNCHANGED vars
    <2> USE <1>2 DEF vars, tasks, store, IInv
    <2>1. TypeOK'
      BY DEF TypeOK
    <2>2. LifeInv' /\ OrderInv'
      BY DEF LifeInv, LifeOK, OrderInv, OrderOK, Settled
    <2>3. TallyInv'
      BY DEF TallyInv, TallyOK, SettledIn, Settled
    <2>4. QueueInv'
      <3>1. Kept
        BY DEF Kept, Wants, Executing
      <3>2. FlushesFindTheirRow' <=> FlushesFindTheirRow
        BY DEF FlushesFindTheirRow
      <3>3. QED
        BY <3>1, <3>2, KeptQueue DEF QueueInv, QueueOK
    <2>5. QED
      BY <2>1, <2>2, <2>3, <2>4
  <1>3. QED
    BY <1>1, <1>2

\* The strengthened invariant of the store is inductive: it holds of every reachable state.
THEOREM Invariance == Spec => []IInv
  BY InitInvariant, Inductive, PTL DEF Spec

\* Every variable keeps its type, through failures, cancellations and crashes.
THEOREM TypeCorrect == Spec => []TypeOK
  <1>1. IInv => TypeOK
    BY DEF IInv
  <1>2. QED
    BY <1>1, Invariance, PTL

\* A conversation counts two messages per settled answer and its leaf is one of them,
\* whatever failed, was cancelled or crashed (persistence.py: finalize).
THEOREM CountsMatch == Spec => []CountsMatchRows
  <1>1. IInv => CountsMatchRows
    BY DEF IInv, TallyInv, TallyOK, SettledIn, CountsMatchRows
  <1>2. QED
    BY <1>1, Invariance, PTL

\* On SQLite no two write transactions are ever open together (engine.py: write).
THEOREM Serialized == Spec => []WritesAreSerialized
  <1>1. IInv => WritesAreSerialized
    BY DEF IInv, QueueInv, WritesAreSerialized
  <1>2. QED
    BY <1>1, Invariance, PTL

\* On SQLite a flush never overtakes the insert of its row (persistence.py: _flush).
THEOREM FlushesFindRows == Spec => []FlushesFindTheirRow
  <1>1. IInv => FlushesFindTheirRow
    BY DEF IInv, QueueInv, FlushesFindTheirRow
  <1>2. QED
    BY <1>1, Invariance, PTL

-----------------------------------------------------------------------------
(* TurnStore implements MessageLife. *)

LEMMA LifeInit == Init => Life!Init
  BY DEF Init, Life!Init

LEMMA LifeSimulation == IInv /\ [Next]_vars => [Life!Next]_(Life!vars)
  <1> SUFFICES ASSUME IInv, [Next]_vars
               PROVE  [Life!Next]_(Life!vars)
    OBVIOUS
  <1> TypeOK /\ LifeInv /\ OrderInv
    BY DEF IInv
  <1>1. ASSUME UNCHANGED <<chat, text, row, leaf, count>>
        PROVE  UNCHANGED Life!vars
    BY <1>1 DEF Life!vars
  <1>2. CASE ProcessStep \/ UNCHANGED vars
    BY <1>1, <1>2 DEF ProcessStep, Shutdown, DrainCancels, ProcessEnds, Restart, tasks, store, vars
  <1>3. ASSUME NEW t \in Turns, TurnStep(t)
        PROVE  [Life!Next]_(Life!vars)
    <2> LifeOK(t) /\ OrderOK(t)
      BY DEF LifeInv, OrderInv
    <2>1. ASSUME NEW c \in Chats, Begin(t, c)
          PROVE  Life!Claim(t, c)
      BY <2>1 DEF Begin, store, LifeOK, Life!Claim
    <2>2. ASSUME NEW flushNow \in BOOLEAN, Produce(t, flushNow)
          PROVE  Life!Make(t)
      BY <2>2 DEF Produce, store, LifeOK, Settled, Life!Make, Life!Settled
    <2>3. ASSUME NEW s \in Outcomes, EndTurn(t, s)
          PROVE  UNCHANGED Life!vars
      BY <1>1, <2>3 DEF EndTurn, store
    <2>4. CASE InsertStep(t)
      <3>1. CASE InsertExecutes(t) \/ InsertFails(t)
        BY <1>1, <3>1 DEF InsertExecutes, InsertFails, store
      <3>2. CASE InsertCommits(t)
        <4>1. row[t].status = "absent" /\ row[t].content = 0 /\ chat[t] # None
          BY <3>2 DEF InsertCommits, LifeOK
        <4>2. [u \in Turns |-> row'[u].content] = [u \in Turns |-> row[u].content]
          BY <3>2, <4>1 DEF InsertCommits, TypeOK
        <4>3. [u \in Turns |-> row'[u].status]
                = [[u \in Turns |-> row[u].status] EXCEPT ![t] = "streaming"]
          BY <3>2 DEF InsertCommits, TypeOK
        <4>4. Life!Appear(t)
          BY <3>2, <4>1, <4>2, <4>3 DEF InsertCommits, Life!Appear
        <4>5. QED
          BY <4>4 DEF Life!Next
      <3>3. QED
        BY <2>4, <3>1, <3>2 DEF InsertStep
    <2>5. CASE FlushStep(t)
      <3>1. CASE FlushAsks(t) \/ FlushExecutes(t)
        BY <1>1, <3>1 DEF FlushAsks, FlushExecutes, store
      <3>2. CASE FlushCommits(t) \/ FlushFails(t)
        <4>1. UNCHANGED <<chat, text, leaf, count>>
          BY <3>2, FlushLeft
        <4>2. CASE row' = row
          BY <1>1, <4>1, <4>2
        <4>3. CASE flush[t] = "hit" /\ row' = [row EXCEPT ![t].content = Head(pending[t])]
          <5>1. pending[t] \in Seq(Nat) /\ pending[t] # << >>
            BY <3>2, FlushLeft
          <5>2. row[t].status = "streaming"
            BY <4>3, <5>1 DEF LifeOK, Settled, TypeOK
          <5>3. Head(pending[t]) = pending[t][1] /\ 1 \in 1..Len(pending[t])
            BY <5>1
          <5>4. row[t].content <= Head(pending[t]) /\ Head(pending[t]) <= text[t]
            BY <5>3 DEF OrderOK
          <5>5. [u \in Turns |-> row'[u].status] = [u \in Turns |-> row[u].status]
            BY <4>3 DEF TypeOK
          <5>6. [u \in Turns |-> row'[u].content]
                  = [[u \in Turns |-> row[u].content] EXCEPT ![t] = Head(pending[t])]
            BY <4>3 DEF TypeOK
          <5>7. Life!Save(t)
            BY <4>1, <5>2, <5>4, <5>5, <5>6 DEF Life!Save
          <5>8. QED
            BY <5>7 DEF Life!Next
        <4>4. QED
          BY <3>2, <4>2, <4>3 DEF FlushCommits, FlushFails
      <3>3. QED
        BY <2>5, <3>1, <3>2 DEF FlushStep
    <2>6. CASE FinalStep(t)
      <3>1. CASE FinalAsks(t) \/ FinalGivesUp(t) \/ FinalExecutes(t) \/ FinalFails(t)
        BY <1>1, <3>1 DEF FinalAsks, FinalGivesUp, FinalExecutes, FinalFails, store
      <3>2. CASE FinalCommits(t)
        <4>1. row[t].status = "streaming" /\ outcome[t] \in Outcomes /\ chat[t] \in Chats
          BY <3>2 DEF FinalCommits, LifeOK, Settled, TypeOK
        <4> PICK s \in Outcomes : s = outcome[t]
          BY <4>1
        <4>2. [u \in Turns |-> row'[u].status]
                = [[u \in Turns |-> row[u].status] EXCEPT ![t] = s]
          BY <3>2 DEF FinalCommits, TypeOK
        <4>3. [u \in Turns |-> row'[u].content]
                = [[u \in Turns |-> row[u].content] EXCEPT ![t] = text[t]]
          BY <3>2 DEF FinalCommits, TypeOK
        <4>4. Life!Settle(t, s)
          BY <3>2, <4>1, <4>2, <4>3 DEF FinalCommits, Life!Settle
        <4>5. QED
          BY <4>1, <4>4 DEF Life!Next
      <3>3. QED
        BY <2>6, <3>1, <3>2 DEF FinalStep
    <2>7. QED
      BY <1>3, <2>1, <2>2, <2>3, <2>4, <2>5, <2>6 DEF TurnStep, Life!Next
  <1>4. QED
    BY <1>2, <1>3, NextIsAStep

\* The store implements MessageLife: every row lives the life promised of it.
THEOREM StoreImplementsLife == Spec => ImplementsLife
  <1>1. Spec => []IInv
    BY Invariance
  <1>2. QED
    BY <1>1, LifeInit, LifeSimulation, PTL DEF Spec, ImplementsLife, Life!Spec

\* On SQLite transactions queue, and a flush comes after its row (engine.py, persistence.py).
THEOREM WritesAreOrdered == Spec => []WritesInv
BY TypeCorrect, CountsMatch, Serialized, FlushesFindRows, PTL DEF WritesInv
=============================================================================
