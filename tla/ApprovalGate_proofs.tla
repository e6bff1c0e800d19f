--------------------------- MODULE ApprovalGate_proofs ---------------------------
(***************************************************************************)
(* Proofs about ApprovalGate.  Types and the shape of the registry hold for *)
(* any backend.  That consent is never misdirected is proved for backends   *)
(* that give every call an id of its own; the invariant that carries it     *)
(* says that an id names one call, among those being made and those users   *)
(* were shown alike.                                                       *)
(***************************************************************************)
EXTENDS ApprovalGate, TLAPS

\* What is registered is its turn's last call, waiting or abandoned.
Registry ==
  \A i \in Ids : pending[i] # None =>
    /\ call[pending[i]] # None
    /\ call[pending[i]].id = i
    /\ stage[pending[i]] \in {"waiting", "abandoned"}

Made == \A t \in Turns :
  /\ stage[t] = "waiting" => call[t] # None
  /\ call[t] # None => call[t].turn = t /\ call[t].id \in used

\* An id names one call.
Distinct ==
  /\ \A t, u \in Turns : call[t] # None /\ call[u] # None /\ call[t].id = call[u].id => t = u
  /\ \A c \in clicks : c.call.id \in used
  /\ \A c \in clicks, t \in Turns : call[t] # None /\ call[t].id = c.call.id => call[t] = c.call

Approved(t) == \E c \in clicks : c.approved /\ c.call = call[t]

Answered == \A t \in Turns :
  /\ stage[t] = "waiting" => pending[call[t].id] = t
  /\ stage[t] = "waiting" /\ future[t] = "approved" => Approved(t)

Shape == TypeOK /\ Registry /\ Made

Inv == Shape /\ Distinct /\ Answered /\ RememberedByChoice

-----------------------------------------------------------------------------
(* Any backend *)

LEMMA ShapeInit == Init => Shape
BY GateAssumption, NoneAssumption
DEF Init, Shape, TypeOK, Registry, Made, Stages, GateAssumption, NoneAssumption

LEMMA MakeCall ==
  ASSUME TypeOK, NEW t \in Turns, NEW id \in Ids, NEW tool \in Tools, NextNr(t) <= MaxCalls
  PROVE  /\ [turn |-> t, nr |-> NextNr(t), id |-> id, tool |-> tool] \in Call
         /\ None \notin Turns \cup Call
<1>1. call[t] # None => call[t] \in Call
  BY DEF TypeOK
<1>2. call[t] # None => call[t].nr \in Nat /\ call[t].nr >= 1
  BY <1>1, GateAssumption DEF Call, GateAssumption
<1>3. NextNr(t) \in 1..MaxCalls
  BY <1>2, GateAssumption DEF NextNr, GateAssumption
<1> QED BY <1>3, NoneAssumption DEF Call, NoneAssumption

\* What making a call does, with or without waiting for it.
LEMMA MakeShape ==
  ASSUME Shape, NEW t \in Turns, NEW id \in Ids, NEW tool \in Tools, Make(t, id, tool)
  PROVE  /\ call' \in [Turns -> Call \cup {None}] /\ used' \subseteq Ids
         /\ call'[t] \in Call /\ call'[t] # None /\ call'[t].id = id /\ call'[t].turn = t
         /\ call'[t].tool = tool
         /\ \A u \in Turns \ {t} : call'[u] = call[u]
         /\ used' = used \cup {id} /\ once' = once /\ clicks' = clicks /\ ending' = ending
         /\ stage[t] = "idle"
<1> DEFINE c == [turn |-> t, nr |-> NextNr(t), id |-> id, tool |-> tool]
<1>1. c \in Call /\ None \notin Call
  BY MakeCall DEF Make, Shape
<1>2. call' = [call EXCEPT ![t] = c] /\ call \in [Turns -> Call \cup {None}]
  BY DEF Make, Shape, TypeOK
<1>3. c.id = id /\ c.turn = t /\ c.tool = tool
  OBVIOUS
<1> HIDE DEF c
<1>4. call'[t] = c /\ call' \in [Turns -> Call \cup {None}] /\ \A u \in Turns \ {t} : call'[u] = call[u]
  BY <1>1, <1>2
<1> QED BY <1>1, <1>3, <1>4 DEF Make, Shape, TypeOK

LEMMA ShapeStep == Shape /\ [Next]_vars => Shape'
<1> SUFFICES ASSUME Shape, [Next]_vars PROVE Shape'
  OBVIOUS
<1> USE DEF Shape
<1>1. ASSUME NEW t \in Turns, NEW id \in Ids, NEW tool \in Tools, RunsAtOnce(t, id, tool)
      PROVE  Shape'
  <2>1. Make(t, id, tool) /\ stage' = [stage EXCEPT ![t] = "running"] /\ UNCHANGED <<future, pending>>
    BY <1>1 DEF RunsAtOnce
  <2>2. \A i \in Ids : pending[i] # t
    BY <2>1, MakeShape, NoneAssumption DEF Registry, NoneAssumption
  <2>3. TypeOK'
    BY <2>1, MakeShape DEF TypeOK, Stages
  <2>4. Registry'
    BY <2>1, <2>2, MakeShape DEF Registry, TypeOK
  <2>5. Made'
    BY <2>1, MakeShape DEF Made, TypeOK
  <2> QED BY <2>3, <2>4, <2>5
<1>2. ASSUME NEW t \in Turns, NEW id \in Ids, NEW tool \in Tools,
             Make(t, id, tool), Registers(t, id), NEW s \in {"waiting", "abandoned"},
             stage' = [stage EXCEPT ![t] = s]
      PROVE  Shape'
  <2>1. \A i \in Ids : pending[i] # t
    BY <1>2, MakeShape, NoneAssumption DEF Registry, NoneAssumption
  <2>2. pending' = [pending EXCEPT ![id] = t] /\ future' = [future EXCEPT ![t] = "open"]
    BY <1>2 DEF Registers
  <2>3. TypeOK'
    BY <1>2, <2>2, MakeShape DEF TypeOK, Stages
  <2>4. Registry'
    BY <1>2, <2>1, <2>2, MakeShape DEF Registry, TypeOK
  <2>5. Made'
    BY <1>2, MakeShape DEF Made, TypeOK
  <2> QED BY <2>3, <2>4, <2>5
<1>3. ASSUME NEW t \in Turns, TimesOut(t) \/ StopsWaiting(t) PROVE Shape'
  BY <1>3 DEF TimesOut, StopsWaiting, Cancelled, TypeOK, Registry, Made
<1>4. ASSUME NEW t \in Turns, Wakes(t) PROVE Shape'
  <2>1. /\ stage[t] = "waiting" /\ call[t] \in Call /\ call[t].id \in Ids
        /\ After(t) \in {"over", "running", "idle"}
    BY <1>4 DEF Wakes, Made, TypeOK, Call, After
  <2>2. TypeOK'
    BY <1>4, <2>1 DEF Wakes, TypeOK, Stages
  <2>3. Registry'
    BY <1>4, <2>1, NoneAssumption DEF Wakes, Registry, TypeOK, NoneAssumption
  <2>4. Made'
    BY <1>4, <2>1 DEF Wakes, Made, TypeOK
  <2> QED BY <2>2, <2>3, <2>4
<1>5. ASSUME NEW t \in Turns, Returns(t) \/ Finishes(t) PROVE Shape'
  BY <1>5, NoneAssumption DEF Returns, Finishes, TypeOK, Stages, Registry, Made, NoneAssumption
<1>6. ASSUME NEW t \in Turns, NEW a \in BOOLEAN, NEW r \in BOOLEAN, Clicks(t, a, r) PROVE Shape'
  <2>1. [call |-> call[t], approved |-> a, remember |-> r] \in Click
    BY <1>6 DEF Clicks, Made, TypeOK, Click
  <2> QED BY <1>6, <2>1 DEF Clicks, TypeOK, Registry, Made
<1>7. ASSUME NEW c \in clicks, Resolve(c) PROVE Shape'
  <2> DEFINE t == pending[c.call.id]
  <2>1. c \in Click /\ c.call.id \in Ids
    BY DEF TypeOK, Click, Call
  <2>2. t \in Turns /\ call[t] \in Call /\ call[t].tool \in Tools
    BY <1>7, <2>1, NoneAssumption DEF Resolve, Accepts, TypeOK, Registry, Call, NoneAssumption
  <2> QED BY <1>7, <2>2 DEF Resolve, TypeOK, Registry, Made
<1>8. CASE UNCHANGED vars
  BY <1>8 DEF vars, TypeOK, Registry, Made
<1> QED
  BY <1>1, <1>2, <1>3, <1>4, <1>5, <1>6, <1>7, <1>8
  DEF Next, Turn, Users, Asks, AsksAndOverflows

\* Every variable keeps its type.
THEOREM TypeCorrect == Spec => []TypeOK
<1>1. Shape => TypeOK
  BY DEF Shape
<1> QED BY <1>1, ShapeInit, ShapeStep, PTL DEF Spec

\* Whatever ids backends use, what stays registered without anyone waiting is only what an
\* overflow left behind.
THEOREM PendingIsWaited == Spec => []NobodyElseIsPending
<1>1. Shape => NobodyElseIsPending
  BY DEF Shape, Registry, NobodyElseIsPending
<1> QED BY <1>1, ShapeInit, ShapeStep, PTL DEF Spec

-----------------------------------------------------------------------------
(* Backends that give every call an id of its own *)

LEMMA InvInit == Init => Inv
<1>1. Init => Distinct /\ Answered /\ RememberedByChoice
  BY DEF Init, Distinct, Answered, RememberedByChoice
<1> QED BY <1>1, ShapeInit DEF Inv

\* A new call shares its id with no other call and no answer.
LEMMA MakeDistinct ==
  ASSUME ~ReusesIds, Inv, NEW t \in Turns, NEW id \in Ids, NEW tool \in Tools, Make(t, id, tool)
  PROVE  Distinct'
<1>1. id \notin used
  BY DEF Make
<1>2. \A u \in Turns : call[u] # None => call[u].id # id
  BY <1>1 DEF Inv, Shape, Made
<1>3. \A c \in clicks : c.call.id # id
  BY <1>1 DEF Inv, Distinct
<1>4. /\ call'[t].id = id /\ \A u \in Turns \ {t} : call'[u] = call[u]
      /\ used' = used \cup {id} /\ clicks' = clicks
  BY MakeShape DEF Inv
<1>5. ASSUME NEW u \in Turns, NEW v \in Turns, call'[u] # None, call'[v] # None, call'[u].id = call'[v].id
      PROVE  u = v
  BY <1>2, <1>4, <1>5 DEF Inv, Distinct
<1>6. ASSUME NEW c \in clicks, NEW u \in Turns, call'[u] # None, call'[u].id = c.call.id
      PROVE  call'[u] = c.call
  <2>1. u # t
    BY <1>3, <1>4, <1>6
  <2> QED BY <1>4, <1>6, <2>1 DEF Inv, Distinct
<1>7. \A c \in clicks' : c.call.id \in used'
  BY <1>4 DEF Inv, Distinct
<1> QED BY <1>4, <1>5, <1>6, <1>7 DEF Distinct

LEMMA InvStep ==
  ASSUME ~ReusesIds, Inv, [Next]_vars
  PROVE  Inv'
<1> USE DEF Inv, Shape
<1>0. Shape'
  BY ShapeStep
<1>1. ASSUME NEW t \in Turns, NEW id \in Ids, NEW tool \in Tools, RunsAtOnce(t, id, tool)
      PROVE  Inv'
  <2>1. Make(t, id, tool) /\ stage' = [stage EXCEPT ![t] = "running"] /\ UNCHANGED <<future, pending>>
    BY <1>1 DEF RunsAtOnce
  <2>2. Distinct'
    BY <2>1, MakeDistinct
  <2>3. Answered'
    BY <2>1, MakeShape DEF Answered, Approved, TypeOK
  <2>4. RememberedByChoice'
    BY <2>1, MakeShape DEF RememberedByChoice
  <2> QED BY <1>0, <2>2, <2>3, <2>4
<1>2. ASSUME NEW t \in Turns, NEW id \in Ids, NEW tool \in Tools,
             Make(t, id, tool), Registers(t, id), NEW s \in {"waiting", "abandoned"},
             stage' = [stage EXCEPT ![t] = s]
      PROVE  Inv'
  <2>1. pending' = [pending EXCEPT ![id] = t] /\ future' = [future EXCEPT ![t] = "open"]
    BY <1>2 DEF Registers
  <2>2. Distinct'
    BY <1>2, MakeDistinct
  <2>3. \A u \in Turns : stage[u] = "waiting" => call[u].id # id /\ u # t /\ call[u].id \in Ids
    BY <1>2, MakeShape DEF Make, Made, TypeOK, Call
  <2>4. ASSUME NEW u \in Turns, stage'[u] = "waiting"
        PROVE  pending'[call'[u].id] = u /\ (future'[u] = "approved" => Approved(u)')
    <3>1. CASE u = t
      BY <1>2, <2>1, <3>1, MakeShape DEF TypeOK
    <3>2. CASE u # t
      <4>1. stage[u] = "waiting" /\ call'[u] = call[u] /\ clicks' = clicks /\ future'[u] = future[u]
        BY <1>2, <2>1, <2>4, <3>2, MakeShape DEF TypeOK
      <4> QED BY <2>1, <2>3, <4>1 DEF Answered, Approved, TypeOK
    <3> QED BY <3>1, <3>2
  <2>5. RememberedByChoice'
    BY <1>2, MakeShape DEF RememberedByChoice
  <2>6. Answered'
    BY <2>4 DEF Answered
  <2> QED BY <1>0, <2>2, <2>5, <2>6
<1>3. ASSUME NEW t \in Turns, TimesOut(t) \/ StopsWaiting(t) PROVE Inv'
  <2>1. UNCHANGED <<stage, call, pending, once, used, clicks>>
    BY <1>3 DEF TimesOut, StopsWaiting
  <2>2. \A u \in Turns : future'[u] = "approved" => future[u] = "approved"
    BY <1>3 DEF TimesOut, StopsWaiting, Cancelled, TypeOK
  <2>3. Distinct' /\ RememberedByChoice'
    BY <2>1 DEF Distinct, RememberedByChoice
  <2>4. Answered'
    BY <2>1, <2>2 DEF Answered, Approved
  <2> QED BY <1>0, <2>3, <2>4
<1>4. ASSUME NEW t \in Turns, Wakes(t) PROVE Inv'
  <2>1. /\ stage[t] = "waiting" /\ After(t) # "waiting"
        /\ stage' = [stage EXCEPT ![t] = After(t)]
        /\ pending' = [pending EXCEPT ![call[t].id] = None]
        /\ UNCHANGED <<call, future, once, used, clicks>>
    BY <1>4 DEF Wakes, After
  <2>2. Distinct' /\ RememberedByChoice'
    BY <2>1 DEF Distinct, RememberedByChoice
  <2>3. ASSUME NEW u \in Turns, stage'[u] = "waiting"
        PROVE  pending'[call[u].id] = u
    <3>1. u # t /\ stage[u] = "waiting"
      BY <2>1, <2>3 DEF TypeOK
    <3>2. call[u].id # call[t].id
      BY <2>1, <3>1 DEF Made, Distinct
    <3> QED BY <2>1, <3>1, <3>2 DEF Answered, Made, TypeOK, Call
  <2>4. ASSUME NEW u \in Turns, stage'[u] = "waiting", future'[u] = "approved"
        PROVE  Approved(u)'
    BY <2>1, <2>4 DEF Answered, Approved, TypeOK
  <2>5. Answered'
    BY <2>1, <2>3, <2>4 DEF Answered
  <2> QED BY <1>0, <2>2, <2>5
<1>5. ASSUME NEW t \in Turns, Returns(t) \/ Finishes(t) PROVE Inv'
  <2>1. UNCHANGED <<call, future, pending, once, used, clicks>>
        /\ \A u \in Turns : stage'[u] = "waiting" => stage[u] = "waiting"
    BY <1>5 DEF Returns, Finishes, TypeOK
  <2> QED BY <1>0, <2>1 DEF Distinct, RememberedByChoice, Answered, Approved
<1>6. ASSUME NEW t \in Turns, NEW a \in BOOLEAN, NEW r \in BOOLEAN, Clicks(t, a, r) PROVE Inv'
  <2> DEFINE new == [call |-> call[t], approved |-> a, remember |-> r]
  <2>1. /\ clicks' = clicks \cup {new} /\ new.call = call[t] /\ stage[t] = "waiting"
        /\ UNCHANGED <<stage, call, future, ending, pending, once, used>>
    BY <1>6 DEF Clicks
  <2> HIDE DEF new
  <2>2. call[t] # None /\ call[t].id \in used
    BY <2>1 DEF Made
  <2>3. Distinct'
    BY <2>1, <2>2 DEF Distinct
  <2>4. Answered' /\ RememberedByChoice'
    BY <2>1 DEF Answered, Approved, RememberedByChoice
  <2> QED BY <1>0, <2>3, <2>4
<1>7. ASSUME NEW c \in clicks, Resolve(c) PROVE Inv'
  <2> DEFINE t == pending[c.call.id]
  <2>1. c \in Click /\ c.call.id \in Ids
    BY DEF TypeOK, Click, Call
  <2>2. t \in Turns /\ t # None /\ call[t] # None /\ call[t].id = c.call.id
    BY <1>7, <2>1, NoneAssumption DEF Resolve, Accepts, TypeOK, Registry, NoneAssumption
  <2>3. call[t] = c.call
    BY <2>2 DEF Distinct
  <2>4. /\ once' = IF c.approved /\ c.remember THEN once \cup {call[t].tool} ELSE once
        /\ future' = [future EXCEPT ![t] = IF c.approved THEN "approved" ELSE "rejected"]
        /\ UNCHANGED <<stage, call, ending, pending, used, clicks>>
    BY <1>7 DEF Resolve
  <2> HIDE DEF t
  <2>5. Distinct'
    BY <2>4 DEF Distinct
  <2>6. RememberedByChoice'
    BY <2>3, <2>4 DEF RememberedByChoice
  <2>7. \A u \in Turns : future'[u] = "approved" => future[u] = "approved" \/ (u = t /\ c.approved)
    BY <2>4, <2>2 DEF TypeOK
  <2>8. Answered'
    BY <2>3, <2>4, <2>7 DEF Answered, Approved
  <2> QED BY <1>0, <2>5, <2>6, <2>8
<1>8. CASE UNCHANGED vars
  BY <1>0, <1>8 DEF vars, Distinct, Answered, Approved, RememberedByChoice
<1> QED
  BY <1>1, <1>2, <1>3, <1>4, <1>5, <1>6, <1>7, <1>8
  DEF Next, Turn, Users, Asks, AsksAndOverflows

\* The invariant of the gate when backends give every call an id of its own.
THEOREM Invariance ==
  ASSUME ~ReusesIds
  PROVE  Spec => []Inv
BY InvInit, InvStep, PTL DEF Spec

\* When backends give every call an id of its own, a gated call runs only when a user
\* approved this very call, or had its tool remembered.
THEOREM Consent ==
  ASSUME ~ReusesIds
  PROVE  Spec => RunsOnConsent
<1>1. ASSUME Inv, [Next]_vars, NEW t \in Turns, stage[t] # "running", stage'[t] = "running"
      PROVE  Unasked(call'[t].tool) \/ \E c \in clicks : c.approved /\ c.call = call'[t]
  <2>1. (\E id \in Ids, tool \in Tools : RunsAtOnce(t, id, tool)) \/ Wakes(t)
    BY <1>1 DEF Next, Turn, Users, Asks, AsksAndOverflows, TimesOut, StopsWaiting, Returns, Finishes,
       Clicks, Resolve, RunsAtOnce, Wakes, vars, Inv, Shape, TypeOK
  <2>2. CASE Wakes(t)
    <3>1. stage[t] = "waiting" /\ future[t] = "approved" /\ call' = call
      BY <1>1, <2>2 DEF Wakes, After, Inv, Shape, TypeOK
    <3> QED BY <1>1, <3>1 DEF Inv, Answered, Approved
  <2>3. ASSUME NEW id \in Ids, NEW tool \in Tools, RunsAtOnce(t, id, tool)
        PROVE  Unasked(call'[t].tool)
    <3>1. call'[t].tool = tool
      BY <1>1, <2>3, MakeShape DEF RunsAtOnce, Inv
    <3> QED BY <2>3, <3>1 DEF RunsAtOnce, RequiresWait, Unasked
  <2> QED BY <2>1, <2>2, <2>3
<1>2. Inv /\ [Next]_vars =>
        [\A t \in Turns :
           stage[t] # "running" /\ stage'[t] = "running" =>
             Unasked(call'[t].tool) \/ \E c \in clicks : c.approved /\ c.call = call'[t]]_vars
  BY <1>1
<1> QED BY <1>2, Invariance, PTL DEF RunsOnConsent, Spec

\* Then, too, an answer to any waiting call can reach it.
THEOREM Reachable ==
  ASSUME ~ReusesIds
  PROVE  Spec => []WaitersAreReachable
<1>1. Inv => WaitersAreReachable
  BY DEF Inv, Answered, WaitersAreReachable
<1> QED BY <1>1, Invariance, PTL

\* And a tool is remembered only because a user asked for that while approving a call of it.
THEOREM Remembered ==
  ASSUME ~ReusesIds
  PROVE  Spec => []RememberedByChoice
<1>1. Inv => RememberedByChoice
  BY DEF Inv
<1> QED BY <1>1, Invariance, PTL

\* Backends that give every call its own id can rely on the registry (mcp/manager.py).
THEOREM GateIsSound ==
  ASSUME ~ReusesIds
  PROVE  Spec => []GateInv
BY TypeCorrect, PendingIsWaited, Reachable, Remembered, PTL DEF GateInv
=================================================================================
