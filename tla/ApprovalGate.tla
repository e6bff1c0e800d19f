------------------------------ MODULE ApprovalGate ------------------------------
(***************************************************************************)
(* McpManager's approval gate (mcp/manager.py), shared by every turn of the *)
(* process: turns that run tool calls through it (_run_tool_call of         *)
(* services/chat.py) and users whose POST /api/tools/approve names a call   *)
(* by its id (api/routes/tools.py).                                        *)
(*                                                                         *)
(* Registering a call and starting to wait for it are one step: only the   *)
(* yield of the tool_wait frame is between them, which the broker's loop   *)
(* passes without suspending.  The deadline, a stop and the answer each    *)
(* end the wait first and are noticed when the task runs again.            *)
(***************************************************************************)
EXTENDS Naturals, FiniteSets

CONSTANTS
  Turns,
  Ids,        \* ids backends give their calls
  Tools,
  Mode,       \* the approval mode of each tool's server
  ReusesIds,  \* whether a backend may give two calls one id
  MaxCalls,   \* bound: calls a turn makes
  MaxClicks,  \* bound: distinct answers users send
  None

Modes == {"always", "once", "never"}

ASSUME GateAssumption ==
  /\ Mode \in [Tools -> Modes]
  /\ ReusesIds \in BOOLEAN
  /\ MaxCalls \in Nat
  /\ MaxClicks \in Nat

VARIABLES
  stage,     \* what each turn is doing
  call,      \* the call it last made
  future,    \* the future of that call's registration
  ending,    \* why its wait is being cancelled, if it is
  pending,   \* _pending: the turn whose registration an id names, or None
  once,      \* _approved_once
  used,      \* ids calls have had
  clicks     \* answers users sent: each may arrive any time, and again

vars == <<stage, call, future, ending, pending, once, used, clicks>>

Stages  == {"idle", "waiting", "running", "over", "abandoned"}
Call    == [turn : Turns, nr : 1..MaxCalls, id : Ids, tool : Tools]
Click   == [call : Call, approved : BOOLEAN, remember : BOOLEAN]

ASSUME NoneAssumption == None \notin Turns \cup Call

TypeOK ==
  /\ stage \in [Turns -> Stages]
  /\ call \in [Turns -> Call \cup {None}]
  /\ future \in [Turns -> {"open", "approved", "rejected", "cancelled"}]
  /\ ending \in [Turns -> {"no", "timeout", "stop"}]
  /\ pending \in [Ids -> Turns \cup {None}]
  /\ once \subseteq Tools
  /\ used \subseteq Ids
  /\ clicks \subseteq Click

Init ==
  /\ stage = [t \in Turns |-> "idle"]
  /\ call = [t \in Turns |-> None]
  /\ future = [t \in Turns |-> "open"]
  /\ ending = [t \in Turns |-> "no"]
  /\ pending = [i \in Ids |-> None]
  /\ once = {}
  /\ used = {}
  /\ clicks = {}

-----------------------------------------------------------------------------
(* A turn's calls *)

NextNr(t) == IF call[t] = None THEN 1 ELSE call[t].nr + 1

\* Mutant: what was remembered for one tool is good for all of them.
RequiresWait_AnyTool(tool) ==
  ~(Mode[tool] = "never" \/ (Mode[tool] = "once" /\ once # {}))

\* gate: whether a call of this tool must wait for its user.
RequiresWait(tool) ==
  ~(Mode[tool] = "never" \/ (Mode[tool] = "once" /\ tool \in once))

\* The backend asks for a tool; an id it minted before comes back only if it reuses ids.
Make(t, id, tool) ==
  /\ stage[t] = "idle"
  /\ NextNr(t) <= MaxCalls
  /\ ReusesIds \/ id \notin used
  /\ used' = used \cup {id}
  /\ call' = [call EXCEPT ![t] = [turn |-> t, nr |-> NextNr(t), id |-> id, tool |-> tool]]
  /\ UNCHANGED <<once, clicks, ending>>

RunsAtOnce(t, id, tool) ==
  /\ ~RequiresWait(tool)
  /\ Make(t, id, tool)
  /\ stage' = [stage EXCEPT ![t] = "running"]
  /\ UNCHANGED <<future, pending>>

\* register_pending: under the call's own id, whatever is registered under it already.
Registers(t, id) ==
  /\ pending' = [pending EXCEPT ![id] = t]
  /\ future' = [future EXCEPT ![t] = "open"]

Asks(t, id, tool) ==
  /\ RequiresWait(tool)
  /\ Make(t, id, tool)
  /\ Registers(t, id)
  /\ stage' = [stage EXCEPT ![t] = "waiting"]

\* The tool_wait frame overflows the turn's buffer: nobody will ever wait.
AsksAndOverflows(t, id, tool) ==
  /\ RequiresWait(tool)
  /\ Make(t, id, tool)
  /\ Registers(t, id)
  /\ stage' = [stage EXCEPT ![t] = "abandoned"]

-----------------------------------------------------------------------------
(* wait_for_approval *)

\* Cancelling the task cancels the future it awaits, if that is still open.
Cancelled(t) == IF future[t] = "open" THEN "cancelled" ELSE future[t]

\* Mutant: no deadline.
TimesOut_Never(t) == FALSE

TimesOut(t) ==
  /\ stage[t] = "waiting"
  /\ ending[t] = "no"
  /\ ending' = [ending EXCEPT ![t] = "timeout"]
  /\ future' = [future EXCEPT ![t] = Cancelled(t)]
  /\ UNCHANGED <<stage, call, pending, once, used, clicks>>

StopsWaiting(t) ==
  /\ stage[t] = "waiting"
  /\ ending' = [ending EXCEPT ![t] = "stop"]
  /\ future' = [future EXCEPT ![t] = Cancelled(t)]
  /\ UNCHANGED <<stage, call, pending, once, used, clicks>>

\* Where a wait leads: a cancellation beats an answer that is already there.
After(t) ==
  CASE ending[t] = "stop"                              -> "over"
    [] ending[t] = "no" /\ future[t] = "approved"      -> "running"
    [] OTHER                                           -> "idle"

\* Mutant: the first wait that ends clears the registry.
Wakes_ClearsAll(t) ==
  /\ stage[t] = "waiting"
  /\ future[t] # "open"
  /\ stage' = [stage EXCEPT ![t] = After(t)]
  /\ pending' = [i \in Ids |-> None]
  /\ ending' = [ending EXCEPT ![t] = "no"]
  /\ UNCHANGED <<call, future, once, used, clicks>>

\* The task runs again; its finally drops what is registered under its call's id.
Wakes(t) ==
  /\ stage[t] = "waiting"
  /\ future[t] # "open"
  /\ stage' = [stage EXCEPT ![t] = After(t)]
  /\ pending' = [pending EXCEPT ![call[t].id] = None]
  /\ ending' = [ending EXCEPT ![t] = "no"]
  /\ UNCHANGED <<call, future, once, used, clicks>>

\* The tool returns or fails, and the loop goes on.
Returns(t) ==
  /\ stage[t] = "running"
  /\ stage' = [stage EXCEPT ![t] = "idle"]
  /\ UNCHANGED <<call, future, ending, pending, once, used, clicks>>

\* The turn is over: its last round, a stop or a failure outside a wait.
Finishes(t) ==
  /\ stage[t] \in {"idle", "running"}
  /\ stage' = [stage EXCEPT ![t] = "over"]
  /\ UNCHANGED <<call, future, ending, pending, once, used, clicks>>

-----------------------------------------------------------------------------
(* Users *)

\* A user who is shown a call's prompt presses a button.
Clicks(t, approved, remember) ==
  /\ stage[t] = "waiting"
  /\ Cardinality(clicks) < MaxClicks
  /\ clicks' = clicks \cup {[call |-> call[t], approved |-> approved, remember |-> remember]}
  /\ UNCHANGED <<stage, call, future, ending, pending, once, used>>

\* resolve: an answer is accepted if its id names a registration nobody settled yet.
Accepts(id) == pending[id] # None /\ future[pending[id]] = "open"

Resolve(c) ==
  LET t == pending[c.call.id]
  IN  /\ Accepts(c.call.id)
      /\ once' = IF c.approved /\ c.remember THEN once \cup {call[t].tool} ELSE once
      /\ future' = [future EXCEPT ![t] = IF c.approved THEN "approved" ELSE "rejected"]
      /\ UNCHANGED <<stage, call, ending, pending, used, clicks>>

-----------------------------------------------------------------------------

Turn(t) ==
  \/ \E id \in Ids, tool \in Tools :
       RunsAtOnce(t, id, tool) \/ Asks(t, id, tool) \/ AsksAndOverflows(t, id, tool)
  \/ TimesOut(t) \/ StopsWaiting(t) \/ Wakes(t) \/ Returns(t) \/ Finishes(t)

Users ==
  \/ \E t \in Turns, approved, remember \in BOOLEAN : Clicks(t, approved, remember)
  \/ \E c \in clicks : Resolve(c)

Next == (\E t \in Turns : Turn(t)) \/ Users

Spec == Init /\ [][Next]_vars

\* Deadlines pass and tasks that can run do; nothing is asked of users.
FairSpec ==
  /\ Spec
  /\ \A t \in Turns : WF_vars(TimesOut(t)) /\ WF_vars(Wakes(t))

-----------------------------------------------------------------------------
(* Properties *)

Unasked(tool) == Mode[tool] = "never" \/ (Mode[tool] = "once" /\ tool \in once)

\* A gated call runs only when a user approved this very call, or had its tool
\* remembered: no answer to another call, another turn or an earlier round counts.
\* register_pending and resolve (manager.py:207-218, 259-272) rely on the call's own id
\* to name "the right call".
RunsOnConsent ==
  [][\A t \in Turns :
       stage[t] # "running" /\ stage'[t] = "running" =>
         Unasked(call'[t].tool) \/ \E c \in clicks : c.approved /\ c.call = call'[t]]_vars

\* A turn waits only where an answer to its call can reach it: its registration is
\* still the one its id names.
WaitersAreReachable ==
  \A t \in Turns : stage[t] = "waiting" => pending[call[t].id] = t

\* What stays registered without anyone waiting is only what an overflow left behind.
NobodyElseIsPending ==
  \A i \in Ids : pending[i] # None =>
    /\ call[pending[i]].id = i
    /\ stage[pending[i]] \in {"waiting", "abandoned"}

\* A tool is remembered only because a user asked for that while approving a call of it,
\* and a server that always asks goes on asking.
RememberedByChoice ==
  \A tool \in once : \E c \in clicks : c.approved /\ c.remember /\ c.call.tool = tool

\* What is registered and remembered is there for a reason (mcp/manager.py): all of the above.
GateInv == TypeOK /\ WaitersAreReachable /\ NobodyElseIsPending /\ RememberedByChoice

\* Every wait ends, whoever answers, times out, or takes its registration away.
WaitsEnd == \A t \in Turns : stage[t] = "waiting" ~> stage[t] # "waiting"
===============================================================================
