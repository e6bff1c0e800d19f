--------------------------- MODULE Backends_proofs ---------------------------
(***************************************************************************)
(* Backends, the jobs about their models and the operations on MCP         *)
(* servers: for any number of backends, edits, listings, jobs and          *)
(* followers, for streams of any length, and whatever the servers do.      *)
(***************************************************************************)
EXTENDS McpConnections, ModelJobs, Adapters, ThinkSplitter, SequenceTheorems, FiniteSetTheorems,
  FunctionTheorems, WellFoundedInduction, TLAPS

-----------------------------------------------------------------------------
(* What an operation on an MCP server holds and hears *)

\* One operation's record.  Nothing is decided while it opens or asks; only a child's own
\* transport has a child; what is let go of, when it ends, is everything, unless a stop
\* cut that short.
Sound(c) ==
  /\ c \in Operation
  /\ c.stage \in {"idle", "saving", "over"} /\ ~c.cut => c.held = {}
  /\ c.cut => c.stage = "over"
  /\ c.via # "stdio" => "child" \notin c.held
  /\ c.stage \in {"idle", "opening"} => c.asked = 0
  /\ c.stage = "opening" => c.via = "sse"
  /\ c.stage = "asking" => c.asked \in 1..2
  /\ c.stage \in {"idle", "opening", "asking", "switching"} => c.outcome = "none"
  /\ c.via = "sse" /\ c.stage \in {"opening", "asking"} /\ "reader" \notin c.held
       => c.failed /\ (c.stage = "asking" => c.future # "open")
  /\ c.future = "answered" /\ c.stage = "asking" => c.asked \in c.answered
  /\ c.outcome = "ok" => 2 \in c.answered

RowsOK ==
  /\ \A s \in Servers : server[s] = {} \/ \E r \in Row : server[s] = {r}
  /\ secrets = {s \in Servers : \E r \in server[s] : r.auth}
  /\ edits \in 0..MaxServerEdits

\* The rows are indexed by their servers: without this an update of one says nothing.
IInv ==
  /\ server \in [Servers -> SUBSET Row]
  /\ RowsOK
  /\ op \in [Operations -> Operation]
  /\ \A o \in Operations : Sound(op[o])

-----------------------------------------------------------------------------
(* One operation *)

LEMMA ReleasedIsSound ==
  ASSUME NEW c \in Operation, ~c.cut, c.outcome = "ok" => 2 \in c.answered
  PROVE  Sound(Released(c))
<1> DEFINE new == Released(c)
<1>1. /\ new \in Operation /\ new.stage \in {"saving", "over"} /\ new.held = {} /\ ~new.cut
      /\ new.outcome = c.outcome /\ new.answered = c.answered
  BY DEF Released, Operation
<1> HIDE DEF new
<1> QED
  BY <1>1 DEF Sound, new

LEMMA ClosingIsSound ==
  ASSUME NEW c \in Operation, ~c.cut, c.via # "stdio" => "child" \notin c.held,
         NEW outcome \in {"ok", "error", "stopped"}, outcome = "ok" => 2 \in c.answered
  PROVE  Sound(Closing(c, outcome))
<1> DEFINE new == [c EXCEPT !.stage = "closing", !.outcome = outcome,
                            !.held = IF c.via = "stdio" THEN @ \ {"reader"} ELSE @]
<1>1. /\ new \in Operation /\ new.stage = "closing" /\ ~new.cut /\ new.outcome = outcome
      /\ new.answered = c.answered /\ new.via = c.via
      /\ c.via # "stdio" => new.held = c.held
  BY ZenonT(60) DEF Operation
<1>2. Closing(c, outcome) = IF Awaited(new) = {} THEN Released(new) ELSE new
  BY DEF Closing
<1> HIDE DEF new
<1>3. Sound(new)
  BY <1>1 DEF Sound
<1>4. Sound(Released(new))
  BY <1>1, ReleasedIsSound
<1> QED
  BY <1>2, <1>3, <1>4

LEMMA AskingIsSound ==
  ASSUME NEW c \in Operation, ~c.cut, c.asked \in 0..1, c.outcome = "none",
         c.via # "stdio" => "child" \notin c.held,
         c.via = "sse" => "reader" \in c.held
  PROVE  Sound(Asking(c))
<1> DEFINE next == c.asked + 1
           new == [c EXCEPT !.stage = "asking", !.asked = next, !.future = "open"]
<1>1. Asking(c) = new
  BY DEF Asking
<1>2. next \in 1..2 /\ next \in 0..2
  OBVIOUS
<1> HIDE DEF next
<1>3. /\ new \in Operation /\ new.stage = "asking" /\ ~new.cut /\ new.outcome = "none"
      /\ new.asked \in 1..2 /\ new.future = "open" /\ new.via = c.via /\ new.held = c.held
  BY <1>2 DEF Operation
<1> HIDE DEF new
<1> QED
  BY <1>1, <1>3 DEF Sound

LEMMA OpeningIsSound ==
  ASSUME NEW c \in Operation, ~c.cut, c.asked = 0, c.outcome = "none"
  PROVE  Sound(OpensSse(c))
<1> DEFINE new == OpensSse(c)
<1>1. /\ new \in Operation /\ new.stage = "opening" /\ ~new.cut /\ new.outcome = "none"
      /\ new.asked = 0 /\ new.via = "sse" /\ new.held = {"client", "reader"}
  BY ZenonT(60) DEF OpensSse, Operation, Resources
<1> HIDE DEF new
<1> QED
  BY <1>1 DEF Sound, new

\* An operation that becomes a sound one leaves the rest as it was.
LEMMA BecomesKeeps ==
  ASSUME IInv, NEW o \in Operations, NEW new, Becomes(o, new), Sound(new)
  PROVE  IInv'
<1>1. op' \in [Operations -> Operation] /\ op'[o] = new
      /\ \A p \in Operations \ {o} : op'[p] = op[p]
  BY DEF IInv, Becomes, Sound
<1>2. \A p \in Operations : Sound(op'[p])
  BY <1>1 DEF IInv
<1>3. server' \in [Servers -> SUBSET Row] /\ RowsOK'
  BY DEF Becomes, IInv, RowsOK
<1> QED
  BY <1>1, <1>2, <1>3 DEF IInv

-----------------------------------------------------------------------------
(* The steps *)

LEMMA OpensKeeps ==
  ASSUME IInv, NEW o \in Operations, NEW s \in Servers, NEW work \in {"connect", "call"},
         OperationOpens(o, s, work)
  PROVE  IInv'
<1> USE McpAssumption
<1>1. PICK r \in server[s] :
        LET c == [op[o] EXCEPT !.work = work, !.server = s, !.config = r.config,
                               !.auto = (r.transport = "http_auto")]
        IN  \E new \in CASE r.transport = "stdio" -> OpensStdio(c)
                         [] r.transport = "sse"   -> {OpensSse(c)}
                         [] OTHER                 -> {OpensStreamable(c)} :
              Becomes(o, new)
  BY DEF OperationOpens
<1> DEFINE auto == (r.transport = "http_auto")
           c == [op[o] EXCEPT !.work = work, !.server = s, !.config = r.config, !.auto = auto]
<1>2. r \in Row /\ r.config \in 0..MaxServerEdits
  BY DEF IInv, RowsOK, Row
<1>3. auto \in BOOLEAN
  OBVIOUS
<1>4. op[o] \in Operation /\ op[o].stage = "idle" /\ ~op[o].cut /\ op[o].asked = 0
      /\ op[o].outcome = "none" /\ op[o].held = {}
  BY DEF IInv, Sound, OperationOpens
<1> HIDE DEF auto
<1>5. c \in Operation /\ ~c.cut /\ c.asked = 0 /\ c.outcome = "none" /\ c.held = {}
  BY <1>2, <1>3, <1>4, ZenonT(60) DEF Operation
<1>6. \E new \in OpensStdio(c) \cup {OpensSse(c), OpensStreamable(c)} : Becomes(o, new)
  BY <1>1 DEF auto
<1> HIDE DEF c
<1>7. Sound(OpensSse(c))
  BY <1>5, OpeningIsSound
<1>8. Sound(OpensStreamable(c))
  <2> DEFINE d == [c EXCEPT !.via = "streamable", !.held = {"client"}]
  <2>1. d \in Operation /\ ~d.cut /\ d.asked = 0 /\ d.outcome = "none" /\ d.via = "streamable"
        /\ d.held = {"client"}
    BY <1>5, ZenonT(60) DEF Operation, Resources
  <2>2. OpensStreamable(c) = Asking(d)
    BY DEF OpensStreamable
  <2> HIDE DEF d
  <2> QED
    BY <2>1, <2>2, AskingIsSound
<1>9. ASSUME NEW new \in OpensStdio(c) PROVE Sound(new)
  <2> DEFINE d == [c EXCEPT !.via = "stdio", !.held = {"child", "reader"}]
             e == [c EXCEPT !.via = "stdio"]
  <2>1. d \in Operation /\ ~d.cut /\ d.asked = 0 /\ d.outcome = "none" /\ d.via = "stdio"
    BY <1>5, ZenonT(60) DEF Operation, Resources
  <2>2. e \in Operation /\ ~e.cut /\ e.via = "stdio"
    BY <1>5 DEF Operation
  <2>3. OpensStdio(c) = {Asking(d), Closing(e, "error")}
    BY DEF OpensStdio
  <2> HIDE DEF d, e
  <2>4. Sound(Asking(d))
    BY <2>1, AskingIsSound
  <2>5. Sound(Closing(e, "error"))
    BY <2>2, ClosingIsSound
  <2> QED
    BY <2>3, <2>4, <2>5
<1> QED
  BY <1>6, <1>7, <1>8, <1>9, BecomesKeeps

\* A connection that opens or asks, and what ends it.
LEMMA EndKeeps ==
  ASSUME IInv, NEW o \in Operations, NEW outcome \in {"ok", "error", "stopped"},
         op[o].stage \in {"opening", "asking"}, outcome = "ok" => 2 \in op[o].answered,
         Becomes(o, Closing(op[o], outcome))
  PROVE  IInv'
<1>1. op[o] \in Operation /\ ~op[o].cut /\ (op[o].via # "stdio" => "child" \notin op[o].held)
  BY DEF IInv, Sound
<1>2. Sound(Closing(op[o], outcome))
  BY <1>1, ClosingIsSound
<1> QED
  BY <1>2, BecomesKeeps

\* The next request: a stream whose end has not been noticed is still being read.
LEMMA AskKeeps ==
  ASSUME IInv, NEW o \in Operations, ~op[o].failed,
         op[o].stage = "opening" \/ (op[o].stage = "asking" /\ op[o].asked = 1),
         Becomes(o, Asking(op[o]))
  PROVE  IInv'
<1>1. op[o] \in Operation /\ ~op[o].cut /\ (op[o].via # "stdio" => "child" \notin op[o].held)
      /\ op[o].asked \in 0..1 /\ op[o].outcome = "none"
      /\ (op[o].via = "sse" => "reader" \in op[o].held)
  BY DEF IInv, Sound
<1>2. Sound(Asking(op[o]))
  BY <1>1, AskingIsSound
<1> QED
  BY <1>2, BecomesKeeps

LEMMA StepsKeep ==
  ASSUME IInv, NEW o \in Operations, OperationSteps(o)
  PROVE  IInv'
<1> DEFINE c == op[o]
<1>1. Sound(c)
  BY DEF IInv
<1>2. CASE StreamIsReady(o)
  <2>1. CASE c.failed
    BY <1>2, <2>1, EndKeeps DEF StreamIsReady
  <2>2. CASE ~c.failed
    BY <1>2, <2>2, AskKeeps DEF StreamIsReady
  <2> QED
    BY <2>1, <2>2
<1>3. CASE RequestSucceeds(o)
  <2>1. c.stage = "asking" /\ c.future = "answered" /\ c.asked \in c.answered
    BY <1>1, <1>3 DEF RequestSucceeds, Sound
  <2>2. \/ c.asked = 1 /\ ~c.failed /\ Becomes(o, Asking(c))
        \/ Becomes(o, Closing(c, "error"))
        \/ c.asked = 2 /\ Becomes(o, Closing(c, "ok"))
    BY <1>3 DEF RequestSucceeds
  <2> QED
    BY <2>1, <2>2, AskKeeps, EndKeeps
<1>4. CASE RequestFails(o)
  BY <1>4, EndKeeps DEF RequestFails
<1>5. CASE DeadlinePasses(o)
  BY <1>5, EndKeeps DEF DeadlinePasses
<1>6. CASE Switches(o)
  <2> DEFINE new == [c EXCEPT !.stage = "switching"]
  <2>1. Becomes(o, new) /\ c.stage = "asking"
    BY <1>6 DEF Switches
  <2>2. /\ new \in Operation /\ new.stage = "switching" /\ ~new.cut /\ new.outcome = "none"
        /\ (new.via # "stdio" => "child" \notin new.held)
    BY <1>1, <2>1 DEF Sound, Operation
  <2> HIDE DEF new
  <2>3. Sound(new)
    BY <2>2 DEF Sound
  <2> QED
    BY <2>1, <2>3, BecomesKeeps
<1>7. CASE OpensLegacy(o)
  <2> DEFINE opened == OpensSse(c)
             again == [opened EXCEPT !.asked = 0]
             new == [again EXCEPT !.answered = {}]
  <2>1. Becomes(o, new) /\ c.stage = "switching"
    BY <1>7 DEF OpensLegacy
  <2>2. c \in Operation /\ ~c.cut /\ c.outcome = "none"
    BY <1>1, <2>1 DEF Sound
  <2> HIDE DEF c
  <2>3. /\ opened \in Operation /\ opened.stage = "opening" /\ ~opened.cut
        /\ opened.outcome = "none" /\ opened.via = "sse" /\ opened.held = {"client", "reader"}
    BY <2>2 DEF OpensSse, Operation, Resources
  <2> HIDE DEF opened
  <2>4. /\ again \in Operation /\ again.stage = "opening" /\ ~again.cut /\ again.outcome = "none"
        /\ again.asked = 0 /\ again.via = "sse" /\ again.held = {"client", "reader"}
    BY <2>3 DEF Operation
  <2> HIDE DEF again
  <2>5. /\ new \in Operation /\ new.stage = "opening" /\ ~new.cut /\ new.outcome = "none"
        /\ new.asked = 0 /\ new.via = "sse" /\ new.held = {"client", "reader"}
    BY <2>4 DEF Operation
  <2> HIDE DEF new
  <2>6. Sound(new)
    BY <2>5 DEF Sound
  <2> QED
    BY <2>1, <2>6, BecomesKeeps
<1>8. CASE CloseEnds(o)
  <2>1. c \in Operation /\ ~c.cut /\ (c.outcome = "ok" => 2 \in c.answered)
    BY <1>1, <1>8 DEF Sound, CloseEnds
  <2>2. Sound(Released(c))
    BY <2>1, ReleasedIsSound
  <2> QED
    BY <1>8, <2>2, BecomesKeeps DEF CloseEnds
<1>9. CASE ToolsAreSaved(o)
  <2> DEFINE new == [c EXCEPT !.stage = "over"]
  <2>1. op' = [op EXCEPT ![o] = new] /\ c.stage = "saving"
        /\ server' = [server EXCEPT ![c.server] = {[r EXCEPT !.tools = {c.config}] : r \in @}]
        /\ UNCHANGED <<secrets, edits>>
    BY <1>9 DEF ToolsAreSaved
  <2>2. /\ new \in Operation /\ new.stage = "over" /\ ~new.cut /\ new.held = {}
        /\ new.outcome = c.outcome /\ new.answered = c.answered
    BY <1>1, <2>1 DEF Sound, Operation
  <2>3. c.server \in Servers /\ c.config \in 0..MaxServerEdits
    BY <1>1 DEF Sound, Operation
  <2> HIDE DEF new, c
  <2>4. Sound(new)
    BY <1>1, <2>2 DEF Sound
  <2>5. op' \in [Operations -> Operation] /\ \A p \in Operations : Sound(op'[p])
    BY <2>1, <2>2, <2>4 DEF IInv
  <2>6. ASSUME NEW r \in Row
        PROVE  [r EXCEPT !.tools = {c.config}] \in Row /\ [r EXCEPT !.tools = {c.config}].auth = r.auth
    BY <2>3 DEF Row
  <2>7. ASSUME NEW s \in Servers
        PROVE  /\ server'[s] = {} \/ \E r \in Row : server'[s] = {r}
               /\ (\E r \in server'[s] : r.auth) <=> (\E r \in server[s] : r.auth)
    <3>1. CASE server[s] = {}
      BY <2>1, <3>1 DEF IInv
    <3>2. ASSUME NEW r \in Row, server[s] = {r}
          PROVE  /\ server'[s] = {} \/ \E q \in Row : server'[s] = {q}
                 /\ (\E q \in server'[s] : q.auth) <=> (\E q \in server[s] : q.auth)
      <4>1. CASE s = c.server
        <5>1. server'[s] = {[r EXCEPT !.tools = {c.config}]}
          BY <2>1, <3>2, <4>1 DEF IInv
        <5> QED
          BY <2>6, <3>2, <5>1
      <4>2. CASE s # c.server
        BY <2>1, <3>2, <4>2 DEF IInv
      <4> QED
        BY <4>1, <4>2
    <3> QED
      BY <3>1, <3>2 DEF IInv, RowsOK
  <2>8. server' \in [Servers -> SUBSET Row]
    <3>1. DOMAIN server' = Servers /\ server' = [s \in Servers |-> server'[s]]
      BY <2>1 DEF IInv
    <3> QED
      BY <2>7, <3>1
  <2>9. RowsOK'
    BY <2>1, <2>7 DEF IInv, RowsOK
  <2> QED
    BY <2>5, <2>8, <2>9 DEF IInv
<1> QED
  BY <1>2, <1>3, <1>4, <1>5, <1>6, <1>7, <1>8, <1>9 DEF OperationSteps

LEMMA StopsKeep ==
  ASSUME IInv, NEW o \in Operations, OperationIsStopped(o)
  PROVE  IInv'
<1> DEFINE c == op[o]
<1>1. Sound(c)
  BY DEF IInv
<1>2. CASE c.stage \in {"opening", "asking"}
  BY <1>2, EndKeeps DEF OperationIsStopped
<1>3. CASE c.stage = "switching"
  <2> DEFINE held == c.held \ {"client"}
             new == [c EXCEPT !.stage = "over", !.outcome = "stopped", !.held = held, !.cut = TRUE]
  <2>1. Becomes(o, new)
    BY <1>3 DEF OperationIsStopped
  <2>2. held \in SUBSET Resources /\ (c.via # "stdio" => "child" \notin held)
    BY <1>1 DEF Sound, Operation
  <2> HIDE DEF held
  <2>3. /\ new \in Operation /\ new.stage = "over" /\ new.cut /\ new.outcome = "stopped"
        /\ new.held = held /\ new.via = c.via
    BY <1>1, <2>2 DEF Sound, Operation
  <2> HIDE DEF new
  <2>4. Sound(new)
    BY <2>2, <2>3 DEF Sound
  <2> QED
    BY <2>1, <2>4, BecomesKeeps
<1>4. CASE c.stage = "closing" /\ c.via = "sse"
  <2>1. c \in Operation /\ ~c.cut /\ (c.outcome = "ok" => 2 \in c.answered)
    BY <1>1, <1>4 DEF Sound
  <2>2. Sound(Released(c))
    BY <2>1, ReleasedIsSound
  <2>3. Becomes(o, Released(c))
    BY <1>4 DEF OperationIsStopped
  <2> QED
    BY <2>2, <2>3, BecomesKeeps
<1>5. CASE c.stage = "closing" /\ c.via # "sse"
  <2> DEFINE held == IF c.auto /\ c.asked = 1 THEN c.held \ {"client"} ELSE c.held
             new == [c EXCEPT !.stage = "over", !.outcome = "stopped", !.cut = TRUE, !.held = held]
  <2>1. Becomes(o, new)
    BY <1>5 DEF OperationIsStopped
  <2>2. held \in SUBSET Resources /\ (c.via # "stdio" => "child" \notin held)
    BY <1>1 DEF Sound, Operation
  <2> HIDE DEF held
  <2>3. /\ new \in Operation /\ new.stage = "over" /\ new.cut /\ new.outcome = "stopped"
        /\ new.held = held /\ new.via = c.via
    BY <1>1, <2>2 DEF Sound, Operation
  <2> HIDE DEF new
  <2>4. Sound(new)
    BY <2>2, <2>3 DEF Sound
  <2> QED
    BY <2>1, <2>4, BecomesKeeps
<1> QED
  BY <1>2, <1>3, <1>4, <1>5 DEF OperationIsStopped

\* What the transports hear: none of it opens, decides or ends an operation.
LEMMA HearingKeeps ==
  ASSUME IInv, NEW o \in Operations, ServerSteps(o)
  PROVE  IInv'
<1> DEFINE c == op[o]
<1>1. Sound(c) /\ c \in Operation
  BY DEF IInv, Sound
<1>2. ASSUME NEW r \in 1..2, NEW verdict \in {"answered", "refused"}, Responds(o, r, verdict)
      PROVE  IInv'
  <2> DEFINE future == IF r = c.asked /\ c.future = "open" THEN verdict ELSE c.future
             answered == c.answered \cup {r}
             new == [c EXCEPT !.answered = answered, !.future = future]
  <2>1. Becomes(o, new) /\ c.stage = "asking"
    BY <1>2 DEF Responds, Resolved
  <2>2. /\ answered \in SUBSET (1..2) /\ c.answered \subseteq answered
        /\ future \in {"open", "answered", "refused", "failed", "legacy"}
        /\ future = "answered" => c.asked \in answered
        /\ c.future # "open" => future # "open"
    BY <1>1, <2>1 DEF Sound, Operation
  <2> HIDE DEF future, answered
  <2>3. /\ new \in Operation /\ new.stage = "asking" /\ new.cut = c.cut /\ new.held = c.held
        /\ new.via = c.via /\ new.asked = c.asked /\ new.outcome = c.outcome
        /\ new.failed = c.failed /\ new.future = future /\ new.answered = answered
    BY <1>1, <2>1, <2>2 DEF Operation
  <2> HIDE DEF new
  <2>4. Sound(new)
    BY <1>1, <2>1, <2>2, <2>3 DEF Sound
  <2> QED
    BY <2>1, <2>4, BecomesKeeps
<1>3. CASE GivesSession(o)
  <2> DEFINE held == c.held \cup {"session"}
             new == [c EXCEPT !.held = held]
  <2>1. Becomes(o, new) /\ c.stage = "asking" /\ c.via = "streamable"
    BY <1>3 DEF GivesSession
  <2>2. held \in SUBSET Resources /\ "child" \notin held
    BY <1>1, <2>1 DEF Sound, Operation, Resources
  <2> HIDE DEF held
  <2>3. /\ new \in Operation /\ new.stage = "asking" /\ new.cut = c.cut /\ new.held = held
        /\ new.via = "streamable" /\ new.asked = c.asked /\ new.outcome = c.outcome
        /\ new.future = c.future /\ new.answered = c.answered
    BY <1>1, <2>1, <2>2 DEF Operation
  <2> HIDE DEF new
  <2>4. Sound(new)
    BY <1>1, <2>1, <2>2, <2>3 DEF Sound
  <2> QED
    BY <2>1, <2>4, BecomesKeeps
<1>4. CASE PostFails(o)
  <2>1. PICK f \in {"failed", "legacy"} : Becomes(o, [c EXCEPT !.future = f])
    BY <1>4 DEF PostFails
  <2> DEFINE new == [c EXCEPT !.future = f]
  <2>2. /\ new \in Operation /\ new.stage = "asking" /\ new.cut = c.cut /\ new.held = c.held
        /\ new.via = c.via /\ new.asked = c.asked /\ new.outcome = c.outcome
        /\ new.failed = c.failed /\ new.future = f /\ new.answered = c.answered
    BY <1>1, <1>4 DEF PostFails, Operation
  <2> HIDE DEF new
  <2>3. Sound(new)
    BY <1>1, <1>4, <2>2 DEF Sound, PostFails
  <2> QED
    BY <2>1, <2>3, BecomesKeeps DEF new
<1>5. ASSUME NEW sameOrigin \in BOOLEAN, EndpointArrives(o, sameOrigin)
      PROVE  IInv'
  <2>1. c.stage = "opening" /\ "reader" \in c.held
    BY <1>5 DEF EndpointArrives
  <2>2. CASE sameOrigin
    <3> DEFINE new == [c EXCEPT !.ready = TRUE]
    <3>1. Becomes(o, new)
      BY <1>5, <2>2 DEF EndpointArrives
    <3>2. /\ new \in Operation /\ new.stage = "opening" /\ new.cut = c.cut /\ new.held = c.held
          /\ new.via = c.via /\ new.asked = c.asked /\ new.outcome = c.outcome
      BY <1>1, <2>1 DEF Operation
    <3> HIDE DEF new
    <3>3. Sound(new)
      BY <1>1, <2>1, <3>2 DEF Sound
    <3> QED
      BY <3>1, <3>3, BecomesKeeps
  <2>3. CASE ~sameOrigin
    <3> DEFINE held == c.held \ {"reader"}
               new == [c EXCEPT !.failed = TRUE, !.held = held]
    <3>1. Becomes(o, new)
      BY <1>5, <2>3 DEF EndpointArrives
    <3>2. held \in SUBSET Resources /\ (c.via # "stdio" => "child" \notin held)
      BY <1>1 DEF Sound, Operation
    <3> HIDE DEF held
    <3>3. /\ new \in Operation /\ new.stage = "opening" /\ new.cut = c.cut /\ new.held = held
          /\ new.via = c.via /\ new.asked = c.asked /\ new.outcome = c.outcome /\ new.failed
      BY <1>1, <2>1, <3>2 DEF Operation
    <3> HIDE DEF new
    <3>4. Sound(new)
      BY <1>1, <2>1, <3>2, <3>3 DEF Sound
    <3> QED
      BY <3>1, <3>4, BecomesKeeps
  <2> QED
    BY <2>2, <2>3
<1>6. CASE StreamEnds(o)
  <2> DEFINE held == c.held \ {"reader"}
             future == IF c.future = "open" THEN "failed" ELSE c.future
             new == [c EXCEPT !.failed = TRUE, !.held = held, !.future = future]
  <2>1. Becomes(o, new) /\ c.stage \in {"opening", "asking"} /\ c.via = "sse"
    BY <1>6 DEF StreamEnds
  <2>2. /\ held \in SUBSET Resources /\ "child" \notin held
        /\ future \in {"open", "answered", "refused", "failed", "legacy"} /\ future # "open"
        /\ future = "answered" => c.future = "answered"
    BY <1>1, <2>1 DEF Sound, Operation
  <2> HIDE DEF held, future
  <2>3. /\ new \in Operation /\ new.stage = c.stage /\ new.cut = c.cut /\ new.held = held
        /\ new.via = "sse" /\ new.asked = c.asked /\ new.outcome = c.outcome
        /\ new.failed /\ new.future = future /\ new.answered = c.answered
    BY <1>1, <2>1, <2>2 DEF Operation
  <2> HIDE DEF new
  <2>4. Sound(new)
    BY <1>1, <2>1, <2>2, <2>3 DEF Sound
  <2> QED
    BY <2>1, <2>4, BecomesKeeps
<1>7. CASE ChildExits(o)
  <2> DEFINE held == c.held \ {"child", "reader"}
             new == [c EXCEPT !.held = held]
  <2>1. Becomes(o, new) /\ "child" \in c.held
    BY <1>7 DEF ChildExits
  <2>2. /\ held \in SUBSET Resources /\ c.via = "stdio"
        /\ c.held = {} => held = {}
    BY <1>1, <2>1 DEF Sound, Operation
  <2> HIDE DEF held
  <2>3. /\ new \in Operation /\ new.stage = c.stage /\ new.cut = c.cut /\ new.held = held
        /\ new.via = "stdio" /\ new.asked = c.asked /\ new.outcome = c.outcome
        /\ new.future = c.future /\ new.answered = c.answered
    BY <1>1, <2>2 DEF Operation
  <2> HIDE DEF new
  <2>4. Sound(new)
    BY <1>1, <2>2, <2>3 DEF Sound
  <2> QED
    BY <2>1, <2>4, BecomesKeeps
<1> QED
  BY <1>2, <1>3, <1>4, <1>5, <1>6, <1>7 DEF ServerSteps

LEMMA EditsKeep ==
  ASSUME IInv, ServerEdits
  PROVE  IInv'
<1> USE McpAssumption
<1>1. edits \in Nat /\ edits <= MaxServerEdits
  BY DEF IInv, RowsOK
<1>2. ASSUME Edits PROVE edits' \in 0..MaxServerEdits /\ op' = op
  BY <1>1, <1>2 DEF Edits
<1>3. ASSUME NEW s \in Servers, NEW t \in Transports, NEW auth \in BOOLEAN,
             CreatesServer(s, t, auth)
      PROVE  IInv'
  <2> DEFINE r == [transport |-> t, config |-> edits', auth |-> auth, tools |-> {}]
  <2>1. edits' \in 0..MaxServerEdits /\ op' = op /\ server' = [server EXCEPT ![s] = {r}]
        /\ secrets' = IF auth THEN secrets \cup {s} ELSE secrets
    BY <1>2, <1>3 DEF CreatesServer
  <2>2. r \in Row /\ r.auth = auth
    BY <2>1 DEF Row
  <2> HIDE DEF r
  <2>3. server' \in [Servers -> SUBSET Row] /\ server'[s] = {r}
        /\ \A q \in Servers \ {s} : server'[q] = server[q]
    BY <2>1, <2>2 DEF IInv
  <2>4. s \notin secrets
    BY <1>3 DEF CreatesServer, IInv, RowsOK
  <2>5. secrets' = {q \in Servers : \E x \in server'[q] : x.auth}
    BY <2>1, <2>2, <2>3, <2>4 DEF IInv, RowsOK
  <2> QED
    BY <2>1, <2>2, <2>3, <2>5 DEF IInv, RowsOK
<1>4. ASSUME NEW s \in Servers, NEW reconfigured \in BOOLEAN, NEW auth \in BOOLEAN,
             UpdatesServer(s, reconfigured, auth)
      PROVE  IInv'
  <2>1. edits' \in 0..MaxServerEdits /\ op' = op
        /\ secrets' = IF auth THEN secrets \cup {s} ELSE secrets \ {s}
    BY <1>2, <1>4 DEF UpdatesServer
  <2>2. PICK r \in server[s] :
          server' = [server EXCEPT ![s] =
            {[r EXCEPT !.config = IF reconfigured THEN edits' ELSE @, !.auth = auth]}]
    BY <1>4 DEF UpdatesServer
  <2>3. r \in Row
    BY DEF IInv
  <2> DEFINE config == IF reconfigured THEN edits' ELSE r.config
             new == [r EXCEPT !.config = config, !.auth = auth]
  <2>4. config \in 0..MaxServerEdits
    BY <2>1, <2>3 DEF Row
  <2>5. server' = [server EXCEPT ![s] = {new}]
    BY <2>2
  <2> HIDE DEF config
  <2>6. new \in Row /\ new.auth = auth
    BY <2>3, <2>4 DEF Row
  <2> HIDE DEF new
  <2>7. server' \in [Servers -> SUBSET Row] /\ server'[s] = {new}
        /\ \A q \in Servers \ {s} : server'[q] = server[q]
    BY <2>5, <2>6 DEF IInv
  <2>8. secrets' = {q \in Servers : \E x \in server'[q] : x.auth}
    BY <2>1, <2>6, <2>7 DEF IInv, RowsOK
  <2> QED
    BY <2>1, <2>6, <2>7, <2>8 DEF IInv, RowsOK
<1>5. ASSUME NEW s \in Servers, DeletesServer(s)
      PROVE  IInv'
  <2>1. edits' \in 0..MaxServerEdits /\ op' = op /\ server' = [server EXCEPT ![s] = {}]
        /\ secrets' = secrets \ {s}
    BY <1>2, <1>5 DEF DeletesServer
  <2>2. server' \in [Servers -> SUBSET Row] /\ server'[s] = {}
        /\ \A q \in Servers \ {s} : server'[q] = server[q]
    BY <2>1 DEF IInv
  <2>3. secrets' = {q \in Servers : \E x \in server'[q] : x.auth}
    BY <2>1, <2>2 DEF IInv, RowsOK
  <2> QED
    BY <2>1, <2>2, <2>3 DEF IInv, RowsOK
<1> QED
  BY <1>3, <1>4, <1>5 DEF ServerEdits

LEMMA Inductive == IInv /\ [McpNext]_mcpVars => IInv'
<1> SUFFICES ASSUME IInv, [McpNext]_mcpVars PROVE IInv'
  OBVIOUS
<1>1. CASE McpNext
  BY <1>1, EditsKeep, OpensKeeps, StepsKeep, StopsKeep, HearingKeeps DEF McpNext
<1>2. CASE UNCHANGED mcpVars
  BY <1>2 DEF mcpVars, IInv, RowsOK
<1> QED
  BY <1>1, <1>2

-----------------------------------------------------------------------------
\* In every reachable state, whatever servers do: an operation that is over has let go of all
\* it held unless a stop cut its close short, a dead stream strands nobody, and a result is
\* the server's response to that very request (mcp/manager.py and the transports).
THEOREM ConnectionsAreSound == McpSpec => []ConnectionsInv
<1>1. McpInit => IInv
  <2> SUFFICES ASSUME McpInit PROVE IInv
    OBVIOUS
  <2>1. NoOperation \in Operation
    <3>1. (CHOOSE s \in Servers : TRUE) \in Servers
      BY McpAssumption
    <3> QED
      BY <3>1, McpAssumption DEF NoOperation, Operation
  <2>2. Sound(NoOperation)
    BY <2>1 DEF NoOperation, Sound
  <2>3. RowsOK /\ server \in [Servers -> SUBSET Row]
    BY McpAssumption DEF McpInit, RowsOK
  <2> QED
    BY <2>1, <2>2, <2>3 DEF McpInit, IInv
<1>2. IInv => ConnectionsInv
  <2> SUFFICES ASSUME IInv PROVE ConnectionsInv
    OBVIOUS
  <2>1. McpTypeOK
    BY DEF IInv, RowsOK, McpTypeOK
  <2>2. OperationsLetGo
    BY DEF IInv, Sound, OperationsLetGo
  <2>3. DeadStreamsStrandNobody
    BY DEF IInv, Sound, DeadStreamsStrandNobody
  <2>4. ResultsAnswerTheirRequest
    BY DEF IInv, Sound, ResultsAnswerTheirRequest
  <2> QED
    BY <2>1, <2>2, <2>3, <2>4 DEF ConnectionsInv
<1> QED
  BY <1>1, <1>2, Inductive, PTL DEF McpSpec

-----------------------------------------------------------------------------
(* The registry of backends: the inductive invariant *)

EditsOfBackends ==
  {NoEdit}
    \cup [op : {"create"}, id : Providers, url : Urls, key : Secrets]
    \cup [op : {"update"}, id : Providers, url : Urls, key : Secrets \cup {Keep},
          current : {s \in KnownBackend : s.origin = "ui"}]
    \cup [op : {"delete"}, id : Providers]

\* What is registered, built, cached and promised, each of its type.
RegistryTypes ==
  /\ spec \in [Providers -> KnownBackend \cup {None}]
  /\ adapter \in [Providers -> StoredBackend \cup {None}]
  /\ cache \in [Providers -> Entry \cup {None}]
  /\ due \in [Providers -> [url : Urls \cup {None}, seen : 0..MaxChanges]]
  /\ epoch \in [Providers -> Nat]

RequestTypes ==
  /\ row \in [Providers -> StoredBackend \cup {None}]
  /\ served \in [Urls -> 0..MaxChanges]
  /\ edit \in [Admins -> EditsOfBackends]
  /\ probe \in [Discoverers -> (SUBSET Urls) \cup {None}]
  /\ listing \in [Listers -> ListingMade \cup {None}]
  /\ operation \in [Operators -> OperationMade \cup {None}]
  /\ raced \subseteq Providers

\* An adapter is built from the backend that is registered.
AdaptersAreCurrent ==
  \A p \in Providers : adapter[p] # None => spec[p] # None /\ adapter[p].url = spec[p].url

\* What is due of a backend is what its present address has served.
DueIsServed ==
  \A p \in Providers : due[p].url # None =>
    /\ due[p].seen <= served[due[p].url]
    /\ spec[p] # None => spec[p].url = due[p].url

\* A listing under way that no change has overtaken shows what is due.
ListingsAreDue ==
  \A l \in Listers : listing[l] # None =>
    LET p == listing[l].id
    IN /\ listing[l].begun <= epoch[p]
       /\ listing[l].begun = epoch[p] /\ due[p].url # None =>
            /\ listing[l].url = due[p].url
            /\ listing[l].seen # None => listing[l].seen >= due[p].seen

Links == AdaptersAreCurrent /\ DueIsServed /\ ListingsAreDue /\ StaleOnlyByRace

RegIInv == RegistryTypes /\ RequestTypes /\ Links /\ ServedAsStored

LEMMA RegIInvImplies == ASSUME RegIInv PROVE RegistryInv
<1>1. RegTypeOK
  <2>1. \A a \in Admins : edit[a].op \in {"none", "create", "update", "delete"}
    BY DEF RegIInv, RequestTypes, EditsOfBackends, NoEdit
  <2>. QED  BY <2>1 DEF RegIInv, RequestTypes, RegistryTypes, RegTypeOK
<1>. QED  BY <1>1 DEF RegistryInv, RegIInv, Links

LEMMA RegInitially == RegInit => RegIInv
<1>. SUFFICES ASSUME RegInit PROVE RegIInv
  OBVIOUS
<1>. USE RegistryAssumption
<1>1. spec \in [Providers -> KnownBackend \cup {None}]
  BY DEF RegInit, KnownBackend, Secrets, Origins
<1>2. \A p \in Providers : spec[p] # None => spec[p].origin = "config"
  BY DEF RegInit
<1>3. due \in [Providers -> [url : Urls \cup {None}, seen : 0..MaxChanges]]
  BY DEF RegInit
<1>4. RegistryTypes
  BY <1>1, <1>3 DEF RegInit, RegistryTypes
<1>5. RequestTypes
  BY DEF RegInit, RequestTypes, EditsOfBackends
<1>6. Links
  BY DEF RegInit, Links, AdaptersAreCurrent, DueIsServed, ListingsAreDue, StaleOnlyByRace
<1>. QED  BY <1>2, <1>4, <1>5, <1>6 DEF RegIInv, ServedAsStored

-----------------------------------------------------------------------------
(* What a completed change does to the registry *)

\* Completed leaves what is due of the type, and the changed backend newer than every listing.
LEMMA CompletedTypes ==
  ASSUME RegistryTypes, RequestTypes, NEW p \in Providers, NEW specs,
         specs \in [Providers -> KnownBackend \cup {None}], Completed(p, specs)
  PROVE  /\ due' \in [Providers -> [url : Urls \cup {None}, seen : 0..MaxChanges]]
         /\ epoch' \in [Providers -> Nat]
         /\ \A q \in Providers : q # p => due'[q] = due[q] /\ epoch'[q] = epoch[q]
         /\ epoch'[p] = epoch[p] + 1
         /\ specs[p] = None => due'[p] = due[p]
         /\ specs[p] # None => /\ due'[p].url = specs[p].url
                               /\ due'[p].seen = served[specs[p].url]
<1>. DEFINE fresh == IF specs[p] = None THEN due[p]
                     ELSE [url |-> specs[p].url, seen |-> served[specs[p].url]]
<1>1. fresh \in [url : Urls \cup {None}, seen : 0..MaxChanges]
  BY DEF RegistryTypes, RequestTypes, KnownBackend
<1>2. due' = [due EXCEPT ![p] = fresh] /\ epoch' = [epoch EXCEPT ![p] = @ + 1]
  BY DEF Completed
<1>3. specs[p] # None => /\ fresh.url = specs[p].url
                         /\ fresh.seen = served[specs[p].url]
  OBVIOUS
<1>4. specs[p] = None => fresh = due[p]
  OBVIOUS
<1>. HIDE DEF fresh
<1>. QED  BY <1>1, <1>2, <1>3, <1>4 DEF RegistryTypes

\* A change of one backend that drops its adapter and listing, or only its listing.
LEMMA ChangeKeeps ==
  ASSUME RegIInv, NEW p \in Providers,
         UNCHANGED <<served, listing>>,
         spec' \in [Providers -> KnownBackend \cup {None}],
         \A q \in Providers : q # p => spec'[q] = spec[q],
         \/ adapter' = [adapter EXCEPT ![p] = None]
         \/ UNCHANGED <<adapter, spec>>,
         cache' = [cache EXCEPT ![p] = None],
         Completed(p, spec')
  PROVE  RegistryTypes' /\ Links'
<1>. USE RegistryAssumption DEF RegIInv
<1>1. /\ due' \in [Providers -> [url : Urls \cup {None}, seen : 0..MaxChanges]]
      /\ epoch' \in [Providers -> Nat]
      /\ \A q \in Providers : q # p => due'[q] = due[q] /\ epoch'[q] = epoch[q]
      /\ epoch'[p] = epoch[p] + 1
      /\ spec'[p] = None => due'[p] = due[p]
      /\ spec'[p] # None => /\ due'[p].url = spec'[p].url
                            /\ due'[p].seen = served[spec'[p].url]
  BY CompletedTypes
<1>2. RegistryTypes'
  BY <1>1 DEF RegistryTypes
<1>3. AdaptersAreCurrent'
  BY DEF AdaptersAreCurrent, Links, RegistryTypes
<1>4. DueIsServed'
  <2>. SUFFICES ASSUME NEW q \in Providers, due'[q].url # None
                PROVE  /\ due'[q].seen <= served[due'[q].url]
                       /\ spec'[q] # None => spec'[q].url = due'[q].url
    BY DEF DueIsServed
  <2>1. CASE q # p
    BY <2>1, <1>1 DEF DueIsServed, Links
  <2>2. CASE q = p /\ spec'[p] = None
    BY <2>2, <1>1 DEF DueIsServed, Links
  <2>3. CASE q = p /\ spec'[p] # None
    <3>1. spec'[p].url \in Urls
      BY <2>3 DEF KnownBackend
    <3>. QED  BY <2>3, <3>1, <1>1 DEF RequestTypes
  <2>. QED  BY <2>1, <2>2, <2>3
<1>5. ListingsAreDue'
  <2>. SUFFICES ASSUME NEW l \in Listers, listing[l] # None
                PROVE  LET q == listing[l].id
                       IN /\ listing[l].begun <= epoch'[q]
                          /\ listing[l].begun = epoch'[q] /\ due'[q].url # None =>
                               /\ listing[l].url = due'[q].url
                               /\ listing[l].seen # None => listing[l].seen >= due'[q].seen
    BY DEF ListingsAreDue
  <2>1. listing[l].id \in Providers /\ listing[l].begun \in Nat
    BY DEF RequestTypes, ListingMade
  <2>2. CASE listing[l].id # p
    BY <2>1, <2>2, <1>1 DEF ListingsAreDue, Links
  <2>3. CASE listing[l].id = p
    BY <2>1, <2>3, <1>1 DEF ListingsAreDue, Links, RegistryTypes
  <2>. QED  BY <2>2, <2>3
<1>6. StaleOnlyByRace'
  <2>. SUFFICES ASSUME NEW q \in Providers, cache'[q] # None,
                       cache'[q].begun = cache'[q].stored, due'[q].url # None
                PROVE  cache'[q].url = due'[q].url /\ cache'[q].seen >= due'[q].seen
    BY DEF StaleOnlyByRace
  <2>1. q # p /\ cache'[q] = cache[q]
    BY DEF RegistryTypes
  <2>. QED  BY <2>1, <1>1 DEF StaleOnlyByRace, Links
<1>. QED  BY <1>2, <1>3, <1>4, <1>5, <1>6 DEF Links

LEMMA RegisterKeeps ==
  ASSUME RegIInv, NEW p \in Providers, NEW s \in KnownBackend, Register(p, s),
         UNCHANGED <<served, listing>>
  PROVE  /\ RegistryTypes' /\ Links'
         /\ spec'[p] = s /\ \A q \in Providers : q # p => spec'[q] = spec[q]
<1>1. spec' = [spec EXCEPT ![p] = s] /\ adapter' = [adapter EXCEPT ![p] = None]
      /\ cache' = [cache EXCEPT ![p] = None] /\ Completed(p, spec')
  BY DEF Register
<1>2. spec' \in [Providers -> KnownBackend \cup {None}] /\ spec'[p] = s
      /\ \A q \in Providers : q # p => spec'[q] = spec[q]
  BY <1>1 DEF RegIInv, RegistryTypes
<1>3. RegistryTypes' /\ Links'
  BY <1>1, <1>2, ChangeKeeps
<1>. QED  BY <1>2, <1>3

LEMMA RemovedKeeps ==
  ASSUME RegIInv, NEW p \in Providers, Removed(p), UNCHANGED <<served, listing>>
  PROVE  /\ RegistryTypes' /\ Links'
         /\ spec'[p] = None /\ \A q \in Providers : q # p => spec'[q] = spec[q]
<1>1. spec' = [spec EXCEPT ![p] = None] /\ adapter' = [adapter EXCEPT ![p] = None]
      /\ cache' = [cache EXCEPT ![p] = None] /\ Completed(p, spec')
  BY DEF Removed
<1>2. spec' \in [Providers -> KnownBackend \cup {None}] /\ spec'[p] = None
      /\ \A q \in Providers : q # p => spec'[q] = spec[q]
  BY <1>1 DEF RegIInv, RegistryTypes
<1>3. RegistryTypes' /\ Links'
  BY <1>1, <1>2, ChangeKeeps
<1>. QED  BY <1>2, <1>3

LEMMA InvalidatedKeeps ==
  ASSUME RegIInv, NEW p \in Providers, Invalidated(p), UNCHANGED <<spec, adapter, served, listing>>
  PROVE  RegistryTypes' /\ Links'
<1>1. cache' = [cache EXCEPT ![p] = None] /\ Completed(p, spec')
  BY DEF Invalidated, Completed
<1>2. spec' \in [Providers -> KnownBackend \cup {None}]
  BY DEF RegIInv, RegistryTypes
<1>. QED  BY <1>1, <1>2, ChangeKeeps

\* An adapter is built where there is none.
LEMMA BuiltKeeps ==
  ASSUME RegIInv, NEW p \in Providers, spec[p] # None,
         adapter' = [adapter EXCEPT ![p] = Adapter(p)],
         UNCHANGED <<spec, cache, served, due, epoch>>
  PROVE  /\ RegistryTypes' /\ AdaptersAreCurrent' /\ DueIsServed' /\ StaleOnlyByRace'
         /\ Adapter(p) \in StoredBackend /\ Adapter(p).url = spec[p].url
<1>. USE RegistryAssumption DEF RegIInv
<1>1. Adapter(p) \in StoredBackend /\ Adapter(p).url = spec[p].url
  BY DEF RegistryTypes, Adapter, KnownBackend, StoredBackend, Links, AdaptersAreCurrent
<1>2. RegistryTypes'
  BY <1>1 DEF RegistryTypes
<1>3. AdaptersAreCurrent'
  BY <1>1 DEF RegistryTypes, Links, AdaptersAreCurrent
<1>4. DueIsServed' /\ StaleOnlyByRace'
  BY DEF Links, DueIsServed, StaleOnlyByRace
<1>. QED  BY <1>1, <1>2, <1>3, <1>4

\* What an address serves only grows.
LEMMA ServedMoreKeeps ==
  ASSUME RegIInv, NEW url \in Urls, BackendChanges(url),
         UNCHANGED <<spec, adapter, cache, due, epoch, listing>>
  PROVE  RegistryTypes' /\ Links' /\ served' \in [Urls -> 0..MaxChanges]
<1>. USE RegistryAssumption DEF RegIInv
<1>1. served' \in [Urls -> 0..MaxChanges] /\ \A u \in Urls : served'[u] >= served[u]
  BY DEF RequestTypes, BackendChanges
<1>2. DueIsServed'
  <2>. SUFFICES ASSUME NEW q \in Providers, due[q].url # None
                PROVE  due[q].seen <= served'[due[q].url]
    BY DEF DueIsServed, Links
  <2>1. due[q].url \in Urls /\ due[q].seen \in Nat
    BY DEF RegistryTypes
  <2>2. due[q].seen <= served[due[q].url]
    BY DEF DueIsServed, Links
  <2>3. served[due[q].url] \in Nat /\ served'[due[q].url] \in Nat
    BY <1>1, <2>1 DEF RequestTypes
  <2>. QED  BY <1>1, <2>1, <2>2, <2>3
<1>3. RegistryTypes' /\ AdaptersAreCurrent' /\ ListingsAreDue' /\ StaleOnlyByRace'
  BY DEF RegistryTypes, Links, AdaptersAreCurrent, ListingsAreDue, StaleOnlyByRace
<1>. QED  BY <1>1, <1>2, <1>3 DEF Links

\* Nothing the links speak of changes.
LEMMA LinksAside ==
  ASSUME RegIInv, UNCHANGED <<spec, adapter, cache, served, due, epoch, listing>>
  PROVE  RegistryTypes' /\ Links'
BY DEF RegIInv, RegistryTypes, Links, AdaptersAreCurrent, DueIsServed, ListingsAreDue,
       StaleOnlyByRace

-----------------------------------------------------------------------------
(* The steps *)

LEMMA EditTypes ==
  ASSUME RegIInv, NEW a \in Admins, edit[a] # NoEdit
  PROVE  /\ edit[a].id \in Providers
         /\ edit[a].op = "create" => edit[a].url \in Urls /\ edit[a].key \in Secrets
         /\ edit[a].op = "update" => /\ edit[a].url \in Urls /\ edit[a].key \in Secrets \cup {Keep}
                                     /\ edit[a].current \in KnownBackend
                                     /\ edit[a].current.origin = "ui"
<1>1. edit[a] \in EditsOfBackends
  BY DEF RegIInv, RequestTypes
<1>. QED  BY <1>1 DEF EditsOfBackends

LEMMA EditEnds ==
  ASSUME RegIInv, NEW a \in Admins
  PROVE  /\ edit[a].op \in {"create", "update", "delete"} => edit[a] # NoEdit
         /\ [edit EXCEPT ![a] = NoEdit] \in [Admins -> EditsOfBackends]
BY DEF RegIInv, RequestTypes, EditsOfBackends, NoEdit

LEMMA EditStepsKeep == ASSUME RegIInv, EditSteps PROVE RegIInv'
<1>. USE RegistryAssumption
<1>1. ASSUME NEW a \in Admins, NEW p \in Providers, NEW u \in Urls, NEW k \in Secrets,
             CreateBegins(a, p, u, k)
      PROVE RegIInv'
  <2>1. [op |-> "create", id |-> p, url |-> u, key |-> k] \in EditsOfBackends
    BY DEF EditsOfBackends
  <2>2. edit' \in [Admins -> EditsOfBackends]
    BY <1>1, <2>1 DEF CreateBegins, RegIInv, RequestTypes
  <2>3. RegistryTypes' /\ Links'
    BY <1>1, LinksAside DEF CreateBegins
  <2>. QED  BY <1>1, <2>2, <2>3 DEF CreateBegins, RegIInv, RequestTypes, ServedAsStored
<1>2. ASSUME NEW a \in Admins, NEW p \in Providers, NEW u \in Urls \cup {Keep},
             NEW k \in Secrets \cup {Keep}, UpdateBegins(a, p, u, k)
      PROVE RegIInv'
  <2>0. spec[p] \in KnownBackend /\ spec[p].origin = "ui" /\ spec[p].url \in Urls
    BY <1>2 DEF UpdateBegins, RegIInv, RegistryTypes, KnownBackend
  <2>1. [op |-> "update", id |-> p, url |-> IF u = Keep THEN spec[p].url ELSE u,
         key |-> k, current |-> spec[p]] \in EditsOfBackends
    BY <2>0 DEF EditsOfBackends
  <2>2. edit' \in [Admins -> EditsOfBackends]
    BY <1>2, <2>1 DEF UpdateBegins, RegIInv, RequestTypes
  <2>3. RegistryTypes' /\ Links'
    BY <1>2, LinksAside DEF UpdateBegins
  <2>. QED  BY <1>2, <2>2, <2>3 DEF UpdateBegins, RegIInv, RequestTypes, ServedAsStored
<1>3. ASSUME NEW a \in Admins, NEW p \in Providers, DeleteBegins(a, p)
      PROVE RegIInv'
  <2>1. [op |-> "delete", id |-> p] \in EditsOfBackends
    BY DEF EditsOfBackends
  <2>2. edit' \in [Admins -> EditsOfBackends]
    BY <1>3, <2>1 DEF DeleteBegins, RegIInv, RequestTypes
  <2>3. RegistryTypes' /\ Links'
    BY <1>3, LinksAside DEF DeleteBegins
  <2>. QED  BY <1>3, <2>2, <2>3 DEF DeleteBegins, RegIInv, RequestTypes, ServedAsStored
<1>4. ASSUME NEW a \in Admins, CreateCommits(a) PROVE RegIInv'
  <2>. DEFINE p == edit[a].id
              s == [url |-> edit[a].url, key |-> edit[a].key, origin |-> "ui"]
              r == [url |-> edit[a].url, key |-> edit[a].key]
  <2>1. p \in Providers /\ edit[a].url \in Urls /\ edit[a].key \in Secrets
    BY <1>4, EditTypes, EditEnds DEF CreateCommits
  <2>2. edit' \in [Admins -> EditsOfBackends]
    BY <1>4, EditEnds DEF CreateCommits
  <2>3. CASE row[p] # None
    <3>1. RegistryTypes' /\ Links'
      BY <1>4, <2>3, LinksAside DEF CreateCommits
    <3>. QED  BY <1>4, <2>2, <2>3, <3>1 DEF CreateCommits, RegIInv, RequestTypes, ServedAsStored
  <2>4. CASE row[p] = None
    <3>1. s \in KnownBackend /\ r \in StoredBackend
      BY <2>1 DEF KnownBackend, StoredBackend, Origins
    <3>2. Register(p, s) /\ row' = [row EXCEPT ![p] = r] /\ raced' = raced \ {p}
          /\ UNCHANGED <<served, probe, listing, operation>>
      BY <1>4, <2>4 DEF CreateCommits
    <3>3. /\ RegistryTypes' /\ Links'
          /\ spec'[p] = s /\ \A q \in Providers : q # p => spec'[q] = spec[q]
      BY <2>1, <3>1, <3>2, RegisterKeeps
    <3>4. RequestTypes'
      BY <2>1, <2>2, <3>1, <3>2 DEF RegIInv, RequestTypes
    <3>5. row'[p] = r /\ \A q \in Providers : q # p => row'[q] = row[q]
      BY <2>1, <3>2 DEF RegIInv, RequestTypes
    <3>6. ServedAsStored'
      <4>. SUFFICES ASSUME NEW q \in Providers \ raced', spec'[q] # None, spec'[q].origin = "ui"
                    PROVE  row'[q] # None /\ row'[q].url = spec'[q].url /\ row'[q].key = spec'[q].key
        BY DEF ServedAsStored
      <4>1. CASE q = p
        BY <4>1, <3>1, <3>3, <3>5
      <4>2. CASE q # p
        BY <4>2, <3>2, <3>3, <3>5 DEF RegIInv, ServedAsStored
      <4>. QED  BY <4>1, <4>2
    <3>. QED  BY <3>3, <3>4, <3>6 DEF RegIInv
  <2>. QED  BY <2>3, <2>4
<1>5. ASSUME NEW a \in Admins, UpdateCommits(a) PROVE RegIInv'
  <2>. DEFINE e == edit[a]
              p == e.id
              s == [url |-> e.url, origin |-> "ui",
                    key |-> IF e.key = Keep THEN e.current.key ELSE e.key]
              r == [url |-> e.url, key |-> IF e.key = Keep THEN row[p].key ELSE e.key]
  <2>1. /\ p \in Providers /\ e.url \in Urls /\ e.key \in Secrets \cup {Keep}
        /\ e.current \in KnownBackend /\ e.current.origin = "ui"
    BY <1>5, EditTypes, EditEnds DEF UpdateCommits
  <2>2. edit' \in [Admins -> EditsOfBackends]
    BY <1>5, EditEnds DEF UpdateCommits
  <2>3. CASE row[p] = None
    <3>1. RegistryTypes' /\ Links'
      BY <1>5, <2>3, LinksAside DEF UpdateCommits
    <3>. QED  BY <1>5, <2>2, <2>3, <3>1 DEF UpdateCommits, RegIInv, RequestTypes, ServedAsStored
  <2>4. CASE row[p] # None
    <3>0. row[p] \in StoredBackend
      BY <2>1, <2>4 DEF RegIInv, RequestTypes
    <3>1. s \in KnownBackend /\ r \in StoredBackend
      BY <2>1, <3>0 DEF KnownBackend, StoredBackend, Origins
    <3>2. /\ Register(p, s) /\ row' = [row EXCEPT ![p] = r]
          /\ raced' = IF spec[p] = e.current THEN raced ELSE raced \cup {p}
          /\ UNCHANGED <<served, probe, listing, operation>>
      BY <1>5, <2>1, <2>4 DEF UpdateCommits, RegIInv, RequestTypes
    <3>3. /\ RegistryTypes' /\ Links'
          /\ spec'[p] = s /\ \A q \in Providers : q # p => spec'[q] = spec[q]
      BY <2>1, <3>1, <3>2, RegisterKeeps
    <3>4. RequestTypes'
      BY <2>1, <2>2, <3>1, <3>2 DEF RegIInv, RequestTypes
    <3>5. row'[p] = r /\ \A q \in Providers : q # p => row'[q] = row[q]
      BY <2>1, <3>2 DEF RegIInv, RequestTypes
    <3>6. ServedAsStored'
      <4>. SUFFICES ASSUME NEW q \in Providers \ raced', spec'[q] # None, spec'[q].origin = "ui"
                    PROVE  row'[q] # None /\ row'[q].url = spec'[q].url /\ row'[q].key = spec'[q].key
        BY DEF ServedAsStored
      <4>1. CASE q = p
        <5>1. spec[p] = e.current /\ p \notin raced
          BY <4>1, <3>2
        <5>2. row[p].key = e.current.key
          BY <5>1, <2>1 DEF RegIInv, ServedAsStored
        <5>. QED  BY <4>1, <5>2, <3>1, <3>3, <3>5
      <4>2. CASE q # p
        BY <4>2, <3>2, <3>3, <3>5 DEF RegIInv, ServedAsStored
      <4>. QED  BY <4>1, <4>2
    <3>. QED  BY <3>3, <3>4, <3>6 DEF RegIInv
  <2>. QED  BY <2>3, <2>4
<1>6. ASSUME NEW a \in Admins, DeleteCommits(a) PROVE RegIInv'
  <2>. DEFINE p == edit[a].id
  <2>1. p \in Providers
    BY <1>6, EditTypes, EditEnds DEF DeleteCommits
  <2>2. edit' \in [Admins -> EditsOfBackends]
    BY <1>6, EditEnds DEF DeleteCommits
  <2>3. Removed(p) /\ row' = [row EXCEPT ![p] = None] /\ raced' = raced \ {p}
        /\ UNCHANGED <<served, probe, listing, operation>>
    BY <1>6 DEF DeleteCommits
  <2>4. /\ RegistryTypes' /\ Links'
        /\ spec'[p] = None /\ \A q \in Providers : q # p => spec'[q] = spec[q]
    BY <2>1, <2>3, RemovedKeeps
  <2>5. RequestTypes'
    BY <2>1, <2>2, <2>3 DEF RegIInv, RequestTypes
  <2>6. \A q \in Providers : q # p => row'[q] = row[q]
    BY <2>1, <2>3 DEF RegIInv, RequestTypes
  <2>7. ServedAsStored'
    BY <2>3, <2>4, <2>6 DEF RegIInv, ServedAsStored
  <2>. QED  BY <2>4, <2>5, <2>7 DEF RegIInv
<1>7. ASSUME NEW a \in Admins, EditFails(a) PROVE RegIInv'
  <2>1. RegistryTypes' /\ Links'
    BY <1>7, LinksAside DEF EditFails
  <2>2. edit' \in [Admins -> EditsOfBackends]
    BY <1>7, EditEnds DEF EditFails
  <2>. QED  BY <1>7, <2>1, <2>2 DEF EditFails, RegIInv, RequestTypes, ServedAsStored
<1>. QED  BY <1>1, <1>2, <1>3, <1>4, <1>5, <1>6, <1>7 DEF EditSteps

LEMMA RestartsKeep == ASSUME RegIInv, Restarts PROVE RegIInv'
<1>. USE RegistryAssumption
<1>1. spec' \in [Providers -> KnownBackend \cup {None}]
  <2>. SUFFICES ASSUME NEW p \in Providers PROVE spec'[p] \in KnownBackend \cup {None}
    BY DEF Restarts
  <2>1. row[p] # None =>
          [url |-> row[p].url, key |-> row[p].key, origin |-> "ui"] \in KnownBackend
    BY DEF RegIInv, RequestTypes, StoredBackend, KnownBackend, Origins
  <2>. QED  BY <2>1 DEF Restarts, RegIInv, RegistryTypes
<1>2. RegistryTypes'
  BY <1>1 DEF Restarts, RegIInv, RegistryTypes
<1>3. RequestTypes'
  BY DEF Restarts, RegIInv, RequestTypes, EditsOfBackends
<1>4. Links'
  BY DEF Restarts, Links, AdaptersAreCurrent, DueIsServed, ListingsAreDue, StaleOnlyByRace
<1>5. ServedAsStored'
  BY DEF Restarts, RegIInv, ServedAsStored
<1>. QED  BY <1>2, <1>3, <1>4, <1>5 DEF RegIInv

LEMMA DiscoveryStepsKeep == ASSUME RegIInv, DiscoverySteps PROVE RegIInv'
<1>. USE RegistryAssumption
<1>1. ASSUME NEW d \in Discoverers, DiscoverBegins(d) PROVE RegIInv'
  <2>1. Known \in SUBSET Urls
    BY DEF Known, RegIInv, RegistryTypes, KnownBackend
  <2>2. probe' \in [Discoverers -> (SUBSET Urls) \cup {None}]
    BY <1>1, <2>1 DEF DiscoverBegins, RegIInv, RequestTypes
  <2>3. RegistryTypes' /\ Links'
    BY <1>1, LinksAside DEF DiscoverBegins
  <2>. QED  BY <1>1, <2>2, <2>3 DEF DiscoverBegins, RegIInv, RequestTypes, ServedAsStored
<1>2. ASSUME NEW d \in Discoverers, DiscoverEnds(d) PROVE RegIInv'
  <2>1. RegistryTypes' /\ Links'
    BY <1>2, LinksAside DEF DiscoverEnds
  <2>. QED  BY <1>2, <2>1 DEF DiscoverEnds, RegIInv, RequestTypes, ServedAsStored
<1>3. ASSUME NEW d \in Discoverers, NEW p \in Providers, DiscoverAdds(d, p) PROVE RegIInv'
  <2>. DEFINE s == [url |-> Loopback, key |-> None, origin |-> "autodiscovered"]
  <2>1. s \in KnownBackend
    BY DEF KnownBackend, Secrets, Origins
  <2>2. Register(p, s) /\ probe' = [probe EXCEPT ![d] = None]
        /\ UNCHANGED <<row, served, edit, listing, operation, raced>>
    BY <1>3 DEF DiscoverAdds
  <2>3. /\ RegistryTypes' /\ Links'
        /\ spec'[p] = s /\ \A q \in Providers : q # p => spec'[q] = spec[q]
    BY <2>1, <2>2, RegisterKeeps
  <2>4. RequestTypes'
    BY <2>2 DEF RegIInv, RequestTypes
  <2>5. ServedAsStored'
    BY <2>2, <2>3 DEF RegIInv, ServedAsStored
  <2>. QED  BY <2>3, <2>4, <2>5 DEF RegIInv
<1>. QED  BY <1>1, <1>2, <1>3 DEF DiscoverySteps

\* What may happen to the listings under way when nothing else that is linked changes.
LEMMA ListingAside ==
  ASSUME RegIInv, NEW l \in Listers, NEW made \in ListingMade \cup {None},
         listing' = [listing EXCEPT ![l] = made],
         made # None =>
           /\ made.begun <= epoch[made.id]
           /\ made.begun = epoch[made.id] /\ due[made.id].url # None =>
                /\ made.url = due[made.id].url
                /\ made.seen # None => made.seen >= due[made.id].seen,
         UNCHANGED <<epoch, due>>
  PROVE  listing' \in [Listers -> ListingMade \cup {None}] /\ ListingsAreDue'
<1>1. listing' \in [Listers -> ListingMade \cup {None}]
  BY DEF RegIInv, RequestTypes
<1>2. ListingsAreDue'
  <2>. SUFFICES ASSUME NEW k \in Listers, listing'[k] # None
                PROVE  LET p == listing'[k].id
                       IN /\ listing'[k].begun <= epoch[p]
                          /\ listing'[k].begun = epoch[p] /\ due[p].url # None =>
                               /\ listing'[k].url = due[p].url
                               /\ listing'[k].seen # None => listing'[k].seen >= due[p].seen
    BY DEF ListingsAreDue
  <2>1. CASE k = l
    <3>1. listing'[k] = made
      BY <2>1 DEF RegIInv, RequestTypes
    <3>. QED  BY <3>1
  <2>2. CASE k # l
    <3>1. listing'[k] = listing[k]
      BY <2>2 DEF RegIInv, RequestTypes
    <3>. QED  BY <3>1 DEF RegIInv, Links, ListingsAreDue
  <2>. QED  BY <2>1, <2>2
<1>. QED  BY <1>1, <1>2

LEMMA ListingIsTyped ==
  ASSUME RegIInv, NEW l \in Listers, listing[l] # None
  PROVE  /\ listing[l] \in ListingMade
         /\ listing[l].id \in Providers /\ listing[l].url \in Urls
         /\ listing[l].begun \in Nat /\ listing[l].seen \in Nat \cup {None}
BY DEF RegIInv, RequestTypes, ListingMade

LEMMA OperationIsTyped ==
  ASSUME RegIInv, NEW o \in Operators, operation[o] # None
  PROVE  operation[o].id \in Providers /\ operation[o].url \in Urls
BY DEF RegIInv, RequestTypes, OperationMade

LEMMA ListingStepsKeep == ASSUME RegIInv, ListingSteps PROVE RegIInv'
<1>. USE RegistryAssumption
<1>1. ASSUME NEW l \in Listers, NEW p \in Providers, ListBegins(l, p) PROVE RegIInv'
  <2>. DEFINE made == [id |-> p, url |-> Adapter(p).url, begun |-> epoch[p], seen |-> None]
  <2>1. /\ RegistryTypes' /\ AdaptersAreCurrent' /\ DueIsServed' /\ StaleOnlyByRace'
        /\ Adapter(p) \in StoredBackend /\ Adapter(p).url = spec[p].url
    BY <1>1, BuiltKeeps DEF ListBegins
  <2>2. made \in ListingMade
    BY <2>1 DEF ListingMade, StoredBackend, RegIInv, RegistryTypes
  <2>3. due[p].url # None => spec[p].url = due[p].url
    BY <1>1 DEF ListBegins, RegIInv, Links, DueIsServed
  <2>4. listing' \in [Listers -> ListingMade \cup {None}] /\ ListingsAreDue'
    <3>1. listing' = [listing EXCEPT ![l] = made] /\ UNCHANGED <<epoch, due>>
      BY <1>1 DEF ListBegins
    <3>2. /\ made.begun <= epoch[made.id]
          /\ made.begun = epoch[made.id] /\ due[made.id].url # None =>
               /\ made.url = due[made.id].url
               /\ made.seen # None => made.seen >= due[made.id].seen
      BY <2>1, <2>3 DEF RegIInv, RegistryTypes
    <3>. HIDE DEF made
    <3>. QED  BY <2>2, <3>1, <3>2, ListingAside
  <2>. QED  BY <1>1, <2>1, <2>4 DEF ListBegins, RegIInv, RequestTypes, Links, ServedAsStored
<1>2. ASSUME NEW l \in Listers, Answers(l) PROVE RegIInv'
  <2>. DEFINE p == listing[l].id
              made == [listing[l] EXCEPT !.seen = served[listing[l].url]]
  <2>1. /\ listing[l] \in ListingMade /\ p \in Providers /\ listing[l].url \in Urls
        /\ listing[l].begun \in Nat
    BY <1>2, ListingIsTyped DEF Answers
  <2>2. served[listing[l].url] \in Nat
    BY <2>1 DEF RegIInv, RequestTypes
  <2>3. made \in ListingMade
    BY <2>1, <2>2 DEF ListingMade
  <2>4. /\ made.id = p /\ made.url = listing[l].url /\ made.begun = listing[l].begun
        /\ made.seen = served[listing[l].url]
    BY <2>1 DEF ListingMade
  <2>5. /\ listing[l].begun <= epoch[p]
        /\ listing[l].begun = epoch[p] /\ due[p].url # None => listing[l].url = due[p].url
    BY <1>2 DEF Answers, RegIInv, Links, ListingsAreDue
  <2>6. due[p].url # None => due[p].seen <= served[due[p].url]
    BY <2>1 DEF RegIInv, Links, DueIsServed
  <2>7. due[p].seen \in Nat
    BY <2>1 DEF RegIInv, RegistryTypes
  <2>8. listing' = [listing EXCEPT ![l] = made] /\ UNCHANGED <<epoch, due>>
    BY <1>2, <2>1 DEF Answers, RegIInv, RequestTypes
  <2>9. /\ made.begun <= epoch[made.id]
        /\ made.begun = epoch[made.id] /\ due[made.id].url # None =>
             /\ made.url = due[made.id].url
             /\ made.seen # None => made.seen >= due[made.id].seen
    <3>. HIDE DEF made
    <3>. QED  BY <2>2, <2>4, <2>5, <2>6, <2>7
  <2>10. listing' \in [Listers -> ListingMade \cup {None}] /\ ListingsAreDue'
    <3>. HIDE DEF made
    <3>. QED  BY <2>3, <2>8, <2>9, ListingAside
  <2>11. RegistryTypes' /\ AdaptersAreCurrent' /\ DueIsServed' /\ StaleOnlyByRace'
    BY <1>2 DEF Answers, RegIInv, RegistryTypes, Links, AdaptersAreCurrent, DueIsServed,
                StaleOnlyByRace
  <2>. QED  BY <1>2, <2>10, <2>11 DEF Answers, RegIInv, RequestTypes, Links, ServedAsStored
<1>3. ASSUME NEW l \in Listers, ListStores(l) PROVE RegIInv'
  <2>. DEFINE p == listing[l].id
              entry == [url |-> listing[l].url, seen |-> listing[l].seen,
                        begun |-> listing[l].begun, stored |-> epoch[p]]
  <2>1. /\ p \in Providers /\ listing[l].url \in Urls /\ listing[l].begun \in Nat
        /\ listing[l].seen \in Nat
    BY <1>3, ListingIsTyped DEF ListStores
  <2>2. entry \in Entry
    BY <2>1 DEF Entry, RegIInv, RegistryTypes
  <2>3. cache' = [cache EXCEPT ![p] = entry] /\ listing' = [listing EXCEPT ![l] = None]
        /\ UNCHANGED <<row, spec, adapter, served, edit, probe, operation, due, epoch, raced>>
    BY <1>3 DEF ListStores
  <2>4. RegistryTypes'
    BY <2>2, <2>3 DEF RegIInv, RegistryTypes
  <2>5. listing' \in [Listers -> ListingMade \cup {None}] /\ ListingsAreDue'
    BY <2>3, ListingAside
  <2>6. entry.begun = entry.stored /\ due[p].url # None =>
          entry.url = due[p].url /\ entry.seen >= due[p].seen
    BY <1>3, <2>1 DEF ListStores, RegIInv, Links, ListingsAreDue
  <2>7. StaleOnlyByRace'
    <3>. HIDE DEF entry
    <3>. SUFFICES ASSUME NEW q \in Providers, cache'[q] # None,
                         cache'[q].begun = cache'[q].stored, due[q].url # None
                  PROVE  cache'[q].url = due[q].url /\ cache'[q].seen >= due[q].seen
      BY <2>3 DEF StaleOnlyByRace
    <3>1. CASE q = p
      BY <3>1, <2>3, <2>6 DEF RegIInv, RegistryTypes
    <3>2. CASE q # p
      BY <3>2, <2>3 DEF RegIInv, RegistryTypes, Links, StaleOnlyByRace
    <3>. QED  BY <3>1, <3>2
  <2>8. AdaptersAreCurrent' /\ DueIsServed' /\ ServedAsStored'
    BY <2>3 DEF RegIInv, Links, AdaptersAreCurrent, DueIsServed, ServedAsStored
  <2>. QED  BY <2>3, <2>4, <2>5, <2>7, <2>8 DEF RegIInv, RequestTypes, Links
<1>4. ASSUME NEW l \in Listers, ListFails(l) PROVE RegIInv'
  <2>1. listing' \in [Listers -> ListingMade \cup {None}] /\ ListingsAreDue'
    BY <1>4, ListingAside DEF ListFails
  <2>2. RegistryTypes' /\ AdaptersAreCurrent' /\ DueIsServed' /\ StaleOnlyByRace'
    BY <1>4 DEF ListFails, RegIInv, RegistryTypes, Links, AdaptersAreCurrent, DueIsServed,
                StaleOnlyByRace
  <2>. QED  BY <1>4, <2>1, <2>2 DEF ListFails, RegIInv, RequestTypes, Links, ServedAsStored
<1>5. ASSUME NEW p \in Providers, Refreshes(p) PROVE RegIInv'
  <2>1. cache' = [cache EXCEPT ![p] = None]
        /\ UNCHANGED <<row, spec, adapter, served, edit, probe, listing, operation, due, epoch,
                       raced>>
    BY <1>5 DEF Refreshes
  <2>2. RegistryTypes'
    BY <2>1 DEF RegIInv, RegistryTypes
  <2>3. StaleOnlyByRace'
    <3>. SUFFICES ASSUME NEW q \in Providers, cache'[q] # None,
                         cache'[q].begun = cache'[q].stored, due[q].url # None
                  PROVE  cache'[q].url = due[q].url /\ cache'[q].seen >= due[q].seen
      BY <2>1 DEF StaleOnlyByRace
    <3>1. cache'[q] = cache[q]
      BY <2>1 DEF RegIInv, RegistryTypes
    <3>. QED  BY <3>1 DEF RegIInv, Links, StaleOnlyByRace
  <2>. QED  BY <2>1, <2>2, <2>3 DEF RegIInv, RequestTypes, Links, AdaptersAreCurrent,
                                    DueIsServed, ListingsAreDue, ServedAsStored
<1>6. ASSUME NEW o \in Operators, NEW p \in Providers, OperationBegins(o, p) PROVE RegIInv'
  <2>1. /\ RegistryTypes' /\ AdaptersAreCurrent' /\ DueIsServed' /\ StaleOnlyByRace'
        /\ Adapter(p) \in StoredBackend /\ Adapter(p).url = spec[p].url
    BY <1>6, BuiltKeeps DEF OperationBegins
  <2>2. [id |-> p, url |-> Adapter(p).url] \in OperationMade
    BY <2>1 DEF OperationMade, StoredBackend
  <2>3. operation' \in [Operators -> OperationMade \cup {None}]
    BY <1>6, <2>2 DEF OperationBegins, RegIInv, RequestTypes
  <2>4. ListingsAreDue'
    BY <1>6 DEF OperationBegins, RegIInv, Links, ListingsAreDue
  <2>. QED  BY <1>6, <2>1, <2>3, <2>4
              DEF OperationBegins, RegIInv, RequestTypes, Links, ServedAsStored
<1>7. ASSUME NEW o \in Operators, OperationWorks(o) PROVE RegIInv'
  <2>1. RegistryTypes' /\ Links' /\ served' \in [Urls -> 0..MaxChanges]
    BY <1>7, OperationIsTyped, ServedMoreKeeps DEF OperationWorks
  <2>. QED  BY <1>7, <2>1 DEF OperationWorks, RegIInv, RequestTypes, ServedAsStored
<1>8. ASSUME NEW o \in Operators, OperationSucceeds(o) PROVE RegIInv'
  <2>1. RegistryTypes' /\ Links'
    BY <1>8, OperationIsTyped, InvalidatedKeeps DEF OperationSucceeds
  <2>2. operation' \in [Operators -> OperationMade \cup {None}]
    BY <1>8 DEF OperationSucceeds, RegIInv, RequestTypes
  <2>. QED  BY <1>8, <2>1, <2>2 DEF OperationSucceeds, RegIInv, RequestTypes, ServedAsStored
<1>9. ASSUME NEW o \in Operators, OperationFails(o) PROVE RegIInv'
  <2>1. RegistryTypes' /\ Links'
    BY <1>9, LinksAside DEF OperationFails
  <2>2. operation' \in [Operators -> OperationMade \cup {None}]
    BY <1>9 DEF OperationFails, RegIInv, RequestTypes
  <2>. QED  BY <1>9, <2>1, <2>2 DEF OperationFails, RegIInv, RequestTypes, ServedAsStored
<1>. QED  BY <1>1, <1>2, <1>3, <1>4, <1>5, <1>6, <1>7, <1>8, <1>9 DEF ListingSteps

LEMMA RegInductive == ASSUME RegIInv, [RegNext]_regVars PROVE RegIInv'
<1>1. ASSUME UNCHANGED regVars PROVE RegIInv'
  BY <1>1 DEF regVars, RegIInv, RegistryTypes, RequestTypes, Links, AdaptersAreCurrent,
              DueIsServed, ListingsAreDue, StaleOnlyByRace, ServedAsStored
<1>. QED  BY <1>1, EditStepsKeep, RestartsKeep, DiscoveryStepsKeep, ListingStepsKeep DEF RegNext

\* Through every interleaving of edits, discoveries, listings and operations, failures and
\* restarts, a cached listing shows every change that was complete when it was begun unless it
\* was under way as one completed, and a stored backend is served as it is stored unless an
\* edit overlapped another (providers/registry.py, services/providers.py).
THEOREM RegistryHolds == RegSpec => []RegistryInv
<1>1. RegSpec => []RegIInv
  BY RegInitially, RegInductive, PTL DEF RegSpec
<1>. QED  BY <1>1, RegIInvImplies, PTL

-----------------------------------------------------------------------------
(* Jobs: the inductive invariant *)

\* What the client is told of is a job there was; the subscriptions that were accepted are
\* to such jobs.
FollowersKnowTheirJobs ==
  /\ finished \in Seq(JobIds)
  /\ watch \in [JobIds -> [at : {"none", "asked", "streaming", "waiting"}, seen : Nat \cup {None}]]
  /\ \A i \in JobIds : watch[i].at \in {"streaming", "waiting"} => i \in DOMAIN job
  /\ \A answer \in answers : DOMAIN answer.states \subseteq DOMAIN job

JobIInv == RegIInv /\ JobTypeOK /\ RunningJobsAreReachable /\ FollowersKnowTheirJobs

LEMMA JobIInvImplies == ASSUME JobIInv PROVE JobsInv
BY DEF JobIInv, RegIInv, Links, JobsInv

LEMMA JobInitially == ASSUME RegInit, JobInit PROVE JobIInv
<1>. USE JobsAssumption
<1>1. RegIInv
  BY RegInitially
<1>2. DOMAIN job = {} /\ DOMAIN shown = {} /\ job = <<>>
  BY DEF JobInit
<1>3. ToSet(finished) = {}
  BY DEF JobInit, ToSet
<1>4. JobTypeOK
  BY <1>2, <1>3 DEF JobTypeOK, JobInit, NoWatch
<1>5. RunningJobsAreReachable
  BY <1>2 DEF RunningJobsAreReachable
<1>6. FollowersKnowTheirJobs
  BY <1>2 DEF FollowersKnowTheirJobs, JobInit, NoWatch
<1>. QED  BY <1>1, <1>4, <1>5, <1>6 DEF JobIInv

LEMMA JobFields ==
  ASSUME JobIInv, NEW i \in DOMAIN job
  PROVE  /\ i \in JobIds /\ i \in Nat /\ i <= Len(job)
         /\ job[i] \in Job /\ job[i].backend \in Providers /\ job[i].url \in Urls
         /\ job[i].version \in Nat /\ job[i].stopping \in BOOLEAN
         /\ job[i].state \in Final \cup {"running"}
<1>1. job[i] \in Job /\ i \in JobIds
  BY DEF JobIInv, JobTypeOK
<1>. QED  BY <1>1 DEF Job, JobIds, JobIInv, JobTypeOK

\* _prune forgets no job that runs.
LEMMA PrunedKeeps ==
  ASSUME JobIInv, NEW kept
  PROVE  /\ Pruned(kept) \subseteq jobs
         /\ \A i \in jobs : Running(i) => i \in Pruned(kept)
BY DEF Pruned

\* What one job's change leaves of the whole.
LEMMA JobChanges ==
  ASSUME JobIInv, NEW i \in DOMAIN job, NEW new \in Job,
         job' = [job EXCEPT ![i] = new], new.backend = job[i].backend,
         new.state = "running" => Running(i)
  PROVE  /\ job' \in Seq(Job) /\ DOMAIN job' = DOMAIN job
         /\ \A k \in DOMAIN job : k # i => job'[k] = job[k]
         /\ job'[i] = new
         /\ jobs' = jobs => RunningJobsAreReachable'
<1>1. job' \in Seq(Job) /\ DOMAIN job' = DOMAIN job /\ job'[i] = new
      /\ \A k \in DOMAIN job : k # i => job'[k] = job[k]
  BY DEF JobIInv, JobTypeOK
<1>2. \A k \in DOMAIN job : (Running(k)' => Running(k)) /\ job'[k].backend = job[k].backend
  BY <1>1 DEF Running
<1>3. ASSUME jobs' = jobs PROVE RunningJobsAreReachable'
  BY <1>1, <1>2, <1>3 DEF JobIInv, RunningJobsAreReachable
<1>. QED  BY <1>1, <1>3

LEMMA FinishedFrame ==
  ASSUME JobIInv, UNCHANGED finished,
         DOMAIN job \subseteq DOMAIN job',
         \A i \in DOMAIN job : Running(i)' <=> Running(i),
         \A i \in DOMAIN job' \ DOMAIN job : Running(i)'
  PROVE  ToSet(finished)' = {i \in DOMAIN job' : ~Running(i)'}
<1>1. ToSet(finished)' = ToSet(finished)
  OBVIOUS
<1>2. ToSet(finished) = {i \in DOMAIN job : ~Running(i)}
  BY DEF JobIInv, JobTypeOK
<1>. QED  BY <1>1, <1>2

\* What is left of the whole when neither jobs nor what follows them changes.
LEMMA JobsAside ==
  ASSUME JobIInv, UNCHANGED jobVars
  PROVE  JobTypeOK' /\ RunningJobsAreReachable' /\ FollowersKnowTheirJobs'
<1>1. UNCHANGED <<job, jobs, finished, watch, shown, answers>>
  BY DEF jobVars
<1>2. JobTypeOK'
  BY <1>1 DEF JobIInv, JobTypeOK, Running
<1>3. RunningJobsAreReachable' /\ FollowersKnowTheirJobs'
  BY <1>1 DEF JobIInv, RunningJobsAreReachable, FollowersKnowTheirJobs, Running
<1>. QED  BY <1>2, <1>3

LEMMA RegistryAside == ASSUME RegIInv, UNCHANGED regVars PROVE RegIInv'
BY RegInductive DEF regVars

LEMMA JobStartsKeeps ==
  ASSUME JobIInv, NEW p \in Providers, NEW kept \in 0..MaxFinished, JobStarts(p, kept)
  PROVE  JobIInv'
<1>. USE JobsAssumption
<1>1. /\ RegistryTypes' /\ AdaptersAreCurrent' /\ DueIsServed' /\ StaleOnlyByRace'
      /\ Adapter(p) \in StoredBackend
  BY BuiltKeeps DEF JobStarts, JobIInv
<1>2. RegIInv'
  BY <1>1 DEF JobStarts, JobIInv, RegIInv, Links, ListingsAreDue, RequestTypes, ServedAsStored
<1>. DEFINE same == {i \in jobs : Running(i) /\ job[i].backend = p}
            id == Len(job) + 1
            new == [backend |-> p, url |-> Adapter(p).url, state |-> "running", version |-> 0,
                    stopping |-> FALSE]
<1>3. UNCHANGED <<finished, watch, shown>>
  BY DEF JobStarts
<1>4. Pruned(kept) \subseteq jobs /\ \A i \in jobs : Running(i) => i \in Pruned(kept)
  BY PrunedKeeps
<1>5. CASE same # {} /\ jobs' = Pruned(kept) /\ job' = job
           /\ answers' = answers \cup {Snapshots("started", same)}
  <2>1. ToSet(finished)' = {i \in DOMAIN job' : ~Running(i)'}
    BY <1>3, <1>5, FinishedFrame DEF Running
  <2>2. JobTypeOK'
    BY <1>3, <1>4, <1>5, <2>1 DEF JobIInv, JobTypeOK
  <2>3. RunningJobsAreReachable'
    BY <1>4, <1>5 DEF JobIInv, RunningJobsAreReachable, Running
  <2>4. DOMAIN Snapshots("started", same).states = same
    BY DEF Snapshots
  <2>5. FollowersKnowTheirJobs'
    BY <1>3, <1>5, <2>4 DEF JobIInv, JobTypeOK, FollowersKnowTheirJobs
  <2>. QED  BY <1>2, <2>2, <2>3, <2>5 DEF JobIInv
<1>6. CASE same = {} /\ id \in JobIds /\ job' = Append(job, new) /\ jobs' = Pruned(kept) \cup {id}
           /\ answers' = answers \cup {Snapshots("started", {id})}
  <2>0. new \in Job
    BY <1>1 DEF Job, Final, StoredBackend
  <2>1. /\ job' \in Seq(Job) /\ DOMAIN job' = DOMAIN job \cup {id} /\ id \notin DOMAIN job
        /\ job'[id] = new /\ \A i \in DOMAIN job : job'[i] = job[i]
    BY <1>6, <2>0 DEF JobIInv, JobTypeOK
  <2>2. job'[id].state = "running" /\ \A i \in DOMAIN job : (Running(i)' <=> Running(i))
    BY <2>1 DEF Running
  <2>3. ToSet(finished)' = {i \in DOMAIN job' : ~Running(i)'}
    <3>1. \A i \in DOMAIN job' \ DOMAIN job : Running(i)'
      BY <2>1, <2>2 DEF Running
    <3>. QED  BY <1>3, <2>1, <2>2, <3>1, FinishedFrame
  <2>4. JobTypeOK'
    BY <1>3, <1>4, <1>6, <2>1, <2>3 DEF JobIInv, JobTypeOK
  <2>5. RunningJobsAreReachable'
    <3>. SUFFICES ASSUME NEW i \in DOMAIN job', Running(i)'
                  PROVE  /\ i \in jobs'
                         /\ \A k \in DOMAIN job' :
                              Running(k)' /\ job'[k].backend = job'[i].backend => k = i
      BY DEF RunningJobsAreReachable
    <3>1. \A k \in DOMAIN job : Running(k) => k \in jobs /\ job[k].backend # p
      BY <1>6 DEF JobIInv, RunningJobsAreReachable
    <3>2. job'[id].backend = p
      BY <2>1
    <3>3. i \in jobs'
      BY <1>4, <1>6, <2>1, <2>2 DEF JobIInv, RunningJobsAreReachable
    <3>4. ASSUME NEW k \in DOMAIN job', Running(k)', job'[k].backend = job'[i].backend
          PROVE  k = i
      <4>1. CASE i = id \/ k = id
        BY <3>1, <3>2, <3>4, <4>1, <2>1, <2>2 DEF Running
      <4>2. CASE i # id /\ k # id
        BY <3>4, <4>2, <2>1, <2>2 DEF Running, JobIInv, RunningJobsAreReachable
      <4>. QED  BY <4>1, <4>2
    <3>. QED  BY <3>3, <3>4
  <2>6. DOMAIN Snapshots("started", {id}).states = {id}
    BY DEF Snapshots
  <2>7. FollowersKnowTheirJobs'
    BY <1>3, <1>6, <2>1, <2>6 DEF JobIInv, JobTypeOK, FollowersKnowTheirJobs
  <2>. QED  BY <1>2, <2>4, <2>5, <2>7 DEF JobIInv
<1>. QED  BY <1>5, <1>6 DEF JobStarts

LEMMA JobAdvancesKeeps ==
  ASSUME JobIInv, NEW i \in JobIds, NEW changes \in BOOLEAN, JobAdvances(i, changes)
  PROVE  JobIInv'
<1>. USE JobsAssumption
<1>0. i \in DOMAIN job /\ job[i].url \in Urls /\ job[i] \in Job /\ job[i].version \in Nat
  BY JobFields DEF JobAdvances
<1>1. RegIInv'
  <2>1. CASE changes
    <3>1. RegistryTypes' /\ Links' /\ served' \in [Urls -> 0..MaxChanges]
      BY <1>0, <2>1, ServedMoreKeeps DEF JobAdvances, JobIInv
    <3>. QED  BY <3>1 DEF JobAdvances, JobIInv, RegIInv, RequestTypes, ServedAsStored
  <2>2. CASE ~changes
    BY <2>2, RegistryAside DEF JobAdvances, JobIInv, regVars
  <2>. QED  BY <2>1, <2>2
<1>. DEFINE new == [job[i] EXCEPT !.version = @ + 1]
<1>2. new \in Job /\ new.backend = job[i].backend /\ new.state = job[i].state
  BY <1>0 DEF Job
<1>3. job' = [job EXCEPT ![i] = new] /\ UNCHANGED <<jobs, finished, shown, answers>>
  BY DEF JobAdvances
<1>. HIDE DEF new
<1>4. Running(i)
  BY DEF JobAdvances
<1>5. /\ job' \in Seq(Job) /\ DOMAIN job' = DOMAIN job
      /\ \A k \in DOMAIN job : k # i => job'[k] = job[k]
      /\ job'[i] = new
      /\ RunningJobsAreReachable'
  BY <1>0, <1>2, <1>3, <1>4, JobChanges
<1>6. ToSet(finished)' = {k \in DOMAIN job' : ~Running(k)'}
  BY <1>2, <1>3, <1>5, FinishedFrame DEF Running
<1>7. /\ watch' \in [JobIds -> [at : {"none", "asked", "streaming", "waiting"},
                               seen : Nat \cup {None}]]
      /\ \A k \in JobIds : watch'[k].at \in {"streaming", "waiting"} => k \in DOMAIN job
  <2>1. watch[i].at = "waiting" =>
          [watch[i] EXCEPT !.at = "streaming"] \in
            [at : {"none", "asked", "streaming", "waiting"}, seen : Nat \cup {None}]
    BY DEF JobIInv, FollowersKnowTheirJobs
  <2>2. watch' = [watch EXCEPT ![i] = IF watch[i].at = "waiting"
                                      THEN [watch[i] EXCEPT !.at = "streaming"] ELSE watch[i]]
    BY DEF JobAdvances, JobIInv, FollowersKnowTheirJobs
  <2>. QED  BY <1>0, <2>1, <2>2 DEF JobIInv, FollowersKnowTheirJobs
<1>8. JobTypeOK'
  BY <1>3, <1>5, <1>6, <1>7 DEF JobIInv, JobTypeOK
<1>9. FollowersKnowTheirJobs'
  BY <1>3, <1>5, <1>7 DEF JobIInv, FollowersKnowTheirJobs
<1>. QED  BY <1>1, <1>5, <1>8, <1>9 DEF JobIInv

LEMMA JobEndsKeeps ==
  ASSUME JobIInv, NEW i \in JobIds, NEW how \in Final, JobEnds(i, how)
  PROVE  JobIInv'
<1>. USE JobsAssumption
<1>0. i \in DOMAIN job /\ job[i].backend \in Providers /\ job[i] \in Job /\ job[i].version \in Nat
  BY JobFields DEF JobEnds
<1>1. RegIInv'
  <2>1. RegistryTypes' /\ Links'
    BY <1>0, InvalidatedKeeps DEF JobEnds, JobIInv
  <2>. QED  BY <2>1 DEF JobEnds, JobIInv, RegIInv, RequestTypes, ServedAsStored
<1>. DEFINE new == [job[i] EXCEPT !.state = how, !.version = @ + 1]
<1>2. new \in Job /\ new.backend = job[i].backend /\ new.state = how
  <2>1. new = [[job[i] EXCEPT !.state = how] EXCEPT !.version = job[i].version + 1]
    BY <1>0 DEF Job
  <2>2. job[i].version + 1 \in Nat
    BY <1>0
  <2>. HIDE DEF new
  <2>. QED  BY <1>0, <2>1, <2>2 DEF Job
<1>3. job' = [job EXCEPT ![i] = new] /\ finished' = <<i>> \o finished
      /\ UNCHANGED <<jobs, shown, answers>>
  BY DEF JobEnds
<1>. HIDE DEF new
<1>4. Running(i) /\ how # "running"
  BY DEF JobEnds, Final
<1>5. /\ job' \in Seq(Job) /\ DOMAIN job' = DOMAIN job
      /\ \A k \in DOMAIN job : k # i => job'[k] = job[k]
      /\ job'[i] = new
      /\ RunningJobsAreReachable'
  BY <1>0, <1>2, <1>3, <1>4, JobChanges
<1>6. finished' \in Seq(JobIds) /\ ToSet(finished)' = {k \in DOMAIN job' : ~Running(k)'}
  <2>1. finished \in Seq(JobIds) /\ ToSet(finished) = {k \in DOMAIN job : ~Running(k)}
    BY DEF JobIInv, JobTypeOK, FollowersKnowTheirJobs
  <2>2. finished' \in Seq(JobIds)
    BY <1>3, <2>1
  <2>3. ToSet(finished') = {i} \cup ToSet(finished)
    <3>1. DOMAIN finished' = 1..Len(finished) + 1
      BY <1>3, <2>1
    <3>2. finished'[1] = i /\ \A n \in DOMAIN finished : finished'[n + 1] = finished[n]
      BY <1>3, <2>1
    <3>3. \A n \in DOMAIN finished' : n = 1 \/ (n - 1 \in DOMAIN finished /\ n - 1 + 1 = n)
      BY <3>1, <2>1
    <3>4. \A n \in DOMAIN finished : n + 1 \in DOMAIN finished'
      BY <3>1, <2>1
    <3>5. 1 \in DOMAIN finished'
      BY <3>1, <2>1
    <3>. QED  BY <3>2, <3>3, <3>4, <3>5 DEF ToSet
  <2>4. {k \in DOMAIN job' : ~Running(k)'} = {i} \cup {k \in DOMAIN job : ~Running(k)}
    BY <1>0, <1>2, <1>4, <1>5 DEF Running
  <2>. QED  BY <2>1, <2>2, <2>3, <2>4
<1>7. /\ watch' \in [JobIds -> [at : {"none", "asked", "streaming", "waiting"},
                               seen : Nat \cup {None}]]
      /\ \A k \in JobIds : watch'[k].at \in {"streaming", "waiting"} => k \in DOMAIN job
  <2>1. watch[i].at = "waiting" =>
          [watch[i] EXCEPT !.at = "streaming"] \in
            [at : {"none", "asked", "streaming", "waiting"}, seen : Nat \cup {None}]
    BY DEF JobIInv, FollowersKnowTheirJobs
  <2>2. watch' = [watch EXCEPT ![i] = IF watch[i].at = "waiting"
                                      THEN [watch[i] EXCEPT !.at = "streaming"] ELSE watch[i]]
    BY DEF JobEnds, JobIInv, FollowersKnowTheirJobs
  <2>. QED  BY <1>0, <2>1, <2>2 DEF JobIInv, FollowersKnowTheirJobs
<1>8. JobTypeOK'
  BY <1>3, <1>5, <1>6, <1>7 DEF JobIInv, JobTypeOK
<1>9. FollowersKnowTheirJobs'
  BY <1>3, <1>5, <1>6, <1>7 DEF JobIInv, FollowersKnowTheirJobs
<1>. QED  BY <1>1, <1>5, <1>8, <1>9 DEF JobIInv

LEMMA JobCancelsKeeps == ASSUME JobIInv, NEW i \in JobIds, JobCancels(i) PROVE JobIInv'
<1>0. i \in DOMAIN job /\ job[i] \in Job
  BY JobFields DEF JobCancels, JobIInv, JobTypeOK
<1>. DEFINE new == [job[i] EXCEPT !.stopping = TRUE]
<1>1. new \in Job /\ new.backend = job[i].backend /\ new.state = job[i].state
  BY <1>0 DEF Job
<1>2. job' = [job EXCEPT ![i] = new] /\ UNCHANGED <<jobs, finished, watch, shown, answers, regVars>>
  BY DEF JobCancels
<1>. HIDE DEF new
<1>3. /\ job' \in Seq(Job) /\ DOMAIN job' = DOMAIN job
      /\ \A k \in DOMAIN job : k # i => job'[k] = job[k]
      /\ job'[i] = new
      /\ RunningJobsAreReachable'
  BY <1>0, <1>1, <1>2, JobChanges DEF Running
<1>4. ToSet(finished)' = {k \in DOMAIN job' : ~Running(k)'}
  BY <1>1, <1>2, <1>3, FinishedFrame DEF Running
<1>5. JobTypeOK'
  BY <1>2, <1>3, <1>4 DEF JobIInv, JobTypeOK
<1>6. FollowersKnowTheirJobs'
  BY <1>2, <1>3 DEF JobIInv, FollowersKnowTheirJobs
<1>7. RegIInv'
  BY <1>2, RegistryAside DEF JobIInv
<1>. QED  BY <1>3, <1>5, <1>6, <1>7 DEF JobIInv

LEMMA JobsListKeeps ==
  ASSUME JobIInv, NEW kept \in 0..MaxFinished, JobsList(kept) PROVE JobIInv'
<1>1. /\ jobs' = Pruned(kept) /\ job' = job /\ answers' = answers \cup {Snapshots("list", jobs')}
      /\ UNCHANGED <<finished, watch, shown, regVars>>
  BY DEF JobsList
<1>2. jobs' \subseteq jobs /\ \A i \in jobs : Running(i) => i \in jobs'
  BY <1>1, PrunedKeeps
<1>3. ToSet(finished)' = {k \in DOMAIN job' : ~Running(k)'}
  BY <1>1, FinishedFrame DEF Running
<1>4. JobTypeOK'
  BY <1>1, <1>2, <1>3 DEF JobIInv, JobTypeOK
<1>5. RunningJobsAreReachable'
  BY <1>1, <1>2 DEF JobIInv, RunningJobsAreReachable, Running
<1>6. DOMAIN Snapshots("list", jobs').states = jobs'
  BY DEF Snapshots
<1>7. FollowersKnowTheirJobs'
  BY <1>1, <1>2, <1>6 DEF JobIInv, JobTypeOK, FollowersKnowTheirJobs
<1>8. RegIInv'
  BY <1>1, RegistryAside DEF JobIInv
<1>. QED  BY <1>4, <1>5, <1>7, <1>8 DEF JobIInv

Watches == [at : {"none", "asked", "streaming", "waiting"}, seen : Nat \cup {None}]

\* A step of the client: only what it is subscribed to, shows and has been answered changes.
LEMMA FollowerSteps ==
  ASSUME JobIInv, UNCHANGED <<job, jobs, finished, regVars>>,
         watch' \in [JobIds -> Watches],
         \A i \in JobIds : watch'[i].at \in {"streaming", "waiting"} => i \in DOMAIN job,
         answers' \subseteq answers,
         DOMAIN shown' \subseteq DOMAIN job
  PROVE  JobIInv'
<1>1. ToSet(finished)' = {k \in DOMAIN job' : ~Running(k)'}
  BY FinishedFrame DEF Running
<1>2. JobTypeOK'
  BY <1>1 DEF JobIInv, JobTypeOK, Watches
<1>3. RunningJobsAreReachable' /\ FollowersKnowTheirJobs'
  BY DEF JobIInv, RunningJobsAreReachable, FollowersKnowTheirJobs, Running, Watches
<1>4. RegIInv'
  BY RegistryAside DEF JobIInv
<1>. QED  BY <1>2, <1>3, <1>4 DEF JobIInv

LEMMA WatchStepsKeep == ASSUME JobIInv, WatchSteps PROVE JobIInv'
<1>. USE JobsAssumption DEF Watches
<1>0. /\ watch \in [JobIds -> Watches] /\ DOMAIN shown \subseteq DOMAIN job
      /\ \A i \in JobIds : watch[i].at \in {"streaming", "waiting"} => i \in DOMAIN job
      /\ jobs \subseteq DOMAIN job
      /\ NoWatch \in Watches /\ NoWatch.at = "none"
  BY DEF JobIInv, JobTypeOK, FollowersKnowTheirJobs, NoWatch
<1>1. ASSUME NEW answer \in answers, AnswerArrives(answer) PROVE JobIInv'
  <2>1. DOMAIN answer.states \subseteq DOMAIN job
    BY DEF JobIInv, FollowersKnowTheirJobs
  <2>2. DOMAIN shown' \subseteq DOMAIN job
    BY <1>0, <1>1, <2>1 DEF AnswerArrives
  <2>3. ASSUME NEW ids
        PROVE  /\ Followed(ids) \in [JobIds -> Watches]
               /\ \A i \in JobIds : Followed(ids)[i].at \in {"streaming", "waiting"} => i \in DOMAIN job
    BY <1>0 DEF Followed
  <2>4. /\ watch' \in [JobIds -> Watches]
        /\ \A i \in JobIds : watch'[i].at \in {"streaming", "waiting"} => i \in DOMAIN job
    BY <1>1, <2>3 DEF AnswerArrives
  <2>. QED  BY <1>1, <2>2, <2>4, FollowerSteps DEF AnswerArrives
<1>2. ASSUME NEW i \in JobIds, WatchOpens(i) PROVE JobIInv'
  <2>1. /\ watch' \in [JobIds -> Watches]
        /\ \A k \in JobIds : watch'[k].at \in {"streaming", "waiting"} => k \in DOMAIN job
    BY <1>0, <1>2 DEF WatchOpens
  <2>. QED  BY <1>0, <1>2, <2>1, FollowerSteps DEF WatchOpens
<1>3. ASSUME NEW i \in JobIds, WatchReads(i) PROVE JobIInv'
  <2>1. i \in DOMAIN job /\ job[i].version \in Nat
    BY <1>0, <1>3, JobFields DEF WatchReads
  <2>. DEFINE new == IF Running(i) THEN [watch[i] EXCEPT !.seen = job[i].version] ELSE NoWatch
  <2>2. new \in Watches
    BY <1>0, <2>1
  <2>3. watch' = [watch EXCEPT ![i] = new]
    BY <1>0, <1>3 DEF WatchReads
  <2>. HIDE DEF new
  <2>4. /\ watch' \in [JobIds -> Watches]
        /\ \A k \in JobIds : watch'[k].at \in {"streaming", "waiting"} => k \in DOMAIN job
    BY <1>0, <2>1, <2>2, <2>3
  <2>5. DOMAIN shown' \subseteq DOMAIN job
    BY <1>0, <1>3, <2>1 DEF WatchReads
  <2>. QED  BY <1>3, <2>4, <2>5, FollowerSteps DEF WatchReads
<1>4. ASSUME NEW i \in JobIds, WatchWaits(i) PROVE JobIInv'
  <2>1. i \in DOMAIN job
    BY <1>0, <1>4 DEF WatchWaits
  <2>2. watch' = [watch EXCEPT ![i] = [watch[i] EXCEPT !.at = "waiting"]]
    BY <1>0, <1>4 DEF WatchWaits
  <2>3. /\ watch' \in [JobIds -> Watches]
        /\ \A k \in JobIds : watch'[k].at \in {"streaming", "waiting"} => k \in DOMAIN job
    BY <1>0, <2>1, <2>2
  <2>. QED  BY <1>0, <1>4, <2>3, FollowerSteps DEF WatchWaits
<1>5. ASSUME WatchesEnd PROVE JobIInv'
  BY <1>0, <1>5, FollowerSteps DEF WatchesEnd
<1>. QED  BY <1>1, <1>2, <1>3, <1>4, <1>5 DEF WatchSteps

LEMMA JobInductive == ASSUME JobIInv, [JobsNext]_<<regVars, jobVars>> PROVE JobIInv'
<1>1. ASSUME UNCHANGED <<regVars, jobVars>> PROVE JobIInv'
  BY <1>1, JobsAside, RegistryAside DEF JobIInv
<1>2. ASSUME JobSteps PROVE JobIInv'
  BY <1>2, JobStartsKeeps, JobAdvancesKeeps, JobEndsKeeps, JobCancelsKeeps, JobsListKeeps
     DEF JobSteps
<1>3. ASSUME EditSteps \/ DiscoverySteps \/ ListingSteps, UNCHANGED jobVars PROVE JobIInv'
  BY <1>3, EditStepsKeep, DiscoveryStepsKeep, ListingStepsKeep, JobsAside DEF JobIInv
<1>. QED  BY <1>1, <1>2, <1>3, WatchStepsKeep DEF JobsNext

\* Whatever is started, joined, cancelled, pruned and followed while backends are edited,
\* listed and operated on: a job that runs can be reached and is the only one for its target,
\* and no listing outlives the end of a job unless it overlapped it (services/model_jobs.py).
THEOREM JobsHold == JobsSpec => []JobsInv
<1>1. JobsSpec => []JobIInv
  BY JobInitially, JobInductive, PTL DEF JobsSpec
<1>. QED  BY <1>1, JobIInvImplies, PTL

-----------------------------------------------------------------------------
(* What the turn will have heard once the queue is empty *)

Finishes == {"stop", "length", "tool_calls"}
Codes ==
  {"none", "internal", "backend_offline", "backend_timeout", "upstream_error", "model_not_found",
   "model_loading", "out_of_memory", "context_overflow", "invalid_credentials", "quota_exceeded",
   "rate_limited"}
CallIds == {"id", "call"} \X Nat \X Nat
Fragments == Seq(Nat \X Nat)
HeardCalls == [id : CallIds, name : Nat, parts : Fragments]
StreamEvents ==
  [kind : {"status", "text", "thought", "usage", "over"}]
    \cup [kind : {"call"}, id : CallIds, name : Nat, parts : Fragments]
    \cup [kind : {"done"}, finish : Finishes]
    \cup [kind : {"raise"}, code : Codes, caught : BOOLEAN]

\* What a round has heard, after one more event.
Heard(r, e) ==
  [texts  |-> IF e.kind \in {"text", "thought"} THEN r.texts + 1 ELSE r.texts,
   calls  |-> IF e.kind = "call" THEN Gathered(r.calls, e) ELSE r.calls,
   finish |-> IF e.kind = "done" THEN e.finish ELSE r.finish]

\* g is what has been heard after each event of the queue, from "first" on.
Replays(g, q, first, last) ==
  /\ g[0] = first /\ g[Len(q)] = last
  /\ \A k \in 1..Len(q) : g[k] = Heard(g[k - 1], q[k])

Hearing(q, first, last) == \E g : Replays(g, q, first, last)

LEMMA NothingToHear ==
  ASSUME NEW first, NEW last
  PROVE  /\ Hearing(<<>>, first, first)
         /\ Hearing(<<>>, first, last) => last = first
<1>1. Hearing(<<>>, first, first)
  <2>1. Replays([k \in {0} |-> first], <<>>, first, first)
    BY DEF Replays
  <2> QED
    BY <2>1 DEF Hearing
<1>2. Hearing(<<>>, first, last) => last = first
  BY DEF Hearing, Replays
<1> QED
  BY <1>1, <1>2

LEMMA OneMoreEvent ==
  ASSUME NEW q \in Seq(StreamEvents), NEW e \in StreamEvents, NEW first, NEW last,
         Hearing(q, first, last)
  PROVE  Hearing(Append(q, e), first, Heard(last, e))
<1>1. PICK g : Replays(g, q, first, last)
  BY DEF Hearing
<1> DEFINE n == Len(q)
           p == Append(q, e)
           h == [k \in 0..n + 1 |-> IF k = n + 1 THEN Heard(last, e) ELSE g[k]]
<1>2. n \in Nat /\ Len(p) = n + 1 /\ p[n + 1] = e /\ \A k \in 1..n : p[k] = q[k]
  BY AppendProperties
<1>3. g[0] = first /\ g[n] = last /\ \A k \in 1..n : g[k] = Heard(g[k - 1], q[k])
  BY <1>1 DEF Replays
<1> HIDE DEF n, p
<1>4. h[0] = first /\ h[n + 1] = Heard(last, e) /\ h[n] = last
  BY <1>2, <1>3
<1>5. ASSUME NEW k \in 1..n + 1 PROVE h[k] = Heard(h[k - 1], p[k])
  <2>1. CASE k = n + 1
    BY <2>1, <1>2, <1>4
  <2>2. CASE k \in 1..n
    <3>1. h[k] = g[k] /\ h[k - 1] = g[k - 1]
      BY <2>2, <1>2
    <3> QED
      BY <3>1, <2>2, <1>2, <1>3
  <2> QED
    BY <2>1, <2>2, <1>2
<1> HIDE DEF h
<1>6. Replays(h, p, first, Heard(last, e))
  BY <1>2, <1>4, <1>5 DEF Replays
<1> QED
  BY <1>6 DEF Hearing, p

LEMMA OneEventLess ==
  ASSUME NEW q \in Seq(StreamEvents), q # <<>>, NEW first, NEW last, Hearing(q, first, last)
  PROVE  Hearing(Tail(q), Heard(first, Head(q)), last)
<1>1. PICK g : Replays(g, q, first, last)
  BY DEF Hearing
<1> DEFINE n == Len(q)
           p == Tail(q)
           h == [k \in 0..n - 1 |-> g[k + 1]]
<1>2. /\ n \in Nat \ {0} /\ Len(p) = n - 1 /\ Head(q) = q[1]
      /\ \A k \in 1..n - 1 : p[k] = q[k + 1]
  BY HeadTailProperties, EmptySeq
<1>3. g[0] = first /\ g[n] = last /\ \A k \in 1..n : g[k] = Heard(g[k - 1], q[k])
  BY <1>1 DEF Replays
<1> HIDE DEF n, p
<1>4. h[0] = Heard(first, Head(q)) /\ h[n - 1] = last
  <2>1. g[1] = Heard(g[1 - 1], q[1])
    BY <1>2, <1>3
  <2>2. 1 - 1 = 0 /\ 0 + 1 = 1 /\ (n - 1) + 1 = n /\ 0 \in 0..n - 1 /\ n - 1 \in 0..n - 1
    BY <1>2
  <2> QED
    BY <2>1, <2>2, <1>2, <1>3
<1>5. ASSUME NEW k \in 1..n - 1 PROVE h[k] = Heard(h[k - 1], p[k])
  <2>1. h[k] = g[k + 1] /\ h[k - 1] = g[k] /\ k + 1 \in 1..n /\ (k + 1) - 1 = k
    BY <1>2
  <2> QED
    BY <2>1, <1>2, <1>3
<1> HIDE DEF h
<1>6. Replays(h, p, Heard(first, Head(q)), last)
  BY <1>2, <1>4, <1>5 DEF Replays
<1> QED
  BY <1>6 DEF Hearing, p

LEMMA LastEvent ==
  ASSUME NEW e, NEW first, NEW last, Hearing(<<e>>, first, last)
  PROVE  last = Heard(first, e)
<1>1. PICK g : Replays(g, <<e>>, first, last)
  BY DEF Hearing
<1>2. Len(<<e>>) = 1 /\ <<e>>[1] = e
  OBVIOUS
<1>3. g[1] = Heard(g[1 - 1], e) /\ g[0] = first /\ g[1] = last
  BY <1>1, <1>2 DEF Replays
<1>4. 1 - 1 = 0
  OBVIOUS
<1> QED
  BY <1>3, <1>4

-----------------------------------------------------------------------------
(* The state *)

RequestMessages ==
  [role : {"assistant"}, calls : Seq(CallIds \X Nat)] \cup [role : {"tool"}, id : CallIds, name : Nat]

WireOK ==
  /\ wire \in [kind : AdapterKinds, ids : BOOLEAN]
  /\ backend \in [texts : Nat, calls : Seq(Nat), finished : BOOLEAN, over : BOOLEAN]
  /\ stream \in [open : BOOLEAN, started : BOOLEAN, finish : Finishes, usage : BOOLEAN,
                 known : [CallIndexes -> SUBSET [id : CallIds, name : Nat]], tools : BOOLEAN]
  /\ queue \in Seq(StreamEvents)
  /\ round \in [texts : Nat, calls : Seq(HeardCalls), usage : Nat, finish : Finishes]
  /\ turn \in [round : 1..MaxRounds, status : {"error", "complete", "stopped"},
               stage : {"reading", "over"}, messages : Seq(RequestMessages), code : Codes]

\* Nothing follows the end of a stream or an error, and nothing but the end follows "done".
QueueOK ==
  /\ Len(queue) <= QueueSize + 3
  /\ \A k \in DOMAIN queue :
       /\ queue[k].kind \in {"over", "raise"} => k = Len(queue)
       /\ queue[k].kind = "done" => k = Len(queue) - 1

\* The call the backend makes i-th in this round, as its adapter names it.
NameOf(i) == [id |-> IF wire.kind = "openai" /\ ~wire.ids THEN <<"call", 0, i>> ELSE <<"id", turn.round, i>>,
              name |-> i]

\* What the adapter knows of the calls, of why generation stopped and that it has.
WireKnows ==
  /\ Len(backend.calls) <= MaxCalls
  /\ \A i \in 1..Len(backend.calls) : stream.known[i] = {NameOf(i)}
  /\ wire.kind = "anthropic" =>
       \A i \in 1..Len(backend.calls) : i < Len(backend.calls) \/ backend.finished => backend.calls[i] > 0
  /\ wire.kind = "ollama" => (stream.tools <=> backend.calls # <<>>)
  /\ wire.kind = "llamacpp" => backend.calls = <<>>
  /\ wire.kind \in {"ollama", "llamacpp"} /\ backend.finished => backend.over
  /\ wire.kind \in {"openai", "anthropic"} /\ backend.finished /\ backend.calls # <<>>
       => stream.finish # "stop"

Ending == {"over", "raise", "done"}
StillOpen == \A k \in DOMAIN queue : queue[k].kind \notin Ending

WireAgrees == WireKnows /\ (~backend.over => StillOpen)

\* The calls a turn has heard of: Anthropic's last one may have no fragment yet.
Spoken ==
  {i \in 1..Len(backend.calls) : wire.kind = "anthropic" => backend.calls[i] > 0}

HasHeard == [texts |-> round.texts, calls |-> round.calls, finish |-> round.finish]
AllParts(i, count) == [m \in 1..count |-> <<i, m>>]
SaidCalls(calls, n) ==
  [i \in 1..n |-> [id |-> NameOf(i).id, name |-> i, parts |-> AllParts(i, calls[i])]]
SaidBy(n, finish) ==
  [texts |-> backend.texts, calls |-> SaidCalls(backend.calls, n), finish |-> finish]

\* The turn has heard, or the queue still holds, just what the backend has sent.
NothingIsLost ==
  \E n \in Nat : \E finish \in Finishes :
    /\ Spoken = 1..n
    /\ Hearing(queue, HasHeard, SaidBy(n, finish))
    /\ backend.finished /\ backend.calls # <<>> /\ queue # <<>> /\ queue[Len(queue)].kind = "over"
         => finish # "stop"

\* The results of an assistant message follow it, one for each call and in their order,
\* and the next message is an assistant's.
AnsweredIn(s) ==
  \A k \in DOMAIN s :
    LET m == s[k]
        n == Len(m.calls)
    IN m.role = "assistant" =>
         /\ k + n <= Len(s)
         /\ \A j \in 1..n : s[k + j] = [role |-> "tool", id |-> m.calls[j][1], name |-> m.calls[j][2]]
         /\ k + n < Len(s) => s[k + n + 1].role = "assistant"

MessagesOK == AnsweredIn(turn.messages)

CapChanging == {"none", "transfer", "request"}

CapsOK ==
  /\ caps \in [real : Nat, cached : SUBSET Nat, changing : CapChanging, raced : BOOLEAN,
               probe : [Probers -> [stage : {"idle", "asked", "answered"}, version : Nat]]]
  /\ caps.changing = "none" /\ ~caps.raced =>
       /\ \A version \in caps.cached : version = caps.real
       /\ \A p \in Probers : caps.probe[p].stage = "answered" => caps.probe[p].version = caps.real

StreamIInv ==
  /\ WireOK /\ QueueOK /\ MessagesOK
  /\ turn.stage = "reading" => WireAgrees /\ NothingIsLost

AdaptersIInv == StreamIInv /\ CapsOK

-----------------------------------------------------------------------------
(* What the invariant implies, and its start *)

LEMMA SameUpTo == ASSUME NEW a \in Nat, NEW b \in Nat, 1..a = 1..b PROVE a = b
<1>1. a > b => a \in 1..b
  OBVIOUS
<1>2. b > a => b \in 1..a
  OBVIOUS
<1> QED
  BY <1>1, <1>2

\* Every call that was finished has been named to the turn.
LEMMA AllSpoken ==
  ASSUME WireOK, WireAgrees, wire.kind # "anthropic" \/ backend.finished, NEW n \in Nat, Spoken = 1..n
  PROVE  n = Len(backend.calls)
<1>1. Len(backend.calls) \in Nat
  BY DEF WireOK
<1>2. Spoken = 1..Len(backend.calls)
  BY DEF Spoken, WireAgrees, WireKnows
<1> QED
  BY <1>1, <1>2, SameUpTo

LEMMA RoundsAreWhole == ASSUME StreamIInv PROVE RoundsAreReadWhole
<1> SUFFICES ASSUME turn.stage = "reading", queue = <<[kind |-> "over"]>>, backend.finished
             PROVE  /\ round.texts = backend.texts
                    /\ Len(round.calls) = Len(backend.calls)
                    /\ \A k \in DOMAIN round.calls :
                         /\ round.calls[k].name = k
                         /\ round.calls[k].parts = [n \in 1..backend.calls[k] |-> <<k, n>>]
                    /\ backend.calls # <<>> => round.finish # "stop"
  BY DEF RoundsAreReadWhole
<1>1. WireOK /\ WireAgrees /\ NothingIsLost
  BY DEF StreamIInv
<1>2. PICK n \in Nat, finish \in Finishes :
        /\ Spoken = 1..n
        /\ Hearing(queue, HasHeard, SaidBy(n, finish))
        /\ backend.finished /\ backend.calls # <<>> /\ queue # <<>> /\ queue[Len(queue)].kind = "over"
             => finish # "stop"
  BY <1>1 DEF NothingIsLost
<1>3. n = Len(backend.calls)
  BY <1>1, <1>2, AllSpoken
<1>4. SaidBy(n, finish) = Heard(HasHeard, [kind |-> "over"])
  BY <1>2, LastEvent
<1>5. Heard(HasHeard, [kind |-> "over"]) = [texts |-> round.texts, calls |-> round.calls, finish |-> round.finish]
  BY DEF Heard, HasHeard
<1>6. /\ round.texts = backend.texts /\ round.calls = SaidCalls(backend.calls, n)
      /\ round.finish = finish
  BY <1>4, <1>5 DEF SaidBy
<1>7. backend.calls # <<>> => finish # "stop"
  BY <1>2
<1>8. /\ DOMAIN round.calls = 1..n
      /\ \A k \in 1..n : round.calls[k].name = k /\ round.calls[k].parts = [m \in 1..backend.calls[k] |-> <<k, m>>]
  <2>1. /\ DOMAIN SaidCalls(backend.calls, n) = 1..n
        /\ \A k \in 1..n : SaidCalls(backend.calls, n)[k] =
             [id |-> NameOf(k).id, name |-> k, parts |-> AllParts(k, backend.calls[k])]
    BY DEF SaidCalls
  <2>2. ASSUME NEW k \in 1..n
        PROVE  round.calls[k].name = k /\ round.calls[k].parts = AllParts(k, backend.calls[k])
    <3>1. round.calls[k] = [id |-> NameOf(k).id, name |-> k, parts |-> AllParts(k, backend.calls[k])]
      BY <2>1, <1>6
    <3> QED
      BY <3>1
  <2> QED
    BY <2>1, <2>2, <1>6 DEF AllParts
<1>9. Len(round.calls) = n
  BY <1>8, <1>1 DEF WireOK
<1> QED
  BY <1>3, <1>6, <1>7, <1>8, <1>9

LEMMA CallsAreAnswered == ASSUME StreamIInv PROVE EveryCallIsAnsweredOnce
<1> DEFINE s == turn.messages
           results(k) == {j \in k + 1 .. Len(s) : \A i \in k + 1 .. j : s[i].role = "tool"}
<1>1. s \in Seq(RequestMessages) /\ MessagesOK
  BY DEF StreamIInv, WireOK
<1> SUFFICES ASSUME NEW k \in DOMAIN s, s[k].role = "assistant", wire.kind # "llamacpp"
             PROVE  /\ Cardinality(results(k)) = Len(s[k].calls)
                    /\ UNION {Encoded(s[j]) : j \in results(k)} = Encoded(s[k])
  BY DEF EveryCallIsAnsweredOnce
<1> DEFINE m == s[k]
           c == m.calls
           n == Len(c)
<1>2. m \in RequestMessages /\ k \in Nat \ {0} /\ Len(s) \in Nat /\ DOMAIN s = 1..Len(s) /\ k <= Len(s)
  BY <1>1
<1>3. c \in Seq(CallIds \X Nat)
  BY <1>2 DEF RequestMessages
<1>4. n \in Nat /\ DOMAIN c = 1..n
  BY <1>3
<1>5. /\ k + n <= Len(s)
      /\ \A j \in 1..n : s[k + j] = [role |-> "tool", id |-> c[j][1], name |-> c[j][2]]
      /\ k + n < Len(s) => s[k + n + 1].role = "assistant"
  BY <1>1 DEF MessagesOK, AnsweredIn
<1> HIDE DEF s, c, n
<1>9. ASSUME NEW j \in k + 1 .. k + n
      PROVE  /\ j - k \in 1..n
             /\ s[j].role = "tool" /\ s[j].id = c[j - k][1] /\ s[j].name = c[j - k][2]
  <2>1. PICK i \in 1..n : j = k + i /\ j - k = i
    <3>1. j - k \in 1..n /\ j = k + (j - k)
      BY <1>2, <1>4
    <3> QED
      BY <3>1
  <2>2. s[k + i] = [role |-> "tool", id |-> c[i][1], name |-> c[i][2]]
    BY <1>5
  <2> QED
    BY <2>1, <2>2
<1>6. results(k) = k + 1 .. k + n
  <2>1. ASSUME NEW j \in k + 1 .. k + n PROVE j \in results(k)
    <3>1. j \in k + 1 .. Len(s)
      BY <1>2, <1>4, <1>5
    <3>2. ASSUME NEW i \in k + 1 .. j PROVE s[i].role = "tool"
      <4>1. i \in k + 1 .. k + n
        BY <1>2, <1>4
      <4> QED
        BY <4>1, <1>9
    <3> QED
      BY <3>1, <3>2
  <2>2. ASSUME NEW j \in results(k), j \notin k + 1 .. k + n PROVE FALSE
    <3>1. k + n < Len(s) /\ k + n + 1 \in k + 1 .. j
      BY <2>2, <1>2, <1>4
    <3> QED
      BY <3>1, <2>2, <1>5
  <2>3. results(k) \subseteq k + 1 .. k + n
    BY <2>2
  <2> QED
    BY <2>1, <2>3
<1>7. Cardinality(k + 1 .. k + n) = n
  <2> DEFINE a == k + 1
             b == k + n
  <2>1. a \in Int /\ b \in Int /\ (IF a > b THEN 0 ELSE b - a + 1) = n
    BY <1>2, <1>4
  <2> HIDE DEF a, b
  <2>2. Cardinality(a..b) = n
    BY <2>1, FS_Interval
  <2> QED
    BY <2>2 DEF a, b
<1>8. ASSUME NEW part \in {1, 2},
             \A j \in k + 1 .. k + n : Encoded(s[j]) = {c[j - k][part]},
             Encoded(s[k]) = {c[i][part] : i \in DOMAIN c}
      PROVE  UNION {Encoded(s[j]) : j \in k + 1 .. k + n} = Encoded(s[k])
  <2>1. ASSUME NEW x \in UNION {Encoded(s[j]) : j \in k + 1 .. k + n} PROVE x \in Encoded(s[k])
    <3>1. PICK j \in k + 1 .. k + n : x \in Encoded(s[j])
      OBVIOUS
    <3>2. Encoded(s[j]) = {c[j - k][part]} /\ j - k \in 1..n
      BY <1>8, <1>9
    <3> QED
      BY <3>1, <3>2, <1>8, <1>4
  <2>2. ASSUME NEW x \in Encoded(s[k]) PROVE x \in UNION {Encoded(s[j]) : j \in k + 1 .. k + n}
    <3>1. PICK i \in 1..n : x = c[i][part]
      BY <1>8, <1>4
    <3>2. k + i \in k + 1 .. k + n /\ (k + i) - k = i
      BY <1>2, <1>4
    <3>3. x \in Encoded(s[k + i])
      BY <3>1, <3>2, <1>8
    <3> QED
      BY <3>2, <3>3
  <2> QED
    BY <2>1, <2>2
<1>10. wire.kind \in AdapterKinds
  BY DEF StreamIInv, WireOK
<1>11. CASE wire.kind = "ollama"
  <2>1. ASSUME NEW j \in k + 1 .. k + n PROVE Encoded(s[j]) = {c[j - k][2]}
    <3>1. s[j].role = "tool" /\ s[j].id = c[j - k][1] /\ s[j].name = c[j - k][2]
      BY <1>9
    <3> QED
      BY <3>1, <1>11 DEF Encoded, OllamaTies
  <2>2. Encoded(s[k]) = {c[i][2] : i \in DOMAIN c}
    BY <1>11 DEF Encoded, OllamaTies, c, s
  <2> QED
    BY <2>1, <2>2, <1>6, <1>7, <1>8 DEF n, c
<1>12. CASE wire.kind \in {"openai", "anthropic"}
  <2>1. ASSUME NEW j \in k + 1 .. k + n PROVE Encoded(s[j]) = {c[j - k][1]}
    <3>1. s[j].role = "tool" /\ s[j].id = c[j - k][1] /\ s[j].name = c[j - k][2]
      BY <1>9
    <3> QED
      BY <3>1, <1>12 DEF Encoded, OpenAITies, AnthropicTies
  <2>2. Encoded(s[k]) = {c[i][1] : i \in DOMAIN c}
    BY <1>12 DEF Encoded, OpenAITies, AnthropicTies, c, s
  <2> QED
    BY <2>1, <2>2, <1>6, <1>7, <1>8 DEF n, c
<1> QED
  BY <1>10, <1>11, <1>12 DEF AdapterKinds

LEMMA AdaIInvImplies == ASSUME AdaptersIInv PROVE AdaptersInv
<1>1. AdaptersTypeOK
  BY DEF AdaptersIInv, StreamIInv, WireOK, QueueOK, AdaptersTypeOK
<1>2. CapabilitiesStaleOnlyByRace
  BY DEF AdaptersIInv, CapsOK, CapabilitiesStaleOnlyByRace
<1> QED
  BY <1>1, <1>2, RoundsAreWhole, CallsAreAnswered DEF AdaptersIInv, AdaptersInv

LEMMA NothingSaid == ASSUME backend = NoBackend, round = NoRound, queue = <<>> PROVE NothingIsLost
<1>1. Spoken = 1..0 /\ HasHeard = SaidBy(0, "stop")
  <2>1. Len(backend.calls) = 0 /\ 1..0 = {}
    BY DEF NoBackend
  <2>2. SaidCalls(<<>>, 0) = <<>>
    BY DEF SaidCalls
  <2> QED
    BY <2>1, <2>2 DEF NoBackend, NoRound, Spoken, HasHeard, SaidBy
<1>2. Hearing(queue, HasHeard, SaidBy(0, "stop"))
  BY <1>1, NothingToHear
<1> QED
  BY <1>1, <1>2 DEF NothingIsLost, Finishes

LEMMA RoundBegins ==
  ASSUME wire \in [kind : AdapterKinds, ids : BOOLEAN],
         backend = NoBackend, stream = NoStream, queue = <<>>, round = NoRound
  PROVE  /\ backend \in [texts : Nat, calls : Seq(Nat), finished : BOOLEAN, over : BOOLEAN]
         /\ stream \in [open : BOOLEAN, started : BOOLEAN, finish : Finishes, usage : BOOLEAN,
                        known : [CallIndexes -> SUBSET [id : CallIds, name : Nat]], tools : BOOLEAN]
         /\ queue \in Seq(StreamEvents)
         /\ round \in [texts : Nat, calls : Seq(HeardCalls), usage : Nat, finish : Finishes]
         /\ QueueOK /\ WireAgrees /\ NothingIsLost
<1>1. /\ backend \in [texts : Nat, calls : Seq(Nat), finished : BOOLEAN, over : BOOLEAN]
      /\ queue \in Seq(StreamEvents)
      /\ round \in [texts : Nat, calls : Seq(HeardCalls), usage : Nat, finish : Finishes]
  BY DEF NoBackend, NoRound, Finishes
<1>2. stream \in [open : BOOLEAN, started : BOOLEAN, finish : Finishes, usage : BOOLEAN,
                  known : [CallIndexes -> SUBSET [id : CallIds, name : Nat]], tools : BOOLEAN]
  BY DEF NoStream, Finishes
<1>3. Len(queue) = 0 /\ DOMAIN queue = {}
  OBVIOUS
<1>4. QueueOK
  BY <1>3, AdaptersAssumption DEF QueueOK
<1>5. Len(backend.calls) = 0 /\ backend.calls = <<>> /\ ~backend.finished /\ ~backend.over /\ ~stream.tools
  BY DEF NoBackend, NoStream
<1>6. WireAgrees
  <2>1. Len(backend.calls) <= MaxCalls /\ 1..Len(backend.calls) = {}
    BY <1>5, AdaptersAssumption
  <2>2. StillOpen
    BY <1>3 DEF StillOpen
  <2>3. /\ \A i \in 1..Len(backend.calls) : stream.known[i] = {NameOf(i)}
        /\ \A i \in 1..Len(backend.calls) : i < Len(backend.calls) \/ backend.finished => backend.calls[i] > 0
    BY <2>1
  <2>4. wire.kind = "ollama" => (stream.tools <=> backend.calls # <<>>)
    BY <1>5
  <2> QED
    BY <2>1, <2>2, <2>3, <2>4, <1>5 DEF WireAgrees, WireKnows
<1> QED
  BY <1>1, <1>2, <1>4, <1>6, NothingSaid

LEMMA AdaInitially == AdaptersInit => AdaptersIInv
<1> SUFFICES ASSUME AdaptersInit PROVE AdaptersIInv
  OBVIOUS
<1>1. wire \in [kind : AdapterKinds, ids : BOOLEAN]
  BY DEF AdaptersInit
<1>2. /\ turn \in [round : 1..MaxRounds, status : {"error", "complete", "stopped"},
                   stage : {"reading", "over"}, messages : Seq(RequestMessages), code : Codes]
      /\ MessagesOK
  <2>1. turn = [round |-> 1, status |-> "error", stage |-> "reading", messages |-> <<>>, code |-> "none"]
    BY DEF AdaptersInit
  <2>2. 1 \in 1..MaxRounds
    BY AdaptersAssumption
  <2>3. turn.messages = <<>> /\ turn.messages \in Seq(RequestMessages)
    BY <2>1
  <2>4. DOMAIN turn.messages = {}
    BY <2>3
  <2>5. MessagesOK
    BY <2>4 DEF MessagesOK, AnsweredIn
  <2> QED
    BY <2>1, <2>2, <2>3, <2>5 DEF Codes
<1>3. CapsOK
  BY DEF AdaptersInit, CapsOK, CapChanging
<1> QED
  BY <1>1, <1>2, <1>3, RoundBegins DEF AdaptersInit, AdaptersIInv, StreamIInv, WireOK

-----------------------------------------------------------------------------
(* Frames: what an adapter puts in the queue *)

LEMMA RefusalCodes == ASSUME WireOK PROVE Refusals \cup {"backend_offline", "backend_timeout"} \subseteq Codes
<1> SUFFICES ASSUME NEW code \in Refusals PROVE code \in Codes
  BY DEF Codes
<1>1. wire.kind \in AdapterKinds
  BY DEF WireOK
<1>2. PICK answer \in RefusalAnswers :
        code = CASE wire.kind = "ollama" -> OllamaError(answer[2])
                 [] wire.kind = "llamacpp" -> LlamaCppError(answer[2])
                 [] wire.kind = "openai" -> OpenAIError(answer[1], answer[2])
                 [] wire.kind = "anthropic" -> AnthropicError(answer[1], answer[2])
  BY DEF Refusals
<1>3. OllamaError(answer[2]) \in Codes /\ LlamaCppError(answer[2]) \in Codes
  BY DEF OllamaError, LlamaCppError, Codes
<1>4. OpenAIError(answer[1], answer[2]) \in Codes
  BY DEF OpenAIError, Codes
<1>5. AnthropicError(answer[1], answer[2]) \in Codes
  BY DEF AnthropicError, Codes
<1> HIDE DEF Codes
<1> QED
  BY <1>1, <1>2, <1>3, <1>4, <1>5 DEF AdapterKinds

\* One to three events of a frame, of which only the last may be the end.
FrameEvents ==
  {events \in Seq(StreamEvents) :
     /\ Len(events) \in 1..3
     /\ \A k \in 1..Len(events) : /\ events[k].kind \in {"over", "raise"} => k = Len(events)
                                  /\ events[k].kind = "done" => k = Len(events) - 1}

LEMMA PutsAre ==
  ASSUME WireOK, QueueOK, StillOpen, NEW events \in FrameEvents, Puts(events)
  PROVE  /\ queue' \in Seq(StreamEvents) /\ QueueOK'
         /\ queue' # <<>> /\ queue'[Len(queue')] = events[Len(events)]
         /\ (\A k \in 1..Len(events) : events[k].kind \notin Ending) => StillOpen'
<1> DEFINE m == Len(queue)
           n == Len(events)
<1>1. /\ queue \in Seq(StreamEvents) /\ events \in Seq(StreamEvents) /\ n \in 1..3
      /\ \A k \in 1..n : /\ events[k].kind \in {"over", "raise"} => k = n
                         /\ events[k].kind = "done" => k = n - 1
      /\ m \in Nat /\ m < QueueSize
      /\ \A k \in 1..m : queue[k].kind \notin Ending
  BY DEF WireOK, FrameEvents, Puts, StillOpen
<1>2. queue' = queue \o events
  BY DEF Puts
<1>3. /\ queue' \in Seq(StreamEvents) /\ Len(queue') = m + n
      /\ \A k \in 1..m : queue'[k] = queue[k]
      /\ \A k \in m + 1..m + n : queue'[k] = events[k - m]
  BY <1>1, <1>2, ConcatProperties
<1> HIDE DEF m, n
<1>4. DOMAIN queue' = 1..m + n
  BY <1>1, <1>3
<1>5. ASSUME NEW k \in DOMAIN queue'
      PROVE  \/ k \in 1..m /\ queue'[k].kind \notin Ending
             \/ k - m \in 1..n /\ queue'[k] = events[k - m]
  <2>1. CASE k \in 1..m
    BY <2>1, <1>1, <1>3
  <2>2. CASE k \in m + 1..m + n
    BY <2>2, <1>1, <1>3
  <2> QED
    BY <2>1, <2>2, <1>1, <1>4
<1>6. QueueOK'
  <2>1. Len(queue') <= QueueSize + 3
    BY <1>1, <1>3, AdaptersAssumption
  <2>2. ASSUME NEW k \in DOMAIN queue'
        PROVE  /\ queue'[k].kind \in {"over", "raise"} => k = Len(queue')
               /\ queue'[k].kind = "done" => k = Len(queue') - 1
    <3>1. CASE k \in 1..m /\ queue'[k].kind \notin Ending
      BY <3>1 DEF Ending
    <3>2. CASE k - m \in 1..n /\ queue'[k] = events[k - m]
      <4>1. /\ queue'[k].kind \in {"over", "raise"} => k - m = n
            /\ queue'[k].kind = "done" => k - m = n - 1
        BY <3>2, <1>1
      <4>2. k \in Nat
        BY <1>1, <1>4
      <4> QED
        BY <4>1, <4>2, <1>1, <1>3
    <3> QED
      BY <3>1, <3>2, <1>5
  <2> QED
    BY <2>1, <2>2 DEF QueueOK
<1>7. queue' # <<>> /\ queue'[Len(queue')] = events[n]
  <2>1. m + n \in m + 1..m + n /\ (m + n) - m = n
    BY <1>1
  <2> QED
    BY <2>1, <1>1, <1>3
<1>8. (\A k \in 1..n : events[k].kind \notin Ending) => StillOpen'
  BY <1>5 DEF StillOpen
<1> QED
  BY <1>3, <1>6, <1>7, <1>8 DEF n

LEMMA PairsAre == ASSUME NEW S, NEW a \in S, NEW b \in S PROVE <<a>> \o <<b>> = <<a, b>>
<1> DEFINE s == <<a>>
           t == <<b>>
           u == <<a, b>>
<1>1. s \in Seq(S) /\ t \in Seq(S) /\ u \in Seq(S) /\ Len(s) = 1 /\ Len(t) = 1 /\ Len(u) = 2
  OBVIOUS
<1>2. s[1] = a /\ t[1] = b /\ u[1] = a /\ u[2] = b
  OBVIOUS
<1> HIDE DEF s, t, u
<1>3. s \o t \in Seq(S) /\ Len(s \o t) = 2 /\ (s \o t)[1] = s[1] /\ (s \o t)[2] = t[1]
  <2>1. /\ s \o t \in Seq(S) /\ Len(s \o t) = Len(s) + Len(t)
        /\ \A i \in 1 .. Len(s) + Len(t) :
             (s \o t)[i] = IF i <= Len(s) THEN s[i] ELSE t[i - Len(s)]
    BY <1>1, ConcatProperties, Zenon
  <2>2. Len(s) + Len(t) = 2 /\ 1 \in 1..2 /\ 2 \in 1..2 /\ 1 <= Len(s) /\ ~(2 <= Len(s)) /\ 2 - Len(s) = 1
    BY <1>1
  <2> QED
    BY <2>1, <2>2
<1>4. \A i \in 1..Len(s \o t) : (s \o t)[i] = u[i]
  BY <1>2, <1>3
<1>5. s \o t = u
  BY <1>1, <1>3, <1>4, SeqEqual
<1> QED
  BY <1>5 DEF s, t, u

LEMMA TriplesAre ==
  ASSUME NEW S, NEW a \in S, NEW b \in S, NEW c \in S
  PROVE  <<a>> \o <<b, c>> = <<a, b, c>>
<1> DEFINE s == <<a>>
           t == <<b, c>>
           u == <<a, b, c>>
<1>1. s \in Seq(S) /\ t \in Seq(S) /\ u \in Seq(S) /\ Len(s) = 1 /\ Len(t) = 2 /\ Len(u) = 3
  OBVIOUS
<1>2. s[1] = a /\ t[1] = b /\ t[2] = c /\ u[1] = a /\ u[2] = b /\ u[3] = c
  OBVIOUS
<1> HIDE DEF s, t, u
<1>3. s \o t \in Seq(S) /\ Len(s \o t) = 3 /\ (s \o t)[1] = s[1] /\ (s \o t)[2] = t[1] /\ (s \o t)[3] = t[2]
  <2>1. /\ s \o t \in Seq(S) /\ Len(s \o t) = Len(s) + Len(t)
        /\ \A i \in 1 .. Len(s) + Len(t) :
             (s \o t)[i] = IF i <= Len(s) THEN s[i] ELSE t[i - Len(s)]
    BY <1>1, ConcatProperties, Zenon
  <2>2. /\ Len(s) + Len(t) = 3 /\ 1 \in 1..3 /\ 2 \in 1..3 /\ 3 \in 1..3
        /\ 1 <= Len(s) /\ ~(2 <= Len(s)) /\ 2 - Len(s) = 1 /\ ~(3 <= Len(s)) /\ 3 - Len(s) = 2
    BY <1>1
  <2> QED
    BY <2>1, <2>2
<1>4. \A i \in 1..Len(s \o t) : (s \o t)[i] = u[i]
  BY <1>2, <1>3
<1>5. s \o t = u
  BY <1>1, <1>3, <1>4, SeqEqual
<1> QED
  BY <1>5 DEF s, t, u

LEMMA OneIsHeard ==
  ASSUME NEW q \in Seq(StreamEvents), NEW a \in StreamEvents, NEW first, NEW last, Hearing(q, first, last)
  PROVE  Hearing(q \o <<a>>, first, Heard(last, a))
BY AppendIsConcat, OneMoreEvent

LEMMA TwoAreHeard ==
  ASSUME NEW q \in Seq(StreamEvents), NEW a \in StreamEvents, NEW b \in StreamEvents,
         NEW first, NEW last, Hearing(q, first, last)
  PROVE  Hearing(q \o <<a, b>>, first, Heard(Heard(last, a), b))
<1>1. Hearing(q \o <<a>>, first, Heard(last, a)) /\ q \o <<a>> \in Seq(StreamEvents)
  BY OneIsHeard
<1>2. Hearing((q \o <<a>>) \o <<b>>, first, Heard(Heard(last, a), b))
  BY <1>1, OneIsHeard
<1>3. <<a>> \in Seq(StreamEvents) /\ <<b>> \in Seq(StreamEvents) /\ <<a>> \o <<b>> = <<a, b>>
  <2>1. <<a>> \in Seq(StreamEvents) /\ <<b>> \in Seq(StreamEvents)
    OBVIOUS
  <2> QED
    BY <2>1, PairsAre
<1>4. (q \o <<a>>) \o <<b>> = q \o (<<a>> \o <<b>>)
  BY <1>3, ConcatAssociative
<1> QED
  BY <1>2, <1>3, <1>4

LEMMA ThreeAreHeard ==
  ASSUME NEW q \in Seq(StreamEvents), NEW a \in StreamEvents, NEW b \in StreamEvents, NEW c \in StreamEvents,
         NEW first, NEW last, Hearing(q, first, last)
  PROVE  Hearing(q \o <<a, b, c>>, first, Heard(Heard(Heard(last, a), b), c))
<1>1. Hearing(q \o <<a>>, first, Heard(last, a)) /\ q \o <<a>> \in Seq(StreamEvents)
  BY OneIsHeard
<1>2. Hearing((q \o <<a>>) \o <<b, c>>, first, Heard(Heard(Heard(last, a), b), c))
  BY <1>1, TwoAreHeard
<1>3. <<a>> \in Seq(StreamEvents) /\ <<b, c>> \in Seq(StreamEvents) /\ <<a>> \o <<b, c>> = <<a, b, c>>
  <2>1. <<a>> \in Seq(StreamEvents) /\ <<b, c>> \in Seq(StreamEvents)
    OBVIOUS
  <2> QED
    BY <2>1, TriplesAre
<1>4. (q \o <<a>>) \o <<b, c>> = q \o (<<a>> \o <<b, c>>)
  BY <1>3, ConcatAssociative
<1> QED
  BY <1>2, <1>3, <1>4

\* What a frame must leave, for the invariant to go on.
LEMMA FrameKeeps ==
  ASSUME StreamIInv, turn.stage = "reading", UNCHANGED <<wire, round, turn>>,
         backend' \in [texts : Nat, calls : Seq(Nat), finished : BOOLEAN, over : BOOLEAN],
         stream' \in [open : BOOLEAN, started : BOOLEAN, finish : Finishes, usage : BOOLEAN,
                      known : [CallIndexes -> SUBSET [id : CallIds, name : Nat]], tools : BOOLEAN],
         queue' \in Seq(StreamEvents), QueueOK',
         WireKnows', backend'.over \/ StillOpen',
         NEW n \in Nat, NEW finish \in Finishes,
         Spoken' = 1..n,
         Hearing(queue', HasHeard, [texts |-> backend'.texts, calls |-> SaidCalls(backend'.calls, n),
                                    finish |-> finish]),
         queue' # <<>> /\ queue'[Len(queue')].kind = "over" /\ backend'.finished /\ backend'.calls # <<>>
           => finish # "stop"
  PROVE  StreamIInv'
<1>1. WireOK'
  BY DEF StreamIInv, WireOK
<1>2. MessagesOK'
  BY DEF StreamIInv, MessagesOK, AnsweredIn
<1>3. WireAgrees'
  BY DEF WireAgrees
<1>4. HasHeard' = HasHeard
  BY DEF HasHeard
<1>5. SaidBy(n, finish)' = [texts |-> backend'.texts, calls |-> SaidCalls(backend'.calls, n), finish |-> finish]
  BY DEF SaidBy, SaidCalls, NameOf
<1>6. Hearing(queue', HasHeard', SaidBy(n, finish)')
  BY <1>4, <1>5
<1>7. Hearing(queue, HasHeard, SaidBy(n, finish))'
  BY <1>6 DEF Hearing, Replays, Heard, Gathered
<1>8. NothingIsLost'
  BY <1>7 DEF NothingIsLost
<1> QED
  BY <1>1, <1>2, <1>3, <1>8 DEF StreamIInv

-----------------------------------------------------------------------------
(* Calls put together from their fragments *)

LEMMA NamesAre ==
  ASSUME WireOK
  PROVE  /\ \A i \in Nat : NameOf(i) \in [id : CallIds, name : Nat] /\ NameOf(i).name = i
         /\ \A i \in Nat, j \in Nat : NameOf(i).id = NameOf(j).id => i = j
<1>1. turn.round \in Nat
  BY AdaptersAssumption DEF WireOK
<1>2. ASSUME NEW i \in Nat
      PROVE  <<"call", 0, i>> \in CallIds /\ <<"id", turn.round, i>> \in CallIds
  BY <1>1 DEF CallIds
<1>3. ASSUME NEW i \in Nat PROVE NameOf(i) \in [id : CallIds, name : Nat] /\ NameOf(i).name = i
  BY <1>2 DEF NameOf
<1>4. ASSUME NEW i \in Nat, NEW j \in Nat, NameOf(i).id = NameOf(j).id PROVE i = j
  BY <1>4 DEF NameOf
<1> QED
  BY <1>3, <1>4

LEMMA PartsAre ==
  ASSUME NEW i \in Nat, NEW c \in Nat
  PROVE  /\ AllParts(i, c) \in Fragments /\ Len(AllParts(i, c)) = c
         /\ AllParts(i, 0) = <<>>
         /\ AllParts(i, c) \o <<<<i, c + 1>>>> = AllParts(i, c + 1)
         /\ AllParts(i, 1) = <<<<i, 1>>>>
<1>1. ASSUME NEW n \in Nat
      PROVE  /\ AllParts(i, n) \in Fragments /\ Len(AllParts(i, n)) = n
             /\ \A m \in 1..n : AllParts(i, n)[m] = <<i, m>>
  BY DEF AllParts, Fragments
<1>2. AllParts(i, 0) = <<>>
  BY DEF AllParts
<1>3. AllParts(i, c) \o <<<<i, c + 1>>>> = AllParts(i, c + 1)
  <2> DEFINE s == AllParts(i, c)
             x == <<i, c + 1>>
             u == AllParts(i, c + 1)
  <2>7. s \in Seq(Nat \X Nat) /\ Len(s) = c /\ \A m \in 1..c : s[m] = <<i, m>>
    BY <1>1 DEF Fragments
  <2>8. u \in Seq(Nat \X Nat) /\ Len(u) = c + 1 /\ \A m \in 1..c + 1 : u[m] = <<i, m>>
    <3>1. c + 1 \in Nat
      OBVIOUS
    <3> QED
      BY <1>1, <3>1 DEF Fragments
  <2>9. x \in Nat \X Nat /\ x = <<i, c + 1>>
    OBVIOUS
  <2> HIDE DEF s, x, u
  <2>1. /\ s \in Seq(Nat \X Nat) /\ Len(s) = c /\ x \in Nat \X Nat
        /\ u \in Seq(Nat \X Nat) /\ Len(u) = c + 1
    BY <2>7, <2>8, <2>9
  <2>2. u[c + 1] = x /\ \A m \in 1..c : u[m] = s[m]
    <3>1. c + 1 \in 1..c + 1 /\ \A m \in 1..c : m \in 1..c + 1
      OBVIOUS
    <3> QED
      BY <3>1, <2>7, <2>8, <2>9
  <2>3. /\ Append(s, x) \in Seq(Nat \X Nat) /\ Len(Append(s, x)) = c + 1
        /\ Append(s, x)[c + 1] = x /\ \A m \in 1..c : Append(s, x)[m] = s[m]
    BY <2>1, AppendProperties
  <2>4. \A m \in 1..Len(Append(s, x)) : Append(s, x)[m] = u[m]
    BY <2>2, <2>3
  <2>5. Append(s, x) = u
    BY <2>1, <2>3, <2>4, SeqEqual
  <2>6. Append(s, x) = s \o <<x>>
    BY <2>1, AppendIsConcat
  <2> QED
    BY <2>5, <2>6 DEF s, x, u
<1>4. AllParts(i, 1) = <<<<i, 1>>>>
  <2>1. <<<<i, 1>>>> \in Seq(Nat \X Nat) /\ Len(<<<<i, 1>>>>) = 1 /\ <<<<i, 1>>>>[1] = <<i, 1>>
    OBVIOUS
  <2>2. AllParts(i, 1) \in Seq(Nat \X Nat) /\ Len(AllParts(i, 1)) = 1 /\ AllParts(i, 1)[1] = <<i, 1>>
    <3>1. 1 \in Nat /\ 1 \in 1..1
      OBVIOUS
    <3> QED
      BY <1>1, <3>1 DEF Fragments
  <2>3. \A m \in 1..Len(AllParts(i, 1)) : AllParts(i, 1)[m] = <<<<i, 1>>>>[m]
    BY <2>1, <2>2
  <2> QED
    BY <2>1, <2>2, <2>3, SeqEqual
<1> QED
  BY <1>1, <1>2, <1>3, <1>4

LEMMA SaidCallsAre ==
  ASSUME WireOK, NEW calls \in Seq(Nat), NEW n \in Nat, n <= Len(calls)
  PROVE  /\ SaidCalls(calls, n) \in Seq(HeardCalls) /\ Len(SaidCalls(calls, n)) = n
         /\ DOMAIN SaidCalls(calls, n) = 1..n
         /\ \A i \in 1..n : SaidCalls(calls, n)[i] =
              [id |-> NameOf(i).id, name |-> i, parts |-> AllParts(i, calls[i])]
<1>1. \A i \in 1..n : SaidCalls(calls, n)[i] =
              [id |-> NameOf(i).id, name |-> i, parts |-> AllParts(i, calls[i])]
  BY DEF SaidCalls
<1>2. ASSUME NEW i \in 1..n PROVE SaidCalls(calls, n)[i] \in HeardCalls
  <2>1. i \in Nat /\ calls[i] \in Nat
    BY ElementOfSeq
  <2>2. NameOf(i).id \in CallIds /\ AllParts(i, calls[i]) \in Fragments
    BY <2>1, NamesAre, PartsAre
  <2> QED
    <3>1. [id |-> NameOf(i).id, name |-> i, parts |-> AllParts(i, calls[i])] \in HeardCalls
      BY <2>1, <2>2 DEF HeardCalls
    <3> QED
      BY <3>1, <1>1
<1>3. SaidCalls(calls, n) = [i \in 1..n |-> SaidCalls(calls, n)[i]] /\ DOMAIN SaidCalls(calls, n) = 1..n
  BY DEF SaidCalls
<1>4. SaidCalls(calls, n) \in Seq(HeardCalls) /\ Len(SaidCalls(calls, n)) = n
  <2> DEFINE s == SaidCalls(calls, n)
  <2>1. s = [i \in 1..n |-> s[i]] /\ \A i \in 1..n : s[i] \in HeardCalls
    BY <1>2, <1>3
  <2> HIDE DEF s
  <2>2. s \in Seq(HeardCalls) /\ Len(s) = n
    BY <2>1
  <2> QED
    BY <2>2 DEF s
<1> QED
  BY <1>1, <1>3, <1>4

LEMMA NewCallIsHeard ==
  ASSUME WireOK, NEW old \in Seq(Nat), NEW new \in Seq(Nat), NEW n \in Nat,
         n <= Len(old), n + 1 <= Len(new), \A i \in 1..n : new[i] = old[i],
         NEW e, e.id = NameOf(n + 1).id, e.name = n + 1, e.parts = AllParts(n + 1, new[n + 1])
  PROVE  Gathered(SaidCalls(old, n), e) = SaidCalls(new, n + 1)
<1> DEFINE s == SaidCalls(old, n)
           x == [id |-> e.id, name |-> e.name, parts |-> e.parts]
           u == SaidCalls(new, n + 1)
<1>1. /\ s \in Seq(HeardCalls) /\ Len(s) = n /\ DOMAIN s = 1..n
      /\ \A i \in 1..n : s[i] = [id |-> NameOf(i).id, name |-> i, parts |-> AllParts(i, old[i])]
  BY SaidCallsAre
<1> HIDE DEF s
<1>2. /\ u \in Seq(HeardCalls) /\ Len(u) = n + 1
      /\ \A i \in 1..n + 1 : u[i] = [id |-> NameOf(i).id, name |-> i, parts |-> AllParts(i, new[i])]
  BY SaidCallsAre
<1>3. x = u[n + 1]
  BY <1>2
<1>4. x \in HeardCalls
  BY <1>2, <1>3, ElementOfSeq
<1>5. \A i \in 1..n : s[i] = u[i]
  BY <1>1, <1>2, SMTT(30)
<1>6. ~\E k \in DOMAIN s : s[k].id = e.id
  <2> SUFFICES ASSUME NEW k \in 1..n, s[k].id = e.id PROVE FALSE
    BY <1>1
  <2>1. NameOf(k).id = NameOf(n + 1).id /\ k \in Nat /\ n + 1 \in Nat /\ k # n + 1
    BY <1>1
  <2> QED
    BY <2>1, NamesAre
<1>7. Gathered(s, e) = Append(s, x)
  BY <1>6 DEF Gathered
<1> HIDE DEF s, x, u
<1>8. /\ Append(s, x) \in Seq(HeardCalls) /\ Len(Append(s, x)) = n + 1
      /\ Append(s, x)[n + 1] = x /\ \A m \in 1..n : Append(s, x)[m] = s[m]
  BY <1>1, <1>4, AppendProperties
<1>9. \A m \in 1..Len(Append(s, x)) : Append(s, x)[m] = u[m]
  BY <1>3, <1>5, <1>8
<1>10. Append(s, x) = u
  BY <1>2, <1>8, <1>9, SeqEqual
<1> QED
  BY <1>7, <1>10 DEF s, u

LEMMA FragmentIsHeard ==
  ASSUME WireOK, NEW old \in Seq(Nat), NEW new \in Seq(Nat), NEW n \in Nat,
         n <= Len(old), n <= Len(new), NEW i \in 1..n,
         new[i] = old[i] + 1, \A j \in 1..n : j # i => new[j] = old[j],
         NEW e, e.id = NameOf(i).id, e.parts = <<<<i, old[i] + 1>>>>
  PROVE  Gathered(SaidCalls(old, n), e) = SaidCalls(new, n)
<1> DEFINE s == SaidCalls(old, n)
           u == SaidCalls(new, n)
<1>1. /\ s \in Seq(HeardCalls) /\ Len(s) = n /\ DOMAIN s = 1..n
      /\ \A j \in 1..n : s[j] = [id |-> NameOf(j).id, name |-> j, parts |-> AllParts(j, old[j])]
  BY SaidCallsAre
<1>2. /\ u \in Seq(HeardCalls) /\ Len(u) = n /\ DOMAIN u = 1..n
      /\ \A j \in 1..n : u[j] = [id |-> NameOf(j).id, name |-> j, parts |-> AllParts(j, new[j])]
  BY SaidCallsAre
<1>3. ASSUME NEW j \in 1..n PROVE s[j].id = e.id <=> j = i
  <2>1. s[j].id = NameOf(j).id /\ e.id = NameOf(i).id /\ j \in Nat /\ i \in Nat
    BY <1>1
  <2> QED
    BY <2>1, NamesAre
<1>4. AllParts(i, old[i]) \o e.parts = AllParts(i, new[i])
  <2>1. i \in Nat /\ old[i] \in Nat
    BY ElementOfSeq, SMTT(30)
  <2> QED
    BY <2>1, PartsAre
<1>5. [id |-> e.id, name |-> s[i].name, parts |-> s[i].parts \o e.parts] = u[i]
  <2>1. s[i].id = NameOf(i).id /\ s[i].name = i /\ s[i].parts = AllParts(i, old[i])
    BY <1>1, SMTT(30)
  <2> QED
    BY <2>1, <1>2, <1>4
<1>6. \A j \in 1..n : j # i => s[j] = u[j]
  BY <1>1, <1>2
<1>7. Gathered(s, e) =
        [k \in 1..n |-> IF s[k].id = e.id
                        THEN [id |-> e.id, name |-> s[k].name, parts |-> s[k].parts \o e.parts] ELSE s[k]]
  BY <1>1, <1>3 DEF Gathered
<1>8. u = [k \in 1..n |-> u[k]]
  BY <1>2
<1> HIDE DEF s, u
<1>9. ASSUME NEW k \in 1..n
      PROVE  (IF s[k].id = e.id
              THEN [id |-> e.id, name |-> s[k].name, parts |-> s[k].parts \o e.parts] ELSE s[k]) = u[k]
  BY <1>3, <1>5, <1>6
<1>10. Gathered(s, e) = u
  BY <1>7, <1>8, <1>9
<1> QED
  BY <1>10 DEF s, u

-----------------------------------------------------------------------------
(* The frames of each adapter *)

\* While frames come, the turn reads and the queue has no end.
LEMMA FramesCome ==
  ASSUME StreamIInv, NEW kinds, Sends(kinds)
  PROVE  /\ turn.stage = "reading" /\ ~backend.over /\ wire.kind \in kinds
         /\ WireOK /\ QueueOK /\ WireKnows /\ StillOpen /\ NothingIsLost
BY DEF Sends, StreamIInv, WireAgrees

LEMMA BackendFields ==
  ASSUME WireOK
  PROVE  /\ backend.texts \in Nat /\ backend.calls \in Seq(Nat) /\ backend.finished \in BOOLEAN
         /\ backend.over \in BOOLEAN /\ stream.finish \in Finishes /\ stream.known \in [CallIndexes -> SUBSET [id : CallIds, name : Nat]]
         /\ queue \in Seq(StreamEvents)
BY DEF WireOK

LEMMA NamesStay == ASSUME UNCHANGED <<wire, turn>>, NEW i PROVE NameOf(i)' = NameOf(i)
BY DEF NameOf

LEMMA KnownStays ==
  ASSUME WireKnows, UNCHANGED <<wire, turn>>, backend'.calls = backend.calls,
         backend'.finished = backend.finished, backend.over => backend'.over,
         stream'.known = stream.known, stream'.tools = stream.tools, stream'.finish = stream.finish
  PROVE  WireKnows' /\ Spoken' = Spoken
<1>1. \A i : NameOf(i)' = NameOf(i)
  BY NamesStay
<1>2. Spoken' = Spoken
  BY DEF Spoken
<1>3. wire' = wire
  OBVIOUS
<1> QED
  BY <1>1, <1>2, <1>3 DEF WireKnows

\* One event, which is not "done", is put and will be heard.
LEMMA OneIsPut ==
  ASSUME WireOK, QueueOK, StillOpen, NEW e \in StreamEvents, e.kind # "done", Puts(<<e>>),
         NEW first, NEW last, Hearing(queue, first, last)
  PROVE  /\ queue' \in Seq(StreamEvents) /\ QueueOK' /\ queue' # <<>> /\ queue'[Len(queue')] = e
         /\ e.kind \notin Ending => StillOpen'
         /\ Hearing(queue', first, Heard(last, e))
<1>1. Len(<<e>>) = 1 /\ <<e>>[1] = e /\ <<e>> \in FrameEvents
  BY DEF FrameEvents
<1>2. \A k \in 1..Len(<<e>>) : <<e>>[k] = e
  BY <1>1
<1>3. queue' = queue \o <<e>> /\ queue \in Seq(StreamEvents)
  BY BackendFields DEF Puts
<1>4. Hearing(queue', first, Heard(last, e))
  BY <1>3, OneIsHeard
<1>5. /\ queue' \in Seq(StreamEvents) /\ QueueOK'
      /\ queue' # <<>> /\ queue'[Len(queue')] = <<e>>[Len(<<e>>)]
      /\ (\A k \in 1..Len(<<e>>) : <<e>>[k].kind \notin Ending) => StillOpen'
  BY <1>1, PutsAre
<1> QED
  BY <1>1, <1>2, <1>4, <1>5

\* So is one that may be preceded by the word that generation has started.
LEMMA StartedIsPut ==
  ASSUME WireOK, QueueOK, StillOpen, NEW e \in StreamEvents, e.kind \notin Ending, Puts(Started \o <<e>>),
         NEW first, NEW said, NEW calls, NEW finish,
         Hearing(queue, first, [texts |-> said, calls |-> calls, finish |-> finish])
  PROVE  /\ queue' \in Seq(StreamEvents) /\ QueueOK' /\ queue' # <<>> /\ queue'[Len(queue')] = e
         /\ StillOpen'
         /\ Hearing(queue', first, Heard([texts |-> said, calls |-> calls, finish |-> finish], e))
<1> DEFINE status == [kind |-> "status"]
           last == [texts |-> said, calls |-> calls, finish |-> finish]
<1>1. CASE stream.started
  <2>1. <<>> \o <<e>> = <<e>>
    OBVIOUS
  <2>2. Puts(<<e>>) /\ e.kind # "done"
    BY <1>1, <2>1 DEF Started, Ending
  <2> QED
    BY <2>2, OneIsPut
<1>2. CASE ~stream.started
  <2>1. status \in StreamEvents /\ status.kind \notin Ending /\ Heard(last, status) = last
    BY DEF StreamEvents, Ending, Heard
  <2>2. Started = <<status>>
    BY <1>2 DEF Started
  <2> HIDE DEF status, last
  <2>3. Puts(<<status, e>>)
    BY <2>1, <2>2, PairsAre
  <2> DEFINE events == <<status, e>>
  <2>4. events \in Seq(StreamEvents) /\ Len(events) = 2 /\ events[1] = status /\ events[2] = e
    BY <2>1
  <2>5. Puts(events)
    BY <2>3
  <2> HIDE DEF events
  <2>6. \A k \in 1..Len(events) : events[k].kind \notin Ending
    BY <2>1, <2>4
  <2>7. events \in FrameEvents
    BY <2>4, <2>6, SMTT(30) DEF FrameEvents, Ending
  <2>8. /\ queue' \in Seq(StreamEvents) /\ QueueOK' /\ StillOpen'
        /\ queue' # <<>> /\ queue'[Len(queue')] = events[Len(events)]
    BY <2>5, <2>6, <2>7, PutsAre
  <2>9. Hearing(queue', first, Heard(last, e))
    <3>1. queue' = queue \o <<status, e>> /\ queue \in Seq(StreamEvents)
      BY <2>3, BackendFields DEF Puts
    <3>2. Hearing(queue, first, last)
      BY DEF last
    <3> QED
      BY <3>1, <3>2, <2>1, TwoAreHeard
  <2> QED
    BY <2>4, <2>8, <2>9 DEF last
<1> QED
  BY <1>1, <1>2

LEMMA TextFrameKeeps ==
  ASSUME StreamIInv, NEW kinds, Sends(kinds), NEW kind \in {"text", "thought"}, TextFrame(kind)
  PROVE  StreamIInv'
<1>1. /\ turn.stage = "reading" /\ ~backend.over /\ wire.kind \in kinds
      /\ WireOK /\ QueueOK /\ WireKnows /\ StillOpen /\ NothingIsLost
  BY FramesCome
<1>2. PICK n \in Nat, finish \in Finishes : Spoken = 1..n /\ Hearing(queue, HasHeard, SaidBy(n, finish))
  BY <1>1 DEF NothingIsLost
<1> DEFINE e == [kind |-> kind]
           c == SaidCalls(backend.calls, n)
<1>3. /\ UNCHANGED <<wire, round, turn>>
      /\ backend' = [backend EXCEPT !.texts = @ + 1]
      /\ stream' = [stream EXCEPT !.started = TRUE]
      /\ Puts(Started \o <<e>>)
  BY DEF TextFrame
<1>4. /\ backend' \in [texts : Nat, calls : Seq(Nat), finished : BOOLEAN, over : BOOLEAN]
      /\ backend'.texts = backend.texts + 1 /\ backend'.calls = backend.calls
      /\ backend'.finished = backend.finished /\ backend'.over = backend.over
  <2>1. backend \in [texts : Nat, calls : Seq(Nat), finished : BOOLEAN, over : BOOLEAN]
    BY <1>1 DEF WireOK
  <2> QED
    BY <1>3, <2>1
<1>5. /\ stream' \in [open : BOOLEAN, started : BOOLEAN, finish : Finishes, usage : BOOLEAN,
                      known : [CallIndexes -> SUBSET [id : CallIds, name : Nat]], tools : BOOLEAN]
      /\ stream'.known = stream.known /\ stream'.tools = stream.tools /\ stream'.finish = stream.finish
  <2>1. stream \in [open : BOOLEAN, started : BOOLEAN, finish : Finishes, usage : BOOLEAN,
                    known : [CallIndexes -> SUBSET [id : CallIds, name : Nat]], tools : BOOLEAN]
    BY <1>1 DEF WireOK
  <2> QED
    BY <1>3, <2>1
<1>6. WireKnows' /\ Spoken' = 1..n
  BY <1>1, <1>2, <1>3, <1>4, <1>5, KnownStays
<1>7. e \in StreamEvents /\ e.kind \notin Ending /\ e.kind # "over"
  BY DEF StreamEvents, Ending
<1>8. Heard([texts |-> backend.texts, calls |-> c, finish |-> finish], e) =
        [texts |-> backend.texts + 1, calls |-> c, finish |-> finish]
  BY DEF Heard
<1>9. Hearing(queue, HasHeard, [texts |-> backend.texts, calls |-> c, finish |-> finish])
  BY <1>2 DEF SaidBy
<1> HIDE DEF e, c
<1>10. /\ queue' \in Seq(StreamEvents) /\ QueueOK' /\ queue' # <<>> /\ queue'[Len(queue')] = e
       /\ StillOpen'
       /\ Hearing(queue', HasHeard, [texts |-> backend.texts + 1, calls |-> c, finish |-> finish])
  BY <1>1, <1>3, <1>7, <1>8, <1>9, StartedIsPut
<1> QED
  BY <1>1, <1>3, <1>4, <1>5, <1>6, <1>7, <1>10, FrameKeeps DEF c

LEMMA CallOpensMakes ==
  ASSUME WireOK, WireKnows, NEW known, NEW parts \in Nat, CallOpens(known, parts),
         known = NameOf(Len(backend.calls) + 1),
         wire.kind \in {"ollama", "openai", "anthropic"},
         wire.kind = "anthropic" => \A j \in 1..Len(backend.calls) : backend.calls[j] > 0
  PROVE  /\ UNCHANGED <<wire, round, turn>>
         /\ backend' \in [texts : Nat, calls : Seq(Nat), finished : BOOLEAN, over : BOOLEAN]
         /\ stream' \in [open : BOOLEAN, started : BOOLEAN, finish : Finishes, usage : BOOLEAN,
                         known : [CallIndexes -> SUBSET [id : CallIds, name : Nat]], tools : BOOLEAN]
         /\ ~backend.finished /\ ~backend'.finished /\ backend'.over = backend.over
         /\ backend'.texts = backend.texts
         /\ Len(backend'.calls) = Len(backend.calls) + 1
         /\ \A j \in 1..Len(backend.calls) : backend'.calls[j] = backend.calls[j]
         /\ backend'.calls[Len(backend.calls) + 1] = parts
         /\ WireKnows'
<1> DEFINE m == Len(backend.calls)
           tools == [CallIndexes -> SUBSET [id : CallIds, name : Nat]]
<1>1. /\ UNCHANGED <<wire, round, turn>> /\ ~backend.finished /\ m + 1 <= MaxCalls
      /\ backend' = [backend EXCEPT !.calls = Append(@, parts)]
      /\ stream' = [stream EXCEPT !.known[m + 1] = {known}, !.tools = TRUE,
                                  !.started = @ \/ wire.kind # "anthropic"]
  BY DEF CallOpens
<1>2. /\ backend \in [texts : Nat, calls : Seq(Nat), finished : BOOLEAN, over : BOOLEAN]
      /\ stream \in [open : BOOLEAN, started : BOOLEAN, finish : Finishes, usage : BOOLEAN,
                     known : tools, tools : BOOLEAN]
  BY DEF WireOK
<1>3. m \in Nat /\ m + 1 \in CallIndexes /\ known \in [id : CallIds, name : Nat]
  <2>1. m \in Nat
    BY <1>2
  <2> QED
    BY <2>1, <1>1, NamesAre, AdaptersAssumption DEF CallIndexes
<1> DEFINE calls == Append(backend.calls, parts)
           knowns == [stream.known EXCEPT ![m + 1] = {known}]
<1>4. /\ calls \in Seq(Nat) /\ Len(calls) = m + 1 /\ calls[m + 1] = parts /\ calls # <<>>
      /\ \A j \in 1..m : calls[j] = backend.calls[j]
  <2>1. backend.calls \in Seq(Nat)
    BY <1>2
  <2> QED
    BY <2>1, AppendProperties
<1>5. /\ knowns \in tools /\ knowns[m + 1] = {known}
      /\ \A j \in 1..m : knowns[j] = stream.known[j]
  <2>1. stream.known \in tools
    BY <1>2
  <2>2. \A j \in 1..m : j \in CallIndexes /\ j # m + 1
    BY <1>1, <1>3, AdaptersAssumption DEF CallIndexes
  <2> QED
    BY <2>1, <2>2, <1>3
<1>6. /\ backend' = [texts |-> backend.texts, calls |-> calls, finished |-> backend.finished, over |-> backend.over]
      /\ stream'.known = knowns /\ stream'.tools = TRUE /\ stream'.finish = stream.finish
      /\ stream' \in [open : BOOLEAN, started : BOOLEAN, finish : Finishes, usage : BOOLEAN,
                      known : tools, tools : BOOLEAN]
  <2>1. backend' = [texts |-> backend.texts, calls |-> calls, finished |-> backend.finished, over |-> backend.over]
    BY <1>1, <1>2
  <2> HIDE DEF calls
  <2>2. stream' = [open |-> stream.open, started |-> stream.started \/ wire.kind # "anthropic",
                   finish |-> stream.finish, usage |-> stream.usage, known |-> knowns, tools |-> TRUE]
    BY <1>1, <1>2
  <2> HIDE DEF knowns, tools
  <2> QED
    BY <2>1, <2>2, <1>2, <1>5
<1> HIDE DEF m, tools, calls, knowns
<1>7. \A i : NameOf(i)' = NameOf(i)
  BY <1>1, NamesStay
<1>8. \A j \in 1..m + 1 : knowns[j] = {NameOf(j)}
  <2> SUFFICES ASSUME NEW j \in 1..m + 1 PROVE knowns[j] = {NameOf(j)}
    OBVIOUS
  <2>1. CASE j = m + 1
    BY <2>1, <1>5 DEF m
  <2>2. CASE j \in 1..m
    BY <2>2, <1>5 DEF WireKnows, m
  <2> QED
    BY <2>1, <2>2, <1>3
<1>9. wire.kind = "anthropic" => \A j \in 1..m + 1 : j < m + 1 => calls[j] > 0
  <2> SUFFICES ASSUME wire.kind = "anthropic", NEW j \in 1..m + 1, j < m + 1 PROVE calls[j] > 0
    OBVIOUS
  <2>1. j \in 1..m
    BY <1>3
  <2> QED
    BY <2>1, <1>4 DEF m
<1>10. WireKnows'
  <2>1. /\ backend'.calls = calls /\ Len(backend'.calls) = m + 1 /\ backend'.finished = FALSE
        /\ stream'.known = knowns /\ stream'.tools = TRUE
    BY <1>1, <1>2, <1>4, <1>6
  <2>2. (\A i \in 1..Len(backend.calls) : stream.known[i] = {NameOf(i)})'
    BY <2>1, <1>7, <1>8
  <2>3. wire' = wire
    BY <1>1
  <2> QED
    BY <2>1, <2>2, <2>3, <1>1, <1>4, <1>9 DEF WireKnows
<1>11. /\ backend'.calls = calls /\ backend'.finished = backend.finished /\ backend'.over = backend.over
       /\ backend'.texts = backend.texts /\ backend.finished \in BOOLEAN
       /\ backend' \in [texts : Nat, calls : Seq(Nat), finished : BOOLEAN, over : BOOLEAN]
  BY <1>2, <1>4, <1>6
<1> QED
  BY <1>1, <1>4, <1>6, <1>10, <1>11 DEF m, tools

LEMMA CallOpensAloud ==
  ASSUME StreamIInv, NEW kinds, Sends(kinds), wire.kind \in {"ollama", "openai"},
         NEW known, known = NameOf(Len(backend.calls) + 1), NEW parts \in Nat, CallOpens(known, parts),
         Puts(Started \o <<CallEvent(known, AllParts(known.name, parts))>>)
  PROVE  StreamIInv'
<1>1. /\ turn.stage = "reading" /\ ~backend.over
      /\ WireOK /\ QueueOK /\ WireKnows /\ StillOpen /\ NothingIsLost
  BY FramesCome
<1>2. PICK n \in Nat, finish \in Finishes : Spoken = 1..n /\ Hearing(queue, HasHeard, SaidBy(n, finish))
  BY <1>1 DEF NothingIsLost
<1>3. n = Len(backend.calls)
  BY <1>1, <1>2, AllSpoken DEF WireAgrees
<1>4. /\ UNCHANGED <<wire, round, turn>>
      /\ backend' \in [texts : Nat, calls : Seq(Nat), finished : BOOLEAN, over : BOOLEAN]
      /\ stream' \in [open : BOOLEAN, started : BOOLEAN, finish : Finishes, usage : BOOLEAN,
                      known : [CallIndexes -> SUBSET [id : CallIds, name : Nat]], tools : BOOLEAN]
      /\ ~backend.finished /\ ~backend'.finished /\ backend'.over = backend.over
      /\ backend'.texts = backend.texts
      /\ Len(backend'.calls) = n + 1
      /\ \A j \in 1..n : backend'.calls[j] = backend.calls[j]
      /\ backend'.calls[n + 1] = parts
      /\ WireKnows'
  BY <1>1, <1>3, CallOpensMakes
<1> DEFINE e == CallEvent(known, AllParts(known.name, parts))
<1>5. /\ e.kind = "call" /\ e.id = NameOf(n + 1).id /\ e.name = n + 1 /\ e.parts = AllParts(n + 1, parts)
      /\ e \in StreamEvents
  <2>1. known \in [id : CallIds, name : Nat] /\ known.name = n + 1
    BY <1>1, <1>3, NamesAre
  <2>2. AllParts(n + 1, parts) \in Fragments
    <3>1. n + 1 \in Nat
      OBVIOUS
    <3> QED
      BY <3>1, PartsAre
  <2> QED
    BY <2>1, <2>2, <1>3 DEF CallEvent, StreamEvents
<1> HIDE DEF e
<1>6. Gathered(SaidCalls(backend.calls, n), e) = SaidCalls(backend'.calls, n + 1)
  <2>1. backend.calls \in Seq(Nat) /\ backend'.calls \in Seq(Nat)
    BY <1>1, <1>4 DEF WireOK
  <2>2. n <= Len(backend.calls) /\ n + 1 <= Len(backend'.calls)
    BY <1>3, <1>4
  <2>3. e.parts = AllParts(n + 1, backend'.calls[n + 1])
    BY <1>4, <1>5
  <2> DEFINE old == backend.calls
             new == backend'.calls
  <2>4. /\ old \in Seq(Nat) /\ new \in Seq(Nat) /\ n <= Len(old) /\ n + 1 <= Len(new)
        /\ \A i \in 1..n : new[i] = old[i]
        /\ e.id = NameOf(n + 1).id /\ e.name = n + 1 /\ e.parts = AllParts(n + 1, new[n + 1])
    BY <2>1, <2>2, <2>3, <1>4, <1>5
  <2> HIDE DEF old, new
  <2>5. Gathered(SaidCalls(old, n), e) = SaidCalls(new, n + 1)
    BY <2>4, <1>1, NewCallIsHeard
  <2> QED
    BY <2>5 DEF old, new
<1>7. Heard([texts |-> backend.texts, calls |-> SaidCalls(backend.calls, n), finish |-> finish], e) =
        [texts |-> backend'.texts, calls |-> SaidCalls(backend'.calls, n + 1), finish |-> finish]
  BY <1>4, <1>5, <1>6 DEF Heard
<1>8. Hearing(queue, HasHeard, [texts |-> backend.texts, calls |-> SaidCalls(backend.calls, n), finish |-> finish])
  BY <1>2 DEF SaidBy
<1>9. /\ queue' \in Seq(StreamEvents) /\ QueueOK' /\ queue' # <<>> /\ queue'[Len(queue')] = e /\ StillOpen'
      /\ Hearing(queue', HasHeard,
                 [texts |-> backend'.texts, calls |-> SaidCalls(backend'.calls, n + 1), finish |-> finish])
  BY <1>1, <1>5, <1>7, <1>8, StartedIsPut DEF e, Ending
<1>10. Spoken' = 1..n + 1
  BY <1>4 DEF Spoken
<1> QED
  BY <1>1, <1>4, <1>5, <1>9, <1>10, FrameKeeps

\* The calls a turn heard of do not depend on those it has not heard of.
LEMMA SaidCallsAgree ==
  ASSUME NEW old, NEW new, NEW n \in Nat, \A i \in 1..n : new[i] = old[i]
  PROVE  SaidCalls(new, n) = SaidCalls(old, n)
BY DEF SaidCalls

LEMMA CallOpensSilently ==
  ASSUME StreamIInv, NEW kinds, Sends(kinds), wire.kind = "anthropic",
         Len(backend.calls) > 0 => backend.calls[Len(backend.calls)] > 0,
         NEW known, known = NameOf(Len(backend.calls) + 1), CallOpens(known, 0), UNCHANGED queue
  PROVE  StreamIInv'
<1>1. /\ turn.stage = "reading" /\ ~backend.over
      /\ WireOK /\ QueueOK /\ WireKnows /\ StillOpen /\ NothingIsLost
  BY FramesCome
<1>2. PICK n \in Nat, finish \in Finishes : Spoken = 1..n /\ Hearing(queue, HasHeard, SaidBy(n, finish))
  BY <1>1 DEF NothingIsLost
<1> DEFINE m == Len(backend.calls)
<1>3. m \in Nat /\ \A j \in 1..m : backend.calls[j] > 0
  <2>1. m \in Nat
    BY <1>1 DEF WireOK
  <2>2. ASSUME NEW j \in 1..m PROVE backend.calls[j] > 0
    <3>1. j < m \/ j = m
      BY <2>1
    <3> QED
      BY <3>1, <2>1, <1>1 DEF WireKnows
  <2> QED
    BY <2>1, <2>2
<1>4. n = m
  <2>1. Spoken = 1..m
    BY <1>3 DEF Spoken
  <2> QED
    BY <2>1, <1>2, <1>3, SameUpTo
<1>5. /\ UNCHANGED <<wire, round, turn>>
      /\ backend' \in [texts : Nat, calls : Seq(Nat), finished : BOOLEAN, over : BOOLEAN]
      /\ stream' \in [open : BOOLEAN, started : BOOLEAN, finish : Finishes, usage : BOOLEAN,
                      known : [CallIndexes -> SUBSET [id : CallIds, name : Nat]], tools : BOOLEAN]
      /\ ~backend.finished /\ ~backend'.finished /\ backend'.over = backend.over
      /\ backend'.texts = backend.texts
      /\ Len(backend'.calls) = n + 1
      /\ \A j \in 1..n : backend'.calls[j] = backend.calls[j]
      /\ backend'.calls[n + 1] = 0
      /\ WireKnows'
  BY <1>1, <1>3, <1>4, CallOpensMakes
<1>6. Spoken' = 1..n
  <2>1. \A i \in 1..n + 1 : backend'.calls[i] > 0 <=> i \in 1..n
    BY <1>3, <1>4, <1>5, SMTT(30)
  <2>2. wire'.kind = "anthropic"
    BY <1>5
  <2> QED
    BY <2>1, <2>2, <1>5 DEF Spoken
<1>7. SaidCalls(backend'.calls, n) = SaidCalls(backend.calls, n)
  <2>1. n \in Nat /\ \A j \in 1..n : backend'.calls[j] = backend.calls[j]
    BY <1>5
  <2> HIDE DEF m
  <2> QED
    BY <2>1, SaidCallsAgree
<1>8. Hearing(queue', HasHeard,
              [texts |-> backend'.texts, calls |-> SaidCalls(backend'.calls, n), finish |-> finish])
  BY <1>2, <1>5, <1>7 DEF SaidBy
<1>9. queue' \in Seq(StreamEvents) /\ QueueOK' /\ StillOpen'
  BY <1>1 DEF WireOK, QueueOK, StillOpen
<1> QED
  BY <1>1, <1>5, <1>6, <1>8, <1>9, FrameKeeps

LEMMA CallGoesOnKeeps ==
  ASSUME StreamIInv, NEW kinds, Sends(kinds), wire.kind \in {"openai", "anthropic"},
         NEW i \in 1..Len(backend.calls), wire.kind = "anthropic" => i = Len(backend.calls), CallGoesOn(i)
  PROVE  StreamIInv'
<1>1. /\ turn.stage = "reading" /\ ~backend.over
      /\ WireOK /\ QueueOK /\ WireKnows /\ StillOpen /\ NothingIsLost
  BY FramesCome
<1>2. PICK n \in Nat, finish \in Finishes : Spoken = 1..n /\ Hearing(queue, HasHeard, SaidBy(n, finish))
  BY <1>1 DEF NothingIsLost
<1> DEFINE old == backend.calls
           m == Len(old)
           count == old[i] + 1
           new == [old EXCEPT ![i] = count]
           e == CallEvent(NameOf(i), <<<<i, count>>>>)
<1>3. /\ UNCHANGED <<wire, stream, round, turn>> /\ ~backend.finished
      /\ backend' = [backend EXCEPT !.calls[i] = count]
      /\ \E known \in stream.known[i] : Puts(<<CallEvent(known, <<<<i, count>>>>)>>)
  BY DEF CallGoesOn
<1>4. old \in Seq(Nat) /\ m \in Nat /\ i \in Nat /\ old[i] \in Nat /\ DOMAIN old = 1..m
  <2>1. old \in Seq(Nat)
    BY <1>1 DEF WireOK
  <2> QED
    BY <2>1, ElementOfSeq
<1>5. Puts(<<e>>)
  BY <1>1, <1>3 DEF WireKnows
<1>6. /\ new \in Seq(Nat) /\ Len(new) = m /\ new[i] = old[i] + 1
      /\ \A j \in 1..m : j # i => new[j] = old[j]
  BY <1>4, ExceptSeq
<1>7. backend' = [texts |-> backend.texts, calls |-> new, finished |-> backend.finished, over |-> backend.over]
  <2>1. backend \in [texts : Nat, calls : Seq(Nat), finished : BOOLEAN, over : BOOLEAN]
    BY <1>1 DEF WireOK
  <2> QED
    BY <2>1, <1>3
<1>8. /\ e.kind = "call" /\ e.id = NameOf(i).id /\ e.name = i /\ e.parts = <<<<i, count>>>>
      /\ e \in StreamEvents
  <2>1. NameOf(i) \in [id : CallIds, name : Nat] /\ NameOf(i).name = i
    BY <1>1, <1>4, NamesAre
  <2>2. <<<<i, count>>>> \in Fragments
    BY <1>4 DEF Fragments
  <2> QED
    BY <2>1, <2>2 DEF CallEvent, StreamEvents
<1> HIDE DEF new, e
<1>9. /\ backend'.texts = backend.texts /\ backend'.calls = new /\ backend'.finished = backend.finished
      /\ backend'.over = backend.over
      /\ backend' \in [texts : Nat, calls : Seq(Nat), finished : BOOLEAN, over : BOOLEAN]
      /\ stream' \in [open : BOOLEAN, started : BOOLEAN, finish : Finishes, usage : BOOLEAN,
                      known : [CallIndexes -> SUBSET [id : CallIds, name : Nat]], tools : BOOLEAN]
  <2>1. /\ backend.texts \in Nat /\ backend.finished \in BOOLEAN /\ backend.over \in BOOLEAN
        /\ stream \in [open : BOOLEAN, started : BOOLEAN, finish : Finishes, usage : BOOLEAN,
                       known : [CallIndexes -> SUBSET [id : CallIds, name : Nat]], tools : BOOLEAN]
    BY <1>1 DEF WireOK
  <2>2. stream' = stream
    BY <1>3
  <2>3. new \in Seq(Nat)
    BY <1>6
  <2>4. /\ backend'.texts = backend.texts /\ backend'.calls = new /\ backend'.finished = backend.finished
        /\ backend'.over = backend.over
        /\ backend' \in [texts : Nat, calls : Seq(Nat), finished : BOOLEAN, over : BOOLEAN]
    BY <2>1, <2>3, <1>7
  <2> QED
    BY <2>1, <2>2, <2>4
<1>10. WireKnows'
  <2>1. \A j : NameOf(j)' = NameOf(j)
    BY <1>3, NamesStay
  <2>2. wire' = wire /\ stream' = stream /\ Len(backend'.calls) = m /\ backend'.finished = FALSE
    BY <1>1, <1>3, <1>6, <1>9 DEF WireOK
  <2>3. (\A j \in 1..Len(backend.calls) : stream.known[j] = {NameOf(j)})'
    BY <2>1, <2>2, <1>1 DEF WireKnows
  <2>4. wire.kind = "anthropic" => \A j \in 1..m : j < m => new[j] > 0
    BY <1>1, <1>4, <1>6 DEF WireKnows
  <2> QED
    BY <2>2, <2>3, <2>4, <1>1, <1>9 DEF WireKnows
<1>11. ASSUME NEW k \in Nat, Spoken' = 1..k, Gathered(SaidCalls(old, n), e) = SaidCalls(new, k)
       PROVE  StreamIInv'
  <2>1. Heard([texts |-> backend.texts, calls |-> SaidCalls(old, n), finish |-> finish], e) =
          [texts |-> backend'.texts, calls |-> SaidCalls(backend'.calls, k), finish |-> finish]
    BY <1>8, <1>9, <1>11 DEF Heard
  <2>2. Hearing(queue, HasHeard, [texts |-> backend.texts, calls |-> SaidCalls(old, n), finish |-> finish])
    BY <1>2 DEF SaidBy
  <2>3. /\ queue' \in Seq(StreamEvents) /\ QueueOK' /\ queue' # <<>> /\ queue'[Len(queue')] = e /\ StillOpen'
        /\ Hearing(queue', HasHeard,
                   [texts |-> backend'.texts, calls |-> SaidCalls(backend'.calls, k), finish |-> finish])
    BY <1>1, <1>5, <1>8, <2>1, <2>2, OneIsPut DEF Ending
  <2> QED
    BY <2>3, <1>1, <1>2, <1>3, <1>8, <1>9, <1>10, <1>11, FrameKeeps
<1>12. CASE wire.kind = "openai" \/ old[i] > 0
  <2>1. Spoken = 1..m
    <3>1. ASSUME wire.kind = "anthropic", NEW j \in 1..m PROVE old[j] > 0
      <4>1. j < m \/ j = i
        BY <3>1, <1>4
      <4> QED
        BY <4>1, <3>1, <1>1, <1>12, <1>4 DEF WireKnows
    <3> QED
      BY <3>1 DEF Spoken
  <2>2. n = m
    BY <2>1, <1>2, <1>4, SameUpTo
  <2>3. Spoken' = 1..m
    <3>1. ASSUME wire.kind = "anthropic", NEW j \in 1..m PROVE new[j] > 0
      <4>1. j < m \/ j = i
        BY <3>1, <1>4
      <4> QED
        BY <4>1, <3>1, <1>1, <1>4, <1>6 DEF WireKnows
    <3>2. backend'.calls = new /\ Len(new) = m /\ wire' = wire
      BY <1>3, <1>6, <1>9
    <3> QED
      BY <3>1, <3>2 DEF Spoken
  <2>4. Gathered(SaidCalls(old, n), e) = SaidCalls(new, n)
    <3>1. /\ WireOK /\ old \in Seq(Nat) /\ new \in Seq(Nat) /\ n <= Len(old) /\ n <= Len(new)
          /\ i \in 1..n /\ new[i] = old[i] + 1 /\ \A j \in 1..n : j # i => new[j] = old[j]
          /\ e.id = NameOf(i).id /\ e.parts = <<<<i, old[i] + 1>>>>
      BY <2>2, <1>1, <1>4, <1>6, <1>8
    <3> HIDE DEF old
    <3> QED
      BY <3>1, FragmentIsHeard, ZenonT(60)
  <2> QED
    BY <2>2, <2>3, <2>4, <1>4, <1>11
<1>13. CASE wire.kind = "anthropic" /\ old[i] = 0
  <2>1. m - 1 \in Nat /\ i = m /\ Spoken = 1..m - 1
    <3>1. i = m /\ m - 1 \in Nat
      BY <1>4, <1>13
    <3>2. \A j \in 1..m : old[j] > 0 <=> j \in 1..m - 1
      BY <3>1, <1>1, <1>4, <1>13 DEF WireKnows
    <3>3. 1..m - 1 \subseteq 1..m
      BY <3>1
    <3> QED
      BY <3>1, <3>2, <3>3, <1>13 DEF Spoken
  <2>2. n = m - 1 /\ n + 1 = m
    BY <2>1, <1>2, SameUpTo
  <2>3. Spoken' = 1..m
    <3>1. ASSUME NEW j \in 1..m PROVE new[j] > 0
      <4>1. j < m \/ j = i
        BY <2>1, <1>4
      <4> QED
        BY <4>1, <1>1, <1>4, <1>6, <1>13 DEF WireKnows
    <3>2. backend'.calls = new /\ Len(new) = m /\ wire' = wire
      BY <1>3, <1>6, <1>9
    <3> QED
      BY <3>1, <3>2 DEF Spoken
  <2>4. e.parts = AllParts(n + 1, new[n + 1]) /\ e.id = NameOf(n + 1).id /\ e.name = n + 1
    <3>1. new[i] = 1 /\ count = 1 /\ n + 1 = i
      BY <2>1, <2>2, <1>4, <1>6, <1>13
    <3> QED
      BY <3>1, <1>4, <1>8, PartsAre
  <2>5. \A j \in 1..n : new[j] = old[j]
    BY <2>1, <2>2, <1>4, <1>6
  <2>6. Gathered(SaidCalls(old, n), e) = SaidCalls(new, n + 1)
    <3>1. /\ WireOK /\ old \in Seq(Nat) /\ new \in Seq(Nat) /\ n <= Len(old) /\ n + 1 <= Len(new)
      BY <2>1, <2>2, <1>1, <1>4, <1>6
    <3> HIDE DEF old
    <3> QED
      BY <3>1, <2>4, <2>5, NewCallIsHeard
  <2> QED
    BY <2>2, <2>3, <2>6, <1>4, <1>11
<1> QED
  BY <1>4, <1>12, <1>13

LEMMA FinishFrameKeeps ==
  ASSUME StreamIInv, NEW kinds, Sends(kinds), wire.kind \in {"openai", "anthropic"},
         wire.kind = "anthropic" /\ Len(backend.calls) > 0 => backend.calls[Len(backend.calls)] > 0,
         NEW counted \in BOOLEAN, FinishFrame(counted)
  PROVE  StreamIInv'
<1>1. /\ turn.stage = "reading" /\ ~backend.over
      /\ WireOK /\ QueueOK /\ WireKnows /\ StillOpen /\ NothingIsLost
  BY FramesCome
<1>2. PICK n \in Nat, finish \in Finishes : Spoken = 1..n /\ Hearing(queue, HasHeard, SaidBy(n, finish))
  BY <1>1 DEF NothingIsLost
<1>3. PICK reason \in {IF backend.calls = <<>> THEN "stop" ELSE "tool_calls", "length"} :
        stream' = [stream EXCEPT !.usage = counted, !.finish = reason]
  BY DEF FinishFrame
<1>4. /\ UNCHANGED <<wire, queue, round, turn>> /\ ~backend.finished
      /\ backend' = [backend EXCEPT !.finished = TRUE]
  BY DEF FinishFrame
<1>5. /\ backend' \in [texts : Nat, calls : Seq(Nat), finished : BOOLEAN, over : BOOLEAN]
      /\ backend'.texts = backend.texts /\ backend'.calls = backend.calls
      /\ backend'.finished = TRUE /\ backend'.over = backend.over
  <2>1. backend \in [texts : Nat, calls : Seq(Nat), finished : BOOLEAN, over : BOOLEAN]
    BY <1>1 DEF WireOK
  <2> QED
    BY <1>4, <2>1
<1>6. /\ stream' \in [open : BOOLEAN, started : BOOLEAN, finish : Finishes, usage : BOOLEAN,
                      known : [CallIndexes -> SUBSET [id : CallIds, name : Nat]], tools : BOOLEAN]
      /\ stream'.known = stream.known /\ stream'.tools = stream.tools
      /\ backend.calls # <<>> => stream'.finish # "stop"
  <2>1. stream \in [open : BOOLEAN, started : BOOLEAN, finish : Finishes, usage : BOOLEAN,
                    known : [CallIndexes -> SUBSET [id : CallIds, name : Nat]], tools : BOOLEAN]
    BY <1>1 DEF WireOK
  <2>2. reason \in Finishes /\ (backend.calls # <<>> => reason # "stop")
    BY <1>3 DEF Finishes
  <2> QED
    BY <1>3, <2>1, <2>2
<1>7. WireKnows' /\ Spoken' = Spoken
  <2>1. \A j : NameOf(j)' = NameOf(j)
    BY <1>4, NamesStay
  <2>2. wire' = wire
    BY <1>4
  <2>3. (\A j \in 1..Len(backend.calls) : stream.known[j] = {NameOf(j)})'
    BY <2>1, <1>1, <1>5, <1>6 DEF WireKnows
  <2>4. wire.kind = "anthropic" => \A j \in 1..Len(backend.calls) : backend.calls[j] > 0
    <3> SUFFICES ASSUME wire.kind = "anthropic", NEW j \in 1..Len(backend.calls) PROVE backend.calls[j] > 0
      OBVIOUS
    <3>1. Len(backend.calls) \in Nat
      BY <1>1 DEF WireOK
    <3>2. j < Len(backend.calls) \/ j = Len(backend.calls)
      BY <3>1
    <3> QED
      BY <3>1, <3>2, <1>1 DEF WireKnows
  <2> QED
    BY <2>2, <2>3, <2>4, <1>1, <1>5, <1>6 DEF WireKnows, Spoken
<1>8. Hearing(queue', HasHeard,
              [texts |-> backend'.texts, calls |-> SaidCalls(backend'.calls, n), finish |-> finish])
  BY <1>2, <1>4, <1>5 DEF SaidBy
<1>9. queue' \in Seq(StreamEvents) /\ QueueOK' /\ StillOpen'
  BY <1>1, <1>4 DEF WireOK, QueueOK, StillOpen
<1>10. queue' # <<>> => queue'[Len(queue')].kind # "over"
  <2> SUFFICES ASSUME queue' # <<>> PROVE queue'[Len(queue')].kind # "over"
    OBVIOUS
  <2>1. Len(queue') \in DOMAIN queue'
    BY <1>9, EmptySeq
  <2> QED
    BY <2>1, <1>9 DEF StillOpen, Ending
<1> QED
  BY <1>1, <1>2, <1>4, <1>5, <1>6, <1>7, <1>8, <1>9, <1>10, FrameKeeps

\* What a stream says at its end, in good order.
LEMMA FinishedIsPut ==
  ASSUME WireOK, QueueOK, StillOpen, NEW finish \in Finishes, NEW usage \in BOOLEAN,
         Puts(Finished(finish, usage)),
         NEW first, NEW said, NEW calls, NEW before,
         Hearing(queue, first, [texts |-> said, calls |-> calls, finish |-> before])
  PROVE  /\ queue' \in Seq(StreamEvents) /\ QueueOK' /\ queue' # <<>>
         /\ Hearing(queue', first, [texts |-> said, calls |-> calls, finish |-> finish])
<1> DEFINE last == [texts |-> said, calls |-> calls, finish |-> before]
           ended == [texts |-> said, calls |-> calls, finish |-> finish]
           u == [kind |-> "usage"]
           d == [kind |-> "done", finish |-> finish]
           o == [kind |-> "over"]
<1>1. u \in StreamEvents /\ d \in StreamEvents /\ o \in StreamEvents
  BY DEF StreamEvents
<1>2. Heard(last, u) = last /\ Heard(last, d) = ended /\ Heard(ended, o) = ended
  BY DEF Heard
<1>3. u.kind = "usage" /\ d.kind = "done" /\ o.kind = "over"
  OBVIOUS
<1>4. queue \in Seq(StreamEvents)
  BY BackendFields
<1>5. Finished(finish, usage) = (IF usage THEN <<u>> ELSE <<>>) \o <<d, o>>
  BY DEF Finished
<1> HIDE DEF last, ended, u, d, o
<1>6. ASSUME NEW events \in FrameEvents, Puts(events)
      PROVE  queue' \in Seq(StreamEvents) /\ QueueOK' /\ queue' # <<>>
  BY <1>6, PutsAre
<1>7. CASE usage
  <2>1. Finished(finish, usage) = <<u, d, o>>
    BY <1>1, <1>5, <1>7, TriplesAre
  <2>2. <<u, d, o>> \in FrameEvents
    BY <1>1, <1>3 DEF FrameEvents
  <2>3. Hearing(queue', first, Heard(Heard(Heard(last, u), d), o))
    BY <2>1, <1>1, <1>4, ThreeAreHeard DEF Puts, last
  <2> QED
    BY <2>1, <2>2, <2>3, <1>2, <1>6 DEF ended
<1>8. CASE ~usage
  <2>1. Finished(finish, usage) = <<d, o>>
    BY <1>1, <1>5, <1>8
  <2>2. <<d, o>> \in FrameEvents
    BY <1>1, <1>3 DEF FrameEvents
  <2>3. Hearing(queue', first, Heard(Heard(last, d), o))
    BY <2>1, <1>1, <1>4, TwoAreHeard DEF Puts, last
  <2> QED
    BY <2>1, <2>2, <2>3, <1>2, <1>6 DEF ended
<1> QED
  BY <1>7, <1>8

\* A backend that is over, whatever its adapter then put.
LEMMA EndingKeeps ==
  ASSUME StreamIInv, turn.stage = "reading", UNCHANGED <<wire, stream, round, turn>>,
         backend'.over = TRUE, backend'.texts = backend.texts, backend'.calls = backend.calls,
         backend'.finished \in BOOLEAN, backend.finished => backend'.finished,
         backend' \in [texts : Nat, calls : Seq(Nat), finished : BOOLEAN, over : BOOLEAN],
         wire.kind \in {"openai", "anthropic"} => backend'.finished = backend.finished,
         queue' \in Seq(StreamEvents), QueueOK',
         NEW n \in Nat, NEW finish \in Finishes, Spoken = 1..n,
         Hearing(queue', HasHeard,
                 [texts |-> backend.texts, calls |-> SaidCalls(backend.calls, n), finish |-> finish]),
         queue' # <<>> /\ queue'[Len(queue')].kind = "over" /\ backend'.finished /\ backend.calls # <<>>
           => finish # "stop"
  PROVE  StreamIInv'
<1>1. WireOK /\ WireKnows
  BY DEF StreamIInv, WireAgrees
<1>2. Spoken' = 1..n
  BY DEF Spoken
<1>3. WireKnows'
  <2>1. \A j : NameOf(j)' = NameOf(j)
    BY NamesStay
  <2>2. wire' = wire /\ stream' = stream
    OBVIOUS
  <2>3. (\A j \in 1..Len(backend.calls) : stream.known[j] = {NameOf(j)})'
    BY <2>1, <2>2, <1>1 DEF WireKnows
  <2> QED
    BY <2>2, <2>3, <1>1 DEF WireKnows
<1>4. stream' \in [open : BOOLEAN, started : BOOLEAN, finish : Finishes, usage : BOOLEAN,
                   known : [CallIndexes -> SUBSET [id : CallIds, name : Nat]], tools : BOOLEAN]
  BY <1>1 DEF WireOK
<1> QED
  BY <1>2, <1>3, <1>4, FrameKeeps

LEMMA EndFrameKeeps ==
  ASSUME StreamIInv, NEW kinds, Sends(kinds), NEW finish \in Finishes, NEW usage \in BOOLEAN,
         EndFrame(finish, usage), backend.calls # <<>> => finish # "stop",
         wire.kind \in {"openai", "anthropic"} => backend.finished
  PROVE  StreamIInv'
<1>1. /\ turn.stage = "reading" /\ ~backend.over
      /\ WireOK /\ QueueOK /\ WireKnows /\ StillOpen /\ NothingIsLost
  BY FramesCome
<1>2. PICK n \in Nat, before \in Finishes : Spoken = 1..n /\ Hearing(queue, HasHeard, SaidBy(n, before))
  BY <1>1 DEF NothingIsLost
<1>3. /\ UNCHANGED <<wire, stream, round, turn>> /\ Puts(Finished(finish, usage))
      /\ backend' = [backend EXCEPT !.finished = TRUE, !.over = TRUE]
  BY DEF EndFrame
<1>4. /\ backend' \in [texts : Nat, calls : Seq(Nat), finished : BOOLEAN, over : BOOLEAN]
      /\ backend'.texts = backend.texts /\ backend'.calls = backend.calls
      /\ backend'.finished = TRUE /\ backend'.over = TRUE
      /\ backend.finished \in BOOLEAN
  <2>1. backend \in [texts : Nat, calls : Seq(Nat), finished : BOOLEAN, over : BOOLEAN]
    BY <1>1 DEF WireOK
  <2> QED
    BY <1>3, <2>1
<1>5. /\ queue' \in Seq(StreamEvents) /\ QueueOK'
      /\ Hearing(queue', HasHeard,
                 [texts |-> backend.texts, calls |-> SaidCalls(backend.calls, n), finish |-> finish])
  BY <1>1, <1>2, <1>3, FinishedIsPut DEF SaidBy
<1> QED
  BY <1>1, <1>2, <1>3, <1>4, <1>5, EndingKeeps

\* An event after which nothing more comes: an error, or the end without a word.
LEMMA LastEventKeeps ==
  ASSUME StreamIInv, turn.stage = "reading", ~backend.over, UNCHANGED <<wire, stream, round, turn>>,
         backend' = [backend EXCEPT !.over = TRUE],
         NEW e \in StreamEvents, e.kind \in {"over", "raise"}, Puts(<<e>>),
         e.kind = "over" => wire.kind \in {"ollama", "llamacpp"}
  PROVE  StreamIInv'
<1>1. WireOK /\ QueueOK /\ WireKnows /\ StillOpen /\ NothingIsLost
  BY DEF StreamIInv, WireAgrees
<1>2. PICK n \in Nat, finish \in Finishes : Spoken = 1..n /\ Hearing(queue, HasHeard, SaidBy(n, finish))
  BY <1>1 DEF NothingIsLost
<1>3. /\ backend' \in [texts : Nat, calls : Seq(Nat), finished : BOOLEAN, over : BOOLEAN]
      /\ backend'.texts = backend.texts /\ backend'.calls = backend.calls
      /\ backend'.finished = backend.finished /\ backend'.over = TRUE
      /\ backend.finished \in BOOLEAN
  <2>1. backend \in [texts : Nat, calls : Seq(Nat), finished : BOOLEAN, over : BOOLEAN]
    BY <1>1 DEF WireOK
  <2> QED
    BY <2>1
<1>4. Heard([texts |-> backend.texts, calls |-> SaidCalls(backend.calls, n), finish |-> finish], e) =
        [texts |-> backend.texts, calls |-> SaidCalls(backend.calls, n), finish |-> finish]
  BY DEF Heard
<1>5. /\ queue' \in Seq(StreamEvents) /\ QueueOK' /\ queue'[Len(queue')] = e
      /\ Hearing(queue', HasHeard,
                 [texts |-> backend.texts, calls |-> SaidCalls(backend.calls, n), finish |-> finish])
  BY <1>1, <1>2, <1>4, OneIsPut DEF SaidBy
<1>6. e.kind = "over" => ~backend'.finished
  BY <1>1, <1>3 DEF WireKnows
<1> QED
  BY <1>1, <1>2, <1>3, <1>5, <1>6, EndingKeeps

LEMMA ErrorsAre ==
  /\ Untyped \in StreamEvents /\ Untyped.kind = "raise"
  /\ \A code \in Codes : Typed(code) \in StreamEvents /\ Typed(code).kind = "raise"
BY DEF Untyped, Typed, StreamEvents, Codes

LEMMA StreamFailsKeeps == ASSUME StreamIInv, StreamFails \/ StreamIsRefused PROVE StreamIInv'
<1>1. /\ turn.stage = "reading" /\ ~backend.over /\ UNCHANGED <<wire, stream, round, turn>>
      /\ backend' = [backend EXCEPT !.over = TRUE]
      /\ \/ \E code \in Refusals \cup {"backend_offline", "backend_timeout"} : Puts(<<Typed(code)>>)
         \/ Puts(<<Untyped>>)
  BY DEF StreamFails, StreamIsRefused, Sends
<1>2. Refusals \cup {"backend_offline", "backend_timeout"} \subseteq Codes
  BY RefusalCodes DEF StreamIInv
<1>3. PICK e \in StreamEvents : e.kind = "raise" /\ Puts(<<e>>)
  BY <1>1, <1>2, ErrorsAre
<1> QED
  BY <1>1, <1>3, LastEventKeeps

LEMMA ClosedEarlyKeeps == ASSUME StreamIInv, ClosedEarly PROVE StreamIInv'
<1>1. /\ turn.stage = "reading" /\ ~backend.over /\ wire.kind \in AdapterKinds
      /\ WireOK /\ QueueOK /\ WireKnows /\ StillOpen /\ NothingIsLost
  BY FramesCome DEF ClosedEarly
<1>2. /\ UNCHANGED <<wire, stream, round, turn>> /\ backend' = [backend EXCEPT !.over = TRUE]
  BY DEF ClosedEarly
<1>3. CASE wire.kind \in {"ollama", "llamacpp"}
  <2>1. Puts(<<[kind |-> "over"]>>)
    BY <1>3 DEF ClosedEarly
  <2>2. [kind |-> "over"] \in StreamEvents
    BY DEF StreamEvents
  <2> QED
    BY <2>1, <2>2, <1>1, <1>2, <1>3, LastEventKeeps
<1>4. CASE wire.kind \in {"openai", "anthropic"}
  <2>1. PICK usage \in BOOLEAN : Puts(Finished(stream.finish, usage))
    <3>1. stream.usage \in BOOLEAN
      BY <1>1 DEF WireOK
    <3> QED
      BY <3>1, <1>4 DEF ClosedEarly
  <2>2. PICK n \in Nat, before \in Finishes : Spoken = 1..n /\ Hearing(queue, HasHeard, SaidBy(n, before))
    BY <1>1 DEF NothingIsLost
  <2>3. /\ backend' \in [texts : Nat, calls : Seq(Nat), finished : BOOLEAN, over : BOOLEAN]
        /\ backend'.texts = backend.texts /\ backend'.calls = backend.calls
        /\ backend'.finished = backend.finished /\ backend'.over = TRUE
        /\ backend.finished \in BOOLEAN
    <3>1. backend \in [texts : Nat, calls : Seq(Nat), finished : BOOLEAN, over : BOOLEAN]
      BY <1>1 DEF WireOK
    <3> QED
      BY <3>1, <1>2
  <2>4. stream.finish \in Finishes
    BY <1>1, BackendFields
  <2>5. /\ queue' \in Seq(StreamEvents) /\ QueueOK'
        /\ Hearing(queue', HasHeard, [texts |-> backend.texts, calls |-> SaidCalls(backend.calls, n),
                                      finish |-> stream.finish])
    BY <2>1, <2>2, <2>4, <1>1, FinishedIsPut DEF SaidBy
  <2>6. backend'.finished /\ backend.calls # <<>> => stream.finish # "stop"
    BY <2>3, <1>1, <1>4 DEF WireKnows
  <2> QED
    BY <2>2, <2>3, <2>4, <2>5, <2>6, <1>1, <1>2, EndingKeeps
<1> QED
  BY <1>1, <1>3, <1>4 DEF AdapterKinds

LEMMA StreamOpensKeeps == ASSUME StreamIInv, StreamOpens PROVE StreamIInv'
<1>1. /\ turn.stage = "reading" /\ UNCHANGED <<wire, backend, queue, round, turn>>
      /\ stream' = [stream EXCEPT !.open = TRUE]
  BY DEF StreamOpens
<1>2. WireOK /\ QueueOK /\ WireAgrees /\ NothingIsLost
  BY <1>1 DEF StreamIInv
<1>3. PICK n \in Nat, finish \in Finishes :
        /\ Spoken = 1..n /\ Hearing(queue, HasHeard, SaidBy(n, finish))
        /\ backend.finished /\ backend.calls # <<>> /\ queue # <<>> /\ queue[Len(queue)].kind = "over"
             => finish # "stop"
  BY <1>2 DEF NothingIsLost
<1>4. /\ stream' \in [open : BOOLEAN, started : BOOLEAN, finish : Finishes, usage : BOOLEAN,
                      known : [CallIndexes -> SUBSET [id : CallIds, name : Nat]], tools : BOOLEAN]
      /\ stream'.known = stream.known /\ stream'.tools = stream.tools /\ stream'.finish = stream.finish
  <2>1. stream \in [open : BOOLEAN, started : BOOLEAN, finish : Finishes, usage : BOOLEAN,
                    known : [CallIndexes -> SUBSET [id : CallIds, name : Nat]], tools : BOOLEAN]
    BY <1>2 DEF WireOK
  <2> QED
    BY <1>1, <2>1
<1>5. WireKnows' /\ Spoken' = Spoken
  BY <1>1, <1>2, <1>4, KnownStays DEF WireAgrees
<1>6. /\ backend' \in [texts : Nat, calls : Seq(Nat), finished : BOOLEAN, over : BOOLEAN]
      /\ queue' \in Seq(StreamEvents)
  BY <1>1, <1>2 DEF WireOK
<1>7. QueueOK' /\ (backend'.over \/ StillOpen')
  BY <1>1, <1>2 DEF QueueOK, WireAgrees, StillOpen
<1>8. Hearing(queue', HasHeard,
              [texts |-> backend'.texts, calls |-> SaidCalls(backend'.calls, n), finish |-> finish])
  BY <1>1, <1>3 DEF SaidBy
<1> QED
  BY <1>1, <1>3, <1>4, <1>5, <1>6, <1>7, <1>8, FrameKeeps

\* Every call of this round as its adapter names it.
LEMMA CallsOpenNamed ==
  ASSUME WireOK
  PROVE  /\ wire.kind \in {"ollama", "anthropic"} =>
              NewCall(<<"id", turn.round, Len(backend.calls) + 1>>) = NameOf(Len(backend.calls) + 1)
         /\ wire.kind = "openai" =>
              NewCall(IF wire.ids THEN <<"id", turn.round, Len(backend.calls) + 1>>
                      ELSE <<"call", 0, Len(backend.calls) + 1>>) = NameOf(Len(backend.calls) + 1)
BY DEF NewCall, NameOf, WireOK

LEMMA OllamaKeeps == ASSUME StreamIInv, OllamaFrames PROVE StreamIInv'
<1>1. /\ Sends({"ollama"}) /\ wire.kind = "ollama" /\ WireOK /\ WireKnows /\ ~backend.over
  BY FramesCome DEF OllamaFrames
<1>2. CASE \E kind \in {"text", "thought"} : TextFrame(kind)
  BY <1>1, <1>2, TextFrameKeeps
<1> DEFINE known == NewCall(<<"id", turn.round, Len(backend.calls) + 1>>)
<1>3. CASE /\ CallOpens(known, MaxParts)
           /\ Puts(Started \o <<CallEvent(known, [n \in 1 .. MaxParts |-> <<known.name, n>>])>>)
  <2>1. known = NameOf(Len(backend.calls) + 1)
    BY <1>1, CallsOpenNamed
  <2>2. [n \in 1 .. MaxParts |-> <<known.name, n>>] = AllParts(known.name, MaxParts)
    BY DEF AllParts
  <2> HIDE DEF known
  <2>3. Puts(Started \o <<CallEvent(known, AllParts(known.name, MaxParts))>>)
    BY <1>3, <2>2
  <2> QED
    BY <2>1, <2>3, <1>1, <1>3, AdaptersAssumption, CallOpensAloud
<1>4. CASE \E reason \in {"stop", "length"} : EndFrame(OllamaFinish(reason), TRUE)
  <2>1. PICK reason \in {"stop", "length"} : EndFrame(OllamaFinish(reason), TRUE)
    BY <1>4
  <2>2. OllamaFinish(reason) \in Finishes /\ (backend.calls # <<>> => OllamaFinish(reason) # "stop")
    BY <1>1 DEF OllamaFinish, Finishes, WireKnows
  <2> QED
    BY <2>1, <2>2, <1>1, EndFrameKeeps
<1> QED
  BY <1>2, <1>3, <1>4 DEF OllamaFrames

LEMMA OpenAIKeeps == ASSUME StreamIInv, OpenAIFrames PROVE StreamIInv'
<1>1. /\ Sends({"openai"}) /\ wire.kind = "openai" /\ WireOK /\ WireKnows /\ ~backend.over
      /\ stream.usage \in BOOLEAN /\ stream.finish \in Finishes
  BY FramesCome DEF OpenAIFrames, WireOK
<1>2. CASE \E kind \in {"text", "thought"} : TextFrame(kind)
  BY <1>1, <1>2, TextFrameKeeps
<1> DEFINE known == NewCall(IF wire.ids THEN <<"id", turn.round, Len(backend.calls) + 1>>
                            ELSE <<"call", 0, Len(backend.calls) + 1>>)
<1>3. CASE CallOpens(known, 0) /\ Puts(Started \o <<CallEvent(known, <<>>)>>)
  <2>1. known = NameOf(Len(backend.calls) + 1)
    BY <1>1, CallsOpenNamed
  <2>2. <<>> = AllParts(known.name, 0)
    BY DEF AllParts
  <2> HIDE DEF known
  <2>3. Puts(Started \o <<CallEvent(known, AllParts(known.name, 0))>>)
    BY <1>3, <2>2
  <2> QED
    BY <2>1, <2>3, <1>1, <1>3, CallOpensAloud
<1>4. CASE \E i \in DOMAIN backend.calls : CallGoesOn(i)
  <2>1. DOMAIN backend.calls = 1..Len(backend.calls)
    BY <1>1 DEF WireOK
  <2> QED
    BY <2>1, <1>1, <1>4, CallGoesOnKeeps
<1>5. CASE \E counted \in BOOLEAN : FinishFrame(counted)
  BY <1>1, <1>5, FinishFrameKeeps
<1>6. CASE backend.finished /\ EndFrame(stream.finish, stream.usage)
  BY <1>1, <1>6, EndFrameKeeps DEF WireKnows
<1> QED
  BY <1>2, <1>3, <1>4, <1>5, <1>6 DEF OpenAIFrames

LEMMA AnthropicKeeps == ASSUME StreamIInv, AnthropicFrames PROVE StreamIInv'
<1> DEFINE i == Len(backend.calls)
<1>1. /\ Sends({"anthropic"}) /\ wire.kind = "anthropic" /\ WireOK /\ WireKnows /\ ~backend.over
      /\ stream.finish \in Finishes /\ i \in Nat
  BY FramesCome DEF AnthropicFrames, WireOK
<1>2. CASE \E kind \in {"text", "thought"} : TextFrame(kind)
  BY <1>1, <1>2, TextFrameKeeps
<1>3. CASE /\ i > 0 => backend.calls[i] > 0
           /\ CallOpens(NewCall(<<"id", turn.round, i + 1>>), 0)
           /\ UNCHANGED queue
  <2>1. NewCall(<<"id", turn.round, i + 1>>) = NameOf(i + 1)
    BY <1>1, CallsOpenNamed
  <2> QED
    BY <2>1, <1>1, <1>3, CallOpensSilently
<1>4. CASE i > 0 /\ CallGoesOn(i)
  <2>1. i \in 1..Len(backend.calls)
    BY <1>1, <1>4
  <2> QED
    BY <2>1, <1>1, <1>4, CallGoesOnKeeps
<1>5. CASE (i > 0 => backend.calls[i] > 0) /\ FinishFrame(TRUE)
  BY <1>1, <1>5, FinishFrameKeeps
<1>6. CASE backend.finished /\ EndFrame(stream.finish, TRUE)
  BY <1>1, <1>6, EndFrameKeeps DEF WireKnows
<1> QED
  BY <1>2, <1>3, <1>4, <1>5, <1>6 DEF AnthropicFrames

LEMMA LlamaCppKeeps == ASSUME StreamIInv, LlamaCppFrames PROVE StreamIInv'
<1>1. Sends({"llamacpp"}) /\ wire.kind = "llamacpp" /\ WireOK /\ WireKnows
  BY FramesCome DEF LlamaCppFrames
<1>2. CASE TextFrame("text")
  BY <1>1, <1>2, TextFrameKeeps
<1>3. CASE \E reason \in {"stop", "length"} : EndFrame(reason, TRUE)
  <2>1. PICK reason \in {"stop", "length"} : EndFrame(reason, TRUE)
    BY <1>3
  <2>2. reason \in Finishes /\ backend.calls = <<>>
    BY <1>1 DEF Finishes, WireKnows
  <2> QED
    BY <2>1, <2>2, <1>1, EndFrameKeeps
<1> QED
  BY <1>2, <1>3 DEF LlamaCppFrames

-----------------------------------------------------------------------------
(* The turn takes what was put *)

LEMMA GatheredIs ==
  ASSUME NEW calls \in Seq(HeardCalls), NEW e \in StreamEvents, e.kind = "call"
  PROVE  Gathered(calls, e) \in Seq(HeardCalls)
<1>1. e.id \in CallIds /\ e.name \in Nat /\ e.parts \in Fragments
  BY DEF StreamEvents
<1>2. CASE \E k \in DOMAIN calls : calls[k].id = e.id
  <2> DEFINE new == [k \in DOMAIN calls |->
                       IF calls[k].id = e.id
                       THEN [id |-> e.id, name |-> calls[k].name, parts |-> calls[k].parts \o e.parts]
                       ELSE calls[k]]
  <2>1. Gathered(calls, e) = new
    BY <1>2 DEF Gathered
  <2>2. ASSUME NEW k \in DOMAIN calls PROVE new[k] \in HeardCalls
    <3>1. calls[k] \in HeardCalls
      OBVIOUS
    <3>2. calls[k].parts \in Fragments /\ calls[k].name \in Nat
      BY <3>1 DEF HeardCalls
    <3>3. calls[k].parts \o e.parts \in Fragments
      BY <3>2, <1>1, ConcatProperties DEF Fragments
    <3>4. [id |-> e.id, name |-> calls[k].name, parts |-> calls[k].parts \o e.parts] \in HeardCalls
      BY <3>2, <3>3, <1>1 DEF HeardCalls
    <3> QED
      BY <3>1, <3>4
  <2>3. DOMAIN new = 1..Len(calls) /\ DOMAIN calls = 1..Len(calls) /\ Len(calls) \in Nat /\ new = [k \in 1..Len(calls) |-> new[k]]
    OBVIOUS
  <2> HIDE DEF new
  <2>4. new \in Seq(HeardCalls)
    BY <2>2, <2>3
  <2> QED
    BY <2>1, <2>4
<1>3. CASE ~\E k \in DOMAIN calls : calls[k].id = e.id
  <2>1. [id |-> e.id, name |-> e.name, parts |-> e.parts] \in HeardCalls
    BY <1>1 DEF HeardCalls
  <2> QED
    BY <2>1, <1>3 DEF Gathered
<1> QED
  BY <1>2, <1>3

\* The rest of the queue keeps its shape.
LEMMA TailKeeps ==
  ASSUME WireOK, QueueOK, queue # <<>>, queue' = Tail(queue)
  PROVE  /\ Event \in StreamEvents /\ Event = queue[1]
         /\ queue' \in Seq(StreamEvents) /\ QueueOK'
         /\ StillOpen => StillOpen'
         /\ queue' # <<>> => queue'[Len(queue')] = queue[Len(queue)]
         /\ Event.kind \in {"over", "raise"} => queue' = <<>>
<1> DEFINE n == Len(queue)
<1>1. queue \in Seq(StreamEvents) /\ n \in Nat \ {0} /\ DOMAIN queue = 1..n
  BY EmptySeq DEF WireOK
<1>2. /\ Event = queue[1] /\ queue' \in Seq(StreamEvents) /\ Len(queue') = n - 1 /\ DOMAIN queue' = 1..n - 1
      /\ \A k \in 1..n - 1 : queue'[k] = queue[k + 1]
  <2>1. queue' \in Seq(StreamEvents) /\ Len(queue') = n - 1 /\ \A k \in 1..n - 1 : queue'[k] = queue[k + 1]
    BY <1>1, HeadTailProperties
  <2> QED
    BY <2>1, <1>1 DEF Event
<1>3. Event \in StreamEvents
  BY <1>1, <1>2, ElementOfSeq
<1> HIDE DEF n
<1>4. /\ n <= QueueSize + 3
      /\ \A k \in 1..n : /\ queue[k].kind \in {"over", "raise"} => k = n
                         /\ queue[k].kind = "done" => k = n - 1
  BY <1>1 DEF QueueOK, n
<1>5. QueueOK'
  <2>1. Len(queue') <= QueueSize + 3
    BY <1>1, <1>2, <1>4, AdaptersAssumption
  <2>2. ASSUME NEW k \in 1..n - 1
        PROVE  /\ queue'[k].kind \in {"over", "raise"} => k = n - 1
               /\ queue'[k].kind = "done" => k = (n - 1) - 1
    <3>1. k + 1 \in 1..n /\ queue'[k] = queue[k + 1]
      BY <1>1, <1>2
    <3>2. /\ queue[k + 1].kind \in {"over", "raise"} => k + 1 = n
          /\ queue[k + 1].kind = "done" => k + 1 = n - 1
      BY <3>1, <1>4
    <3> QED
      BY <3>1, <3>2, <1>1
  <2> QED
    BY <2>1, <2>2, <1>2 DEF QueueOK
<1>6. StillOpen => StillOpen'
  <2> SUFFICES ASSUME StillOpen, NEW k \in 1..n - 1 PROVE queue'[k].kind \notin Ending
    BY <1>2 DEF StillOpen
  <2>1. k + 1 \in 1..n /\ queue'[k] = queue[k + 1]
    BY <1>1, <1>2
  <2> QED
    BY <2>1, <1>1 DEF StillOpen
<1>7. queue' # <<>> => queue'[Len(queue')] = queue[n]
  <2> SUFFICES ASSUME queue' # <<>> PROVE queue'[n - 1] = queue[n]
    BY <1>2
  <2>1. n - 1 \in 1..n - 1 /\ (n - 1) + 1 = n
    BY <1>1, <1>2, EmptySeq
  <2> QED
    BY <2>1, <1>2
<1>8. Event.kind \in {"over", "raise"} => queue' = <<>>
  <2> SUFFICES ASSUME Event.kind \in {"over", "raise"} PROVE queue' = <<>>
    OBVIOUS
  <2>1. 1 \in 1..n
    BY <1>1
  <2>2. 1 = n
    BY <2>1, <1>2, <1>4
  <2>3. n - 1 = 0
    BY <2>2
  <2>4. Len(queue') = 0
    BY <2>3, <1>2
  <2> QED
    BY <2>4, <1>2, EmptySeq
<1> QED
  BY <1>2, <1>3, <1>5, <1>6, <1>7, <1>8 DEF n

\* Hearing one event and no more.
LEMMA TakingKeeps ==
  ASSUME StreamIInv, turn.stage = "reading", queue # <<>>, queue' = Tail(queue),
         UNCHANGED <<wire, backend, stream>>,
         turn' \in [round : 1..MaxRounds, status : {"error", "complete", "stopped"},
                    stage : {"reading", "over"}, messages : Seq(RequestMessages), code : Codes],
         turn'.round = turn.round, turn'.messages = turn.messages,
         round' \in [texts : Nat, calls : Seq(HeardCalls), usage : Nat, finish : Finishes],
         HasHeard' = Heard(HasHeard, Event)
  PROVE  StreamIInv'
<1>1. WireOK /\ QueueOK /\ WireAgrees /\ NothingIsLost /\ MessagesOK
  BY DEF StreamIInv
<1>2. /\ queue \in Seq(StreamEvents) /\ queue' \in Seq(StreamEvents) /\ QueueOK'
      /\ StillOpen => StillOpen'
      /\ queue' # <<>> => queue'[Len(queue')] = queue[Len(queue)]
  BY <1>1, TailKeeps, BackendFields
<1>3. PICK n \in Nat, finish \in Finishes :
        /\ Spoken = 1..n /\ Hearing(queue, HasHeard, SaidBy(n, finish))
        /\ backend.finished /\ backend.calls # <<>> /\ queue # <<>> /\ queue[Len(queue)].kind = "over"
             => finish # "stop"
  BY <1>1 DEF NothingIsLost
<1>4. Hearing(queue', HasHeard', SaidBy(n, finish))
  BY <1>2, <1>3, OneEventLess DEF Event
<1>5. SaidBy(n, finish)' = SaidBy(n, finish) /\ Spoken' = 1..n /\ \A j : NameOf(j)' = NameOf(j)
  BY <1>3 DEF SaidBy, SaidCalls, NameOf, Spoken
<1>6. Hearing(queue', HasHeard', SaidBy(n, finish)')
  BY <1>4, <1>5
<1>7. NothingIsLost'
  BY <1>2, <1>3, <1>5, <1>6 DEF NothingIsLost
<1>8. WireAgrees'
  <2>1. wire' = wire /\ backend' = backend /\ stream' = stream
    OBVIOUS
  <2>2. (\A j \in 1..Len(backend.calls) : stream.known[j] = {NameOf(j)})'
    BY <2>1, <1>1, <1>5 DEF WireAgrees, WireKnows
  <2> QED
    BY <2>1, <2>2, <1>1, <1>2 DEF WireAgrees, WireKnows
<1>9. WireOK'
  BY <1>1, <1>2 DEF WireOK
<1>10. MessagesOK'
  BY <1>1 DEF MessagesOK, AnsweredIn
<1> QED
  BY <1>2, <1>7, <1>8, <1>9, <1>10 DEF StreamIInv

LEMMA RoundFields ==
  ASSUME WireOK
  PROVE  /\ round.texts \in Nat /\ round.calls \in Seq(HeardCalls) /\ round.usage \in Nat /\ round.finish \in Finishes
         /\ round = [texts |-> round.texts, calls |-> round.calls, usage |-> round.usage, finish |-> round.finish]
         /\ turn = [round |-> turn.round, status |-> turn.status, stage |-> turn.stage,
                    messages |-> turn.messages, code |-> turn.code]
         /\ turn.round \in 1..MaxRounds /\ turn.messages \in Seq(RequestMessages) /\ turn.code \in Codes
BY DEF WireOK

LEMMA TakesKeeps == ASSUME StreamIInv, TakesText \/ TakesCall \/ TakesUsage \/ TakesDone PROVE StreamIInv'
<1>1. WireOK /\ QueueOK
  BY DEF StreamIInv
<1>2. /\ turn.stage = "reading" /\ queue # <<>> /\ queue' = Tail(queue)
      /\ UNCHANGED <<wire, backend, stream>>
  BY DEF TakesText, TakesCall, TakesUsage, TakesDone, Takes
<1>3. Event \in StreamEvents
  BY <1>1, <1>2, TailKeeps
<1>4. ASSUME UNCHANGED turn
      PROVE  /\ turn' \in [round : 1..MaxRounds, status : {"error", "complete", "stopped"},
                           stage : {"reading", "over"}, messages : Seq(RequestMessages), code : Codes]
             /\ turn'.round = turn.round /\ turn'.messages = turn.messages
  BY <1>1, <1>4 DEF WireOK
<1>5. CASE TakesText
  <2>1. /\ UNCHANGED turn /\ Event.kind \in {"text", "thought", "status"}
        /\ round' = [round EXCEPT !.texts = IF Event.kind = "status" THEN @ ELSE @ + 1]
    BY <1>5 DEF TakesText, Takes
  <2>2. round' = [texts |-> IF Event.kind = "status" THEN round.texts ELSE round.texts + 1,
                  calls |-> round.calls, usage |-> round.usage, finish |-> round.finish]
    BY <2>1, <1>1, RoundFields
  <2>3. HasHeard' = Heard(HasHeard, Event)
    BY <2>1, <2>2 DEF HasHeard, Heard
  <2>4. round' \in [texts : Nat, calls : Seq(HeardCalls), usage : Nat, finish : Finishes]
    BY <2>2, <1>1, RoundFields
  <2> QED
    BY <2>1, <2>3, <2>4, <1>2, <1>4, TakingKeeps
<1>6. CASE TakesCall
  <2>1. UNCHANGED turn /\ Event.kind = "call" /\ round' = [round EXCEPT !.calls = Gathered(@, Event)]
    BY <1>6 DEF TakesCall, Takes
  <2>2. round' = [texts |-> round.texts, calls |-> Gathered(round.calls, Event), usage |-> round.usage,
                  finish |-> round.finish]
    BY <2>1, <1>1, RoundFields
  <2>3. HasHeard' = Heard(HasHeard, Event)
    BY <2>1, <2>2 DEF HasHeard, Heard
  <2>4. round' \in [texts : Nat, calls : Seq(HeardCalls), usage : Nat, finish : Finishes]
    BY <2>1, <2>2, <1>1, <1>3, RoundFields, GatheredIs, SMTT(30)
  <2> QED
    BY <2>1, <2>3, <2>4, <1>2, <1>4, TakingKeeps
<1>7. CASE TakesUsage
  <2>1. UNCHANGED turn /\ Event.kind = "usage" /\ round' = [round EXCEPT !.usage = @ + 1]
    BY <1>7 DEF TakesUsage, Takes
  <2>2. round' = [texts |-> round.texts, calls |-> round.calls, usage |-> round.usage + 1, finish |-> round.finish]
    BY <2>1, <1>1, RoundFields
  <2>3. HasHeard' = Heard(HasHeard, Event)
    BY <2>1, <2>2 DEF HasHeard, Heard
  <2>4. round' \in [texts : Nat, calls : Seq(HeardCalls), usage : Nat, finish : Finishes]
    BY <2>2, <1>1, RoundFields
  <2> QED
    BY <2>1, <2>3, <2>4, <1>2, <1>4, TakingKeeps
<1>8. CASE TakesDone
  <2>1. /\ Event.kind = "done" /\ round' = [round EXCEPT !.finish = Event.finish]
        /\ turn' = [turn EXCEPT !.status = "complete"]
    BY <1>8 DEF TakesDone, Takes
  <2>2. round' = [texts |-> round.texts, calls |-> round.calls, usage |-> round.usage, finish |-> Event.finish]
    BY <2>1, <1>1, RoundFields
  <2>3. HasHeard' = Heard(HasHeard, Event)
    BY <2>1, <2>2 DEF HasHeard, Heard
  <2>4. Event.finish \in Finishes
    BY <2>1, <1>3 DEF StreamEvents
  <2>5. round' \in [texts : Nat, calls : Seq(HeardCalls), usage : Nat, finish : Finishes]
    BY <2>2, <2>4, <1>1, RoundFields
  <2>6. /\ turn' \in [round : 1..MaxRounds, status : {"error", "complete", "stopped"},
                      stage : {"reading", "over"}, messages : Seq(RequestMessages), code : Codes]
        /\ turn'.round = turn.round /\ turn'.messages = turn.messages
    <3>1. turn \in [round : 1..MaxRounds, status : {"error", "complete", "stopped"},
                    stage : {"reading", "over"}, messages : Seq(RequestMessages), code : Codes]
      BY <1>1 DEF WireOK
    <3> QED
      BY <3>1, <2>1
  <2> QED
    BY <2>3, <2>5, <2>6, <1>2, TakingKeeps
<1> QED
  BY <1>5, <1>6, <1>7, <1>8

\* The messages of the next round: the calls, and one result for each.
LEMMA MessagesGrow ==
  ASSUME NEW s \in Seq(RequestMessages), AnsweredIn(s), NEW calls \in Seq(HeardCalls),
         NEW t, t = s \o <<Asked(calls)>> \o [k \in DOMAIN calls |-> Result(calls[k])]
  PROVE  t \in Seq(RequestMessages) /\ AnsweredIn(t)
<1> DEFINE m == Len(s)
           n == Len(calls)
           a == Asked(calls)
           r == [k \in DOMAIN calls |-> Result(calls[k])]
<1>1. /\ m \in Nat /\ n \in Nat /\ DOMAIN s = 1..m /\ DOMAIN calls = 1..n
      /\ \A k \in 1..m : s[k] \in RequestMessages
      /\ \A k \in 1..n : calls[k] \in HeardCalls
  OBVIOUS
<1>2. /\ a = [role |-> "assistant", calls |-> a.calls] /\ a.role = "assistant"
      /\ a.calls \in Seq(CallIds \X Nat) /\ Len(a.calls) = n
      /\ \A k \in 1..n : a.calls[k] = <<calls[k].id, calls[k].name>>
  <2> DEFINE c == [k \in 1..n |-> <<calls[k].id, calls[k].name>>]
  <2>1. a = [role |-> "assistant", calls |-> c]
    BY <1>1 DEF Asked
  <2>2. \A k \in 1..n : <<calls[k].id, calls[k].name>> \in CallIds \X Nat
    BY <1>1 DEF HeardCalls
  <2>3. c \in Seq(CallIds \X Nat) /\ Len(c) = n /\ \A k \in 1..n : c[k] = <<calls[k].id, calls[k].name>>
    BY <2>2, <1>1
  <2> HIDE DEF c
  <2> QED
    BY <2>1, <2>3
<1>3. /\ r \in Seq(RequestMessages) /\ Len(r) = n
      /\ \A k \in 1..n : r[k] = [role |-> "tool", id |-> calls[k].id, name |-> calls[k].name]
  <2>1. \A k \in 1..n : Result(calls[k]) = [role |-> "tool", id |-> calls[k].id, name |-> calls[k].name]
    BY DEF Result
  <2>2. \A k \in 1..n : [role |-> "tool", id |-> calls[k].id, name |-> calls[k].name] \in RequestMessages
    BY <1>1 DEF HeardCalls, RequestMessages
  <2> HIDE DEF n
  <2>3. r = [k \in 1..n |-> Result(calls[k])]
    BY <1>1
  <2> HIDE DEF r
  <2>4. \A k \in 1..n : Result(calls[k]) \in RequestMessages
    BY <2>1, <2>2
  <2>5. r \in [1..n -> RequestMessages]
    BY <2>3, <2>4
  <2>6. r \in Seq(RequestMessages) /\ Len(r) = n
    BY <2>5, <1>1
  <2>7. \A k \in 1..n : r[k] = [role |-> "tool", id |-> calls[k].id, name |-> calls[k].name]
    BY <2>1, <2>3
  <2> QED
    BY <2>6, <2>7
<1>4. a \in RequestMessages
  BY <1>2 DEF RequestMessages
<1> HIDE DEF m, n, a, r
<1>5. t = (s \o <<a>>) \o r
  BY DEF a, r
<1>6. /\ s \o <<a>> \in Seq(RequestMessages) /\ Len(s \o <<a>>) = m + 1
      /\ (s \o <<a>>)[m + 1] = a /\ \A k \in 1..m : (s \o <<a>>)[k] = s[k]
  <2>1. <<a>> \in Seq(RequestMessages) /\ Len(<<a>>) = 1 /\ <<a>>[1] = a
    BY <1>4
  <2>2. /\ s \o <<a>> \in Seq(RequestMessages) /\ Len(s \o <<a>>) = m + 1
        /\ \A k \in 1..m + 1 : (s \o <<a>>)[k] = IF k <= m THEN s[k] ELSE <<a>>[k - m]
    BY <2>1, ConcatProperties DEF m
  <2>3. m + 1 \in 1..m + 1 /\ (m + 1) - m = 1 /\ ~(m + 1 <= m)
    BY <1>1
  <2> QED
    BY <2>1, <2>2, <2>3, <1>1, SMTT(30)
<1> DEFINE u == s \o <<a>>
<1> HIDE DEF u
<1>7. u \in Seq(RequestMessages) /\ Len(u) = m + 1 /\ u[m + 1] = a /\ (\A k \in 1..m : u[k] = s[k]) /\ t = u \o r
  BY <1>5, <1>6 DEF u
<1>8. /\ t \in Seq(RequestMessages) /\ Len(t) = m + 1 + n /\ DOMAIN t = 1..m + 1 + n
      /\ \A k \in 1..m + 1 + n : t[k] = IF k <= m + 1 THEN u[k] ELSE r[k - (m + 1)]
  <2>1. /\ u \o r \in Seq(RequestMessages) /\ Len(u \o r) = Len(u) + Len(r)
        /\ \A k \in 1 .. (Len(u) + Len(r)) : (u \o r)[k] = IF k <= Len(u) THEN u[k] ELSE r[k - Len(u)]
    <3>1. u \in Seq(RequestMessages) /\ r \in Seq(RequestMessages)
      BY <1>3, <1>7
    <3> QED
      BY <3>1, ConcatProperties
  <2>2. Len(u) + Len(r) = m + 1 + n
    BY <1>3, <1>7
  <2>3. DOMAIN t = 1..Len(t)
    BY <2>1, <1>7
  <2> QED
    BY <2>1, <2>2, <2>3, <1>7
<1>9. \A k \in 1..m : t[k] = s[k]
  <2> SUFFICES ASSUME NEW k \in 1..m PROVE t[k] = s[k]
    OBVIOUS
  <2>1. k \in 1..m + 1 + n /\ k <= m + 1
    BY <1>1
  <2> QED
    BY <2>1, <1>7, <1>8
<1>10. t[m + 1] = a
  <2>1. m + 1 \in 1..m + 1 + n /\ m + 1 <= m + 1
    BY <1>1
  <2> QED
    BY <2>1, <1>7, <1>8
<1>11. ASSUME NEW j \in 1..n PROVE t[(m + 1) + j] = [role |-> "tool", id |-> calls[j].id, name |-> calls[j].name]
  <2>1. (m + 1) + j \in 1..m + 1 + n /\ ((m + 1) + j) - (m + 1) = j /\ ~((m + 1) + j <= m + 1)
    BY <1>1
  <2> QED
    BY <2>1, <1>3, <1>8
<1>12. ASSUME NEW k \in 1..m, s[k].role = "assistant", NEW c \in Nat, c = Len(s[k].calls)
       PROVE  /\ k + c <= m + 1 + n
              /\ \A j \in 1..c : t[k + j] = [role |-> "tool", id |-> s[k].calls[j][1], name |-> s[k].calls[j][2]]
              /\ k + c < m + 1 + n => t[k + c + 1].role = "assistant"
  <2>1. /\ k + c <= m
        /\ \A j \in 1..c : s[k + j] = [role |-> "tool", id |-> s[k].calls[j][1], name |-> s[k].calls[j][2]]
        /\ k + c < m => s[k + c + 1].role = "assistant"
    BY <1>12, <1>1 DEF AnsweredIn, m
  <2>2. ASSUME NEW j \in 1..c PROVE t[k + j] = s[k + j]
    <3>1. k + j \in 1..m
      BY <2>1, <1>1
    <3> QED
      BY <3>1, <1>9
  <2>3. t[k + c + 1].role = "assistant"
    <3>1. CASE k + c < m
      <4>1. k + c + 1 \in 1..m
        BY <3>1, <1>1
      <4> QED
        BY <4>1, <3>1, <2>1, <1>9
    <3>2. CASE k + c = m
      BY <3>2, <1>2, <1>10
    <3> QED
      BY <3>1, <3>2, <2>1, <1>1
  <2> QED
    BY <2>1, <2>2, <2>3, <1>1
<1>13. ASSUME NEW k \in DOMAIN t, t[k].role = "assistant", NEW c, c = Len(t[k].calls)
       PROVE  /\ k + c <= Len(t)
              /\ \A j \in 1..c : t[k + j] = [role |-> "tool", id |-> t[k].calls[j][1], name |-> t[k].calls[j][2]]
              /\ k + c < Len(t) => t[k + c + 1].role = "assistant"
  <2>1. CASE k \in 1..m
    <3>1. t[k] = s[k] /\ s[k] \in RequestMessages
      BY <2>1, <1>1, <1>9
    <3>2. c \in Nat
      BY <3>1, <1>13 DEF RequestMessages
    <3> QED
      BY <3>1, <3>2, <2>1, <1>8, <1>12, <1>13, ZenonT(60)
  <2>2. CASE k = m + 1
    <3>1. c = n /\ t[k] = a
      BY <2>2, <1>2, <1>10, <1>13
    <3>2. ASSUME NEW j \in 1..n PROVE t[k + j] = [role |-> "tool", id |-> a.calls[j][1], name |-> a.calls[j][2]]
      <4>1. a.calls[j] = <<calls[j].id, calls[j].name>>
        BY <1>2
      <4>3. a.calls[j][1] = calls[j].id /\ a.calls[j][2] = calls[j].name
        BY <4>1
      <4>2. t[k + j] = [role |-> "tool", id |-> calls[j].id, name |-> calls[j].name]
        BY <2>2, <1>11
      <4> QED
        BY <4>2, <4>3
    <3>3. k + c = Len(t) /\ Len(t) \in Nat
      BY <3>1, <2>2, <1>1, <1>8
    <3>4. k + c <= Len(t) /\ ~(k + c < Len(t))
      BY <3>3
    <3>5. \A j \in 1..c : t[k + j] = [role |-> "tool", id |-> t[k].calls[j][1], name |-> t[k].calls[j][2]]
      BY <3>1, <3>2
    <3> QED
      BY <3>4, <3>5
  <2>3. CASE k \in m + 2 .. m + 1 + n
    <3>1. PICK j \in 1..n : k = (m + 1) + j
      <4>1. k - (m + 1) \in 1..n /\ k = (m + 1) + (k - (m + 1))
        BY <2>3, <1>1
      <4> QED
        BY <4>1
    <3>2. t[k] = [role |-> "tool", id |-> calls[j].id, name |-> calls[j].name]
      <4>1. t[(m + 1) + j] = [role |-> "tool", id |-> calls[j].id, name |-> calls[j].name]
        BY <1>11
      <4> QED
        BY <4>1, <3>1
    <3>3. t[k].role = "tool"
      BY <3>2
    <3> QED
      BY <3>3, <1>13
  <2>4. k \in 1..m \/ k = m + 1 \/ k \in m + 2 .. m + 1 + n
    BY <1>1, <1>8
  <2> QED
    BY <2>1, <2>2, <2>3, <2>4
<1> QED
  BY <1>8, <1>13 DEF AnsweredIn

\* A round that begins does so as the first one did.
RoundIsNew ==
  /\ wire \in [kind : AdapterKinds, ids : BOOLEAN]
  /\ backend = NoBackend /\ stream = NoStream /\ queue = <<>> /\ round = NoRound

RoundIsReady ==
  /\ backend \in [texts : Nat, calls : Seq(Nat), finished : BOOLEAN, over : BOOLEAN]
  /\ stream \in [open : BOOLEAN, started : BOOLEAN, finish : Finishes, usage : BOOLEAN,
                 known : [CallIndexes -> SUBSET [id : CallIds, name : Nat]], tools : BOOLEAN]
  /\ queue \in Seq(StreamEvents)
  /\ round \in [texts : Nat, calls : Seq(HeardCalls), usage : Nat, finish : Finishes]
  /\ QueueOK /\ WireAgrees /\ NothingIsLost

LEMMA NewRounds == RoundIsNew => RoundIsReady
BY RoundBegins DEF RoundIsNew, RoundIsReady

LEMMA NewRoundsNext == RoundIsNew' => RoundIsReady'
<1>1. RoundIsNew => RoundIsReady
  BY NewRounds
<1> QED
  BY <1>1, PTL

LEMMA RoundEndsKeeps == ASSUME StreamIInv, RoundEnds PROVE StreamIInv'
<1>1. WireOK /\ QueueOK /\ MessagesOK
  BY DEF StreamIInv
<1>2. /\ turn.stage = "reading" /\ queue # <<>> /\ queue' = Tail(queue) /\ Event.kind = "over" /\ wire' = wire
  BY DEF RoundEnds, Takes
<1>3. queue' = <<>> /\ queue' \in Seq(StreamEvents) /\ QueueOK'
  BY <1>1, <1>2, TailKeeps
<1>4. CASE Detected # <<>> /\ turn.round < MaxRounds
  <2>1. /\ turn' = [turn EXCEPT !.round = @ + 1,
                      !.messages = @ \o <<Asked(Detected)>> \o [k \in DOMAIN Detected |-> Result(Detected[k])]]
        /\ backend' = NoBackend /\ stream' = NoStream /\ round' = NoRound
    BY <1>4 DEF RoundEnds
  <2> DEFINE t == turn.messages \o <<Asked(Detected)>> \o [k \in DOMAIN Detected |-> Result(Detected[k])]
  <2>2. Detected \in Seq(HeardCalls)
    BY <1>1, RoundFields DEF Detected
  <2>3. t \in Seq(RequestMessages) /\ AnsweredIn(t)
    <3>1. turn.messages \in Seq(RequestMessages) /\ AnsweredIn(turn.messages)
      BY <1>1, RoundFields DEF MessagesOK
    <3> QED
      BY <2>2, <3>1, MessagesGrow
  <2> HIDE DEF t
  <2>4. turn' = [round |-> turn.round + 1, status |-> turn.status, stage |-> turn.stage, messages |-> t,
                 code |-> turn.code]
    <3>1. turn' = [turn EXCEPT !.round = @ + 1, !.messages = t]
      BY <2>1 DEF t
    <3> QED
      BY <3>1, <1>1, RoundFields
  <2>5. turn.round + 1 \in 1..MaxRounds
    BY <1>1, <1>4, RoundFields, AdaptersAssumption
  <2>6. turn' \in [round : 1..MaxRounds, status : {"error", "complete", "stopped"},
                   stage : {"reading", "over"}, messages : Seq(RequestMessages), code : Codes]
    <3>1. /\ turn.status \in {"error", "complete", "stopped"} /\ turn.stage \in {"reading", "over"}
          /\ turn.code \in Codes
      BY <1>1 DEF WireOK
    <3> QED
      BY <2>3, <2>4, <2>5, <3>1
  <2>7. RoundIsNew'
    <3>1. wire' \in [kind : AdapterKinds, ids : BOOLEAN]
      BY <1>1, <1>2 DEF WireOK
    <3> QED
      BY <3>1, <1>3, <2>1 DEF RoundIsNew, NoBackend, NoStream, NoRound
  <2>8. RoundIsReady'
    BY <2>7, NewRoundsNext
  <2>9. MessagesOK'
    BY <2>3, <2>4 DEF MessagesOK, AnsweredIn
  <2>10. WireOK'
    BY <2>6, <2>7, <2>8 DEF WireOK, RoundIsNew, RoundIsReady
  <2> QED
    BY <2>8, <2>9, <2>10 DEF StreamIInv, RoundIsReady
<1>5. CASE ~(Detected # <<>> /\ turn.round < MaxRounds)
  <2>1. turn' = [turn EXCEPT !.stage = "over"] /\ UNCHANGED <<backend, stream, round>>
    BY <1>5 DEF RoundEnds
  <2>2. turn \in [round : 1..MaxRounds, status : {"error", "complete", "stopped"},
                  stage : {"reading", "over"}, messages : Seq(RequestMessages), code : Codes]
    BY <1>1 DEF WireOK
  <2>3. /\ turn' \in [round : 1..MaxRounds, status : {"error", "complete", "stopped"},
                      stage : {"reading", "over"}, messages : Seq(RequestMessages), code : Codes]
        /\ turn'.stage = "over" /\ turn'.messages = turn.messages
    BY <2>1, <2>2
  <2>4. WireOK'
    BY <1>1, <1>2, <1>3, <2>1, <2>3 DEF WireOK
  <2>5. MessagesOK'
    BY <1>1, <2>3 DEF MessagesOK, AnsweredIn
  <2> QED
    BY <2>3, <2>4, <2>5, <1>3 DEF StreamIInv
<1> QED
  BY <1>4, <1>5

LEMMA TakesErrorKeeps == ASSUME StreamIInv, TakesError PROVE StreamIInv'
<1>1. WireOK /\ QueueOK /\ MessagesOK
  BY DEF StreamIInv
<1>2. /\ turn.stage = "reading" /\ queue # <<>> /\ queue' = Tail(queue) /\ Event.kind = "raise" /\ wire' = wire
      /\ UNCHANGED <<backend, stream, round>>
      /\ turn' = [turn EXCEPT !.stage = "over", !.code = Event.code,
                              !.status = IF Event.caught THEN "error" ELSE @]
  BY DEF TakesError, Takes
<1>3. queue' = <<>> /\ queue' \in Seq(StreamEvents) /\ QueueOK' /\ Event \in StreamEvents
  BY <1>1, <1>2, TailKeeps
<1>4. Event.code \in Codes
  BY <1>2, <1>3 DEF StreamEvents
<1>5. turn' = [round |-> turn.round, status |-> IF Event.caught THEN "error" ELSE turn.status, stage |-> "over",
               messages |-> turn.messages, code |-> Event.code]
  BY <1>1, <1>2, RoundFields
<1>6. turn.status \in {"error", "complete", "stopped"}
  BY <1>1 DEF WireOK
<1>7. /\ turn' \in [round : 1..MaxRounds, status : {"error", "complete", "stopped"},
                    stage : {"reading", "over"}, messages : Seq(RequestMessages), code : Codes]
      /\ turn'.stage = "over" /\ turn'.messages = turn.messages
  BY <1>1, <1>4, <1>5, <1>6, RoundFields
<1>8. WireOK'
  BY <1>1, <1>2, <1>3, <1>7 DEF WireOK
<1>9. MessagesOK'
  BY <1>1, <1>7 DEF MessagesOK, AnsweredIn
<1> QED
  BY <1>3, <1>7, <1>8, <1>9 DEF StreamIInv

LEMMA TurnIsStoppedKeeps == ASSUME StreamIInv, TurnIsStopped PROVE StreamIInv'
<1>1. WireOK /\ QueueOK /\ MessagesOK
  BY DEF StreamIInv
<1>2. /\ UNCHANGED <<wire, backend, stream, round>> /\ queue' = <<>>
      /\ turn' = [turn EXCEPT !.stage = "over", !.status = "stopped"]
  BY DEF TurnIsStopped
<1>3. turn \in [round : 1..MaxRounds, status : {"error", "complete", "stopped"},
                stage : {"reading", "over"}, messages : Seq(RequestMessages), code : Codes]
  BY <1>1 DEF WireOK
<1>4. /\ turn' \in [round : 1..MaxRounds, status : {"error", "complete", "stopped"},
                    stage : {"reading", "over"}, messages : Seq(RequestMessages), code : Codes]
      /\ turn'.stage = "over" /\ turn'.messages = turn.messages
  BY <1>2, <1>3
<1>5. WireOK'
  BY <1>1, <1>2, <1>4 DEF WireOK
<1>6. QueueOK'
  <2>1. Len(queue') = 0 /\ DOMAIN queue' = {}
    BY <1>2
  <2> QED
    BY <2>1, AdaptersAssumption DEF QueueOK
<1>7. MessagesOK'
  BY <1>1, <1>4 DEF MessagesOK, AnsweredIn
<1> QED
  BY <1>4, <1>5, <1>6, <1>7 DEF StreamIInv

LEMMA StreamKeeps == ASSUME StreamIInv, StreamSteps PROVE StreamIInv'
BY StreamOpensKeeps, StreamFailsKeeps, ClosedEarlyKeeps, OllamaKeeps, OpenAIKeeps, AnthropicKeeps,
   LlamaCppKeeps, TakesKeeps, RoundEndsKeeps, TakesErrorKeeps, TurnIsStoppedKeeps DEF StreamSteps

\* A step of the capability cache, or none: the stream is as it was.
LEMMA StreamStays == ASSUME StreamIInv, UNCHANGED streamVars PROVE StreamIInv'
<1>1. UNCHANGED <<wire, backend, stream, queue, round, turn>>
  BY DEF streamVars
<1>2. WireOK' /\ QueueOK' /\ MessagesOK'
  BY <1>1 DEF StreamIInv, WireOK, QueueOK, MessagesOK, AnsweredIn
<1>3. ASSUME turn'.stage = "reading" PROVE WireAgrees' /\ NothingIsLost'
  <2>1. WireAgrees /\ NothingIsLost
    BY <1>1, <1>3 DEF StreamIInv
  <2>2. WireAgrees'
    <3>1. WireKnows'
      <4>1. \A i : NameOf(i)' = NameOf(i)
        BY <1>1 DEF NameOf
      <4>2. (\A i \in 1..Len(backend.calls) : stream.known[i] = {NameOf(i)})'
        BY <1>1, <2>1, <4>1 DEF WireAgrees, WireKnows
      <4> QED
        BY <1>1, <2>1, <4>2 DEF WireAgrees, WireKnows
    <3> QED
      BY <1>1, <2>1, <3>1 DEF WireAgrees, StillOpen
  <2>3. PICK n \in Nat, finish \in Finishes :
          /\ Spoken = 1..n /\ Hearing(queue, HasHeard, SaidBy(n, finish))
          /\ backend.finished /\ backend.calls # <<>> /\ queue # <<>> /\ queue[Len(queue)].kind = "over"
               => finish # "stop"
    BY <2>1 DEF NothingIsLost
  <2>4. SaidBy(n, finish)' = SaidBy(n, finish) /\ Spoken' = 1..n /\ HasHeard' = HasHeard
    BY <1>1, <2>3 DEF SaidBy, SaidCalls, NameOf, Spoken, HasHeard
  <2>5. Hearing(queue', HasHeard', SaidBy(n, finish)')
    BY <1>1, <2>3, <2>4
  <2> QED
    BY <1>1, <2>2, <2>3, <2>4, <2>5 DEF NothingIsLost
<1> QED
  BY <1>2, <1>3 DEF StreamIInv

LEMMA CapsKeeps == ASSUME CapsOK, CapsSteps PROVE CapsOK'
<1> DEFINE Probe == [stage : {"idle", "asked", "answered"}, version : Nat]
           Shape == [real : Nat, cached : SUBSET Nat, changing : CapChanging, raced : BOOLEAN, probe : [Probers -> Probe]]
<1>1. /\ caps \in Shape
      /\ caps.changing = "none" /\ ~caps.raced =>
           /\ \A version \in caps.cached : version = caps.real
           /\ \A p \in Probers : caps.probe[p].stage = "answered" => caps.probe[p].version = caps.real
  BY DEF CapsOK
<1>2. /\ caps = [real |-> caps.real, cached |-> caps.cached, changing |-> caps.changing, raced |-> caps.raced,
                 probe |-> caps.probe]
      /\ caps.real \in Nat /\ caps.cached \subseteq Nat /\ caps.changing \in CapChanging /\ caps.raced \in BOOLEAN
      /\ caps.probe \in [Probers -> Probe]
  BY <1>1
<1> HIDE DEF Shape
<1>3. ASSUME NEW real \in Nat, NEW cached \in SUBSET Nat, NEW changing \in CapChanging, NEW late \in BOOLEAN,
             NEW asking \in [Probers -> Probe],
             caps' = [real |-> real, cached |-> cached, changing |-> changing, raced |-> late, probe |-> asking],
             changing = "none" /\ ~late =>
               /\ \A version \in cached : version = real
               /\ \A p \in Probers : asking[p].stage = "answered" => asking[p].version = real
      PROVE  CapsOK'
  BY <1>3 DEF CapsOK
<1>4. ASSUME NEW p \in Probers, NEW new \in Probe,
             new.stage = "answered" /\ caps.changing = "none" /\ ~caps.raced => new.version = caps.real,
             caps' = [real |-> caps.real, cached |-> caps.cached, changing |-> caps.changing,
                      raced |-> caps.raced, probe |-> [caps.probe EXCEPT ![p] = new]]
      PROVE  CapsOK'
  <2> DEFINE asking == [caps.probe EXCEPT ![p] = new]
  <2>1. asking \in [Probers -> Probe] /\ \A q \in Probers : asking[q] = IF q = p THEN new ELSE caps.probe[q]
    BY <1>2
  <2> HIDE DEF asking, Probe
  <2>2. caps' = [real |-> caps.real, cached |-> caps.cached, changing |-> caps.changing,
                 raced |-> caps.raced, probe |-> asking]
    BY <1>4 DEF asking
  <2>3. caps.changing = "none" /\ ~caps.raced =>
           /\ \A version \in caps.cached : version = caps.real
           /\ \A q \in Probers : asking[q].stage = "answered" => asking[q].version = caps.real
    BY <1>1, <1>4, <2>1
  <2> QED
    BY <1>2, <1>3, <2>1, <2>2, <2>3
<1>5. ASSUME NEW p \in Probers, ProbeBegins(p) PROVE CapsOK'
  <2>1. caps' = [caps EXCEPT !.probe[p].stage = "asked"]
    BY <1>5 DEF ProbeBegins
  <2> DEFINE new == [stage |-> "asked", version |-> caps.probe[p].version]
  <2>2. caps.probe[p] = [stage |-> caps.probe[p].stage, version |-> caps.probe[p].version] /\ new \in Probe
    BY <1>2
  <2>3. caps' = [real |-> caps.real, cached |-> caps.cached, changing |-> caps.changing,
                 raced |-> caps.raced, probe |-> [caps.probe EXCEPT ![p] = new]]
    BY <1>2, <2>1, <2>2
  <2>4. new.stage # "answered"
    OBVIOUS
  <2> HIDE DEF new
  <2> QED
    BY <1>4, <2>2, <2>3, <2>4
<1>6. ASSUME NEW p \in Probers, ProbeIsAnswered(p) PROVE CapsOK'
  <2>1. PICK failed \in BOOLEAN :
          caps' = [caps EXCEPT !.probe[p] = [stage |-> IF failed THEN "idle" ELSE "answered", version |-> caps.real]]
    BY <1>6 DEF ProbeIsAnswered
  <2> DEFINE new == [stage |-> IF failed THEN "idle" ELSE "answered", version |-> caps.real]
  <2>2. new \in Probe /\ new.version = caps.real
    BY <1>2
  <2>3. caps' = [caps EXCEPT !.probe[p] = new]
    BY <2>1
  <2> HIDE DEF new
  <2>4. caps' = [real |-> caps.real, cached |-> caps.cached, changing |-> caps.changing,
                 raced |-> caps.raced, probe |-> [caps.probe EXCEPT ![p] = new]]
    BY <1>2, <2>3
  <2> QED
    BY <1>4, <2>2, <2>4
<1>7. ASSUME NEW p \in Probers, ProbeStores(p) PROVE CapsOK'
  <2>1. /\ caps.probe[p].stage = "answered"
        /\ caps' = [caps EXCEPT !.cached = {caps.probe[p].version}, !.probe[p].stage = "idle"]
    BY <1>7 DEF ProbeStores
  <2> DEFINE new == [stage |-> "idle", version |-> caps.probe[p].version]
             asking == [caps.probe EXCEPT ![p] = new]
             cached == {caps.probe[p].version}
  <2>2. caps.probe[p] = [stage |-> caps.probe[p].stage, version |-> caps.probe[p].version] /\ new \in Probe
    BY <1>2
  <2>3. caps' = [real |-> caps.real, cached |-> cached, changing |-> caps.changing, raced |-> caps.raced,
                 probe |-> asking]
    <3> DEFINE c == [caps EXCEPT !.cached = cached]
    <3>1. caps' = [c EXCEPT !.probe[p].stage = "idle"]
      BY <2>1
    <3> HIDE DEF cached, Probe
    <3>2. caps \in Shape
      BY <1>1
    <3>3. /\ c.real = caps.real /\ c.cached = cached /\ c.changing = caps.changing /\ c.raced = caps.raced
          /\ c.probe = caps.probe
          /\ c = [real |-> c.real, cached |-> c.cached, changing |-> c.changing, raced |-> c.raced,
                  probe |-> c.probe]
      BY <3>2 DEF Shape
    <3> HIDE DEF c
    <3>4. caps' = [real |-> c.real, cached |-> c.cached, changing |-> c.changing, raced |-> c.raced,
                   probe |-> [c.probe EXCEPT ![p].stage = "idle"]]
      BY <3>1, <3>3
    <3>5. [caps.probe EXCEPT ![p].stage = "idle"] = asking
      BY <1>2, <2>2
    <3> HIDE DEF asking, new
    <3> QED
      BY <3>3, <3>4, <3>5
  <2>4. asking \in [Probers -> Probe] /\ \A q \in Probers : asking[q] = IF q = p THEN new ELSE caps.probe[q]
    BY <1>2, <2>2
  <2>5. cached \in SUBSET Nat
    BY <1>2
  <2>6. new.stage # "answered"
    OBVIOUS
  <2>7. caps.changing = "none" /\ ~caps.raced => \A version \in cached : version = caps.real
    BY <1>1, <2>1
  <2> HIDE DEF new, asking, cached, Probe
  <2>8. caps.changing = "none" /\ ~caps.raced =>
          \A q \in Probers : asking[q].stage = "answered" => asking[q].version = caps.real
    BY <1>1, <2>4, <2>6
  <2> QED
    BY <1>2, <1>3, <2>3, <2>4, <2>5, <2>7, <2>8
<1>8. ASSUME ModelIsChanged PROVE CapsOK'
  <2>1. PICK by \in {"transfer", "request"} : caps' = [caps EXCEPT !.real = @ + 1, !.changing = by]
    BY <1>8 DEF ModelIsChanged
  <2>2. caps' = [real |-> caps.real + 1, cached |-> caps.cached, changing |-> by, raced |-> caps.raced,
                 probe |-> caps.probe]
    BY <1>2, <2>1
  <2>3. caps.real + 1 \in Nat /\ by \in CapChanging /\ by # "none"
    BY <1>2 DEF CapChanging
  <2> HIDE DEF Probe
  <2> QED
    BY <1>2, <1>3, <2>2, <2>3
<1>9. ASSUME Forgotten PROVE CapsOK'
  <2> DEFINE late == caps.raced \/ \E p \in Probers : caps.probe[p].stage = "answered"
  <2>1. caps' = [caps EXCEPT !.cached = {}, !.changing = "none", !.raced = late]
    BY <1>9 DEF Forgotten
  <2>2. late \in BOOLEAN
    BY <1>2
  <2>3. ~late => \A p \in Probers : caps.probe[p].stage # "answered"
    OBVIOUS
  <2> HIDE DEF late, Probe
  <2>4. caps' = [real |-> caps.real, cached |-> {}, changing |-> "none", raced |-> late, probe |-> caps.probe]
    BY <1>2, <2>1
  <2>5. ~late =>
          /\ \A version \in {} : version = caps.real
          /\ \A p \in Probers : caps.probe[p].stage = "answered" => caps.probe[p].version = caps.real
    BY <2>3
  <2>6. {} \in SUBSET Nat /\ "none" \in CapChanging
    BY DEF CapChanging
  <2> QED
    BY <1>2, <1>3, <2>2, <2>4, <2>5, <2>6
<1>10. ASSUME AnswerIsLost PROVE CapsOK'
  <2>1. caps' = [caps EXCEPT !.changing = "none", !.raced = TRUE]
    BY <1>10 DEF AnswerIsLost
  <2>2. caps' = [real |-> caps.real, cached |-> caps.cached, changing |-> "none", raced |-> TRUE,
                 probe |-> caps.probe]
    BY <1>2, <2>1
  <2>3. "none" \in CapChanging
    BY DEF CapChanging
  <2> HIDE DEF Probe
  <2> QED
    BY <1>2, <1>3, <2>2, <2>3
<1> QED
  BY <1>5, <1>6, <1>7, <1>8, <1>9, <1>10 DEF CapsSteps

LEMMA AdaInductive == ASSUME AdaptersIInv, [AdaptersNext]_adapterVars PROVE AdaptersIInv'
<1>1. StreamIInv /\ CapsOK
  BY DEF AdaptersIInv
<1>2. CASE StreamSteps
  <2>1. caps' = caps
    BY <1>2 DEF StreamSteps, StreamOpens, StreamIsRefused, OllamaFrames, OpenAIFrames, AnthropicFrames,
       LlamaCppFrames, ClosedEarly, StreamFails, TakesText, TakesCall, TakesUsage, TakesDone, RoundEnds,
       TakesError, TurnIsStopped, Takes, TextFrame, CallOpens, CallGoesOn, FinishFrame, EndFrame
  <2>2. CapsOK'
    BY <1>1, <2>1 DEF CapsOK
  <2> QED
    BY <1>1, <1>2, <2>2, StreamKeeps DEF AdaptersIInv
<1>3. CASE CapsSteps
  <2>1. UNCHANGED streamVars
    BY <1>3 DEF CapsSteps, ProbeBegins, ProbeIsAnswered, ProbeStores, ModelIsChanged, Forgotten,
       AnswerIsLost
  <2> QED
    BY <1>1, <1>3, <2>1, StreamStays, CapsKeeps DEF AdaptersIInv
<1>4. CASE UNCHANGED adapterVars
  <2>1. UNCHANGED streamVars /\ caps' = caps
    BY <1>4 DEF adapterVars, streamVars
  <2>2. CapsOK'
    BY <1>1, <2>1 DEF CapsOK
  <2> QED
    BY <1>1, <2>1, <2>2, StreamStays DEF AdaptersIInv
<1> QED
  BY <1>2, <1>3, <1>4 DEF AdaptersNext

\* Whatever an adapter's backend does - fragments of several calls that alternate,
\* an error or a closed connection at any frame - a finished round is read whole,
\* every call has its result in the next request, and the capability cache is stale
\* only by a race: providers/*.py and the rounds of services/chat.py.
THEOREM AdaptersHold == AdaptersSpec => []AdaptersInv
<1>1. AdaptersInit => AdaptersIInv
  BY AdaInitially
<1>2. AdaptersIInv /\ [AdaptersNext]_adapterVars => AdaptersIInv'
  BY AdaInductive
<1>3. AdaptersIInv => AdaptersInv
  BY AdaIInvImplies
<1> QED
  BY <1>1, <1>2, <1>3, PTL DEF AdaptersSpec

-----------------------------------------------------------------------------
(* Least places and loops *)

LEMMA LeastOf == ASSUME NEW T \in SUBSET Nat, T # {} PROVE \E x \in T : \A y \in T : x <= y
<1>. DEFINE R == OpToRel(<, Nat)
<1>1. IsWellFoundedOn(R, Nat)
  BY NatLessThanWellFounded
<1>2. \A y \in Nat, z \in Nat : y < z => <<y, z>> \in R
  BY DEF OpToRel
<1>. HIDE DEF R
<1>3. PICK x \in T : \A y \in T : ~ (<<y, x>> \in R)
  BY <1>1, WFMin
<1>4. x \in Nat /\ \A y \in T : y \in Nat /\ ~(y < x)
  BY <1>2, <1>3
<1>. QED  BY <1>4

\* Induction, for a set in place of a predicate.
LEMMA SetInduction ==
  ASSUME NEW P \in SUBSET Nat, 0 \in P, \A n \in P : n + 1 \in P
  PROVE  \A n \in Nat : n \in P
<1>. SUFFICES ASSUME Nat \ P # {} PROVE FALSE
  OBVIOUS
<1>1. PICK x \in Nat \ P : \A y \in Nat \ P : x <= y
  BY LeastOf
<1>2. x # 0 /\ x - 1 \in Nat /\ x - 1 \in P
  BY <1>1
<1>. QED  BY <1>1, <1>2

\* Induction up to a bound.
LEMMA UpTo ==
  ASSUME NEW N \in Nat, NEW P \in SUBSET (0..N), 0 \in P, \A n \in P : n < N => n + 1 \in P
  PROVE  \A n \in 0..N : n \in P
<1>. DEFINE Q == {n \in Nat : n <= N => n \in P}
<1>1. Q \in SUBSET Nat /\ 0 \in Q
  OBVIOUS
<1>2. \A n \in Q : n + 1 \in Q
  OBVIOUS
<1>3. \A n \in Nat : n \in Q
  <2>. HIDE DEF Q
  <2>. QED  BY <1>1, <1>2, SetInduction
<1>. QED  BY <1>3

\* The values of a variable in a loop whose turns are functions.
LoopTurns(N, V) == [1..N -> [V -> V]]
Loops(g, N, V, b, F) == g \in [0..N -> V] /\ g[0] = b /\ \A i \in 1..N : g[i] = F[i][g[i - 1]]

\* What a recursion over 0..N needs: such a loop has values.
LEMMA Iterates ==
  ASSUME NEW N \in Nat, NEW V, NEW b \in V, NEW F \in LoopTurns(N, V)
  PROVE  \E g : Loops(g, N, V, b, F)
<1>. USE DEF LoopTurns, Loops
<1>. DEFINE Runs(g, n) == g \in [0..n -> V] /\ g[0] = b /\ \A i \in 1..n : g[i] = F[i][g[i - 1]]
            P == {n \in 0..N : \E g : Runs(g, n)}
<1>1. 0 \in P
  <2>1. Runs([i \in 0..0 |-> b], 0)
    OBVIOUS
  <2>. HIDE DEF Runs
  <2>. QED  BY <2>1
<1>2. ASSUME NEW n \in P, n < N PROVE n + 1 \in P
  <2>1. PICK g : Runs(g, n)
    OBVIOUS
  <2>2. n \in Nat /\ n + 1 \in 1..N /\ n + 1 \in 0..N /\ n + 1 - 1 = n
    BY <1>2
  <2>. DEFINE h == [i \in 0..n + 1 |-> IF i = n + 1 THEN F[n + 1][g[n]] ELSE g[i]]
  <2>3. F[n + 1][g[n]] \in V
    BY <2>1, <2>2
  <2>4. h \in [0..n + 1 -> V]
    BY <2>1, <2>2, <2>3
  <2>5. (\A i \in 0..n : h[i] = g[i]) /\ h[n + 1] = F[n + 1][g[n]]
    BY <2>2
  <2>. HIDE DEF h
  <2>6. h[0] = b
    BY <2>1, <2>2, <2>5
  <2>7. ASSUME NEW i \in 1..n + 1 PROVE h[i] = F[i][h[i - 1]]
    <3>1. CASE i = n + 1
      <4>1. h[n] = g[n]
        BY <2>2, <2>5
      <4>. QED  BY <2>2, <2>5, <3>1, <4>1
    <3>2. CASE i \in 1..n
      <4>1. i \in 0..n /\ i - 1 \in 0..n
        BY <2>2, <3>2
      <4>2. h[i] = g[i] /\ h[i - 1] = g[i - 1]
        BY <2>5, <4>1
      <4>3. g[i] = F[i][g[i - 1]]
        BY <2>1, <3>2
      <4>. QED  BY <4>2, <4>3
    <3>. QED  BY <2>2, <3>1, <3>2
  <2>8. Runs(h, n + 1)
    BY <2>4, <2>6, <2>7
  <2>. HIDE DEF Runs
  <2>. QED  BY <2>2, <2>8
<1>3. P \in SUBSET (0..N)
  OBVIOUS
<1>4. N \in P
  <2>. HIDE DEF P
  <2>1. \A n \in 0..N : n \in P
    BY <1>1, <1>2, <1>3, UpTo
  <2>. QED  BY <2>1
<1>. QED  BY <1>4

-----------------------------------------------------------------------------
(* Splitting reasoning out of a text *)

Both == {Open, Close}

LEMMA TagsAre ==
  ASSUME NEW kind \in Kinds
  PROVE  Tag(kind) \in Both /\ Tag(kind) \in Seq(Characters) /\ Len(Tag(kind)) \in Nat \ {0}
<1>1. Open \in Seq(Characters) /\ Open # <<>> /\ Close \in Seq(Characters) /\ Close # <<>>
  BY SplitterAssumption
<1>2. \A w \in Seq(Characters) : w # <<>> => Len(w) \in Nat \ {0}
  BY EmptySeq, LenProperties
<1> QED
  BY <1>1, <1>2 DEF Tag, Both, Kinds

\* A tag that begins before another ends beyond it begins with it.
LEMMA TagsAreApart ==
  ASSUME NEW t, NEW k \in Kinds, NEW l \in Kinds, NEW a \in Nat, NEW b \in Nat,
         Within(t, a, Tag(k)), Within(t, b, Tag(l)), a <= b, b + Len(Tag(l)) <= a + Len(Tag(k))
  PROVE  a = b /\ k = l
<1>1. Len(Tag(k)) \in Nat \ {0} /\ Len(Tag(l)) \in Nat \ {0} /\ Tag(k) \in Both /\ Tag(l) \in Both
  BY TagsAre
<1>2. b - a \in 0..Len(Tag(k))
  BY <1>1
<1>3. \A i \in 1..Len(Tag(l)) : Tag(k)[(b - a) + i] = Tag(l)[i]
  <2> SUFFICES ASSUME NEW i \in 1..Len(Tag(l)) PROVE Tag(k)[(b - a) + i] = Tag(l)[i]
    OBVIOUS
  <2>1. (b - a) + i \in 1..Len(Tag(k)) /\ a + ((b - a) + i) = b + i
    BY <1>1
  <2>2. t[a + ((b - a) + i)] = Tag(k)[(b - a) + i]
    BY <2>1 DEF Within, Reads
  <2>3. t[b + i] = Tag(l)[i]
    BY DEF Within, Reads
  <2> QED
    BY <2>1, <2>2, <2>3
<1>4. Within(Tag(k), b - a, Tag(l))
  <2>1. (b - a) + Len(Tag(l)) <= Len(Tag(k))
    BY <1>1
  <2> QED
    BY <1>3, <2>1 DEF Within, Reads
<1>5. b - a = 0 /\ Tag(k) = Tag(l)
  BY <1>1, <1>2, <1>4, SplitterAssumption DEF Both
<1>6. k = l
  BY <1>5, SplitterAssumption DEF Tag, Kinds
<1> QED
  BY <1>5, <1>6

\* One text begins with another.
Extends(u, t) == Len(t) \in Nat /\ Len(u) \in Nat /\ Len(t) <= Len(u) /\ \A i \in 1..Len(t) : u[i] = t[i]

\* What is in a text is in a longer one, ...
LEMMA WithinStays ==
  ASSUME NEW t, NEW u, Extends(u, t), NEW at \in Nat, NEW kind \in Kinds, Within(t, at, Tag(kind))
  PROVE  Within(u, at, Tag(kind))
<1>1. Len(Tag(kind)) \in Nat \ {0}
  BY TagsAre
<1>2. \A i \in 1..Len(Tag(kind)) : at + i \in 1..Len(t)
  BY <1>1 DEF Within, Extends
<1> QED
  BY <1>1, <1>2 DEF Within, Reads, Extends

\* ... and what ends within the shorter is in it.
LEMMA WithinWas ==
  ASSUME NEW t, NEW u, Extends(u, t), NEW at \in Nat, NEW kind \in Kinds, Within(u, at, Tag(kind)),
         at + Len(Tag(kind)) <= Len(t)
  PROVE  Within(t, at, Tag(kind))
<1>1. Len(Tag(kind)) \in Nat \ {0}
  BY TagsAre
<1>2. \A i \in 1..Len(Tag(kind)) : at + i \in 1..Len(t)
  BY <1>1 DEF Extends
<1> QED
  BY <1>1, <1>2 DEF Within, Reads, Extends

\* A place at which a tag can no longer begin, whatever follows.
Refuted(t, b, kind) == \E i \in 1..Len(Tag(kind)) : b + i <= Len(t) /\ t[b + i] # Tag(kind)[i]

LEMMA RefutedStays ==
  ASSUME NEW t, NEW u, Extends(u, t), NEW b \in Nat, NEW kind \in Kinds, Refuted(t, b, kind)
  PROVE  Refuted(u, b, kind) /\ ~Within(u, b, Tag(kind))
<1>1. PICK i \in 1..Len(Tag(kind)) : b + i <= Len(t) /\ t[b + i] # Tag(kind)[i]
  BY DEF Refuted
<1>2. Len(Tag(kind)) \in Nat \ {0}
  BY TagsAre
<1>3. b + i \in 1..Len(t) /\ b + i <= Len(u) /\ u[b + i] = t[b + i]
  BY <1>1, <1>2 DEF Extends
<1> QED
  BY <1>1, <1>3 DEF Refuted, Within, Reads

\* A place that is not in a text as a tag, nor as the beginning of one at its end, is refuted.
LEMMA RefutedElse ==
  ASSUME NEW t, Len(t) \in Nat, NEW b \in 0..Len(t), NEW kind \in Kinds,
         ~Within(t, b, Tag(kind)), ~Begins(t, b)
  PROVE  Refuted(t, b, kind)
<1>1. Len(Tag(kind)) \in Nat \ {0}
  BY TagsAre
<1>2. CASE Len(t) - b < Len(Tag(kind))
  <2>1. ~Reads(t, b, Tag(kind), Len(t) - b)
    BY <1>2 DEF Begins
  <2>2. PICK i \in 1..Len(t) - b : t[b + i] # Tag(kind)[i]
    BY <2>1 DEF Reads
  <2> QED
    BY <1>1, <1>2, <2>2 DEF Refuted
<1>3. CASE ~(Len(t) - b < Len(Tag(kind)))
  <2>1. ~Reads(t, b, Tag(kind), Len(Tag(kind)))
    BY <1>1, <1>3 DEF Within
  <2>2. PICK i \in 1..Len(Tag(kind)) : t[b + i] # Tag(kind)[i]
    BY <2>1 DEF Reads
  <2> QED
    BY <1>1, <1>3, <2>2 DEF Refuted
<1> QED
  BY <1>2, <1>3

\* What _in_think, _seen_open and _seen_close say of the tags taken.
Flagged(s) ==
  /\ s.thinking <=> (Len(s.tags) > 0 /\ s.tags[Len(s.tags)].kind = "open")
  /\ (s.opened \/ s.closed) <=> Len(s.tags) > 0

\* The tags taken are apart, and behind them the text goes on.
Ordered(s) ==
  \A n \in 1..Len(s.tags) :
    s.tags[n].at >= Behind(s.tags, n - 1) /\ Behind(s.tags, n) <= s.given

Placed(s) ==
  /\ s.thought = {p \in 1..s.given : ~InTag(s.tags, p) /\ InThought(s.tags, p)}
  /\ s.answer = {p \in 1..s.given : ~InTag(s.tags, p) /\ ~InThought(s.tags, p)}
  /\ Len(s.tags) = 0 => s.emitted = s.answer

GivenOK(s) == s \in Splitter /\ Flagged(s) /\ Ordered(s) /\ Placed(s)

LEMMA SplitterFields ==
  ASSUME NEW s \in Splitter
  PROVE  /\ s.given \in Nat /\ s.thinking \in BOOLEAN /\ s.opened \in BOOLEAN /\ s.closed \in BOOLEAN
         /\ s.emitted \in SUBSET Nat /\ s.answer \in SUBSET Nat /\ s.thought \in SUBSET Nat
         /\ s.tags \in Seq(Found) /\ Len(s.tags) \in Nat
         /\ \A n \in 1..Len(s.tags) :
              /\ s.tags[n] \in Found /\ s.tags[n].at \in Nat /\ s.tags[n].kind \in Kinds
              /\ Behind(s.tags, n) \in Nat /\ s.tags[n].at < Behind(s.tags, n)
<1>1. s.tags \in Seq(Found) /\ Len(s.tags) \in Nat
  BY LenProperties DEF Splitter
<1>2. ASSUME NEW n \in 1..Len(s.tags)
      PROVE  /\ s.tags[n] \in Found /\ s.tags[n].at \in Nat /\ s.tags[n].kind \in Kinds
             /\ Behind(s.tags, n) \in Nat /\ s.tags[n].at < Behind(s.tags, n)
  <2>1. s.tags[n] \in Found
    BY <1>1, ElementOfSeq
  <2>2. s.tags[n].at \in Nat /\ s.tags[n].kind \in Kinds
    BY <2>1 DEF Found
  <2>3. Len(Tag(s.tags[n].kind)) \in Nat \ {0}
    BY <2>2, TagsAre
  <2>4. Behind(s.tags, n) = s.tags[n].at + Len(Tag(s.tags[n].kind))
    BY <1>1 DEF Behind
  <2> QED
    BY <2>1, <2>2, <2>3, <2>4
<1> QED
  BY <1>1, <1>2 DEF Splitter

LEMMA CountingIsDue ==
  ASSUME NEW s \in Splitter, Flagged(s)
  PROVE  Counting(s) = Due(s.tags, Len(s.tags))
<1> DEFINE N == Len(s.tags)
<1>1. N \in Nat /\ (N > 0 => s.tags[N].kind \in Kinds)
  BY SplitterFields
<1>2. CASE s.thinking
  <2>1. N > 0 /\ s.tags[N].kind = "open"
    BY <1>2 DEF Flagged
  <2> QED
    BY <1>1, <1>2, <2>1 DEF Counting, Due, Kinds
<1>3. CASE ~s.thinking /\ (s.opened \/ s.closed)
  <2>1. N # 0 /\ s.tags[N].kind = "close"
    BY <1>1, <1>3 DEF Flagged, Kinds
  <2>2. Due(s.tags, N) = {"open"}
    BY <2>1 DEF Due, Kinds
  <2> QED
    BY <1>3, <2>2 DEF Counting
<1>4. CASE ~s.thinking /\ ~(s.opened \/ s.closed)
  <2>1. N = 0
    BY <1>1, <1>4 DEF Flagged
  <2> QED
    BY <1>4, <2>1 DEF Counting, Due
<1> QED
  BY <1>2, <1>3, <1>4

\* A place behind all tags is in none, and is reasoning as long as a block is open.
LEMMA PlacesBehind ==
  ASSUME NEW s, GivenOK(s), NEW p \in Nat, s.given < p
  PROVE  ~InTag(s.tags, p) /\ (InThought(s.tags, p) <=> s.thinking)
<1> DEFINE N == Len(s.tags)
<1>1. /\ N \in Nat /\ s.given \in Nat
      /\ \A n \in 1..N : /\ Behind(s.tags, n) \in Nat /\ s.tags[n].at \in Nat
                         /\ s.tags[n].at < Behind(s.tags, n) /\ Behind(s.tags, n) <= s.given
  BY SplitterFields DEF GivenOK, Ordered
<1>2. ~InTag(s.tags, p)
  BY <1>1 DEF InTag
<1>3. ASSUME s.thinking PROVE InThought(s.tags, p)
  BY <1>1, <1>3 DEF InThought, GivenOK, Flagged
<1>4. ASSUME InThought(s.tags, p) PROVE s.thinking
  <2>1. ~(N > 0 /\ s.tags[1].kind = "close" /\ p <= s.tags[1].at)
    BY <1>1
  <2>2. PICK n \in 1..N : s.tags[n].kind = "open" /\ (n < N => p <= s.tags[n + 1].at)
    BY <1>4, <2>1 DEF InThought
  <2>3. n = N
    BY <1>1, <2>2
  <2> QED
    BY <1>1, <2>2, <2>3 DEF GivenOK, Flagged
<1> QED
  BY <1>2, <1>3, <1>4

LEMMA EmitGives ==
  ASSUME NEW s, GivenOK(s), NEW upto \in Nat, s.given <= upto
  PROVE  LET e == Emitted(s, upto)
         IN  /\ GivenOK(e) /\ e.given = upto /\ e.tags = s.tags /\ e.thinking = s.thinking
             /\ e.opened = s.opened /\ e.closed = s.closed
<1> DEFINE e == Emitted(s, upto)
           places == s.given + 1..upto
<1>1. s \in Splitter /\ s.given \in Nat
  BY SplitterFields DEF GivenOK
<1>2. /\ e \in Splitter /\ e.given = upto /\ e.tags = s.tags /\ e.thinking = s.thinking
      /\ e.opened = s.opened /\ e.closed = s.closed
  <2>1. places \in SUBSET Nat
    BY <1>1
  <2> HIDE DEF places
  <2>2. CASE s.thinking
    <3>1. e = [s EXCEPT !.given = upto, !.thought = @ \cup places]
      BY <2>2 DEF Emitted, places
    <3>2. s.thought \cup places \in SUBSET Nat
      BY <1>1, <2>1 DEF Splitter
    <3> HIDE DEF e
    <3> QED
      BY <1>1, <3>1, <3>2 DEF Splitter
  <2>3. CASE ~s.thinking
    <3>1. e = [s EXCEPT !.given = upto, !.answer = @ \cup places, !.emitted = @ \cup places]
      BY <2>3 DEF Emitted, places
    <3>2. s.answer \cup places \in SUBSET Nat /\ s.emitted \cup places \in SUBSET Nat
      BY <1>1, <2>1 DEF Splitter
    <3> HIDE DEF e
    <3> QED
      BY <1>1, <3>1, <3>2 DEF Splitter
  <2> QED
    BY <2>2, <2>3
<1>3. /\ s.thinking => e.thought = s.thought \cup places /\ e.answer = s.answer /\ e.emitted = s.emitted
      /\ ~s.thinking => /\ e.thought = s.thought /\ e.answer = s.answer \cup places
                        /\ e.emitted = s.emitted \cup places
  BY <1>1 DEF Emitted, Splitter
<1> HIDE DEF e
<1>4. Flagged(e)
  BY <1>2 DEF GivenOK, Flagged
<1>5. Ordered(e)
  BY <1>1, <1>2, SplitterFields DEF GivenOK, Ordered
<1>6. \A p \in places : ~InTag(s.tags, p) /\ (InThought(s.tags, p) <=> s.thinking)
  BY <1>1, PlacesBehind
<1>7. 1..upto = (1..s.given) \cup places /\ (1..s.given) \cap places = {}
  BY <1>1
<1>8. /\ s.thought = {p \in 1..s.given : ~InTag(s.tags, p) /\ InThought(s.tags, p)}
      /\ s.answer = {p \in 1..s.given : ~InTag(s.tags, p) /\ ~InThought(s.tags, p)}
      /\ Len(s.tags) = 0 => s.emitted = s.answer /\ ~s.thinking
  BY DEF GivenOK, Placed, Flagged
<1> HIDE DEF places
<1>9. e.thought = {p \in 1..upto : ~InTag(s.tags, p) /\ InThought(s.tags, p)}
  BY <1>3, <1>6, <1>7, <1>8
<1>10. e.answer = {p \in 1..upto : ~InTag(s.tags, p) /\ ~InThought(s.tags, p)}
  BY <1>3, <1>6, <1>7, <1>8
<1>11. Len(s.tags) = 0 => e.emitted = e.answer
  BY <1>3, <1>8
<1>12. Placed(e)
  BY <1>2, <1>9, <1>10, <1>11 DEF Placed
<1> QED
  BY <1>2, <1>4, <1>5, <1>12 DEF GivenOK, e

\* Taking a tag at the place the splitter has come to.
Taken(e, f) ==
  LET after == [e EXCEPT !.given = f.at + Len(Tag(f.kind)), !.tags = Append(@, f)]
  IN IF f.kind = "open" THEN [after EXCEPT !.thinking = TRUE, !.opened = TRUE]
     ELSE IF e.thinking THEN [after EXCEPT !.thinking = FALSE, !.closed = TRUE]
     ELSE [after EXCEPT !.closed = TRUE, !.emitted = {},
                        !.answer = @ \ e.emitted, !.thought = @ \cup e.emitted]

LEMMA TakesIsTaken ==
  ASSUME NEW s, GivenOK(s), NEW f \in Found, s.given <= f.at
  PROVE  TakesTag(s, f) = Taken(Emitted(s, f.at), f)
<1>1. f.at \in Nat
  BY DEF Found
<1>2. Emitted(s, f.at).thinking = s.thinking
  BY <1>1, EmitGives
<1> QED
  BY <1>2 DEF TakesTag, Taken

\* What a tag behind all others adds: the places in it, and, as the first of all and a closing
\* one, the reasoning before it.
Adds(g, f, h) ==
  LET N == Len(g)
      given == f.at + Len(Tag(f.kind))
  IN  /\ h \in Seq(Found) /\ Len(h) = N + 1 /\ h[N + 1] = f /\ \A n \in 1..N : h[n] = g[n]
      /\ (\A n \in 0..N : Behind(h, n) = Behind(g, n)) /\ Behind(h, N + 1) = given
      /\ \A p \in f.at + 1..given : InTag(h, p)
      /\ \A p \in 1..f.at : InTag(h, p) <=> InTag(g, p)
      /\ \A p \in 1..f.at : InThought(h, p) <=> InThought(g, p) \/ (N = 0 /\ f.kind = "close")

LEMMA Appended ==
  ASSUME NEW g \in Seq(Found), NEW f \in Found, \A n \in 1..Len(g) : Behind(g, n) <= f.at
  PROVE  Adds(g, f, Append(g, f))
<1> DEFINE N == Len(g)
           given == f.at + Len(Tag(f.kind))
           h == Append(g, f)
<1>0. h = Append(g, f) /\ N = Len(g) /\ given = f.at + Len(Tag(f.kind))
  OBVIOUS
<1> HIDE DEF h, N, given
<1>1. f.at \in Nat /\ f.kind \in Kinds /\ Len(Tag(f.kind)) \in Nat \ {0}
  BY TagsAre DEF Found
<1>2. N \in Nat /\ given \in Nat /\ f.at < given
  BY <1>0, <1>1, LenProperties
<1>3. h \in Seq(Found) /\ Len(h) = N + 1 /\ h[N + 1] = f /\ \A n \in 1..N : h[n] = g[n]
  BY <1>0, AppendProperties
<1>4. \A n \in 1..N : g[n].at \in Nat /\ Behind(g, n) \in Nat
  <2> TAKE n \in 1..N
  <2>1. g[n] \in Found
    BY <1>0, ElementOfSeq
  <2>2. g[n].at \in Nat /\ g[n].kind \in Kinds
    BY <2>1 DEF Found
  <2>3. Len(Tag(g[n].kind)) \in Nat
    BY <2>2, TagsAre
  <2> QED
    BY <1>2, <2>2, <2>3 DEF Behind
<1>5. ASSUME NEW n \in 0..N PROVE Behind(h, n) = Behind(g, n)
  <2>1. n # 0 => h[n] = g[n]
    BY <1>2, <1>3
  <2> QED
    BY <2>1 DEF Behind
<1>6. Behind(h, N + 1) = given
  BY <1>0, <1>2, <1>3 DEF Behind
<1>7. ASSUME NEW p \in f.at + 1..given PROVE InTag(h, p)
  BY <1>1, <1>2, <1>3, <1>6 DEF InTag
<1>8. ASSUME NEW p \in 1..f.at PROVE InTag(h, p) <=> InTag(g, p)
  <2>1. InTag(h, p) <=> \E n \in 1..N + 1 : h[n].at < p /\ p <= Behind(h, n)
    BY <1>3 DEF InTag
  <2>2. ~(h[N + 1].at < p)
    BY <1>1, <1>3
  <2>3. \A n \in 1..N : h[n].at = g[n].at /\ Behind(h, n) = Behind(g, n)
    BY <1>2, <1>3, <1>5
  <2> QED
    BY <1>0, <1>2, <2>1, <2>2, <2>3 DEF InTag
<1>9. ASSUME NEW p \in 1..f.at
      PROVE  InThought(h, p) <=> InThought(g, p) \/ (N = 0 /\ f.kind = "close")
  <2>1. InThought(h, p) <=>
          \/ \E n \in 1..N : h[n].kind = "open" /\ Behind(h, n) < p /\ p <= h[n + 1].at
          \/ h[1].kind = "close" /\ p <= h[1].at
    <3>1. ~(Behind(h, N + 1) < p) /\ Len(h) > 0
      BY <1>1, <1>2, <1>3, <1>6
    <3>2. (1..N + 1) = (1..N) \cup {N + 1} /\ \A n \in 1..N : n < N + 1
      BY <1>2
    <3>3. (\E n \in 1..N + 1 :
             h[n].kind = "open" /\ Behind(h, n) < p /\ (n < N + 1 => p <= h[n + 1].at))
          <=> \E n \in 1..N : h[n].kind = "open" /\ Behind(h, n) < p /\ p <= h[n + 1].at
      BY <3>1, <3>2, Zenon
    <3> QED
      BY <1>3, <3>1, <3>3 DEF InThought
  <2>2. ASSUME NEW n \in 1..N
        PROVE  (h[n].kind = "open" /\ Behind(h, n) < p /\ p <= h[n + 1].at)
               <=> (g[n].kind = "open" /\ Behind(g, n) < p /\ (n < N => p <= g[n + 1].at))
    <3>0. h[n] = g[n] /\ Behind(h, n) = Behind(g, n)
      BY <1>2, <1>3, <1>5
    <3>1. CASE n = N
      BY <1>1, <1>2, <1>3, <3>0, <3>1
    <3>2. CASE n < N
      <4>1. h[n + 1] = g[n + 1]
        BY <1>2, <1>3, <3>2
      <4> QED
        BY <1>2, <3>0, <3>2, <4>1
    <3> QED
      BY <1>2, <3>1, <3>2
  <2>3. (h[1].kind = "close" /\ p <= h[1].at)
        <=> (N > 0 /\ g[1].kind = "close" /\ p <= g[1].at) \/ (N = 0 /\ f.kind = "close")
    <3>1. CASE N = 0
      BY <1>1, <1>3, <3>1
    <3>2. CASE N > 0
      BY <1>2, <1>3, <3>2
    <3> QED
      BY <1>2, <3>1, <3>2
  <2> QED
    BY <1>0, <2>1, <2>2, <2>3 DEF InThought
<1> QED
  BY <1>3, <1>5, <1>6, <1>7, <1>8, <1>9 DEF Adds, h, N, given

LEMMA TakingGives ==
  ASSUME NEW e, GivenOK(e), NEW f \in Found, e.given = f.at, f.kind \in Due(e.tags, Len(e.tags))
  PROVE  LET a == Taken(e, f)
         IN  GivenOK(a) /\ a.given = f.at + Len(Tag(f.kind)) /\ a.tags = Append(e.tags, f)
<1> DEFINE a == Taken(e, f)
           N == Len(e.tags)
           g == e.tags
           h == Append(g, f)
           given == f.at + Len(Tag(f.kind))
<1>1. f.at \in Nat /\ f.kind \in Kinds /\ given \in Nat
  BY TagsAre DEF Found
<1>2. e \in Splitter /\ g \in Seq(Found) /\ N \in Nat
  BY SplitterFields DEF GivenOK
<1>3. \A n \in 1..N : Behind(g, n) <= f.at /\ g[n].at >= Behind(g, n - 1)
  BY DEF GivenOK, Ordered
<1>0. h = Append(g, f) /\ N = Len(g) /\ given = f.at + Len(Tag(f.kind)) /\ g = e.tags
  OBVIOUS
<1> HIDE DEF h, N, given, g
<1>44. \A n \in 1..N : Behind(g, n) <= f.at
  BY <1>3
<1>45. Adds(g, f, h)
  BY <1>0, <1>2, <1>44, Appended
<1>4. h \in Seq(Found) /\ Len(h) = N + 1 /\ h[N + 1] = f /\ \A n \in 1..N : h[n] = g[n]
  BY <1>0, <1>45 DEF Adds
<1>5. (\A n \in 0..N : Behind(h, n) = Behind(g, n)) /\ Behind(h, N + 1) = given
  BY <1>0, <1>45 DEF Adds
<1>6. /\ \A p \in f.at + 1..given : InTag(h, p)
      /\ \A p \in 1..f.at : InTag(h, p) <=> InTag(g, p)
      /\ \A p \in 1..f.at : InThought(h, p) <=> InThought(g, p) \/ (N = 0 /\ f.kind = "close")
  BY <1>0, <1>45 DEF Adds
<1>7. N > 0 => g[N].kind \in Kinds
  BY <1>0, <1>2, SplitterFields
<1>8. /\ e.thinking \in BOOLEAN /\ (e.thinking <=> (N > 0 /\ g[N].kind = "open"))
      /\ e.thought = {p \in 1..f.at : ~InTag(g, p) /\ InThought(g, p)}
      /\ e.answer = {p \in 1..f.at : ~InTag(g, p) /\ ~InThought(g, p)}
      /\ N = 0 => e.emitted = e.answer
  BY <1>0, SplitterFields DEF GivenOK, Flagged, Placed
<1>9. N > 0 => f.kind # g[N].kind
  BY <1>0, <1>2 DEF Due
<1> DEFINE after == [e EXCEPT !.given = given, !.tags = h]
<1>10. /\ after \in Splitter /\ after.given = given /\ after.tags = h /\ after.thinking = e.thinking
       /\ after.opened = e.opened /\ after.closed = e.closed /\ after.emitted = e.emitted
       /\ after.answer = e.answer /\ after.thought = e.thought
  BY <1>1, <1>2, <1>4 DEF Splitter
<1>11. a = IF f.kind = "open" THEN [after EXCEPT !.thinking = TRUE, !.opened = TRUE]
           ELSE IF e.thinking THEN [after EXCEPT !.thinking = FALSE, !.closed = TRUE]
           ELSE [after EXCEPT !.closed = TRUE, !.emitted = {},
                              !.answer = @ \ e.emitted, !.thought = @ \cup e.emitted]
  BY <1>0 DEF Taken
<1> HIDE DEF a, after
<1>12. /\ a \in Splitter /\ a.given = given /\ a.tags = h /\ (a.thinking <=> f.kind = "open")
       /\ a.opened \/ a.closed
       /\ N > 0 \/ f.kind = "open" => a.thought = e.thought /\ a.answer = e.answer
       /\ N = 0 /\ f.kind = "close" => /\ a.thought = e.thought \cup e.emitted
                                       /\ a.answer = e.answer \ e.emitted
  <2>1. CASE f.kind = "open"
    <3>1. a = [after EXCEPT !.thinking = TRUE, !.opened = TRUE]
      BY <1>11, <2>1
    <3> QED
      BY <1>10, <2>1, <3>1 DEF Splitter
  <2>2. CASE f.kind = "close" /\ N > 0
    <3>1. e.thinking
      BY <1>7, <1>8, <1>9, <2>2 DEF Kinds
    <3>2. a = [after EXCEPT !.thinking = FALSE, !.closed = TRUE]
      BY <1>11, <2>2, <3>1
    <3>3. f.kind # "open" /\ N # 0
      BY <1>2, <2>2
    <3> QED
      BY <1>10, <2>2, <3>2, <3>3 DEF Splitter
  <2>3. CASE f.kind = "close" /\ N = 0
    <3>1. ~e.thinking
      BY <1>8, <2>3
    <3>2. a = [after EXCEPT !.closed = TRUE, !.emitted = {},
                            !.answer = @ \ e.emitted, !.thought = @ \cup e.emitted]
      BY <1>11, <2>3, <3>1
    <3>3. e.answer \ e.emitted \in SUBSET Nat /\ e.thought \cup e.emitted \in SUBSET Nat
      BY <1>0, <1>2, SplitterFields
    <3>4. a \in Splitter
      BY <1>10, <3>2, <3>3 DEF Splitter
    <3>5. /\ a.given = given /\ a.tags = h /\ a.thinking = e.thinking /\ a.closed
          /\ a.thought = e.thought \cup e.emitted /\ a.answer = e.answer \ e.emitted
      BY <1>10, <3>2, <3>3 DEF Splitter
    <3>6. ~(N > 0) /\ f.kind # "open"
      BY <1>2, <2>3
    <3> QED
      BY <3>1, <3>4, <3>5, <3>6
  <2> QED
    BY <1>1, <1>2, <2>1, <2>2, <2>3 DEF Kinds
<1>13. Flagged(a)
  BY <1>2, <1>4, <1>12 DEF Flagged
<1>14. Ordered(a)
  <2> SUFFICES ASSUME NEW n \in 1..N + 1
               PROVE  h[n].at >= Behind(h, n - 1) /\ Behind(h, n) <= given
    BY <1>4, <1>12 DEF Ordered
  <2>0. f.at <= given
    BY <1>0, <1>1, TagsAre
  <2>1. CASE n = N + 1
    <3>1. Behind(g, N) <= f.at
      BY <1>1, <1>2, <1>3 DEF Behind
    <3>2. Behind(h, n - 1) = Behind(g, N) /\ h[n] = f /\ Behind(h, n) = given
      BY <1>2, <1>4, <1>5, <2>1
    <3> QED
      BY <1>1, <3>1, <3>2
  <2>2. CASE n \in 1..N
    <3>1. Behind(h, n - 1) = Behind(g, n - 1) /\ h[n] = g[n] /\ Behind(h, n) = Behind(g, n)
      BY <1>2, <1>4, <1>5, <2>2
    <3>2. Behind(g, n) \in Nat
      BY <1>2, <2>2, SplitterFields, <1>0
    <3> QED
      BY <1>1, <1>3, <2>0, <2>2, <3>1, <3>2
  <2> QED
    BY <1>2, <2>1, <2>2
<1>15. (1..given) = (1..f.at) \cup (f.at + 1..given) /\ (1..f.at) \cap (f.at + 1..given) = {}
  <2>1. f.at <= given
    BY <1>0, <1>1, TagsAre
  <2> QED
    BY <1>1, <2>1
<1>16. /\ a.thought = {p \in 1..given : ~InTag(h, p) /\ InThought(h, p)}
       /\ a.answer = {p \in 1..given : ~InTag(h, p) /\ ~InThought(h, p)}
  <2>1. CASE N > 0 \/ f.kind = "open"
    <3>1. \A p \in 1..f.at : InThought(h, p) <=> InThought(g, p)
      BY <1>2, <1>6, <2>1
    <3>2. a.thought = e.thought /\ a.answer = e.answer
      BY <1>12, <2>1
    <3> QED
      BY <1>6, <1>8, <1>15, <3>1, <3>2
  <2>2. CASE N = 0 /\ f.kind = "close"
    <3>1. \A p \in 1..f.at : InThought(h, p)
      BY <1>6, <2>2
    <3>2. a.thought = e.thought \cup e.answer /\ a.answer = {}
      BY <1>8, <1>12, <2>2
    <3> QED
      BY <1>6, <1>8, <1>15, <3>1, <3>2
  <2> QED
    BY <1>1, <1>2, <2>1, <2>2 DEF Kinds
<1>17. Placed(a)
  BY <1>2, <1>4, <1>12, <1>16 DEF Placed
<1> QED
  BY <1>12, <1>13, <1>14, <1>17 DEF GivenOK, a, h, given, g

TagsTaken(t, g) ==
  \A n \in 1..Len(g) : /\ g[n].kind \in Due(g, n - 1)
                       /\ Within(t, g[n].at, Tag(g[n].kind))
                       /\ NoneDue(t, g, n - 1, g[n].at)

\* The loop: the tags so far are those of the text, and where it has given out what is behind
\* them, no tag that is due can begin any more.
Looped(t, s) ==
  /\ GivenOK(s) /\ Len(t) \in Nat /\ s.given <= Len(t)
  /\ TagsTaken(t, s.tags)
  /\ \A kind \in Due(s.tags, Len(s.tags)) : \A b \in Behind(s.tags, Len(s.tags))..s.given - 1 :
       Refuted(t, b, kind)

LEMMA DueAreKinds == ASSUME NEW g, NEW n, NEW kind \in Due(g, n) PROVE kind \in Kinds
BY DEF Due

LEMMA BehindIsNat ==
  ASSUME NEW s \in Splitter, NEW n \in 0..Len(s.tags)
  PROVE  Behind(s.tags, n) \in Nat
<1>1. CASE n = 0
  BY <1>1 DEF Behind
<1>2. CASE n # 0
  <2>1. n \in 1..Len(s.tags)
    BY <1>2, SplitterFields
  <2> QED
    BY <2>1, SplitterFields
<1> QED
  BY <1>1, <1>2

\* More text leaves the tags as they are.
LEMMA LongerText ==
  ASSUME NEW t, NEW u, NEW s, Looped(t, s), Extends(u, t)
  PROVE  Looped(u, s)
<1> DEFINE g == s.tags
<1>1. s \in Splitter /\ s.given \in Nat /\ Len(g) \in Nat
  BY SplitterFields DEF Looped, GivenOK
<1>2. ASSUME NEW n \in 1..Len(g)
      PROVE  /\ g[n].kind \in Due(g, n - 1) /\ Within(u, g[n].at, Tag(g[n].kind))
             /\ NoneDue(u, g, n - 1, g[n].at)
  <2>1. /\ g[n].kind \in Due(g, n - 1) /\ g[n].kind \in Kinds /\ g[n].at \in Nat
        /\ Within(t, g[n].at, Tag(g[n].kind)) /\ NoneDue(t, g, n - 1, g[n].at)
    BY <1>1, SplitterFields DEF Looped, TagsTaken
  <2>2. Within(u, g[n].at, Tag(g[n].kind))
    BY <2>1, WithinStays
  <2>3. ASSUME NEW kind \in Due(g, n - 1), NEW b \in Behind(g, n - 1)..g[n].at - 1,
               Within(u, b, Tag(kind))
        PROVE  FALSE
    <3>1. kind \in Kinds /\ b \in Nat /\ b < g[n].at
      <4>1. n - 1 \in 0..Len(g)
        BY <1>1
      <4>2. Behind(g, n - 1) \in Nat
        BY <1>1, <4>1, BehindIsNat
      <4> QED
        BY <2>1, <4>2, DueAreKinds
    <3>2. Len(Tag(kind)) \in Nat /\ Len(Tag(g[n].kind)) \in Nat /\ Len(t) \in Nat
      BY <2>1, <3>1, TagsAre DEF Extends
    <3>3. CASE b + Len(Tag(kind)) <= Len(t)
      <4>1. Within(t, b, Tag(kind))
        BY <2>3, <3>1, <3>3, WithinWas
      <4> QED
        BY <2>1, <2>3, <4>1 DEF NoneDue
    <3>4. CASE ~(b + Len(Tag(kind)) <= Len(t))
      <4>1. g[n].at + Len(Tag(g[n].kind)) <= b + Len(Tag(kind))
        <5>1. g[n].at + Len(Tag(g[n].kind)) <= Len(t)
          BY <2>1 DEF Within
        <5> QED
          BY <2>1, <3>1, <3>2, <3>4, <5>1
      <4>2. b = g[n].at
        <5> DEFINE at == g[n].at
                   here == g[n].kind
        <5>1. at \in Nat /\ here \in Kinds /\ Within(u, at, Tag(here)) /\ b \in Nat /\ b <= at
              /\ kind \in Kinds /\ Within(u, b, Tag(kind)) /\ at + Len(Tag(here)) <= b + Len(Tag(kind))
          BY <2>1, <2>2, <2>3, <3>1, <4>1
        <5> HIDE DEF at, here
        <5>2. b = at
          BY <5>1, TagsAreApart
        <5> QED
          BY <5>2 DEF at
      <4> QED
        BY <2>1, <3>1, <4>2
    <3> QED
      BY <3>3, <3>4
  <2> QED
    BY <2>1, <2>2, <2>3 DEF NoneDue
<1>3. ASSUME NEW kind \in Due(g, Len(g)), NEW b \in Behind(g, Len(g))..s.given - 1
      PROVE  Refuted(u, b, kind)
  <2>1. Behind(g, Len(g)) \in Nat
    BY <1>1, BehindIsNat
  <2>2. b \in Nat /\ kind \in Kinds
    BY <2>1, DueAreKinds
  <2>3. Refuted(t, b, kind)
    BY DEF Looped
  <2> QED
    BY <2>2, <2>3, RefutedStays
<1>4. Len(u) \in Nat /\ s.given <= Len(u)
  BY <1>1 DEF Looped, Extends
<1> QED
  BY <1>2, <1>3, <1>4 DEF Looped, TagsTaken

\* What is due and does not begin before a place, does not begin in what was given out.
LEMMA NoneBefore ==
  ASSUME NEW t, NEW s, Looped(t, s), NEW kind \in Due(s.tags, Len(s.tags)),
         NEW b \in Behind(s.tags, Len(s.tags))..Len(t), Within(t, b, Tag(kind))
  PROVE  [at |-> b, kind |-> kind] \in Candidates(t, s)
<1>1. s \in Splitter /\ s.given \in Nat /\ Len(s.tags) \in Nat /\ Len(t) \in Nat
  BY SplitterFields DEF Looped, GivenOK
<1>2. Behind(s.tags, Len(s.tags)) \in Nat
  BY <1>1, BehindIsNat
<1>3. b \in Nat /\ kind \in Kinds
  BY <1>2, DueAreKinds
<1>4. Extends(t, t)
  BY <1>1 DEF Extends
<1>5. ~(b < s.given)
  <2> SUFFICES ASSUME b < s.given PROVE FALSE
    OBVIOUS
  <2>1. b \in Behind(s.tags, Len(s.tags))..s.given - 1
    BY <1>1, <1>2, <1>3
  <2>2. Refuted(t, b, kind)
    BY <2>1 DEF Looped
  <2> QED
    BY <1>3, <1>4, <2>2, RefutedStays
<1>6. kind \in Counting(s) /\ b \in s.given..Len(t)
  BY <1>1, <1>3, <1>5, CountingIsDue DEF Looped, GivenOK
<1> QED
  BY <1>6 DEF Candidates

LEMMA FirstIs ==
  ASSUME NEW t, NEW s, Looped(t, s), Candidates(t, s) # {}
  PROVE  /\ First(t, s) \in Candidates(t, s)
         /\ \A g \in Candidates(t, s) : First(t, s).at <= g.at
<1>1. s.given \in Nat
  BY SplitterFields DEF Looped, GivenOK
<1> DEFINE T == {f.at : f \in Candidates(t, s)}
<1>2. T \in SUBSET Nat /\ T # {}
  <2>1. \A f \in Candidates(t, s) : f.at \in Nat
    BY <1>1 DEF Candidates
  <2> QED
    BY <2>1
<1>3. PICK x \in T : \A y \in T : x <= y
  <2> HIDE DEF T
  <2> QED
    BY <1>2, LeastOf
<1>4. \E f \in Candidates(t, s) : \A g \in Candidates(t, s) : f.at <= g.at
  BY <1>3
<1> QED
  BY <1>4 DEF First

LEMMA TakingTagKeeps ==
  ASSUME NEW t, NEW s, Looped(t, s), NEW f \in Candidates(t, s),
         \A g \in Candidates(t, s) : f.at <= g.at
  PROVE  Looped(t, TakesTag(s, f)) /\ TakesTag(s, f).given > s.given
<1> DEFINE g == s.tags
           N == Len(g)
           e == Emitted(s, f.at)
           a == Taken(e, f)
           h == Append(g, f)
<1>1. s \in Splitter /\ GivenOK(s) /\ s.given \in Nat /\ g \in Seq(Found) /\ N \in Nat /\ Len(t) \in Nat
  BY SplitterFields DEF Looped, GivenOK
<1>2. Counting(s) = Due(g, N)
  BY <1>1, CountingIsDue DEF GivenOK
<1>3. /\ f.at \in Nat /\ f.at >= s.given /\ f.kind \in Due(g, N) /\ Within(t, f.at, Tag(f.kind))
      /\ f.kind \in Kinds /\ f \in [at : s.given..Len(t), kind : Due(g, N)]
  BY <1>1, <1>2, DueAreKinds DEF Candidates
<1>4. f \in Found /\ Len(Tag(f.kind)) \in Nat \ {0}
  BY <1>1, <1>3, TagsAre, DueAreKinds DEF Found
<1>5. GivenOK(e) /\ e.given = f.at /\ e.tags = g
  BY <1>1, <1>3, EmitGives
<1>6. GivenOK(a) /\ a.given = f.at + Len(Tag(f.kind)) /\ a.tags = h
  <2> HIDE DEF e
  <2> QED
    BY <1>3, <1>4, <1>5, TakingGives
<1>7. TakesTag(s, f) = a
  BY <1>1, <1>3, <1>4, TakesIsTaken
<1> HIDE DEF a, e
<1>8. /\ Len(h) = N + 1 /\ h[N + 1] = f /\ (\A n \in 1..N : h[n] = g[n])
      /\ (\A n \in 0..N : Behind(h, n) = Behind(g, n)) /\ Behind(h, N + 1) = a.given
  <2>1. \A n \in 1..N : Behind(g, n) <= f.at
    BY <1>5 DEF GivenOK, Ordered
  <2>2. Adds(g, f, h)
    BY <1>1, <1>4, <2>1, Appended
  <2> QED
    BY <1>6, <2>2 DEF Adds
<1> HIDE DEF h
<1>9. \A n \in 0..N : Due(h, n) = Due(g, n)
  <2> SUFFICES ASSUME NEW n \in 0..N PROVE Due(h, n) = Due(g, n)
    OBVIOUS
  <2>1. n # 0 => h[n] = g[n]
    BY <1>1, <1>8
  <2> QED
    BY <2>1 DEF Due
<1>10. ASSUME NEW n \in 1..N + 1
       PROVE  /\ h[n].kind \in Due(h, n - 1) /\ Within(t, h[n].at, Tag(h[n].kind))
              /\ NoneDue(t, h, n - 1, h[n].at)
  <2>1. n - 1 \in 0..N /\ Due(h, n - 1) = Due(g, n - 1) /\ Behind(h, n - 1) = Behind(g, n - 1)
    BY <1>1, <1>8, <1>9
  <2>2. CASE n \in 1..N
    BY <1>8, <2>1, <2>2 DEF Looped, TagsTaken, NoneDue
  <2>3. CASE n = N + 1
    <3>1. n - 1 = N /\ h[n] = f
      BY <1>1, <1>8, <2>3
    <3>2. NoneDue(t, h, N, f.at)
      <4> SUFFICES ASSUME NEW kind \in Due(g, N), NEW b \in Behind(g, N)..f.at - 1,
                          Within(t, b, Tag(kind))
                   PROVE  FALSE
        BY <2>1, <3>1 DEF NoneDue
      <4>1. Behind(g, N) \in Nat
        BY <1>1, BehindIsNat
      <4>2. b \in Behind(g, N)..Len(t)
        BY <1>1, <1>3, <4>1
      <4>3. [at |-> b, kind |-> kind] \in Candidates(t, s)
        BY <4>2, NoneBefore
      <4>4. f.at <= b
        BY <4>3
      <4> QED
        BY <1>3, <4>1, <4>4
    <3> QED
      BY <1>3, <2>1, <3>1, <3>2
  <2> QED
    BY <1>1, <2>2, <2>3
<1>11. TagsTaken(t, h)
  BY <1>8, <1>10 DEF TagsTaken
<1>12. a.given <= Len(t) /\ a.given > s.given /\ a.given \in Nat
  BY <1>1, <1>3, <1>4, <1>6 DEF Within
<1>13. \A kind \in Due(h, Len(h)) : \A b \in Behind(h, Len(h))..a.given - 1 : Refuted(t, b, kind)
  BY <1>8, <1>12
<1> QED
  BY <1>1, <1>6, <1>7, <1>11, <1>12, <1>13 DEF Looped

\* The loop ends with no tag that is due left in the text.
LEMMA DrainedIs ==
  ASSUME NEW t, NEW s, Looped(t, s)
  PROVE  Looped(t, Drained(t, s)) /\ Candidates(t, Drained(t, s)) = {}
<1> DEFINE N == Len(t)
           V == {x \in Splitter : Looped(t, x)}
           F == [n \in 1..N |-> [x \in V |-> Turned(t, x)]]
           Body(g) == [n \in 0..N |-> IF n = 0 THEN s ELSE Turned(t, g[n - 1])]
           turns == CHOOSE g : g = Body(g)
<1>1. N \in Nat /\ s \in V
  BY DEF Looped, GivenOK
<1>2. ASSUME NEW x \in V
      PROVE  /\ Turned(t, x) \in V
             /\ Candidates(t, x) = {} => Turned(t, x) = x
             /\ Candidates(t, x) # {} => Turned(t, x).given > x.given
  <2>1. CASE Candidates(t, x) = {}
    BY <2>1 DEF Turned
  <2>2. CASE Candidates(t, x) # {}
    <3>1. /\ First(t, x) \in Candidates(t, x)
          /\ \A g \in Candidates(t, x) : First(t, x).at <= g.at
      BY <2>2, FirstIs
    <3>2. Looped(t, TakesTag(x, First(t, x))) /\ TakesTag(x, First(t, x)).given > x.given
      BY <3>1, TakingTagKeeps
    <3> QED
      BY <2>2, <3>2 DEF Turned, Looped, GivenOK
  <2> QED
    BY <2>1, <2>2
<1>3. F \in [1..N -> [V -> V]] /\ \A n \in 1..N, x \in V : F[n][x] = Turned(t, x)
  <2> HIDE DEF V, N
  <2> QED
    BY <1>2
<1>4. Drained(t, s) = turns[N]
  BY DEF Drained
<1> HIDE DEF F, N, V
<1>5. PICK g : g \in [0..N -> V] /\ g[0] = s /\ \A n \in 1..N : g[n] = F[n][g[n - 1]]
  <2>1. F \in LoopTurns(N, V)
    BY <1>3 DEF LoopTurns
  <2>2. \E g : Loops(g, N, V, s, F)
    BY <1>1, <2>1, Iterates, Zenon
  <2> QED
    BY <2>2 DEF Loops
<1>6. g = Body(g)
  <2>1. \A n \in 0..N : g[n] = IF n = 0 THEN s ELSE Turned(t, g[n - 1])
    <3>1. \A n \in 0..N : n # 0 => n \in 1..N /\ n - 1 \in 0..N
      BY <1>1
    <3> QED
      BY <1>3, <1>5, <3>1
  <2> QED
    BY <1>5, <2>1
<1> HIDE DEF Body
<1>7. turns = Body(turns)
  BY <1>6
<1> HIDE DEF turns
<1>8. \A n \in 0..N : turns[n] = IF n = 0 THEN s ELSE Turned(t, turns[n - 1])
  <2>1. \A h : \A n \in 0..N : Body(h)[n] = IF n = 0 THEN s ELSE Turned(t, h[n - 1])
    BY DEF Body
  <2> QED
    BY <1>7, <2>1
<1>9. turns[0] = s /\ \A n \in 1..N : turns[n] = Turned(t, turns[n - 1])
  BY <1>1, <1>8
<1> DEFINE P == {n \in 0..N : turns[n] \in V /\ (Candidates(t, turns[n]) = {} \/ turns[n].given >= n)}
<1>10. P \in SUBSET (0..N) /\ 0 \in P
  <2>1. s.given \in Nat
    BY SplitterFields DEF Looped, GivenOK
  <2> QED
    BY <1>1, <1>9, <2>1
<1>11. ASSUME NEW n \in P, n < N PROVE n + 1 \in P
  <2>1. n + 1 \in 1..N /\ n + 1 \in 0..N /\ (n + 1) - 1 = n /\ n \in Nat
    BY <1>1, <1>11
  <2>2. turns[n] \in V /\ turns[n + 1] = Turned(t, turns[n])
    BY <1>9, <2>1
  <2>3. turns[n].given \in Nat /\ turns[n + 1] \in V /\ turns[n + 1].given \in Nat
    BY <1>2, <2>2, SplitterFields DEF V
  <2>4. CASE Candidates(t, turns[n]) = {}
    BY <1>2, <2>1, <2>2, <2>3, <2>4
  <2>5. CASE Candidates(t, turns[n]) # {}
    <3>1. turns[n + 1].given > turns[n].given /\ turns[n].given >= n
      BY <1>2, <2>2, <2>5
    <3> QED
      BY <2>1, <2>3, <3>1
  <2> QED
    BY <2>4, <2>5
<1>12. N \in P
  <2> HIDE DEF P
  <2>1. \A n \in 0..N : n \in P
    BY <1>1, <1>10, <1>11, UpTo
  <2> QED
    BY <1>1, <2>1
<1>13. Looped(t, turns[N])
  BY <1>12 DEF V
<1>14. Candidates(t, turns[N]) = {}
  <2> DEFINE x == turns[N]
  <2> SUFFICES ASSUME x.given >= N, NEW f \in Candidates(t, x) PROVE FALSE
    BY <1>12
  <2>1. x.given \in Nat /\ x \in Splitter /\ x.given <= N
    BY <1>13, SplitterFields DEF Looped, GivenOK, N
  <2> HIDE DEF x
  <2>2. f.at \in x.given..N /\ f.kind \in Kinds /\ Within(t, f.at, Tag(f.kind))
    BY DEF Candidates, Counting, Kinds, N
  <2>3. f.at + Len(Tag(f.kind)) <= N /\ Len(Tag(f.kind)) \in Nat \ {0}
    BY <2>2, TagsAre DEF Within, N
  <2> QED
    BY <1>1, <2>1, <2>2, <2>3
<1> QED
  BY <1>4, <1>13, <1>14

LEMMA HeldIs ==
  ASSUME NEW t, NEW s, s.given \in Nat, Len(t) \in Nat, s.given <= Len(t)
  PROVE  /\ Held(t, s) \in s.given..Len(t) /\ Begins(t, Held(t, s))
         /\ \A c \in s.given..Held(t, s) - 1 : ~Begins(t, c)
<1> DEFINE T == {b \in s.given..Len(t) : Begins(t, b)}
<1>1. Begins(t, Len(t))
  <2>1. Reads(t, Len(t), Tag("open"), Len(t) - Len(t))
    BY DEF Reads
  <2>2. Len(Tag("open")) \in Nat \ {0} /\ "open" \in Kinds
    BY TagsAre DEF Kinds
  <2>3. Len(t) - Len(t) < Len(Tag("open"))
    BY <2>2
  <2> QED
    BY <2>1, <2>2, <2>3 DEF Begins
<1>2. T \in SUBSET Nat /\ T # {}
  BY <1>1
<1>3. PICK x \in T : \A y \in T : x <= y
  <2> HIDE DEF T
  <2> QED
    BY <1>2, LeastOf
<1>4. x \in s.given..Len(t) /\ Begins(t, x) /\ \A c \in s.given..x - 1 : ~Begins(t, c)
  BY <1>3
<1> QED
  BY <1>4 DEF Held

LEMMA BeginsAtTheEnd == ASSUME NEW t, Len(t) \in Nat PROVE Begins(t, Len(t))
<1>1. Reads(t, Len(t), Tag("open"), Len(t) - Len(t))
  BY DEF Reads
<1>2. Len(Tag("open")) \in Nat \ {0} /\ "open" \in Kinds
  BY TagsAre DEF Kinds
<1>3. Len(t) - Len(t) < Len(Tag("open"))
  BY <1>2
<1> QED
  BY <1>1, <1>2, <1>3 DEF Begins

\* Where no tag that is due is left, the tags taken are the text's.
LEMMA TagsAreAll ==
  ASSUME NEW t, NEW s, Looped(t, s), Candidates(t, s) = {}
  PROVE  TagsOf(t, s.tags)
<1>1. s \in Splitter /\ Len(t) \in Nat /\ Len(s.tags) \in Nat
  BY SplitterFields DEF Looped, GivenOK
<1>2. NoneDue(t, s.tags, Len(s.tags), Len(t) + 1)
  <2> SUFFICES ASSUME NEW kind \in Due(s.tags, Len(s.tags)),
                      NEW b \in Behind(s.tags, Len(s.tags))..(Len(t) + 1) - 1, Within(t, b, Tag(kind))
               PROVE  FALSE
    BY DEF NoneDue
  <2>1. b \in Behind(s.tags, Len(s.tags))..Len(t)
    BY <1>1
  <2> QED
    BY <2>1, NoneBefore
<1> QED
  BY <1>2 DEF TagsOf, Looped, TagsTaken, GivenOK, Ordered

LEMMA SettledKeeps ==
  ASSUME NEW t, NEW s, Looped(t, s), Candidates(t, s) = {}, NEW final \in BOOLEAN
  PROVE  LET e == Settled(t, s, final)
         IN  /\ GivenOK(e) /\ e.tags = s.tags /\ e.given <= Len(t) /\ Begins(t, e.given)
             /\ final => e.given = Len(t)
             /\ ~final => Looped(t, e)
<1> DEFINE upto == IF final THEN Len(t) ELSE Held(t, s)
           e == Emitted(s, upto)
           g == s.tags
<1>1. s \in Splitter /\ GivenOK(s) /\ s.given \in Nat /\ Len(t) \in Nat /\ s.given <= Len(t)
  BY SplitterFields DEF Looped, GivenOK
<1>2. upto \in Nat /\ upto >= s.given /\ upto <= Len(t) /\ Begins(t, upto)
  BY <1>1, HeldIs, BeginsAtTheEnd
<1>3. ~final => \A c \in s.given..upto - 1 : ~Begins(t, c)
  BY <1>1, HeldIs
<1> HIDE DEF upto
<1>4. GivenOK(e) /\ e.given = upto /\ e.tags = g
  BY <1>1, <1>2, EmitGives
<1>5. Settled(t, s, final) = e
  BY DEF Settled, upto
<1> HIDE DEF e
<1>6. ASSUME ~final, NEW kind \in Due(g, Len(g)), NEW b \in Behind(g, Len(g))..upto - 1
      PROVE  Refuted(t, b, kind)
  <2>1. Behind(g, Len(g)) \in Nat /\ kind \in Kinds
    BY <1>1, BehindIsNat, SplitterFields, DueAreKinds
  <2>2. CASE b < s.given
    <3>1. b \in Behind(g, Len(g))..s.given - 1
      BY <1>1, <1>2, <2>1, <2>2
    <3> QED
      BY <3>1 DEF Looped
  <2>3. CASE ~(b < s.given)
    <3>1. b \in s.given..upto - 1 /\ b \in 0..Len(t) /\ b \in Behind(g, Len(g))..Len(t)
      BY <1>1, <1>2, <2>1, <2>3
    <3>2. ~Begins(t, b)
      BY <1>3, <1>6, <3>1
    <3>3. ~Within(t, b, Tag(kind))
      BY <3>1, NoneBefore
    <3> QED
      BY <1>1, <2>1, <3>1, <3>2, <3>3, RefutedElse
  <2> QED
    BY <2>2, <2>3
<1>7. ~final => Looped(t, e)
  BY <1>1, <1>2, <1>4, <1>6 DEF Looped
<1> QED
  BY <1>1, <1>2, <1>4, <1>5, <1>7 DEF upto

\* What feed and finish do.
LEMMA Splits ==
  ASSUME NEW t, NEW u, NEW s, Looped(t, s), Extends(u, t), NEW final \in BOOLEAN
  PROVE  LET e == Settled(u, Drained(u, s), final)
         IN  /\ GivenOK(e) /\ TagsOf(u, e.tags) /\ e.given <= Len(u) /\ Begins(u, e.given)
             /\ final => e.given = Len(u)
             /\ ~final => Looped(u, e)
<1>1. Looped(u, s)
  BY LongerText
<1>2. Looped(u, Drained(u, s)) /\ Candidates(u, Drained(u, s)) = {}
  BY <1>1, DrainedIs
<1>3. TagsOf(u, Drained(u, s).tags)
  BY <1>2, TagsAreAll
<1> QED
  BY <1>2, <1>3, SettledKeeps

SplitIInv == SplitInv /\ (~complete => Looped(received, splitter))

LEMMA SplitInitially == SplitInit => SplitIInv
<1> SUFFICES ASSUME SplitInit PROVE SplitIInv
  OBVIOUS
<1> DEFINE s == splitter
<1>1. /\ received = <<>> /\ complete = FALSE /\ Len(received) = 0 /\ received \in Seq(Characters)
      /\ s = [given |-> 0, thinking |-> FALSE, opened |-> FALSE, closed |-> FALSE,
              emitted |-> {}, tags |-> <<>>, answer |-> {}, thought |-> {}]
  BY DEF SplitInit
<1>2. <<>> \in Seq(Found) /\ Len(<<>>) = 0
  OBVIOUS
<1>3. s \in Splitter /\ s.given = 0 /\ s.tags = <<>> /\ Len(s.tags) = 0
  BY <1>1, <1>2 DEF Splitter
<1>4. GivenOK(s)
  <2>1. Flagged(s)
    BY <1>1, <1>3 DEF Flagged
  <2>2. Ordered(s)
    BY <1>3 DEF Ordered
  <2>3. Placed(s)
    BY <1>1, <1>3 DEF Placed
  <2> QED
    BY <1>3, <2>1, <2>2, <2>3 DEF GivenOK
<1>5. Behind(s.tags, Len(s.tags)) = 0
  BY <1>3 DEF Behind
<1>6. Looped(received, s)
  BY <1>1, <1>3, <1>4, <1>5 DEF Looped, TagsTaken
<1>7. Candidates(received, s) = {}
  <2> SUFFICES ASSUME NEW f \in Candidates(received, s) PROVE FALSE
    OBVIOUS
  <2>1. f.at \in 0..0 /\ f.kind \in Kinds /\ Within(received, f.at, Tag(f.kind))
    BY <1>1, <1>3 DEF Candidates, Counting, Kinds
  <2>2. Len(Tag(f.kind)) \in Nat \ {0}
    BY <2>1, TagsAre
  <2> QED
    BY <1>1, <2>1, <2>2 DEF Within
<1>8. TagsAreTheTexts
  BY <1>6, <1>7, TagsAreAll DEF TagsAreTheTexts
<1>9. LittleIsHeld
  BY <1>1, <1>3, BeginsAtTheEnd DEF LittleIsHeld
<1>10. PlacesAreRight
  BY <1>4 DEF GivenOK, Placed, PlacesAreRight
<1> QED
  BY <1>1, <1>3, <1>6, <1>8, <1>9, <1>10 DEF SplitIInv, SplitInv, SplitTypeOK

LEMMA SplitStep == ASSUME SplitIInv, SplitNext PROVE SplitIInv'
<1>1. ~complete /\ received \in Seq(Characters) /\ splitter \in Splitter /\ Looped(received, splitter)
  BY DEF SplitNext, Feed, Finish, SplitIInv, SplitInv, SplitTypeOK
<1>2. PICK final \in BOOLEAN :
        /\ complete' = final /\ received' \in Seq(Characters) /\ Extends(received', received)
        /\ splitter' = Settled(received', Drained(received', splitter), final)
  <2>1. CASE Finish
    <3>1. complete' = TRUE /\ received' = received
      BY <2>1 DEF Finish
    <3>2. splitter' = Settled(received', Drained(received', splitter), TRUE)
      BY <2>1 DEF Finish
    <3>3. Extends(received', received)
      BY <1>1, <3>1, LenProperties DEF Extends
    <3> QED
      BY <1>1, <3>1, <3>2, <3>3
  <2>2. CASE \E chunk \in Chunks : Feed(chunk)
    <3>1. PICK chunk \in Chunks : Feed(chunk)
      BY <2>2
    <3>2. PICK n \in 0..MaxLength - Len(received) : chunk \in [1..n -> Characters]
      BY DEF Chunks
    <3>3. chunk \in Seq(Characters)
      <4>1. n \in Nat
        OBVIOUS
      <4> QED
        BY <3>2, <4>1, SeqDef
    <3>4. received' = received \o chunk /\ complete' = FALSE
      BY <1>1, <3>1 DEF Feed
    <3>5. received' \in Seq(Characters) /\ Extends(received', received)
      BY <1>1, <3>3, <3>4, ConcatProperties, LenProperties DEF Extends
    <3>6. splitter' = Settled(received', Drained(received', splitter), FALSE)
      BY <3>1 DEF Feed
    <3> QED
      BY <3>4, <3>5, <3>6
  <2> QED
    BY <2>1, <2>2 DEF SplitNext
<1>3. /\ GivenOK(splitter') /\ TagsOf(received', splitter'.tags) /\ splitter'.given <= Len(received')
      /\ Begins(received', splitter'.given)
      /\ final => splitter'.given = Len(received')
      /\ ~final => Looped(received', splitter')
  BY <1>1, <1>2, Splits
<1>4. SplitTypeOK'
  BY <1>2, <1>3 DEF SplitTypeOK, GivenOK
<1>5. TagsAreTheTexts' /\ LittleIsHeld'
  BY <1>2, <1>3 DEF TagsAreTheTexts, LittleIsHeld
<1>6. PlacesAreRight'
  BY <1>3 DEF GivenOK, Placed, PlacesAreRight
<1> QED
  BY <1>2, <1>3, <1>4, <1>5, <1>6 DEF SplitIInv, SplitInv

\* However a text is cut into chunks, feed and finish take the tags of the text as a whole, put
\* every character in the reasoning or the answer as these tags say, and hold back only what may
\* become a tag, nothing at the end (services/think_split.py).
THEOREM SplitsHold == SplitSpec => []SplitInv
<1>1. SplitIInv /\ [SplitNext]_splitVars => SplitIInv'
  <2>1. ASSUME SplitIInv, UNCHANGED splitVars PROVE SplitIInv'
    BY <2>1 DEF splitVars, SplitIInv, SplitInv, SplitTypeOK, TagsAreTheTexts, PlacesAreRight,
                LittleIsHeld
  <2> QED
    BY <2>1, SplitStep
<1>2. SplitIInv => SplitInv
  BY DEF SplitIInv
<1> QED
  BY <1>1, <1>2, SplitInitially, PTL DEF SplitSpec

LEMMA FoundIn ==
  ASSUME NEW t, NEW g \in Seq(Found), TagsOf(t, g), NEW n \in 1..Len(g)
  PROVE  /\ g[n].at \in Nat /\ g[n].kind \in Kinds /\ Within(t, g[n].at, Tag(g[n].kind))
         /\ g[n] = [at |-> g[n].at, kind |-> g[n].kind]
<1>1. g[n] \in Found
  BY ElementOfSeq
<1> QED
  BY <1>1 DEF Found, TagsOf

\* What one split of a text takes next is not beyond what another takes there.
LEMMA NoneEarlier ==
  ASSUME NEW t, Len(t) \in Nat, NEW g \in Seq(Found), NEW h \in Seq(Found), TagsOf(t, g), TagsOf(t, h),
         NEW n \in Nat, n < Len(g), n <= Len(h), \A i \in 1..n : g[i] = h[i]
  PROVE  n < Len(h) /\ h[n + 1].at <= g[n + 1].at
<1> DEFINE at == g[n + 1].at
           kind == g[n + 1].kind
<1>1. n + 1 \in 1..Len(g) /\ (n + 1) - 1 = n /\ Len(g) \in Nat /\ Len(h) \in Nat
  BY LenProperties
<1>2. at \in Nat /\ kind \in Kinds /\ Within(t, at, Tag(kind))
  BY <1>1, FoundIn
<1>3. Behind(h, n) = Behind(g, n) /\ Due(h, n) = Due(g, n)
  <2>1. n # 0 => g[n] = h[n]
    OBVIOUS
  <2> QED
    BY <2>1 DEF Behind, Due
<1>4. kind \in Due(h, n) /\ at >= Behind(h, n) /\ Behind(h, n) \in Nat
  <2>1. kind \in Due(g, n) /\ at >= Behind(g, n)
    BY <1>1 DEF TagsOf
  <2>2. n = 0 => Behind(g, n) = 0
    BY DEF Behind
  <2>3. n # 0 => Behind(g, n) \in Nat
    <3> SUFFICES ASSUME n # 0 PROVE Behind(g, n) \in Nat
      OBVIOUS
    <3>1. n \in 1..Len(g)
      BY <1>1
    <3>2. g[n].at \in Nat /\ Len(Tag(g[n].kind)) \in Nat
      BY <3>1, FoundIn, TagsAre
    <3> QED
      BY <3>2 DEF Behind
  <2> QED
    BY <1>3, <2>1, <2>2, <2>3
<1>5. at <= Len(t)
  BY <1>2, TagsAre DEF Within
<1>6. ASSUME NEW upto \in Nat, NoneDue(t, h, n, upto) PROVE upto <= at
  <2> HIDE DEF at, kind
  <2>1. ~(at \in Behind(h, n)..upto - 1)
    BY <1>2, <1>4, <1>6 DEF NoneDue
  <2> QED
    BY <1>2, <1>4, <2>1
<1>7. n < Len(h)
  <2> SUFFICES ASSUME n = Len(h) PROVE FALSE
    BY <1>1
  <2>1. NoneDue(t, h, n, Len(t) + 1)
    BY DEF TagsOf
  <2>2. Len(t) + 1 <= at
    BY <1>6, <2>1
  <2> QED
    BY <1>2, <1>5, <2>2
<1>8. n + 1 \in 1..Len(h)
  BY <1>1, <1>7
<1>9. h[n + 1].at \in Nat /\ NoneDue(t, h, n, h[n + 1].at)
  BY <1>1, <1>8, FoundIn DEF TagsOf
<1> QED
  BY <1>6, <1>7, <1>9

LEMMA SplitsBegin ==
  ASSUME NEW t, Len(t) \in Nat, NEW g \in Seq(Found), NEW h \in Seq(Found), TagsOf(t, g), TagsOf(t, h)
  PROVE  Len(g) <= Len(h) /\ \A i \in 1..Len(g) : g[i] = h[i]
<1> DEFINE N == Len(g)
           P == {n \in 0..N : n <= Len(h) /\ \A i \in 1..n : g[i] = h[i]}
<1>1. N \in Nat /\ Len(h) \in Nat /\ P \in SUBSET (0..N) /\ 0 \in P
  BY LenProperties
<1>2. ASSUME NEW n \in P, n < N PROVE n + 1 \in P
  <2>1. n \in Nat /\ n <= Len(h) /\ n < Len(g) /\ \A i \in 1..n : g[i] = h[i]
    BY <1>1, <1>2
  <2>2. n < Len(h) /\ h[n + 1].at <= g[n + 1].at
    BY <2>1, NoneEarlier
  <2>3. g[n + 1].at <= h[n + 1].at
    BY <2>1, <2>2, NoneEarlier
  <2>4. n + 1 \in 1..Len(g) /\ n + 1 \in 1..Len(h)
    BY <1>1, <2>1, <2>2
  <2> DEFINE a == g[n + 1].at
             k == g[n + 1].kind
             b == h[n + 1].at
             l == h[n + 1].kind
  <2>5. a \in Nat /\ k \in Kinds /\ Within(t, a, Tag(k)) /\ g[n + 1] = [at |-> a, kind |-> k]
    BY <2>4, FoundIn
  <2>6. b \in Nat /\ l \in Kinds /\ Within(t, b, Tag(l)) /\ h[n + 1] = [at |-> b, kind |-> l]
    BY <2>4, FoundIn
  <2>7. a = b
    BY <2>2, <2>3, <2>5, <2>6
  <2> HIDE DEF a, b, k, l
  <2>8. k = l
    <3>1. Len(Tag(k)) \in Nat /\ Len(Tag(l)) \in Nat
      BY <2>5, <2>6, TagsAre
    <3>2. CASE Len(Tag(l)) <= Len(Tag(k))
      <4>1. b + Len(Tag(l)) <= a + Len(Tag(k)) /\ a <= b
        BY <2>5, <2>6, <2>7, <3>1, <3>2
      <4> QED
        BY <2>5, <2>6, <4>1, TagsAreApart
    <3>3. CASE Len(Tag(k)) <= Len(Tag(l))
      <4>1. a + Len(Tag(k)) <= b + Len(Tag(l)) /\ b <= a
        BY <2>5, <2>6, <2>7, <3>1, <3>3
      <4> QED
        BY <2>5, <2>6, <4>1, TagsAreApart
    <3> QED
      BY <3>1, <3>2, <3>3
  <2>9. g[n + 1] = h[n + 1]
    BY <2>5, <2>6, <2>7, <2>8
  <2>10. \A i \in 1..n + 1 : g[i] = h[i]
    BY <2>1, <2>9
  <2> QED
    BY <1>1, <2>1, <2>2, <2>4, <2>10
<1>3. N \in P
  <2> HIDE DEF P
  <2>1. \A n \in 0..N : n \in P
    BY <1>1, <1>2, UpTo
  <2> QED
    BY <1>1, <2>1
<1> QED
  BY <1>3

\* A text has one split.
LEMMA OneSplit ==
  ASSUME NEW t, Len(t) \in Nat, NEW g \in Seq(Found), NEW h \in Seq(Found), TagsOf(t, g), TagsOf(t, h)
  PROVE  g = h
<1>1. Len(g) <= Len(h) /\ \A i \in 1..Len(g) : g[i] = h[i]
  BY SplitsBegin
<1>2. Len(h) <= Len(g)
  BY SplitsBegin
<1>3. Len(g) \in Nat /\ Len(h) \in Nat
  BY LenProperties
<1>4. Len(g) = Len(h)
  BY <1>1, <1>2, <1>3
<1> QED
  BY <1>1, <1>4, SeqEqual

\* At the end the answer and the reasoning are those of any split of the whole text.
AnswersAreTheTexts ==
  complete =>
    \A g \in Seq(Found) : TagsOf(received, g) =>
      /\ splitter.thought = {p \in 1..Len(received) : ~InTag(g, p) /\ InThought(g, p)}
      /\ splitter.answer = {p \in 1..Len(received) : ~InTag(g, p) /\ ~InThought(g, p)}

\* What was given out as answer and as reasoning at the end depends on the text alone, not on how
\* it was cut into chunks: a text has one split (services/think_split.py).
THEOREM ChunksDoNotMatter == SplitSpec => []AnswersAreTheTexts
<1>1. SplitInv => AnswersAreTheTexts
  <2> SUFFICES ASSUME SplitInv, complete, NEW g \in Seq(Found), TagsOf(received, g)
               PROVE  /\ splitter.thought = {p \in 1..Len(received) : ~InTag(g, p) /\ InThought(g, p)}
                      /\ splitter.answer = {p \in 1..Len(received) : ~InTag(g, p) /\ ~InThought(g, p)}
    BY DEF AnswersAreTheTexts
  <2>1. Len(received) \in Nat /\ splitter.tags \in Seq(Found) /\ splitter.given = Len(received)
    BY LenProperties, SplitterFields DEF SplitInv, SplitTypeOK, LittleIsHeld
  <2>2. splitter.tags = g
    BY <2>1, OneSplit DEF SplitInv, TagsAreTheTexts
  <2> QED
    BY <2>1, <2>2 DEF SplitInv, PlacesAreRight
<1> QED
  BY <1>1, SplitsHold, PTL
===============================================================================
