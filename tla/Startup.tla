-------------------------------- MODULE Startup --------------------------------
(***************************************************************************)
(* What instances share when they start, and what one of them shares among *)
(* its tasks: the schema (db/migrate.py, lifespan.build_state, /ready) and *)
(* the HTTP client that is built on first use, on the event loop or in a   *)
(* worker thread (state.py).                                               *)
(*                                                                         *)
(* The migration scripts form a line; a revision is its place on it, and 0 *)
(* is a database that has never been migrated.  On SQLite db/migrations/   *)
(* env.py opens no transaction for DDL, so each statement of a script      *)
(* commits by itself and the stamp of the script after them; on PostgreSQL *)
(* all of them commit together, which is the case where no step of another *)
(* process, and no death, comes between.                                   *)
(***************************************************************************)
EXTENDS Naturals, FiniteSets

CONSTANTS
  Instances,   \* processes on one database
  Newest,      \* Newest[i]: the newest script instance i was built with (head_revision)
  Statements,  \* statements of a script that commit by themselves
  Tasks,       \* tasks of one process that ask for the HTTP client
  NoClient,
  MaxClients   \* bound: HTTP clients ever built

ASSUME StartupAssumption ==
  Newest \in [Instances -> Nat] /\ Statements \in Nat \ {0} /\ NoClient \notin Nat

VARIABLES
  stamped,  \* alembic_version
  applied,  \* the statements that have been committed: of which script, and which of it
  left,     \* whether a process has died inside a script
  stage,    \* of an instance: "down", "migrating", "serving"
  at,       \* the script and the statement of it that a migrating instance has come to
  http,     \* _http: a client, or NoClient
  built,    \* clients built so far; they are numbered
  open,     \* the clients that are not closed
  asking,   \* of a task: "idle", "building" (in a thread), "closing" (its own copy), "got"
  held,     \* the client a task has
  closing   \* whether close_http has begun

schemaVars == <<stamped, applied, left, stage, at>>
httpVars == <<http, built, open, asking, held, closing>>
startVars == <<schemaVars, httpVars>>

StartInit ==
  /\ stamped = 0 /\ applied = {} /\ left = FALSE
  /\ stage = [i \in Instances |-> "down"]
  /\ at = [i \in Instances |-> [script |-> 1, statement |-> 1]]
  /\ http = NoClient /\ built = 0 /\ open = {}
  /\ asking = [t \in Tasks |-> "idle"] /\ held = [t \in Tasks |-> NoClient]
  /\ closing = FALSE

-----------------------------------------------------------------------------
(* The schema.                                                             *)

\* is_up_to_date and the shortcut of ensure_schema: the stamp is compared with the head.
IsUpToDate(i) == stamped = Newest[i]

\* ensure_schema: nothing to do, or Alembic starts after the stamp it reads.  It cannot
\* locate the stamp of a newer release: such a process stays down.
Starts(i) ==
  /\ stage[i] = "down"
  /\ \/ IsUpToDate(i) /\ stage' = [stage EXCEPT ![i] = "serving"] /\ UNCHANGED at
     \/ /\ ~IsUpToDate(i) /\ stamped < Newest[i]
        /\ stage' = [stage EXCEPT ![i] = "migrating"]
        /\ at' = [at EXCEPT ![i] = [script |-> stamped + 1, statement |-> 1]]
  /\ UNCHANGED <<stamped, applied, left>>

\* Where a migrating instance is: what it executes next, if it is not at the end of a script.
NextOf(i) == <<at[i].script, at[i].statement>>
AtStatement(i) == stage[i] = "migrating" /\ at[i].statement <= Statements
Inside(i) == stage[i] = "migrating" /\ at[i].statement > 1

\* upgrade_to_head executes the next statement of a script ...
Migrates(i) ==
  /\ AtStatement(i) /\ NextOf(i) \notin applied
  /\ applied' = applied \cup {NextOf(i)}
  /\ at' = [at EXCEPT ![i].statement = @ + 1]
  /\ UNCHANGED <<stamped, left, stage>>

\* ... which fails when what it creates is there already, by another instance or by a process
\* that died: the process ends, to be started again.
MigrationFails(i) ==
  /\ AtStatement(i) /\ NextOf(i) \in applied
  /\ stage' = [stage EXCEPT ![i] = "down"]
  /\ UNCHANGED <<stamped, applied, left, at>>

\* The end of a script: its revision is stamped.
Stamps(i) ==
  /\ stage[i] = "migrating" /\ at[i].statement > Statements
  /\ stamped' = at[i].script
  /\ at' = [at EXCEPT ![i] = [script |-> at[i].script + 1, statement |-> 1]]
  /\ stage' = [stage EXCEPT ![i] = IF at[i].script = Newest[i] THEN "serving" ELSE @]
  /\ UNCHANGED <<applied, left>>

\* A process may end at any time, in the middle of its migrations too.
Dies(i) ==
  /\ stage[i] # "down"
  /\ stage' = [stage EXCEPT ![i] = "down"]
  /\ left' = (left \/ Inside(i))
  /\ UNCHANGED <<stamped, applied, at>>

SchemaSteps ==
  \E i \in Instances : Starts(i) \/ Migrates(i) \/ MigrationFails(i) \/ Stamps(i) \/ Dies(i)

-----------------------------------------------------------------------------
(* The HTTP client.                                                        *)

New == built + 1
Gets(t, client) == asking' = [asking EXCEPT ![t] = "got"] /\ held' = [held EXCEPT ![t] = client]

\* state.http: on the loop, in one step.
AsksOnLoop(t) ==
  /\ asking[t] = "idle" /\ ~closing
  /\ IF http = NoClient
     THEN /\ New <= MaxClients
          /\ http' = New /\ built' = New /\ open' = open \cup {New} /\ Gets(t, New)
     ELSE Gets(t, http) /\ UNCHANGED <<http, built, open>>
  /\ UNCHANGED closing

\* state.http_client: if there is none, a thread builds one while the loop goes on.
AsksInThread(t) ==
  /\ asking[t] = "idle" /\ ~closing
  /\ IF http = NoClient
     THEN asking' = [asking EXCEPT ![t] = "building"] /\ UNCHANGED held
     ELSE Gets(t, http)
  /\ UNCHANGED <<http, built, open, closing>>

\* Mutant: the thread's client replaces the one that appeared meanwhile.
Adopts_Last(t) ==
  /\ asking[t] = "building" /\ New <= MaxClients
  /\ built' = New /\ open' = open \cup {New}
  /\ http' = New /\ Gets(t, New)
  /\ UNCHANGED closing

\* _adopt: the thread's client is kept, unless another one appeared meanwhile.
Adopts(t) ==
  /\ asking[t] = "building" /\ New <= MaxClients
  /\ built' = New /\ open' = open \cup {New}
  /\ IF http = NoClient
     THEN http' = New /\ Gets(t, New)
     ELSE /\ asking' = [asking EXCEPT ![t] = "closing"]
          /\ held' = [held EXCEPT ![t] = New]
          /\ UNCHANGED http
  /\ UNCHANGED closing

\* The spare copy is closed, and the task gets whatever the state has by then.
ClosesCopy(t) ==
  /\ asking[t] = "closing"
  /\ open' = open \ {held[t]}
  /\ Gets(t, http)
  /\ UNCHANGED <<http, built, closing>>

\* close_http, at shutdown: the client is closed first and forgotten afterwards.
HttpCloseBegins == ~closing /\ closing' = TRUE /\ UNCHANGED <<http, built, open, asking, held>>
HttpCloses ==
  /\ closing /\ http # NoClient
  /\ open' = open \ {http} /\ http' = NoClient
  /\ UNCHANGED <<built, asking, held, closing>>

ClientSteps ==
  \/ \E t \in Tasks : AsksOnLoop(t) \/ AsksInThread(t) \/ Adopts(t) \/ ClosesCopy(t)
  \/ HttpCloseBegins \/ HttpCloses

StartSpec ==
  /\ StartInit
  /\ [][(SchemaSteps /\ UNCHANGED httpVars) \/ (ClientSteps /\ UNCHANGED schemaVars)]_startVars

-----------------------------------------------------------------------------
(* Properties.                                                             *)

\* An instance serves only after every statement of the scripts it was built with has been
\* committed, by itself or by another one that raced it (migrate.py).
ServingIsMigrated ==
  \A i \in Instances : stage[i] = "serving" =>
    stamped >= Newest[i] /\ (1..Newest[i]) \X (1..Statements) \subseteq applied

\* However many processes race, one at most gets inside a script.  Whoever starts later finds
\* the next script untouched or another process inside it, unless a process died inside it:
\* one that died between two scripts resumes.
MigrationsResume ==
  /\ \A i, j \in Instances : Inside(i) /\ Inside(j) => i = j
  /\ \A k \in 1..Statements :
       <<stamped + 1, k>> \in applied =>
         left \/ \E i \in Instances : Inside(i) /\ at[i].script = stamped + 1

\* "applies pending Alembic migrations at startup" (docs/configuration.md:40-41): with no other
\* process at it, the first statement of the next script can be executed.  Not so after a
\* process died inside that script on SQLite: every later start fails.
PendingScriptsCanBeApplied ==
  (\A i \in Instances : stage[i] # "migrating") => <<stamped + 1, 1>> \notin applied

\* "there is still exactly one client" (state.py:165): as long as the process serves, every
\* task that asked has the one the state keeps, and no other stays open but a copy that is
\* about to be closed.
OneClient ==
  ~closing =>
    /\ \A t \in Tasks : asking[t] = "got" => held[t] = http /\ http # NoClient
    /\ open = ({http} \ {NoClient}) \cup {held[t] : t \in {u \in Tasks : asking[u] = "closing"}}

\* What is shared at startup stays whole (lifespan.py, state.py): the schema and the client.
StartupInv == ServingIsMigrated /\ MigrationsResume /\ OneClient
=============================================================================
