--------------------------- MODULE Services_proofs ---------------------------
(***************************************************************************)
(* The services with caches, schemas, stores and imports: for every clock, *)
(* number of instances, tasks, documents, settings, saves, exports,        *)
(* uploads, custom models and conversations started from them.             *)
(***************************************************************************)
EXTENDS Identifiers, Startup, Knowledge, SettingsCaches, Importer, Chunking, SavedModels, Uploads,
        SequenceTheorems, FiniteSetTheorems, FunctionTheorems, WellFoundedInduction, TLAPS

-----------------------------------------------------------------------------
(* Identifiers *)

\* Every reachable state has the types of ids.py: a suffix never leaves its 80 bits.
THEOREM IdTypeCorrect == IdSpec => []IdTypeOK
<1> USE IdentifiersAssumption
<1>1. IdInit => IdTypeOK
  <2> SUFFICES ASSUME IdInit PROVE IdTypeOK
    OBVIOUS
  <2>1. lastId \in Ulid
    BY DEF IdInit, Ulid
  <2> QED
    BY <2>1 DEF IdInit, IdTypeOK
<1>2. IdTypeOK /\ [IdNext]_idVars => IdTypeOK'
  <2> SUFFICES ASSUME IdTypeOK, [IdNext]_idVars PROVE IdTypeOK'
    OBVIOUS
  <2>1. CASE ClockMoves
    BY <2>1 DEF ClockMoves, IdTypeOK
  <2>2. CASE NewUlid
    <3>1. CASE begun /\ wall = lastId.ms
      <4>1. CountsUp
        BY <2>2, <3>1 DEF NewUlid
      <4>2. (lastId.suffix + 1) % SuffixCount \in 0 .. SuffixCount - 1
        BY DEF IdTypeOK, Ulid
      <4>3. lastId' \in Ulid
        BY <4>1, <4>2 DEF CountsUp, IdTypeOK, Ulid
      <4> QED
        BY <2>2, <4>3 DEF NewUlid, IdTypeOK
    <3>2. CASE ~(begun /\ wall = lastId.ms)
      <4>1. Draws
        BY <2>2, <3>2 DEF NewUlid
      <4>2. lastId' \in Ulid
        BY <4>1 DEF Draws, IdTypeOK, Ulid
      <4> QED
        BY <2>2, <4>2 DEF NewUlid, IdTypeOK
    <3> QED
      BY <3>1, <3>2
  <2>3. CASE UNCHANGED idVars
    BY <2>3 DEF idVars, IdTypeOK
  <2> QED
    BY <2>1, <2>2, <2>3 DEF IdNext
<1> QED
  BY <1>1, <1>2, PTL DEF IdSpec

\* A suffix that is counted up is the next one, or starts again at zero in the next
\* millisecond: either way the identifier has grown.
LEMMA CountingIncreases ==
  ASSUME IdTypeOK, CountsUp
  PROVE  Precedes(lastId, lastId')
<1> USE IdentifiersAssumption
<1> DEFINE next == (lastId.suffix + 1) % SuffixCount
<1>1. lastId.suffix \in 0 .. SuffixCount - 1 /\ lastId.ms \in Nat
  BY DEF IdTypeOK, Ulid
<1>2. lastId' = [ms |-> IF next = 0 THEN lastId.ms + 1 ELSE lastId.ms, suffix |-> next]
  BY DEF CountsUp
<1>3. CASE lastId.suffix + 1 < SuffixCount
  <2>1. next = lastId.suffix + 1
    BY <1>1, <1>3
  <2> QED
    BY <1>1, <1>2, <2>1 DEF Precedes
<1>4. CASE lastId.suffix + 1 = SuffixCount
  <2>1. next = 0
    BY <1>1, <1>4
  <2> QED
    BY <1>1, <1>2, <2>1 DEF Precedes
<1> QED
  BY <1>1, <1>3, <1>4

\* As long as the clock has not fallen behind the last identifier, each identifier is
\* greater than the one before it (new_ulid, ids.py).
THEOREM CalmOrder == IdSpec => CalmIdsIncrease
<1>1. IdTypeOK /\ [IdNext]_idVars
        => [begun /\ lastId' # lastId /\ ~behind' => Precedes(lastId, lastId')]_idVars
  <2> SUFFICES ASSUME IdTypeOK, IdNext, begun, lastId' # lastId, ~behind'
               PROVE  Precedes(lastId, lastId')
    BY DEF idVars
  <2>1. NewUlid
    BY DEF IdNext, ClockMoves
  <2>2. CASE wall = lastId.ms
    BY <2>1, <2>2, CountingIncreases DEF NewUlid
  <2>3. CASE wall # lastId.ms
    <3>1. wall \in Nat /\ lastId.ms \in Nat
      BY DEF IdTypeOK, Ulid
    <3>2. ~(wall < lastId.ms)
      BY <2>1 DEF NewUlid
    <3>3. lastId'.ms = wall
      BY <2>1, <2>3, <3>2 DEF NewUlid, Draws
    <3> QED
      BY <2>3, <3>1, <3>2, <3>3 DEF Precedes
  <2> QED
    BY <2>2, <2>3
<1> QED
  BY <1>1, IdTypeCorrect, PTL DEF IdSpec, CalmIdsIncrease

-----------------------------------------------------------------------------
(* The schema and the shared HTTP client *)

\* An instance that migrates is at one of its own scripts, at most the next one; one that is inside
\* a script is alone there, and just the statements before it have been committed.
MigratingOK ==
  \A i \in Instances : stage[i] = "migrating" =>
    /\ at[i].script <= stamped + 1 /\ at[i].script <= Newest[i]
    /\ Inside(i) =>
         /\ at[i].script = stamped + 1
         /\ \A k \in 1..Statements : <<at[i].script, k>> \in applied <=> k < at[i].statement

OneInside == \A i, j \in Instances : Inside(i) /\ Inside(j) => i = j

\* Stamped scripts are applied whole, and of later ones only the next may be begun, by an instance
\* that is inside it or one that died there.
ScriptsOK ==
  /\ \A s \in 1..stamped : \A k \in 1..Statements : <<s, k>> \in applied
  /\ \A s \in Nat, k \in 1..Statements :
       <<s, k>> \in applied => s <= stamped + 1 /\ \A j \in 1..k : <<s, j>> \in applied
  /\ \A k \in 1..Statements : <<stamped + 1, k>> \in applied => left \/ \E i \in Instances : Inside(i)

SchemaTypes ==
  /\ stamped \in Nat /\ left \in BOOLEAN
  /\ stage \in [Instances -> {"down", "migrating", "serving"}]
  /\ at \in [Instances -> [script : Nat \ {0}, statement : 1..Statements + 1]]

SchemaOK ==
  /\ SchemaTypes /\ MigratingOK /\ OneInside /\ ScriptsOK
  /\ \A i \in Instances : stage[i] = "serving" => stamped >= Newest[i]

\* Clients are numbered, so that a new one is nobody's.
ClientsNumbered ==
  /\ built \in Nat
  /\ http \in (1..built) \cup {NoClient}
  /\ open \subseteq 1..built
  /\ asking \in [Tasks -> {"idle", "building", "closing", "got"}]
  /\ held \in [Tasks -> (1..built) \cup {NoClient}]
  /\ closing \in BOOLEAN

\* A copy about to be closed is one task's own, and is not the shared client.
CopiesAreSpare ==
  /\ \A t \in Tasks : asking[t] = "closing" =>
       held[t] \in 1..built /\ held[t] # http /\ (closing \/ http # NoClient)
  /\ \A t, u \in Tasks :
       asking[t] = "closing" /\ asking[u] = "closing" /\ held[t] = held[u] => t = u

ClientOK == ClientsNumbered /\ CopiesAreSpare /\ OneClient

Copies == {held[t] : t \in {u \in Tasks : asking[u] = "closing"}}

-----------------------------------------------------------------------------
\* The statement an instance executes is one of the next script, and whoever is inside that script
\* has executed it.
LEMMA MigratesIsNext ==
  ASSUME SchemaOK, NEW i \in Instances, Migrates(i)
  PROVE  /\ at[i].script = stamped + 1
         /\ \A j \in Instances : Inside(j) => j = i
<1> USE StartupAssumption
<1>1. /\ stage[i] = "migrating" /\ NextOf(i) \notin applied
      /\ at[i].script \in Nat \ {0} /\ at[i].statement \in 1..Statements
      /\ at[i].script <= stamped + 1 /\ stamped \in Nat
  BY DEF Migrates, AtStatement, SchemaOK, SchemaTypes, MigratingOK
<1>2. at[i].script = stamped + 1
  <2> SUFFICES ASSUME at[i].script # stamped + 1 PROVE FALSE
    OBVIOUS
  <2>1. at[i].script \in 1..stamped
    BY <1>1
  <2> QED
    BY <1>1, <2>1 DEF SchemaOK, ScriptsOK, NextOf
<1>3. ASSUME NEW j \in Instances, Inside(j), j # i PROVE FALSE
  <2>1. at[j].script = stamped + 1 /\ ~Inside(i)
    BY <1>3 DEF SchemaOK, MigratingOK, OneInside, Inside
  <2>2. at[i].statement = 1
    BY <1>1, <2>1 DEF Inside
  <2>3. at[j].statement \in Nat /\ 1 < at[j].statement
    BY <1>3 DEF Inside, SchemaOK, SchemaTypes
  <2>4. 1 \in 1..Statements
    OBVIOUS
  <2>5. <<at[j].script, 1>> \in applied
    BY <1>3, <2>3, <2>4 DEF SchemaOK, MigratingOK, Inside
  <2> QED
    BY <1>1, <1>2, <2>1, <2>2, <2>5 DEF NextOf
<1> QED
  BY <1>2, <1>3

LEMMA MigratesKeeps ==
  ASSUME SchemaOK, NEW i \in Instances, Migrates(i)
  PROVE  SchemaOK'
<1> USE StartupAssumption
<1> DEFINE s == at[i].script
           n == at[i].statement
<1>1. /\ stage[i] = "migrating" /\ n <= Statements /\ <<s, n>> \notin applied
      /\ applied' = applied \cup {<<s, n>>}
      /\ at' = [at EXCEPT ![i].statement = @ + 1]
      /\ UNCHANGED <<stamped, left, stage>>
  BY DEF Migrates, AtStatement, NextOf
<1>2. s = stamped + 1 /\ \A j \in Instances : Inside(j) => j = i
  BY MigratesIsNext
<1>3. stamped \in Nat /\ s \in Nat \ {0} /\ n \in 1..Statements /\ s <= Newest[i]
  BY <1>1 DEF SchemaOK, SchemaTypes, MigratingOK
<1>4. /\ at'[i].script = s /\ at'[i].statement = n + 1
      /\ \A j \in Instances \ {i} : at'[j] = at[j]
      /\ SchemaTypes'
  <2>1. n + 1 \in 1..Statements + 1
    BY <1>3
  <2> QED
    BY <1>1, <2>1 DEF SchemaOK, SchemaTypes
<1>5. Inside(i)' /\ \A j \in Instances : Inside(j)' => j = i
  BY <1>1, <1>2, <1>3, <1>4 DEF Inside
<1>6. \A k \in 1..Statements : <<s, k>> \in applied <=> k < n
  <2>1. CASE n = 1
    <3>1. ASSUME NEW k \in 1..Statements, <<s, k>> \in applied PROVE FALSE
      <4>1. 1 \in 1..k
        OBVIOUS
      <4> QED
        BY <1>1, <1>3, <2>1, <3>1, <4>1 DEF SchemaOK, ScriptsOK
    <3> QED
      BY <2>1, <3>1
  <2>2. CASE n # 1
    <3>1. Inside(i)
      BY <1>1, <1>3, <2>2 DEF Inside
    <3> QED
      BY <1>1, <3>1 DEF SchemaOK, MigratingOK
  <2> QED
    BY <2>1, <2>2
<1>7. MigratingOK'
  <2> SUFFICES ASSUME NEW j \in Instances, stage'[j] = "migrating"
               PROVE  /\ at'[j].script <= stamped' + 1 /\ at'[j].script <= Newest[j]
                      /\ Inside(j)' =>
                           /\ at'[j].script = stamped' + 1
                           /\ \A k \in 1..Statements :
                                <<at'[j].script, k>> \in applied' <=> k < at'[j].statement
    BY DEF MigratingOK
  <2>1. CASE j = i
    <3>1. \A k \in 1..Statements : <<s, k>> \in applied' <=> k < n + 1
      BY <1>1, <1>3, <1>6
    <3> QED
      BY <1>1, <1>2, <1>3, <1>4, <2>1, <3>1
  <2>2. CASE j # i
    BY <1>1, <1>4, <1>5, <2>2 DEF SchemaOK, MigratingOK
  <2> QED
    BY <2>1, <2>2
<1>8. ScriptsOK'
  <2>1. \A r \in 1..stamped' : \A k \in 1..Statements : <<r, k>> \in applied'
    BY <1>1 DEF SchemaOK, ScriptsOK
  <2>2. ASSUME NEW r \in Nat, NEW k \in 1..Statements, <<r, k>> \in applied'
        PROVE  r <= stamped' + 1 /\ \A j \in 1..k : <<r, j>> \in applied'
    <3>1. CASE <<r, k>> \in applied
      BY <1>1, <3>1 DEF SchemaOK, ScriptsOK
    <3>2. CASE r = s /\ k = n
      <4>1. \A j \in 1..k : j \in 1..Statements /\ (j < n \/ j = n)
        BY <1>3, <3>2
      <4> QED
        BY <1>1, <1>2, <1>3, <1>6, <3>2, <4>1
    <3> QED
      BY <1>1, <2>2, <3>1, <3>2
  <2> QED
    BY <1>5, <2>1, <2>2 DEF ScriptsOK
<1>9. \A j \in Instances : stage'[j] = "serving" => stamped' >= Newest[j]
  BY <1>1 DEF SchemaOK
<1> QED
  BY <1>4, <1>5, <1>7, <1>8, <1>9 DEF SchemaOK, OneInside

LEMMA StampsKeeps ==
  ASSUME SchemaOK, NEW i \in Instances, Stamps(i)
  PROVE  SchemaOK'
<1> USE StartupAssumption
<1> DEFINE s == at[i].script
<1>1. /\ stage[i] = "migrating" /\ at[i].statement > Statements
      /\ stamped' = s
      /\ at' = [at EXCEPT ![i] = [script |-> s + 1, statement |-> 1]]
      /\ stage' = [stage EXCEPT ![i] = IF s = Newest[i] THEN "serving" ELSE @]
      /\ UNCHANGED <<applied, left>>
  BY DEF Stamps
<1>2. stamped \in Nat /\ s \in Nat \ {0} /\ at[i].statement \in 1..Statements + 1
  BY DEF SchemaOK, SchemaTypes
<1>3. Inside(i)
  BY <1>1, <1>2 DEF Inside
<1>4. /\ s = stamped + 1 /\ s <= Newest[i] /\ Newest[i] \in Nat
      /\ \A k \in 1..Statements : <<s, k>> \in applied
  BY <1>1, <1>2, <1>3 DEF SchemaOK, MigratingOK
<1>5. /\ SchemaTypes'
      /\ at'[i] = [script |-> s + 1, statement |-> 1]
      /\ \A j \in Instances \ {i} : at'[j] = at[j] /\ stage'[j] = stage[j]
  BY <1>1, <1>2 DEF SchemaOK, SchemaTypes
<1>6. \A j \in Instances : ~Inside(j)'
  BY <1>3, <1>5 DEF SchemaOK, OneInside, Inside
<1>7. MigratingOK'
  <2> SUFFICES ASSUME NEW j \in Instances, stage'[j] = "migrating"
               PROVE  at'[j].script <= stamped' + 1 /\ at'[j].script <= Newest[j]
    BY <1>6 DEF MigratingOK
  <2>1. CASE j = i
    BY <1>1, <1>2, <1>4, <1>5, <2>1 DEF SchemaOK, SchemaTypes
  <2>2. CASE j # i
    BY <1>1, <1>2, <1>4, <1>5, <2>2 DEF SchemaOK, SchemaTypes, MigratingOK
  <2> QED
    BY <2>1, <2>2
<1>8. ScriptsOK'
  <2>1. \A r \in 1..stamped' : \A k \in 1..Statements : <<r, k>> \in applied'
    <3> TAKE r \in 1..stamped'
    <3>1. r \in 1..stamped \/ r = s
      BY <1>1, <1>2, <1>4
    <3> QED
      BY <1>1, <1>4, <3>1 DEF SchemaOK, ScriptsOK
  <2>2. \A r \in Nat, k \in 1..Statements :
          <<r, k>> \in applied => r <= stamped + 1 /\ \A j \in 1..k : <<r, j>> \in applied
    BY DEF SchemaOK, ScriptsOK
  <2>3. \A k \in 1..Statements : <<stamped' + 1, k>> \notin applied
    BY <1>1, <1>2, <1>4, <2>2
  <2>4. \A r \in Nat : r <= stamped + 1 => r <= stamped' + 1
    BY <1>1, <1>2, <1>4
  <2> QED
    BY <1>1, <2>1, <2>2, <2>3, <2>4 DEF ScriptsOK
<1>9. \A j \in Instances : stage'[j] = "serving" => stamped' >= Newest[j]
  <2> TAKE j \in Instances
  <2>1. CASE j = i
    BY <1>1, <1>2, <1>4, <2>1 DEF SchemaOK, SchemaTypes
  <2>2. CASE j # i
    BY <1>1, <1>2, <1>4, <1>5, <2>2 DEF SchemaOK
  <2> QED
    BY <2>1, <2>2
<1> QED
  BY <1>5, <1>6, <1>7, <1>8, <1>9 DEF SchemaOK, OneInside

\* An instance that starts, fails or dies leaves the database alone; one that fails was not inside.
LEMMA StagesKeep ==
  ASSUME SchemaOK, NEW i \in Instances, Starts(i) \/ MigrationFails(i) \/ Dies(i)
  PROVE  SchemaOK'
<1> USE StartupAssumption
<1>1. UNCHANGED <<stamped, applied>> /\ left' \in BOOLEAN /\ (left => left')
  BY DEF Starts, MigrationFails, Dies, SchemaOK, SchemaTypes, Inside
<1>2. /\ SchemaTypes'
      /\ \A j \in Instances \ {i} : at'[j] = at[j] /\ stage'[j] = stage[j]
  BY <1>1 DEF Starts, MigrationFails, Dies, SchemaOK, SchemaTypes
<1>3. /\ stage'[i] = "migrating" =>
           at'[i] = [script |-> stamped + 1, statement |-> 1] /\ stamped < Newest[i]
      /\ stage'[i] = "serving" => stamped = Newest[i]
  BY DEF Starts, IsUpToDate, MigrationFails, Dies, SchemaOK, SchemaTypes
<1>4. ~Inside(i)' /\ \A j \in Instances \ {i} : Inside(j)' <=> Inside(j)
  BY <1>2, <1>3 DEF Inside
<1>5. Inside(i) => left'
  <2>1. CASE Starts(i)
    BY <2>1 DEF Starts, Inside
  <2>2. CASE MigrationFails(i)
    <3>1. at[i].statement \in 1..Statements /\ NextOf(i) \in applied
      BY <2>2 DEF MigrationFails, AtStatement, SchemaOK, SchemaTypes
    <3>2. ~Inside(i)
      BY <3>1 DEF NextOf, Inside, SchemaOK, MigratingOK
    <3> QED
      BY <3>2
  <2>3. CASE Dies(i)
    BY <2>3 DEF Dies
  <2> QED
    BY <2>1, <2>2, <2>3
<1>6. MigratingOK'
  <2> SUFFICES ASSUME NEW j \in Instances, stage'[j] = "migrating"
               PROVE  /\ at'[j].script <= stamped' + 1 /\ at'[j].script <= Newest[j]
                      /\ Inside(j)' =>
                           /\ at'[j].script = stamped' + 1
                           /\ \A k \in 1..Statements :
                                <<at'[j].script, k>> \in applied' <=> k < at'[j].statement
    BY DEF MigratingOK
  <2>1. CASE j = i
    BY <1>1, <1>3, <1>4, <2>1 DEF SchemaOK, SchemaTypes
  <2>2. CASE j # i
    BY <1>1, <1>2, <1>4, <2>2 DEF SchemaOK, MigratingOK
  <2> QED
    BY <2>1, <2>2
<1>7. OneInside'
  BY <1>4 DEF SchemaOK, OneInside
<1>8. ScriptsOK'
  BY <1>1, <1>4, <1>5 DEF SchemaOK, ScriptsOK
<1>9. \A j \in Instances : stage'[j] = "serving" => stamped' >= Newest[j]
  BY <1>1, <1>2, <1>3 DEF SchemaOK, SchemaTypes
<1> QED
  BY <1>2, <1>6, <1>7, <1>8, <1>9 DEF SchemaOK

LEMMA SchemaKept ==
  ASSUME SchemaOK, SchemaSteps
  PROVE  SchemaOK'
BY MigratesKeeps, StampsKeeps, StagesKeep DEF SchemaSteps

\* The first client there is: nobody has one yet, and no copy is left to close.
LEMMA FirstClient ==
  ASSUME ClientOK, NEW t \in Tasks, asking[t] # "closing", http = NoClient,
         http' = New, built' = New, open' = open \cup {New}, Gets(t, New), UNCHANGED closing
  PROVE  ClientOK'
<1> USE StartupAssumption
<1>1. New \in Nat /\ New \notin 1..built /\ 1..New = (1..built) \cup {New}
  BY DEF New, ClientOK, ClientsNumbered
<1>2. asking' = [asking EXCEPT ![t] = "got"] /\ held' = [held EXCEPT ![t] = New]
  BY DEF Gets
<1>3. ClientsNumbered'
  BY <1>1, <1>2 DEF ClientOK, ClientsNumbered
<1>4. CopiesAreSpare'
  BY <1>1, <1>2 DEF ClientOK, ClientsNumbered, CopiesAreSpare
<1>5. ASSUME ~closing PROVE OneClient'
  <2>1. \A u \in Tasks : asking[u] # "closing" /\ asking[u] # "got"
    BY <1>5 DEF ClientOK, CopiesAreSpare, OneClient
  <2>2. open = {}
    BY <1>5, <2>1 DEF ClientOK, OneClient
  <2>3. {u \in Tasks : asking'[u] = "closing"} = {}
    BY <1>2, <2>1 DEF ClientOK, ClientsNumbered
  <2>4. New # NoClient
    BY <1>1
  <2>5. \A u \in Tasks : asking'[u] = "got" => held'[u] = http' /\ http' # NoClient
    BY <1>2, <2>1, <2>4 DEF ClientOK, ClientsNumbered
  <2>6. open' = ({http'} \ {NoClient})
                  \cup {held'[u] : u \in {v \in Tasks : asking'[v] = "closing"}}
    BY <2>2, <2>3, <2>4
  <2> QED
    BY <2>5, <2>6 DEF OneClient
<1>6. ASSUME closing PROVE OneClient'
  BY <1>6 DEF OneClient
<1> QED
  BY <1>3, <1>4, <1>5, <1>6 DEF ClientOK

\* A task that takes the client there is.
LEMMA SharedClient ==
  ASSUME ClientOK, NEW t \in Tasks, asking[t] = "idle", http # NoClient, Gets(t, http),
         UNCHANGED <<http, built, open, closing>>
  PROVE  ClientOK'
<1>1. asking' = [asking EXCEPT ![t] = "got"] /\ held' = [held EXCEPT ![t] = http]
  BY DEF Gets
<1>2. ClientsNumbered'
  BY <1>1 DEF ClientOK, ClientsNumbered
<1>3. CopiesAreSpare'
  BY <1>1 DEF ClientOK, ClientsNumbered, CopiesAreSpare
<1>4. Copies' = Copies
  BY <1>1 DEF Copies, ClientOK, ClientsNumbered
<1>5. OneClient'
  BY <1>1, <1>4 DEF ClientOK, ClientsNumbered, OneClient, Copies
<1> QED
  BY <1>2, <1>3, <1>5 DEF ClientOK

\* A copy that came too late is a spare one.
LEMMA LateCopy ==
  ASSUME ClientOK, NEW t \in Tasks, asking[t] = "building", http # NoClient,
         built' = New, open' = open \cup {New},
         asking' = [asking EXCEPT ![t] = "closing"], held' = [held EXCEPT ![t] = New],
         UNCHANGED <<http, closing>>
  PROVE  ClientOK'
<1> USE StartupAssumption
<1>1. New \in Nat /\ New \notin 1..built /\ 1..New = (1..built) \cup {New}
  BY DEF New, ClientOK, ClientsNumbered
<1>2. ClientsNumbered'
  BY <1>1 DEF ClientOK, ClientsNumbered
<1>3. http' # New
  BY <1>1 DEF ClientOK, ClientsNumbered
<1>4. CopiesAreSpare'
  <2>1. \A u \in Tasks : asking'[u] = "closing" =>
          held'[u] \in 1..built' /\ held'[u] # http' /\ (closing' \/ http' # NoClient)
    BY <1>1, <1>3 DEF ClientOK, ClientsNumbered, CopiesAreSpare
  <2>2. \A u \in Tasks : u # t /\ asking'[u] = "closing" => held'[u] # New
    BY <1>1 DEF ClientOK, ClientsNumbered, CopiesAreSpare
  <2>3. \A u, v \in Tasks :
          asking'[u] = "closing" /\ asking'[v] = "closing" /\ held'[u] = held'[v] => u = v
    BY <2>2 DEF ClientOK, ClientsNumbered, CopiesAreSpare
  <2> QED
    BY <2>1, <2>3 DEF CopiesAreSpare
<1>5. Copies' = Copies \cup {New}
  <2>1. \A u \in Tasks : u # t => (asking'[u] = asking[u] /\ held'[u] = held[u])
    BY DEF ClientOK, ClientsNumbered
  <2>2. asking'[t] = "closing" /\ held'[t] = New
    BY DEF ClientOK, ClientsNumbered
  <2> QED
    BY <2>1, <2>2 DEF Copies
<1>6. OneClient'
  BY <1>5 DEF ClientOK, ClientsNumbered, OneClient, Copies
<1> QED
  BY <1>2, <1>4, <1>6 DEF ClientOK

\* A spare copy is closed.
LEMMA CopyClosed ==
  ASSUME ClientOK, NEW t \in Tasks, ClosesCopy(t)
  PROVE  ClientOK'
<1>1. /\ asking[t] = "closing" /\ open' = open \ {held[t]}
      /\ asking' = [asking EXCEPT ![t] = "got"] /\ held' = [held EXCEPT ![t] = http]
      /\ UNCHANGED <<http, built, closing>>
  BY DEF ClosesCopy, Gets
<1>2. ClientsNumbered'
  BY <1>1 DEF ClientOK, ClientsNumbered
<1>3. CopiesAreSpare'
  BY <1>1 DEF ClientOK, ClientsNumbered, CopiesAreSpare
<1>4. Copies' = Copies \ {held[t]}
  <2>1. \A u \in Tasks : u # t => (asking'[u] = asking[u] /\ held'[u] = held[u])
    BY <1>1 DEF ClientOK, ClientsNumbered
  <2>2. asking'[t] # "closing"
    BY <1>1 DEF ClientOK, ClientsNumbered
  <2>3. \A u \in Tasks : u # t /\ asking[u] = "closing" => held[u] # held[t]
    BY <1>1 DEF ClientOK, CopiesAreSpare
  <2> QED
    BY <2>1, <2>2, <2>3 DEF Copies
<1>5. OneClient'
  <2>1. ASSUME ~closing'
        PROVE  /\ \A u \in Tasks : asking'[u] = "got" => held'[u] = http' /\ http' # NoClient
               /\ open' = ({http'} \ {NoClient}) \cup Copies'
    <3>1. http # NoClient /\ held[t] # http
      BY <1>1, <2>1 DEF ClientOK, CopiesAreSpare
    <3>2. open = {http} \cup Copies
      BY <1>1, <2>1, <3>1 DEF ClientOK, OneClient, Copies
    <3>3. open' = {http} \cup Copies'
      BY <1>1, <1>4, <3>1, <3>2
    <3>4. \A u \in Tasks : asking'[u] = "got" => held'[u] = http'
      BY <1>1, <2>1 DEF ClientOK, ClientsNumbered, OneClient
    <3> QED
      BY <1>1, <3>1, <3>3, <3>4
  <2> QED
    BY <2>1 DEF OneClient, Copies
<1> QED
  BY <1>2, <1>3, <1>5 DEF ClientOK

LEMMA ClientsKept ==
  ASSUME ClientOK, ClientSteps
  PROVE  ClientOK'
<1>1. ASSUME NEW t \in Tasks, AsksOnLoop(t) PROVE ClientOK'
  <2>1. CASE http = NoClient
    BY <1>1, <2>1, FirstClient DEF AsksOnLoop
  <2>2. CASE http # NoClient
    BY <1>1, <2>2, SharedClient DEF AsksOnLoop
  <2> QED
    BY <2>1, <2>2
<1>2. ASSUME NEW t \in Tasks, AsksInThread(t) PROVE ClientOK'
  <2>1. CASE http = NoClient
    <3>1. asking' = [asking EXCEPT ![t] = "building"] /\ asking[t] = "idle"
          /\ UNCHANGED <<http, built, open, held, closing>>
      BY <1>2, <2>1 DEF AsksInThread
    <3>2. ClientsNumbered' /\ CopiesAreSpare'
      BY <3>1 DEF ClientOK, ClientsNumbered, CopiesAreSpare
    <3>3. Copies' = Copies
      BY <3>1 DEF Copies, ClientOK, ClientsNumbered
    <3>4. OneClient'
      BY <3>1, <3>3 DEF ClientOK, ClientsNumbered, OneClient, Copies
    <3> QED
      BY <3>2, <3>4 DEF ClientOK
  <2>2. CASE http # NoClient
    BY <1>2, <2>2, SharedClient DEF AsksInThread
  <2> QED
    BY <2>1, <2>2
<1>3. ASSUME NEW t \in Tasks, Adopts(t) PROVE ClientOK'
  <2>1. CASE http = NoClient
    BY <1>3, <2>1, FirstClient DEF Adopts
  <2>2. CASE http # NoClient
    BY <1>3, <2>2, LateCopy DEF Adopts
  <2> QED
    BY <2>1, <2>2
<1>4. CASE HttpCloseBegins
  BY <1>4 DEF HttpCloseBegins, ClientOK, ClientsNumbered, CopiesAreSpare, OneClient
<1>5. CASE HttpCloses
  BY <1>5, StartupAssumption
     DEF HttpCloses, ClientOK, ClientsNumbered, CopiesAreSpare, OneClient
<1> QED
  BY <1>1, <1>2, <1>3, <1>4, <1>5, CopyClosed DEF ClientSteps

-----------------------------------------------------------------------------
\* Whatever races at a start and wherever a process dies, an instance serves only on a database that
\* has every statement of its scripts, one process at most is inside a script, a script is left
\* begun only by a process that died inside it, and the tasks of a serving process share one client
\* (lifespan.py, migrate.py, state.py).
THEOREM StartsWhole == StartSpec => []StartupInv
<1>1. StartInit => SchemaOK /\ ClientOK
  <2> SUFFICES ASSUME StartInit PROVE SchemaOK /\ ClientOK
    OBVIOUS
  <2>1. SchemaOK
    <3>1. SchemaTypes
      <4>1. [script |-> 1, statement |-> 1] \in [script : Nat \ {0}, statement : 1..Statements + 1]
        BY StartupAssumption
      <4> QED
        BY <4>1 DEF StartInit, SchemaTypes
    <3>2. \A i \in Instances : stage[i] = "down" /\ ~Inside(i)
      BY DEF StartInit, Inside
    <3>3. MigratingOK /\ OneInside /\ ScriptsOK
      BY <3>2 DEF StartInit, MigratingOK, OneInside, ScriptsOK
    <3> QED
      BY <3>1, <3>2, <3>3 DEF SchemaOK
  <2>2. ClientsNumbered /\ CopiesAreSpare
    BY DEF StartInit, ClientsNumbered, CopiesAreSpare
  <2>3. OneClient
    BY DEF StartInit, OneClient
  <2> QED
    BY <2>1, <2>2, <2>3 DEF ClientOK
<1>2. SchemaOK /\ ClientOK
      /\ [(SchemaSteps /\ UNCHANGED httpVars) \/ (ClientSteps /\ UNCHANGED schemaVars)]_startVars
      => (SchemaOK /\ ClientOK)'
  <2>1. ASSUME SchemaOK, UNCHANGED schemaVars PROVE SchemaOK'
    BY <2>1 DEF schemaVars, SchemaOK, SchemaTypes, MigratingOK, OneInside, ScriptsOK, Inside
  <2>2. ASSUME ClientOK, UNCHANGED httpVars PROVE ClientOK'
    BY <2>2 DEF httpVars, ClientOK, ClientsNumbered, CopiesAreSpare, OneClient
  <2> QED
    BY <2>1, <2>2, SchemaKept, ClientsKept DEF startVars
<1>3. SchemaOK /\ ClientOK => StartupInv
  <2> SUFFICES ASSUME SchemaOK, ClientOK PROVE StartupInv
    OBVIOUS
  <2>1. ASSUME NEW i \in Instances, stage[i] = "serving"
        PROVE  stamped >= Newest[i] /\ (1..Newest[i]) \X (1..Statements) \subseteq applied
    <3>1. stamped >= Newest[i] /\ stamped \in Nat /\ Newest[i] \in Nat
      BY <2>1, StartupAssumption DEF SchemaOK, SchemaTypes
    <3>2. \A s \in 1..Newest[i] : s \in 1..stamped
      BY <3>1
    <3> QED
      BY <3>1, <3>2 DEF SchemaOK, ScriptsOK
  <2>2. MigrationsResume
    BY DEF MigrationsResume, SchemaOK, OneInside, ScriptsOK, MigratingOK, Inside
  <2> QED
    BY <2>1, <2>2 DEF ClientOK, StartupInv, ServingIsMigrated
<1> QED
  BY <1>1, <1>2, <1>3, PTL DEF StartSpec

-----------------------------------------------------------------------------
(* Documents, chunks and vectors *)

Chunk(d, n)  == <<d, n>> \in chunks
Vector(d, n) == <<d, n>> \in vectors

Jobs == [Documents -> [state : {"none", "running", "succeeded", "failed", "lost"},
                       step : Steps, total : 0..MaxChunks, done : 0..MaxChunks]]
Rows == [Documents -> [status : Statuses, count : 0..MaxChunks, file : BOOLEAN]]

Early == {"parse", "count", "replace"}

\* Where a job is, as long as its document has not been taken from it: before it replaces
\* the chunks there is nothing; afterwards all chunks, and the vectors it has counted.
RunningOK(d) ==
  ingest[d].state = "running" /\ d \notin cut =>
    /\ Present(d)
    /\ ingest[d].step \in Early =>
         ingest[d].done = 0 /\ \A n \in 1..MaxChunks : ~Chunk(d, n)
    /\ ingest[d].step \notin Early =>
         /\ \A n \in 1..MaxChunks : Chunk(d, n) <=> n <= ingest[d].total
         /\ \A n \in 1..ingest[d].done : Vector(d, n)
    /\ ingest[d].step = "ready" => ingest[d].done = ingest[d].total

\* A document that has had no job is not there, and one that is ready is whole.
RestingOK(d) ==
  /\ ingest[d].state = "none" =>
       /\ ~Present(d) /\ d \notin cut
       /\ ingest[d].step = "parse" /\ ingest[d].done = 0
       /\ \A n \in 1..MaxChunks : ~Chunk(d, n) /\ ~Vector(d, n)
  /\ d \in cut => ~Present(d)
  /\ document[d].status = "ready" =>
       /\ ingest[d].state = "succeeded"
       /\ \A n \in 1..MaxChunks : Chunk(d, n) <=> n <= document[d].count
       /\ \A n \in 1..document[d].count : Vector(d, n)
  /\ d \notin cut => \A n \in 1..MaxChunks : Vector(d, n) => Chunk(d, n)

DocumentOK(d) == RunningOK(d) /\ RestingOK(d)

IInv == KnowTypeOK /\ \A d \in Documents : DocumentOK(d)

-----------------------------------------------------------------------------
\* A document is left as it is by what does not touch its own rows.
LEMMA Untouched ==
  ASSUME NEW d \in Documents, DocumentOK(d),
         document'[d] = document[d], ingest'[d] = ingest[d], (d \in cut') <=> (d \in cut),
         \A n \in 1..MaxChunks : (Chunk(d, n)' <=> Chunk(d, n)) /\ (Vector(d, n)' <=> Vector(d, n)),
         ingest[d].done \in 0..MaxChunks, document[d].count \in 0..MaxChunks
  PROVE  DocumentOK(d)'
<1> USE KnowledgeAssumption
<1>1. \A n \in 1..ingest[d].done : n \in 1..MaxChunks
  OBVIOUS
<1>2. \A n \in 1..document[d].count : n \in 1..MaxChunks
  OBVIOUS
<1> QED
  BY <1>1, <1>2 DEF DocumentOK, RunningOK, RestingOK, Present

\* The same for the other documents in a step of one, whose rows it alone touches.
LEMMA OthersUntouched ==
  ASSUME IInv, NEW d \in Documents,
         \A e \in Documents \ {d} : document'[e] = document[e] /\ ingest'[e] = ingest[e]
                                    /\ ((e \in cut') <=> (e \in cut)),
         \A e \in Documents \ {d}, n \in 1..MaxChunks :
           (Chunk(e, n)' <=> Chunk(e, n)) /\ (Vector(e, n)' <=> Vector(e, n))
  PROVE  \A e \in Documents \ {d} : DocumentOK(e)'
<1> SUFFICES ASSUME NEW e \in Documents \ {d} PROVE DocumentOK(e)'
  OBVIOUS
<1>1. ingest[e].done \in 0..MaxChunks /\ document[e].count \in 0..MaxChunks
  BY DEF IInv, KnowTypeOK
<1> QED
  BY <1>1, Untouched DEF IInv

\* What a step of a job that stores no rows does to the types and to the other documents.
LEMMA Reported ==
  ASSUME IInv, NEW d \in Documents, NEW status \in Statuses, NEW count \in 0..MaxChunks,
         status # "none",
         document' = document \/ Progress(d, status, count),
         ingest' \in Jobs,
         \A e \in Documents \ {d} : ingest'[e] = ingest[e],
         UNCHANGED <<collection, chunks, vectors, cut>>, table' \in BOOLEAN
  PROVE  KnowTypeOK' /\ \A e \in Documents \ {d} : DocumentOK(e)'
<1>1. /\ document' \in Rows
      /\ \A e \in Documents \ {d} : document'[e] = document[e]
      /\ \A e \in Documents : Present(e)' <=> Present(e)
  <2>1. document \in Rows
    BY DEF IInv, KnowTypeOK, Rows
  <2>2. CASE document' = document
    BY <2>1, <2>2 DEF Present
  <2>3. CASE document' = [document EXCEPT ![d].status = status, ![d].count = count] /\ Present(d)
    BY <2>1, <2>3 DEF Rows, Present
  <2> QED
    BY <2>2, <2>3 DEF Progress
<1>2. KnowTypeOK'
  BY <1>1 DEF IInv, KnowTypeOK, Jobs, Rows, Present
<1> QED
  BY <1>1, <1>2, OthersUntouched DEF Chunk, Vector

-----------------------------------------------------------------------------
(* One lemma for each kind of step. *)

LEMMA CreateKeeps == ASSUME IInv, NEW d \in Documents, CreateDocument(d) PROVE IInv'
<1>1. KnowTypeOK'
  <2>1. document' \in Rows /\ ingest' \in Jobs
    <3>1. document \in Rows /\ ingest \in Jobs
      BY DEF IInv, KnowTypeOK, Rows, Jobs
    <3>2. [status |-> "pending", count |-> 0, file |-> TRUE]
            \in [status : Statuses, count : 0..MaxChunks, file : BOOLEAN]
      BY KnowledgeAssumption DEF Statuses
    <3>3. document' \in Rows
      BY <3>1, <3>2 DEF CreateDocument, Rows
    <3>4. ingest' \in Jobs
      BY <3>1 DEF CreateDocument, Jobs
    <3> QED
      BY <3>3, <3>4
  <2>2. \A e \in Documents : Present(e) => Present(e)'
    BY DEF CreateDocument, IInv, KnowTypeOK, Present
  <2> QED
    BY <2>1, <2>2 DEF CreateDocument, IInv, KnowTypeOK, Rows, Jobs
<1>2. \A e \in Documents \ {d} : DocumentOK(e)'
  BY OthersUntouched DEF CreateDocument, IInv, KnowTypeOK, Chunk, Vector
<1>3. DocumentOK(d)'
  BY DEF CreateDocument, IInv, KnowTypeOK, DocumentOK, RunningOK, RestingOK, Present,
         Chunk, Vector, Early
<1> QED
  BY <1>1, <1>2, <1>3 DEF IInv

LEMMA FileKeeps == ASSUME IInv, NEW d \in Documents, DeleteFile(d) PROVE IInv'
<1>1. KnowTypeOK'
  BY ZenonT(60) DEF DeleteFile, IInv, KnowTypeOK, Present
<1>2. \A e \in Documents \ {d} : DocumentOK(e)'
  BY OthersUntouched DEF DeleteFile, IInv, KnowTypeOK, Chunk, Vector
<1>3. /\ document'[d].status = document[d].status /\ document'[d].count = document[d].count
      /\ UNCHANGED <<chunks, vectors, ingest, cut>>
  BY DEF DeleteFile, IInv, KnowTypeOK
<1>4. DocumentOK(d)'
  BY <1>3 DEF IInv, DocumentOK, RunningOK, RestingOK, Present, Chunk, Vector
<1> QED
  BY <1>1, <1>2, <1>4 DEF IInv

LEMMA DeleteKeeps == ASSUME IInv, NEW d \in Documents, DeleteDocument(d) PROVE IInv'
<1> USE KnowledgeAssumption
<1>1. document' \in Rows
  BY DEF DeleteDocument, IInv, KnowTypeOK, NoDocument, Rows, Statuses
<1>2. /\ document'[d].status = "none" /\ \A e \in Documents \ {d} : document'[e] = document[e]
      /\ ingest' = ingest
      /\ cut' = IF ingest[d].state = "running" THEN cut \cup {d} ELSE cut
  BY DEF DeleteDocument, IInv, KnowTypeOK, NoDocument
<1>3. \A e \in Documents \ {d} : Present(e)' <=> Present(e)
  BY <1>2 DEF Present
<1>4. KnowTypeOK'
  BY <1>1, <1>2, <1>3 DEF DeleteDocument, IInv, KnowTypeOK, Rows, Present
<1>5. \A e \in Documents \ {d} : DocumentOK(e)'
  BY <1>2, OthersUntouched DEF DeleteDocument, Chunk, Vector
<1>6. \A n \in 1..MaxChunks : ~Chunk(d, n)'
  BY DEF DeleteDocument, Chunk
<1>7. d \notin cut' => \A n \in 1..MaxChunks : ~Vector(d, n)'
  <2> SUFFICES ASSUME d \notin cut', NEW n \in 1..MaxChunks, Vector(d, n)' PROVE FALSE
    OBVIOUS
  <2>1. Vector(d, n) /\ ~Chunk(d, n)
    BY DEF DeleteDocument, Vector, Chunk
  <2>2. d \notin cut
    BY <1>2
  <2> QED
    BY <2>1, <2>2 DEF IInv, DocumentOK, RestingOK
<1>8. ingest[d].state # "none"
  BY DEF DeleteDocument, IInv, DocumentOK, RestingOK
<1>9. DocumentOK(d)'
  BY <1>2, <1>6, <1>7, <1>8 DEF DocumentOK, RunningOK, RestingOK, Present
<1> QED
  BY <1>4, <1>5, <1>9 DEF IInv

LEMMA DeleteAllKeeps == ASSUME IInv, DeleteCollection PROVE IInv'
<1> USE KnowledgeAssumption
<1>1. KnowTypeOK'
  <2>1. document' \in Rows
    BY DEF DeleteCollection, NoDocument, Rows, Statuses
  <2>2. \A d \in Documents : ~Present(d)'
    BY DEF DeleteCollection, NoDocument, Present
  <2> QED
    BY <2>1, <2>2 DEF DeleteCollection, IInv, KnowTypeOK, Rows
<1>2. ASSUME NEW d \in Documents PROVE DocumentOK(d)'
  <2>1. ~Present(d)' /\ document'[d].status = "none"
    BY DEF DeleteCollection, NoDocument, Present
  <2>2. ingest[d].state = "none" => d \notin cut'
    BY DEF DeleteCollection, IInv, DocumentOK, RestingOK
  <2>3. ingest[d].state = "none" => ingest[d].step = "parse" /\ ingest[d].done = 0
    BY DEF IInv, DocumentOK, RestingOK
  <2>4. RunningOK(d)'
    BY DEF DeleteCollection, RunningOK
  <2>5. RestingOK(d)'
    BY <2>1, <2>2, <2>3 DEF DeleteCollection, RestingOK, Chunk, Vector
  <2> QED
    BY <2>4, <2>5 DEF DocumentOK
<1> QED
  BY <1>1, <1>2 DEF IInv

\* The steps of a job that only report stay on one side of the replacement of its chunks.
LEMMA ParseKeeps == ASSUME IInv, NEW d \in Documents, IngestParses(d) PROVE IInv'
<1>1. /\ ingest' = [ingest EXCEPT ![d].step = "count"] /\ At(d, "parse") /\ Present(d)
      /\ document' = [document EXCEPT ![d].status = "parsing", ![d].count = document[d].count]
      /\ UNCHANGED <<collection, table, chunks, vectors, cut>>
  BY DEF IngestParses, Goes, Progress
<1>2. KnowTypeOK' /\ \A e \in Documents \ {d} : DocumentOK(e)'
  <2>1. ingest' \in Jobs
        /\ \A e \in Documents \ {d} : ingest'[e] = ingest[e]
    BY <1>1 DEF IInv, KnowTypeOK, Jobs, Steps
  <2>2. document[d].count \in 0..MaxChunks /\ "parsing" \in Statuses /\ table' \in BOOLEAN
    BY <1>1 DEF IInv, KnowTypeOK, Statuses
  <2>3. Progress(d, "parsing", document[d].count)
    BY <1>1 DEF Progress
  <2> QED
    BY <1>1, <2>1, <2>2, <2>3, Reported
<1>3. DocumentOK(d)'
  BY <1>1 DEF IInv, KnowTypeOK, DocumentOK, RunningOK, RestingOK, Present, At, Chunk, Vector, Early
<1> QED
  BY <1>2, <1>3 DEF IInv

LEMMA CountKeeps ==
  ASSUME IInv, NEW d \in Documents, NEW n \in 0..MaxChunks, IngestCounts(d, n) PROVE IInv'
<1>1. /\ ingest' = [ingest EXCEPT ![d].step = "replace", ![d].total = n] /\ At(d, "count")
      /\ Progress(d, "embedding", n)
      /\ UNCHANGED <<collection, table, chunks, vectors, cut>>
  BY DEF IngestCounts
<1>2. KnowTypeOK' /\ \A e \in Documents \ {d} : DocumentOK(e)'
  <2>1. ingest' \in Jobs
        /\ \A e \in Documents \ {d} : ingest'[e] = ingest[e]
    BY <1>1, ZenonT(60) DEF IInv, KnowTypeOK, Jobs, Steps
  <2>2. "embedding" \in Statuses /\ table' \in BOOLEAN
    BY <1>1 DEF IInv, KnowTypeOK, Statuses
  <2> QED
    BY <1>1, <2>1, <2>2, Reported
<1>3. DocumentOK(d)'
  BY <1>1 DEF IInv, KnowTypeOK, DocumentOK, RunningOK, RestingOK, Present, Progress, At,
              Chunk, Vector, Early
<1> QED
  BY <1>2, <1>3 DEF IInv

LEMMA EmptyKeeps == ASSUME IInv, NEW d \in Documents, IngestIsEmpty(d) PROVE IInv'
<1> USE KnowledgeAssumption
<1>1. /\ ingest' = [ingest EXCEPT ![d].state = "succeeded"] /\ At(d, "replace")
      /\ Progress(d, "ready", 0)
      /\ UNCHANGED <<collection, table, chunks, vectors, cut>>
  BY DEF IngestIsEmpty, Ended
<1>2. KnowTypeOK' /\ \A e \in Documents \ {d} : DocumentOK(e)'
  <2>1. ingest' \in Jobs
        /\ \A e \in Documents \ {d} : ingest'[e] = ingest[e]
    BY <1>1 DEF IInv, KnowTypeOK, Jobs
  <2>2. "ready" \in Statuses /\ table' \in BOOLEAN /\ 0 \in 0..MaxChunks
    BY <1>1 DEF IInv, KnowTypeOK, Statuses
  <2> QED
    BY <1>1, <2>1, <2>2, Reported
<1>3. DocumentOK(d)'
  BY <1>1 DEF IInv, KnowTypeOK, DocumentOK, RunningOK, RestingOK, Present, Progress, At,
              Chunk, Vector, Early
<1> QED
  BY <1>2, <1>3 DEF IInv

LEMMA ReplaceKeeps == ASSUME IInv, NEW d \in Documents, IngestReplaces(d) PROVE IInv'
<1> USE KnowledgeAssumption
<1>1. /\ ingest' = [ingest EXCEPT ![d].step = "table"] /\ At(d, "replace") /\ Present(d)
      /\ chunks' = {c \in chunks : c[1] # d} \cup ({d} \X (1..ingest[d].total))
      /\ UNCHANGED <<collection, table, document, vectors, cut>>
  BY DEF IngestReplaces, Goes, ChunksOf
<1>2. ingest[d].total \in 0..MaxChunks
  BY DEF IInv, KnowTypeOK
<1>3. KnowTypeOK'
  BY <1>1, <1>2 DEF IInv, KnowTypeOK, Steps, Present
<1>4. \A e \in Documents \ {d} : DocumentOK(e)'
  BY <1>1, OthersUntouched DEF IInv, KnowTypeOK, Chunk, Vector
<1>5. \A n \in 1..MaxChunks : Chunk(d, n)' <=> n <= ingest[d].total
  BY <1>1, <1>2 DEF Chunk
<1>6. d \notin cut /\ ingest[d].done = 0 /\ \A n \in 1..MaxChunks : ~Vector(d, n)
  BY <1>1 DEF IInv, DocumentOK, RunningOK, RestingOK, At, Early
<1>7. /\ ingest'[d].state = "running" /\ ingest'[d].step = "table"
      /\ ingest'[d].done = 0 /\ ingest'[d].total = ingest[d].total
  BY <1>1, <1>6 DEF IInv, KnowTypeOK, At
<1>8. document[d].status # "ready"
  BY <1>1 DEF IInv, DocumentOK, RestingOK, At
<1>9. DocumentOK(d)'
  BY <1>1, <1>5, <1>6, <1>7, <1>8 DEF DocumentOK, RunningOK, RestingOK, Present, Vector, Early
<1> QED
  BY <1>3, <1>4, <1>9 DEF IInv

LEMMA TableKeeps == ASSUME IInv, NEW d \in Documents, IngestEnsuresTable(d) PROVE IInv'
<1>1. /\ ingest' = [ingest EXCEPT ![d].step = "embed"] /\ At(d, "table") /\ table' = TRUE
      /\ UNCHANGED <<collection, document, chunks, vectors, cut>>
  BY DEF IngestEnsuresTable, Goes
<1>2. KnowTypeOK'
  BY <1>1 DEF IInv, KnowTypeOK, Steps, Present
<1>3. \A e \in Documents \ {d} : DocumentOK(e)'
  BY <1>1, OthersUntouched DEF IInv, KnowTypeOK, Chunk, Vector
<1>4. DocumentOK(d)'
  BY <1>1 DEF IInv, KnowTypeOK, DocumentOK, RunningOK, RestingOK, Present, At, Chunk, Vector, Early
<1> QED
  BY <1>2, <1>3, <1>4 DEF IInv

LEMMA UpsertKeeps == ASSUME IInv, NEW d \in Documents, IngestUpserts(d) PROVE IInv'
<1> USE KnowledgeAssumption
<1> DEFINE next == ingest[d].done + 1
<1>1. /\ ingest' = [ingest EXCEPT ![d].done = next, ![d].step = "progress"] /\ At(d, "embed")
      /\ ingest[d].done < ingest[d].total /\ vectors' = vectors \cup {<<d, next>>}
      /\ UNCHANGED <<collection, table, document, chunks, cut>>
  BY DEF IngestUpserts
<1>2. ingest[d].total \in 0..MaxChunks /\ ingest[d].done \in 0..MaxChunks
  BY DEF IInv, KnowTypeOK
<1>3. next \in 1..MaxChunks /\ next \in 0..MaxChunks /\ next <= ingest[d].total
  BY <1>1, <1>2
<1> HIDE DEF next
<1>4. KnowTypeOK'
  <2>1. ingest' \in Jobs
    BY <1>1, <1>3, ZenonT(60) DEF IInv, KnowTypeOK, Jobs, Steps
  <2>2. vectors' \subseteq Documents \X (1..MaxChunks)
    BY <1>1, <1>3 DEF IInv, KnowTypeOK
  <2> QED
    BY <1>1, <2>1, <2>2 DEF IInv, KnowTypeOK, Jobs, Present
<1>5. \A e \in Documents \ {d} : DocumentOK(e)'
  BY <1>1, OthersUntouched DEF IInv, KnowTypeOK, Chunk, Vector
<1>6. \A n \in 1..MaxChunks : Vector(d, n)' <=> Vector(d, n) \/ n = next
  BY <1>1 DEF Vector
<1>7. /\ ingest'[d].state = "running" /\ ingest'[d].step = "progress"
      /\ ingest'[d].done = next /\ ingest'[d].total = ingest[d].total
  BY <1>1 DEF IInv, KnowTypeOK, At
<1>8. document[d].status # "ready"
  BY <1>1 DEF IInv, DocumentOK, RestingOK, At
<1>9. \A n \in 1..next : n \in 1..MaxChunks /\ (n = next \/ n \in 1..ingest[d].done)
  BY <1>2, <1>3 DEF next
<1>10. RunningOK(d)'
  BY <1>1, <1>3, <1>6, <1>7, <1>9 DEF IInv, DocumentOK, RunningOK, Present, At, Chunk, Early
<1>11. RestingOK(d)'
  <2>1. d \notin cut => Chunk(d, next)
    BY <1>1, <1>3 DEF IInv, DocumentOK, RunningOK, At, Early
  <2> QED
    BY <1>1, <1>6, <1>7, <1>8, <2>1 DEF IInv, DocumentOK, RestingOK, Present, Chunk
<1> QED
  BY <1>4, <1>5, <1>10, <1>11 DEF IInv, DocumentOK

LEMMA ProgressKeeps == ASSUME IInv, NEW d \in Documents, IngestProgresses(d) PROVE IInv'
<1> DEFINE step == IF ingest[d].done = ingest[d].total THEN "ready" ELSE "embed"
<1>1. /\ ingest' = [ingest EXCEPT ![d].step = step] /\ At(d, "progress")
      /\ Progress(d, "embedding", ingest[d].total)
      /\ UNCHANGED <<collection, table, chunks, vectors, cut>>
  BY DEF IngestProgresses, Goes
<1>2. KnowTypeOK' /\ \A e \in Documents \ {d} : DocumentOK(e)'
  <2>1. ingest' \in Jobs
        /\ \A e \in Documents \ {d} : ingest'[e] = ingest[e]
    BY <1>1, SMTT(30) DEF IInv, KnowTypeOK, Jobs, Steps
  <2>2. "embedding" \in Statuses /\ table' \in BOOLEAN /\ ingest[d].total \in 0..MaxChunks
    BY <1>1 DEF IInv, KnowTypeOK, Statuses
  <2> QED
    BY <1>1, <2>1, <2>2, Reported
<1>3. DocumentOK(d)'
  BY <1>1 DEF IInv, KnowTypeOK, DocumentOK, RunningOK, RestingOK, Present, Progress, At,
              Chunk, Vector, Early
<1> QED
  BY <1>2, <1>3 DEF IInv

LEMMA ReadyKeeps == ASSUME IInv, NEW d \in Documents, IngestIsReady(d) PROVE IInv'
<1>1. /\ ingest' = [ingest EXCEPT ![d].state = "succeeded"] /\ At(d, "ready")
      /\ Progress(d, "ready", ingest[d].total)
      /\ UNCHANGED <<collection, table, chunks, vectors, cut>>
  BY DEF IngestIsReady, Ended
<1>2. KnowTypeOK' /\ \A e \in Documents \ {d} : DocumentOK(e)'
  <2>1. ingest' \in Jobs
        /\ \A e \in Documents \ {d} : ingest'[e] = ingest[e]
    BY <1>1 DEF IInv, KnowTypeOK, Jobs
  <2>2. "ready" \in Statuses /\ table' \in BOOLEAN /\ ingest[d].total \in 0..MaxChunks
    BY <1>1 DEF IInv, KnowTypeOK, Statuses
  <2> QED
    BY <1>1, <2>1, <2>2, Reported
<1>3. DocumentOK(d)'
  BY <1>1 DEF IInv, KnowTypeOK, DocumentOK, RunningOK, RestingOK, Present, Progress, At,
              Chunk, Vector, Early
<1> QED
  BY <1>2, <1>3 DEF IInv

LEMMA FailureKeeps == ASSUME IInv, NEW d \in Documents, IngestFails(d) PROVE IInv'
<1>1. KnowTypeOK'
  BY DEF IngestFails, Ended, IInv, KnowTypeOK, Present
<1>2. \A e \in Documents \ {d} : DocumentOK(e)'
  BY OthersUntouched DEF IngestFails, Ended, IInv, KnowTypeOK, Chunk, Vector
<1>3. DocumentOK(d)'
  BY DEF IngestFails, Ended, IInv, KnowTypeOK, DocumentOK, RunningOK, RestingOK, Present,
         Chunk, Vector
<1> QED
  BY <1>1, <1>2, <1>3 DEF IInv

LEMMA RestartKeeps == ASSUME IInv, ProcessRestarts PROVE IInv'
<1>1. /\ ingest' = [d \in Documents |-> IF ingest[d].state = "running"
                                        THEN [ingest[d] EXCEPT !.state = "lost"] ELSE ingest[d]]
      /\ UNCHANGED <<collection, table, document, chunks, vectors, cut>>
  BY DEF ProcessRestarts
<1>2. KnowTypeOK'
  BY <1>1 DEF IInv, KnowTypeOK, Present
<1>3. ASSUME NEW d \in Documents PROVE DocumentOK(d)'
  <2>1. CASE ingest[d].state = "running"
    BY <1>1, <2>1 DEF IInv, KnowTypeOK, DocumentOK, RunningOK, RestingOK, Present, Chunk, Vector
  <2>2. CASE ingest[d].state # "running"
    <3>1. ingest'[d] = ingest[d]
      BY <1>1, <2>2
    <3> QED
      BY <1>1, <3>1, Untouched DEF IInv, KnowTypeOK, Chunk, Vector
  <2> QED
    BY <2>1, <2>2
<1> QED
  BY <1>2, <1>3 DEF IInv

-----------------------------------------------------------------------------
LEMMA Inductive == IInv /\ [KnowNext]_knowVars => IInv'
<1> SUFFICES ASSUME IInv, [KnowNext]_knowVars PROVE IInv'
  OBVIOUS
<1>1. CASE KnowNext
  BY <1>1, CreateKeeps, FileKeeps, DeleteKeeps, DeleteAllKeeps, ParseKeeps, CountKeeps, EmptyKeeps,
     ReplaceKeeps, TableKeeps, UpsertKeeps, ProgressKeeps, ReadyKeeps, FailureKeeps, RestartKeeps
     DEF KnowNext
<1>2. CASE UNCHANGED knowVars
  BY <1>2 DEF knowVars, IInv, KnowTypeOK, DocumentOK, RunningOK, RestingOK, Present, Chunk, Vector
<1> QED
  BY <1>1, <1>2

LEMMA Whole == IInv => CollectionsInv
<1> SUFFICES ASSUME IInv PROVE ReadyDocumentsAreWhole /\ HitsAreCitable
  BY DEF IInv, CollectionsInv
<1> USE KnowledgeAssumption
<1>1. chunks \subseteq Documents \X (1..MaxChunks) /\ vectors \subseteq Documents \X (1..MaxChunks)
  BY DEF IInv, KnowTypeOK
<1>2. ASSUME NEW d \in Documents, document[d].status = "ready"
      PROVE  /\ ChunksOf(d, document[d].count) = {c \in chunks : c[1] = d}
             /\ ChunksOf(d, document[d].count) \subseteq vectors
  <2>1. document[d].count \in 0..MaxChunks
    BY DEF IInv, KnowTypeOK
  <2>2. /\ \A n \in 1..MaxChunks : Chunk(d, n) <=> n <= document[d].count
        /\ \A n \in 1..document[d].count : Vector(d, n)
    BY <1>2 DEF IInv, DocumentOK, RestingOK
  <2>3. ASSUME NEW c \in chunks, c[1] = d PROVE c \in ChunksOf(d, document[d].count)
    <3>1. PICK n \in 1..MaxChunks : c = <<d, n>>
      BY <1>1, <2>3
    <3> QED
      BY <2>1, <2>2, <3>1 DEF Chunk, ChunksOf
  <2>4. ASSUME NEW c \in ChunksOf(d, document[d].count) PROVE c \in chunks /\ c[1] = d /\ c \in vectors
    <3>1. PICK n \in 1..document[d].count : c = <<d, n>>
      BY DEF ChunksOf
    <3> QED
      BY <2>1, <2>2, <3>1 DEF Chunk, Vector
  <2> QED
    BY <2>3, <2>4
<1>3. ASSUME NEW c \in vectors, c \notin chunks PROVE c[1] \in cut
  <2>1. PICK d \in Documents, n \in 1..MaxChunks : c = <<d, n>>
    BY <1>1
  <2> QED
    BY <1>3, <2>1 DEF IInv, DocumentOK, RestingOK, Chunk, Vector
<1> QED
  BY <1>2, <1>3 DEF ReadyDocumentsAreWhole, HitsAreCitable, Retrieved

\* The rows and the vectors of a knowledge base agree in every reachable state: a document
\* that says ready is whole, and a hit that cannot be cited comes only from a document that was
\* deleted under its job (services/rag_ingest.py, api/routes/rag.py).
THEOREM CollectionsAgree == KnowSpec => []CollectionsInv
<1>1. KnowInit => IInv
  BY KnowledgeAssumption
     DEF KnowInit, IInv, KnowTypeOK, DocumentOK, RunningOK, RestingOK, Present, NoDocument,
         Statuses, Steps, Chunk, Vector, Early
<1> QED
  BY <1>1, Inductive, Whole, PTL DEF KnowSpec

-----------------------------------------------------------------------------
(* The caches: the inductive invariant *)

LookupStates ==
  {Idle} \cup [at : {"waits"}, key : Settings, overlapped : BOOLEAN]
         \cup [at : {"read"}, key : Settings, version : 0..MaxSaves, overlapped : BOOLEAN]
SaverStates == {Idle} \cup [at : {"committed"}, key : Settings]
Entries == [version : 0..MaxSaves, overlapped : BOOLEAN]

StoredTypes ==
  /\ saved \in [Settings -> 0..MaxSaves]
  /\ lookup \in [Lookups -> LookupStates]
  /\ saver \in [Savers -> SaverStates]
  /\ saves \in 0..MaxSaves

\* The order of use is that of the cached parameters.
UseIsOrdered ==
  /\ recent \in Seq(ParamKeys)
  /\ ToSet(recent) = DOMAIN cached \cap ParamKeys
  /\ IsInjective(recent) /\ Len(recent) <= CacheEntries

CachedTypes ==
  /\ DOMAIN cached \subseteq Settings
  /\ \A k \in DOMAIN cached : cached[k] \in Entries

IsSaving(k) == \E s \in Savers : saver[s] # Idle /\ saver[s].key = k

\* What a lookup has read is what a save since then did not replace, unless it knows.
ReadsAreCurrent ==
  \A l \in Lookups : lookup[l].at = "read" =>
    \/ lookup[l].version = saved[lookup[l].key]
    \/ lookup[l].overlapped
    \/ IsSaving(lookup[l].key)

CachedAreCurrent ==
  \A k \in DOMAIN cached :
    cached[k].version = saved[k] \/ cached[k].overlapped \/ IsSaving(k)

SetIInv == StoredTypes /\ UseIsOrdered /\ CachedTypes /\ ReadsAreCurrent /\ CachedAreCurrent

LEMMA SetIInvImplies == ASSUME SetIInv PROVE SettingsInv
BY DEF SetIInv, StoredTypes, UseIsOrdered, CachedTypes, CachedAreCurrent, IsSaving, Entries,
       SettingsInv, CachesTypeOK, SettingsAreCurrent

-----------------------------------------------------------------------------
(* The order of use, as a sequence without repetitions *)

LEMMA RemovingOne ==
  ASSUME NEW S, NEW seq \in Seq(S), NEW i \in 1..Len(seq)
  PROVE  /\ RemoveAt(seq, i) \in Seq(S)
         /\ Len(RemoveAt(seq, i)) = Len(seq) - 1
         /\ \A j \in 1..Len(seq) - 1 : RemoveAt(seq, i)[j] = seq[IF j < i THEN j ELSE j + 1]
<1>1. Len(seq) \in Nat
  BY LenProperties
<1>. DEFINE a == SubSeq(seq, 1, i - 1)
            b == SubSeq(seq, i + 1, Len(seq))
<1>2. a \in Seq(S) /\ Len(a) = i - 1 /\ \A j \in 1..i - 1 : a[j] = seq[j]
  BY <1>1, SubSeqProperties
<1>3. b \in Seq(S) /\ Len(b) = Len(seq) - i /\ \A j \in 1..Len(seq) - i : b[j] = seq[i + j]
  BY <1>1, SubSeqProperties
<1>4. RemoveAt(seq, i) = a \o b
  BY DEF RemoveAt
<1>. HIDE DEF a, b
<1>5. /\ a \o b \in Seq(S) /\ Len(a \o b) = Len(seq) - 1
      /\ \A j \in 1..Len(a) + Len(b) : (a \o b)[j] = IF j <= Len(a) THEN a[j] ELSE b[j - Len(a)]
  <2>1. Len(a) + Len(b) = Len(seq) - 1
    BY <1>1, <1>2, <1>3
  <2>. QED  BY <1>2, <1>3, <2>1, ConcatProperties
<1>6. ASSUME NEW j \in 1..Len(seq) - 1
      PROVE  (a \o b)[j] = seq[IF j < i THEN j ELSE j + 1]
  <2>1. CASE j < i
    <3>1. j \in 1..i - 1
      BY <1>1, <2>1
    <3>2. j \in 1..Len(a) + Len(b) /\ j <= Len(a)
      <4>1. Len(a) = i - 1 /\ Len(b) \in Nat
        BY <1>1, <1>2, <1>3
      <4>. QED  BY <1>1, <3>1, <4>1
    <3>3. (a \o b)[j] = a[j]
      BY <1>5, <3>2
    <3>4. a[j] = seq[j]
      BY <1>2, <3>1
    <3>. QED  BY <2>1, <3>3, <3>4
  <2>2. CASE ~(j < i)
    <3>1. j - (i - 1) \in 1..Len(seq) - i /\ i + (j - (i - 1)) = j + 1
      BY <1>1, <2>2
    <3>2. j \in 1..Len(a) + Len(b) /\ ~(j <= Len(a)) /\ Len(a) = i - 1
      BY <1>1, <1>2, <1>3, <2>2
    <3>3. (a \o b)[j] = b[j - (i - 1)]
      BY <1>5, <3>2
    <3>4. b[j - (i - 1)] = seq[j + 1]
      BY <1>3, <3>1
    <3>. QED  BY <2>2, <3>3, <3>4
  <2>. QED  BY <2>1, <2>2
<1>. QED  BY <1>4, <1>5, <1>6

LEMMA WithoutKey ==
  ASSUME NEW S, NEW seq \in Seq(S), IsInjective(seq), NEW k
  PROVE  /\ Without(seq, k) \in Seq(S) /\ IsInjective(Without(seq, k))
         /\ ToSet(Without(seq, k)) = ToSet(seq) \ {k}
         /\ Len(Without(seq, k)) <= Len(seq)
         /\ k \in ToSet(seq) => Len(Without(seq, k)) = Len(seq) - 1
<1>0. Len(seq) \in Nat /\ DOMAIN seq = 1..Len(seq)
  BY LenProperties
<1>1. CASE \A i \in DOMAIN seq : seq[i] # k
  <2>1. Without(seq, k) = seq /\ k \notin ToSet(seq)
    BY <1>1 DEF Without, ToSet
  <2>2. ToSet(seq) = ToSet(seq) \ {k}
    BY <2>1
  <2>3. Len(seq) <= Len(seq)
    BY <1>0
  <2>. QED  BY <2>1, <2>2, <2>3
<1>2. CASE \E i \in DOMAIN seq : seq[i] = k
  <2>. DEFINE i == CHOOSE i \in DOMAIN seq : seq[i] = k
              less == RemoveAt(seq, i)
  <2>1. i \in 1..Len(seq) /\ seq[i] = k /\ Without(seq, k) = less
    BY <1>0, <1>2 DEF Without
  <2>2. /\ less \in Seq(S) /\ Len(less) = Len(seq) - 1
        /\ \A j \in 1..Len(seq) - 1 : less[j] = seq[IF j < i THEN j ELSE j + 1]
    <3>. HIDE DEF i
    <3>. QED  BY <2>1, RemovingOne
  <2>. HIDE DEF i, less
  <2>3. DOMAIN less = 1..Len(seq) - 1
    BY <1>0, <2>2, LenProperties
  <2>4. \A p, q \in DOMAIN seq : seq[p] = seq[q] => p = q
    BY DEF IsInjective
  <2>5. IsInjective(less)
    <3>. SUFFICES ASSUME NEW p \in DOMAIN less, NEW q \in DOMAIN less, less[p] = less[q]
                  PROVE  p = q
      BY DEF IsInjective
    <3>1. (IF p < i THEN p ELSE p + 1) = (IF q < i THEN q ELSE q + 1)
      BY <1>0, <2>1, <2>2, <2>3, <2>4, SMTT(30)
    <3>. QED  BY <1>0, <2>1, <2>3, <3>1
  <2>6. ToSet(less) \subseteq ToSet(seq) \ {k}
    <3>. SUFFICES ASSUME NEW j \in 1..Len(seq) - 1 PROVE less[j] \in ToSet(seq) /\ less[j] # k
      BY <2>3 DEF ToSet
    <3>. DEFINE m == IF j < i THEN j ELSE j + 1
    <3>1. m \in DOMAIN seq /\ m # i /\ less[j] = seq[m]
      BY <1>0, <2>1, <2>2
    <3>. HIDE DEF m
    <3>. QED  BY <1>0, <2>1, <2>4, <3>1 DEF ToSet
  <2>7. ToSet(seq) \ {k} \subseteq ToSet(less)
    <3>. SUFFICES ASSUME NEW m \in DOMAIN seq, seq[m] # k PROVE seq[m] \in ToSet(less)
      BY DEF ToSet
    <3>. DEFINE j == IF m < i THEN m ELSE m - 1
    <3>1. j \in 1..Len(seq) - 1 /\ (IF j < i THEN j ELSE j + 1) = m
      BY <1>0, <2>1
    <3>2. less[j] = seq[m]
      BY <2>2, <3>1
    <3>. HIDE DEF j
    <3>. QED  BY <2>3, <3>1, <3>2 DEF ToSet
  <2>. QED  BY <1>0, <2>1, <2>2, <2>5, <2>6, <2>7
<1>. QED  BY <1>1, <1>2

LEMMA AddingKey ==
  ASSUME NEW S, NEW seq \in Seq(S), IsInjective(seq), NEW k \in S, k \notin ToSet(seq)
  PROVE  /\ Append(seq, k) \in Seq(S) /\ IsInjective(Append(seq, k))
         /\ ToSet(Append(seq, k)) = ToSet(seq) \cup {k}
         /\ Len(Append(seq, k)) = Len(seq) + 1 /\ Append(seq, k)[Len(seq) + 1] = k
<1>1. Len(seq) \in Nat /\ DOMAIN seq = 1..Len(seq)
  BY LenProperties
<1>2. /\ Append(seq, k) \in Seq(S) /\ Len(Append(seq, k)) = Len(seq) + 1
      /\ \A j \in 1..Len(seq) : Append(seq, k)[j] = seq[j]
      /\ Append(seq, k)[Len(seq) + 1] = k
  BY AppendProperties
<1>. DEFINE more == Append(seq, k)
<1>3. DOMAIN more = 1..Len(seq) + 1
  BY <1>1, <1>2, LenProperties
<1>. HIDE DEF more
<1>4. IsInjective(more)
  BY <1>1, <1>2, <1>3 DEF IsInjective, ToSet, more
<1>5. ToSet(more) = ToSet(seq) \cup {k}
  BY <1>1, <1>2, <1>3 DEF ToSet, more
<1>. QED  BY <1>2, <1>4, <1>5 DEF more

LEMMA DroppingFirst ==
  ASSUME NEW S, NEW seq \in Seq(S), IsInjective(seq), Len(seq) > 0
  PROVE  /\ Tail(seq) \in Seq(S) /\ IsInjective(Tail(seq)) /\ Len(Tail(seq)) = Len(seq) - 1
         /\ ToSet(Tail(seq)) = ToSet(seq) \ {seq[1]}
<1>1. Len(seq) \in Nat /\ DOMAIN seq = 1..Len(seq) /\ seq # <<>>
  BY LenProperties
<1>2. /\ Tail(seq) \in Seq(S) /\ Len(Tail(seq)) = Len(seq) - 1
      /\ \A j \in 1..Len(seq) - 1 : Tail(seq)[j] = seq[j + 1]
  BY <1>1, HeadTailProperties
<1>. DEFINE less == Tail(seq)
<1>3. DOMAIN less = 1..Len(seq) - 1
  BY <1>1, <1>2, LenProperties
<1>. HIDE DEF less
<1>4. IsInjective(less)
  BY <1>1, <1>2, <1>3 DEF IsInjective, less
<1>5. ToSet(less) \subseteq ToSet(seq) \ {seq[1]}
  BY <1>1, <1>2, <1>3 DEF ToSet, IsInjective, less
<1>6. ToSet(seq) \ {seq[1]} \subseteq ToSet(less)
  <2>. SUFFICES ASSUME NEW m \in DOMAIN seq, seq[m] # seq[1] PROVE seq[m] \in ToSet(less)
    BY DEF ToSet
  <2>1. m - 1 \in 1..Len(seq) - 1 /\ less[m - 1] = seq[m]
    BY <1>1, <1>2 DEF less
  <2>. QED  BY <1>3, <2>1 DEF ToSet
<1>. QED  BY <1>2, <1>4, <1>5, <1>6 DEF less

-----------------------------------------------------------------------------
(* Every step keeps the invariant *)

LEMMA SetInitially == CachesInit => SetIInv
<1>. SUFFICES ASSUME CachesInit PROVE SetIInv
  OBVIOUS
<1>. USE CachesAssumption
<1>1. StoredTypes
  BY DEF CachesInit, StoredTypes, LookupStates, SaverStates
<1>2. UseIsOrdered
  BY EmptySeq DEF CachesInit, UseIsOrdered, ToSet, IsInjective
<1>3. \A l \in Lookups : lookup[l].at # "read"
  BY DEF CachesInit, Idle
<1>. QED  BY <1>1, <1>2, <1>3 DEF CachesInit, SetIInv, CachedTypes, ReadsAreCurrent, CachedAreCurrent

\* A key is used: it comes last, and the least recently used makes room.
LEMMA UsedLast ==
  ASSUME UseIsOrdered, NEW k \in ParamKeys
  PROVE  LET order == Append(Without(recent, k), k)
         IN /\ order \in Seq(ParamKeys) /\ IsInjective(order)
            /\ ToSet(order) = ToSet(recent) \cup {k}
            /\ Len(order) <= Len(recent) + 1 /\ order[Len(order)] = k
            /\ k \in ToSet(recent) => Len(order) = Len(recent)
<1>. DEFINE rest == Without(recent, k)
<1>1. /\ rest \in Seq(ParamKeys) /\ IsInjective(rest) /\ ToSet(rest) = ToSet(recent) \ {k}
      /\ Len(rest) <= Len(recent) /\ (k \in ToSet(recent) => Len(rest) = Len(recent) - 1)
  BY WithoutKey DEF UseIsOrdered
<1>2. Len(rest) \in Nat /\ Len(recent) \in Nat
  BY <1>1, LenProperties DEF UseIsOrdered
<1>. HIDE DEF rest
<1>3. /\ Append(rest, k) \in Seq(ParamKeys) /\ IsInjective(Append(rest, k))
      /\ ToSet(Append(rest, k)) = ToSet(rest) \cup {k}
      /\ Len(Append(rest, k)) = Len(rest) + 1 /\ Append(rest, k)[Len(rest) + 1] = k
  BY <1>1, AddingKey
<1>4. ToSet(Append(rest, k)) = ToSet(recent) \cup {k}
  BY <1>1, <1>3
<1>. QED  BY <1>1, <1>2, <1>3, <1>4 DEF rest

LEMMA RememberedOrder ==
  ASSUME UseIsOrdered, CachedTypes, NEW k \in ParamKeys, NEW entry \in Entries,
         Remembered(k, entry)
  PROVE  /\ UseIsOrdered' /\ CachedTypes'
         /\ k \in DOMAIN cached' => cached'[k] = entry
         /\ \A e \in DOMAIN cached' : e # k => e \in DOMAIN cached /\ cached'[e] = cached[e]
<1>. USE CachesAssumption
<1>. DEFINE order == Append(Without(recent, k), k)
            kept  == IF Len(order) > CacheEntries THEN Tail(order) ELSE order
            keys  == (DOMAIN cached \cap Kinds) \cup ToSet(kept)
<1>1. recent' = kept /\ cached' = [e \in keys |-> IF e = k THEN entry ELSE cached[e]]
  BY DEF Remembered
<1>2. /\ order \in Seq(ParamKeys) /\ IsInjective(order)
      /\ ToSet(order) = ToSet(recent) \cup {k}
      /\ Len(order) <= Len(recent) + 1
  BY UsedLast
<1>3. Len(order) \in Nat /\ Len(recent) \in Nat /\ Len(recent) <= CacheEntries
  BY <1>2, LenProperties DEF UseIsOrdered
<1>. HIDE DEF order
<1>4. /\ kept \in Seq(ParamKeys) /\ IsInjective(kept) /\ Len(kept) <= CacheEntries
      /\ ToSet(kept) \subseteq ToSet(recent) \cup {k}
  <2>1. CASE Len(order) > CacheEntries
    <3>1. /\ Tail(order) \in Seq(ParamKeys) /\ IsInjective(Tail(order))
          /\ Len(Tail(order)) = Len(order) - 1 /\ ToSet(Tail(order)) = ToSet(order) \ {order[1]}
      BY <1>2, <1>3, <2>1, DroppingFirst
    <3>2. kept = Tail(order)
      BY <2>1
    <3>3. ToSet(Tail(order)) \subseteq ToSet(recent) \cup {k}
      BY <1>2, <3>1
    <3>4. Len(order) - 1 <= CacheEntries
      BY <1>2, <1>3
    <3>. HIDE DEF kept
    <3>. QED  BY <3>1, <3>2, <3>3, <3>4
  <2>2. CASE ~(Len(order) > CacheEntries)
    <3>1. kept = order /\ Len(order) <= CacheEntries
      BY <1>3, <2>2
    <3>. HIDE DEF kept
    <3>. QED  BY <1>2, <3>1
  <2>. QED  BY <2>1, <2>2
<1>. HIDE DEF kept
<1>5. ToSet(kept) \subseteq ParamKeys
  BY <1>4, LenProperties DEF ToSet
<1>6. DOMAIN cached' = keys /\ \A e \in keys : cached'[e] = IF e = k THEN entry ELSE cached[e]
  BY <1>1
<1>7. \A e \in keys : e # k => e \in DOMAIN cached
  BY <1>4 DEF UseIsOrdered
<1>8. keys \cap ParamKeys = ToSet(kept) /\ keys \subseteq Settings
  BY <1>5 DEF Settings
<1>. HIDE DEF keys
<1>9. UseIsOrdered'
  BY <1>1, <1>4, <1>6, <1>8 DEF UseIsOrdered
<1>10. CachedTypes'
  BY <1>6, <1>7, <1>8 DEF CachedTypes
<1>. QED  BY <1>6, <1>7, <1>9, <1>10

\* What of a lookup and a save is read.
LEMMA LookupFields ==
  ASSUME SetIInv, NEW l \in Lookups
  PROVE  /\ lookup[l] = Idle => lookup[l].at = "idle"
         /\ lookup[l].at \in {"waits", "read"} => lookup[l].key \in Settings /\ lookup[l].overlapped \in BOOLEAN
         /\ lookup[l].at = "read" => lookup[l].version \in 0..MaxSaves
BY DEF SetIInv, StoredTypes, LookupStates, Idle

LEMMA SaverFields ==
  ASSUME SetIInv, NEW s \in Savers, saver[s] # Idle
  PROVE  saver[s].key \in Settings
BY DEF SetIInv, StoredTypes, SaverStates

LEMMA ParamsHitKeeps == ASSUME SetIInv, NEW k \in ParamKeys, ParamsHit(k) PROVE SetIInv'
<1>. DEFINE order == Append(Without(recent, k), k)
<1>1. k \in ToSet(recent)
  BY DEF SetIInv, UseIsOrdered, ParamsHit
<1>2. /\ order \in Seq(ParamKeys) /\ IsInjective(order)
      /\ ToSet(order) = ToSet(recent) \cup {k}
      /\ Len(order) = Len(recent)
  BY <1>1, UsedLast DEF SetIInv
<1>3. recent' = order
  BY DEF ParamsHit
<1>. HIDE DEF order
<1>4. UseIsOrdered'
  BY <1>1, <1>2, <1>3 DEF SetIInv, UseIsOrdered, ParamsHit
<1>. QED  BY <1>4 DEF SetIInv, ParamsHit, StoredTypes, CachedTypes, ReadsAreCurrent,
                      CachedAreCurrent, IsSaving

LEMMA LookupBeginsKeeps ==
  ASSUME SetIInv, NEW l \in Lookups, NEW k \in Settings, LookupBegins(l, k) PROVE SetIInv'
<1>. DEFINE new == [at |-> "waits", key |-> k, overlapped |-> FALSE]
<1>1. new \in LookupStates /\ new.at = "waits"
  BY DEF LookupStates
<1>2. lookup' = [lookup EXCEPT ![l] = new] /\ UNCHANGED <<saved, cached, recent, saver, saves>>
  BY DEF LookupBegins
<1>. HIDE DEF new
<1>3. lookup' \in [Lookups -> LookupStates]
      /\ \A m \in Lookups : lookup'[m].at = "read" => lookup'[m] = lookup[m]
  BY <1>1, <1>2 DEF SetIInv, StoredTypes
<1>4. ReadsAreCurrent'
  BY <1>2, <1>3 DEF SetIInv, ReadsAreCurrent, IsSaving
<1>. QED  BY <1>2, <1>3, <1>4 DEF SetIInv, StoredTypes, UseIsOrdered, CachedTypes,
                                  CachedAreCurrent, IsSaving

LEMMA LookupReadsKeeps ==
  ASSUME SetIInv, NEW l \in Lookups, LookupReads(l) PROVE SetIInv'
<1>. DEFINE new == [at |-> "read", key |-> lookup[l].key,
                    version |-> saved[lookup[l].key], overlapped |-> lookup[l].overlapped]
<1>0. lookup[l].key \in Settings /\ lookup[l].overlapped \in BOOLEAN
  BY LookupFields DEF LookupReads
<1>1. new \in LookupStates /\ new.version = saved[new.key]
  BY <1>0 DEF LookupStates, SetIInv, StoredTypes
<1>2. lookup' = [lookup EXCEPT ![l] = new] /\ UNCHANGED <<saved, cached, recent, saver, saves>>
  BY DEF LookupReads
<1>. HIDE DEF new
<1>3. lookup' \in [Lookups -> LookupStates] /\ lookup'[l] = new
      /\ \A m \in Lookups : m # l => lookup'[m] = lookup[m]
  BY <1>1, <1>2 DEF SetIInv, StoredTypes
<1>4. ReadsAreCurrent'
  BY <1>1, <1>2, <1>3 DEF SetIInv, ReadsAreCurrent, IsSaving
<1>. QED  BY <1>2, <1>3, <1>4 DEF SetIInv, StoredTypes, UseIsOrdered, CachedTypes,
                                  CachedAreCurrent, IsSaving

\* A lookup that is over, whatever it put into the cache.
LEMMA LookupEnds ==
  ASSUME SetIInv, NEW l \in Lookups, lookup' = [lookup EXCEPT ![l] = Idle],
         UNCHANGED <<saved, saver, saves>>
  PROVE  StoredTypes' /\ ReadsAreCurrent'
<1>1. Idle \in LookupStates /\ Idle.at = "idle"
  BY DEF LookupStates, Idle
<1>2. lookup' \in [Lookups -> LookupStates]
      /\ \A m \in Lookups : lookup'[m].at = "read" => lookup'[m] = lookup[m]
  BY <1>1 DEF SetIInv, StoredTypes
<1>. QED  BY <1>2 DEF SetIInv, StoredTypes, ReadsAreCurrent, IsSaving

\* What a lookup read may be put into the cache.
LEMMA EntryIsCurrent ==
  ASSUME SetIInv, NEW l \in Lookups, lookup[l].at = "read"
  PROVE  LET entry == [version |-> lookup[l].version, overlapped |-> lookup[l].overlapped]
         IN /\ entry \in Entries
            /\ entry.version = saved[lookup[l].key] \/ entry.overlapped \/ IsSaving(lookup[l].key)
BY LookupFields DEF Entries, SetIInv, ReadsAreCurrent

LEMMA ParamsRemembersKeeps ==
  ASSUME SetIInv, NEW l \in Lookups, ParamsRemembers(l) PROVE SetIInv'
<1>. DEFINE k == lookup[l].key
            entry == [version |-> lookup[l].version, overlapped |-> lookup[l].overlapped]
<1>1. entry \in Entries /\ (entry.version = saved[k] \/ entry.overlapped \/ IsSaving(k))
  BY EntryIsCurrent DEF ParamsRemembers
<1>2. k \in ParamKeys /\ Remembered(k, entry) /\ lookup' = [lookup EXCEPT ![l] = Idle]
      /\ UNCHANGED <<saved, saver, saves>>
  BY DEF ParamsRemembers
<1>3. StoredTypes' /\ ReadsAreCurrent'
  BY <1>2, LookupEnds
<1>. HIDE DEF k, entry
<1>4. /\ UseIsOrdered' /\ CachedTypes'
      /\ k \in DOMAIN cached' => cached'[k] = entry
      /\ \A e \in DOMAIN cached' : e # k => e \in DOMAIN cached /\ cached'[e] = cached[e]
  BY <1>1, <1>2, RememberedOrder DEF SetIInv
<1>5. CachedAreCurrent'
  <2>. SUFFICES ASSUME NEW e \in DOMAIN cached'
                PROVE  cached'[e].version = saved[e] \/ cached'[e].overlapped \/ IsSaving(e)
    BY <1>2 DEF CachedAreCurrent, IsSaving
  <2>. QED  BY <1>1, <1>4 DEF SetIInv, CachedAreCurrent
<1>. QED  BY <1>3, <1>4, <1>5 DEF SetIInv

LEMMA CommitsKeeps ==
  ASSUME SetIInv, NEW s \in Savers, NEW k \in Settings, NEW version \in 0..MaxSaves,
         Commits(s, k, version)
  PROVE  SetIInv'
<1>. USE CachesAssumption
<1>. DEFINE new == [at |-> "committed", key |-> k]
<1>1. new \in SaverStates /\ new # Idle /\ new.key = k
  BY DEF SaverStates, Idle
<1>2. /\ saver[s] = Idle /\ saved' = [saved EXCEPT ![k] = version]
      /\ saver' = [saver EXCEPT ![s] = new]
      /\ saves' = saves + 1 /\ saves < MaxSaves /\ UNCHANGED <<cached, recent, lookup>>
  BY DEF Commits
<1>. HIDE DEF new
<1>3. StoredTypes'
  BY <1>1, <1>2 DEF SetIInv, StoredTypes
<1>4. IsSaving(k)' /\ \A e : IsSaving(e) => IsSaving(e)'
  BY <1>1, <1>2 DEF IsSaving, SetIInv, StoredTypes
<1>5. \A e \in Settings : e # k => saved'[e] = saved[e]
  BY <1>2 DEF SetIInv, StoredTypes
<1>6. CachedAreCurrent'
  BY <1>2, <1>4, <1>5 DEF SetIInv, CachedTypes, CachedAreCurrent
<1>7. ReadsAreCurrent'
  BY <1>2, <1>4, <1>5, LookupFields DEF SetIInv, ReadsAreCurrent
<1>. QED  BY <1>2, <1>3, <1>6, <1>7 DEF SetIInv, UseIsOrdered, CachedTypes

LEMMA SavesKeep ==
  ASSUME SetIInv, NEW s \in Savers, NEW k \in Settings,
         PluginSaves(s, k) \/ \E cleared \in BOOLEAN : ParamsSaves(s, k, cleared)
  PROVE  SetIInv'
<1>1. PICK version : version \in {0, saves + 1} /\ Commits(s, k, version)
  BY DEF PluginSaves, ParamsSaves
<1>2. version \in 0..MaxSaves
  BY <1>1, CachesAssumption DEF Commits, SetIInv, StoredTypes
<1>. QED  BY <1>1, <1>2, CommitsKeeps

\* A save that completes: the lookups of its key know, and nobody else is affected.
LEMMA SaveEnds ==
  ASSUME SetIInv, NEW s \in Savers, saver[s] # Idle, lookup' = Overlap(saver[s].key),
         saver' = [saver EXCEPT ![s] = Idle], UNCHANGED <<saved, saves>>
  PROVE  /\ StoredTypes' /\ ReadsAreCurrent'
         /\ \A e : e # saver[s].key /\ IsSaving(e) => IsSaving(e)'
<1>. DEFINE k == saver[s].key
<1>0. Idle \in SaverStates /\ Idle.at = "idle"
  BY DEF SaverStates, Idle
<1>1. saver' \in [Savers -> SaverStates]
  BY <1>0 DEF SetIInv, StoredTypes
<1>2. \A e : e # k /\ IsSaving(e) => IsSaving(e)'
  <2>. SUFFICES ASSUME NEW e, e # k, NEW o \in Savers, saver[o] # Idle, saver[o].key = e
                PROVE  saver'[o] # Idle /\ saver'[o].key = e
    BY DEF IsSaving
  <2>. QED  BY DEF SetIInv, StoredTypes
<1>3. ASSUME NEW l \in Lookups
      PROVE  /\ lookup'[l] \in LookupStates
             /\ lookup'[l].at = "read" =>
                  /\ lookup[l].at = "read" /\ lookup'[l].key = lookup[l].key
                  /\ lookup'[l].version = lookup[l].version
                  /\ lookup[l].overlapped => lookup'[l].overlapped
                  /\ lookup[l].key = k => lookup'[l].overlapped
  <2>0. lookup[l] \in LookupStates
    BY DEF SetIInv, StoredTypes
  <2>1. CASE lookup[l].at = "idle" \/ lookup[l].key # k
    <3>1. lookup'[l] = lookup[l]
      BY <2>1 DEF Overlap
    <3>2. lookup[l].at = "read" => lookup[l].key # k
      BY <2>1
    <3>. QED  BY <2>0, <3>1, <3>2
  <2>2. CASE ~(lookup[l].at = "idle" \/ lookup[l].key # k)
    <3>. DEFINE q == lookup[l]
    <3>1. lookup'[l] = [q EXCEPT !.overlapped = TRUE]
      BY <2>2 DEF Overlap
    <3>2. \/ q \in [at : {"waits"}, key : Settings, overlapped : BOOLEAN]
          \/ q \in [at : {"read"}, key : Settings, version : 0..MaxSaves, overlapped : BOOLEAN]
      BY <2>0, <2>2, <1>0 DEF LookupStates
    <3>. HIDE DEF q
    <3>3. /\ [q EXCEPT !.overlapped = TRUE] \in LookupStates
          /\ [q EXCEPT !.overlapped = TRUE].at = q.at
          /\ q.at = "read" => /\ [q EXCEPT !.overlapped = TRUE].key = q.key
                              /\ [q EXCEPT !.overlapped = TRUE].version = q.version
                              /\ [q EXCEPT !.overlapped = TRUE].overlapped = TRUE
      BY <3>2 DEF LookupStates
    <3>. QED  BY <3>1, <3>3 DEF q
  <2>. QED  BY <2>1, <2>2
<1>4. lookup' \in [Lookups -> LookupStates]
  BY <1>3 DEF Overlap
<1>5. StoredTypes'
  BY <1>1, <1>4 DEF SetIInv, StoredTypes
<1>6. ReadsAreCurrent'
  <2>. SUFFICES ASSUME NEW l \in Lookups, lookup'[l].at = "read"
                PROVE  \/ lookup'[l].version = saved'[lookup'[l].key]
                       \/ lookup'[l].overlapped
                       \/ \E o \in Savers : saver'[o] # Idle /\ saver'[o].key = lookup'[l].key
    BY DEF ReadsAreCurrent, IsSaving
  <2>1. PICK e : e = lookup[l].key
    OBVIOUS
  <2>2. lookup'[l].key = e /\ lookup'[l].version = lookup[l].version
        /\ (lookup[l].overlapped => lookup'[l].overlapped) /\ (e = k => lookup'[l].overlapped)
    BY <1>3, <2>1
  <2>3. lookup[l].version = saved[e] \/ lookup[l].overlapped \/ IsSaving(e)
    BY <1>3, <2>1 DEF SetIInv, ReadsAreCurrent
  <2>4. e # k /\ IsSaving(e) => \E o \in Savers : saver'[o] # Idle /\ saver'[o].key = e
    BY <1>2 DEF IsSaving
  <2>. HIDE DEF k
  <2>. QED  BY <2>2, <2>3, <2>4
<1>. QED  BY <1>2, <1>5, <1>6

LEMMA ParamsSavedKeeps == ASSUME SetIInv, NEW s \in Savers, ParamsSaved(s) PROVE SetIInv'
<1>. DEFINE k == saver[s].key
            entry == [version |-> saved[k], overlapped |-> FALSE]
<1>1. /\ saver[s] # Idle /\ k \in ParamKeys /\ Remembered(k, entry) /\ lookup' = Overlap(k)
      /\ saver' = [saver EXCEPT ![s] = Idle] /\ UNCHANGED <<saved, saves>>
  BY DEF ParamsSaved
<1>2. /\ StoredTypes' /\ ReadsAreCurrent'
      /\ \A e : e # k /\ IsSaving(e) => IsSaving(e)'
  BY <1>1, SaveEnds
<1>3. entry \in Entries /\ entry.version = saved[k]
  BY <1>1 DEF Entries, SetIInv, StoredTypes, Settings
<1>. HIDE DEF k, entry
<1>4. /\ UseIsOrdered' /\ CachedTypes'
      /\ k \in DOMAIN cached' => cached'[k] = entry
      /\ \A e \in DOMAIN cached' : e # k => e \in DOMAIN cached /\ cached'[e] = cached[e]
  BY <1>1, <1>3, RememberedOrder DEF SetIInv
<1>5. CachedAreCurrent'
  BY <1>1, <1>2, <1>3, <1>4 DEF SetIInv, CachedAreCurrent
<1>. QED  BY <1>2, <1>4, <1>5 DEF SetIInv

LEMMA PluginLoadsKeeps == ASSUME SetIInv, NEW l \in Lookups, PluginLoads(l) PROVE SetIInv'
<1>. DEFINE k == lookup[l].key
            entry == [version |-> lookup[l].version, overlapped |-> lookup[l].overlapped]
            keys == DOMAIN cached \cup {k}
<1>1. entry \in Entries /\ (entry.version = saved[k] \/ entry.overlapped \/ IsSaving(k))
  BY EntryIsCurrent DEF PluginLoads
<1>2. k \in Kinds /\ cached' = [e \in keys |-> IF e = k THEN entry ELSE cached[e]]
      /\ lookup' = [lookup EXCEPT ![l] = Idle] /\ UNCHANGED <<saved, recent, saver, saves>>
  BY DEF PluginLoads
<1>3. StoredTypes' /\ ReadsAreCurrent'
  BY <1>2, LookupEnds
<1>. HIDE DEF k, entry
<1>4. DOMAIN cached' = keys /\ \A e \in keys : cached'[e] = IF e = k THEN entry ELSE cached[e]
  BY <1>2
<1>5. keys \cap ParamKeys = DOMAIN cached \cap ParamKeys /\ keys \subseteq Settings
  BY <1>2, CachesAssumption DEF Settings, SetIInv, CachedTypes
<1>6. CachedTypes' /\ UseIsOrdered'
  BY <1>1, <1>2, <1>4, <1>5 DEF SetIInv, CachedTypes, UseIsOrdered
<1>7. CachedAreCurrent'
  <2>. SUFFICES ASSUME NEW e \in DOMAIN cached'
                PROVE  cached'[e].version = saved[e] \/ cached'[e].overlapped \/ IsSaving(e)
    BY <1>2 DEF CachedAreCurrent, IsSaving
  <2>. QED  BY <1>1, <1>4 DEF SetIInv, CachedAreCurrent
<1>. QED  BY <1>3, <1>6, <1>7 DEF SetIInv

LEMMA PluginInvalidatesKeeps ==
  ASSUME SetIInv, NEW s \in Savers, PluginInvalidates(s) PROVE SetIInv'
<1>. DEFINE k == saver[s].key
<1>1. /\ saver[s] # Idle /\ k \in Kinds /\ lookup' = Overlap(k)
      /\ cached' = [e \in DOMAIN cached \ {k} |-> cached[e]]
      /\ saver' = [saver EXCEPT ![s] = Idle] /\ UNCHANGED <<saved, recent, saves>>
  BY DEF PluginInvalidates
<1>2. /\ StoredTypes' /\ ReadsAreCurrent'
      /\ \A e : e # k /\ IsSaving(e) => IsSaving(e)'
  BY <1>1, SaveEnds
<1>. HIDE DEF k
<1>3. DOMAIN cached' = DOMAIN cached \ {k} /\ \A e \in DOMAIN cached' : cached'[e] = cached[e]
  BY <1>1
<1>4. DOMAIN cached' \cap ParamKeys = DOMAIN cached \cap ParamKeys
  BY <1>1, <1>3, CachesAssumption
<1>5. CachedTypes' /\ UseIsOrdered'
  BY <1>1, <1>3, <1>4 DEF SetIInv, CachedTypes, UseIsOrdered
<1>6. CachedAreCurrent'
  BY <1>1, <1>2, <1>3 DEF SetIInv, CachedAreCurrent
<1>. QED  BY <1>2, <1>5, <1>6 DEF SetIInv

LEMMA SetInductive == ASSUME SetIInv, [CachesNext]_cacheVars PROVE SetIInv'
<1>1. ASSUME UNCHANGED cacheVars PROVE SetIInv'
  BY <1>1 DEF cacheVars, SetIInv, StoredTypes, UseIsOrdered, CachedTypes, ReadsAreCurrent,
              CachedAreCurrent, IsSaving
<1>. QED  BY <1>1, ParamsHitKeeps, LookupReadsKeeps, ParamsRemembersKeeps, PluginLoadsKeeps,
             LookupBeginsKeeps, ParamsSavedKeeps, PluginInvalidatesKeeps, SavesKeep DEF CachesNext

\* Whatever lookups and saves overlap, the parameter cache stays within its bound and keeps each
\* user's and model's entry once, in its order of use; and a cached setting that no lookup
\* overlapping a save put there is the stored one (services/model_params.py, plugins/loader.py).
THEOREM SettingsHold == CachesSpec => []SettingsInv
<1>1. CachesSpec => []SetIInv
  BY SetInitially, SetInductive, PTL DEF CachesSpec
<1>. QED  BY <1>1, SetIInvImplies, PTL

-----------------------------------------------------------------------------
(* Induction on natural numbers, over sets of them, and loops *)

LEMMA LeastOf == ASSUME NEW T \in SUBSET Nat, T # {} PROVE \E x \in T : \A y \in T : x <= y
<1>. DEFINE R == OpToRel(<, Nat)
<1>1. IsWellFoundedOn(R, Nat)
  BY NatLessThanWellFounded
<1>2. \A y \in Nat, z \in Nat : y < z => <<y, z>> \in R
  BY DEF OpToRel
<1>. HIDE DEF R
<1>3. PICK x \in T : \A y \in T : ~ (<<y, x>> \in R)
  BY <1>1, WFMin
<1>4. x \in Nat /\ \A y \in T : y \in Nat /\ ~(y < x)
  BY <1>2, <1>3
<1>. QED  BY <1>4

\* Induction, for a set in place of a predicate.
LEMMA SetInduction ==
  ASSUME NEW P \in SUBSET Nat, 0 \in P, \A n \in P : n + 1 \in P
  PROVE  \A n \in Nat : n \in P
<1>. SUFFICES ASSUME Nat \ P # {} PROVE FALSE
  OBVIOUS
<1>1. PICK x \in Nat \ P : \A y \in Nat \ P : x <= y
  BY LeastOf
<1>2. x # 0 /\ x - 1 \in Nat /\ x - 1 \in P
  BY <1>1
<1>. QED  BY <1>1, <1>2

\* Induction up to a bound.
LEMMA UpTo ==
  ASSUME NEW N \in Nat, NEW P \in SUBSET (0..N), 0 \in P, \A n \in P : n < N => n + 1 \in P
  PROVE  \A n \in 0..N : n \in P
<1>. DEFINE Q == {n \in Nat : n <= N => n \in P}
<1>1. Q \in SUBSET Nat /\ 0 \in Q
  OBVIOUS
<1>2. \A n \in Q : n + 1 \in Q
  OBVIOUS
<1>3. \A n \in Nat : n \in Q
  <2>. HIDE DEF Q
  <2>. QED  BY <1>1, <1>2, SetInduction
<1>. QED  BY <1>3

\* The values of a variable in a loop whose turns are functions.
LoopTurns(N, V) == [1..N -> [V -> V]]
Loops(g, N, V, b, F) == g \in [0..N -> V] /\ g[0] = b /\ \A i \in 1..N : g[i] = F[i][g[i - 1]]

\* What a recursion over 0..N needs: such a loop has values.
LEMMA Iterates ==
  ASSUME NEW N \in Nat, NEW V, NEW b \in V, NEW F \in LoopTurns(N, V)
  PROVE  \E g : Loops(g, N, V, b, F)
<1>. USE DEF LoopTurns, Loops
<1>. DEFINE Runs(g, n) == g \in [0..n -> V] /\ g[0] = b /\ \A i \in 1..n : g[i] = F[i][g[i - 1]]
            P == {n \in 0..N : \E g : Runs(g, n)}
<1>1. 0 \in P
  <2>1. Runs([i \in 0..0 |-> b], 0)
    OBVIOUS
  <2>. HIDE DEF Runs
  <2>. QED  BY <2>1
<1>2. ASSUME NEW n \in P, n < N PROVE n + 1 \in P
  <2>1. PICK g : Runs(g, n)
    OBVIOUS
  <2>2. n \in Nat /\ n + 1 \in 1..N /\ n + 1 \in 0..N /\ n + 1 - 1 = n
    BY <1>2
  <2>. DEFINE h == [i \in 0..n + 1 |-> IF i = n + 1 THEN F[n + 1][g[n]] ELSE g[i]]
  <2>3. F[n + 1][g[n]] \in V
    BY <2>1, <2>2
  <2>4. h \in [0..n + 1 -> V]
    BY <2>1, <2>2, <2>3
  <2>5. (\A i \in 0..n : h[i] = g[i]) /\ h[n + 1] = F[n + 1][g[n]]
    BY <2>2
  <2>. HIDE DEF h
  <2>6. h[0] = b
    BY <2>1, <2>2, <2>5
  <2>7. ASSUME NEW i \in 1..n + 1 PROVE h[i] = F[i][h[i - 1]]
    <3>1. CASE i = n + 1
      <4>1. h[n] = g[n]
        BY <2>2, <2>5
      <4>. QED  BY <2>2, <2>5, <3>1, <4>1
    <3>2. CASE i \in 1..n
      <4>1. i \in 0..n /\ i - 1 \in 0..n
        BY <2>2, <3>2
      <4>2. h[i] = g[i] /\ h[i - 1] = g[i - 1]
        BY <2>5, <4>1
      <4>3. g[i] = F[i][g[i - 1]]
        BY <2>1, <3>2
      <4>. QED  BY <4>2, <4>3
    <3>. QED  BY <2>2, <3>1, <3>2
  <2>8. Runs(h, n + 1)
    BY <2>4, <2>6, <2>7
  <2>. HIDE DEF Runs
  <2>. QED  BY <2>2, <2>8
<1>3. P \in SUBSET (0..N)
  OBVIOUS
<1>4. N \in P
  <2>. HIDE DEF P
  <2>1. \A n \in 0..N : n \in P
    BY <1>1, <1>2, <1>3, UpTo
  <2>. QED  BY <2>1
<1>. QED  BY <1>4

-----------------------------------------------------------------------------
(* Sorting *)

\* "Less" is a strict total order on s, as a set of pairs.
Orders(less, s) ==
  /\ \A x \in s : <<x, x>> \notin less
  /\ \A x, y, z \in s : <<x, y>> \in less /\ <<y, z>> \in less => <<x, z>> \in less
  /\ \A x, y \in s : x # y => <<x, y>> \in less \/ <<y, x>> \in less

\* How many elements come before one, when the greatest come first.
Place(x, s, less) == Cardinality({y \in s : <<x, y>> \in less}) + 1

LEMMA PlacesGrow ==
  ASSUME NEW s, IsFiniteSet(s), NEW less, Orders(less, s), NEW x \in s, NEW y \in s, <<x, y>> \in less
  PROVE  /\ Place(x, s, less) \in 1..Cardinality(s) /\ Place(y, s, less) \in 1..Cardinality(s)
         /\ Place(y, s, less) < Place(x, s, less)
<1> DEFINE above(z) == {w \in s : <<z, w>> \in less}
<1>1. ASSUME NEW z \in s
      PROVE  /\ IsFiniteSet(above(z)) /\ Cardinality(above(z)) \in Nat /\ Cardinality(s) \in Nat
             /\ Cardinality(above(z)) < Cardinality(s)
  <2>1. above(z) \in SUBSET s /\ z \notin above(z)
    BY DEF Orders
  <2>2. /\ IsFiniteSet(above(z)) /\ Cardinality(above(z)) <= Cardinality(s)
        /\ Cardinality(s) = Cardinality(above(z)) => s = above(z)
    BY <2>1, FS_Subset
  <2>3. Cardinality(above(z)) \in Nat /\ Cardinality(s) \in Nat
    BY <2>2, FS_CardinalityType
  <2>4. Cardinality(s) # Cardinality(above(z))
    BY <2>1, <2>2
  <2> HIDE DEF above
  <2> QED
    BY <2>2, <2>3, <2>4
<1>2. above(y) \in SUBSET above(x) /\ y \in above(x) /\ y \notin above(y)
  BY DEF Orders
<1>3. /\ Cardinality(above(y)) <= Cardinality(above(x))
      /\ Cardinality(above(x)) = Cardinality(above(y)) => above(x) = above(y)
  <2>1. IsFiniteSet(above(x))
    BY <1>1
  <2> QED
    BY <1>2, <2>1, FS_Subset
<1>4. Cardinality(above(x)) # Cardinality(above(y))
  BY <1>2, <1>3
<1>5. Place(x, s, less) = Cardinality(above(x)) + 1 /\ Place(y, s, less) = Cardinality(above(y)) + 1
  BY DEF Place
<1>6. /\ Cardinality(above(x)) \in Nat /\ Cardinality(above(x)) < Cardinality(s)
      /\ Cardinality(above(y)) \in Nat /\ Cardinality(above(y)) < Cardinality(s) /\ Cardinality(s) \in Nat
  BY <1>1
<1> HIDE DEF above
<1> QED
  BY <1>3, <1>4, <1>5, <1>6

\* Each place is one element's.
LEMMA PlacesAre ==
  ASSUME NEW s, IsFiniteSet(s), NEW less, Orders(less, s)
  PROVE  /\ Cardinality(s) \in Nat
         /\ \A x \in s : Place(x, s, less) \in 1..Cardinality(s)
         /\ \A x, y \in s : Place(x, s, less) = Place(y, s, less) => x = y
         /\ \A i \in 1..Cardinality(s) : \E x \in s : Place(x, s, less) = i
<1> DEFINE n == Cardinality(s)
           place == [x \in s |-> Place(x, s, less)]
<1>1. n \in Nat /\ IsFiniteSet(1..n) /\ Cardinality(1..n) = n
  <2>1. n \in Nat
    BY FS_CardinalityType
  <2> HIDE DEF n
  <2> QED
    BY <2>1, FS_Interval
<1>2. \A x, y \in s : x # y => place[x] # place[y]
  <2> SUFFICES ASSUME NEW x \in s, NEW y \in s, x # y PROVE Place(x, s, less) # Place(y, s, less)
    OBVIOUS
  <2>1. <<x, y>> \in less \/ <<y, x>> \in less
    BY DEF Orders
  <2>2. \A i, j \in 1..n : i < j => i # j
    BY <1>1
  <2> HIDE DEF n
  <2>3. CASE <<x, y>> \in less
    BY <2>3, <2>2, PlacesGrow DEF n
  <2>4. CASE <<y, x>> \in less
    BY <2>4, <2>2, PlacesGrow DEF n
  <2> QED
    BY <2>1, <2>3, <2>4
<1>3. place \in [s -> 1..n]
  <2> SUFFICES ASSUME NEW x \in s PROVE Place(x, s, less) \in 1..n
    OBVIOUS
  <2> DEFINE above == {y \in s : <<x, y>> \in less}
  <2>1. above \in SUBSET s /\ x \notin above
    BY DEF Orders
  <2>2. /\ IsFiniteSet(above) /\ Cardinality(above) <= n /\ (n = Cardinality(above) => s = above)
    BY <2>1, FS_Subset
  <2>3. Cardinality(above) \in Nat
    BY <2>2, FS_CardinalityType
  <2>4. Place(x, s, less) = Cardinality(above) + 1 /\ n # Cardinality(above)
    BY <2>1, <2>2 DEF Place
  <2> HIDE DEF above, n
  <2> QED
    BY <1>1, <2>2, <2>3, <2>4
<1> HIDE DEF place, n
<1>4. place \in Injection(s, 1..n)
  BY <1>2, <1>3, Fun_IsInj DEF Injection
<1>5. place \in Surjection(s, 1..n)
  BY <1>1, <1>4, FS_Injection DEF n
<1>6. \A i \in 1..n : \E x \in s : place[x] = i
  BY <1>5 DEF Surjection
<1> QED
  BY <1>1, <1>2, <1>3, <1>6 DEF place, n

-----------------------------------------------------------------------------
(* The order of an entry's messages *)

\* The pairs of messages of which the second comes first.
Later(entry) ==
  {p \in Kept(entry) \X Kept(entry) : SortsBefore(entry, p[2], p[1])}

LEMMA KeptIsOrdered ==
  ASSUME NEW entry \in ExportEntry
  PROVE  /\ IsFiniteSet(Kept(entry)) /\ Kept(entry) \subseteq 1..Len(entry.nodes)
         /\ entry.nodes \in Seq(ExportNode)
         /\ Orders(Later(entry), Kept(entry))
<1> DEFINE n == Len(entry.nodes)
<1>1. entry.nodes \in Seq(ExportNode) /\ entry.flat \in BOOLEAN
  BY DEF ExportEntry
<1>2. n \in Nat /\ DOMAIN entry.nodes = 1..n /\ Kept(entry) \in SUBSET (1..n)
  BY <1>1 DEF Kept
<1>3. \A i \in 1..n : entry.nodes[i].stamp \in Nat
  <2>1. \A i \in 1..n : entry.nodes[i] \in ExportNode
    BY <1>1
  <2> QED
    BY <2>1 DEF ExportNode
<1>4. IsFiniteSet(1..n)
  BY <1>2, FS_Interval
<1>5. IsFiniteSet(Kept(entry))
  BY <1>2, <1>4, FS_Subset
<1> DEFINE stamp(i) == entry.nodes[i].stamp
<1>6. \A i, j \in Kept(entry) :
        <<i, j>> \in Later(entry) <=>
          \/ ~entry.flat /\ stamp(j) < stamp(i)
          \/ (entry.flat \/ stamp(j) = stamp(i)) /\ j < i
  BY DEF Later, SortsBefore
<1>7. \A i \in Kept(entry) : i \in Nat /\ stamp(i) \in Nat
  BY <1>2, <1>3
<1> HIDE DEF stamp, n
<1>8. Orders(Later(entry), Kept(entry))
  <2>1. \A x \in Kept(entry) : <<x, x>> \notin Later(entry)
    BY <1>6, <1>7
  <2>2. ASSUME NEW x \in Kept(entry), NEW y \in Kept(entry), NEW z \in Kept(entry),
               <<x, y>> \in Later(entry), <<y, z>> \in Later(entry)
        PROVE  <<x, z>> \in Later(entry)
    BY <1>6, <1>7, <2>2
  <2>3. \A x, y \in Kept(entry) : x # y => <<x, y>> \in Later(entry) \/ <<y, x>> \in Later(entry)
    BY <1>6, <1>7
  <2> QED
    BY <2>1, <2>2, <2>3 DEF Orders
<1> QED
  BY <1>1, <1>2, <1>5, <1>8 DEF n

\* The k-th message is the one that has the k-th place; there is one for each place.
LEMMA NthIs ==
  ASSUME NEW entry \in ExportEntry
  PROVE  LET n == Cardinality(Kept(entry)) IN
         /\ n \in Nat
         /\ \A k \in 1..n : Nth(entry, k) \in Kept(entry)
                            /\ Place(Nth(entry, k), Kept(entry), Later(entry)) = k
         /\ \A i \in Kept(entry) : \E k \in 1..n : Nth(entry, k) = i
<1> DEFINE kept == Kept(entry)
           n == Cardinality(kept)
           place(i) == Place(i, kept, Later(entry))
<1>1. /\ n \in Nat
      /\ \A i \in kept : place(i) \in 1..n
      /\ \A i, j \in kept : place(i) = place(j) => i = j
      /\ \A k \in 1..n : \E i \in kept : place(i) = k
  <2>1. IsFiniteSet(kept) /\ Orders(Later(entry), kept)
    BY KeptIsOrdered
  <2> HIDE DEF kept
  <2> QED
    BY <2>1, PlacesAre
<1>2. \A i \in kept : place(i) = Cardinality({j \in kept : SortsBefore(entry, j, i)}) + 1
  <2> SUFFICES ASSUME NEW i \in kept
               PROVE  place(i) = Cardinality({j \in kept : SortsBefore(entry, j, i)}) + 1
    OBVIOUS
  <2>1. {j \in kept : <<i, j>> \in Later(entry)} = {j \in kept : SortsBefore(entry, j, i)}
    BY DEF Later
  <2> QED
    BY <2>1 DEF Place
<1>3. \A i \in kept : Cardinality({j \in kept : SortsBefore(entry, j, i)}) \in Nat
  <2> SUFFICES ASSUME NEW i \in kept
               PROVE  Cardinality({j \in kept : SortsBefore(entry, j, i)}) \in Nat
    OBVIOUS
  <2>1. IsFiniteSet({j \in kept : SortsBefore(entry, j, i)})
    BY KeptIsOrdered, FS_Subset
  <2> QED
    BY <2>1, FS_CardinalityType
<1> DEFINE before(i) == Cardinality({j \in kept : SortsBefore(entry, j, i)})
<1>4. \A k \in 1..n : Nth(entry, k) = CHOOSE i \in kept : before(i) = k - 1
  BY DEF Nth
<1> HIDE DEF kept, n, place, before
<1>5. ASSUME NEW k \in 1..n PROVE Nth(entry, k) \in kept /\ place(Nth(entry, k)) = k
  <2>1. PICK i \in kept : place(i) = k
    BY <1>1
  <2>2. before(i) = k - 1
    BY <1>1, <1>2, <1>3, <2>1 DEF before
  <2>3. Nth(entry, k) \in kept /\ before(Nth(entry, k)) = k - 1
    BY <1>4, <2>2
  <2>4. place(Nth(entry, k)) = (k - 1) + 1
    BY <1>2, <2>3 DEF before
  <2> QED
    BY <1>1, <2>3, <2>4
<1>6. ASSUME NEW i \in kept PROVE \E k \in 1..n : Nth(entry, k) = i
  <2>1. place(i) \in 1..n
    BY <1>1
  <2>2. Nth(entry, place(i)) \in kept /\ place(Nth(entry, place(i))) = place(i)
    BY <1>5, <2>1
  <2> QED
    BY <1>1, <2>1, <2>2
<1> QED
  BY <1>1, <1>5, <1>6 DEF n, kept, place

\* Messages come in their order.
LEMMA NthIsInOrder ==
  ASSUME NEW entry \in ExportEntry, NEW j \in 1..Cardinality(Kept(entry)), NEW k \in 1..Cardinality(Kept(entry)),
         SortsBefore(entry, Nth(entry, j), Nth(entry, k))
  PROVE  j < k
<1> DEFINE kept == Kept(entry)
           x == Nth(entry, k)
           y == Nth(entry, j)
<1>1. x \in kept /\ y \in kept /\ Place(x, kept, Later(entry)) = k /\ Place(y, kept, Later(entry)) = j
  BY NthIs
<1>2. <<x, y>> \in Later(entry)
  BY <1>1 DEF Later
<1>3. IsFiniteSet(kept) /\ Orders(Later(entry), kept)
  BY KeptIsOrdered
<1> HIDE DEF x, y, kept
<1>4. Place(y, kept, Later(entry)) < Place(x, kept, Later(entry))
  BY <1>1, <1>2, <1>3, PlacesGrow
<1> QED
  BY <1>1, <1>4

-----------------------------------------------------------------------------
(* The tree of an entry's messages *)

TreeRow == [parent : SourceIds \cup {Absent}, depth : Nat]
Trees == UNION {[ids -> TreeRow] : ids \in SUBSET SourceIds}

\* What the first messages are called.
FirstIds(s, n) == {s[i].id : i \in 1..n}

\* A message has its parent if that one came before it.
RowIs(tree, s, k) ==
  LET known == s[k].parent \in FirstIds(s, k - 1)
  IN /\ tree[s[k].id].parent = IF known THEN s[k].parent ELSE Absent
     /\ tree[s[k].id].depth = IF known THEN tree[s[k].parent].depth + 1 ELSE 0

LEMMA TreesAre ==
  ASSUME NEW tree \in Trees
  PROVE  DOMAIN tree \subseteq SourceIds /\ tree \in [DOMAIN tree -> TreeRow]
BY DEF Trees

LEMMA PlantedIs ==
  ASSUME NEW tree \in Trees, NEW node \in ExportNode
  PROVE  LET known == node.parent \in DOMAIN tree
             new == Planted(tree, node)
         IN /\ new \in Trees /\ DOMAIN new = DOMAIN tree \cup {node.id}
            /\ \A m \in DOMAIN tree \ {node.id} : new[m] = tree[m]
            /\ new[node.id].parent = IF known THEN node.parent ELSE Absent
            /\ new[node.id].depth = IF known THEN tree[node.parent].depth + 1 ELSE 0
<1> DEFINE known == node.parent \in DOMAIN tree
           row == [parent |-> IF known THEN node.parent ELSE Absent,
                   depth |-> IF known THEN tree[node.parent].depth + 1 ELSE 0]
           ids == DOMAIN tree \cup {node.id}
           new == [m \in ids |-> IF m = node.id THEN row ELSE tree[m]]
<1>1. node.id \in SourceIds /\ node.parent \in SourceIds \cup {Absent}
  BY DEF ExportNode
<1>2. DOMAIN tree \subseteq SourceIds /\ tree \in [DOMAIN tree -> TreeRow]
  BY TreesAre
<1>3. \A m \in DOMAIN tree : tree[m] \in TreeRow /\ tree[m].depth \in Nat
  <2>1. \A m \in DOMAIN tree : tree[m] \in TreeRow
    BY <1>2
  <2> QED
    BY <2>1 DEF TreeRow
<1>4. row \in TreeRow
  <2>1. known => tree[node.parent].depth + 1 \in Nat
    BY <1>3
  <2> QED
    BY <1>1, <2>1 DEF TreeRow
<1>5. Planted(tree, node) = new
  BY DEF Planted
<1>6. row.parent = (IF known THEN node.parent ELSE Absent)
      /\ row.depth = (IF known THEN tree[node.parent].depth + 1 ELSE 0)
  OBVIOUS
<1> HIDE DEF known, row
<1>7. ids \in SUBSET SourceIds /\ new \in [ids -> TreeRow]
  BY <1>1, <1>2, <1>3, <1>4
<1>8. new \in Trees
  BY <1>7 DEF Trees
<1>9. DOMAIN new = ids /\ new[node.id] = row /\ \A m \in DOMAIN tree \ {node.id} : new[m] = tree[m]
  OBVIOUS
<1> HIDE DEF new
<1> QED
  BY <1>5, <1>6, <1>8, <1>9 DEF known

\* The trees after one message, two messages and so on.
Grows(tree, s) ==
  /\ tree \in [0..Len(s) -> Trees]
  /\ tree[0] = NoMessages
  /\ \A k \in 1..Len(s) : tree[k] = Planted(tree[k - 1], s[k])

LEMMA NoMessagesIsTree == NoMessages \in Trees /\ DOMAIN NoMessages = {}
<1>1. NoMessages \in [{} -> TreeRow] /\ {} \in SUBSET SourceIds
  BY DEF NoMessages
<1> QED
  BY <1>1 DEF Trees, NoMessages

LEMMA GrowthIs ==
  ASSUME NEW s \in Seq(ExportNode)
  PROVE  \E tree : Grows(tree, s) /\ Grown(s) = tree[Len(s)]
<1> DEFINE N == Len(s)
           F == [k \in 1..N |-> [t \in Trees |-> Planted(t, s[k])]]
           Body(g) == [k \in 0..N |-> IF k = 0 THEN NoMessages ELSE Planted(g[k - 1], s[k])]
           tree == CHOOSE g : g = Body(g)
<1>1. N \in Nat /\ \A k \in 1..N : s[k] \in ExportNode
  BY LenProperties
<1>2. F \in [1..N -> [Trees -> Trees]] /\ \A k \in 1..N, t \in Trees : F[k][t] = Planted(t, s[k])
  BY <1>1, PlantedIs
<1>3. Grown(s) = tree[N]
  BY DEF Grown
<1> HIDE DEF F, N
<1>4. PICK g : g \in [0..N -> Trees] /\ g[0] = NoMessages /\ \A k \in 1..N : g[k] = F[k][g[k - 1]]
  <2>1. NoMessages \in Trees /\ N \in Nat /\ F \in LoopTurns(N, Trees)
    BY <1>1, <1>2, NoMessagesIsTree DEF LoopTurns
  <2>2. \E g : Loops(g, N, Trees, NoMessages, F)
    BY <2>1, Iterates, Zenon
  <2> QED
    BY <2>2 DEF Loops
<1>5. g = Body(g)
  <2>1. \A k \in 0..N : g[k] = IF k = 0 THEN NoMessages ELSE Planted(g[k - 1], s[k])
    <3>1. \A k \in 0..N : k # 0 => k \in 1..N /\ k - 1 \in 0..N
      BY <1>1
    <3> QED
      BY <1>2, <1>4, <3>1
  <2> QED
    BY <1>4, <2>1
<1> HIDE DEF Body
<1>6. tree = Body(tree)
  BY <1>5
<1> HIDE DEF tree
<1>7. \A k \in 0..N : tree[k] = IF k = 0 THEN NoMessages ELSE Planted(tree[k - 1], s[k])
  <2>1. \A h : \A k \in 0..N : Body(h)[k] = IF k = 0 THEN NoMessages ELSE Planted(h[k - 1], s[k])
    BY DEF Body
  <2> QED
    BY <1>6, <2>1
<1>8. tree[0] = NoMessages /\ \A k \in 1..N : tree[k] = Planted(tree[k - 1], s[k])
  BY <1>1, <1>7
<1>9. \A k \in 0..N : tree[k] \in Trees
  <2> DEFINE P == {k \in 0..N : tree[k] \in Trees}
  <2>1. P \in SUBSET (0..N) /\ 0 \in P
    BY <1>1, <1>8, NoMessagesIsTree
  <2>2. ASSUME NEW k \in P, k < N PROVE k + 1 \in P
    <3>1. k + 1 \in 1..N /\ k + 1 \in 0..N /\ k + 1 - 1 = k
      BY <1>1, <2>2
    <3>2. tree[k] \in Trees /\ s[k + 1] \in ExportNode /\ tree[k + 1] = Planted(tree[k], s[k + 1])
      BY <1>1, <1>8, <2>2, <3>1
    <3>3. tree[k + 1] \in Trees
      BY <3>2, PlantedIs
    <3> QED
      BY <3>1, <3>3
  <2>3. \A k \in 0..N : k \in P
    <3> HIDE DEF P
    <3> QED
      BY <1>1, <2>1, <2>2, UpTo
  <2> QED
    BY <2>3
<1>10. \E B : tree = [k \in 0..N |-> B[k]]
  <2>1. tree = [k \in 0..N |-> tree[k]]
    BY <1>6 DEF Body
  <2> QED
    BY <2>1
<1>11. Grows(tree, s)
  BY <1>8, <1>9, <1>10 DEF Grows, N
<1> QED
  BY <1>3, <1>11 DEF N

\* Each message has its row, under the parent that came before it.
LEMMA GrownIs ==
  ASSUME NEW s \in Seq(ExportNode), NamesOnce(s)
  PROVE  /\ Grown(s) \in Trees
         /\ DOMAIN Grown(s) = FirstIds(s, Len(s))
         /\ \A k \in 1..Len(s) : RowIs(Grown(s), s, k)
<1>1. PICK tree : Grows(tree, s) /\ Grown(s) = tree[Len(s)]
  BY GrowthIs
<1> DEFINE N == Len(s)
           P == {n \in 0..N : /\ DOMAIN tree[n] = FirstIds(s, n)
                              /\ \A k \in 1..n : RowIs(tree[n], s, k)}
<1>2. /\ N \in Nat /\ (\A k \in 1..N : s[k] \in ExportNode)
      /\ \A i, j \in 1..N : s[i].id = s[j].id => i = j
  BY LenProperties DEF NamesOnce
<1>3. /\ tree[0] = NoMessages
      /\ \A k \in 1..N : tree[k] = Planted(tree[k - 1], s[k])
      /\ \A k \in 0..N : tree[k] \in Trees
  BY <1>1 DEF Grows
<1> HIDE DEF N
<1>4. P \in SUBSET (0..N) /\ 0 \in P
  <2>1. FirstIds(s, 0) = {} /\ 1..0 = {}
    BY DEF FirstIds
  <2>2. DOMAIN tree[0] = FirstIds(s, 0)
    BY <1>3, <2>1, NoMessagesIsTree
  <2>3. \A k \in 1..0 : RowIs(tree[0], s, k)
    BY <2>1
  <2>4. 0 \in 0..N
    BY <1>2
  <2> QED
    BY <2>2, <2>3, <2>4
<1>5. ASSUME NEW n \in P, n < N PROVE n + 1 \in P
  <2> DEFINE old == tree[n]
             new == tree[n + 1]
             node == s[n + 1]
  <2>1. n \in Nat /\ n + 1 \in 1..N /\ n + 1 \in 0..N /\ n + 1 - 1 = n
    BY <1>2, <1>5
  <2>2. old \in Trees /\ node \in ExportNode /\ new = Planted(old, node)
    BY <1>2, <1>3, <2>1
  <2>3. DOMAIN old = FirstIds(s, n) /\ \A k \in 1..n : RowIs(old, s, k)
    OBVIOUS
  <2>4. FirstIds(s, n + 1) = FirstIds(s, n) \cup {node.id}
    BY <2>1 DEF FirstIds
  <2>5. node.id \notin FirstIds(s, n)
    BY <1>2, <2>1 DEF FirstIds
  <2> HIDE DEF old, new, node, P
  <2>6. /\ DOMAIN new = FirstIds(s, n + 1)
        /\ \A m \in FirstIds(s, n) : new[m] = old[m]
        /\ new[node.id].parent = IF node.parent \in FirstIds(s, n) THEN node.parent ELSE Absent
        /\ new[node.id].depth = IF node.parent \in FirstIds(s, n) THEN old[node.parent].depth + 1 ELSE 0
    <3>1. /\ DOMAIN new = DOMAIN old \cup {node.id}
          /\ \A m \in DOMAIN old \ {node.id} : new[m] = old[m]
          /\ new[node.id].parent = IF node.parent \in DOMAIN old THEN node.parent ELSE Absent
          /\ new[node.id].depth = IF node.parent \in DOMAIN old THEN old[node.parent].depth + 1 ELSE 0
      BY <2>2, PlantedIs, Zenon
    <3>2. DOMAIN old = FirstIds(s, n)
      BY <2>3
    <3>3. FirstIds(s, n) \ {node.id} = FirstIds(s, n)
      BY <2>5
    <3> QED
      BY <2>4, <3>1, <3>2, <3>3
  <2>7. ASSUME NEW k \in 1..n PROVE RowIs(new, s, k)
    <3>1. s[k].id \in FirstIds(s, n) /\ FirstIds(s, k - 1) \subseteq FirstIds(s, n)
      BY <2>1 DEF FirstIds
    <3>2. RowIs(old, s, k)
      BY <2>3
    <3>3. new[s[k].id] = old[s[k].id]
      BY <2>6, <3>1
    <3>4. s[k].parent \in FirstIds(s, k - 1) => new[s[k].parent] = old[s[k].parent]
      BY <2>6, <3>1
    <3> QED
      BY <3>2, <3>3, <3>4 DEF RowIs
  <2>8. RowIs(new, s, n + 1)
    BY <2>1, <2>6 DEF RowIs, node
  <2>9. \A k \in 1..n + 1 : RowIs(new, s, k)
    <3>1. \A k \in 1..n + 1 : k \in 1..n \/ k = n + 1
      BY <2>1
    <3> QED
      BY <2>7, <2>8, <3>1
  <2> QED
    BY <2>1, <2>6, <2>9 DEF P, new
<1>6. \A n \in 0..N : n \in P
  <2> HIDE DEF P
  <2> QED
    BY <1>2, <1>4, <1>5, UpTo
<1>7. N \in P
  BY <1>2, <1>6
<1> QED
  BY <1>1, <1>2, <1>3, <1>7 DEF N

-----------------------------------------------------------------------------
(* The shape of a chat *)

LEMMA NodesAre ==
  ASSUME NEW entry \in ExportEntry, NamesOnce(entry.nodes)
  PROVE  LET n == Cardinality(Kept(entry))
             s == Nodes(entry)
         IN /\ s \in Seq(ExportNode) /\ n \in Nat /\ Len(s) = n /\ NamesOnce(s)
            /\ \A k \in 1..n :
                 /\ s[k].id = entry.nodes[Nth(entry, k)].id
                 /\ ~entry.flat => s[k].parent = entry.nodes[Nth(entry, k)].parent
                 /\ entry.flat => s[k].parent = IF k = 1 THEN Absent ELSE s[k - 1].id
<1> DEFINE n == Cardinality(Kept(entry))
           s == Nodes(entry)
           nodes == entry.nodes
           nth(k) == Nth(entry, k)
<1>1. /\ n \in Nat
      /\ \A k \in 1..n : nth(k) \in Kept(entry) /\ Place(nth(k), Kept(entry), Later(entry)) = k
  BY NthIs
<1>2. \A k \in 1..n : nth(k) \in DOMAIN nodes
  BY <1>1, KeptIsOrdered DEF Kept
<1>3. \A k \in 1..n : nodes[nth(k)] \in ExportNode
  BY <1>2, KeptIsOrdered
<1>4. \A j, k \in 1..n : nth(j) = nth(k) => j = k
  BY <1>1
<1>5. s = [k \in 1..n |->
             IF ~entry.flat THEN nodes[nth(k)]
             ELSE [nodes[nth(k)] EXCEPT !.parent = IF k = 1 THEN Absent ELSE nodes[nth(k - 1)].id]]
  BY DEF Nodes
<1> HIDE DEF n, s, nth
<1>6. ASSUME NEW k \in 1..n
      PROVE  /\ s[k] \in ExportNode /\ s[k].id = nodes[nth(k)].id
             /\ ~entry.flat => s[k].parent = nodes[nth(k)].parent
             /\ entry.flat => s[k].parent = IF k = 1 THEN Absent ELSE nodes[nth(k - 1)].id
  <2> DEFINE node == nodes[nth(k)]
             parent == IF k = 1 THEN Absent ELSE nodes[nth(k - 1)].id
  <2>1. node \in ExportNode
    BY <1>3
  <2>2. parent \in SourceIds \cup {Absent}
    <3>1. k # 1 => k - 1 \in 1..n
      BY <1>1
    <3>2. k # 1 => nodes[nth(k - 1)] \in ExportNode
      BY <1>3, <3>1
    <3> QED
      BY <3>2 DEF ExportNode
  <2>3. s[k] = IF ~entry.flat THEN node ELSE [node EXCEPT !.parent = parent]
    BY <1>5
  <2> HIDE DEF node, parent
  <2>4. [node EXCEPT !.parent = parent] \in ExportNode
        /\ [node EXCEPT !.parent = parent].parent = parent
        /\ [node EXCEPT !.parent = parent].id = node.id
    BY <2>1, <2>2 DEF ExportNode
  <2> QED
    BY <2>1, <2>3, <2>4 DEF node, parent
<1>7. s \in [1..n -> ExportNode]
  BY <1>5, <1>6
<1>8. s \in Seq(ExportNode) /\ Len(s) = n
  BY <1>1, <1>7
<1>9. NamesOnce(s)
  <2> SUFFICES ASSUME NEW i \in 1..n, NEW j \in 1..n, s[i].id = s[j].id PROVE i = j
    BY <1>7 DEF NamesOnce
  <2>1. nodes[nth(i)].id = nodes[nth(j)].id
    BY <1>6
  <2>2. nth(i) = nth(j)
    BY <1>2, <2>1 DEF NamesOnce
  <2> QED
    BY <1>4, <2>2
<1>10. ASSUME NEW k \in 1..n
       PROVE  /\ s[k].id = nodes[nth(k)].id
              /\ ~entry.flat => s[k].parent = nodes[nth(k)].parent
              /\ entry.flat => s[k].parent = IF k = 1 THEN Absent ELSE s[k - 1].id
  <2>1. k # 1 => k - 1 \in 1..n
    BY <1>1
  <2>2. k # 1 => s[k - 1].id = nodes[nth(k - 1)].id
    BY <1>6, <2>1
  <2> QED
    BY <1>6, <2>2
<1> QED
  BY <1>1, <1>8, <1>9, <1>10 DEF n, s, nth

\* The names of an entry's messages.
IdsOf(entry) == {entry.nodes[i].id : i \in Kept(entry)}

LEMMA IdsAre ==
  ASSUME NEW entry \in ExportEntry, NamesOnce(entry.nodes)
  PROVE  FirstIds(Nodes(entry), Cardinality(Kept(entry))) = IdsOf(entry)
<1> DEFINE n == Cardinality(Kept(entry))
           s == Nodes(entry)
<1>1. \A k \in 1..n : s[k].id = entry.nodes[Nth(entry, k)].id
  BY NodesAre
<1>2. \A k \in 1..n : Nth(entry, k) \in Kept(entry)
  BY NthIs
<1>3. \A i \in Kept(entry) : \E k \in 1..n : Nth(entry, k) = i
  BY NthIs
<1> HIDE DEF n, s
<1>4. FirstIds(s, n) \subseteq IdsOf(entry)
  BY <1>1, <1>2 DEF FirstIds, IdsOf
<1>5. IdsOf(entry) \subseteq FirstIds(s, n)
  <2> SUFFICES ASSUME NEW i \in Kept(entry) PROVE entry.nodes[i].id \in FirstIds(s, n)
    BY DEF IdsOf
  <2>1. PICK k \in 1..n : Nth(entry, k) = i
    BY <1>3
  <2> QED
    BY <1>1, <2>1 DEF FirstIds
<1> QED
  BY <1>4, <1>5 DEF n, s

\* In the legacy list each message is one deeper than the one before it.
LEMMA FlatDepths ==
  ASSUME NEW entry \in ExportEntry, NamesOnce(entry.nodes), entry.flat, NEW k \in 1..Cardinality(Kept(entry))
  PROVE  Grown(Nodes(entry))[Nodes(entry)[k].id].depth = k - 1
<1> DEFINE n == Cardinality(Kept(entry))
           s == Nodes(entry)
           tree == Grown(s)
           P == {j \in 0..n : j > 0 => tree[s[j].id].depth = j - 1}
<1>1. n \in Nat /\ s \in Seq(ExportNode) /\ Len(s) = n /\ NamesOnce(s)
  BY NodesAre
<1>2. \A j \in 1..n : s[j].parent = IF j = 1 THEN Absent ELSE s[j - 1].id
  BY NodesAre
<1>3. \A j \in 1..n : RowIs(tree, s, j)
  BY <1>1, GrownIs
<1>4. \A j \in 1..n : s[j].id \in SourceIds
  <2>1. \A j \in 1..n : s[j] \in ExportNode
    BY <1>1
  <2> QED
    BY <2>1 DEF ExportNode
<1> HIDE DEF n, s, tree
<1>5. P \in SUBSET (0..n) /\ 0 \in P
  BY <1>1
<1>6. ASSUME NEW j \in P, j < n PROVE j + 1 \in P
  <2>1. j \in Nat /\ j + 1 \in 1..n /\ j + 1 \in 0..n /\ j + 1 - 1 = j
    BY <1>1, <1>6
  <2>2. tree[s[j + 1].id].depth =
          IF s[j + 1].parent \in FirstIds(s, j) THEN tree[s[j + 1].parent].depth + 1 ELSE 0
    BY <1>3, <2>1 DEF RowIs
  <2>3. CASE j = 0
    <3>1. FirstIds(s, j) = {}
      BY <2>3 DEF FirstIds
    <3> QED
      BY <2>1, <2>2, <2>3, <3>1
  <2>4. CASE j # 0
    <3>1. j \in 1..n /\ s[j + 1].parent = s[j].id
      BY <1>1, <1>2, <2>1, <2>4
    <3>2. s[j].id \in FirstIds(s, j)
      BY <2>1, <3>1 DEF FirstIds
    <3>3. tree[s[j].id].depth = j - 1
      BY <1>6, <3>1
    <3>4. tree[s[j + 1].id].depth = (j - 1) + 1
      BY <2>2, <3>1, <3>2, <3>3
    <3> QED
      BY <2>1, <3>4
  <2> QED
    BY <2>3, <2>4
<1>7. \A j \in 0..n : j \in P
  <2> HIDE DEF P
  <2> QED
    BY <1>1, <1>5, <1>6, UpTo
<1>8. k \in P /\ k > 0
  BY <1>1, <1>7 DEF n
<1> QED
  BY <1>8 DEF n, s, tree

\* What an entry that has messages becomes.
LEMMA NewChatIsWhole ==
  ASSUME NEW entry \in ExportEntry, NamesOnce(entry.nodes), Kept(entry) # {}
  PROVE  /\ Grown(Nodes(entry)) \in Trees /\ Leaf(entry) \in SourceIds
         /\ ShapeIsKept(entry, Grown(Nodes(entry)), Leaf(entry))
<1> DEFINE n == Cardinality(Kept(entry))
           s == Nodes(entry)
           tree == Grown(s)
           nodes == entry.nodes
           nth(k) == Nth(entry, k)
           ids == IdsOf(entry)
<1>1. n \in Nat /\ s \in Seq(ExportNode) /\ Len(s) = n /\ NamesOnce(s)
  BY NodesAre
<1>2. \A k \in 1..n : /\ s[k].id = nodes[nth(k)].id
                      /\ ~entry.flat => s[k].parent = nodes[nth(k)].parent
  BY NodesAre
<1>3. \A k \in 1..n : nth(k) \in Kept(entry) /\ Place(nth(k), Kept(entry), Later(entry)) = k
  BY NthIs
<1>4. \A i \in Kept(entry) : \E k \in 1..n : nth(k) = i
  BY NthIs
<1>5. tree \in Trees /\ DOMAIN tree = ids /\ \A k \in 1..n : RowIs(tree, s, k)
  BY <1>1, GrownIs, IdsAre
<1>6. Kept(entry) \subseteq DOMAIN nodes /\ Kept(entry) = {i \in DOMAIN nodes : nodes[i].role}
  BY DEF Kept
<1>7. n > 0
  BY <1>1, <1>4
<1>8. ids \subseteq SourceIds
  BY <1>5, TreesAre
<1>9. FirstIds(s, n) = ids /\ \A k \in 1..n : s[k].id \in ids
  <2>1. FirstIds(s, n) = ids
    BY IdsAre
  <2> QED
    BY <2>1 DEF FirstIds
<1> DEFINE leaf == Leaf(entry)
<1>10. leaf = IF ~entry.flat /\ \E k \in DOMAIN s : s[k].id = entry.current
              THEN entry.current ELSE s[Len(s)].id
  BY DEF Leaf
<1>11. /\ leaf \in ids
       /\ entry.current \in ids /\ ~entry.flat => leaf = entry.current
  <2>1. DOMAIN s = 1..n /\ n \in 1..n /\ s[Len(s)].id \in ids
    BY <1>1, <1>7, <1>9
  <2>2. entry.current \in ids <=> \E k \in DOMAIN s : s[k].id = entry.current
    BY <1>9, <2>1 DEF FirstIds
  <2> QED
    BY <1>10, <2>1, <2>2
<1> DEFINE Follows(i, j) ==
             nodes[j].stamp < nodes[i].stamp \/ (nodes[j].stamp = nodes[i].stamp /\ j < i)
           orderly == \A i, j \in Kept(entry) : nodes[i].parent = nodes[j].id => Follows(i, j)
<1>12. ASSUME orderly, ~entry.flat, NEW i \in Kept(entry)
       PROVE  tree[nodes[i].id].parent = IF nodes[i].parent \in ids THEN nodes[i].parent ELSE Absent
  <2>1. PICK k \in 1..n : nth(k) = i
    BY <1>4
  <2>2. s[k].id = nodes[i].id /\ s[k].parent = nodes[i].parent
    BY <1>2, <1>12, <2>1
  <2>3. tree[nodes[i].id].parent =
          IF nodes[i].parent \in FirstIds(s, k - 1) THEN nodes[i].parent ELSE Absent
    BY <1>5, <2>2 DEF RowIs
  <2>4. FirstIds(s, k - 1) \subseteq ids
    BY <1>1, <1>9 DEF FirstIds
  <2>5. ASSUME nodes[i].parent \in ids PROVE nodes[i].parent \in FirstIds(s, k - 1)
    <3>1. PICK j \in Kept(entry) : nodes[i].parent = nodes[j].id
      BY <2>5 DEF IdsOf
    <3>2. PICK l \in 1..n : nth(l) = j
      BY <1>4
    <3>3. SortsBefore(entry, j, i)
      BY <1>12, <3>1 DEF SortsBefore
    <3>4. l < k
      BY <2>1, <3>2, <3>3, NthIsInOrder
    <3>5. l \in 1..k - 1 /\ s[l].id = nodes[i].parent
      BY <1>1, <1>2, <3>1, <3>2, <3>4
    <3> QED
      BY <3>5 DEF FirstIds
  <2> QED
    BY <2>3, <2>4, <2>5
<1>13. ASSUME entry.flat, NEW i \in Kept(entry)
       PROVE  tree[nodes[i].id].depth = Cardinality({j \in Kept(entry) : j < i})
  <2>1. PICK k \in 1..n : nth(k) = i
    BY <1>4
  <2>2. s[k].id = nodes[i].id
    BY <1>2, <2>1
  <2>3. tree[nodes[i].id].depth = k - 1
    BY <1>13, <2>2, FlatDepths
  <2>4. {j \in Kept(entry) : <<i, j>> \in Later(entry)} = {j \in Kept(entry) : j < i}
    BY <1>13 DEF Later, SortsBefore
  <2>5. k = Cardinality({j \in Kept(entry) : j < i}) + 1
    BY <1>3, <2>1, <2>4 DEF Place
  <2>6. Cardinality({j \in Kept(entry) : j < i}) \in Nat
    <3>1. IsFiniteSet({j \in Kept(entry) : j < i})
      BY KeptIsOrdered, FS_Subset
    <3> QED
      BY <3>1, FS_CardinalityType
  <2> QED
    BY <2>3, <2>5, <2>6
<1> HIDE DEF tree, s, leaf, n, nth, ids
<1>14. ids = {nodes[i].id : i \in Kept(entry)}
  BY DEF ids, IdsOf
<1>15. ShapeIsKept(entry, tree, leaf)
  <2> DEFINE linked == \A i \in Kept(entry) :
               tree[nodes[i].id].parent = IF nodes[i].parent \in ids THEN nodes[i].parent ELSE Absent
             lined == \A i \in Kept(entry) :
               tree[nodes[i].id].depth = Cardinality({j \in Kept(entry) : j < i})
  <2>1. ShapeIsKept(entry, tree, leaf) <=>
          /\ DOMAIN tree = ids /\ leaf \in ids
          /\ entry.current \in ids /\ ~entry.flat => leaf = entry.current
          /\ orderly /\ ~entry.flat => linked
          /\ entry.flat => lined
    BY <1>6, <1>14 DEF ShapeIsKept
  <2>2. orderly /\ ~entry.flat => linked
    BY <1>12
  <2>3. entry.flat => lined
    BY <1>13
  <2> HIDE DEF linked, lined, orderly
  <2> QED
    BY <1>5, <1>11, <2>1, <2>2, <2>3
<1> QED
  BY <1>5, <1>8, <1>11, <1>15 DEF tree, s, leaf

-----------------------------------------------------------------------------
(* A run of the import, entry by entry *)

ImportedChats ==
  {c \in [of : ExportEntry, tree : Trees, leaf : SourceIds, folder : Nat, live : BOOLEAN] :
     ShapeIsKept(c.of, c.tree, c.leaf)}

NoneTwice(records) ==
  \A i, j \in DOMAIN records : records[i].live /\ records[j].live /\ records[i].of.id = records[j].of.id => i = j

FolderIds == UNION {[names -> Nat] : names \in SUBSET FolderNames}

RunTypes ==
  [chats : Seq(ImportedChats), folders : Nat, folderIds : FolderIds, seen : SUBSET (SourceIds \cup {Absent}),
   tags : SUBSET TagNames, created : Nat, skipped : Nat]

\* A run knows the sources of all chats that are not deleted.
Knows(run) == \A i \in DOMAIN run.chats : run.chats[i].live => run.chats[i].of.id \in run.seen

ImportRuns == {run \in RunTypes : NoneTwice(run.chats) /\ Knows(run)}

LEMMA FiledIs ==
  ASSUME NEW run \in RunTypes, NEW entry \in ExportEntry
  PROVE  /\ Filed(run, entry) \in FolderIds
         /\ entry.folder \in FolderNames => Filed(run, entry)[entry.folder] \in Nat
<1> DEFINE old == run.folderIds
           names == DOMAIN old \cup {entry.folder}
           new == [f \in names |-> IF f = entry.folder THEN run.folders + 1 ELSE old[f]]
<1>1. old \in FolderIds /\ run.folders \in Nat
  BY DEF RunTypes
<1>2. DOMAIN old \subseteq FolderNames /\ old \in [DOMAIN old -> Nat]
  BY <1>1 DEF FolderIds
<1>3. Filed(run, entry) = IF entry.folder \in FolderNames \ DOMAIN old THEN new ELSE old
  BY DEF Filed
<1>4. CASE entry.folder \in FolderNames \ DOMAIN old
  <2>1. names \in SUBSET FolderNames
    BY <1>2, <1>4
  <2>2. new \in [names -> Nat]
    BY <1>1, <1>2
  <2>3. new \in FolderIds
    BY <2>1, <2>2 DEF FolderIds
  <2>4. new[entry.folder] \in Nat
    BY <1>1
  <2> HIDE DEF new
  <2> QED
    BY <1>3, <1>4, <2>3, <2>4
<1>5. CASE entry.folder \notin FolderNames \ DOMAIN old
  BY <1>1, <1>2, <1>3, <1>5
<1> QED
  BY <1>4, <1>5

LEMMA TakenIsRun ==
  ASSUME NEW run \in ImportRuns, NEW entry \in ExportEntry, NamesOnce(entry.nodes),
         ~Malformed(entry), entry.id \notin run.seen
  PROVE  Taken(run, entry) \in ImportRuns
<1> DEFINE ids == Filed(run, entry)
           folder == IF entry.folder \in FolderNames THEN ids[entry.folder] ELSE 0
           c == NewChat(entry, folder)
           n == Len(run.chats)
           longer == Append(run.chats, c)
           new == Taken(run, entry)
<1>1. run \in RunTypes /\ NoneTwice(run.chats) /\ Knows(run)
  BY DEF ImportRuns
<1>2. ids \in FolderIds /\ folder \in Nat
  BY <1>1, FiledIs
<1>3. new = [chats |-> longer, folders |-> IF ids = run.folderIds THEN run.folders ELSE run.folders + 1,
             folderIds |-> ids, seen |-> run.seen \cup {entry.id}, tags |-> run.tags \cup entry.tags,
             created |-> run.created + 1, skipped |-> run.skipped]
  BY DEF Taken
<1>4. entry.tags \in SUBSET TagNames /\ entry.id \in SourceIds \cup {Absent}
  BY DEF ExportEntry
<1>5. c \in ImportedChats /\ c.of = entry /\ c.live = TRUE
  <2> HIDE DEF folder
  <2>1. Kept(entry) # {}
    BY DEF Malformed
  <2>2. /\ Grown(Nodes(entry)) \in Trees /\ Leaf(entry) \in SourceIds
        /\ ShapeIsKept(entry, Grown(Nodes(entry)), Leaf(entry))
    BY <2>1, NewChatIsWhole
  <2>3. c = [of |-> entry, tree |-> Grown(Nodes(entry)), leaf |-> Leaf(entry),
             folder |-> folder, live |-> TRUE]
    BY DEF NewChat
  <2> HIDE DEF c
  <2> QED
    BY <1>2, <2>2, <2>3 DEF ImportedChats
<1> HIDE DEF folder, ids, c
<1>6. /\ run.chats \in Seq(ImportedChats) /\ run.folders \in Nat /\ run.created \in Nat /\ run.skipped \in Nat
      /\ run.seen \in SUBSET (SourceIds \cup {Absent}) /\ run.tags \in SUBSET TagNames
  BY <1>1 DEF RunTypes
<1>7. /\ n \in Nat /\ longer \in Seq(ImportedChats) /\ Len(longer) = n + 1
      /\ \A i \in 1..n : longer[i] = run.chats[i]
      /\ longer[n + 1] = c
  BY <1>5, <1>6
<1>8. DOMAIN longer = 1..n + 1 /\ DOMAIN run.chats = 1..n
  BY <1>6, <1>7
<1> HIDE DEF longer, n
<1>9. new \in RunTypes
  <2> HIDE DEF new
  <2> QED
    BY <1>2, <1>3, <1>4, <1>6, <1>7 DEF RunTypes
<1>10. new.chats = longer /\ new.seen = run.seen \cup {entry.id}
  BY <1>3
<1> HIDE DEF new
<1>11. \A i \in 1..n + 1 : i \in 1..n \/ i = n + 1
  BY <1>7
<1>12. \A i \in 1..n : longer[i].live => longer[i].of.id \in run.seen
  BY <1>1, <1>7, <1>8 DEF Knows
<1>13. NoneTwice(longer)
  <2> SUFFICES ASSUME NEW i \in 1..n + 1, NEW j \in 1..n + 1,
                      longer[i].live, longer[j].live, longer[i].of.id = longer[j].of.id
               PROVE  i = j
    BY <1>8 DEF NoneTwice
  <2>1. CASE i \in 1..n /\ j \in 1..n
    BY <1>1, <1>7, <1>8, <2>1 DEF NoneTwice
  <2>2. CASE i \in 1..n /\ j = n + 1
    BY <1>5, <1>7, <1>12, <2>2
  <2>3. CASE i = n + 1 /\ j \in 1..n
    BY <1>5, <1>7, <1>12, <2>3
  <2> QED
    BY <1>11, <2>1, <2>2, <2>3
<1>14. Knows(new)
  <2> SUFFICES ASSUME NEW i \in 1..n + 1, longer[i].live PROVE longer[i].of.id \in run.seen \cup {entry.id}
    BY <1>8, <1>10 DEF Knows
  <2> QED
    BY <1>5, <1>7, <1>11, <1>12
<1>15. new \in ImportRuns
  BY <1>9, <1>10, <1>13, <1>14 DEF ImportRuns
<1> QED
  BY <1>15 DEF new

LEMMA OneEntryIsRun ==
  ASSUME NEW run \in ImportRuns, NEW entry \in ExportEntry, NamesOnce(entry.nodes)
  PROVE  OneEntry(run, entry) \in ImportRuns
<1>1. CASE Malformed(entry) \/ entry.id \in run.seen
  <2> DEFINE new == Skipped(run)
  <2>1. run \in RunTypes /\ NoneTwice(run.chats) /\ Knows(run) /\ run.skipped + 1 \in Nat
    BY DEF ImportRuns, RunTypes
  <2>2. new = [run EXCEPT !.skipped = run.skipped + 1]
    BY DEF Skipped
  <2> HIDE DEF new
  <2>3. new \in RunTypes /\ new.chats = run.chats /\ new.seen = run.seen
    BY <2>1, <2>2 DEF RunTypes
  <2>4. new \in ImportRuns
    BY <2>1, <2>3 DEF ImportRuns, Knows
  <2> QED
    BY <1>1, <2>4 DEF OneEntry, new
<1>2. CASE ~(Malformed(entry) \/ entry.id \in run.seen)
  <2>1. Taken(run, entry) \in ImportRuns
    BY <1>2, TakenIsRun
  <2> QED
    BY <1>2, <2>1 DEF OneEntry
<1> QED
  BY <1>1, <1>2

-----------------------------------------------------------------------------
(* Imports: the inductive invariant *)

ImportIInv ==
  /\ imported \in Seq(ImportedChats) /\ NoneTwice(imported)
  /\ folders \in Nat /\ tags \subseteq TagNames

LEMMA ImportIInvImplies == ASSUME ImportIInv PROVE ImportsKeepChats
<1>1. ImportedOnce
  BY DEF ImportIInv, NoneTwice, ImportedOnce
<1>2. TreesKeepTheirShape
  <2>1. \A k \in DOMAIN imported : imported[k] \in ImportedChats
    BY DEF ImportIInv
  <2> QED
    BY <2>1 DEF ImportedChats, TreesKeepTheirShape
<1> QED
  BY <1>1, <1>2 DEF ImportsKeepChats

LEMMA RunBeginsRight == ASSUME ImportIInv PROVE RunBegins \in ImportRuns
<1> DEFINE none == [f \in {} |-> 0]
<1>1. none \in FolderIds
  <2>1. none \in [{} -> Nat] /\ {} \in SUBSET FolderNames
    OBVIOUS
  <2> QED
    BY <2>1 DEF FolderIds
<1>2. \A k \in DOMAIN imported : imported[k].of.id \in SourceIds \cup {Absent}
  <2>1. \A k \in DOMAIN imported : imported[k] \in ImportedChats
    BY DEF ImportIInv
  <2>2. \A k \in DOMAIN imported : imported[k].of \in ExportEntry
    BY <2>1 DEF ImportedChats
  <2> QED
    BY <2>2 DEF ExportEntry
<1>3. /\ LiveSources \in SUBSET (SourceIds \cup {Absent})
      /\ \A k \in DOMAIN imported : imported[k].live => imported[k].of.id \in LiveSources
  BY <1>2 DEF LiveSources
<1> HIDE DEF none
<1> DEFINE run == RunBegins
<1>4. run = [chats |-> imported, folders |-> folders, folderIds |-> none,
             seen |-> LiveSources, tags |-> tags, created |-> 0, skipped |-> 0]
  BY DEF RunBegins, none
<1> HIDE DEF run
<1>5. run \in RunTypes /\ run.chats = imported /\ run.seen = LiveSources
  BY <1>1, <1>3, <1>4 DEF RunTypes, ImportIInv
<1>6. run \in ImportRuns
  BY <1>3, <1>5 DEF ImportRuns, ImportIInv, Knows
<1> QED
  BY <1>6 DEF run

LEMMA OutcomeIs ==
  ASSUME ImportIInv, NEW export \in Exports
  PROVE  Outcome(export) \in ImportRuns
<1> DEFINE N == Len(export)
           F == [k \in 1..N |-> [r \in ImportRuns |-> OneEntry(r, export[k])]]
           Body(g) == [k \in 0..N |-> IF k = 0 THEN RunBegins ELSE OneEntry(g[k - 1], export[k])]
           run == CHOOSE g : g = Body(g)
<1>1. N \in Nat /\ \A k \in 1..N : export[k] \in ExportEntry /\ NamesOnce(export[k].nodes)
  <2>1. export \in Seq(ExportEntry) /\ \A k \in DOMAIN export : NamesOnce(export[k].nodes)
    BY ImportAssumption
  <2> QED
    BY <2>1
<1>2. /\ F \in [1..N -> [ImportRuns -> ImportRuns]]
      /\ \A k \in 1..N, r \in ImportRuns : F[k][r] = OneEntry(r, export[k])
  BY <1>1, OneEntryIsRun
<1>3. Outcome(export) = run[N]
  BY DEF Outcome
<1> HIDE DEF F, N
<1>4. PICK g : g \in [0..N -> ImportRuns] /\ g[0] = RunBegins /\ \A k \in 1..N : g[k] = F[k][g[k - 1]]
  <2>1. RunBegins \in ImportRuns /\ N \in Nat /\ F \in LoopTurns(N, ImportRuns)
    BY <1>1, <1>2, RunBeginsRight DEF LoopTurns
  <2>2. \E g : Loops(g, N, ImportRuns, RunBegins, F)
    BY <2>1, Iterates, Zenon
  <2> QED
    BY <2>2 DEF Loops
<1>5. g = Body(g)
  <2>1. \A k \in 0..N : g[k] = IF k = 0 THEN RunBegins ELSE OneEntry(g[k - 1], export[k])
    <3>1. \A k \in 0..N : k # 0 => k \in 1..N /\ k - 1 \in 0..N
      BY <1>1
    <3> QED
      BY <1>2, <1>4, <3>1
  <2> QED
    BY <1>4, <2>1
<1> HIDE DEF Body
<1>6. run = Body(run)
  BY <1>5
<1> HIDE DEF run
<1>7. \A k \in 0..N : run[k] = IF k = 0 THEN RunBegins ELSE OneEntry(run[k - 1], export[k])
  <2>1. \A h : \A k \in 0..N : Body(h)[k] = IF k = 0 THEN RunBegins ELSE OneEntry(h[k - 1], export[k])
    BY DEF Body
  <2> QED
    BY <1>6, <2>1
<1> DEFINE P == {k \in 0..N : run[k] \in ImportRuns}
<1>8. P \in SUBSET (0..N) /\ 0 \in P
  BY <1>1, <1>7, RunBeginsRight
<1>9. ASSUME NEW k \in P, k < N PROVE k + 1 \in P
  <2>1. k + 1 \in 1..N /\ k + 1 \in 0..N /\ k + 1 - 1 = k /\ k + 1 # 0
    BY <1>1, <1>9
  <2>2. run[k] \in ImportRuns /\ run[k + 1] = OneEntry(run[k], export[k + 1])
    BY <1>7, <1>9, <2>1
  <2>3. run[k + 1] \in ImportRuns
    BY <1>1, <2>1, <2>2, OneEntryIsRun
  <2> QED
    BY <2>1, <2>3
<1>10. \A k \in 0..N : k \in P
  <2> HIDE DEF P
  <2> QED
    BY <1>1, <1>8, <1>9, UpTo
<1> QED
  BY <1>1, <1>3, <1>10

LEMMA ImportStep == ASSUME ImportIInv, [ImportNext]_importVars PROVE ImportIInv'
<1>1. CASE Imports
  <2>1. PICK export \in Exports :
          LET run == Outcome(export)
          IN imported' = run.chats /\ folders' = run.folders /\ tags' = run.tags
    BY <1>1 DEF Imports
  <2>2. Outcome(export) \in ImportRuns
    BY OutcomeIs
  <2> QED
    BY <2>1, <2>2 DEF ImportIInv, ImportRuns, RunTypes
<1>2. CASE ImportAborts
  BY <1>2 DEF ImportAborts, ImportIInv
<1>3. CASE DeletesImported
  <2>1. PICK k \in DOMAIN imported :
          imported[k].live /\ imported' = [imported EXCEPT ![k].live = FALSE]
    BY <1>3 DEF DeletesImported
  <2> DEFINE old == imported[k]
             new == [old EXCEPT !.live = FALSE]
  <2>2. old \in ImportedChats
    BY DEF ImportIInv
  <2>3. new \in ImportedChats /\ new.live = FALSE
    <3>1. /\ new \in [of : ExportEntry, tree : Trees, leaf : SourceIds, folder : Nat, live : BOOLEAN]
          /\ new.of = old.of /\ new.tree = old.tree /\ new.leaf = old.leaf /\ new.live = FALSE
          /\ ShapeIsKept(old.of, old.tree, old.leaf)
      BY <2>2 DEF ImportedChats
    <3> HIDE DEF new, old
    <3> QED
      BY <3>1 DEF ImportedChats
  <2>4. imported' = [imported EXCEPT ![k] = new]
    BY <2>1
  <2> HIDE DEF new
  <2>5. /\ imported' \in Seq(ImportedChats) /\ DOMAIN imported' = DOMAIN imported
        /\ \A i \in DOMAIN imported : imported'[i] = IF i = k THEN new ELSE imported[i]
    BY <2>3, <2>4 DEF ImportIInv
  <2>6. NoneTwice(imported)'
    BY <2>3, <2>5 DEF ImportIInv, NoneTwice
  <2> QED
    BY <1>3, <2>5, <2>6 DEF ImportIInv, DeletesImported
<1>4. CASE UNCHANGED importVars
  BY <1>4 DEF importVars, ImportIInv
<1> QED
  BY <1>1, <1>2, <1>3, <1>4 DEF ImportNext

LEMMA ImportInitially == ImportInit => ImportIInv
BY DEF ImportInit, ImportIInv, NoneTwice

\* Conversations are imported once however often and in whatever export they come, and each
\* of them whole: with its branches, its leaf and its depths (services/importers/openwebui.py).
THEOREM ImportsHold == ImportSpec => []ImportsKeepChats
<1>1. ImportSpec => []ImportIInv
  BY ImportInitially, ImportStep, PTL DEF ImportSpec
<1> QED
  BY <1>1, ImportIInvImplies, PTL

-----------------------------------------------------------------------------
(* Chunks of a text *)

\* The items of s after the first r are the characters after a up to b, each once and in order.
Reads(s, r, a, b) ==
  /\ s \in Seq(Nat) /\ r \in 0..Len(s) /\ a \in Nat /\ b \in Nat /\ a <= b
  /\ \A i \in r + 1..Len(s) : s[i] # 0 => s[i] \in a + 1..b
  /\ \A c \in a + 1..b : \E i \in r + 1..Len(s) : s[i] = c
  /\ \A i, j \in r + 1..Len(s) : i < j /\ s[i] # 0 /\ s[j] # 0 => s[i] < s[j]

LEMMA Concatenation ==
  ASSUME NEW S, NEW s \in Seq(S), NEW u \in Seq(S)
  PROVE  /\ s \o u \in Seq(S) /\ Len(s \o u) = Len(s) + Len(u)
         /\ \A i \in 1..Len(s) : (s \o u)[i] = s[i]
         /\ \A i \in 1..Len(u) : (s \o u)[Len(s) + i] = u[i]
<1> DEFINE v == s \o u
<1>1. /\ v \in Seq(S) /\ Len(v) = Len(s) + Len(u)
      /\ \A i \in 1..Len(s) + Len(u) : v[i] = IF i <= Len(s) THEN s[i] ELSE u[i - Len(s)]
  BY ConcatProperties
<1>2. Len(s) \in Nat /\ Len(u) \in Nat
  BY LenProperties
<1> HIDE DEF v
<1>3. \A i \in 1..Len(s) : v[i] = s[i]
  BY <1>1, <1>2
<1>4. ASSUME NEW i \in 1..Len(u) PROVE v[Len(s) + i] = u[i]
  <2>1. Len(s) + i \in 1..Len(s) + Len(u) /\ ~(Len(s) + i <= Len(s)) /\ Len(s) + i - Len(s) = i
    BY <1>2
  <2> QED
    BY <1>1, <2>1
<1> QED
  BY <1>1, <1>3, <1>4 DEF v

LEMMA ReadsConcat ==
  ASSUME NEW s, NEW r, NEW a, NEW b, NEW u, NEW c, Reads(s, r, a, b), Reads(u, 0, b, c)
  PROVE  Reads(s \o u, r, a, c)
<1> DEFINE m == Len(s)
           n == Len(u)
           v == s \o u
<1>1. /\ s \in Seq(Nat) /\ u \in Seq(Nat) /\ m \in Nat /\ n \in Nat /\ r \in 0..m
      /\ a \in Nat /\ b \in Nat /\ c \in Nat /\ a <= b /\ b <= c
  BY LenProperties DEF Reads
<1>2. /\ v \in Seq(Nat) /\ Len(v) = m + n
      /\ \A i \in 1..m : v[i] = s[i]
      /\ \A i \in 1..n : v[m + i] = u[i]
  BY <1>1, Concatenation, SMTT(30)
<1>3. /\ \A i \in r + 1..m : s[i] \in Nat /\ (s[i] # 0 => s[i] \in a + 1..b)
      /\ \A x \in a + 1..b : \E i \in r + 1..m : s[i] = x
      /\ \A i, j \in r + 1..m : i < j /\ s[i] # 0 /\ s[j] # 0 => s[i] < s[j]
  <2>1. \A i \in r + 1..m : i \in 1..m
    BY <1>1
  <2>2. \A i \in 1..m : s[i] \in Nat
    BY <1>1, ElementOfSeq
  <2>3. /\ \A i \in r + 1..m : s[i] # 0 => s[i] \in a + 1..b
        /\ \A x \in a + 1..b : \E i \in r + 1..m : s[i] = x
        /\ \A i, j \in r + 1..m : i < j /\ s[i] # 0 /\ s[j] # 0 => s[i] < s[j]
    BY Zenon DEF Reads
  <2> QED
    BY <2>1, <2>2, <2>3
<1>4. /\ \A i \in 1..n : u[i] \in Nat /\ (u[i] # 0 => u[i] \in b + 1..c)
      /\ \A x \in b + 1..c : \E i \in 1..n : u[i] = x
      /\ \A i, j \in 1..n : i < j /\ u[i] # 0 /\ u[j] # 0 => u[i] < u[j]
  <2>1. 0 + 1 = 1
    OBVIOUS
  <2>2. \A i \in 1..n : u[i] \in Nat
    BY <1>1, ElementOfSeq
  <2>3. /\ \A i \in 0 + 1..n : u[i] # 0 => u[i] \in b + 1..c
        /\ \A x \in b + 1..c : \E i \in 0 + 1..n : u[i] = x
        /\ \A i, j \in 0 + 1..n : i < j /\ u[i] # 0 /\ u[j] # 0 => u[i] < u[j]
    BY Zenon DEF Reads
  <2> QED
    BY <2>1, <2>2, <2>3, Zenon
<1> HIDE DEF m, n, v
<1>5. \A i \in r + 1..m + n :
        \/ i \in r + 1..m /\ v[i] = s[i]
        \/ i - m \in 1..n /\ v[i] = u[i - m]
  <2> SUFFICES ASSUME NEW i \in r + 1..m + n, i \notin r + 1..m PROVE i - m \in 1..n /\ v[i] = u[i - m]
    BY <1>1, <1>2
  <2>1. i - m \in 1..n /\ m + (i - m) = i
    BY <1>1
  <2> QED
    BY <1>2, <2>1
<1>6. ASSUME NEW i \in r + 1..m + n, v[i] # 0 PROVE v[i] \in a + 1..c
  <2>1. CASE i \in r + 1..m /\ v[i] = s[i]
    <3>1. s[i] \in a + 1..b
      BY <1>3, <1>6, <2>1
    <3> QED
      BY <1>1, <2>1, <3>1
  <2>2. CASE i - m \in 1..n /\ v[i] = u[i - m]
    <3>1. u[i - m] \in b + 1..c
      BY <1>4, <1>6, <2>2
    <3> QED
      BY <1>1, <2>2, <3>1
  <2> QED
    BY <1>5, <2>1, <2>2
<1>7. ASSUME NEW x \in a + 1..c PROVE \E i \in r + 1..m + n : v[i] = x
  <2>1. CASE x <= b
    <3>0. x \in a + 1..b
      <4>1. x \in Int /\ x <= b /\ a + 1 <= x
        BY <1>1, <2>1
      <4> QED
        BY <1>1, <4>1
    <3>1. PICK i \in r + 1..m : s[i] = x
      BY <1>3, <3>0
    <3> QED
      BY <1>1, <1>2, <3>1
  <2>2. CASE b < x
    <3>0. x \in b + 1..c
      <4>1. x \in Int /\ x <= c /\ b + 1 <= x
        BY <1>1, <2>2
      <4> QED
        BY <1>1, <4>1
    <3>1. PICK i \in 1..n : u[i] = x
      BY <1>4, <3>0
    <3>2. m + i \in r + 1..m + n /\ v[m + i] = x
      BY <1>1, <1>2, <3>1, SMTT(30)
    <3> QED
      BY <3>2
  <2> QED
    BY <1>1, <2>1, <2>2
<1>8. ASSUME NEW i \in r + 1..m + n, NEW j \in r + 1..m + n, i < j, v[i] # 0, v[j] # 0
      PROVE  v[i] < v[j]
  <2>1. CASE i \in r + 1..m /\ v[i] = s[i] /\ j \in r + 1..m /\ v[j] = s[j]
    BY <1>3, <1>8, <2>1
  <2>2. CASE i \in r + 1..m /\ v[i] = s[i] /\ j - m \in 1..n /\ v[j] = u[j - m]
    <3>1. s[i] \in a + 1..b /\ u[j - m] \in b + 1..c
      BY <1>3, <1>4, <1>8, <2>2
    <3>2. s[i] <= b /\ b < u[j - m] /\ s[i] \in Nat /\ u[j - m] \in Nat
      <4>1. \A x, y : x \in a + 1..b /\ y \in b + 1..c => x <= b /\ b < y /\ x \in Nat /\ y \in Nat
        BY <1>1
      <4> QED
        BY <3>1, <4>1, Zenon
    <3> QED
      BY <1>1, <2>2, <3>2, SMTT(30)
  <2>3. CASE i - m \in 1..n /\ v[i] = u[i - m] /\ j \in r + 1..m
    BY <1>1, <1>8, <2>3
  <2>4. CASE i - m \in 1..n /\ v[i] = u[i - m] /\ j - m \in 1..n /\ v[j] = u[j - m]
    <3>1. i - m < j - m
      BY <1>1, <1>8
    <3> QED
      BY <1>4, <1>8, <2>4, <3>1
  <2> QED
    BY <1>5, <2>1, <2>2, <2>3, <2>4
<1>9. v \in Seq(Nat) /\ r \in 0..Len(v) /\ a <= c /\ r + 1..m + n = r + 1..Len(v)
  BY <1>1, <1>2
<1>10. Reads(v, r, a, c)
  <2>1. /\ \A i \in r + 1..Len(v) : v[i] # 0 => v[i] \in a + 1..c
        /\ \A x \in a + 1..c : \E i \in r + 1..Len(v) : v[i] = x
        /\ \A i, j \in r + 1..Len(v) : i < j /\ v[i] # 0 /\ v[j] # 0 => v[i] < v[j]
    BY <1>6, <1>7, <1>8, <1>9
  <2> QED
    BY <1>1, <1>9, <2>1, Zenon DEF Reads
<1> QED
  BY <1>10 DEF v

\* A gap between two parts has no characters.
Gaps == {Space, BlankLine}

LEMMA GapReads ==
  ASSUME NEW gap \in Gaps, NEW b \in Nat
  PROVE  Reads(gap, 0, b, b) /\ Len(gap) \in 1..2 /\ gap \in Seq(Nat)
<1>1. gap = <<0>> \/ gap = <<0, 0>>
  BY DEF Gaps, Space, BlankLine
<1>2. /\ gap \in Seq(Nat) /\ Len(gap) \in 1..2
      /\ \A i \in 1..Len(gap) : gap[i] = 0
  <2>1. CASE gap = <<0>>
    BY <2>1
  <2>2. CASE gap = <<0, 0>>
    <3>1. Len(gap) = 2 /\ gap[1] = 0 /\ gap[2] = 0 /\ gap \in Seq(Nat)
      BY <2>2
    <3>2. \A i \in 1..2 : i = 1 \/ i = 2
      OBVIOUS
    <3> QED
      BY <3>1, <3>2
  <2> QED
    BY <1>1, <2>1, <2>2
<1>3. \A c \in b + 1..b : FALSE
  OBVIOUS
<1> QED
  BY <1>2, <1>3 DEF Reads

\* v begins with s, and has so many items more.
Begins(v, s, more) == Len(v) = Len(s) + more /\ \A i \in 1..Len(s) : v[i] = s[i]

LEMMA JoinedReads ==
  ASSUME NEW s, NEW r, NEW a, NEW b, NEW u, NEW c, NEW gap \in Gaps,
         Reads(s, r, a, b), Reads(u, 0, b, c), s # <<>>
  PROVE  /\ Reads(Joined(s, gap, u), r, a, c) /\ Joined(s, gap, u) # <<>>
         /\ Begins(Joined(s, gap, u), s, Len(gap) + Len(u))
<1> DEFINE t == s \o gap
           v == t \o u
<1>1. Joined(s, gap, u) = v
  BY DEF Joined
<1>2. Reads(gap, 0, b, b) /\ gap \in Seq(Nat) /\ s \in Seq(Nat) /\ u \in Seq(Nat)
  BY GapReads DEF Reads
<1>3. Reads(t, r, a, b)
  BY <1>2, ReadsConcat
<1>4. Reads(v, r, a, c)
  <2> HIDE DEF t
  <2> QED
    BY <1>2, <1>3, ReadsConcat
<1>5. /\ t \in Seq(Nat) /\ Len(t) = Len(s) + Len(gap)
      /\ \A i \in 1..Len(s) : t[i] = s[i]
  BY <1>2, Concatenation
<1>6. Len(v) = Len(t) + Len(u) /\ \A i \in 1..Len(t) : v[i] = t[i]
  <2> HIDE DEF t
  <2> QED
    BY <1>2, <1>5, Concatenation
<1>7. Len(s) \in Nat /\ Len(s) > 0 /\ Len(gap) \in Nat /\ Len(u) \in Nat
  BY <1>2, EmptySeq, LenProperties
<1> HIDE DEF t, v
<1>8. Len(v) = Len(s) + (Len(gap) + Len(u))
  BY <1>5, <1>6, <1>7
<1>9. v # <<>>
  BY <1>7, <1>8
<1>10. \A i \in 1..Len(s) : v[i] = s[i]
  BY <1>5, <1>6, <1>7
<1>11. Begins(v, s, Len(gap) + Len(u))
  BY <1>8, <1>10 DEF Begins
<1> QED
  BY <1>1, <1>4, <1>9, <1>11, Zenon

-----------------------------------------------------------------------------
(* Chains of parts, each of which may repeat the end of the one before it *)

\* How much of the last part the next one repeats.
Again(q, over) == IF q = <<>> THEN 0 ELSE Repeats(q[Len(q)], over)

\* The part u begins with the last n items of s.
Overlaps(s, u, n) == n <= Len(s) /\ n <= Len(u) /\ \A i \in 1..n : u[i] = s[Len(s) - n + i]

\* No part is longer than a size, and what it repeats.
Fits(s, sizes, extra) == \E m \in sizes : Len(s) <= m + extra

\* The part that comes after q, from the characters after a up to b.
Follows(q, s, over, a, b, sizes, extra) ==
  /\ s # <<>> /\ Reads(s, Again(q, over), a, b) /\ Fits(s, sizes, extra)
  /\ q # <<>> => Overlaps(q[Len(q)], s, Again(q, over))

\* Up to where each of the parts reads.
Bounds(q, bounds, over, sizes, extra) ==
  /\ q \in Seq(Seq(Nat)) /\ bounds \in [0..Len(q) -> Nat]
  /\ \A k \in 1..Len(q) :
       /\ q[k] # <<>> /\ Fits(q[k], sizes, extra)
       /\ Reads(q[k], IF k = 1 THEN 0 ELSE Repeats(q[k - 1], over), bounds[k - 1], bounds[k])
       /\ k # 1 => Overlaps(q[k - 1], q[k], Repeats(q[k - 1], over))

Chain(q, over, a, b, sizes, extra) ==
  \E bounds : Bounds(q, bounds, over, sizes, extra) /\ bounds[0] = a /\ bounds[Len(q)] = b

LEMMA NoChain ==
  ASSUME NEW over, NEW a \in Nat, NEW sizes, NEW extra
  PROVE  Chain(<<>>, over, a, a, sizes, extra)
<1> DEFINE none == [k \in 0..0 |-> a]
<1>1. <<>> \in Seq(Seq(Nat)) /\ Len(<<>>) = 0
  OBVIOUS
<1>2. none \in [0..0 -> Nat] /\ none[0] = a
  OBVIOUS
<1> HIDE DEF none
<1>3. Bounds(<<>>, none, over, sizes, extra)
  BY <1>1, <1>2 DEF Bounds
<1> QED
  BY <1>1, <1>2, <1>3 DEF Chain

LEMMA ChainAppend ==
  ASSUME NEW q, NEW s, NEW over, NEW a, NEW b, NEW c, NEW sizes, NEW extra,
         Chain(q, over, a, b, sizes, extra), Follows(q, s, over, b, c, sizes, extra)
  PROVE  Chain(Append(q, s), over, a, c, sizes, extra)
<1> DEFINE n == Len(q)
           p == Append(q, s)
<1>1. PICK bounds : Bounds(q, bounds, over, sizes, extra) /\ bounds[0] = a /\ bounds[n] = b
  BY DEF Chain
<1>2. q \in Seq(Seq(Nat)) /\ bounds \in [0..n -> Nat]
  BY <1>1 DEF Bounds
<1>3. s \in Seq(Nat) /\ c \in Nat /\ s # <<>> /\ Fits(s, sizes, extra)
  BY DEF Follows, Reads
<1>4. /\ n \in Nat /\ p \in Seq(Seq(Nat)) /\ Len(p) = n + 1
      /\ \A k \in 1..n : p[k] = q[k]
      /\ p[n + 1] = s
  BY <1>2, <1>3, AppendProperties, LenProperties
<1> DEFINE more == [k \in 0..n + 1 |-> IF k = n + 1 THEN c ELSE bounds[k]]
<1>5. /\ more \in [0..n + 1 -> Nat] /\ more[n + 1] = c
      /\ \A k \in 0..n : more[k] = bounds[k]
  BY <1>2, <1>3, <1>4
<1>6. q = <<>> <=> n = 0
  BY <1>2, EmptySeq
<1> HIDE DEF n, p, more
<1> DEFINE Right(w, y, k) ==
             /\ w[k] # <<>> /\ Fits(w[k], sizes, extra)
             /\ Reads(w[k], IF k = 1 THEN 0 ELSE Repeats(w[k - 1], over), y[k - 1], y[k])
             /\ k # 1 => Overlaps(w[k - 1], w[k], Repeats(w[k - 1], over))
<1>7. ASSUME NEW k \in 1..n PROVE Right(p, more, k)
  <2>1. Right(q, bounds, k)
    BY <1>1 DEF Bounds, n
  <2>2. k \in 0..n /\ k - 1 \in 0..n /\ (k # 1 => k - 1 \in 1..n)
    BY <1>4
  <2>3. p[k] = q[k] /\ more[k] = bounds[k] /\ more[k - 1] = bounds[k - 1] /\ (k # 1 => p[k - 1] = q[k - 1])
    BY <1>4, <1>5, <2>2
  <2> QED
    BY <2>1, <2>3
<1>8. Right(p, more, n + 1)
  <2>1. more[n + 1] = c /\ more[n] = b /\ p[n + 1] = s /\ (n + 1) - 1 = n
    <3>1. (n + 1) - 1 = n /\ n \in 0..n
      BY <1>4
    <3>2. more[n] = bounds[n] /\ bounds[n] = b
      BY <1>1, <1>5, <3>1 DEF n
    <3> QED
      BY <1>4, <1>5, <3>1, <3>2
  <2>2. CASE n = 0
    <3>1. Again(q, over) = 0
      BY <1>6, <2>2 DEF Again
    <3>2. Reads(s, 0, b, c)
      BY <3>1 DEF Follows
    <3>3. n + 1 = 1
      BY <2>2
    <3>4. more[(n + 1) - 1] = b /\ (n + 1 # 1 => FALSE)
      BY <2>1, <3>3
    <3>5. Reads(p[n + 1], 0, more[(n + 1) - 1], more[n + 1])
      BY <2>1, <3>2, <3>4
    <3>6. 0 = IF n + 1 = 1 THEN 0 ELSE Repeats(p[(n + 1) - 1], over)
      BY <3>3
    <3>7. Reads(p[n + 1], IF n + 1 = 1 THEN 0 ELSE Repeats(p[(n + 1) - 1], over), more[(n + 1) - 1], more[n + 1])
      BY <3>5, <3>6, Zenon
    <3>8. p[n + 1] # <<>> /\ Fits(p[n + 1], sizes, extra)
      BY <1>3, <2>1, Zenon
    <3> QED
      BY <3>3, <3>7, <3>8, Zenon
  <2>3. CASE n # 0
    <3>1. n \in 1..n /\ n + 1 # 1
      BY <1>4, <2>3
    <3>2. q # <<>> /\ p[n] = q[n] /\ Again(q, over) = Repeats(q[n], over)
      BY <1>4, <1>6, <2>3, <3>1 DEF Again, n
    <3>3. Reads(s, Repeats(q[n], over), b, c) /\ Overlaps(q[n], s, Repeats(q[n], over))
      <4>1. Reads(s, Again(q, over), b, c) /\ Overlaps(q[Len(q)], s, Again(q, over))
        BY <3>2 DEF Follows
      <4> QED
        BY <3>2, <4>1 DEF n
    <3>4. p[(n + 1) - 1] = q[n] /\ more[(n + 1) - 1] = b
      BY <2>1, <3>2
    <3>5. Reads(p[n + 1], Repeats(p[(n + 1) - 1], over), more[(n + 1) - 1], more[n + 1])
      BY <2>1, <3>3, <3>4
    <3>6. Overlaps(p[(n + 1) - 1], p[n + 1], Repeats(p[(n + 1) - 1], over))
      BY <2>1, <3>3, <3>4
    <3> QED
      BY <1>3, <2>1, <3>1, <3>5, <3>6
  <2> QED
    BY <2>2, <2>3
<1>9. \A k \in 1..n + 1 : k \in 1..n \/ k = n + 1
  BY <1>4
<1>10. \A k \in 1..Len(p) : Right(p, more, k)
  <2> HIDE DEF Right
  <2> QED
    BY <1>4, <1>7, <1>8, <1>9
<1>11. Bounds(p, more, over, sizes, extra)
  BY <1>4, <1>5, <1>10 DEF Bounds
<1>12. more[0] = a /\ more[Len(p)] = c
  BY <1>1, <1>4, <1>5
<1> QED
  BY <1>11, <1>12 DEF Chain, p

\* Parts that repeat nothing.
PlainBounds(q, bounds, sizes) ==
  /\ q \in Seq(Seq(Nat)) /\ bounds \in [0..Len(q) -> Nat]
  /\ \A k \in 1..Len(q) : q[k] # <<>> /\ Fits(q[k], sizes, 0) /\ Reads(q[k], 0, bounds[k - 1], bounds[k])

LEMMA PlainBoundsAre ==
  ASSUME NEW q, NEW bounds, NEW sizes
  PROVE  Bounds(q, bounds, 0, sizes, 0) <=> PlainBounds(q, bounds, sizes)
<1> SUFFICES ASSUME q \in Seq(Seq(Nat)), NEW k \in 1..Len(q)
             PROVE  /\ k # 1 => Repeats(q[k - 1], 0) = 0 /\ Overlaps(q[k - 1], q[k], 0)
                    /\ 0 = IF k = 1 THEN 0 ELSE Repeats(q[k - 1], 0)
  BY Zenon DEF Bounds, PlainBounds
<1>1. q[k] \in Seq(Nat) /\ Len(q[k]) \in Nat
  BY ElementOfSeq, LenProperties
<1>2. ASSUME k # 1 PROVE Repeats(q[k - 1], 0) = 0 /\ Overlaps(q[k - 1], q[k], 0)
  <2>1. Len(q) \in Nat
    BY LenProperties
  <2>2. k - 1 \in 1..Len(q)
    BY <1>2, <2>1
  <2>3. q[k - 1] \in Seq(Nat)
    BY <2>2, ElementOfSeq
  <2>4. Len(q[k - 1]) \in Nat
    BY <2>3, LenProperties
  <2> QED
    BY <1>1, <2>4 DEF Repeats, Overlaps
<1> QED
  BY <1>2

LEMMA ChainConcat ==
  ASSUME NEW q, NEW u, NEW a, NEW b, NEW c, NEW sizes,
         Chain(q, 0, a, b, sizes, 0), Chain(u, 0, b, c, sizes, 0)
  PROVE  Chain(q \o u, 0, a, c, sizes, 0)
<1> DEFINE m == Len(q)
           n == Len(u)
           p == q \o u
           Right(w, y, k) == w[k] # <<>> /\ Fits(w[k], sizes, 0) /\ Reads(w[k], 0, y[k - 1], y[k])
<1>1. PICK x : PlainBounds(q, x, sizes) /\ x[0] = a /\ x[m] = b
  BY PlainBoundsAre, Zenon DEF Chain
<1>2. PICK y : PlainBounds(u, y, sizes) /\ y[0] = b /\ y[n] = c
  BY PlainBoundsAre, Zenon DEF Chain
<1>3. /\ q \in Seq(Seq(Nat)) /\ x \in [0..m -> Nat] /\ m \in Nat
      /\ u \in Seq(Seq(Nat)) /\ y \in [0..n -> Nat] /\ n \in Nat
  BY <1>1, <1>2, LenProperties DEF PlainBounds
<1>5. \A k \in 1..m : Right(q, x, k)
  BY <1>1 DEF PlainBounds
<1>6. \A k \in 1..n : Right(u, y, k)
  BY <1>2 DEF PlainBounds
<1>7. /\ p \in Seq(Seq(Nat)) /\ Len(p) = m + n
      /\ \A k \in 1..m : p[k] = q[k]
      /\ \A k \in 1..n : p[m + k] = u[k]
  BY <1>3, Concatenation
<1> DEFINE z == [k \in 0..m + n |-> IF k <= m THEN x[k] ELSE y[k - m]]
<1> HIDE DEF m, n, p
<1>14. \A i \in 0..m + n : z[i] = IF i <= m THEN x[i] ELSE y[i - m]
  OBVIOUS
<1>8. /\ \A k \in 0..m : z[k] = x[k]
      /\ \A k \in 0..n : z[m + k] = y[k]
  <2>1. ASSUME NEW k \in 0..m PROVE z[k] = x[k]
    BY <1>3
  <2>2. ASSUME NEW k \in 0..n PROVE z[m + k] = y[k]
    <3>1. CASE k = 0
      <4>1. m + k = m /\ m \in 0..m + n
        BY <1>3, <3>1
      <4> QED
        BY <1>1, <1>2, <3>1, <4>1, <1>3
    <3>2. CASE k # 0
      <4>1. ~(m + k <= m) /\ (m + k) - m = k /\ m + k \in 0..m + n
        BY <1>3, <3>2
      <4>2. \A i \in 0..m + n : ~(i <= m) => z[i] = y[i - m]
        BY <1>14
      <4> HIDE DEF z
      <4>3. z[m + k] = y[(m + k) - m]
        <5> DEFINE i == m + k
        <5>1. i \in 0..m + n /\ ~(i <= m)
          BY <4>1
        <5> HIDE DEF i
        <5>2. z[i] = y[i - m]
          BY <4>2, <5>1
        <5> QED
          BY <5>2 DEF i
      <4> QED
        BY <4>1, <4>3
    <3> QED
      BY <3>1, <3>2
  <2> QED
    BY <2>1, <2>2
<1>9. z \in [0..m + n -> Nat]
  <2> SUFFICES ASSUME NEW k \in 0..m + n PROVE (IF k <= m THEN x[k] ELSE y[k - m]) \in Nat
    OBVIOUS
  <2>1. k <= m => k \in 0..m
    BY <1>3
  <2>2. ~(k <= m) => k - m \in 0..n
    BY <1>3
  <2> QED
    BY <1>3, <2>1, <2>2
<1> HIDE DEF z
<1>10. ASSUME NEW k \in 1..m + n PROVE Right(p, z, k)
  <2>1. CASE k <= m
    <3>1. k \in 1..m /\ k \in 0..m /\ k - 1 \in 0..m
      BY <1>3, <2>1
    <3>2. Right(q, x, k) /\ p[k] = q[k] /\ z[k] = x[k] /\ z[k - 1] = x[k - 1]
      BY <1>5, <1>7, <1>8, <3>1
    <3> QED
      BY <3>2
  <2>2. CASE ~(k <= m)
    <3> DEFINE j == k - m
    <3>1. j \in 1..n /\ j \in 0..n /\ j - 1 \in 0..n /\ m + j = k /\ m + (j - 1) = k - 1
      BY <1>3, <2>2
    <3> HIDE DEF j
    <3>2. Right(u, y, j) /\ p[m + j] = u[j] /\ z[m + j] = y[j] /\ z[m + (j - 1)] = y[j - 1]
      BY <1>6, <1>7, <1>8, <3>1
    <3> QED
      BY <3>1, <3>2
  <2> QED
    BY <2>1, <2>2
<1>11. \A k \in 1..Len(p) : Right(p, z, k)
  BY <1>7, <1>10
<1>12. Bounds(p, z, 0, sizes, 0)
  <2>1. PlainBounds(p, z, sizes)
    BY <1>7, <1>9, <1>11 DEF PlainBounds
  <2> QED
    BY <2>1, PlainBoundsAre, Zenon
<1>13. z[0] = a /\ z[Len(p)] = c
  <2>1. 0 \in 0..m /\ n \in 0..n
    BY <1>3
  <2> QED
    BY <1>1, <1>2, <1>7, <1>8, <2>1 DEF n
<1> QED
  BY <1>12, <1>13 DEF Chain, p

-----------------------------------------------------------------------------
(* Packing parts *)

LEMMA CarryIs ==
  ASSUME NEW s \in Seq(Nat), NEW over \in Nat
  PROVE  LET n == Repeats(s, over) IN
         /\ n \in 0..Len(s) /\ n <= over /\ (n = 0 => over = 0 \/ s = <<>>)
         /\ Carry(s, over) \in Seq(Nat) /\ Len(Carry(s, over)) = n
         /\ \A i \in 1..n : Carry(s, over)[i] = s[Len(s) - n + i]
<1> DEFINE n == Repeats(s, over)
           m == Len(s)
           from == (m - n) + 1
<1>1. m \in Nat /\ (s # <<>> => m # 0) /\ DOMAIN s = 1..m
  BY EmptySeq, LenProperties
<1>2. n \in 0..m /\ n <= over /\ (n = 0 => over = 0 \/ m = 0)
  BY <1>1 DEF Repeats
<1>3. Carry(s, over) = SubSeq(s, from, m)
  BY DEF Carry
<1> HIDE DEF n, m
<1>4. from \in 1..m + 1 /\ m - from + 1 = n
  BY <1>1, <1>2
<1>5. /\ SubSeq(s, from, m) \in Seq(Nat)
      /\ Len(SubSeq(s, from, m)) = IF from <= m THEN (m - from) + 1 ELSE 0
      /\ \A i \in 1..(m - from) + 1 : SubSeq(s, from, m)[i] = s[(from + i) - 1]
  <2>1. from \in 1..Len(s) + 1 /\ m \in (from - 1)..Len(s)
    BY <1>1, <1>4 DEF m
  <2> HIDE DEF from
  <2> QED
    BY <2>1, SubSeqProperties
<1>6. Len(SubSeq(s, from, m)) = n
  BY <1>1, <1>2, <1>5
<1>7. ASSUME NEW i \in 1..n PROVE SubSeq(s, from, m)[i] = s[(m - n) + i]
  <2>1. i \in 1..(m - from) + 1 /\ (from + i) - 1 = (m - n) + i
    BY <1>1, <1>2
  <2> HIDE DEF from
  <2> QED
    BY <1>5, <2>1
<1> HIDE DEF from
<1> QED
  BY <1>1, <1>2, <1>3, <1>5, <1>6, <1>7 DEF n, m

\* A part that grows.
LEMMA FollowsMore ==
  ASSUME NEW q, NEW s, NEW u, NEW over, NEW a, NEW b, NEW c, NEW sizes, NEW extra, NEW gap \in Gaps,
         Follows(q, s, over, a, b, sizes, extra), Reads(u, 0, b, c),
         Fits(Joined(s, gap, u), sizes, extra)
  PROVE  Follows(q, Joined(s, gap, u), over, a, c, sizes, extra)
<1> DEFINE v == Joined(s, gap, u)
           n == Again(q, over)
<1>1. /\ s # <<>> /\ Reads(s, n, a, b)
      /\ q # <<>> => Overlaps(q[Len(q)], s, n)
  BY DEF Follows
<1> HIDE DEF n
<1>2. /\ Reads(v, n, a, c) /\ v # <<>> /\ Len(v) = Len(s) + (Len(gap) + Len(u))
      /\ \A i \in 1..Len(s) : v[i] = s[i]
  <2>1. s # <<>> /\ Reads(s, n, a, b) /\ Reads(u, 0, b, c)
    BY <1>1
  <2>2. Reads(v, n, a, c) /\ v # <<>> /\ Begins(v, s, Len(gap) + Len(u))
    BY <2>1, JoinedReads, Zenon
  <2> QED
    BY <2>2 DEF Begins
<1>3. Len(s) \in Nat /\ Len(gap) \in Nat /\ Len(u) \in Nat /\ n \in 0..Len(s)
  BY <1>1, GapReads, LenProperties DEF Reads
<1> HIDE DEF v
<1>4. q # <<>> => Overlaps(q[Len(q)], v, n)
  <2> SUFFICES ASSUME q # <<>> PROVE Overlaps(q[Len(q)], v, n)
    OBVIOUS
  <2>1. n <= Len(q[Len(q)]) /\ n <= Len(s) /\ \A i \in 1..n : s[i] = q[Len(q)][(Len(q[Len(q)]) - n) + i]
    BY <1>1 DEF Overlaps
  <2>2. n <= Len(v) /\ \A i \in 1..n : i \in 1..Len(s)
    BY <1>2, <1>3
  <2> QED
    BY <1>2, <2>1, <2>2 DEF Overlaps
<1>5. Fits(v, sizes, extra)
  BY DEF v
<1> QED
  BY <1>2, <1>4, <1>5 DEF Follows, v, n

\* A part that starts with the end of the last one.
LEMMA FollowsNew ==
  ASSUME NEW q \in Seq(Seq(Nat)), NEW s \in Seq(Nat), NEW u, NEW over \in Nat, NEW b, NEW c,
         NEW sizes \in SUBSET Nat, NEW extra \in Nat, over # 0 => extra = over + 2, NEW gap \in Gaps,
         s # <<>>, Reads(u, 0, b, c), u # <<>>, Fits(u, sizes, 0)
  PROVE  Follows(Append(q, s), Joined(Carry(s, over), gap, u), over, b, c, sizes, extra)
<1> DEFINE p == Append(q, s)
           carry == Carry(s, over)
           n == Repeats(s, over)
           v == Joined(carry, gap, u)
<1>1. p \in Seq(Seq(Nat)) /\ p # <<>> /\ p[Len(p)] = s
  BY AppendProperties
<1>2. Again(p, over) = n
  BY <1>1 DEF Again
<1>3. /\ n \in 0..Len(s) /\ n <= over /\ (n = 0 => over = 0)
      /\ carry \in Seq(Nat) /\ Len(carry) = n
      /\ \A i \in 1..n : carry[i] = s[Len(s) - n + i]
  BY CarryIs
<1>4. Len(s) \in Nat /\ u \in Seq(Nat) /\ Len(u) \in Nat /\ b \in Nat /\ c \in Nat
  BY LenProperties DEF Reads
<1>5. Len(gap) \in 1..2
  BY GapReads, <1>4
<1>6. PICK m \in sizes : Len(u) <= m + 0
  BY DEF Fits
<1>7. m \in Nat /\ extra \in Nat
  BY <1>6
<1> HIDE DEF p, carry, n
<1>8. v # <<>> /\ Reads(v, n, b, c) /\ Fits(v, sizes, extra) /\ Overlaps(s, v, n)
  <2>1. CASE carry = <<>>
    <3>1. v = u /\ n = 0
      BY <1>3, <2>1, EmptySeq DEF Joined
    <3>2. Len(u) <= m + extra
      BY <1>4, <1>6, <1>7
    <3> QED
      BY <1>4, <1>6, <3>1, <3>2 DEF Fits, Overlaps
  <2>2. CASE carry # <<>>
    <3>1. Reads(carry, n, b, b)
      <4>1. /\ \A i \in n + 1..Len(carry) : FALSE
            /\ \A i \in b + 1..b : FALSE
        BY <1>3, <1>4, SMTT(30)
      <4> QED
        BY <1>3, <1>4, <4>1 DEF Reads
    <3>2. /\ Reads(v, n, b, c) /\ v # <<>> /\ Len(v) = n + (Len(gap) + Len(u))
          /\ \A i \in 1..n : v[i] = carry[i]
      <4>1. Reads(v, n, b, c) /\ v # <<>> /\ Begins(v, carry, Len(gap) + Len(u))
        BY <2>2, <3>1, JoinedReads, Zenon
      <4> HIDE DEF v
      <4> QED
        BY <1>3, <4>1 DEF Begins
    <3>3. over # 0
      <4>1. n # 0
        BY <1>3, <2>2, EmptySeq
      <4> QED
        BY <1>3, <4>1
    <3> HIDE DEF v
    <3>4. Len(v) <= m + extra
      <4>1. extra = over + 2
        BY <3>3
      <4>2. n \in Nat /\ n <= over /\ Len(gap) \in Nat /\ Len(gap) <= 2 /\ Len(u) \in Nat /\ Len(u) <= m
        <5>1. \A x, y, z : x \in 0..y /\ y \in Nat /\ z \in 1..2 => x \in Nat /\ z \in Nat /\ z <= 2
          OBVIOUS
        <5>2. n \in Nat /\ Len(gap) \in Nat /\ Len(gap) <= 2
          BY <1>3, <1>4, <1>5, <5>1, Zenon
        <5>3. Len(u) <= m
          BY <1>6, <1>7
        <5> QED
          BY <1>3, <1>4, <5>2, <5>3
      <4>3. n + (Len(gap) + Len(u)) <= m + (over + 2)
        BY <1>7, <4>2
      <4> QED
        BY <3>2, <4>1, <4>3
    <3>5. n <= Len(v)
      BY <1>3, <1>4, <1>5, <3>2
    <3>6. Overlaps(s, v, n)
      <4>1. n <= Len(s)
        BY <1>3, <1>4
      <4>2. \A i \in 1..n : v[i] = s[Len(s) - n + i]
        BY <1>3, <3>2
      <4> QED
        BY <3>5, <4>1, <4>2, Zenon DEF Overlaps
    <3>7. Fits(v, sizes, extra)
      BY <1>6, <3>4 DEF Fits
    <3> QED
      BY <3>2, <3>6, <3>7
  <2> QED
    BY <2>1, <2>2
<1> HIDE DEF v
<1>9. Follows(p, v, over, b, c, sizes, extra)
  BY <1>1, <1>2, <1>8 DEF Follows
<1> QED
  BY <1>9 DEF v, p, carry

\* What has been packed: what is written, and then the buffer.
Packings == [written : Seq(Seq(Nat)), buffer : Seq(Nat)]
EmptyPacking == [written |-> <<>>, buffer |-> <<>>]

HasPacked(p, over, a, b, sizes, extra) ==
  /\ p \in Packings
  /\ \E m \in Nat : /\ Chain(p.written, over, a, m, sizes, extra)
                    /\ Follows(p.written, p.buffer, over, m, b, sizes, extra)

LEMMA JoinedIn ==
  ASSUME NEW s \in Seq(Nat), NEW u \in Seq(Nat), NEW gap \in Gaps
  PROVE  Joined(s, gap, u) \in Seq(Nat)
<1>1. gap \in Seq(Nat)
  BY GapReads
<1>2. s \o gap \in Seq(Nat)
  BY <1>1, ConcatProperties
<1>3. (s \o gap) \o u \in Seq(Nat)
  BY <1>2, ConcatProperties
<1> QED
  BY <1>3 DEF Joined

LEMMA PackIs ==
  ASSUME NEW p \in Packings, NEW u \in Seq(Nat), NEW gap \in Gaps, NEW over \in Nat
  PROVE  LET longer == Joined(p.buffer, gap, u)
             next == Pack(p, u, gap, over)
             full == p.buffer # <<>> /\ Len(longer) > MaxChars
         IN /\ next \in Packings
            /\ full => /\ next.written = Append(p.written, p.buffer)
                       /\ next.buffer = Joined(Carry(p.buffer, over), gap, u)
            /\ ~full => next.written = p.written /\ next.buffer = longer
<1> DEFINE longer == Joined(p.buffer, gap, u)
           full == p.buffer # <<>> /\ Len(longer) > MaxChars
           after == Joined(Carry(p.buffer, over), gap, u)
           more == Append(p.written, p.buffer)
<1>1. p.written \in Seq(Seq(Nat)) /\ p.buffer \in Seq(Nat)
  BY DEF Packings
<1>2. longer \in Seq(Nat) /\ more \in Seq(Seq(Nat))
  BY <1>1, JoinedIn, AppendProperties
<1>3. after \in Seq(Nat)
  <2>1. Carry(p.buffer, over) \in Seq(Nat)
    BY <1>1, CarryIs
  <2> QED
    BY <2>1, JoinedIn
<1>4. Pack(p, u, gap, over) =
        IF full THEN [written |-> more, buffer |-> after] ELSE [written |-> p.written, buffer |-> longer]
  BY DEF Pack
<1> HIDE DEF longer, full, after, more
<1>5. Pack(p, u, gap, over) \in Packings
  BY <1>1, <1>2, <1>3, <1>4 DEF Packings
<1> QED
  BY <1>4, <1>5 DEF longer, full, after, more

LEMMA PackKeeps ==
  ASSUME NEW p, NEW u, NEW over \in Nat, NEW a, NEW b, NEW c, NEW gap \in Gaps,
         NEW sizes \in SUBSET Nat, MaxChars \in sizes, NEW extra \in Nat, over # 0 => extra = over + 2,
         HasPacked(p, over, a, b, sizes, extra), Reads(u, 0, b, c), u # <<>>, Fits(u, sizes, 0)
  PROVE  HasPacked(Pack(p, u, gap, over), over, a, c, sizes, extra)
<1> DEFINE longer == Joined(p.buffer, gap, u)
           next == Pack(p, u, gap, over)
           full == p.buffer # <<>> /\ Len(longer) > MaxChars
<1>1. PICK m \in Nat : /\ Chain(p.written, over, a, m, sizes, extra)
                       /\ Follows(p.written, p.buffer, over, m, b, sizes, extra)
  BY DEF HasPacked
<1>2. /\ p \in Packings /\ p.written \in Seq(Seq(Nat)) /\ p.buffer \in Seq(Nat) /\ u \in Seq(Nat)
      /\ b \in Nat
  BY DEF HasPacked, Packings, Reads
<1>3. /\ next \in Packings
      /\ full => /\ next.written = Append(p.written, p.buffer)
                 /\ next.buffer = Joined(Carry(p.buffer, over), gap, u)
      /\ ~full => next.written = p.written /\ next.buffer = longer
  BY <1>2, PackIs, Zenon
<1>4. p.buffer # <<>>
  BY <1>1 DEF Follows
<1> HIDE DEF next
<1>5. CASE full
  <2>1. Chain(Append(p.written, p.buffer), over, a, b, sizes, extra)
    BY <1>1, ChainAppend
  <2>2. Follows(Append(p.written, p.buffer), Joined(Carry(p.buffer, over), gap, u), over, b, c, sizes, extra)
    BY <1>2, <1>4, FollowsNew
  <2>3. Chain(next.written, over, a, b, sizes, extra) /\ Follows(next.written, next.buffer, over, b, c, sizes, extra)
    BY <1>3, <1>5, <2>1, <2>2
  <2>4. HasPacked(next, over, a, c, sizes, extra)
    BY <1>2, <1>3, <2>3 DEF HasPacked
  <2> QED
    BY <2>4 DEF next
<1>6. CASE ~full
  <2>1. longer \in Seq(Nat)
    BY <1>2, JoinedIn
  <2>2. Len(longer) <= MaxChars
    <3>1. Len(longer) \in Nat /\ MaxChars \in Nat
      BY <2>1, LenProperties
    <3> HIDE DEF longer
    <3> QED
      BY <1>4, <1>6, <3>1
  <2>3. Fits(longer, sizes, extra)
    <3>1. Len(longer) \in Nat /\ MaxChars \in Nat
      BY <2>1, LenProperties
    <3> HIDE DEF longer
    <3>2. Len(longer) <= MaxChars + extra
      BY <2>2, <3>1
    <3> QED
      BY <3>2 DEF Fits
  <2>4. Follows(p.written, longer, over, m, c, sizes, extra)
    BY <1>1, <2>3, FollowsMore
  <2> HIDE DEF longer
  <2>5. Chain(next.written, over, a, m, sizes, extra) /\ Follows(next.written, next.buffer, over, m, c, sizes, extra)
    BY <1>1, <1>3, <1>6, <2>4
  <2>6. HasPacked(next, over, a, c, sizes, extra)
    BY <1>3, <2>5 DEF HasPacked
  <2> QED
    BY <2>6 DEF next
<1> QED
  BY <1>5, <1>6

\* What has been packed after each part.
PackedUp(g, parts, gap, over) ==
  /\ g \in [0..Len(parts) -> Packings]
  /\ g[0] = EmptyPacking
  /\ \A k \in 1..Len(parts) : g[k] = Pack(g[k - 1], parts[k], gap, over)

LEMMA EmptyIsPacking == EmptyPacking \in Packings
<1>1. <<>> \in Seq(Seq(Nat)) /\ <<>> \in Seq(Nat)
  OBVIOUS
<1> QED
  BY <1>1 DEF EmptyPacking, Packings

LEMMA PackedIs ==
  ASSUME NEW parts \in Seq(Seq(Nat)), NEW gap \in Gaps, NEW over \in Nat
  PROVE  \E g : PackedUp(g, parts, gap, over) /\ Packed(parts, gap, over) = g[Len(parts)]
<1> DEFINE N == Len(parts)
           F == [k \in 1..N |-> [p \in Packings |-> Pack(p, parts[k], gap, over)]]
           Body(g) == [k \in 0..N |-> IF k = 0 THEN EmptyPacking ELSE Pack(g[k - 1], parts[k], gap, over)]
           packed == CHOOSE g : g = Body(g)
<1>1. N \in Nat /\ \A k \in 1..N : parts[k] \in Seq(Nat)
  BY LenProperties, ElementOfSeq
<1>2. F \in [1..N -> [Packings -> Packings]] /\ \A k \in 1..N, p \in Packings : F[k][p] = Pack(p, parts[k], gap, over)
  <2>1. \A k \in 1..N, p \in Packings : Pack(p, parts[k], gap, over) \in Packings
    BY <1>1, PackIs
  <2> QED
    BY <2>1
<1>3. Packed(parts, gap, over) = packed[N]
  BY DEF Packed, EmptyPacking
<1> HIDE DEF F, N
<1>4. PICK g : g \in [0..N -> Packings] /\ g[0] = EmptyPacking /\ \A k \in 1..N : g[k] = F[k][g[k - 1]]
  <2>1. EmptyPacking \in Packings /\ N \in Nat /\ F \in LoopTurns(N, Packings)
    BY <1>1, <1>2, EmptyIsPacking DEF LoopTurns
  <2>2. \E g : Loops(g, N, Packings, EmptyPacking, F)
    BY <2>1, Iterates, Zenon
  <2> QED
    BY <2>2 DEF Loops
<1>5. g = Body(g)
  <2>1. \A k \in 0..N : g[k] = IF k = 0 THEN EmptyPacking ELSE Pack(g[k - 1], parts[k], gap, over)
    <3>1. \A k \in 0..N : k # 0 => k \in 1..N /\ k - 1 \in 0..N
      BY <1>1
    <3> QED
      BY <1>2, <1>4, <3>1
  <2> QED
    BY <1>4, <2>1
<1> HIDE DEF Body
<1>6. packed = Body(packed)
  BY <1>5
<1> HIDE DEF packed
<1>7. \A k \in 0..N : packed[k] = IF k = 0 THEN EmptyPacking ELSE Pack(packed[k - 1], parts[k], gap, over)
  <2>1. \A h : \A k \in 0..N : Body(h)[k] = IF k = 0 THEN EmptyPacking ELSE Pack(h[k - 1], parts[k], gap, over)
    BY DEF Body
  <2> QED
    BY <1>6, <2>1
<1>8. packed[0] = EmptyPacking /\ \A k \in 1..N : packed[k] = Pack(packed[k - 1], parts[k], gap, over)
  BY <1>1, <1>7
<1>9. \A k \in 0..N : packed[k] \in Packings
  <2> DEFINE P == {k \in 0..N : packed[k] \in Packings}
  <2>1. P \in SUBSET (0..N) /\ 0 \in P
    BY <1>1, <1>8, EmptyIsPacking
  <2>2. ASSUME NEW k \in P, k < N PROVE k + 1 \in P
    <3>1. k + 1 \in 1..N /\ k + 1 \in 0..N /\ (k + 1) - 1 = k
      BY <1>1, <2>2
    <3>2. packed[k] \in Packings /\ parts[k + 1] \in Seq(Nat) /\ packed[k + 1] = Pack(packed[k], parts[k + 1], gap, over)
      BY <1>1, <1>8, <2>2, <3>1
    <3>3. packed[k + 1] \in Packings
      BY <3>2, PackIs
    <3> QED
      BY <3>1, <3>3
  <2>3. \A k \in 0..N : k \in P
    <3> HIDE DEF P
    <3> QED
      BY <1>1, <2>1, <2>2, UpTo
  <2> QED
    BY <2>3
<1>10. \E B : packed = [k \in 0..N |-> B[k]]
  <2>1. packed = [k \in 0..N |-> packed[k]]
    BY <1>6 DEF Body
  <2> QED
    BY <2>1
<1>11. PackedUp(packed, parts, gap, over)
  BY <1>8, <1>9, <1>10 DEF PackedUp, N
<1> QED
  BY <1>3, <1>11 DEF N

\* Packing a chain of parts gives a chain that reads the same.
LEMMA PackingReads ==
  ASSUME NEW parts, NEW over \in Nat, NEW a, NEW b, NEW gap \in Gaps,
         NEW sizes \in SUBSET Nat, MaxChars \in sizes, NEW extra \in Nat, over # 0 => extra = over + 2,
         Chain(parts, 0, a, b, sizes, 0)
  PROVE  Chain(Flushed(Packed(parts, gap, over)), over, a, b, sizes, extra)
<1> DEFINE N == Len(parts)
<1>1. PICK bounds : PlainBounds(parts, bounds, sizes) /\ bounds[0] = a /\ bounds[N] = b
  BY PlainBoundsAre, Zenon DEF Chain
<1>2. parts \in Seq(Seq(Nat)) /\ bounds \in [0..N -> Nat] /\ N \in Nat
  BY <1>1, LenProperties DEF PlainBounds
<1>3. ASSUME NEW k \in 1..N
      PROVE  /\ parts[k] \in Seq(Nat) /\ parts[k] # <<>> /\ Fits(parts[k], sizes, 0)
             /\ Reads(parts[k], 0, bounds[k - 1], bounds[k])
  BY <1>1, <1>2, ElementOfSeq DEF PlainBounds
<1>4. PICK g : PackedUp(g, parts, gap, over) /\ Packed(parts, gap, over) = g[N]
  BY <1>2, PackedIs
<1>5. /\ g \in [0..N -> Packings] /\ g[0] = EmptyPacking
      /\ \A k \in 1..N : g[k] = Pack(g[k - 1], parts[k], gap, over)
  BY <1>4 DEF PackedUp
<1> HIDE DEF N
<1> DEFINE P == {k \in 0..N : k # 0 => HasPacked(g[k], over, a, bounds[k], sizes, extra)}
<1>6. P \in SUBSET (0..N) /\ 0 \in P
  BY <1>2
<1>7. ASSUME NEW k \in P, k < N PROVE k + 1 \in P
  <2> DEFINE u == parts[k + 1]
  <2>1. k \in Nat /\ k + 1 \in 1..N /\ k + 1 \in 0..N /\ (k + 1) - 1 = k
    BY <1>2, <1>7
  <2>2. /\ u \in Seq(Nat) /\ u # <<>> /\ Fits(u, sizes, 0)
        /\ Reads(u, 0, bounds[k], bounds[k + 1])
        /\ g[k + 1] = Pack(g[k], u, gap, over)
    BY <1>3, <1>5, <2>1
  <2>3. bounds[k] \in Nat /\ bounds[k + 1] \in Nat /\ a \in Nat
    BY <1>1, <1>2, <2>1
  <2> HIDE DEF u
  <2>4. CASE k # 0
    <3>1. HasPacked(g[k], over, a, bounds[k], sizes, extra)
      BY <2>4
    <3>2. HasPacked(Pack(g[k], u, gap, over), over, a, bounds[k + 1], sizes, extra)
      BY <2>2, <3>1, PackKeeps
    <3> HIDE DEF P
    <3>3. HasPacked(g[k + 1], over, a, bounds[k + 1], sizes, extra)
      BY <2>2, <3>2
    <3> QED
      BY <2>1, <3>3 DEF P
  <2>5. CASE k = 0
    <3>1. g[k] = EmptyPacking /\ EmptyPacking \in Packings /\ EmptyPacking.buffer = <<>> /\ EmptyPacking.written = <<>>
      BY <1>5, <2>5, EmptyIsPacking DEF EmptyPacking
    <3>2. Joined(<<>>, gap, u) = u
      BY DEF Joined
    <3>3. g[k + 1] \in Packings /\ g[k + 1].written = <<>> /\ g[k + 1].buffer = u
      BY <2>2, <3>1, <3>2, PackIs
    <3>4. bounds[k] = a
      BY <1>1, <2>5
    <3>5. Chain(<<>>, over, a, a, sizes, extra)
      BY <2>3, NoChain
    <3>6. Again(<<>>, over) = 0
      BY DEF Again
    <3>7. Fits(u, sizes, extra)
      <4>1. PICK m \in sizes : Len(u) <= m + 0
        BY <2>2 DEF Fits
      <4>2. Len(u) <= m + extra
        BY <2>2, <4>1, LenProperties
      <4> QED
        BY <4>2 DEF Fits
    <3>8. Follows(<<>>, u, over, a, bounds[k + 1], sizes, extra)
      BY <2>2, <3>4, <3>6, <3>7 DEF Follows
    <3> HIDE DEF P
    <3>9. HasPacked(g[k + 1], over, a, bounds[k + 1], sizes, extra)
      BY <2>3, <3>3, <3>5, <3>8 DEF HasPacked
    <3> QED
      BY <2>1, <3>9 DEF P
  <2> QED
    BY <2>4, <2>5
<1>8. \A k \in 0..N : k \in P
  <2> HIDE DEF P
  <2> QED
    BY <1>2, <1>6, <1>7, UpTo
<1>9. N \in P
  <2> HIDE DEF P
  <2> QED
    BY <1>2, <1>8
<1>10. CASE N = 0
  <2>1. g[N] = EmptyPacking /\ EmptyPacking.buffer = <<>> /\ EmptyPacking.written = <<>>
    BY <1>5, <1>10 DEF EmptyPacking
  <2>2. Flushed(g[N]) = <<>>
    BY <2>1 DEF Flushed
  <2>3. a = b /\ a \in Nat
    BY <1>1, <1>2, <1>10
  <2> QED
    BY <1>4, <2>2, <2>3, NoChain
<1>11. CASE N # 0
  <2>1. HasPacked(g[N], over, a, b, sizes, extra)
    BY <1>1, <1>9, <1>11 DEF N
  <2>2. PICK m \in Nat : /\ Chain(g[N].written, over, a, m, sizes, extra)
                         /\ Follows(g[N].written, g[N].buffer, over, m, b, sizes, extra)
    BY <2>1 DEF HasPacked
  <2>3. g[N].buffer # <<>>
    BY <2>2 DEF Follows
  <2>4. Flushed(g[N]) = Append(g[N].written, g[N].buffer)
    BY <2>3 DEF Flushed
  <2>5. Chain(Append(g[N].written, g[N].buffer), over, a, b, sizes, extra)
    BY <2>2, ChainAppend
  <2> QED
    BY <1>4, <2>4, <2>5
<1> QED
  BY <1>10, <1>11

-----------------------------------------------------------------------------
(* The words of a text, its paragraphs and its pieces *)

LEMMA LettersRead ==
  ASSUME NEW word \in Word
  PROVE  /\ word.from - 1 \in Nat /\ word.to \in Nat /\ WordLength(word) \in Nat
         /\ Letters(word) \in Seq(Nat) /\ Letters(word) # <<>> /\ Len(Letters(word)) = WordLength(word)
         /\ Reads(Letters(word), 0, word.from - 1, word.to)
<1> DEFINE x == word.from
           y == word.to
           n == (y - x) + 1
           s == [i \in 1..n |-> x + i - 1]
<1>1. x \in Nat /\ y \in Nat /\ x # 0 /\ x <= y
  BY DEF Word
<1>2. Letters(word) = s /\ WordLength(word) = n
  BY <1>1 DEF Letters, WordLength
<1> HIDE DEF x, y
<1>3. n \in Nat /\ n # 0 /\ x - 1 \in Nat /\ x - 1 <= y
  BY <1>1
<1>4. \A i \in 1..n : x + i - 1 \in Nat /\ x + i - 1 \in (x - 1) + 1..y /\ x + i - 1 = x + (i - 1)
  BY <1>1
<1>5. s \in Seq(Nat) /\ Len(s) = n /\ \A i \in 1..n : s[i] = x + (i - 1)
  <2> HIDE DEF n
  <2> QED
    BY <1>3, <1>4
<1>6. s # <<>>
  BY <1>3, <1>5, EmptySeq
<1>7. \A i \in 1..n : s[i] \in (x - 1) + 1..y
  <2> HIDE DEF n, s
  <2> QED
    BY <1>4, <1>5
<1>8. ASSUME NEW c \in (x - 1) + 1..y PROVE \E i \in 1..n : s[i] = c
  <2> DEFINE i == (c - x) + 1
  <2>1. i \in 1..n /\ x + (i - 1) = c
    BY <1>1
  <2> HIDE DEF i, n, s
  <2> QED
    BY <1>5, <2>1
<1>9. \A i, j \in 1..n : i < j => s[i] < s[j]
  <2> HIDE DEF n, s
  <2> QED
    BY <1>1, <1>3, <1>5
<1> HIDE DEF s, n
<1>10. Reads(s, 0, x - 1, y)
  <2>1. 0 \in 0..Len(s) /\ 0 + 1..Len(s) = 1..n
    BY <1>3, <1>5
  <2> QED
    BY <1>1, <1>3, <1>5, <1>7, <1>8, <1>9, <2>1 DEF Reads
<1> QED
  BY <1>1, <1>2, <1>3, <1>5, <1>6, <1>10 DEF x, y

\* A paragraph, of the characters after a up to b.
Paragraph(words, a, b) ==
  /\ words \in Seq(Word) /\ words # <<>>
  /\ words[1].from = a + 1 /\ words[Len(words)].to = b
  /\ \A w \in 2..Len(words) : words[w].from = words[w - 1].to + 1

LEMMA SpelledReads ==
  ASSUME NEW words, NEW a \in Nat, NEW b, Paragraph(words, a, b), NEW sizes,
         \A w \in 1..Len(words) : WordLength(words[w]) \in sizes
  PROVE  /\ Chain(Spelled(words), 0, a, b, sizes, 0)
         /\ Spelled(words) \in Seq(Seq(Nat)) /\ Spelled(words) # <<>>
<1> DEFINE N == Len(words)
           s == Spelled(words)
           bounds == [k \in 0..N |-> IF k = 0 THEN a ELSE words[k].to]
<1>1. /\ words \in Seq(Word) /\ N \in Nat /\ N # 0
      /\ words[1].from = a + 1 /\ words[N].to = b
      /\ \A w \in 2..N : words[w].from = words[w - 1].to + 1
  BY EmptySeq, LenProperties DEF Paragraph
<1>2. \A w \in 1..N : words[w] \in Word
  BY <1>1, ElementOfSeq
<1>3. \A w \in 1..N : words[w].from - 1 \in Nat /\ words[w].from \in Int /\ words[w].to \in Nat
  <2>1. \A w \in 1..N : words[w].from \in Nat
    BY <1>2 DEF Word
  <2> QED
    BY <1>2, <2>1, LettersRead
<1>4. s = [w \in 1..N |-> Letters(words[w])]
  BY DEF Spelled
<1>5. s \in Seq(Seq(Nat)) /\ Len(s) = N /\ \A k \in 1..N : s[k] = Letters(words[k])
  <2>1. \A w \in 1..N : Letters(words[w]) \in Seq(Nat)
    BY <1>2, LettersRead
  <2> HIDE DEF N, s
  <2>2. DOMAIN s = 1..N /\ \A k \in 1..N : s[k] = Letters(words[k])
    BY <1>4
  <2>3. s \in [1..N -> Seq(Nat)]
    BY <1>4, <2>1, Zenon
  <2>4. s \in Seq(Seq(Nat))
    BY <1>1, <2>3, SMTT(30)
  <2>5. Len(s) = N
    BY <1>1, <2>2, <2>4, LenProperties, SMTT(30)
  <2> QED
    BY <2>2, <2>4, <2>5
<1>6. /\ bounds \in [0..N -> Nat] /\ bounds[0] = a /\ bounds[N] = b
      /\ \A k \in 1..N : bounds[k] = words[k].to
  <2> HIDE DEF N
  <2> QED
    BY <1>1, <1>3
<1> HIDE DEF N, s, bounds
<1>7. ASSUME NEW k \in 1..N PROVE bounds[k - 1] = words[k].from - 1
  <2>1. CASE k = 1
    BY <1>1, <1>6, <2>1
  <2>2. CASE k # 1
    <3>1. k \in 2..N /\ k - 1 \in 1..N
      BY <1>1, <2>2
    <3>2. words[k].from = words[k - 1].to + 1 /\ bounds[k - 1] = words[k - 1].to /\ words[k - 1].to \in Nat
      BY <1>1, <1>3, <1>6, <3>1
    <3> QED
      BY <3>2
  <2> QED
    BY <2>1, <2>2
<1>8. ASSUME NEW k \in 1..N
      PROVE  s[k] # <<>> /\ Fits(s[k], sizes, 0) /\ Reads(s[k], 0, bounds[k - 1], bounds[k])
  <2>1. s[k] = Letters(words[k]) /\ words[k] \in Word /\ bounds[k] = words[k].to /\ bounds[k - 1] = words[k].from - 1
    BY <1>2, <1>5, <1>6, <1>7
  <2>2. /\ Letters(words[k]) # <<>> /\ Len(Letters(words[k])) = WordLength(words[k])
        /\ Reads(Letters(words[k]), 0, words[k].from - 1, words[k].to)
        /\ WordLength(words[k]) \in Nat
    BY <2>1, LettersRead
  <2>3. WordLength(words[k]) \in sizes
    BY DEF N
  <2>4. Len(s[k]) <= WordLength(words[k]) + 0
    BY <2>1, <2>2
  <2>5. Fits(s[k], sizes, 0)
    BY <2>3, <2>4 DEF Fits
  <2> QED
    BY <2>1, <2>2, <2>5
<1>9. PlainBounds(s, bounds, sizes)
  BY <1>5, <1>6, <1>8 DEF PlainBounds
<1>10. Bounds(s, bounds, 0, sizes, 0)
  BY <1>9, PlainBoundsAre, Zenon
<1>11. Chain(s, 0, a, b, sizes, 0)
  BY <1>5, <1>6, <1>10 DEF Chain
<1>12. s # <<>>
  BY <1>1, <1>5, EmptySeq
<1> QED
  BY <1>5, <1>11, <1>12 DEF s

\* The text of a paragraph after each word.
Lengthened(g, parts) ==
  /\ g \in [0..Len(parts) -> Seq(Nat)]
  /\ g[0] = <<>>
  /\ \A k \in 1..Len(parts) : g[k] = Joined(g[k - 1], Space, parts[k])

LEMMA ContentIs ==
  ASSUME NEW words, NEW N \in Nat, N = Len(words),
         NEW parts, parts = Spelled(words), parts \in Seq(Seq(Nat)), Len(parts) = N
  PROVE  \E g : Lengthened(g, parts) /\ Content(words) = g[N]
<1> DEFINE F == [k \in 1..N |-> [s \in Seq(Nat) |-> Joined(s, Space, parts[k])]]
           Body(g) == [k \in 0..N |-> IF k = 0 THEN <<>> ELSE Joined(g[k - 1], Space, parts[k])]
           content == CHOOSE g : g = Body(g)
<1>1. /\ \A k \in 1..N : parts[k] \in Seq(Nat)
      /\ \A k \in 1..N, s \in Seq(Nat) : Joined(s, Space, parts[k]) \in Seq(Nat)
      /\ <<>> \in Seq(Nat)
  <2>1. \A k \in 1..N : parts[k] \in Seq(Nat)
    BY ElementOfSeq
  <2>2. Space \in Gaps /\ <<>> \in Seq(Nat)
    BY DEF Gaps
  <2> QED
    BY <2>1, <2>2, JoinedIn
<1>2. F \in [1..N -> [Seq(Nat) -> Seq(Nat)]] /\ \A k \in 1..N, s \in Seq(Nat) : F[k][s] = Joined(s, Space, parts[k])
  BY <1>1
<1>3. Content(words) = content[N]
  BY DEF Content
<1> HIDE DEF F
<1>4. PICK g : g \in [0..N -> Seq(Nat)] /\ g[0] = <<>> /\ \A k \in 1..N : g[k] = F[k][g[k - 1]]
  <2>1. <<>> \in Seq(Nat) /\ N \in Nat /\ F \in LoopTurns(N, Seq(Nat))
    BY <1>1, <1>2 DEF LoopTurns
  <2>2. \E g : Loops(g, N, Seq(Nat), <<>>, F)
    BY <2>1, Iterates, Zenon
  <2> QED
    BY <2>2 DEF Loops
<1>5. g = Body(g)
  <2>1. \A k \in 0..N : g[k] = IF k = 0 THEN <<>> ELSE Joined(g[k - 1], Space, parts[k])
    <3>1. \A k \in 0..N : k # 0 => k \in 1..N /\ k - 1 \in 0..N
      OBVIOUS
    <3> QED
      BY <1>2, <1>4, <3>1
  <2> QED
    BY <1>4, <2>1
<1> HIDE DEF Body
<1>6. content = Body(content)
  BY <1>5
<1> HIDE DEF content
<1>7. \A k \in 0..N : content[k] = IF k = 0 THEN <<>> ELSE Joined(content[k - 1], Space, parts[k])
  <2>1. \A h : \A k \in 0..N : Body(h)[k] = IF k = 0 THEN <<>> ELSE Joined(h[k - 1], Space, parts[k])
    BY DEF Body
  <2> QED
    BY <1>6, <2>1
<1>8. content[0] = <<>> /\ \A k \in 1..N : content[k] = Joined(content[k - 1], Space, parts[k])
  BY <1>7
<1>9. \A k \in 0..N : content[k] \in Seq(Nat)
  <2> DEFINE P == {k \in 0..N : content[k] \in Seq(Nat)}
  <2>1. P \in SUBSET (0..N) /\ 0 \in P
    <3>1. content[0] \in Seq(Nat) /\ 0 \in 0..N
      BY <1>1, <1>8
    <3> QED
      BY <3>1
  <2>2. ASSUME NEW k \in P, k < N PROVE k + 1 \in P
    <3>1. k + 1 \in 1..N /\ k + 1 \in 0..N /\ (k + 1) - 1 = k
      BY <2>2
    <3>2. content[k] \in Seq(Nat) /\ content[k + 1] = Joined(content[k], Space, parts[k + 1])
      BY <1>8, <2>2, <3>1
    <3>3. content[k + 1] \in Seq(Nat)
      BY <1>1, <3>1, <3>2
    <3> QED
      BY <3>1, <3>3
  <2>3. \A k \in 0..N : k \in P
    <3> HIDE DEF P
    <3> QED
      BY <2>1, <2>2, UpTo
  <2> QED
    BY <2>3
<1>10. \E B : content = [k \in 0..N |-> B[k]]
  <2>1. content = [k \in 0..N |-> content[k]]
    BY <1>6 DEF Body
  <2> QED
    BY <2>1
<1>11. Lengthened(content, parts)
  BY <1>8, <1>9, <1>10 DEF Lengthened
<1> QED
  BY <1>3, <1>11

LEMMA ContentReads ==
  ASSUME NEW words, NEW a \in Nat, NEW b, Paragraph(words, a, b)
  PROVE  Reads(Content(words), 0, a, b) /\ Content(words) # <<>>
<1> DEFINE N == Len(words)
           parts == Spelled(words)
           sizes == {WordLength(words[w]) : w \in 1..N}
<1>1. N \in Nat /\ Len(parts) = N /\ DOMAIN parts = 1..N
  <2>1. N \in Nat
    BY LenProperties DEF Paragraph
  <2> HIDE DEF N
  <2>2. parts = [w \in 1..N |-> Letters(words[w])]
    BY DEF N, Spelled
  <2> HIDE DEF parts
  <2> QED
    BY <2>1, <2>2
<1>2. Chain(parts, 0, a, b, sizes, 0) /\ parts \in Seq(Seq(Nat)) /\ parts # <<>>
  <2>1. \A w \in 1..N : WordLength(words[w]) \in sizes
    OBVIOUS
  <2> HIDE DEF sizes
  <2> QED
    BY <2>1, SpelledReads
<1>3. N # 0
  BY <1>1, <1>2, EmptySeq
<1> HIDE DEF sizes, parts
<1>4. PICK bounds : PlainBounds(parts, bounds, sizes) /\ bounds[0] = a /\ bounds[N] = b
  <2>1. PICK bounds : Bounds(parts, bounds, 0, sizes, 0) /\ bounds[0] = a /\ bounds[Len(parts)] = b
    BY <1>2 DEF Chain
  <2> QED
    BY <1>1, <2>1, PlainBoundsAre, Zenon
<1>5. \A k \in 1..N : parts[k] # <<>> /\ Reads(parts[k], 0, bounds[k - 1], bounds[k])
  BY <1>1, <1>4 DEF PlainBounds
<1>6. PICK g : Lengthened(g, parts) /\ Content(words) = g[N]
  BY <1>1, <1>2, ContentIs DEF parts
<1>7. g[0] = <<>> /\ \A k \in 1..N : g[k] = Joined(g[k - 1], Space, parts[k])
  BY <1>1, <1>6 DEF Lengthened
<1> HIDE DEF N
<1> DEFINE P == {k \in 0..N : k # 0 => g[k] # <<>> /\ Reads(g[k], 0, a, bounds[k])}
<1>8. P \in SUBSET (0..N) /\ 0 \in P
  BY <1>1
<1>9. ASSUME NEW k \in P, k < N PROVE k + 1 \in P
  <2>1. k \in Nat /\ k + 1 \in 1..N /\ k + 1 \in 0..N /\ (k + 1) - 1 = k
    BY <1>1, <1>9
  <2>2. /\ g[k + 1] = Joined(g[k], Space, parts[k + 1])
        /\ parts[k + 1] # <<>> /\ Reads(parts[k + 1], 0, bounds[k], bounds[k + 1])
    BY <1>5, <1>7, <2>1
  <2>3. CASE k = 0
    <3>1. g[k + 1] = parts[k + 1] /\ bounds[k] = a
      BY <1>4, <1>7, <2>2, <2>3 DEF Joined
    <3>2. g[k + 1] # <<>> /\ Reads(g[k + 1], 0, a, bounds[k + 1])
      BY <2>2, <3>1
    <3> QED
      BY <2>1, <3>2
  <2>4. CASE k # 0
    <3>1. g[k] # <<>> /\ Reads(g[k], 0, a, bounds[k])
      BY <2>4
    <3>2. Space \in Gaps
      BY DEF Gaps
    <3>3. Reads(Joined(g[k], Space, parts[k + 1]), 0, a, bounds[k + 1]) /\ Joined(g[k], Space, parts[k + 1]) # <<>>
      BY <2>2, <3>1, <3>2, JoinedReads, Zenon
    <3> QED
      BY <2>1, <2>2, <3>3
  <2> QED
    BY <2>3, <2>4
<1>10. \A k \in 0..N : k \in P
  <2> HIDE DEF P
  <2> QED
    BY <1>1, <1>8, <1>9, UpTo
<1>11. N \in P
  <2> HIDE DEF P
  <2> QED
    BY <1>1, <1>10
<1> QED
  BY <1>3, <1>4, <1>6, <1>11

LEMMA SplitReads ==
  ASSUME NEW words, NEW a \in Nat, NEW b, Paragraph(words, a, b), NEW sizes \in SUBSET Nat, MaxChars \in sizes,
         \A w \in 1..Len(words) : WordLength(words[w]) \in sizes
  PROVE  Chain(Split(words), 0, a, b, sizes, 0) /\ Split(words) \in Seq(Seq(Nat))
<1> DEFINE content == Content(words)
<1>1. Reads(content, 0, a, b) /\ content # <<>>
  BY ContentReads
<1>2. content \in Seq(Nat) /\ Len(content) \in Nat /\ MaxChars \in Nat
  <2>1. content \in Seq(Nat)
    BY <1>1 DEF Reads
  <2> QED
    BY <2>1, LenProperties
<1> HIDE DEF content
<1>3. Chain(Split(words), 0, a, b, sizes, 0)
  <2>1. CASE Len(content) > MaxChars
    <3>1. Split(words) = HardSplit(words)
      BY <2>1 DEF Split, content
    <3>2. Chain(Spelled(words), 0, a, b, sizes, 0)
      BY SpelledReads
    <3>3. Space \in Gaps /\ 0 \in Nat
      BY DEF Gaps
    <3>4. Chain(Flushed(Packed(Spelled(words), Space, 0)), 0, a, b, sizes, 0)
      BY <3>2, <3>3, PackingReads
    <3> QED
      BY <3>1, <3>4 DEF HardSplit
  <2>2. CASE ~(Len(content) > MaxChars)
    <3>1. Split(words) = <<content>>
      BY <2>2 DEF Split, content
    <3>2. Fits(content, sizes, 0)
      <4>1. Len(content) <= MaxChars + 0
        BY <1>2, <2>2
      <4> QED
        BY <4>1 DEF Fits
    <3>3. Follows(<<>>, content, 0, a, b, sizes, 0)
      <4>1. Again(<<>>, 0) = 0
        BY DEF Again
      <4> QED
        BY <1>1, <3>2, <4>1 DEF Follows
    <3>4. Chain(<<>>, 0, a, a, sizes, 0)
      BY NoChain
    <3>5. Chain(Append(<<>>, content), 0, a, b, sizes, 0)
      BY <3>3, <3>4, ChainAppend
    <3>6. Append(<<>>, content) = <<content>>
      OBVIOUS
    <3> QED
      BY <3>1, <3>5, <3>6
  <2> QED
    BY <2>1, <2>2
<1>4. Split(words) \in Seq(Seq(Nat))
  BY <1>3 DEF Chain, Bounds
<1> QED
  BY <1>3, <1>4

\* The last character of the first p paragraphs.
Ends(t, p) == IF p = 0 THEN 0 ELSE t[p][Len(t[p])].to

LEMMA ParagraphsAre ==
  ASSUME NEW t, NumberedInOrder(t), NEW p \in 1..Len(t)
  PROVE  Ends(t, p - 1) \in Nat /\ Ends(t, p) \in Nat /\ Paragraph(t[p], Ends(t, p - 1), Ends(t, p))
<1>1. /\ t \in Seq(Seq(Word)) /\ Len(t) \in Nat /\ DOMAIN t = 1..Len(t)
  BY LenProperties DEF NumberedInOrder
<1>2. ASSUME NEW q \in 1..Len(t)
      PROVE  /\ t[q] \in Seq(Word) /\ t[q] # <<>> /\ DOMAIN t[q] = 1..Len(t[q])
             /\ Ends(t, q) = t[q][Len(t[q])].to /\ Ends(t, q) \in Nat
  <2>1. t[q] \in Seq(Word) /\ t[q] # <<>>
    BY <1>1, ElementOfSeq DEF NumberedInOrder
  <2>2. Len(t[q]) \in 1..Len(t[q]) /\ DOMAIN t[q] = 1..Len(t[q])
    BY <2>1, EmptySeq, LenProperties
  <2>3. t[q][Len(t[q])] \in Word
    BY <2>1, <2>2, ElementOfSeq
  <2>4. q # 0
    BY <1>1
  <2>5. Ends(t, q) = t[q][Len(t[q])].to
    BY <2>4 DEF Ends
  <2>6. t[q][Len(t[q])].to \in Nat
    BY <2>3 DEF Word
  <2> QED
    BY <2>1, <2>2, <2>5, <2>6
<1>3. Ends(t, p - 1) \in Nat /\ t[p][1].from = Ends(t, p - 1) + 1
  <2>1. t[p][1].from = IF p = 1 THEN 1 ELSE t[p - 1][Len(t[p - 1])].to + 1
    BY <1>1 DEF NumberedInOrder
  <2>2. CASE p = 1
    <3>1. Ends(t, p - 1) = 0
      BY <2>2 DEF Ends
    <3> QED
      BY <2>1, <2>2, <3>1
  <2>3. CASE p # 1
    <3>1. p - 1 \in 1..Len(t)
      BY <1>1, <2>3
    <3>2. Ends(t, p - 1) = t[p - 1][Len(t[p - 1])].to /\ Ends(t, p - 1) \in Nat
      BY <1>2, <3>1
    <3> QED
      BY <2>1, <2>3, <3>2
  <2> QED
    BY <2>2, <2>3
<1>4. \A w \in 2..Len(t[p]) : t[p][w].from = t[p][w - 1].to + 1
  BY <1>1 DEF NumberedInOrder
<1> QED
  BY <1>2, <1>3, <1>4 DEF Paragraph

\* The pieces of the first paragraphs.
Collected(g, t) ==
  /\ g[0] = <<>>
  /\ \A p \in 1..Len(t) : g[p] = g[p - 1] \o Split(t[p])

LEMMA PiecesAre ==
  ASSUME NEW t, NEW N \in Nat, N = Len(t), \A p \in 1..N : Split(t[p]) \in Seq(Seq(Nat))
  PROVE  \E g : Collected(g, t) /\ Pieces(t) = g[N]
<1> DEFINE V == Seq(Seq(Nat))
           F == [p \in 1..N |-> [s \in V |-> s \o Split(t[p])]]
           Body(g) == [p \in 0..N |-> IF p = 0 THEN <<>> ELSE g[p - 1] \o Split(t[p])]
           pieces == CHOOSE g : g = Body(g)
<1>1. <<>> \in V /\ \A p \in 1..N, s \in V : s \o Split(t[p]) \in V
  BY ConcatProperties
<1> HIDE DEF V
<1>2. F \in [1..N -> [V -> V]] /\ \A p \in 1..N, s \in V : F[p][s] = s \o Split(t[p])
  BY <1>1
<1>3. Pieces(t) = pieces[N]
  BY DEF Pieces
<1> HIDE DEF F
<1>4. PICK g : g \in [0..N -> V] /\ g[0] = <<>> /\ \A p \in 1..N : g[p] = F[p][g[p - 1]]
  <2>1. <<>> \in V /\ N \in Nat /\ F \in LoopTurns(N, V)
    BY <1>1, <1>2 DEF LoopTurns
  <2>2. \E g : Loops(g, N, V, <<>>, F)
    BY <2>1, Iterates, Zenon
  <2> QED
    BY <2>2 DEF Loops
<1>5. g = Body(g)
  <2>1. \A p \in 0..N : g[p] = IF p = 0 THEN <<>> ELSE g[p - 1] \o Split(t[p])
    <3>1. \A p \in 0..N : p # 0 => p \in 1..N /\ p - 1 \in 0..N
      OBVIOUS
    <3> QED
      BY <1>2, <1>4, <3>1
  <2> QED
    BY <1>4, <2>1
<1> HIDE DEF Body
<1>6. pieces = Body(pieces)
  BY <1>5
<1> HIDE DEF pieces
<1>7. \A p \in 0..N : pieces[p] = IF p = 0 THEN <<>> ELSE pieces[p - 1] \o Split(t[p])
  <2>1. \A h : \A p \in 0..N : Body(h)[p] = IF p = 0 THEN <<>> ELSE h[p - 1] \o Split(t[p])
    BY DEF Body
  <2> QED
    BY <1>6, <2>1
<1>8. Collected(pieces, t)
  <2>1. pieces[0] = <<>> /\ \A p \in 1..N : pieces[p] = pieces[p - 1] \o Split(t[p])
    <3>1. 0 \in 0..N /\ \A p \in 1..N : p \in 0..N /\ p # 0
      OBVIOUS
    <3>2. \A p \in 0..N : p # 0 => pieces[p] = pieces[p - 1] \o Split(t[p])
      BY <1>7, Zenon
    <3>3. pieces[0] = <<>>
      BY <1>7, <3>1, Zenon
    <3> QED
      BY <3>1, <3>2, <3>3, Zenon
  <2> QED
    BY <2>1 DEF Collected
<1> QED
  BY <1>3, <1>8

\* The lengths of words, and of a chunk.
Sizes(t) == {MaxChars} \cup UNION {{WordLength(t[p][w]) : w \in DOMAIN t[p]} : p \in DOMAIN t}

LEMMA SizesAre ==
  ASSUME NEW t, NumberedInOrder(t)
  PROVE  /\ Sizes(t) \in SUBSET Nat /\ MaxChars \in Sizes(t)
         /\ \A p \in 1..Len(t) : \A w \in 1..Len(t[p]) : WordLength(t[p][w]) \in Sizes(t)
<1>1. t \in Seq(Seq(Word)) /\ DOMAIN t = 1..Len(t)
  BY LenProperties DEF NumberedInOrder
<1>2. \A p \in 1..Len(t) : t[p] \in Seq(Word) /\ DOMAIN t[p] = 1..Len(t[p])
  <2>1. \A p \in 1..Len(t) : t[p] \in Seq(Word)
    BY <1>1, ElementOfSeq
  <2> QED
    BY <2>1, LenProperties
<1>3. \A p \in 1..Len(t) : \A w \in 1..Len(t[p]) : WordLength(t[p][w]) \in Nat
  BY <1>2, ElementOfSeq, LettersRead
<1>4. MaxChars \in Nat
  BY ChunkingAssumption
<1>5. /\ MaxChars \in Sizes(t)
      /\ \A p \in 1..Len(t) : \A w \in 1..Len(t[p]) : WordLength(t[p][w]) \in Sizes(t)
  BY <1>1, <1>2 DEF Sizes
<1>6. ASSUME NEW n \in Sizes(t) PROVE n \in Nat
  <2>1. CASE n = MaxChars
    BY <1>4, <2>1
  <2>2. CASE n # MaxChars
    <3>1. PICK p \in DOMAIN t : n \in {WordLength(t[p][w]) : w \in DOMAIN t[p]}
      BY <2>2 DEF Sizes
    <3>2. PICK w \in DOMAIN t[p] : n = WordLength(t[p][w])
      BY <3>1
    <3> QED
      BY <1>1, <1>2, <1>3, <3>2
  <2> QED
    BY <2>1, <2>2
<1> QED
  BY <1>5, <1>6

LEMMA PiecesRead ==
  ASSUME NEW t, NumberedInOrder(t)
  PROVE  Chain(Pieces(t), 0, 0, Ends(t, Len(t)), Sizes(t), 0)
<1> DEFINE N == Len(t)
           sizes == Sizes(t)
<1>1. N \in Nat
  BY LenProperties DEF NumberedInOrder
<1>2. \A p \in 1..N : /\ Ends(t, p - 1) \in Nat /\ Ends(t, p) \in Nat
                      /\ Chain(Split(t[p]), 0, Ends(t, p - 1), Ends(t, p), sizes, 0)
                      /\ Split(t[p]) \in Seq(Seq(Nat))
  <2> SUFFICES ASSUME NEW p \in 1..N
               PROVE  /\ Ends(t, p - 1) \in Nat /\ Ends(t, p) \in Nat
                      /\ Chain(Split(t[p]), 0, Ends(t, p - 1), Ends(t, p), sizes, 0)
                      /\ Split(t[p]) \in Seq(Seq(Nat))
    OBVIOUS
  <2>1. Ends(t, p - 1) \in Nat /\ Ends(t, p) \in Nat /\ Paragraph(t[p], Ends(t, p - 1), Ends(t, p))
    BY ParagraphsAre
  <2>2. sizes \in SUBSET Nat /\ MaxChars \in sizes /\ \A w \in 1..Len(t[p]) : WordLength(t[p][w]) \in sizes
    BY SizesAre
  <2> HIDE DEF sizes
  <2> QED
    BY <2>1, <2>2, SplitReads
<1>3. PICK g : Collected(g, t) /\ Pieces(t) = g[N]
  BY <1>1, <1>2, PiecesAre
<1>4. g[0] = <<>> /\ \A p \in 1..N : g[p] = g[p - 1] \o Split(t[p])
  BY <1>3 DEF Collected
<1> HIDE DEF N, sizes
<1> DEFINE P == {p \in 0..N : Chain(g[p], 0, 0, Ends(t, p), sizes, 0)}
<1>5. P \in SUBSET (0..N) /\ 0 \in P
  <2>1. Chain(<<>>, 0, 0, 0, sizes, 0) /\ 0 \in 0..N
    BY <1>1, NoChain
  <2>2. Ends(t, 0) = 0
    BY DEF Ends
  <2> QED
    BY <1>4, <2>1, <2>2
<1>6. ASSUME NEW p \in P, p < N PROVE p + 1 \in P
  <2>1. p + 1 \in 1..N /\ p + 1 \in 0..N /\ (p + 1) - 1 = p
    BY <1>1, <1>6
  <2>2. Chain(g[p], 0, 0, Ends(t, p), sizes, 0)
    OBVIOUS
  <2> HIDE DEF P
  <2>3. g[p + 1] = g[p] \o Split(t[p + 1]) /\ Chain(Split(t[p + 1]), 0, Ends(t, p), Ends(t, p + 1), sizes, 0)
    BY <1>2, <1>4, <2>1
  <2>4. Chain(g[p] \o Split(t[p + 1]), 0, 0, Ends(t, p + 1), sizes, 0)
    BY <2>2, <2>3, ChainConcat
  <2> QED
    BY <2>1, <2>3, <2>4 DEF P
<1>7. \A p \in 0..N : p \in P
  <2> HIDE DEF P
  <2> QED
    BY <1>1, <1>5, <1>6, UpTo
<1>8. N \in P
  <2> HIDE DEF P
  <2> QED
    BY <1>1, <1>7
<1> QED
  BY <1>3, <1>8 DEF N, sizes

\* The chunks of a text read as the text does.
LEMMA ChunksRead ==
  ASSUME NEW t, NumberedInOrder(t)
  PROVE  Chain(ChunkText(t), OverlapChars, 0, Ends(t, Len(t)), Sizes(t), OverlapChars + 2)
<1>1. Chain(Pieces(t), 0, 0, Ends(t, Len(t)), Sizes(t), 0)
  BY PiecesRead
<1>2. Sizes(t) \in SUBSET Nat /\ MaxChars \in Sizes(t)
  BY SizesAre
<1>3. OverlapChars \in Nat /\ OverlapChars + 2 \in Nat
  BY ChunkingAssumption
<1>4. BlankLine \in Gaps
  BY DEF Gaps
<1>5. Chain(Flushed(Packed(Pieces(t), BlankLine, OverlapChars)), OverlapChars, 0, Ends(t, Len(t)), Sizes(t),
            OverlapChars + 2)
  BY <1>1, <1>2, <1>3, <1>4, PackingReads
<1> QED
  BY <1>5 DEF ChunkText

-----------------------------------------------------------------------------
(* The chunks of every text *)

LEMMA BoundsGrow ==
  ASSUME NEW q, NEW bounds, NEW over, NEW sizes, NEW extra, Bounds(q, bounds, over, sizes, extra),
         NEW i \in 0..Len(q), NEW j \in 0..Len(q), i <= j
  PROVE  bounds[i] \in Nat /\ bounds[j] \in Nat /\ bounds[i] <= bounds[j]
<1> DEFINE N == Len(q)
           P == {n \in 0..N : i <= n => bounds[i] <= bounds[n]}
<1>1. N \in Nat /\ \A n \in 0..N : bounds[n] \in Nat
  BY LenProperties DEF Bounds
<1>2. \A k \in 1..N : bounds[k - 1] <= bounds[k]
  BY DEF Bounds, Reads
<1> HIDE DEF N
<1>3. i \in 0..N /\ j \in 0..N
  BY DEF N
<1>4. P \in SUBSET (0..N) /\ 0 \in P
  BY <1>1, <1>3
<1>5. ASSUME NEW n \in P, n < N PROVE n + 1 \in P
  <2>1. n \in Nat /\ n + 1 \in 1..N /\ n + 1 \in 0..N /\ (n + 1) - 1 = n
    BY <1>1, <1>5
  <2>2. bounds[n] <= bounds[n + 1] /\ bounds[n] \in Nat /\ bounds[n + 1] \in Nat /\ bounds[i] \in Nat
    BY <1>1, <1>2, <1>3, <2>1
  <2>3. CASE i <= n
    <3>1. bounds[i] <= bounds[n]
      BY <2>3
    <3> QED
      BY <2>1, <2>2, <3>1
  <2>4. CASE ~(i <= n)
    <3>1. i = n + 1 \/ ~(i <= n + 1)
      BY <1>3, <2>1, <2>4
    <3> QED
      BY <2>1, <2>2, <3>1
  <2> QED
    BY <2>3, <2>4
<1>6. \A n \in 0..N : n \in P
  <2> HIDE DEF P
  <2> QED
    BY <1>1, <1>4, <1>5, UpTo
<1>7. j \in P
  <2> HIDE DEF P
  <2> QED
    BY <1>3, <1>6
<1> QED
  BY <1>1, <1>3, <1>7

LEMMA ChainCovers ==
  ASSUME NumberedInOrder(text),
         Chain(contents, OverlapChars, 0, Characters, Sizes(text), OverlapChars + 2)
  PROVE  ChunksCoverTheText
<1> DEFINE N == Len(contents)
           Item(q) == contents[q[1]][q[2]]
           Before(q, r) == q[1] < r[1] \/ (q[1] = r[1] /\ q[2] < r[2])
<1>1. PICK bounds : /\ Bounds(contents, bounds, OverlapChars, Sizes(text), OverlapChars + 2)
                    /\ bounds[0] = 0 /\ bounds[N] = Characters
  BY DEF Chain
<1>2. contents \in Seq(Seq(Nat)) /\ N \in Nat /\ DOMAIN contents = 1..N
  BY <1>1, LenProperties DEF Bounds
<1>3. \A i, j \in 0..N : i <= j => bounds[i] \in Nat /\ bounds[j] \in Nat /\ bounds[i] <= bounds[j]
  BY <1>1, BoundsGrow
<1>4. ASSUME NEW k \in 1..N
      PROVE  /\ Fits(contents[k], Sizes(text), OverlapChars + 2)
             /\ Reads(contents[k], Repeated(k), bounds[k - 1], bounds[k])
             /\ k # 1 => Overlaps(contents[k - 1], contents[k], Repeated(k))
  <2>1. Repeated(k) = IF k = 1 THEN 0 ELSE Repeats(contents[k - 1], OverlapChars)
    BY DEF Repeated
  <2>2. /\ Fits(contents[k], Sizes(text), OverlapChars + 2)
        /\ Reads(contents[k], IF k = 1 THEN 0 ELSE Repeats(contents[k - 1], OverlapChars), bounds[k - 1], bounds[k])
        /\ k # 1 => Overlaps(contents[k - 1], contents[k], Repeats(contents[k - 1], OverlapChars))
    BY <1>1 DEF Bounds
  <2> QED
    BY <2>1, <2>2
<1>5. ASSUME NEW q \in FreshPlaces
      PROVE  /\ q[1] \in 1..N /\ q[2] \in Repeated(q[1]) + 1..Len(contents[q[1]]) /\ Item(q) # 0
             /\ Item(q) \in bounds[q[1] - 1] + 1..bounds[q[1]]
  <2>1. PICK k \in DOMAIN contents : q \in {k} \X (Repeated(k) + 1..Len(contents[k]))
    BY DEF FreshPlaces
  <2>2. q[1] = k /\ q[2] \in Repeated(k) + 1..Len(contents[k]) /\ k \in 1..N /\ Item(q) # 0
    BY <1>2, <2>1 DEF FreshPlaces
  <2>3. Reads(contents[k], Repeated(k), bounds[k - 1], bounds[k])
    BY <1>4, <2>2
  <2>4. contents[k][q[2]] # 0 => contents[k][q[2]] \in bounds[k - 1] + 1..bounds[k]
    BY <2>2, <2>3 DEF Reads
  <2> QED
    BY <2>2, <2>4
<1>6. ASSUME NEW q \in FreshPlaces PROVE Item(q) \in 1..Characters
  <2>1. q[1] \in 0..N /\ q[1] - 1 \in 0..N /\ 0 <= q[1] - 1 /\ q[1] <= N /\ 0 \in 0..N /\ N \in 0..N
    BY <1>2, <1>5
  <2>2. /\ bounds[0] <= bounds[q[1] - 1] /\ bounds[q[1]] <= bounds[N]
        /\ bounds[q[1] - 1] \in Nat /\ bounds[q[1]] \in Nat /\ bounds[N] \in Nat
    BY <1>3, <2>1
  <2>3. Item(q) \in bounds[q[1] - 1] + 1..bounds[q[1]]
    BY <1>5
  <2> HIDE DEF Item, N
  <2> QED
    BY <1>1, <2>2, <2>3 DEF N
<1>7. ASSUME NEW c \in 1..Characters PROVE \E q \in FreshPlaces : Item(q) = c
  <2> DEFINE T == {k \in 0..N : c <= bounds[k]}
  <2>1. \A k \in 0..N : bounds[k] \in Nat
    BY <1>2, <1>3
  <2>2. N \in T
    BY <1>1, <1>2
  <2>3. PICK k \in T : \A l \in T : k <= l
    <3>1. T \in SUBSET Nat /\ T # {}
      BY <2>2
    <3> HIDE DEF T
    <3> QED
      BY <3>1, LeastOf
  <2>4. k \in 1..N /\ k - 1 \in 0..N /\ c <= bounds[k] /\ k \in 0..N
    <3>1. ~(c <= bounds[0])
      BY <1>1
    <3>2. k # 0 /\ k \in 0..N /\ c <= bounds[k]
      BY <3>1
    <3> QED
      BY <1>2, <3>2
  <2>5. ~(c <= bounds[k - 1])
    <3>1. k - 1 \notin T
      <4> HIDE DEF T
      <4> QED
        BY <1>2, <2>3, <2>4
    <3> QED
      BY <2>4, <3>1
  <2>6. c \in bounds[k - 1] + 1..bounds[k]
    <3>1. bounds[k - 1] \in Nat /\ bounds[k] \in Nat
      BY <2>1, <2>4
    <3> HIDE DEF T
    <3> QED
      BY <2>4, <2>5, <3>1
  <2>7. PICK i \in Repeated(k) + 1..Len(contents[k]) : contents[k][i] = c
    BY <1>4, <2>4, <2>6 DEF Reads
  <2> DEFINE q == <<k, i>>
  <2>8. q \in UNION {{l} \X (Repeated(l) + 1..Len(contents[l])) : l \in DOMAIN contents}
    BY <1>2, <2>4
  <2>9. q[1] = k /\ q[2] = i /\ Item(q) = c /\ c # 0
    BY <2>7
  <2>10. q \in FreshPlaces
    BY <2>8, <2>9 DEF FreshPlaces
  <2> QED
    BY <2>9, <2>10
<1>8. ASSUME NEW q \in FreshPlaces, NEW r \in FreshPlaces, Before(q, r) PROVE Item(q) < Item(r)
  <2>1. /\ q[1] \in 1..N /\ q[2] \in Repeated(q[1]) + 1..Len(contents[q[1]]) /\ Item(q) # 0
        /\ Item(q) \in bounds[q[1] - 1] + 1..bounds[q[1]]
    BY <1>5
  <2>2. /\ r[1] \in 1..N /\ r[2] \in Repeated(r[1]) + 1..Len(contents[r[1]]) /\ Item(r) # 0
        /\ Item(r) \in bounds[r[1] - 1] + 1..bounds[r[1]]
    BY <1>5
  <2>3. CASE q[1] < r[1]
    <3> DEFINE k == q[1]
               l == r[1]
    <3>1. k \in 1..N /\ l \in 1..N /\ k < l /\ Item(q) \in bounds[k - 1] + 1..bounds[k]
          /\ Item(r) \in bounds[l - 1] + 1..bounds[l]
      BY <2>1, <2>2, <2>3
    <3> HIDE DEF k, l, Item
    <3>2. k \in 0..N /\ k - 1 \in 0..N /\ l - 1 \in 0..N /\ l \in 0..N /\ k <= l - 1 /\ k - 1 <= k /\ l - 1 <= l
      BY <1>2, <3>1
    <3>3. /\ bounds[k] <= bounds[l - 1] /\ bounds[k] \in Nat /\ bounds[l - 1] \in Nat
          /\ bounds[k - 1] \in Nat /\ bounds[l] \in Nat
      BY <1>3, <3>2
    <3>4. Item(q) <= bounds[k] /\ Item(q) \in Nat
      BY <3>1, <3>3
    <3>5. bounds[l - 1] < Item(r) /\ Item(r) \in Nat
      BY <3>1, <3>3
    <3> QED
      BY <3>3, <3>4, <3>5
  <2>4. CASE q[1] = r[1] /\ q[2] < r[2]
    <3>1. Reads(contents[q[1]], Repeated(q[1]), bounds[q[1] - 1], bounds[q[1]])
      BY <1>4, <2>1
    <3> DEFINE s == contents[q[1]]
               n == Repeated(q[1])
    <3>2. q[2] \in n + 1..Len(s) /\ r[2] \in n + 1..Len(s) /\ s[q[2]] # 0 /\ s[r[2]] # 0
      BY <2>1, <2>2, <2>4
    <3>3. \A i, j \in n + 1..Len(s) : i < j /\ s[i] # 0 /\ s[j] # 0 => s[i] < s[j]
      BY <3>1 DEF Reads
    <3> HIDE DEF s, n
    <3>4. s[q[2]] < s[r[2]]
      BY <2>4, <3>2, <3>3
    <3> QED
      BY <2>4, <3>4 DEF s
  <2> QED
    BY <1>8, <2>3, <2>4
<1>9. ASSUME NEW k \in DOMAIN contents
      PROVE  /\ Repeated(k) <= Len(contents[k])
             /\ \A i \in 1..Repeated(k) :
                  contents[k][i] = contents[k - 1][Len(contents[k - 1]) - Repeated(k) + i]
             /\ \/ Len(contents[k]) <= MaxChars + OverlapChars + 2
                \/ \E p \in DOMAIN text : \E w \in DOMAIN text[p] :
                     Len(contents[k]) <= WordLength(text[p][w]) + OverlapChars + 2
  <2>1. k \in 1..N
    BY <1>2
  <2>2. contents[k] \in Seq(Nat) /\ Len(contents[k]) \in Nat
    BY <1>2, <2>1, ElementOfSeq, LenProperties
  <2>3. Repeated(k) \in 0..Len(contents[k])
    BY <1>4, <2>1 DEF Reads
  <2>4. ASSUME NEW i \in 1..Repeated(k)
        PROVE  contents[k][i] = contents[k - 1][Len(contents[k - 1]) - Repeated(k) + i]
    <3>1. k # 1
      BY <2>4 DEF Repeated
    <3>2. Overlaps(contents[k - 1], contents[k], Repeated(k))
      BY <1>4, <2>1, <3>1
    <3> QED
      BY <3>2 DEF Overlaps
  <2>5. PICK m \in Sizes(text) : Len(contents[k]) <= m + (OverlapChars + 2)
    BY <1>4, <2>1 DEF Fits
  <2>6. m \in Nat /\ OverlapChars \in Nat /\ MaxChars \in Nat
    BY SizesAre, ChunkingAssumption
  <2>7. Len(contents[k]) <= m + OverlapChars + 2
    BY <2>2, <2>5, <2>6
  <2>8. CASE m = MaxChars
    BY <2>2, <2>3, <2>4, <2>7, <2>8
  <2>9. CASE m # MaxChars
    <3>1. PICK p \in DOMAIN text : m \in {WordLength(text[p][w]) : w \in DOMAIN text[p]}
      BY <2>9 DEF Sizes
    <3>2. PICK w \in DOMAIN text[p] : m = WordLength(text[p][w])
      BY <3>1
    <3>3. Len(contents[k]) <= WordLength(text[p][w]) + OverlapChars + 2
      BY <2>7, <3>2
    <3>4. Repeated(k) <= Len(contents[k])
      BY <2>2, <2>3
    <3> QED
      BY <2>4, <3>3, <3>4
  <2> QED
    BY <2>8, <2>9
<1>10. {Item(q) : q \in FreshPlaces} = 1..Characters
  <2> HIDE DEF Item
  <2> QED
    BY <1>6, <1>7
<1>11. \A q, r \in FreshPlaces : Before(q, r) => Item(q) < Item(r)
  <2> HIDE DEF Item, Before
  <2> QED
    BY <1>8
<1> QED
  BY <1>9, <1>10, <1>11 DEF ChunksCoverTheText

\* A text stays, and its chunks are what chunk_text makes of it.
ChunkIInv ==
  /\ text \in Texts
  /\ contents # <<>> => text # <<>> /\ contents = ChunkText(text)

\* Splitting loses and repeats nothing, for every document, budget and overlap (chunk_text).
THEOREM ChunksHold == ChunkSpec => []ChunksCoverTheText
<1>1. ChunkInit => ChunkIInv
  BY DEF ChunkInit, ChunkIInv
<1>2. ChunkIInv /\ [Splits]_chunkVars => ChunkIInv'
  BY DEF ChunkIInv, Splits, chunkVars
<1>3. ChunkIInv => ChunksCoverTheText
  <2> SUFFICES ASSUME ChunkIInv PROVE ChunksCoverTheText
    OBVIOUS
  <2>1. CASE contents = <<>>
    BY <2>1 DEF ChunksCoverTheText
  <2>2. CASE contents # <<>>
    <3>1. NumberedInOrder(text) /\ text # <<>> /\ contents = ChunkText(text)
      BY <2>2, ChunkingAssumption DEF ChunkIInv
    <3>2. Len(text) # 0
      BY <3>1, EmptySeq DEF NumberedInOrder
    <3>3. Ends(text, Len(text)) = Characters
      BY <3>2 DEF Ends, Characters
    <3>4. Chain(contents, OverlapChars, 0, Characters, Sizes(text), OverlapChars + 2)
      BY <3>1, <3>3, ChunksRead
    <3> QED
      BY <3>1, <3>4, ChainCovers
  <2> QED
    BY <2>1, <2>2
<1> QED
  BY <1>1, <1>2, <1>3, PTL DEF ChunkSpec

-----------------------------------------------------------------------------
(* Uploads *)

\* What an upload has found or waits to file: its bytes are there; the rows it found are the
\* owner's, of that content; and while writes exclude each other, one upload has looked, and what
\* it did not find nobody files.
UploadOK(u) ==
  /\ upload[u].stage # "idle" =>
       /\ blob[upload[u].content] # "none"
       /\ upload[u].route = "image" => upload[u].content \in Pictures
  /\ upload[u].stage = "looked" =>
       /\ \A i \in upload[u].found : i <= filed
       /\ \A x \in files : x.id \in upload[u].found => x.owner = u /\ x.content = upload[u].content
       /\ OneWriter /\ upload[u].found = {} => Earlier(u, upload[u].content) = {}
  /\ \A i \in attached[u] : i <= filed

\* Only a content whose first write failed is cut short.
CutShort == \A c \in Contents : blob[c] = "cut" => c \in failed

UpIInv ==
  /\ UploadsInv
  /\ CutShort
  /\ \A u \in Uploaders : UploadOK(u)
  /\ OneWriter => \A u, v \in Uploaders : upload[u].stage = "looked" /\ upload[v].stage = "looked" => u = v

Requests == [stage : {"stored", "looked"}, content : Contents, route : {"document", "image"},
             found : SUBSET (1..MaxFiles)]

\* An upload under way has its fields.
LEMMA UploadFields ==
  ASSUME UploadsTypeOK, NEW u \in Uploaders, upload[u].stage # "idle"
  PROVE  upload[u] \in Requests
BY DEF UploadsTypeOK, Upload, Requests

\* An idle upload is one record.
LEMMA UploadTypes ==
  /\ [stage |-> "idle"] \in Upload
  /\ Requests \subseteq Upload
  /\ \A u \in Requests : u.stage \in {"stored", "looked"} /\ u.content \in Contents
       /\ u.route \in {"document", "image"} /\ u.found \subseteq 1..MaxFiles
BY DEF Upload, Requests

\* Of some rows one is the latest (by_hash).
LEMMA LatestIs ==
  ASSUME UploadsTypeOK, NEW rows \in SUBSET files
  PROVE  /\ Latest(rows) \subseteq {x.id : x \in rows}
         /\ Latest(rows) = {} => rows = {}
<1> USE UploadsAssumption
<1>1. Latest(rows) \subseteq {x.id : x \in rows}
  BY DEF Latest
<1>2. ASSUME rows # {} PROVE Latest(rows) # {}
  <2> DEFINE gaps == {filed - x.id : x \in rows}
  <2>1. filed \in Nat /\ \A x \in rows : x.id \in Nat /\ filed - x.id \in Nat
    BY DEF UploadsTypeOK, File
  <2>2. PICK g \in gaps : \A h \in gaps : g <= h
    <3>1. gaps \in SUBSET Nat /\ gaps # {}
      BY <1>2, <2>1
    <3> QED
      BY <3>1, LeastOf
  <2>3. PICK x \in rows : g = filed - x.id
    BY <2>2
  <2>4. \A z \in rows : z.id <= x.id
    <3> TAKE z \in rows
    <3>1. filed - x.id <= filed - z.id
      BY <2>2, <2>3
    <3> QED
      BY <2>1, <3>1
  <2> QED
    BY <2>3, <2>4 DEF Latest
<1> QED
  BY <1>1, <1>2

\* What holds of an owner's upload goes on to hold while its request, its attachments and the
\* rows stay and no bytes go.
LEMMA UploadStays ==
  ASSUME NEW u \in Uploaders, UploadOK(u), upload'[u] = upload[u], attached'[u] = attached[u],
         UploadsTypeOK, files' \subseteq files, filed' = filed,
         \A c \in Contents : blob[c] # "none" => blob'[c] = blob[c]
  PROVE  UploadOK(u)'
<1>1. upload[u].stage # "idle" => upload[u].content \in Contents
  BY UploadFields, UploadTypes
<1> QED
  BY <1>1 DEF UploadOK, Earlier

\* And so it does when a row with a new id is filed, unless this upload has looked for it.
LEMMA UploadStaysBeside ==
  ASSUME NEW u \in Uploaders, UploadOK(u), upload'[u] = upload[u], attached'[u] = attached[u],
         UploadsTypeOK, NEW x, files' = files \cup {x}, x.id = filed + 1, filed' = filed + 1,
         OneWriter /\ upload[u].stage = "looked" => x.owner # u,
         \A c \in Contents : blob[c] # "none" => blob'[c] = blob[c]
  PROVE  UploadOK(u)'
<1> USE UploadsAssumption
<1>1. upload[u].stage # "idle" => upload[u].content \in Contents /\ upload[u].found \subseteq 1..MaxFiles
  BY UploadFields, UploadTypes
<1>2. filed \in Nat /\ \A i \in attached[u] : i \in Nat
  BY DEF UploadsTypeOK
<1>3. upload[u].stage = "looked" => x.id \notin upload[u].found
  BY <1>1, <1>2 DEF UploadOK
<1> QED
  BY <1>1, <1>2, <1>3 DEF UploadOK, Earlier

\* The bytes of rows, and of those a turn has found, stay while nothing is taken from the disk, and
\* a row that is filed says how whole they are.
LEMMA BytesStay ==
  ASSUME UploadsTypeOK, RowsHaveTheirBytes, failed \subseteq failed', UNCHANGED <<turn, missed>>,
         \A c \in Contents : blob[c] # "none" => blob'[c] = blob[c],
         \A x \in files' \ files :
           /\ blob'[x.content] = "whole" \/ (blob'[x.content] = "cut" /\ ~x.whole)
           /\ x.whole \/ x.content \in failed'
  PROVE  RowsHaveTheirBytes'
<1>1. \A x \in files : x.content \in Contents
  BY DEF UploadsTypeOK, File
<1>2. \A u \in Uploaders : \A f \in turn[u] : f.content \in Contents
  BY DEF UploadsTypeOK
<1>3. \A x \in files' : HasItsBytes(x)' /\ (x.whole \/ x.content \in failed')
  <2> TAKE x \in files'
  <2>1. CASE x \in files
    BY <1>1, <2>1 DEF RowsHaveTheirBytes, HasItsBytes
  <2>2. CASE x \notin files
    BY <2>2 DEF HasItsBytes
  <2> QED
    BY <2>1, <2>2
<1>4. \A u \in Uploaders : \A f \in turn'[u] : HasItsBytes(f)' /\ (f.whole \/ f.content \in failed')
  <2> TAKE u \in Uploaders
  <2> TAKE f \in turn'[u]
  <2>1. f \in turn[u] /\ f.content \in Contents
    BY <1>2
  <2> QED
    BY <2>1 DEF RowsHaveTheirBytes, HasItsBytes
<1> QED
  BY <1>3, <1>4 DEF RowsHaveTheirBytes

\* A step that leaves bytes, rows and turns alone.
LEMMA BytesAside ==
  ASSUME UpIInv, UNCHANGED <<blob, failed, files, turn, missed>>
  PROVE  RowsHaveTheirBytes' /\ CutShort'
BY DEF UpIInv, UploadsInv, RowsHaveTheirBytes, HasItsBytes, CutShort

LEMMA UpBeginsKeeps ==
  ASSUME UpIInv, NEW u \in Uploaders, NEW c \in Contents, NEW route \in {"document", "image"},
         UploadBegins(u, c, route)
  PROVE  UpIInv'
<1> USE UploadsAssumption DEF UpIInv, UploadsInv
<1> DEFINE request == [stage |-> "stored", content |-> c, route |-> route, found |-> {}]
<1>1. /\ upload' = [upload EXCEPT ![u] = request]
      /\ blob' = [blob EXCEPT ![c] = IF @ = "none" THEN "whole" ELSE @]
      /\ route = "image" => c \in Pictures
      /\ UNCHANGED <<failed, files, filed, attached, turn, missed>>
  BY DEF UploadBegins, Stores, Unwritten
<1>2. /\ blob' \in [Contents -> {"none", "cut", "whole"}]
      /\ blob'[c] # "none"
      /\ \A d \in Contents : blob[d] # "none" => blob'[d] = blob[d]
  BY <1>1 DEF UploadsTypeOK
<1>3. /\ request \in Requests /\ upload' \in [Uploaders -> Upload]
      /\ upload'[u] = request /\ \A v \in Uploaders \ {u} : upload'[v] = upload[v]
  <2>1. request \in Requests
    BY DEF Requests
  <2> QED
    BY <1>1, <2>1, UploadTypes DEF UploadsTypeOK
<1>4. UploadsTypeOK'
  BY <1>1, <1>2, <1>3 DEF UploadsTypeOK
<1>5. RowsHaveTheirBytes'
  BY <1>1, <1>2, BytesStay
<1>5a. CutShort'
  BY <1>1 DEF CutShort, UploadsTypeOK
<1>6. ContentsAreFiledOnce' /\ AttachmentsAreTheirs'
  BY <1>1 DEF ContentsAreFiledOnce, AttachmentsAreTheirs
<1>7. ASSUME NEW v \in Uploaders PROVE UploadOK(v)'
  <2>1. CASE v = u
    BY <1>1, <1>2, <1>3, <2>1 DEF UploadOK
  <2>2. CASE v # u
    <3>1. upload'[v] = upload[v] /\ attached'[v] = attached[v] /\ files' \subseteq files
      BY <1>1, <1>3, <2>2
    <3> QED
      BY <1>1, <1>2, <3>1, UploadStays
  <2> QED
    BY <2>1, <2>2
<1>8. OneWriter => \A v, w \in Uploaders :
        upload'[v].stage = "looked" /\ upload'[w].stage = "looked" => v = w
  BY <1>3
<1> QED
  BY <1>4, <1>5, <1>5a, <1>6, <1>7, <1>8

LEMMA UpLooksKeeps == ASSUME UpIInv, NEW u \in Uploaders, UploadLooks(u) PROVE UpIInv'
<1> USE UploadsAssumption DEF UpIInv, UploadsInv
<1> DEFINE rows == Earlier(u, upload[u].content)
           request == [upload[u] EXCEPT !.stage = "looked", !.found = Latest(rows)]
<1>1. /\ upload' = [upload EXCEPT ![u] = request]
      /\ upload[u].stage = "stored" /\ MayFile
      /\ UNCHANGED <<blob, failed, files, filed, attached, turn, missed>>
  BY DEF UploadLooks
<1>2. rows \subseteq files /\ \A x \in rows : x.owner = u /\ x.content = upload[u].content
  BY DEF Earlier
<1>3. /\ Latest(rows) \subseteq {x.id : x \in rows}
      /\ Latest(rows) = {} => rows = {}
  BY <1>2, LatestIs
<1>4. Latest(rows) \subseteq 1..MaxFiles /\ \A i \in Latest(rows) : i <= filed
  BY <1>2, <1>3 DEF UploadsTypeOK, File
<1>5. upload[u] \in Requests
  BY <1>1, UploadFields
<1>6. /\ request \in Requests
      /\ request.stage = "looked" /\ request.content = upload[u].content
      /\ request.route = upload[u].route /\ request.found = Latest(rows)
  BY <1>4, <1>5 DEF Requests
<1>7. /\ upload' \in [Uploaders -> Upload]
      /\ upload'[u] = request /\ \A v \in Uploaders \ {u} : upload'[v] = upload[v]
  BY <1>1, <1>6, UploadTypes DEF UploadsTypeOK
<1> HIDE DEF request, rows
<1>8. UploadsTypeOK'
  BY <1>1, <1>7 DEF UploadsTypeOK
<1>9. RowsHaveTheirBytes' /\ CutShort'
  BY <1>1, BytesAside
<1>9a. ContentsAreFiledOnce' /\ AttachmentsAreTheirs'
  BY <1>1 DEF ContentsAreFiledOnce, AttachmentsAreTheirs
<1>10. ASSUME NEW v \in Uploaders PROVE UploadOK(v)'
  <2>1. CASE v = u
    <3>1. \A x \in files : x.id \in Latest(rows) => x.owner = u /\ x.content = upload[u].content
      BY <1>2, <1>3 DEF UploadsTypeOK
    <3>2. Latest(rows) = {} => Earlier(u, upload[u].content) = {}
      BY <1>3 DEF rows
    <3> QED
      BY <1>1, <1>4, <1>6, <1>7, <2>1, <3>1, <3>2 DEF UploadOK, Earlier
  <2>2. CASE v # u
    <3>1. upload'[v] = upload[v] /\ attached'[v] = attached[v] /\ files' \subseteq files
      BY <1>1, <1>7, <2>2
    <3> QED
      BY <1>1, <3>1, UploadStays
  <2> QED
    BY <2>1, <2>2
<1>11. OneWriter => \A v, w \in Uploaders :
        upload'[v].stage = "looked" /\ upload'[w].stage = "looked" => v = w
  BY <1>1, <1>7 DEF MayFile
<1> QED
  BY <1>8, <1>9, <1>9a, <1>10, <1>11

\* An upload ends: with what its client is answered with, or without.
LEMMA UploadEnds ==
  ASSUME UpIInv, NEW u \in Uploaders, upload' = [upload EXCEPT ![u] = [stage |-> "idle"]]
  PROVE  /\ upload' \in [Uploaders -> Upload]
         /\ upload'[u].stage = "idle" /\ \A v \in Uploaders \ {u} : upload'[v] = upload[v]
         /\ OneWriter => \A v, w \in Uploaders :
              upload'[v].stage = "looked" /\ upload'[w].stage = "looked" => v = w
<1>1. upload \in [Uploaders -> Upload]
  BY DEF UpIInv, UploadsInv, UploadsTypeOK
<1>2. upload' \in [Uploaders -> Upload]
  BY <1>1, UploadTypes
<1>3. upload'[u].stage = "idle" /\ \A v \in Uploaders \ {u} : upload'[v] = upload[v]
  BY <1>1
<1> QED
  BY <1>2, <1>3 DEF UpIInv

LEMMA UpReusesKeeps == ASSUME UpIInv, NEW u \in Uploaders, UploadReuses(u) PROVE UpIInv'
<1> USE UploadsAssumption DEF UpIInv, UploadsInv
<1> DEFINE ids == upload[u].found
<1>1. /\ upload[u].stage = "looked" /\ Answered(u, ids)
      /\ upload' = [upload EXCEPT ![u] = [stage |-> "idle"]]
      /\ UNCHANGED <<blob, failed, files, filed, turn, missed>>
  BY DEF UploadReuses
<1>2. ids \subseteq 1..MaxFiles /\ upload[u].content \in Contents
  BY <1>1, UploadFields, UploadTypes
<1>3. /\ upload' \in [Uploaders -> Upload]
      /\ upload'[u].stage = "idle" /\ \A v \in Uploaders \ {u} : upload'[v] = upload[v]
      /\ OneWriter => \A v, w \in Uploaders :
           upload'[v].stage = "looked" /\ upload'[w].stage = "looked" => v = w
  BY <1>1, UploadEnds
<1>4. /\ attached' \in [Uploaders -> SUBSET (1..MaxFiles)]
      /\ attached'[u] = IF upload[u].route = "image" THEN attached[u] \cup ids ELSE attached[u]
      /\ \A v \in Uploaders \ {u} : attached'[v] = attached[v]
  BY <1>1, <1>2 DEF Answered, UploadsTypeOK
<1>5. UploadsTypeOK'
  BY <1>1, <1>3, <1>4 DEF UploadsTypeOK
<1>6. RowsHaveTheirBytes' /\ CutShort' /\ ContentsAreFiledOnce'
  BY <1>1, BytesAside DEF ContentsAreFiledOnce
<1>7. AttachmentsAreTheirs'
  BY <1>1, <1>4 DEF AttachmentsAreTheirs, UploadOK
<1>8. ASSUME NEW v \in Uploaders PROVE UploadOK(v)'
  <2>1. CASE v = u
    BY <1>1, <1>3, <1>4, <2>1 DEF UploadOK
  <2>2. CASE v # u
    <3>1. upload'[v] = upload[v] /\ attached'[v] = attached[v] /\ files' \subseteq files
      BY <1>1, <1>3, <1>4, <2>2
    <3> QED
      BY <1>1, <3>1, UploadStays
  <2> QED
    BY <2>1, <2>2
<1> QED
  BY <1>3, <1>5, <1>6, <1>7, <1>8

\* A new row has an id of its own.
LEMMA Filing ==
  ASSUME UpIInv, filed < MaxFiles, NEW u \in Uploaders, NEW c \in Contents,
         NEW kind \in {"document", "image"}, NEW route \in Routes,
         files' = files \cup {NewFile(u, c, kind, route)}, filed' = filed + 1
  PROVE  /\ NewFile(u, c, kind, route) \in File
         /\ files' \subseteq File /\ \A x, y \in files' : x.id = y.id => x = y
         /\ filed' \in 0..MaxFiles /\ \A x \in files' : x.id <= filed'
         /\ filed + 1 \in 1..MaxFiles
<1> USE UploadsAssumption DEF UpIInv, UploadsInv
<1> DEFINE new == NewFile(u, c, kind, route)
<1>1. filed \in Nat /\ filed + 1 \in 1..MaxFiles /\ filed + 1 \in 0..MaxFiles
  BY DEF UploadsTypeOK
<1>2. new \in File /\ new.id = filed + 1
  BY <1>1 DEF NewFile, File
<1>3. \A x \in files : x.id \in Nat /\ x.id <= filed
  BY DEF UploadsTypeOK, File
<1> HIDE DEF new
<1>4. \A x, y \in files \cup {new} : x.id = y.id => x = y
  BY <1>1, <1>2, <1>3 DEF UploadsTypeOK
<1> QED
  BY <1>1, <1>2, <1>3, <1>4 DEF UploadsTypeOK, new

LEMMA UpCreatesKeeps == ASSUME UpIInv, NEW u \in Uploaders, UploadCreates(u) PROVE UpIInv'
<1> USE UploadsAssumption DEF UpIInv, UploadsInv
<1> DEFINE c == upload[u].content
           route == upload[u].route
           new == NewFile(u, c, route, route)
<1>1. /\ upload[u].stage = "looked" /\ upload[u].found = {} /\ filed < MaxFiles
      /\ files' = files \cup {new} /\ filed' = filed + 1 /\ Answered(u, {filed + 1})
      /\ upload' = [upload EXCEPT ![u] = [stage |-> "idle"]]
      /\ UNCHANGED <<blob, failed, turn, missed>>
  BY DEF UploadCreates
<1>2. c \in Contents /\ route \in {"document", "image"} /\ route \in Routes
  BY <1>1, UploadFields, UploadTypes DEF Routes
<1>3. /\ new \in File
      /\ files' \subseteq File /\ \A x, y \in files' : x.id = y.id => x = y
      /\ filed' \in 0..MaxFiles /\ \A x \in files' : x.id <= filed'
      /\ filed + 1 \in 1..MaxFiles
  BY <1>1, <1>2, Filing
<1>4. /\ new.id = filed + 1 /\ new.owner = u /\ new.content = c /\ new.route = route
      /\ new.whole = (blob'[c] = "whole")
  BY DEF NewFile
<1>5. /\ upload' \in [Uploaders -> Upload]
      /\ upload'[u].stage = "idle" /\ \A v \in Uploaders \ {u} : upload'[v] = upload[v]
      /\ OneWriter => \A v, w \in Uploaders :
           upload'[v].stage = "looked" /\ upload'[w].stage = "looked" => v = w
  BY <1>1, UploadEnds
<1>6. /\ attached' \in [Uploaders -> SUBSET (1..MaxFiles)]
      /\ attached'[u] = IF route = "image" THEN attached[u] \cup {filed + 1} ELSE attached[u]
      /\ \A v \in Uploaders \ {u} : attached'[v] = attached[v]
  BY <1>1, <1>3 DEF Answered, UploadsTypeOK
<1>7. blob[c] # "none" /\ (route = "image" => c \in Pictures)
      /\ (OneWriter => Earlier(u, c) = {})
  BY <1>1 DEF UploadOK
<1>8. filed \in Nat /\ \A v \in Uploaders, i \in 1..MaxFiles : i \in attached[v] => i <= filed
  BY DEF UploadsTypeOK, UploadOK
<1> HIDE DEF new, c, route
<1>9. UploadsTypeOK'
  BY <1>1, <1>3, <1>5, <1>6 DEF UploadsTypeOK
<1>10. RowsHaveTheirBytes' /\ CutShort'
  <2>1. blob'[c] \in {"cut", "whole"} /\ (blob'[c] = "cut" => c \in failed')
    BY <1>1, <1>2, <1>7 DEF CutShort, UploadsTypeOK
  <2>2. \A y \in files' \ files : y = new
    BY <1>1
  <2>3. RowsHaveTheirBytes'
    BY <1>1, <1>4, <2>1, <2>2, BytesStay
  <2> QED
    BY <1>1, <2>3 DEF CutShort
<1>11. ContentsAreFiledOnce'
  BY <1>1, <1>4, <1>7 DEF ContentsAreFiledOnce, Earlier
<1>12. AttachmentsAreTheirs'
  <2> SUFFICES ASSUME NEW v \in Uploaders, NEW x \in files', x.id \in attached'[v]
               PROVE  x.owner = v /\ x.content \in Pictures
    BY DEF AttachmentsAreTheirs
  <2>1. CASE x = new
    <3>1. filed + 1 \notin attached[v]
      BY <1>3, <1>8
    <3> QED
      BY <1>4, <1>6, <1>7, <2>1, <3>1
  <2>2. CASE x \in files
    <3>1. x.id # filed + 1
      BY <1>8, <2>2 DEF UploadsTypeOK, File
    <3> QED
      BY <1>6, <2>2, <3>1 DEF AttachmentsAreTheirs
  <2> QED
    BY <1>1, <2>1, <2>2
<1>13. ASSUME NEW v \in Uploaders PROVE UploadOK(v)'
  <2>1. CASE v = u
    <3>1. \A i \in attached'[u] : i <= filed'
      BY <1>1, <1>3, <1>6, <1>8 DEF UploadsTypeOK
    <3> QED
      BY <1>5, <2>1, <3>1 DEF UploadOK
  <2>2. CASE v # u
    <3>1. upload'[v] = upload[v] /\ attached'[v] = attached[v] /\ new.owner # v
      BY <1>4, <1>5, <1>6, <2>2
    <3> QED
      BY <1>1, <1>4, <3>1, UploadStaysBeside
  <2> QED
    BY <2>1, <2>2
<1> QED
  BY <1>5, <1>9, <1>10, <1>11, <1>12, <1>13

LEMMA UpFailsKeeps == ASSUME UpIInv, NEW u \in Uploaders, UploadFails(u) PROVE UpIInv'
<1> USE DEF UpIInv, UploadsInv
<1>1. /\ upload' = [upload EXCEPT ![u] = [stage |-> "idle"]]
      /\ UNCHANGED <<blob, failed, files, filed, attached, turn, missed>>
  BY DEF UploadFails
<1>2. /\ upload' \in [Uploaders -> Upload]
      /\ upload'[u].stage = "idle" /\ \A v \in Uploaders \ {u} : upload'[v] = upload[v]
      /\ OneWriter => \A v, w \in Uploaders :
           upload'[v].stage = "looked" /\ upload'[w].stage = "looked" => v = w
  BY <1>1, UploadEnds
<1>3. UploadsTypeOK'
  BY <1>1, <1>2 DEF UploadsTypeOK
<1>4. RowsHaveTheirBytes' /\ CutShort' /\ ContentsAreFiledOnce' /\ AttachmentsAreTheirs'
  BY <1>1, BytesAside DEF ContentsAreFiledOnce, AttachmentsAreTheirs
<1>5. ASSUME NEW v \in Uploaders PROVE UploadOK(v)'
  <2>1. CASE v = u
    BY <1>1, <1>2, <2>1 DEF UploadOK
  <2>2. CASE v # u
    <3>1. upload'[v] = upload[v] /\ attached'[v] = attached[v] /\ files' \subseteq files
      BY <1>1, <1>2, <2>2
    <3> QED
      BY <1>1, <3>1, UploadStays
  <2> QED
    BY <2>1, <2>2
<1> QED
  BY <1>2, <1>3, <1>4, <1>5

LEMMA UpGeneratesKeeps ==
  ASSUME UpIInv, NEW u \in Uploaders, NEW c \in Contents, Generates(u, c)
  PROVE  UpIInv'
<1> USE UploadsAssumption DEF UpIInv, UploadsInv
<1> DEFINE new == NewFile(u, c, "image", "generated")
<1>1. /\ MayFile /\ filed < MaxFiles
      /\ blob' = [blob EXCEPT ![c] = IF @ = "none" THEN "whole" ELSE @]
      /\ files' = files \cup {new} /\ filed' = filed + 1
      /\ UNCHANGED <<failed, upload, attached, turn, missed>>
  BY DEF Generates, Stores, Unwritten
<1>2. /\ new \in File
      /\ files' \subseteq File /\ \A x, y \in files' : x.id = y.id => x = y
      /\ filed' \in 0..MaxFiles /\ \A x \in files' : x.id <= filed'
      /\ filed + 1 \in 1..MaxFiles
  BY <1>1, Filing DEF Routes
<1>3. new.id = filed + 1 /\ new.owner = u /\ new.content = c /\ new.route = "generated"
      /\ new.whole = (blob'[c] = "whole")
  BY DEF NewFile
<1>4. /\ blob' \in [Contents -> {"none", "cut", "whole"}]
      /\ blob'[c] # "none"
      /\ \A d \in Contents : blob[d] # "none" => blob'[d] = blob[d]
  BY <1>1 DEF UploadsTypeOK
<1>5. filed \in Nat /\ \A v \in Uploaders, i \in 1..MaxFiles : i \in attached[v] => i <= filed
  BY DEF UploadsTypeOK, UploadOK
<1> HIDE DEF new
<1>6. UploadsTypeOK'
  BY <1>1, <1>2, <1>4 DEF UploadsTypeOK
<1>7. RowsHaveTheirBytes' /\ CutShort'
  <2>1. CutShort'
    BY <1>1 DEF CutShort, UploadsTypeOK
  <2>2. blob'[c] \in {"cut", "whole"} /\ (blob'[c] = "cut" => c \in failed')
    BY <1>4, <2>1 DEF CutShort
  <2>3. \A y \in files' \ files : y = new
    BY <1>1
  <2> QED
    BY <1>1, <1>3, <1>4, <2>1, <2>2, <2>3, BytesStay
<1>8. ContentsAreFiledOnce'
  BY <1>1, <1>3 DEF ContentsAreFiledOnce
<1>9. AttachmentsAreTheirs'
  <2>1. \A v \in Uploaders : new.id \notin attached[v]
    BY <1>2, <1>3, <1>5
  <2> QED
    BY <1>1, <2>1 DEF AttachmentsAreTheirs
<1>10. ASSUME NEW v \in Uploaders PROVE UploadOK(v)'
  <2>1. OneWriter => upload[v].stage # "looked"
    BY <1>1 DEF MayFile
  <2> QED
    BY <1>1, <1>3, <1>4, <2>1, UploadStaysBeside
<1> QED
  BY <1>1, <1>6, <1>7, <1>8, <1>9, <1>10

LEMMA UpDeletesKeeps ==
  ASSUME UpIInv, NEW u \in Uploaders, NEW x \in files, DeletesFile(u, x)
  PROVE  UpIInv'
<1> USE DEF UpIInv, UploadsInv
<1>1. /\ files' = files \ {x}
      /\ UNCHANGED <<blob, failed, filed, upload, attached, turn, missed>>
  BY DEF DeletesFile
<1>2. UploadsTypeOK'
  BY <1>1 DEF UploadsTypeOK
<1>3. RowsHaveTheirBytes' /\ CutShort' /\ ContentsAreFiledOnce' /\ AttachmentsAreTheirs'
  BY <1>1, BytesStay DEF ContentsAreFiledOnce, AttachmentsAreTheirs, CutShort
<1>4. ASSUME NEW v \in Uploaders PROVE UploadOK(v)'
  BY <1>1, UploadStays
<1> QED
  BY <1>1, <1>2, <1>3, <1>4

\* Writing less than all of a content leaves bytes too.
LEMMA UpStoringFailsKeeps == ASSUME UpIInv, NEW c \in Contents, StoringFails(c) PROVE UpIInv'
<1> USE DEF UpIInv, UploadsInv
<1>1. /\ blob[c] = "none" /\ blob' = [blob EXCEPT ![c] = "cut"]
      /\ failed' = failed \cup {c}
      /\ UNCHANGED <<files, filed, upload, attached, turn, missed>>
  BY DEF StoringFails, Unwritten
<1>2. /\ blob' \in [Contents -> {"none", "cut", "whole"}]
      /\ \A d \in Contents : blob[d] # "none" => blob'[d] = blob[d]
  BY <1>1 DEF UploadsTypeOK
<1>3. UploadsTypeOK'
  BY <1>1, <1>2 DEF UploadsTypeOK
<1>4. RowsHaveTheirBytes'
  BY <1>1, <1>2, BytesStay
<1>5. CutShort' /\ ContentsAreFiledOnce' /\ AttachmentsAreTheirs'
  BY <1>1 DEF CutShort, ContentsAreFiledOnce, AttachmentsAreTheirs, UploadsTypeOK
<1>6. ASSUME NEW v \in Uploaders PROVE UploadOK(v)'
  BY <1>1, <1>2, UploadStays
<1> QED
  BY <1>1, <1>3, <1>4, <1>5, <1>6

\* A turn reads what it found: bytes of rows, which are never taken away.
LEMMA UpTurnsKeep ==
  ASSUME UpIInv, NEW u \in Uploaders, TurnReads(u) \/ \E ids \in SUBSET attached[u] : TurnFinds(u, ids)
  PROVE  UpIInv'
<1> USE DEF UpIInv, UploadsInv
<1> DEFINE Found(f) == HasItsBytes(f) /\ (f.whole \/ f.content \in failed)
<1>1. /\ UNCHANGED <<blob, failed, files, filed, upload, attached>>
      /\ turn' \in [Uploaders -> SUBSET [content : Contents, whole : BOOLEAN]]
      /\ missed' = {}
      /\ \A v \in Uploaders : \A f \in turn'[v] : Found(f)
  <2>1. CASE TurnReads(u)
    BY <2>1 DEF TurnReads, UploadsTypeOK, RowsHaveTheirBytes
  <2>2. ASSUME NEW ids \in SUBSET attached[u], TurnFinds(u, ids)
        PROVE  /\ UNCHANGED <<blob, failed, files, filed, upload, attached>>
               /\ turn' \in [Uploaders -> SUBSET [content : Contents, whole : BOOLEAN]]
               /\ missed' = {}
               /\ \A v \in Uploaders : \A f \in turn'[v] : Found(f)
    <3> DEFINE rows == {y \in files : y.id \in ids /\ y.owner = u /\ y.kind = "image"}
               found == {[content |-> x.content, whole |-> x.whole] : x \in rows}
    <3>1. turn' = [turn EXCEPT ![u] = found]
          /\ UNCHANGED <<blob, failed, files, filed, upload, attached, missed>>
      BY <2>2 DEF TurnFinds
    <3>2. \A x \in rows : x.content \in Contents /\ x.whole \in BOOLEAN
                          /\ Found([content |-> x.content, whole |-> x.whole])
      BY DEF UploadsTypeOK, File, RowsHaveTheirBytes, HasItsBytes
    <3> HIDE DEF rows, Found
    <3>3. found \in SUBSET [content : Contents, whole : BOOLEAN] /\ \A f \in found : Found(f)
      BY <3>2
    <3>4. \A v \in Uploaders : \A f \in turn[v] : Found(f)
      BY DEF Found, RowsHaveTheirBytes
    <3> HIDE DEF found
    <3> QED
      BY <3>1, <3>3, <3>4 DEF UploadsTypeOK, RowsHaveTheirBytes
  <2> QED
    BY <2>1, <2>2
<1>2. UploadsTypeOK'
  BY <1>1 DEF UploadsTypeOK
<1>3. RowsHaveTheirBytes' /\ CutShort' /\ ContentsAreFiledOnce' /\ AttachmentsAreTheirs'
  BY <1>1 DEF RowsHaveTheirBytes, HasItsBytes, CutShort, ContentsAreFiledOnce, AttachmentsAreTheirs
<1>4. ASSUME NEW v \in Uploaders PROVE UploadOK(v)'
  BY <1>1, UploadStays
<1> QED
  BY <1>1, <1>2, <1>3, <1>4

LEMMA UploadStep == ASSUME UpIInv, [UploadsNext]_fileVars PROVE UpIInv'
<1>1. CASE UNCHANGED fileVars
  BY <1>1 DEF fileVars, UpIInv, UploadsInv, UploadsTypeOK, RowsHaveTheirBytes, HasItsBytes,
              CutShort, ContentsAreFiledOnce, AttachmentsAreTheirs, UploadOK, Earlier
<1>2. CASE UploadsNext
  BY <1>2, UpBeginsKeeps, UpLooksKeeps, UpReusesKeeps, UpCreatesKeeps, UpFailsKeeps,
     UpGeneratesKeeps, UpDeletesKeeps, UpStoringFailsKeeps, UpTurnsKeep DEF UploadsNext
<1> QED
  BY <1>1, <1>2

\* For any accounts, contents and routes: a row's bytes, and those a turn has found a row for, are
\* on disk and as whole as they were when the row was created, whatever is uploaded again, deleted
\* or fails in between, and a row over less than a content is over one whose first write failed;
\* where writes exclude each other a content is filed once per owner; and an attachment is its
\* owner's own row of a picture (uploads.py, files.py, chat.py: _load_images).
THEOREM UploadsHold == UploadsSpec => []UploadsInv
<1>1. UploadsInit => UpIInv
  <2> SUFFICES ASSUME UploadsInit PROVE UpIInv
    OBVIOUS
  <2>1. UploadsTypeOK
    BY UploadsAssumption, UploadTypes DEF UploadsInit, UploadsTypeOK
  <2> QED
    BY <2>1 DEF UploadsInit, UpIInv, UploadsInv, RowsHaveTheirBytes, CutShort, ContentsAreFiledOnce,
                AttachmentsAreTheirs, UploadOK
<1>2. UpIInv /\ [UploadsNext]_fileVars => UpIInv'
  BY UploadStep
<1>3. UpIInv => UploadsInv
  BY DEF UpIInv
<1> QED
  BY <1>1, <1>2, <1>3, PTL DEF UploadsSpec

-----------------------------------------------------------------------------
(* Custom models, the conversations started from them, and stars *)

\* Custom models get the ids in order.
RowsAreNumbered == \A i \in Ids : i > numbered => custom[i] = {}

\* Without a chat the screen shows the prompt of the pending preset; with one, the chat is there.
DraftOK ==
  IF draft.chat = 0 THEN draft.shows = draft.preset ELSE chats[draft.chat] # {}

\* A call of send() carries one preset from the draft it began with to the turn: the chat it waits
\* for has that preset's prompt, and what it shows is on the screen until the draft is left.
SendOK(s) ==
  /\ send[s].stage = "creating" => send[s].prompt = send[s].preset
  /\ send[s].stage \in {"created", "listing", "asked"} =>
       /\ send[s].chat # 0 /\ chats[send[s].chat] # {}
       /\ \A r \in chats[send[s].chat] : r.start = send[s].preset \/ r.disturbed
  /\ send[s].stage = "created" => \A r \in chats[send[s].chat] : r.prompt = send[s].prompt
  /\ send[s].ours /\ send[s].stage \in {"creating", "created"} => draft.shows = send[s].prompt

DraftIInv ==
  /\ RowsAreNumbered /\ SlugsNameOneModel /\ ChatsKnowTheirModel
  /\ FirstTurnsCarryThePreset /\ ScreenShowsThePrompt
  /\ DraftOK /\ \A s \in Sends : SendOK(s)

\* Unless toggles overlapped, the one under way knows the stored stars: before the request they
\* are what the screen goes back to, after it what the answer brings.
StarsIInv ==
  ~overlapped =>
    /\ \A t, u \in Calling : t = u
    /\ \A t \in Toggles :
         /\ toggle[t].stage = "sent" => toggle[t].before = starred
         /\ toggle[t].stage = "set" => toggle[t].reply = starred
    /\ Calling = {} => stars = starred

\* The part of the types that the rows, the client's panel and its conversation have.
RowTypes ==
  /\ custom \in [Ids -> SUBSET CustomModel] /\ \A i \in Ids : \A m, n \in custom[i] : m = n
  /\ numbered \in 0..MaxModels
  /\ creating \in [Owners -> SUBSET Slugs]
  /\ panel \subseteq Listing
  /\ chats \in [1..MaxStarted -> SUBSET Chat] /\ \A c \in 1..MaxStarted : \A q, r \in chats[c] : q = r
DraftTypes == draft \in Draft /\ opening \subseteq 1..MaxStarted /\ send \in [Sends -> Send]
ModelIInv == RowTypes /\ DraftTypes /\ DraftIInv

StarTypes ==
  /\ starred \subseteq Refs /\ stars \subseteq Refs
  /\ toggle \in [Toggles -> Toggle]
  /\ overlapped \in BOOLEAN

\* Chats of a state are chats of the next, with the prompt and the preset they started with.
ChatsStay ==
  \A c \in 1..MaxStarted : chats[c] # {} =>
    /\ chats'[c] # {}
    /\ \A r \in chats'[c] : \E q \in chats[c] :
         r.prompt = q.prompt /\ r.start = q.start /\ (q.disturbed => r.disturbed)

LEMMA SendFields ==
  ASSUME DraftTypes, NEW s \in Sends
  PROVE  /\ send[s] \in Send /\ send[s].chat \in 0..MaxStarted /\ send[s].model \in 0..MaxModels
         /\ send[s].preset \in Chosen /\ send[s].prompt \in Chosen
         /\ draft.chat \in 0..MaxStarted /\ draft.pending \in 0..MaxModels
         /\ draft.preset \in Chosen /\ draft.shows \in Chosen
BY DEF DraftTypes, Send, Draft

\* What holds of a call of send() goes on to hold while it waits, and when it is detached.
LEMMA SendStays ==
  ASSUME DraftTypes, NEW s \in Sends, SendOK(s), ChatsStay,
         send'[s] = send[s] \/ send'[s] = [send[s] EXCEPT !.ours = FALSE],
         send'[s].ours => draft'.shows = draft.shows
  PROVE  SendOK(s)'
<1> USE SavedAssumption
<1>1. send[s] \in Send /\ send[s].chat \in 0..MaxStarted
  BY SendFields
<1>2. /\ send'[s].stage = send[s].stage /\ send'[s].preset = send[s].preset
      /\ send'[s].prompt = send[s].prompt /\ send'[s].chat = send[s].chat
      /\ send'[s].ours => send[s].ours
  BY <1>1 DEF Send
<1>3. send[s].stage \in {"created", "listing", "asked"} => send[s].chat \in 1..MaxStarted
  BY <1>1 DEF SendOK
<1>4. send'[s].stage \in {"created", "listing", "asked"} =>
        /\ send'[s].chat # 0 /\ chats'[send'[s].chat] # {}
        /\ \A r \in chats'[send'[s].chat] : r.start = send'[s].preset \/ r.disturbed
  BY <1>2, <1>3 DEF SendOK, ChatsStay
<1>5. send'[s].stage = "created" => \A r \in chats'[send'[s].chat] : r.prompt = send'[s].prompt
  BY <1>2, <1>3 DEF SendOK, ChatsStay
<1> QED
  BY <1>2, <1>4, <1>5 DEF SendOK

\* The screen keeps its conversation.
LEMMA ScreenStays ==
  ASSUME DraftTypes, DraftOK, ScreenShowsThePrompt, ChatsStay,
         draft'.chat = draft.chat, draft'.shows = draft.shows,
         draft'.mixed = draft.mixed, draft'.preset = draft.preset
  PROVE  DraftOK' /\ ScreenShowsThePrompt'
<1>1. draft.chat \in 0..MaxStarted
  BY DEF DraftTypes, Draft
<1>2. draft.chat # 0 => draft.chat \in 1..MaxStarted
  BY <1>1, SavedAssumption
<1> QED
  BY <1>2 DEF DraftOK, ScreenShowsThePrompt, ChatsStay

LEMMA ChatsThere == ASSUME UNCHANGED chats PROVE ChatsStay
BY DEF ChatsStay

\* When only rows and the panel change, conversations are as they were.
LEMMA ConversationsStay ==
  ASSUME ModelIInv, UNCHANGED <<draft, opening, send>>, ChatsStay
  PROVE  /\ DraftTypes' /\ DraftOK' /\ ScreenShowsThePrompt'
         /\ \A s \in Sends : SendOK(s)'
<1>1. DraftTypes' /\ DraftOK' /\ ScreenShowsThePrompt'
  BY ScreenStays DEF ModelIInv, DraftIInv, DraftTypes
<1>2. ASSUME NEW s \in Sends PROVE SendOK(s)'
  BY SendStays DEF ModelIInv, DraftIInv
<1> QED
  BY <1>1, <1>2

-----------------------------------------------------------------------------
\* Looking a slug up, giving up, and loading the panel.
LEMMA SlugsKeep ==
  ASSUME ModelIInv, UNCHANGED <<custom, numbered, draft, opening, send, chats>>,
         creating' \in [Owners -> SUBSET Slugs], panel' \subseteq Listing
  PROVE  ModelIInv'
<1>1. /\ DraftTypes' /\ DraftOK' /\ ScreenShowsThePrompt'
      /\ \A s \in Sends : SendOK(s)'
  BY ConversationsStay, ChatsThere
<1>2. RowTypes'
  BY DEF ModelIInv, RowTypes
<1>3. RowsAreNumbered' /\ SlugsNameOneModel' /\ ChatsKnowTheirModel' /\ FirstTurnsCarryThePreset'
  BY DEF ModelIInv, DraftIInv, RowsAreNumbered, SlugsNameOneModel, ChatsKnowTheirModel,
         FirstTurnsCarryThePreset
<1> QED
  BY <1>1, <1>2, <1>3 DEF ModelIInv, DraftIInv

LEMMA InsertKeeps ==
  ASSUME ModelIInv, NEW u \in Owners, NEW v \in Visibilities, NEW p \in Presets,
         CreateInserts(u, v, p)
  PROVE  ModelIInv'
<1> USE SavedAssumption
<1>1. PICK slug \in creating[u] :
        /\ ~Named(slug)
        /\ custom' = [custom EXCEPT ![numbered + 1] =
             {[owner |-> u, slug |-> slug, visibility |-> v, preset |-> p]}]
  BY DEF CreateInserts
<1> DEFINE m == [owner |-> u, slug |-> slug, visibility |-> v, preset |-> p]
<1>2. /\ numbered < MaxModels /\ numbered' = numbered + 1
      /\ creating' = [creating EXCEPT ![u] = {}]
      /\ UNCHANGED <<panel, draft, opening, send, chats>>
  BY DEF CreateInserts
<1>3. numbered \in Nat /\ numbered + 1 \in Ids /\ numbered + 1 \in 0..MaxModels
  BY <1>2 DEF ModelIInv, RowTypes, Ids
<1>4. m \in CustomModel /\ m.slug = slug
  BY DEF CustomModel, ModelIInv, RowTypes
<1>5. /\ custom' \in [Ids -> SUBSET CustomModel]
      /\ custom'[numbered + 1] = {m}
      /\ \A i \in Ids \ {numbered + 1} : custom'[i] = custom[i]
  BY <1>1, <1>3, <1>4 DEF ModelIInv, RowTypes
<1> HIDE DEF m
<1>6. \A i \in Ids : \A n \in custom[i] : n.slug # slug
  BY <1>1 DEF Named
<1>7. RowTypes'
  BY <1>2, <1>3, <1>5 DEF ModelIInv, RowTypes
<1>8. SlugsNameOneModel'
  BY <1>4, <1>5, <1>6 DEF ModelIInv, DraftIInv, SlugsNameOneModel
<1>9. RowsAreNumbered'
  BY <1>2, <1>3, <1>5 DEF ModelIInv, DraftIInv, RowsAreNumbered, Ids
<1>10. ChatsKnowTheirModel'
  <2>1. \A i \in Ids : custom[i] # {} => custom'[i] # {}
    BY <1>5
  <2>2. \A c \in 1..MaxStarted : \A r \in chats[c] : r.model \in 0..MaxModels
    BY DEF ModelIInv, RowTypes, Chat
  <2> QED
    BY <1>2, <2>1, <2>2 DEF ModelIInv, DraftIInv, ChatsKnowTheirModel, Ids
<1>11. FirstTurnsCarryThePreset'
  BY <1>2 DEF ModelIInv, DraftIInv, FirstTurnsCarryThePreset
<1>12. /\ DraftTypes' /\ DraftOK' /\ ScreenShowsThePrompt'
       /\ \A s \in Sends : SendOK(s)'
  BY <1>2, ConversationsStay, ChatsThere
<1> QED
  BY <1>7, <1>8, <1>9, <1>10, <1>11, <1>12 DEF ModelIInv, DraftIInv

LEMMA UpdateKeeps ==
  ASSUME ModelIInv, NEW u \in Owners, NEW i \in Ids, NEW v \in Visibilities, NEW p \in Presets,
         Updates(u, i, v, p)
  PROVE  ModelIInv'
<1> USE SavedAssumption
<1>1. PICK m \in custom[i] :
        custom' = [custom EXCEPT ![i] = {[m EXCEPT !.visibility = v, !.preset = p]}]
  BY DEF Updates
<1> DEFINE n == [m EXCEPT !.visibility = v, !.preset = p]
<1>2. UNCHANGED <<numbered, creating, panel, draft, opening, send, chats>>
  BY DEF Updates
<1>3. n \in CustomModel /\ n.slug = m.slug
  <2>1. m \in CustomModel
    BY DEF ModelIInv, RowTypes
  <2> QED
    BY <2>1 DEF CustomModel
<1>4. /\ custom' \in [Ids -> SUBSET CustomModel]
      /\ custom'[i] = {n}
      /\ \A j \in Ids \ {i} : custom'[j] = custom[j]
  BY <1>1, <1>3 DEF ModelIInv, RowTypes
<1> HIDE DEF n
<1>5. RowTypes'
  BY <1>2, <1>4 DEF ModelIInv, RowTypes
<1>6. SlugsNameOneModel'
  BY <1>3, <1>4 DEF ModelIInv, DraftIInv, SlugsNameOneModel
<1>7. RowsAreNumbered'
  BY <1>2, <1>4 DEF ModelIInv, DraftIInv, RowsAreNumbered
<1>8. ChatsKnowTheirModel'
  <2>1. \A c \in 1..MaxStarted : \A r \in chats[c] : r.model \in 0..MaxModels
    BY DEF ModelIInv, RowTypes, Chat
  <2> QED
    BY <1>2, <1>4, <2>1 DEF ModelIInv, DraftIInv, ChatsKnowTheirModel, Ids
<1>9. FirstTurnsCarryThePreset'
  BY <1>2 DEF ModelIInv, DraftIInv, FirstTurnsCarryThePreset
<1>10. /\ DraftTypes' /\ DraftOK' /\ ScreenShowsThePrompt'
       /\ \A s \in Sends : SendOK(s)'
  BY <1>2, ConversationsStay, ChatsThere
<1> QED
  BY <1>5, <1>6, <1>7, <1>8, <1>9, <1>10 DEF ModelIInv, DraftIInv

\* Deleting a custom model leaves no chat that refers to it.
LEMMA DeleteModelKeeps ==
  ASSUME ModelIInv, NEW u \in Owners, NEW i \in Ids, DeletesModel(u, i)
  PROVE  ModelIInv'
<1> USE SavedAssumption
<1> DEFINE Left(r) == IF r.model = i THEN [r EXCEPT !.model = 0] ELSE r
<1>1. /\ custom' = [custom EXCEPT ![i] = {}]
      /\ chats' = [c \in 1..MaxStarted |-> {Left(r) : r \in chats[c]}]
      /\ UNCHANGED <<numbered, creating, panel, draft, opening, send>>
  BY DEF DeletesModel, Forgetting
<1>2. ASSUME NEW r \in Chat
      PROVE  /\ Left(r) \in Chat /\ Left(r).prompt = r.prompt /\ Left(r).start = r.start
             /\ Left(r).first = r.first /\ Left(r).disturbed = r.disturbed
             /\ Left(r).model # i \/ i = 0
             /\ Left(r).model \in {0, r.model}
  BY DEF Chat
<1>3. chats \in [1..MaxStarted -> SUBSET Chat] /\ \A c \in 1..MaxStarted : \A q, r \in chats[c] : q = r
  BY DEF ModelIInv, RowTypes
<1> HIDE DEF Left
<1>4. /\ chats' \in [1..MaxStarted -> SUBSET Chat]
      /\ \A c \in 1..MaxStarted : chats'[c] = {Left(r) : r \in chats[c]}
      /\ \A c \in 1..MaxStarted : \A q, r \in chats'[c] : q = r
  BY <1>1, <1>2, <1>3
<1>5. /\ custom' \in [Ids -> SUBSET CustomModel]
      /\ custom'[i] = {}
      /\ \A j \in Ids \ {i} : custom'[j] = custom[j]
  BY <1>1 DEF ModelIInv, RowTypes
<1>6. RowTypes'
  BY <1>1, <1>4, <1>5 DEF ModelIInv, RowTypes
<1>7. SlugsNameOneModel'
  BY <1>5 DEF ModelIInv, DraftIInv, SlugsNameOneModel
<1>8. RowsAreNumbered'
  BY <1>1, <1>5 DEF ModelIInv, DraftIInv, RowsAreNumbered
<1>9. ChatsKnowTheirModel'
  <2>1. \A c \in 1..MaxStarted : \A r \in chats[c] : r \in Chat /\ r.model \in 0..MaxModels
    BY <1>3 DEF Chat
  <2>2. i # 0
    BY DEF Ids
  <2> SUFFICES ASSUME NEW c \in 1..MaxStarted, NEW r \in chats[c], Left(r).model # 0
               PROVE  custom'[Left(r).model] # {}
    BY <1>4 DEF ChatsKnowTheirModel
  <2>3. Left(r).model = r.model /\ r.model # i /\ r.model \in Ids
    BY <1>2, <2>1, <2>2 DEF Ids
  <2> QED
    BY <1>5, <2>3 DEF ModelIInv, DraftIInv, ChatsKnowTheirModel
<1>10. FirstTurnsCarryThePreset'
  BY <1>2, <1>3, <1>4 DEF ModelIInv, DraftIInv, FirstTurnsCarryThePreset
<1>11. ChatsStay
  BY <1>2, <1>3, <1>4 DEF ChatsStay
<1>12. /\ DraftTypes' /\ DraftOK' /\ ScreenShowsThePrompt'
       /\ \A s \in Sends : SendOK(s)'
  BY <1>1, <1>11, ConversationsStay
<1> QED
  BY <1>6, <1>7, <1>8, <1>9, <1>10, <1>12 DEF ModelIInv, DraftIInv

LEMMA RowsKeep == ASSUME ModelIInv, RowSteps PROVE ModelIInv'
<1>1. ASSUME NEW u \in Owners, NEW slug \in Slugs, CreateChecks(u, slug) PROVE ModelIInv'
  <2>1. creating' \in [Owners -> SUBSET Slugs] /\ panel' \subseteq Listing
    BY <1>1 DEF CreateChecks, ModelIInv, RowTypes
  <2> QED
    BY <1>1, <2>1, SlugsKeep DEF CreateChecks
<1>2. ASSUME NEW u \in Owners, CreateFails(u) PROVE ModelIInv'
  <2>1. creating' \in [Owners -> SUBSET Slugs] /\ panel' \subseteq Listing
    BY <1>2 DEF CreateFails, ModelIInv, RowTypes
  <2> QED
    BY <1>2, <2>1, SlugsKeep DEF CreateFails
<1>3. CASE PanelLoads
  <2>1. creating' \in [Owners -> SUBSET Slugs] /\ panel' \subseteq Listing
    BY <1>3 DEF PanelLoads, Visible, ModelIInv, RowTypes
  <2> QED
    BY <1>3, <2>1, SlugsKeep DEF PanelLoads
<1> QED
  BY <1>1, <1>2, <1>3, InsertKeeps, UpdateKeeps, DeleteModelKeeps DEF RowSteps

-----------------------------------------------------------------------------
\* A conversation put on the screen detaches every call of send().
LEMMA DetachedIs ==
  ASSUME DraftTypes, send' = Detached
  PROVE  /\ send' \in [Sends -> Send]
         /\ \A s \in Sends : send'[s] = [send[s] EXCEPT !.ours = FALSE] /\ ~send'[s].ours
<1>1. \A s \in Sends : send[s] \in Send
  BY DEF DraftTypes
<1>2. \A s \in Sends : send'[s] = [send[s] EXCEPT !.ours = FALSE]
  BY DEF Detached
<1>3. \A s \in Sends : [send[s] EXCEPT !.ours = FALSE] \in Send /\ ~[send[s] EXCEPT !.ours = FALSE].ours
  BY <1>1 DEF Send
<1>4. send' = [s \in Sends |-> [send[s] EXCEPT !.ours = FALSE]]
  BY DEF Detached
<1> QED
  BY <1>2, <1>3, <1>4

\* The rows are as they were.
LEMMA RowsStay ==
  ASSUME ModelIInv, UNCHANGED <<custom, numbered, creating, panel, chats>>
  PROVE  /\ RowTypes' /\ RowsAreNumbered' /\ SlugsNameOneModel' /\ ChatsKnowTheirModel'
         /\ FirstTurnsCarryThePreset'
BY DEF ModelIInv, DraftIInv, RowTypes, RowsAreNumbered, SlugsNameOneModel, ChatsKnowTheirModel,
       FirstTurnsCarryThePreset

LEMMA LeavingKeeps ==
  ASSUME ModelIInv, send' = Detached, UNCHANGED <<custom, numbered, creating, panel, chats>>,
         draft' \in Draft, opening' \subseteq 1..MaxStarted, DraftOK', ScreenShowsThePrompt'
  PROVE  ModelIInv'
<1>1. /\ send' \in [Sends -> Send]
      /\ \A s \in Sends : send'[s] = [send[s] EXCEPT !.ours = FALSE] /\ ~send'[s].ours
  BY DetachedIs DEF ModelIInv
<1>2. ASSUME NEW s \in Sends PROVE SendOK(s)'
  BY <1>1, ChatsThere, SendStays DEF ModelIInv, DraftIInv
<1> QED
  BY <1>1, <1>2, RowsStay DEF ModelIInv, DraftIInv, DraftTypes

LEMMA ResetKeeps == ASSUME ModelIInv, ResetsDraft PROVE ModelIInv'
<1>1. draft' = NoDraft /\ NoDraft \in Draft
  BY SavedAssumption DEF ResetsDraft, NoDraft, Draft, Chosen
<1>2. DraftOK' /\ ScreenShowsThePrompt'
  BY <1>1 DEF NoDraft, DraftOK, ScreenShowsThePrompt
<1>3. opening' \subseteq 1..MaxStarted
  BY DEF ResetsDraft, ModelIInv, DraftTypes
<1> QED
  BY <1>1, <1>2, <1>3, LeavingKeeps DEF ResetsDraft

LEMMA StartKeeps == ASSUME ModelIInv, NEW l \in panel, StartsFrom(l) PROVE ModelIInv'
<1> DEFINE next == [NoDraft EXCEPT !.pending = l.id, !.preset = l.preset, !.shows = l.preset]
<1>1. l \in Listing
  BY DEF ModelIInv, RowTypes
<1>2. /\ next \in Draft
      /\ next.chat = 0 /\ next.shows = next.preset
  <2>1. l.id \in 0..MaxModels /\ l.preset \in Chosen
    BY <1>1, SavedAssumption DEF Listing, Ids, Chosen
  <2>2. NoDraft \in Draft /\ NoDraft.chat = 0
    BY SavedAssumption DEF NoDraft, Draft, Chosen
  <2> QED
    BY <2>1, <2>2 DEF Draft
<1>3. draft' = next
  BY DEF StartsFrom
<1>4. DraftOK' /\ ScreenShowsThePrompt'
  BY <1>2, <1>3 DEF DraftOK, ScreenShowsThePrompt
<1>5. opening' \subseteq 1..MaxStarted
  BY DEF StartsFrom, ModelIInv, DraftTypes
<1> QED
  BY <1>2, <1>3, <1>4, <1>5, LeavingKeeps DEF StartsFrom

LEMMA OpenBeginsKeeps == ASSUME ModelIInv, NEW c \in 1..MaxStarted, OpenBegins(c) PROVE ModelIInv'
<1>1. /\ draft' = [draft EXCEPT !.streaming = FALSE]
      /\ opening' = opening \cup {c} /\ send' = Detached
      /\ UNCHANGED <<custom, numbered, creating, panel, chats>>
  BY DEF OpenBegins
<1>2. /\ draft' \in Draft /\ draft'.chat = draft.chat /\ draft'.shows = draft.shows
      /\ draft'.mixed = draft.mixed /\ draft'.preset = draft.preset
  BY <1>1 DEF ModelIInv, DraftTypes, Draft
<1>3. DraftOK' /\ ScreenShowsThePrompt'
  BY <1>1, <1>2, ChatsThere, ScreenStays DEF ModelIInv, DraftIInv
<1>4. opening' \subseteq 1..MaxStarted
  BY <1>1 DEF ModelIInv, DraftTypes
<1> QED
  BY <1>1, <1>2, <1>3, <1>4, LeavingKeeps

LEMMA OpenKeeps == ASSUME ModelIInv, NEW c \in 1..MaxStarted, OpensChat(c) PROVE ModelIInv'
<1>1. PICK r \in chats[c] :
        draft' = [draft EXCEPT !.chat = c, !.shows = r.prompt, !.mixed = FALSE]
  BY DEF OpensChat
<1>2. r \in Chat /\ \A q \in chats[c] : q = r
  BY DEF ModelIInv, RowTypes
<1>3. draft \in Draft /\ c \in 0..MaxStarted /\ c # 0
  BY SavedAssumption DEF ModelIInv, DraftTypes
<1>4. draft' \in Draft /\ draft'.chat = c /\ draft'.shows = r.prompt
  BY <1>1, <1>2, <1>3 DEF Draft, Chat
<1>5. UNCHANGED chats /\ opening' \subseteq 1..MaxStarted
  BY DEF OpensChat, ModelIInv, DraftTypes
<1>6. DraftOK' /\ ScreenShowsThePrompt'
  BY <1>2, <1>3, <1>4, <1>5 DEF DraftOK, ScreenShowsThePrompt
<1> QED
  BY <1>4, <1>5, <1>6, LeavingKeeps DEF OpensChat

LEMMA OpenFailsKeeps == ASSUME ModelIInv, NEW c \in 1..MaxStarted, OpenFails(c) PROVE ModelIInv'
<1>1. UNCHANGED <<custom, numbered, creating, panel, draft, send, chats>>
  BY DEF OpenFails
<1>2. opening' \subseteq 1..MaxStarted
  BY DEF OpenFails, ModelIInv, DraftTypes
<1>3. DraftOK' /\ ScreenShowsThePrompt' /\ \A s \in Sends : SendOK(s)'
  BY <1>1, ChatsThere, ScreenStays, SendStays DEF ModelIInv, DraftIInv
<1> QED
  BY <1>1, <1>2, <1>3, RowsStay DEF ModelIInv, DraftIInv, DraftTypes

-----------------------------------------------------------------------------
\* A chat that is disturbed is the same chat.
LEMMA DisturbedIs ==
  ASSUME ModelIInv, NEW c \in 1..MaxStarted, chats' = Disturbed(c),
         UNCHANGED <<custom, numbered, creating, panel>>
  PROVE  /\ ChatsStay /\ RowTypes' /\ \A r \in chats'[c] : r.disturbed
         /\ RowsAreNumbered' /\ SlugsNameOneModel' /\ ChatsKnowTheirModel'
         /\ FirstTurnsCarryThePreset'
<1> DEFINE Moved(r) == [r EXCEPT !.disturbed = TRUE]
<1>1. ASSUME NEW r \in Chat
      PROVE  /\ Moved(r) \in Chat /\ Moved(r).prompt = r.prompt /\ Moved(r).start = r.start
             /\ Moved(r).first = r.first /\ Moved(r).disturbed /\ Moved(r).model = r.model
  BY DEF Chat
<1>2. chats \in [1..MaxStarted -> SUBSET Chat] /\ \A d \in 1..MaxStarted : \A q, r \in chats[d] : q = r
  BY DEF ModelIInv, RowTypes
<1>3. chats' = [chats EXCEPT ![c] = {Moved(r) : r \in chats[c]}]
  BY DEF Disturbed
<1> HIDE DEF Moved
<1>4. /\ chats' \in [1..MaxStarted -> SUBSET Chat]
      /\ chats'[c] = {Moved(r) : r \in chats[c]}
      /\ \A d \in 1..MaxStarted \ {c} : chats'[d] = chats[d]
      /\ \A d \in 1..MaxStarted : \A q, r \in chats'[d] : q = r
  BY <1>1, <1>2, <1>3
<1>5. RowTypes'
  BY <1>4 DEF ModelIInv, RowTypes
<1>6. ChatsStay
  BY <1>1, <1>2, <1>4 DEF ChatsStay
<1>7. \A r \in chats'[c] : r.disturbed
  BY <1>1, <1>2, <1>4
<1>8. RowsAreNumbered' /\ SlugsNameOneModel'
  BY DEF ModelIInv, DraftIInv, RowsAreNumbered, SlugsNameOneModel
<1>9. ChatsKnowTheirModel' /\ FirstTurnsCarryThePreset'
  BY <1>1, <1>2, <1>4 DEF ModelIInv, DraftIInv, ChatsKnowTheirModel, FirstTurnsCarryThePreset
<1> QED
  BY <1>5, <1>6, <1>7, <1>8, <1>9

\* A call of send() that moves, beside the others.
LEMMA OthersSend ==
  ASSUME ModelIInv, ChatsStay, NEW s \in Sends, NEW next \in Send,
         send' = [send EXCEPT ![s] = next], draft'.shows = draft.shows
  PROVE  /\ send' \in [Sends -> Send] /\ send'[s] = next
         /\ \A t \in Sends \ {s} : SendOK(t)'
<1>1. /\ send' \in [Sends -> Send] /\ send'[s] = next
      /\ \A t \in Sends \ {s} : send'[t] = send[t]
  BY DEF ModelIInv, DraftTypes
<1>2. ASSUME NEW t \in Sends \ {s} PROVE SendOK(t)'
  <2>1. send'[t] = send[t]
    BY <1>1
  <2> QED
    BY <2>1, SendStays DEF ModelIInv, DraftIInv
<1> QED
  BY <1>1, <1>2

LEMMA NoSendIs == NoSend \in Send /\ NoSend.stage = "idle"
BY SavedAssumption DEF NoSend, Send, Chosen

LEMMA BeginKeeps == ASSUME ModelIInv, NEW s \in Sends, SendBegins(s) PROVE ModelIInv'
<1> DEFINE next == [stage |-> "creating", model |-> draft.pending, preset |-> draft.preset,
                    prompt |-> draft.shows, chat |-> 0, ours |-> TRUE]
<1>1. /\ draft.chat = 0 /\ send' = [send EXCEPT ![s] = next]
      /\ UNCHANGED <<custom, numbered, creating, panel, draft, opening, chats>>
  BY DEF SendBegins
<1>2. next \in Send
  BY SendFields, SavedAssumption DEF ModelIInv, Send
<1>3. draft.shows = draft.preset
  BY <1>1 DEF ModelIInv, DraftIInv, DraftOK
<1>4. ChatsStay /\ DraftOK' /\ ScreenShowsThePrompt'
  BY <1>1, ChatsThere, ScreenStays DEF ModelIInv, DraftIInv
<1>5. SendOK(s)'
  <2>1. send'[s] = next
    BY <1>1 DEF ModelIInv, DraftTypes
  <2> QED
    BY <1>1, <1>3, <2>1 DEF SendOK
<1> HIDE DEF next
<1>6. send' \in [Sends -> Send] /\ \A t \in Sends \ {s} : SendOK(t)'
  BY <1>1, <1>2, <1>4, OthersSend
<1> QED
  BY <1>1, <1>4, <1>5, <1>6, RowsStay DEF ModelIInv, DraftIInv, DraftTypes

LEMMA ContinueKeeps == ASSUME ModelIInv, NEW s \in Sends, SendContinues(s) PROVE ModelIInv'
<1> USE SavedAssumption
<1> DEFINE next == [NoSend EXCEPT !.stage = "asked", !.chat = draft.chat, !.ours = TRUE]
           c == draft.chat
<1>1. /\ draft.chat # 0 /\ send' = [send EXCEPT ![s] = next]
      /\ draft' = [draft EXCEPT !.streaming = TRUE]
      /\ chats' = Disturbed(draft.chat)
      /\ UNCHANGED <<custom, numbered, creating, panel, opening>>
  BY DEF SendContinues
<1>2. c \in 1..MaxStarted /\ c \in 0..MaxStarted /\ c # 0
  BY <1>1, SendFields DEF ModelIInv
<1>3. /\ next \in Send /\ next.stage = "asked" /\ next.chat = c
  BY <1>2, NoSendIs DEF Send
<1>4. /\ ChatsStay /\ RowTypes' /\ \A r \in chats'[c] : r.disturbed
      /\ RowsAreNumbered' /\ SlugsNameOneModel' /\ ChatsKnowTheirModel'
      /\ FirstTurnsCarryThePreset'
  BY <1>1, <1>2, DisturbedIs
<1>5. /\ draft' \in Draft /\ draft'.chat = draft.chat /\ draft'.shows = draft.shows
      /\ draft'.mixed = draft.mixed /\ draft'.preset = draft.preset
  BY <1>1 DEF ModelIInv, DraftTypes, Draft
<1>6. DraftOK' /\ ScreenShowsThePrompt'
  BY <1>4, <1>5, ScreenStays DEF ModelIInv, DraftIInv
<1>7. chats[c] # {}
  BY <1>1 DEF ModelIInv, DraftIInv, DraftOK
<1> HIDE DEF next, c
<1>8. /\ send' \in [Sends -> Send] /\ send'[s] = next
      /\ \A t \in Sends \ {s} : SendOK(t)'
  BY <1>1, <1>3, <1>4, <1>5, OthersSend
<1>9. SendOK(s)'
  BY <1>2, <1>3, <1>4, <1>7, <1>8 DEF SendOK, ChatsStay
<1> QED
  BY <1>1, <1>4, <1>5, <1>6, <1>8, <1>9 DEF ModelIInv, DraftIInv, DraftTypes

\* create_chat: a new chat has the preset and the prompt its call began with.
LEMMA ChatCreatedKeeps == ASSUME ModelIInv, NEW s \in Sends, ChatIsCreated(s) PROVE ModelIInv'
<1> USE SavedAssumption
<1> DEFINE new == [model |-> send[s].model, prompt |-> send[s].prompt, start |-> send[s].preset,
                   first |-> "none", disturbed |-> FALSE]
<1>1. PICK c \in 1..MaxStarted :
        /\ chats[c] = {}
        /\ chats' = [chats EXCEPT ![c] = {new}]
        /\ send' = [send EXCEPT ![s].stage = "created", ![s].chat = c]
  BY DEF ChatIsCreated
<1>2. /\ send[s].stage = "creating"
      /\ send[s].model # 0 => custom[send[s].model] # {}
      /\ UNCHANGED <<custom, numbered, creating, panel, draft, opening>>
  BY DEF ChatIsCreated
<1> DEFINE next == [send[s] EXCEPT !.stage = "created", !.chat = c]
<1>3. c \in 0..MaxStarted /\ c # 0
  OBVIOUS
<1>4. /\ new \in Chat /\ new.model = send[s].model /\ new.prompt = send[s].prompt
      /\ new.start = send[s].preset /\ new.first = "none"
  BY SendFields DEF ModelIInv, Chat
<1>5. /\ next \in Send /\ next.stage = "created" /\ next.chat = c
      /\ next.preset = send[s].preset /\ next.prompt = send[s].prompt /\ next.ours = send[s].ours
  BY <1>3, SendFields DEF ModelIInv, Send
<1>6. send' = [send EXCEPT ![s] = next]
  BY <1>1
<1>7. send[s].prompt = send[s].preset
  BY <1>2 DEF ModelIInv, DraftIInv, SendOK
<1> HIDE DEF new, next
<1>8. /\ chats' \in [1..MaxStarted -> SUBSET Chat]
      /\ chats'[c] = {new} /\ \A d \in 1..MaxStarted \ {c} : chats'[d] = chats[d]
      /\ \A d \in 1..MaxStarted : \A q, r \in chats'[d] : q = r
  BY <1>1, <1>4 DEF ModelIInv, RowTypes
<1>9. RowTypes'
  BY <1>2, <1>8 DEF ModelIInv, RowTypes
<1>10. ChatsStay
  BY <1>1, <1>8 DEF ChatsStay
<1>11. RowsAreNumbered' /\ SlugsNameOneModel'
  BY <1>2 DEF ModelIInv, DraftIInv, RowsAreNumbered, SlugsNameOneModel
<1>12. ChatsKnowTheirModel'
  BY <1>2, <1>4, <1>8 DEF ModelIInv, DraftIInv, ChatsKnowTheirModel
<1>13. FirstTurnsCarryThePreset'
  BY <1>4, <1>7, <1>8 DEF ModelIInv, DraftIInv, FirstTurnsCarryThePreset
<1>14. DraftOK' /\ ScreenShowsThePrompt'
  BY <1>2, <1>10, ScreenStays DEF ModelIInv, DraftIInv
<1>15. /\ send' \in [Sends -> Send] /\ send'[s] = next
       /\ \A t \in Sends \ {s} : SendOK(t)'
  BY <1>2, <1>5, <1>6, <1>10, OthersSend
<1>16. SendOK(s)'
  <2>1. send[s].ours => draft.shows = send[s].prompt
    BY <1>2 DEF ModelIInv, DraftIInv, SendOK
  <2> QED
    BY <1>2, <1>3, <1>4, <1>5, <1>8, <1>15, <2>1 DEF SendOK
<1> QED
  BY <1>2, <1>9, <1>11, <1>12, <1>13, <1>14, <1>15, <1>16 DEF ModelIInv, DraftIInv, DraftTypes

LEMMA RefusalKeeps == ASSUME ModelIInv, NEW s \in Sends, ChatIsRefused(s) PROVE ModelIInv'
<1>1. /\ send' = [send EXCEPT ![s] = NoSend]
      /\ UNCHANGED <<custom, numbered, creating, panel, draft, opening, chats>>
  BY DEF ChatIsRefused
<1>2. ChatsStay /\ DraftOK' /\ ScreenShowsThePrompt'
  BY <1>1, ChatsThere, ScreenStays DEF ModelIInv, DraftIInv
<1>3. /\ send' \in [Sends -> Send] /\ send'[s] = NoSend
      /\ \A t \in Sends \ {s} : SendOK(t)'
  BY <1>1, <1>2, NoSendIs, OthersSend
<1>4. SendOK(s)'
  BY <1>3, NoSendIs DEF SendOK
<1> QED
  BY <1>1, <1>2, <1>3, <1>4, RowsStay DEF ModelIInv, DraftIInv, DraftTypes

\* The answer puts the chat on the screen that shows its prompt already, unless it was left.
LEMMA ArrivalKeeps == ASSUME ModelIInv, NEW s \in Sends, ChatArrives(s) PROVE ModelIInv'
<1> USE SavedAssumption
<1> DEFINE c == send[s].chat
           next == [send[s] EXCEPT !.stage = "listing"]
<1>1. /\ send[s].stage = "created"
      /\ draft' = [draft EXCEPT !.chat = c, !.pending = 0, !.preset = Plain,
                                !.mixed = draft.mixed \/ ~send[s].ours]
      /\ send' = [send EXCEPT ![s] = next]
      /\ UNCHANGED <<custom, numbered, creating, panel, opening, chats>>
  BY DEF ChatArrives
<1>2. c \in 0..MaxStarted /\ c # 0 /\ chats[c] # {}
      /\ (\A r \in chats[c] : r.start = send[s].preset \/ r.disturbed)
      /\ (\A r \in chats[c] : r.prompt = send[s].prompt)
      /\ (send[s].ours => draft.shows = send[s].prompt)
  BY <1>1, SendFields DEF ModelIInv, DraftIInv, SendOK
<1>3. /\ draft' \in Draft /\ draft'.chat = c /\ draft'.shows = draft.shows
      /\ draft'.mixed = (draft.mixed \/ ~send[s].ours)
  <2> DEFINE mixed == draft.mixed \/ ~send[s].ours
  <2>1. draft \in Draft /\ mixed \in BOOLEAN /\ Plain \in Chosen
    BY DEF ModelIInv, DraftTypes, Chosen
  <2>2. draft' = [draft EXCEPT !.chat = c, !.pending = 0, !.preset = Plain, !.mixed = mixed]
    BY <1>1
  <2>3. c \in 0..MaxStarted /\ 0 \in 0..MaxModels
    BY <1>2
  <2> HIDE DEF mixed, c
  <2>4. draft' \in Draft
    BY <2>1, <2>2, <2>3 DEF Draft
  <2>5. draft'.chat = c /\ draft'.shows = draft.shows /\ draft'.mixed = mixed
    BY <2>1, <2>2 DEF Draft
  <2> QED
    BY <2>4, <2>5 DEF mixed
<1>4. DraftOK'
  BY <1>1, <1>2, <1>3 DEF DraftOK
<1>5. ScreenShowsThePrompt'
  BY <1>1, <1>2, <1>3 DEF ScreenShowsThePrompt
<1>6. /\ next \in Send /\ next.stage = "listing" /\ next.chat = c /\ next.preset = send[s].preset
  BY SendFields DEF ModelIInv, Send
<1> HIDE DEF c, next
<1>7. /\ send' \in [Sends -> Send] /\ send'[s] = next
      /\ \A t \in Sends \ {s} : SendOK(t)'
  BY <1>1, <1>3, <1>6, ChatsThere, OthersSend
<1>8. SendOK(s)'
  BY <1>1, <1>2, <1>6, <1>7 DEF SendOK
<1> QED
  BY <1>1, <1>3, <1>4, <1>5, <1>7, <1>8, RowsStay DEF ModelIInv, DraftIInv, DraftTypes

LEMMA AskKeeps == ASSUME ModelIInv, NEW s \in Sends, Asks(s) PROVE ModelIInv'
<1> USE SavedAssumption
<1> DEFINE next == [send[s] EXCEPT !.stage = "asked"]
<1>1. /\ send[s].stage = "listing"
      /\ draft' = [draft EXCEPT !.streaming = TRUE]
      /\ send' = [send EXCEPT ![s] = next]
      /\ UNCHANGED <<custom, numbered, creating, panel, opening, chats>>
  BY DEF Asks
<1>2. /\ draft' \in Draft /\ draft'.chat = draft.chat /\ draft'.shows = draft.shows
      /\ draft'.mixed = draft.mixed /\ draft'.preset = draft.preset
  BY <1>1 DEF ModelIInv, DraftTypes, Draft
<1>3. ChatsStay /\ DraftOK' /\ ScreenShowsThePrompt'
  BY <1>1, <1>2, ChatsThere, ScreenStays DEF ModelIInv, DraftIInv
<1>4. /\ next \in Send /\ next.stage = "asked" /\ next.chat = send[s].chat
      /\ next.preset = send[s].preset
  BY SendFields DEF ModelIInv, Send
<1> HIDE DEF next
<1>5. /\ send' \in [Sends -> Send] /\ send'[s] = next
      /\ \A t \in Sends \ {s} : SendOK(t)'
  BY <1>1, <1>2, <1>3, <1>4, OthersSend
<1>6. SendOK(s)'
  BY <1>1, <1>4, <1>5 DEF ModelIInv, DraftIInv, SendOK
<1> QED
  BY <1>1, <1>2, <1>3, <1>5, <1>6, RowsStay DEF ModelIInv, DraftIInv, DraftTypes

\* A call of send() ends with its turn: the chat's first one has the preset of the call.
LEMMA SendEnds ==
  ASSUME ModelIInv, NEW s \in Sends, send[s].stage = "asked", ChatsStay, RowTypes',
         RowsAreNumbered', SlugsNameOneModel', ChatsKnowTheirModel', FirstTurnsCarryThePreset',
         draft' = [draft EXCEPT !.streaming = FALSE], send' = [send EXCEPT ![s] = NoSend],
         UNCHANGED opening
  PROVE  ModelIInv'
<1>1. /\ draft' \in Draft /\ draft'.chat = draft.chat /\ draft'.shows = draft.shows
      /\ draft'.mixed = draft.mixed /\ draft'.preset = draft.preset
  BY DEF ModelIInv, DraftTypes, Draft
<1>2. DraftOK' /\ ScreenShowsThePrompt'
  BY <1>1, ScreenStays DEF ModelIInv, DraftIInv
<1>3. /\ send' \in [Sends -> Send] /\ send'[s] = NoSend
      /\ \A t \in Sends \ {s} : SendOK(t)'
  BY <1>1, NoSendIs, OthersSend
<1>4. SendOK(s)'
  BY <1>3, NoSendIs DEF SendOK
<1> QED
  BY <1>1, <1>2, <1>3, <1>4 DEF ModelIInv, DraftIInv, DraftTypes

LEMMA TurnBeginsKeeps == ASSUME ModelIInv, NEW s \in Sends, TurnBegins(s) PROVE ModelIInv'
<1> USE SavedAssumption
<1> DEFINE c == send[s].chat
           p == send[s].preset
           Begun(r) == IF r.first = "none" THEN [r EXCEPT !.first = p] ELSE r
<1>1. /\ send[s].stage = "asked"
      /\ chats' = [chats EXCEPT ![c] = {Begun(r) : r \in chats[c]}]
      /\ draft' = [draft EXCEPT !.streaming = FALSE] /\ send' = [send EXCEPT ![s] = NoSend]
      /\ UNCHANGED <<custom, numbered, creating, panel, opening>>
  BY DEF TurnBegins
<1>2. c \in 1..MaxStarted /\ p \in Chosen
      /\ (\A r \in chats[c] : r.start = p \/ r.disturbed)
  BY <1>1, SendFields DEF ModelIInv, DraftIInv, SendOK
<1>3. ASSUME NEW r \in Chat
      PROVE  /\ Begun(r) \in Chat /\ Begun(r).prompt = r.prompt /\ Begun(r).start = r.start
             /\ Begun(r).first \in {p, r.first} /\ (r.disturbed => Begun(r).disturbed)
             /\ Begun(r).model = r.model
  BY <1>2 DEF Chat
<1>4. chats \in [1..MaxStarted -> SUBSET Chat] /\ \A d \in 1..MaxStarted : \A q, r \in chats[d] : q = r
  BY DEF ModelIInv, RowTypes
<1> HIDE DEF Begun, c, p
<1>5. /\ chats' \in [1..MaxStarted -> SUBSET Chat]
      /\ chats'[c] = {Begun(r) : r \in chats[c]}
      /\ \A d \in 1..MaxStarted \ {c} : chats'[d] = chats[d]
      /\ \A d \in 1..MaxStarted : \A q, r \in chats'[d] : q = r
  BY <1>1, <1>2, <1>3, <1>4
<1>6. RowTypes'
  BY <1>1, <1>5 DEF ModelIInv, RowTypes
<1>7. ChatsStay
  BY <1>3, <1>4, <1>5 DEF ChatsStay
<1>8. RowsAreNumbered' /\ SlugsNameOneModel'
  BY <1>1 DEF ModelIInv, DraftIInv, RowsAreNumbered, SlugsNameOneModel
<1>9. ChatsKnowTheirModel'
  BY <1>1, <1>3, <1>4, <1>5 DEF ModelIInv, DraftIInv, ChatsKnowTheirModel
<1>10. FirstTurnsCarryThePreset'
  <2> SUFFICES ASSUME NEW d \in 1..MaxStarted, NEW r \in chats'[d]
               PROVE  r.prompt = r.start /\ (r.first # "none" => r.first = r.start \/ r.disturbed)
    BY DEF FirstTurnsCarryThePreset
  <2>1. CASE d # c
    BY <1>5, <2>1 DEF ModelIInv, DraftIInv, FirstTurnsCarryThePreset
  <2>2. CASE d = c
    <3>1. PICK q \in chats[c] : r = Begun(q)
      BY <1>5, <2>2
    <3>2. q \in Chat /\ q.prompt = q.start /\ (q.first # "none" => q.first = q.start \/ q.disturbed)
      BY <1>2, <1>4 DEF ModelIInv, DraftIInv, FirstTurnsCarryThePreset
    <3>3. q.start = p \/ q.disturbed
      BY <1>2
    <3> QED
      BY <1>3, <3>1, <3>2, <3>3
  <2> QED
    BY <2>1, <2>2
<1> QED
  BY <1>1, <1>6, <1>7, <1>8, <1>9, <1>10, SendEnds

LEMMA TurnRefusedKeeps == ASSUME ModelIInv, NEW s \in Sends, TurnIsRefused(s) PROVE ModelIInv'
<1> DEFINE c == send[s].chat
<1>1. /\ send[s].stage = "asked" /\ chats' = Disturbed(c)
      /\ draft' = [draft EXCEPT !.streaming = FALSE] /\ send' = [send EXCEPT ![s] = NoSend]
      /\ UNCHANGED <<custom, numbered, creating, panel, opening>>
  BY DEF TurnIsRefused
<1>2. c \in 1..MaxStarted
  BY <1>1, SendFields, SavedAssumption DEF ModelIInv, DraftIInv, SendOK
<1> HIDE DEF c
<1>3. /\ ChatsStay /\ RowTypes'
      /\ RowsAreNumbered' /\ SlugsNameOneModel' /\ ChatsKnowTheirModel'
      /\ FirstTurnsCarryThePreset'
  BY <1>1, <1>2, DisturbedIs
<1> QED
  BY <1>1, <1>3, SendEnds

LEMMA DraftsKeep == ASSUME ModelIInv, DraftSteps PROVE ModelIInv'
BY ResetKeeps, StartKeeps, OpenBeginsKeeps, OpenKeeps, OpenFailsKeeps, BeginKeeps, ContinueKeeps, ChatCreatedKeeps, RefusalKeeps,
   ArrivalKeeps, AskKeeps, TurnBeginsKeeps, TurnRefusedKeeps DEF DraftSteps

-----------------------------------------------------------------------------
\* A toggle under way has its fields.
LEMMA ToggleFields ==
  ASSUME StarTypes, NEW t \in Toggles, toggle[t].stage # "idle"
  PROVE  /\ toggle[t] \in [stage : {"sent", "set"}, ref : Refs, on : BOOLEAN,
                           before : SUBSET Refs, reply : SUBSET Refs]
         /\ toggle[t].before \subseteq Refs /\ toggle[t].reply \subseteq Refs
         /\ toggle[t].ref \in Refs
BY DEF StarTypes, Toggle

LEMMA StarsLoadKeeps == ASSUME StarTypes, StarsIInv, StarsLoad PROVE StarTypes' /\ StarsIInv'
BY DEF StarsLoad, StarTypes, StarsIInv, Calling

LEMMA StarKeeps ==
  ASSUME StarTypes, StarsIInv, NEW t \in Toggles, NEW r \in Refs, Stars(t, r)
  PROVE  StarTypes' /\ StarsIInv'
<1> DEFINE on == r \notin stars
           next == [stage |-> "sent", ref |-> r, on |-> on, before |-> stars, reply |-> {}]
<1>1. /\ toggle[t].stage = "idle" /\ toggle' = [toggle EXCEPT ![t] = next]
      /\ stars' \in {stars \ {r}, stars \cup {r}}
      /\ overlapped' = (overlapped \/ Calling # {})
      /\ UNCHANGED starred
  BY DEF Stars
<1>2. next \in Toggle /\ next.stage = "sent" /\ next.before = stars
  <2>1. on \in BOOLEAN
    OBVIOUS
  <2> HIDE DEF on
  <2> QED
    BY <2>1 DEF StarTypes, Toggle
<1> HIDE DEF next, on
<1>3. toggle' \in [Toggles -> Toggle] /\ toggle'[t] = next
      /\ \A u \in Toggles \ {t} : toggle'[u] = toggle[u]
  BY <1>1, <1>2 DEF StarTypes
<1>4. overlapped' \in BOOLEAN /\ (~overlapped' => ~overlapped /\ Calling = {})
  BY <1>1 DEF StarTypes
<1>5. StarTypes'
  BY <1>1, <1>3, <1>4 DEF StarTypes
<1>6. Calling = {} => Calling' = {t}
  BY <1>2, <1>3 DEF Calling
<1>7. ~overlapped' => stars = starred /\ \A u \in Toggles : u # t => toggle'[u].stage = "idle"
  BY <1>3, <1>4 DEF StarsIInv, Calling
<1>8. StarsIInv'
  BY <1>1, <1>2, <1>3, <1>4, <1>6, <1>7 DEF StarsIInv
<1> QED
  BY <1>5, <1>8

LEMMA SetKeeps ==
  ASSUME StarTypes, StarsIInv, NEW t \in Toggles, SetsFavorite(t)
  PROVE  StarTypes' /\ StarsIInv'
<1> DEFINE next == [toggle[t] EXCEPT !.stage = "set", !.reply = starred']
<1>1. /\ toggle[t].stage = "sent"
      /\ starred' \in {starred \cup {toggle[t].ref}, starred \ {toggle[t].ref}}
      /\ toggle' = [toggle EXCEPT ![t] = next]
      /\ UNCHANGED <<stars, overlapped>>
  BY DEF SetsFavorite
<1>2. starred' \subseteq Refs
  BY <1>1, ToggleFields DEF StarTypes
<1>3. next \in Toggle /\ next.stage = "set" /\ next.reply = starred'
  BY <1>1, <1>2, ToggleFields DEF Toggle
<1> HIDE DEF next
<1>4. toggle' \in [Toggles -> Toggle] /\ toggle'[t] = next
      /\ \A u \in Toggles \ {t} : toggle'[u] = toggle[u]
  BY <1>1, <1>3 DEF StarTypes
<1>5. StarTypes'
  BY <1>1, <1>2, <1>4 DEF StarTypes
<1>6. Calling' = Calling /\ t \in Calling
  BY <1>1, <1>3, <1>4 DEF Calling
<1>7. ~overlapped => \A u \in Toggles : u # t => toggle'[u].stage = "idle"
  BY <1>4, <1>6 DEF StarsIInv, Calling
<1>8. StarsIInv'
  BY <1>1, <1>3, <1>4, <1>6, <1>7 DEF StarsIInv
<1> QED
  BY <1>5, <1>8

\* A toggle ends with what is stored on the screen, unless toggles overlapped or an answer was lost.
LEMMA ToggleEnds ==
  ASSUME StarTypes, StarsIInv, NEW t \in Toggles, toggle[t].stage \in {"sent", "set"},
         toggle' = [toggle EXCEPT ![t] = NoToggle], starred' = starred,
         overlapped' \in BOOLEAN, ~overlapped' => ~overlapped,
         stars' \subseteq Refs, ~overlapped' => stars' = starred
  PROVE  StarTypes' /\ StarsIInv'
<1>1. NoToggle \in Toggle /\ NoToggle.stage = "idle"
  BY DEF NoToggle, Toggle
<1>2. toggle' \in [Toggles -> Toggle] /\ toggle'[t] = NoToggle
      /\ \A u \in Toggles \ {t} : toggle'[u] = toggle[u]
  BY <1>1 DEF StarTypes
<1>3. StarTypes'
  BY <1>2 DEF StarTypes
<1>4. Calling' = Calling \ {t}
  BY <1>1, <1>2 DEF Calling
<1>5. StarsIInv'
  BY <1>1, <1>2, <1>4 DEF StarsIInv
<1> QED
  BY <1>3, <1>5

LEMMA StarStepsKeep == ASSUME StarTypes, StarsIInv, StarSteps PROVE StarTypes' /\ StarsIInv'
<1>1. ASSUME NEW t \in Toggles, StarsAnswered(t) PROVE StarTypes' /\ StarsIInv'
  <2>1. toggle[t].reply \subseteq Refs /\ overlapped' \in BOOLEAN /\ (~overlapped' => ~overlapped)
        /\ (~overlapped' => toggle[t].reply = starred)
    BY <1>1, ToggleFields DEF StarsAnswered, StarTypes, StarsIInv
  <2> QED
    BY <1>1, <2>1, ToggleEnds DEF StarsAnswered
<1>2. ASSUME NEW t \in Toggles, StarsFail(t) PROVE StarTypes' /\ StarsIInv'
  <2>1. overlapped' = (overlapped \/ toggle[t].stage = "set") /\ toggle[t].stage \in {"sent", "set"}
    BY <1>2 DEF StarsFail
  <2>2. overlapped' \in BOOLEAN /\ (~overlapped' => ~overlapped /\ toggle[t].stage = "sent")
    BY <2>1
  <2>3. toggle[t].before \subseteq Refs
    BY <2>1, ToggleFields
  <2>4. ~overlapped' => toggle[t].before = starred
    BY <2>2 DEF StarsIInv
  <2> QED
    BY <1>2, <2>1, <2>2, <2>3, <2>4, ToggleEnds DEF StarsFail
<1> QED
  BY <1>1, <1>2, StarsLoadKeeps, StarKeeps, SetKeeps DEF StarSteps

LEMMA SavedInitially == SavedInit => ModelIInv /\ StarTypes /\ StarsIInv
<1> SUFFICES ASSUME SavedInit PROVE ModelIInv /\ StarTypes /\ StarsIInv
  OBVIOUS
<1> USE SavedAssumption DEF SavedInit
<1>1. RowTypes
  BY DEF RowTypes
<1>2. DraftTypes
  <2>1. NoDraft \in Draft
    BY DEF NoDraft, Draft, Chosen
  <2> QED
    BY <2>1, NoSendIs DEF DraftTypes
<1>3. DraftIInv
  <2>1. DraftOK /\ ScreenShowsThePrompt
    BY DEF NoDraft, DraftOK, ScreenShowsThePrompt
  <2>2. \A s \in Sends : SendOK(s)
    BY DEF NoSend, SendOK
  <2> QED
    BY <2>1, <2>2 DEF DraftIInv, RowsAreNumbered, SlugsNameOneModel, ChatsKnowTheirModel,
                      FirstTurnsCarryThePreset
<1>4. StarTypes /\ StarsIInv
  BY DEF StarTypes, StarsIInv, Calling, NoToggle, Toggle
<1> QED
  BY <1>1, <1>2, <1>3, <1>4 DEF ModelIInv

\* For any accounts, slugs, presets, calls of send() and toggles: a slug names one custom model
\* and a chat refers to one that exists; a chat has the prompt of the preset it was started from
\* and its first turn carries that preset, unless it was disturbed; and the stars on the screen
\* are the stored ones, unless toggles overlapped or an answer was lost (custom_models.py,
\* conversation.svelte.ts, app.svelte.ts).
THEOREM SavedHold == SavedSpec => []SavedInv
<1>1. SavedInit => ModelIInv /\ StarTypes /\ StarsIInv
  BY SavedInitially
<1>2. ModelIInv /\ StarTypes /\ StarsIInv /\ [SavedNext]_savedVars
        => (ModelIInv /\ StarTypes /\ StarsIInv)'
  <2> SUFFICES ASSUME ModelIInv, StarTypes, StarsIInv, [SavedNext]_savedVars
               PROVE  (ModelIInv /\ StarTypes /\ StarsIInv)'
    OBVIOUS
  <2>1. ASSUME UNCHANGED starVars PROVE (StarTypes /\ StarsIInv)'
    BY <2>1 DEF starVars, StarTypes, StarsIInv, Calling
  <2>2. ASSUME UNCHANGED modelVars PROVE ModelIInv'
    <3>1. ChatsStay /\ UNCHANGED <<custom, numbered, creating, panel, draft, opening, send, chats>>
      BY <2>2, ChatsThere DEF modelVars
    <3> QED
      BY <3>1, RowsStay, ConversationsStay DEF ModelIInv, DraftIInv
  <2>3. CASE UNCHANGED savedVars
    BY <2>1, <2>2, <2>3 DEF savedVars, starVars, modelVars
  <2>4. CASE SavedNext
    BY <2>1, <2>2, <2>4, RowsKeep, DraftsKeep, StarStepsKeep DEF SavedNext
  <2> QED
    BY <2>3, <2>4
<1>3. ModelIInv /\ StarTypes /\ StarsIInv => SavedInv
  BY DEF ModelIInv, RowTypes, DraftTypes, StarTypes, DraftIInv, StarsIInv, SavedInv, SavedTypeOK,
         CalmStarsAreStored
<1> QED
  BY <1>1, <1>2, <1>3, PTL DEF SavedSpec

=============================================================================
