------------------------------- MODULE Knowledge -------------------------------
(***************************************************************************)
(* A collection of documents: uploads and deletions (api/routes/rag.py,    *)
(* db/repositories/rag.py), the ingest job that parses, chunks and embeds  *)
(* a document in one transaction per step (services/rag_ingest.py,         *)
(* services/rag_jobs.py), its vectors in a table of their own without      *)
(* foreign keys (rag/store), and retrieval (rag/retrieve.py).              *)
(*                                                                         *)
(* A chunk is its document and its ordinal; a document is ingested once,   *)
(* so that is also its id.  A batch of embeddings is one chunk.            *)
(***************************************************************************)
EXTENDS Naturals, FiniteSets

CONSTANTS
  Documents,
  MaxChunks     \* chunks a text may have

ASSUME KnowledgeAssumption == MaxChunks \in Nat

VARIABLES
  collection, \* the collection's row exists
  table,      \* its vector table exists
  document,   \* rows: status, chunk_count and whether the file is still there, or "none"
  chunks,     \* chunk rows
  vectors,    \* rows of the vector table
  ingest,     \* each document's job: state, step, chunks of the text, chunks embedded
  cut         \* documents deleted while their job ran

knowVars == <<collection, table, document, chunks, vectors, ingest, cut>>

NoDocument == [status |-> "none", count |-> 0, file |-> FALSE]
Statuses   == {"none", "pending", "parsing", "embedding", "ready"}
Steps      == {"parse", "count", "replace", "table", "embed", "progress", "ready"}
Present(d) == document[d].status # "none"
ChunksOf(d, n) == {d} \X (1..n)

KnowTypeOK ==
  /\ collection \in BOOLEAN /\ table \in BOOLEAN
  /\ document \in [Documents -> [status : Statuses, count : 0..MaxChunks, file : BOOLEAN]]
  /\ chunks \subseteq Documents \X (1..MaxChunks)
  /\ vectors \subseteq Documents \X (1..MaxChunks)
  /\ ingest \in [Documents -> [state : {"none", "running", "succeeded", "failed", "lost"},
                               step : Steps, total : 0..MaxChunks, done : 0..MaxChunks]]
  /\ cut \subseteq Documents
  \* Cascades leave no chunk without its document and no document without its collection.
  /\ \A c \in chunks : Present(c[1])
  /\ collection \/ \A d \in Documents : ~Present(d)

KnowInit ==
  /\ collection = TRUE /\ table = TRUE     \* create_collection makes both
  /\ document = [d \in Documents |-> NoDocument]
  /\ chunks = {} /\ vectors = {}
  /\ ingest = [d \in Documents |-> [state |-> "none", step |-> "parse", total |-> 0, done |-> 0]]
  /\ cut = {}

-----------------------------------------------------------------------------
(* Requests *)

\* The row is committed as pending, then the job starts: nothing is awaited in between.
CreateDocument(d) ==
  /\ ingest[d].state = "none"
  /\ collection
  /\ document' = [document EXCEPT ![d] = [status |-> "pending", count |-> 0, file |-> TRUE]]
  /\ ingest' = [ingest EXCEPT ![d].state = "running"]
  /\ UNCHANGED <<collection, table, chunks, vectors, cut>>

\* DELETE file: documents made from it lose their reference.
DeleteFile(d) ==
  /\ document[d].file
  /\ document' = [document EXCEPT ![d].file = FALSE]
  /\ UNCHANGED <<collection, table, chunks, vectors, ingest, cut>>

\* Mutant: the vectors stay when a document goes.
DeleteDocument_KeepsVectors(d) ==
  /\ Present(d)
  /\ document' = [document EXCEPT ![d] = NoDocument]
  /\ chunks' = {c \in chunks : c[1] # d}
  /\ cut' = IF ingest[d].state = "running" THEN cut \cup {d} ELSE cut
  /\ UNCHANGED <<collection, table, vectors, ingest>>

\* delete_document, in one transaction: the vectors of the chunks it has by then, and the
\* row, with which its chunks go.  A job that runs goes on.
DeleteDocument(d) ==
  /\ Present(d)
  /\ document' = [document EXCEPT ![d] = NoDocument]
  /\ vectors' = vectors \ {c \in chunks : c[1] = d}
  /\ chunks' = {c \in chunks : c[1] # d}
  /\ cut' = IF ingest[d].state = "running" THEN cut \cup {d} ELSE cut
  /\ UNCHANGED <<collection, table, ingest>>

\* delete_collection: the row, its documents and chunks, and the vector table.
DeleteCollection ==
  /\ collection
  /\ collection' = FALSE /\ table' = FALSE
  /\ document' = [d \in Documents |-> NoDocument]
  /\ chunks' = {} /\ vectors' = {}
  /\ cut' = cut \cup {d \in Documents : ingest[d].state = "running"}
  /\ UNCHANGED ingest

-----------------------------------------------------------------------------
(* The ingest job *)

At(d, step) == ingest[d].state = "running" /\ ingest[d].step = step
Goes(d, step) == ingest' = [ingest EXCEPT ![d].step = step]
Ended(d, state) == ingest' = [ingest EXCEPT ![d].state = state]

\* set_progress passes over a document that is gone.
Progress(d, status, count) ==
  document' = IF Present(d) THEN [document EXCEPT ![d].status = status, ![d].count = count]
              ELSE document

IngestParses(d) ==
  /\ At(d, "parse")
  /\ collection /\ Present(d) /\ document[d].file
  /\ Progress(d, "parsing", document[d].count)
  /\ Goes(d, "count")
  /\ UNCHANGED <<collection, table, chunks, vectors, cut>>

\* The text has n chunks.
IngestCounts(d, n) ==
  /\ At(d, "count")
  /\ Progress(d, "embedding", n)
  /\ ingest' = [ingest EXCEPT ![d].step = "replace", ![d].total = n]
  /\ UNCHANGED <<collection, table, chunks, vectors, cut>>

\* An empty text has nothing to embed.
IngestIsEmpty(d) ==
  /\ At(d, "replace") /\ ingest[d].total = 0
  /\ Progress(d, "ready", 0)
  /\ Ended(d, "succeeded")
  /\ UNCHANGED <<collection, table, chunks, vectors, cut>>

\* replace_all needs the document: its chunks refer to it.
IngestReplaces(d) ==
  /\ At(d, "replace") /\ ingest[d].total # 0
  /\ Present(d)
  /\ chunks' = {c \in chunks : c[1] # d} \cup ChunksOf(d, ingest[d].total)
  /\ Goes(d, "table")
  /\ UNCHANGED <<collection, table, document, vectors, cut>>

\* ensure_collection makes the table whether or not the collection is still there.
IngestEnsuresTable(d) ==
  /\ At(d, "table")
  /\ table' = TRUE
  /\ Goes(d, "embed")
  /\ UNCHANGED <<collection, document, chunks, vectors, cut>>

\* upsert: the next batch has been embedded; it goes into the table, which is all it needs.
IngestUpserts(d) ==
  /\ At(d, "embed") /\ ingest[d].done < ingest[d].total
  /\ table
  /\ vectors' = vectors \cup {<<d, ingest[d].done + 1>>}
  /\ ingest' = [ingest EXCEPT ![d].done = @ + 1, ![d].step = "progress"]
  /\ UNCHANGED <<collection, table, document, chunks, cut>>

IngestProgresses(d) ==
  /\ At(d, "progress")
  /\ Progress(d, "embedding", ingest[d].total)
  /\ Goes(d, IF ingest[d].done = ingest[d].total THEN "ready" ELSE "embed")
  /\ UNCHANGED <<collection, table, chunks, vectors, cut>>

IngestIsReady(d) ==
  /\ At(d, "ready")
  /\ Progress(d, "ready", ingest[d].total)
  /\ Ended(d, "succeeded")
  /\ UNCHANGED <<collection, table, chunks, vectors, cut>>

\* Parser, embedder or store failed; a row or the table it needs is gone.  The document
\* keeps the status of its last step.
IngestFails(d) ==
  /\ ingest[d].state = "running"
  /\ Ended(d, "failed")
  /\ UNCHANGED <<collection, table, document, chunks, vectors, cut>>

\* A crash or a shutdown in mid-job: nothing resumes it.
ProcessRestarts ==
  /\ \E d \in Documents : ingest[d].state = "running"
  /\ ingest' = [d \in Documents |-> IF ingest[d].state = "running"
                                    THEN [ingest[d] EXCEPT !.state = "lost"] ELSE ingest[d]]
  /\ UNCHANGED <<collection, table, document, chunks, vectors, cut>>

\* What retrieval returns for a query whose nearest vectors are hits: those with a chunk.
Retrieved(hits) == hits \cap chunks

KnowNext ==
  \/ \E d \in Documents :
       \/ CreateDocument(d) \/ DeleteFile(d) \/ DeleteDocument(d)
       \/ IngestParses(d) \/ IngestIsEmpty(d) \/ IngestReplaces(d) \/ IngestEnsuresTable(d)
       \/ IngestUpserts(d) \/ IngestProgresses(d) \/ IngestIsReady(d) \/ IngestFails(d)
       \/ \E n \in 0..MaxChunks : IngestCounts(d, n)
  \/ DeleteCollection
  \/ ProcessRestarts

KnowSpec == KnowInit /\ [][KnowNext]_knowVars

-----------------------------------------------------------------------------
(* Properties *)

\* A document that is ready is whole: every chunk it counts is stored and can be found by
\* its vector, whatever was deleted beside it.
ReadyDocumentsAreWhole ==
  \A d \in Documents : document[d].status = "ready" =>
    ChunksOf(d, document[d].count) = {c \in chunks : c[1] = d}
      /\ ChunksOf(d, document[d].count) \subseteq vectors

\* The nearest vectors of a query are chunks that can be cited, unless a document was
\* deleted while its job ran: what such a job stored afterwards takes places in every
\* answer, and in a table that outlives its collection.
HitsAreCitable ==
  \A c \in vectors \ Retrieved(vectors) : c[1] \in cut

\* The rows and the vector tables of the knowledge base agree: all of the above.
CollectionsInv == KnowTypeOK /\ ReadyDocumentsAreWhole /\ HitsAreCitable

\* docs/design/02-db-schema.md: the statuses a document goes through end with 'ready' or
\* 'failed', which is what the client polls for.
EndedIngestsShow ==
  \A d \in Documents :
    ingest[d].state = "failed" /\ Present(d) => document[d].status \in {"ready", "failed"}
=============================================================================
