# Verification of velox-ui

TLA+ models of velox-ui (a self-hosted chat server: FastAPI on one asyncio event loop, SQLite
or PostgreSQL, a Svelte client), the TLC runs that check them, and theorems about them proved
with TLAPS.  Paths below are relative to the repository's `src/velox_ui/` unless they start
with `frontend/`, `docs/` or `tests/`.  `PROJECT.json` lists components, runs, mutants,
findings, hazards and theorems, and maps every definition to the lines it models.

To check: `tlc -config MCTurnBroker.cfg MCTurnBroker`, and likewise for the other `.cfg` files
(the table of section 3 names each one's module); `tlapm TurnBroker_proofs.tla`, and likewise
for the other `*_proofs` modules.

## 1. The system

Everything on the server runs on one event loop, so a step of a model is what one task does
between two awaits; what can interleave is what is suspended at an await.  The parts that carry
the program's own logic:

| Component | State | Operations | What is hard | What makes it correct |
|---|---|---|---|---|
| Turn broker (`services/turns.py`) | one `ActiveTurn` per conversation: frames, done, task | start, attach, stop, evict; the task's loop | readers and stops at any point of a turn's life; a full buffer | one running turn per conversation, always findable; readers get exactly the turn's frames; an answered stop found its turn over |
| Turn generator (`services/chat.py`) | rounds, tool calls, status, what the finalizer gets | `prepare`, `stream`, `_run_tool_call`, `_pump` | failure, cancellation and overflow between any two awaits | what is stored is what was shown; requests are well formed; turns end |
| Persistence (`services/persistence.py`, `db/engine.py`) | accumulated text, locks, rows | append, retract, flush, finalize | out-of-band writes out of order, failing, cut off by a crash | text never goes back; a settled row is whole; counts and leaf match the rows |
| Reasoning splitter (`services/think_split.py`) | buffer, flags, what it emitted | feed, finish | tags cut by any chunk boundary, a closing tag that was never opened | the split is that of the whole text, however it was cut |
| Approval gate (`mcp/manager.py`) | pending approvals, once-approved tools | gate, register, wait, resolve | answers late, repeated or for another call; deadlines | a gated call runs only on an answer to that very call |
| Message tree (`db/repositories/chats.py`) | parent and child rows, active leaf | append, edit, switch branch, page | branches, a stale or unset leaf | a path is one branch; the model is sent the branch the reply is stored on; pages join |
| Conversation memory (`services/memory.py`, `services/context.py`) | summary and its anchor | plan, compact, rewrite, forget | a turn starting during a compaction | every message is sent, summarised or counted as omitted |
| Model jobs (`services/model_jobs.py`, `frontend/.../jobs.svelte.ts`) | job records, tasks, subscriptions | start or join, cancel, run, prune, follow | cancellation before the first step, pruning while followed | a running job can be found; one job per target; followers are told the end |
| Provider registry (`providers/registry.py`, `services/providers.py`) | rows, specs, adapters, cached listings | create, update, delete, discover, list, invalidate | edits that overlap over their awaits; a listing under way while its backend changes | what is used is what is stored; a listing is old only by that race |
| Provider adapters (`providers/*.py`) | one stream's partial frames and calls; capability cache | stream, assemble, encode the next round | interleaved fragments, streams that end early | a round is read whole or fails; every call has one result |
| Setting caches (`services/model_params.py`, `plugins/loader.py`) | cached values, order of use | get, put, reset, invalidate | a lookup that overlaps a save | what is cached is what is stored |
| RAG ingestion (`services/rag_ingest.py`, `services/rag_jobs.py`, `rag/`) | documents, chunks, vectors, jobs | upload, ingest, delete, retrieve | several transactions, deletion in between, restarts | a ready document is whole; hits can be cited; a failed document says so |
| MCP transports (`mcp/stdio.py`, `mcp/http_*.py`, `mcp/sse.py`) | child, reader, session, pending requests | initialize, list, call, close | a server that dies, hangs, answers late or repeats itself | each request gets its own answer or an error; nothing outlives its operation |
| Accounts and sessions (`api/routes/auth.py`, `db/repositories/credentials.py`) | users, refresh-token families | register, sign in, refresh, sign out, administer | two refreshes at once, lost replies | one live token per family |
| Identifiers (`ids.py`) | last millisecond and suffix | `new_ulid` | overflow, a clock set back | later ids sort after earlier ones |
| Organisation (`api/routes/folders.py`, `tags.py`, `search.py`) | folders, tags, flags, cursors | shelve, tag, list, search | pages over rows that change | a page boundary neither skips nor repeats |
| Application (`state.py`, `lifespan.py`, `db/migrate.py`) | tracked tasks, shared client, schema stamp | spawn, drain, migrate, first use | shutdown, several instances, threads | what was acknowledged survives; one client; only a migrated instance serves; a death between scripts is resumed from |
| Saved models and stars (`api/routes/custom_models.py`, `favorite_models.py`, `conversation.svelte.ts`, `app.svelte.ts`) | rows with owner and slug; the draft a conversation starts from; stars | create, change, delete, start a conversation, star | a chat created while the screen moves on; models deleted in between; overlapping answers | the first turn has the preset it was started with; a slug is one model |
| Uploads (`security/uploads.py`, `db/repositories/files.py`, the routes of documents, attachments and images) | bytes by hash, rows, ids a client was answered with | store, file, delete, read for a turn | shared bytes, deletion under a turn, a write cut short | a row's bytes stay as whole as they were filed; a content is filed once |
| Open WebUI import (`services/importers/openwebui.py`) | chats made of an export | import, again | repeats, malformed and unordered entries | nothing twice, nothing lost |
| Client conversation store (`frontend/src/lib/stores/conversation.svelte.ts`) | open chat, messages, streams | open, send, stop, attach, watch | loads and streams overtaking each other, replays | the screen shows the open conversation, once |
| Client sidebar, virtual list, markdown (`app.svelte.ts`, `virtual/list.ts`, `markdown/`) | pages, heights, renderings | load, filter, measure, render | answers out of order, heights known late | nothing listed twice, the view covered, the newest text shown |

How they interact.  `POST /completions` calls `ChatService.prepare`, which reads the message
tree and the caches, and hands the generator of a `PreparedTurn` to `TurnBroker.start`.  The
broker's task drains that generator into a buffer which any number of HTTP responses read.
The generator reads an adapter's events through a bounded queue that a task of its own fills
(`_pump`).  It spawns tracked tasks: the insert of the two rows, flushes of the growing text,
one finalizer.  It calls tools through the MCP manager, which opens a connection for each, and
waits there for an answer that another request delivers.  `POST /stop` cancels the broker's
task, which the generator sees at its next await.  Jobs run as tracked tasks beside all of this
and invalidate the listings of the backend they worked on.  The client follows one stream and
replays it after a reload.

The remaining components (routing, settings, secrets, panels, packaging) are
listed in `PROJECT.json` with the reason each is left out.

## 2. Modules

| Module | Models | Abstract specification or reference |
|---|---|---|
| `TurnBroker` | `services/turns.py` and the completions, stream and stop routes | `TurnLog`: append-only logs with subscribers |
| `TurnStore` | `services/persistence.py`, insert and finalizer of `services/chat.py`, `db/engine.py`, drain and startup | `MessageLife`: the life of one assistant row |
| `TurnStream` | `PreparedTurn.stream`, `_run_tool_call`, the splitter's events, and the client's reading of the frames | `Reply`: what a reader may rely on |
| `ApprovalGate` | the gate of `mcp/manager.py` shared by all turns, and the approve route | its own properties |
| `Conversation` | message tree, `prepare`, memory, compaction, paging | a branch, as the chain of parents |
| `ProviderRegistry` | `providers/registry.py`, `services/providers.py`, discovery | what a listing begun now would show (`due`) |
| `ModelJobs` | `services/model_jobs.py`, `jobs.svelte.ts`; EXTENDS `ProviderRegistry` | every job there was (`job`) |
| `Adapters` | the four adapters, `_pump`, the messages of the next round, the capability cache | what the backend sent (`backend`) |
| `ThinkSplitter` | `services/think_split.py` | the split of the whole text (`TagsOf`) |
| `SettingsCaches` | `services/model_params.py`, `plugins/loader.py` | the stored values (`saved`) |
| `Knowledge`, `Chunking` | RAG transactions and jobs; `rag/chunking.py` as a function | the text itself |
| `McpConnections` | `McpManager.connect` and `call_tool` over the transports of `mcp/` | the server's answers (`answered`) |
| `Accounts` | first account, sign-in, refresh, administration, the browser's tabs | |
| `Identifiers` | `ids.py` | the order of ids |
| `Importer` | `services/importers/openwebui.py` | the export's trees |
| `Startup` | `db/migrate.py`, `lifespan.py`, the shared client of `state.py` | |
| `SavedModels` | custom models, the conversation started from one, favourites | |
| `Uploads` | stored bytes, their rows, a turn that reads its images | |
| `Library` | folders, tags, shelves, list and search pages, the sidebar | the set that is paged through |
| `Screen` | `conversation.svelte.ts`, `stream/sink.ts` | the turn's log on the server |
| `VirtualList` | `virtual/list.ts` | sums over the heights |
| `Rendering` | `markdown/client.ts`, `blocks.ts`, `worker.ts` | the whole text |

`ModelJobs` composes with `ProviderRegistry`: a job that ends invalidates its backend's listing
in the same step, and `StaleOnlyByRace` is checked over both.  `Conversation` composes the tree
with the broker's idea of a running turn and with the finalizer that may still be waiting.
`TurnStream` composes the generator with a reader's screen.  The eight `MC` modules give constants
their values; `MCChats`, `MCServices`, `MCBackends` and `MCClient` hold several small models that
share no state, one of which each behaviour runs (`part`), the others staying as they are.

**TurnBroker.**  `registry` is `_turns`; `frames`, `done` and `task` are `ActiveTurn`'s; `cancel` is
a `CancelledError` waiting to be thrown into the task; `source` is where the generator is suspended
(its body, its final block after a normal end, after a cancellation, or with an exception under
way).  `StartTurn`, `Attach`, `Stop`/`StopReturns` and `LookupOnly` are the routes, each with the
eviction every lookup performs.  `RunBegins` … `RunRaises` are the steps of `_run`;
`CancelledBeforeStart` is asyncio's treatment of a task cancelled before it has run a step.
`SourceLosesStop` is a cancellation that comes while the body closes a legacy SSE client, which
suppresses it (`mcp/sse.py:168`); `lost` remembers it.  `Publish` is the loop with its safety valve:
the frame that passes the limit is appended, then an error and a done frame, and the generator is
abandoned where it is.  `SendFrame`, `Park`, `Heartbeat`, `EndOfTurn` and `Leave` are
`ActiveTurn.read`.  Bytes are counted as frames.

**TurnStore.**  Every `async with db.write()` is two or three steps: ask for the lock (a queue on
SQLite, nothing on PostgreSQL), execute, commit or fail.  `pending` is the queue of flushes on
`StreamWriter._lock`; `final` awaits the insert, then that lock, then the database.
`DrainCancels` is the end of the grace period, `ProcessEnds` a crash or exit at any point,
`Restart` what startup does, which is nothing to messages.  Text is a version number: an append
and a retraction both make a newer one, which is all that ordering needs.

**TurnStream.**  `phase` says where the generator is suspended; the sets `Awaits` (where a
cancellation can land) and `Yields` (where an overflow can abandon it) come from the code.
`Answer`, `Think`, `OpenTag`, `CloseTag`, `Retract`, `NativeCall` and `Reports` are the backend's events
through the splitter; `ToolRound`, `Announce`, `AsksFirst`/`Waits`/`Approved`/`Rejected`/`TimesOut`,
`ToolReturns`, `Record`, `NextRound` are the tool loop; `Fails`, `Breaks`, `Stopped`, `Overflows` are
its exits, and `FinalizerEnds`/`FinalizerFails`/`StoppedAgain` the shielded wait.  The `shown…`
variables are the client's message: each frame's effect (`OnDelta` …) is part of the step that
yields it.

**ApprovalGate.**  `pending` is `_pending`, `future` the future of each registration, `ending` a
deadline or a stop that has fallen but not yet been noticed by the task, `clicks` the answers users
sent.  An answer stays in `clicks`, so it may arrive at any later time and more than once.
`AsksAndOverflows` is a registration whose turn is abandoned before it waits.  `ReusesIds` says
whether backends may give two calls one id, as `providers/openai_compat.py:530` makes them when a
server sends none.

**Conversation.**  `rows` and `leaf` are the message table and `active_leaf_id`; ids are ranks.
`Chain` is a message's chain of parents, as a recursive function, and `Branch` the set of it.
`Prepare` is `ChatService.prepare` up to the point where it awaits nothing more (`LoadActivePath`,
the tip of the path with its fallback; `Plan` with the note, the `Fresh` messages it does not cover
and the `Newest` of them that fit the window); `Begins` or `Refused` is the broker's answer,
`Inserts`, `Flushes`, `Ends`, `EndsEarly` and `Finalizes` the turn's writes, of which a turn stopped
twice or ended by overflow leaves the last for later.  `CompactBegins`, `CompactReads`,
`CompactWrites` are the check, the reading of the path and the writing of the note, with a
generation between: `covers` are the messages the model was shown, `omitted` the older ones its
window had no room for, and the anchor is past both; `Rewrites` and `Forgets` are edits of the
note.  `OpensChat` and `OlderPage` follow one client through `PathPage`.  The `calm` fields record
whether another turn, edit or switch was under way, so that a property can say what holds when none
was, and `stray` that a turn asked for a message that is not stored, or for
the leaf of a conversation that has messages but none set.

**ProviderRegistry, ModelJobs.**  An edit is the read of the present spec (`CreateBegins`,
`UpdateBegins`, `DeleteBegins`), then the commit with what follows it in one step (`…Commits`), or
`EditFails`; on SQLite no other edit comes between those two, on PostgreSQL one may, which is not
modelled; `Restarts` loads rows and configuration again.  A discovery reads the known addresses,
is answered, and adds one backend at a time.  A listing is begun, answered with the version its
address serves, and stored.  A job starts or is joined, advances, succeeds, fails or is
cancelled, and is forgotten by `Pruned`, whose cut by age keeps any number of the newest.  Nothing
makes a job end: one cancelled before its task has run a step never does (`model_jobs.py:257`).
`watch`, `shown` and `answers` are `jobs.svelte.ts`.

**Adapters.**  `wire` is the adapter and whether its backend names calls; `backend` what was sent in
this round, `stream` the local variables of `stream_chat`, `queue` the queue of `_pump`, `round` and
`turn` the generator's.  One frame is one step, through the adapter (each has its own way to keep
partial calls and to know the end), into the queue, out of it into the round.  A stream may fail
with an error the turn catches or with one it does not, be closed early, or be cut by a stop.
`Encoded` is how each adapter ties a result to its call in the next request.  A delete or copy
forgets a model's cached capabilities only when it is answered (`AnswerIsLost`), a transfer always.

**ThinkSplitter.**  `received` is the text fed so far and `splitter` the object's fields: the buffer is
what follows the first `given` characters.  `Feed` is `feed` with the whole loop of `_drain`: `Drained`
turns it as often as there is a tag that counts (`Counting`, `First`, `TakesTag`), and `Settled`
emits the rest but for what `_holdback` keeps (`Held`).  `Finish` keeps nothing.  What was given out is
a set of places in the text, so that a character lost, doubled or out of place shows.  `TagsOf`,
`InTag` and `InThought` say what the split of a text is without a splitter or chunks.

**SettingsCaches, Knowledge, McpConnections, Accounts.**  Each transaction is a step, and each
place where the code awaits something between a read and a write separates two.  In `Knowledge` a
job's steps are those of `ingest_document` (`parse`, `count`, `replace`, `table`, `embed`,
`progress`, `ready`), and `IngestFails`, a cancellation and `ProcessRestarts` may come before any.
In `McpConnections` an operation holds a set of resources (`child`, `reader`, `session`,
`client`); the server is free.  In `Accounts` a refresh is a request, the read of the token's row,
the write, and a reply that may be lost; tabs share one cookie.

**Startup, Identifiers, Importer, Chunking.**  `Starts` is `ensure_schema`; `Migrates` one statement
of a script, which commits by itself on SQLite, `MigrationFails` the error when what it creates is
there, `Stamps` the revision after the last statement, and `Dies` may come before any.
`AsksOnLoop`, `AsksInThread`, `Adopts` and `ClosesCopy` the first use of the shared client.
`NewUlid` is `new_ulid` with the width of its suffix as a constant.  `Outcome` goes through the
entries of an export the way `import_export` does: `Kept` are an entry's messages, `Nth` the one
that has k - 1 before it in the order `SortsBefore`, `Grown` the tree they are planted in one by
one, `Filed` the chat with its folder and tags.  `Pack` is the loop that `_hard_split` runs over
words and `chunk_text` over pieces, with another gap and overlap; characters are numbered so that
none can be lost unnoticed.

**SavedModels, Uploads.**  A creation looks its slug up and then inserts; `Forgetting` is the foreign
key's ON DELETE SET NULL.  `draft` is what `conversation.svelte.ts` holds of the conversation on the
screen, `send` each call of `send()` (`creating` its chat, `created`, `listing` the chats again,
`asked` for the turn), `opening` the chats asked for and not yet read.  A star is set on the screen
(`Stars`), then by a request, whose answer replaces all of them.  In `Uploads` a content on disk is
missing, cut short by a write that failed, or whole (`failed` says of which a first write did), and a
row remembers which of the two it was filed over; an upload stores (`UploadBegins`), then looks for
an earlier row and finds or creates one in a transaction; `Generates` stores and files in one.
`DeletesFile` keeps the bytes.  A turn finds the rows of its images and then reads the bytes
(`TurnFinds`, `TurnReads`), with anything in between.

**Library, Screen, VirtualList, Rendering.**  `Paged` is the keyset page every list uses; `Key` is
the order of `ix_chat_list`, and `Newest` what ORDER BY makes of a set: the sequence of it that is
sorted, wherever there is one.  `Subtree` is the recursive query of a folder's descendants.
`Screen` has one step per answer: of an open, of an attach or a send, of each event, of an animation
frame (`FrameFires`, the token sink), of the end, the abort or the break of a stream.  `WindowFor`
is the binary search (`Halved`, one step of it; `Search`, the loop) over the prefix sums (`Sums`);
heights are naturals, and an average is rounded down.  `SafeLines` is the walk of
`splitStreamingText` (`Walked`, one line of it).  `SafeLines`, `Search`, `Chain`, `Gathered` (the
calls a round has heard), `Drained`, `Outcome`, `Grown`, `Packed` and `Pieces` are recursive
functions or folds, so that they can be proved about.

`RegSpec`, `JobsSpec`, `AdaptersSpec`, `SplitSpec`, `McpSpec`, `CachesSpec`, `KnowSpec`, `IdSpec`,
`ChunkSpec`, `ImportSpec`, `StartSpec`, `AccountsSpec`, `ConvSpec`, `LibrarySpec`, `ScreenSpec`,
`ListSpec`, `RenderSpec`, `SavedSpec` and `UploadsSpec` are the parts' own specifications, which the
theorems are about; an `MC` module runs their actions side by side.

## 3. Runs

Twelve runs; ten must pass, and two must find a disagreement between the code and what the
repository says of it.

| Run | Module, instance | Shows |
|---|---|---|
| `broker` | `MCTurnBroker`: 1 conversation; a turn with a reader and a stop, and besides a second turn, a second reader or a second stop; buffer 2; fair | `ReadersInv`, `TurnsInv`, `EndedTurnsAreFrozen`; `StopsAreAnswered`, `ReadersFinish`; the broker implements `TurnLog` |
| `store_sqlite` | `MCTurnStore`: 2 conversations, 2 turns, SQLite, one text change, fair | `WritesInv`; `EndedTurnsSettle` |
| `store_postgres` | `MCTurnStore`: 1 conversation, 2 turns, no process-wide lock, two text changes | the store implements `MessageLife` |
| `stream_native` | `MCTurnStream`: 2 rounds, two native call ids, builtin, always-ask and unknown tools, 2 pieces of text | `ShownInv`, `RequestsAreAnswered` |
| `stream_emulated` | `MCTurnStream`: 3 rounds, emulated calls, retractions, 4 pieces, fair | the frames implement `Reply`; `TurnsEnd` |
| `gate_fresh` | `MCApprovalGate`: 2 turns of at most two calls, tools of all three modes, fresh ids, 3 answers, fair | `GateInv`, `RunsOnConsent`; `WaitsEnd` |
| `chats` | `MCChats`: *conversation*: 2 turns, 2 compactions, 4 ids, 2 edits, a window of 3, pages of 1; *accounts*: 1 person and the local account, 2 tabs, 3 tokens, 2 administrative changes | `ConvInv`, `CalmTurnsContinueTheirBranch`, `PagesJoin`; `AccountsInv` |
| `services` | `MCServices`: *editing*, *listing*, *settings*, *knowledge*, *ids*, *chunks*, *imports*, *schema*, *client*, *models*, *drafts*, *stars*, *uploads* | `RegistryInv`, `SettingsInv`, `CollectionsInv`, `CalmIdsIncrease`, `ChunksCoverTheText`, `ImportsKeepChats`, `StartupInv`, `SavedInv`, `UploadsInv` |
| `backends` | `MCBackends`: *follow*, *list*: 2 jobs on a backend; *turn*: 4 adapters, 2 rounds, 2 calls in 2 fragments, a queue of 2; *capabilities*; *mcp*: 1 operation, 4 transports, 3 edits; *split*: texts of 7 letters in any chunks; fair | `JobsInv`, `AdaptersInv`, `ConnectionsInv`, `SplitInv`; `FollowersAreTold`, `OperationsEnd` |
| `client` | `MCClient`: *shelves*, *sidebar*, *search*, *screen*, *list*, *markdown*; fair | `LibraryInv`, `ScreenInv`, `WindowsCoverTheView`, `ShownIsTheLatest`; `StreamingEnds` |
| `gate_reuse` | `MCApprovalGate`: one id for all calls | violates `RunsOnConsent` |
| `knowledge_failed` | `Knowledge`: 2 documents of up to 2 chunks | violates `EndedIngestsShow` |

Every property of a passing run has a mutant: a plausible mistake in a definition that models
code (a dropped guard, a lock not taken, a deadline that never falls, a boundary moved), defined
beside it and commented `Mutant`, under which the same run finds the property violated.  The names
that end in `Inv` are conjunctions of named parts; the type invariant of a module is one of them.

Bounds.  `MaxBuffer` 2 lets a turn overflow on a delta and on its done frame.  In `broker` the
second turn, the second reader and the second stop come one at a time (`Seconds`): a turn meets
each, and the theorems of section 5 hold without that restriction.  `MaxText` 2 is the least with
which an old snapshot can land after a new one (`store_postgres`); `store_sqlite`, which asks about
locks and counts, needs only one.  `MaxPieces` and `MaxIterations` let a round say something,
retract it, call, and a later round say and retract again; with `MaxIterations` 2 or 3 the last
round, whose calls are not run, is reached.  `MaxCalls` 2 and two turns let an answer meet a later
call of the same turn and of another turn.  `MaxClicks` 3 lets one call be both approved and refused
and another answered too. Four ids make two turns, a branch and an insert that comes late; a window
of 3 makes the older part drop out while a reply still fits.  In `MCChats` pages are read while no
compaction runs (`Apart`): they do not look at notes.  A compaction keeps the newest message or
none, and its model is shown any number of the rest.  Three refresh tokens allow two rotations of
one family, and a second family.  In `MCServices` one administrator at a time edits while listings
race (`OneAtATime`), and three requests are under way at most; in *editing* two are (`Underway`),
both edits or one a discovery; the suffixes of an id are 3, so that counting, carry and overflow all
occur within 3 milliseconds; the 1728 texts have words of 1, 3 and 5 characters for chunks of 5 with
an overlap of 2, the least with which a paragraph can be short of, at and over the budget. In
*models* two creations overlap and the other person's model is listed; in *drafts*, where two
messages are sent at once and two chats created, all of this starts from one private model, made and
listed before the first conversation, and one chat at a time is opened, beside one message at most
(`OneModel`).  In *schema* a script is two statements, so that a process can die inside one. Two
toggles of two stars overlap; two people upload two contents of which one is a picture, and two rows
are created, with SQLite's one writer. Two jobs and one kept finished job make pruning happen; two
calls in two fragments interleave in every order.  In *split* the tags are `lt gt` and `lt slash
gt`, which begin alike as the real ones do, and 7 letters hold a block with something in it and a
tag cut anywhere.  Two chats on pages of one put a boundary between any two rows, and a clock of two
values puts both in one millisecond; of the two messages a search finds, one has an id below the
chats' and one above them, so that ties fall either way.  In `MCClient` open, send and reset do not
overlap one another in the part *screen*: what happens when they do is finding 21.  Symmetry is used
in `chats` and `services`, which check no liveness.  Deadlock checking is off where the system
really may stop: all turns over and nobody asking for another, all ids, tokens or edits spent.
`TurnStream` states its end as a stuttering step instead.

Fairness.  A fair run assumes what the process does by itself: the event loop runs ready tasks, the
database answers, timers fall, a cancellation is delivered at the await it finds; and, in
`TurnStream`, that a backend's stream ends or fails (client timeouts) and that tools return (their
deadlines: `mcp/stdio.py:29-30` and the HTTP client's).  `TurnBroker` does not even assume that: a
model may never say another word.  Nor does it assume that a cancellation ends the body it reaches:
the body may swallow it while it closes an MCP client, and what is checked is that no stop is lost
in any other way (`StopsAreAnswered`; finding 27 is the stop that is).  In `TurnStream` such a stop
is a step not taken.  `JobFairness` is only that a subscription's task runs when it can: no download
has to end.  `McpFairness` is that an operation takes the step its own code or timers allow, of
servers nothing is asked.  `ScreenFairness` is that answers on their way arrive or fail, that a turn
ends, and that the browser delivers events.  No run assumes that a user answers, clicks, starts or
stops anything.  A reader's connection takes the next frame or breaks.

## 4. Findings

Each is in `PROJECT.json` with the line it is about and the line of the repository it disagrees
with.  The first two have a run; each of the others names a property defined in the module of its
part, with the sentence it states, and TLC finds it violated when it is put into the `.cfg` of that
part's run in place of the listed ones.  (9 also needs a second discoverer, 10 `MaxChanges = 3`, and
21 `MCClient` without its conjunct `~overlapped'`; 3 is found on `broker`, 4 on `store_sqlite`, 5 and
7 on `stream_native`.)  19 and 24 name a step instead.

Turns and approvals:

1. **Approvals keyed by the backend's id** (`gate_reuse`, `RunsOnConsent`).  Two waiting calls named
   `call_0` share one entry, and an approval of one resolves the other.  The theorem `Consent` proves
   that this needs reused ids: with an id per call the gate is right.
2. **A failed ingestion looks unfinished** (`knowledge_failed`, `EndedIngestsShow`).  The failure is
   recorded on the job, never on the document, so the panel polls on.
3. **A stop before the turn's first step** (`StopAnsweredMeansDone`).  `cancel()` then returns with no
   done frame and a turn that never ends; the conversation answers 409 from then on.  The proved
   theorem `StopsEndTurns` says this is the only exception among the stops that are answered.
4. **A crash leaves `streaming` rows** (`CrashedTurnsAreRepaired`).  ADR-0005 says they are repaired at
   startup; nothing in the startup path reads messages.
5. **A failed turn stored as complete** (`FailedTurnsArePersistedAsErrors`).  `status` survives from an
   earlier round when a later one raises something other than a `VeloxError`.
6. **A reply cut short stored as complete** (`CompleteTurnsWereFinished`).  A stream closed early is
   reported as `Done("stop")`.
7. **A prompt that outlives its turn** (`PromptsAreLive`).  Only a `tool_result` clears the client's
   `pendingApproval`; a turn stopped in its wait has none.
8. **Notes against a branch that moved** (`NotesCoverAlways`).  Compaction looks once for a running turn
   and then waits for a generation.

Backends, settings, data:

9. **One address added twice** by two discoveries at once (`AddedOnce`).
10. **A patch undone by another** that read the backend before it (`PatchesKeepTheRest`).
11. **An old parameter cached after a save** (`SavesTakeEffect`).
12. **A finished job told of twice** (`ToldOnce`), by an answer that was on its way.
13. **A child, a session or a client left behind** when a stop lands in the middle of `close()`
   (`NeverLeaks`).
14. **An id smaller than the last** when the clock is behind it (`IdsNeverDecrease`).
15. **Nobody can sign in** after an instance that ran without sign-in is given it
    (`SomebodyCanAdminister`).
16. **A session ended by its own second tab** (`OnlyLeakedTokensAreReused`).
17. **A folder below itself** (`FoldersFormATree`).
18. **An imported message loses its parent** when it is dated before it (`ParentsAreKept`).
19. **An import ended by one malformed entry** (`openwebui.py:147`; `ImportAborts` is the step).
20. **Chunks over the budget** by the overlap and a blank line (`ChunksFitTheBudget`).

Client:

21. **Two conversations on one screen** when two `open()` overlap (`ScreenShowsOneConversation`).
22. **Reasoning and tools shown twice** by a replay (`ReplaysRebuildTheTurn`).
23. **A filter that is not what is listed** when chosen while a page loads (`FilterIsListed`).
24. **A reply left behind marked as stopped**: `#detaching` is lowered before the read is rejected
    (`conversation.svelte.ts:571`; `FollowIsCut` is the step).
25. **Stable text that changes**: a paragraph whose line has just ended (`StableTextStays`).
26. **A first turn without its preset** (`PresetsReachTheFirstTurn`).  The pending custom model is
    cleared when the chat is created, so a message after a failed request goes without its
    parameters and tools.

Found when the exceptions of sections 3 and 5 were written out:

27. **A stop swallowed by a tool's connection** (`EveryStopIsAnswered`; on `broker`).  `close()` of
    a legacy SSE client suppresses the turn's own cancellation, and the stop waits for a model that
    may be silent.
28. **A reply stored away from the branch it answers** (`TurnsContinueWhatWasRead`; on `chats`).
    With messages stored and no leaf, the deepest branch is sent and the reply becomes a root.
29. **Messages counted as remembered that no notes describe** (`SummarizedAreDescribed`; on
    `chats`).  What does not fit the summarizing model's window is passed by the anchor and counted
    in `summarized`.
30. **A start that can never succeed** (`PendingScriptsCanBeApplied`; on `services`).  A process
    that died inside a migration script on SQLite left its tables and no stamp.
31. **A row over part of its content** (`RowsAreOverWholeBytes`; on `services`).  A write cut short
    leaves a path that every later upload of the same content takes for the whole.
32. **An attachment that no turn takes** (`AttachmentsAreImages`; on `services`).  A picture first
    uploaded as a text document is answered with the document's row.

Observed while reading and not the subject of a property: with emulated tools the stored reply holds
the text of every round, `<tool_call>` blocks included (`services/chat.py:292-345`), where
`docs/design/03-http-api.md:157-160` describes only the final reply;
`docs/design/03-http-api.md:167-168` still says that closing the connection cancels the generation;
the client never asks for an approval to be remembered (`frontend/src/lib/api/client.ts:670`); when
the finalizer fails after a normal end, readers get a second error and a second done frame;
`AppState.drain` cancels what outlives the grace period and returns without awaiting it; nothing
calls `purge_expired`.

## 5. Proofs

The theorems hold for every value of the constants that satisfies the named assumption of each
module they are about (`BrokerAssumption`, `StoreAssumption`, `StreamAssumption`, `GateAssumption`,
`ConversationAssumption`, `RegistryAssumption`, `LibraryAssumption` and so on, each beside the
constants it is about): no bound on conversations, turns, readers, tools, rounds, documents,
instances, servers, backends, jobs, messages, chats, items or lines.  The assumptions say that
bounds are numbers, that a window or a page holds something, that "nothing" is none of the things it
stands beside, that there is a loopback address, that no two of the messages and chats a search
finds have one id, that an export names a node once (its nodes are the keys of a JSON object), and
that the characters of a document are numbered as they are read and at most half of a chunk is
overlap, and that of the splitter's two tags none begins inside another, as `<think>` and `</think>`
do not.  `SessionsHold` alone has a hypothesis more: `Serialised`, the database's process-wide write
lock.

| Module | Theorems | Run properties among them |
|---|---|---|
| `TurnBroker_proofs` | `TypeCorrect`, `RunningReachable`, `NeverMissesAWakeup`, `ReplayIsExact`, `ReadersAreServed`, `EndsAreFramed`, `StopsEndTurns`, `TurnsAreWhole`, `EndsAreFinal`, `BrokerImplementsLog` | all safety properties of `broker`, and the refinement |
| `TurnStore_proofs` | `TypeCorrect`, `CountsMatch`, `Serialized`, `FlushesFindRows`, `WritesAreOrdered`, `StoreImplementsLife` | all safety properties of the `store` runs, and the refinement |
| `TurnStream_proofs` | `TypeCorrect`, `KeptIsShown`, `WaitsAsked`, `GatedAsk`, `ScreenAgrees`, `RequestsAnswered`, `StreamImplementsReply` | all safety properties of the `stream` runs, and the refinement |
| `ApprovalGate_proofs` | `TypeCorrect`, `PendingIsWaited`; with unique ids `Consent`, `Reachable`, `Remembered`, `GateIsSound` | `RunsOnConsent`, `GateInv` |
| `Services_proofs` | `IdTypeCorrect`, `CalmOrder`; `StartsWhole`; `CollectionsAgree`; `SettingsHold`; `ImportsHold`; `ChunksHold`; `SavedHold`; `UploadsHold` | `CalmIdsIncrease`, `StartupInv`, `CollectionsInv`, `SettingsInv`, `ImportsKeepChats`, `ChunksCoverTheText`, `SavedInv`, `UploadsInv` |
| `Backends_proofs` | `ConnectionsAreSound`, `RegistryHolds`, `JobsHold`, `AdaptersHold`, `SplitsHold`, `ChunksDoNotMatter` | `ConnectionsInv`, `RegistryInv`, `JobsInv`, `AdaptersInv`, `SplitInv` |
| `Chats_proofs` | `AccountsAreTyped`, `SessionsHold`; `ConversationHolds`, `CalmTurnsContinue`, `PagesAlwaysJoin` | `AccountsInv`; `ConvInv`, `CalmTurnsContinueTheirBranch`, `PagesJoin` |
| `Client_proofs` | `LibraryHolds`, `ScreenHolds`, `ListHolds`, `RenderingHolds` | all safety properties of `client` |

The theorems beside those name the parts of an `…Inv`: `ReadersInv` is `TypeOK`, `NoMissedWakeup`
and `ReadersReplayTheTurn`; `TurnsInv` is `RunningIsReachable`, `FinishedTurnsAreFramed` and
`StopEndsWhatBegan`; `WritesInv` adds `CountsMatchRows`, `WritesAreSerialized` and
`FlushesFindTheirRow` to the store's types; `ShownInv` adds `ShownIsKept` and `WaitsAreAsked`
(`GatedCallsAsk` is proved beside it); `GateInv` adds `WaitersAreReachable`, `NobodyElseIsPending`
and `RememberedByChoice`.

Each invariant is proved from an inductive one, whose initial case, step and conclusion are
combined by temporal logic at the end.  Why they have to be strengthened:

- *Broker.*  That a finished turn is framed needs what the buffer holds at every earlier point
  (`TaskOK`: a running turn's buffer begins with its start frame, and in its closing block already
  ends with a done frame).  That a sleeping reader misses nothing needs where each reader stands
  relative to the buffer (`ReaderOK`), since the wake-up event is shared.  Refinement and
  reachability need that an unfinished turn is the registered one.
- *Store.*  That text never goes back needs the order of the snapshots on their way (`OrderOK`):
  each is at least what the row holds, at most the present text, and they are queued in the order
  they were taken.  That flushes find their row needs the queue itself (`QueueInv`): each job
  once, the holder first, an insert ahead of its turn's flushes.
- *Stream.*  The screen equals what the loop holds at every step, the trace lags the shown one by
  exactly the result being yielded, and the round's text is an ending of the whole text, so that
  the client's retraction by suffix and the server's by length agree.  `RequestsAnswered` describes
  the message list as complete blocks followed by one whose results are still missing.
- *Gate.*  With unique ids, an id names one call among those turns are making and those users were
  shown; a wait's registration is its own, and an accepted approval was given to that call.
- *Startup.*  Stamped scripts are applied whole, of later ones only the next may be begun, from its
  first statement on (`ScriptsOK`), and an instance inside it has executed exactly the statements
  before the one it has come to (`MigratingOK`): so a second one fails at the first statement and
  never gets inside.  Clients are numbered, so a copy made in a thread is one task's own and never
  the shared one (`CopiesAreSpare`): closing it cannot close what others use.
- *Knowledge.*  A document that says ready is whole only because of what its job had stored at
  every step before (`RunningOK`: nothing until it replaces the chunks; then all of them, and the
  vectors it has counted), and because a document deleted under its job never comes back
  (`RestingOK`).
- *MCP.*  Nothing is decided while a connection opens or asks, only a child's transport has a
  child, and an operation cut short is over (`Sound`).  That the rows are a function on the
  servers is part of `IInv`, or an update of one would say nothing of the others.

- *Registry.*  A stored listing is old only by the race it is marked with because of the order of
  versions (`ListingsAreDue`): a listing under way that no invalidation has overtaken asks the
  present address, and has seen no less than what is due; what is due is at most what the address
  has served (`DueIsServed`).  An adapter, once built, is that of the registered backend.
- *Jobs.*  Beside the registry's invariant, a subscription that was accepted is to a job there
  was, and an answer on its way speaks of such jobs only (`FollowersKnowTheirJobs`).
- *Settings.*  What a lookup has read is what is stored, unless a save overlapped it or is about to
  drop the entry (`ReadsAreCurrent`); the order of use lists each cached model once (`UseIsOrdered`).
- *Imports.*  The import under way knows, before each entry, the source of every chat that is not
  deleted (`Knows`), so it makes no second one.  That each chat is whole is a lemma on what an entry
  becomes: the places of its messages are the numbers from 1 to their count (`PlacesAre`), every
  row of the tree was planted under the parent that came before it (`GrownIs`), and in a flat list
  that is the message before, so depths count up (`FlatDepths`).
- *Chunks.*  `Chain` is a sequence of parts of which each reads on where the one before stopped,
  after repeating its end.  Words are such a chain (`SpelledReads`), packing a chain that repeats
  nothing gives a chain with the overlap asked for (`PackingReads`, for words and for pieces), and
  chains that meet can be joined (`ChainConcat`).  That a chain loses no character is that each lies
  between the bounds of exactly one part (`ChainCovers`).
- *Saved models.*  Custom models are numbered as they are made (`RowsAreNumbered`).
  What the screen shows is tied to the draft it came from (`DraftOK`), and what a call of `send()`
  carries to the chat it created, whose first turn is still to come (`SendOK`); a call that is still
  the screen's own speaks of what the screen shows.  That calm stars are the stored ones needs which of
  two states an unanswered toggle can return to (`StarsIInv`).
- *Uploads.*  Bytes never go, and whole ones are never written again (`Unwritten`), so what an
  upload has stored and what a turn has found stays there (`UploadOK`).  With one writer, at most
  one upload has looked and not yet created its row, and what it did not find nobody files meanwhile
  (`OneWriter`).
- *Accounts.*  Tokens are numbered, and a number names one row (`TokensAreNamed`).  The token that a
  refresh has read is still as it was read, since no other refresh is between its read and its
  write (`ReadsAreExclusive`): this is where the write lock is needed.
- *Conversation.*  A parent's id is below its child's, so chains are finite, and the chain of a
  parent is the front of its child's (`BranchesUnfold`).  What was read in a calm moment is older
  than anything an unsettled turn is going to store (`ReadsAreOlder`), so a branch that was read
  keeps its messages; the ids of two unsettled turns are apart (`TurnsAreApart`).
- *Adapters.*  What the round has heard, followed by a replay of what the queue still holds, is
  what the backend has sent (`NothingIsLost`), whichever of the adapter's ways to keep partial calls
  and of closing the stream.  Each assistant message is followed by one result for each of its calls, in
  their order, and then by the next assistant message (`MessagesOK`).
- *Splitter.*  Inside the loop nothing is said of what is held back, so the loop keeps a weaker fact
  (`Looped`): the tags taken so far are the first of the text, and every place from the last of them to
  where the splitter stands is *refuted*, has a character there that the tag due has not, so that no
  later chunk can complete it.  That no tag begins inside a tag keeps a tag that was first when it was
  taken first when a chunk is added (`LongerText`).  `ChunksDoNotMatter` adds that a text has one split
  (`OneSplit`), by taking the first place where two of them would differ.
- *Library.*  A list holds, once each, the chats that match its filter and that its cursor has
  passed, moved ones aside; an answer under way holds those between its cursor and the next.  In a
  merged search page a hit that was left out of a full half is below everything the page
  keeps, so it is still ahead of the next cursor.  That a finite set has a sorted sequence is proved by
  giving each element the number of those before it as its place.
- *Screen.*  The text a stream has counted is that of the frames of its turn's log up to its
  position (`StreamsAreCounted`); a reply shown as complete is of an ended turn, and whole unless a
  stream still writes into it; and unless two navigations overlap, whatever writes writes for the open
  conversation (`CalmScreen`).
- *Virtual list.*  Sums are right up to the first dirty item, and the average's count and total are
  sums over the measured items.  The binary search keeps the item it looks for between its two
  ends, and the distance between them shrinks.
- *Rendering.*  Every request newer than what is shown is still with the worker, no two have one
  number, and the request that ended the stream was for the whole text.  Walking the lines keeps that an
  open fence began after the last safe line.

Some of these models use recursive functions, folds and sorted sequences.  The induction theorems of
the library take an operator as a parameter, which no installed prover can instantiate, so the proofs
do without: a claim over the numbers is the set of those at which it fails, whose least element
(`LeastOf`, from the library's theorem that < is well-founded on the naturals) is refuted
(`SetInduction`, `UpTo`); and that a recursive function has the values its equation says is proved
from partial functions that satisfy the equation up to a number (`Iterates`).

Every invariant and action property that a passing run checks has its theorem, and so have the three
refinements.  Only model-checked, on the instances of section 3: every liveness property (fairness
and ENABLED are beyond the proof system), and the violations of section 4.

## 6. Abstractions and limits

- Text is tokens (`TurnStream`), versions (`TurnStore`), frames (`TurnBroker`), numbered
  characters (`Chunking`) or classes of lines (`Rendering`).  Usage, timing and status frames are
  left out, and heartbeats except for their effect on a reader.
- Commits are durable.  Power loss under SQLite's `synchronous=NORMAL` may lose the last ones; that
  is the database's contract.  Conversations are never deleted in `TurnStore`.
- On PostgreSQL a flush may run before the insert has committed and update nothing.
  `FlushesFindTheirRow` is therefore a property of SQLite only; the text still arrives with the
  finalizer.
- `Accounts` is run with writes one after another (`Serialised`), which is SQLite's process-wide
  lock.  On PostgreSQL two refreshes with one token may both read it unused and both rotate it;
  `OneLiveToken` is not claimed there.
- In `ApprovalGate` a tool's mode does not change while turns use it: `ServerTool` is read once, in
  `prepare`.  A restart empties the registry together with the turns, so none is modelled.  Users
  are not told apart.  Registering an approval and waiting for it are one step, because nothing is
  awaited between the frame before and the wait.
- In `Startup`, revisions form a line, as the scripts in `db/migrations/versions` do.  Statements commit
  one by one and the stamp after them, which is SQLite, where Alembic's transaction does not begin
  with DDL; on PostgreSQL a script and its stamp commit together, which is the case where nobody
  dies, or looks, between them.  Every statement creates something, so that it fails the second time.
- An edit of a backend in `ProviderRegistry` commits and registers in one step.  On SQLite nothing
  is awaited between the release of the write lock and the registration; on PostgreSQL, without that
  lock, two edits may register in the other order than they committed, which is not modelled.
- `Rendering` has no `release()` (`markdown/client.ts`): nothing in `frontend/src` calls it.
- In `McpConnections` a connection has at most one request pending, which is how `McpManager` uses it;
  the transports would allow more.
- In `Knowledge` a batch of embeddings is one chunk, and a document is ingested once: nothing in the
  routes ingests one again.
- The models that share an MC module share no state.  Two that would meet in the program are
  composed where a hazard depends on both (section 2); others are not: the broker's frames are not
  those of `TurnStream`, `Screen` reads a log of its own, and `TurnStream` takes a splitter's events in
  any order the splitter could give them, with no text behind them.
- Lines of `map` are those a definition stands for, with the detail it abstracts.

## 7. Not modelled

- *Usage, cost and timing*, prompt assembly from profiles and custom models, the parsing of files,
  ranking and distances, provider-specific option names: data that no property tells apart.
- *Secrets* (`security/crypto.py` …): stateless functions over library calls.
- *HTTP shell, command line, settings, logging, metrics*: one transaction or one
  lookup per request, configuration read once.
- *The rest of the client*: components and panels that render what the stores hold.
- *Packaging and benchmarks.*

## 8. What could come next

1. `Accounts` without the process-wide lock, with what PostgreSQL's row locks do promise.
2. The bounded queue of `_pump` against cancellation inside `put`.
3. `Screen` over `TurnLog`, so that what is shown is proved against the broker's abstraction.
4. When a finding of section 4 is repaired, its property joins the run of its part and the
   exception that names it there goes.
