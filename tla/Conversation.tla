----------------------------- MODULE Conversation -----------------------------
(***************************************************************************)
(* One conversation: its tree of messages (db/repositories/chats.py), the  *)
(* turns that are prepared from a branch of it and stored on it            *)
(* (ChatService.prepare, api/routes/chats.py), the notes that stand in for *)
(* its older part (services/memory.py, services/context.py) and a client   *)
(* paging backwards through its branch.                                    *)
(*                                                                         *)
(* An id is its rank: ids are allocated in order, so a parent's is         *)
(* smaller, and 0 is no message.  A message costs one unit of the model's  *)
(* window.                                                                 *)
(***************************************************************************)
EXTENDS Naturals, Sequences, FiniteSets, FiniteSetsExt

CONSTANTS
  CTurns,      \* requests to POST /completions
  Compactors,  \* requests to POST /compact
  MaxIds,      \* bound: message ids
  MaxEdits,    \* bound: requests to PUT /memory
  Window,      \* messages the model has room for
  PageLimit,   \* messages of a page
  None

ASSUME ConversationAssumption ==
  /\ None \notin CTurns
  /\ MaxIds \in Nat /\ MaxEdits \in Nat
  /\ Window \in Nat \ {0} /\ PageLimit \in Nat \ {0}

VARIABLES
  rows,        \* stored messages: parent, depth, role, text, settled
  leaf,        \* active_leaf_id
  notes,       \* memory, its anchor, the messages it describes, those that were omitted from
               \* it for want of room, and whether no turn was unsettled when it was made
  deleted,     \* deleted_at is set
  running,     \* the turn TurnBroker.active returns, or None
  turn,        \* each request's progress and what it read
  nextId,
  compaction,  \* each compaction's progress and what it read
  page,        \* what a client has of the branch, its cursor, and whether it opened it at rest
  edits

convVars == <<rows, leaf, notes, deleted, running, turn, nextId, compaction, page, edits>>

Ids == 1..MaxIds
NoTurn == [stage |-> "idle", parent |-> 0, depth |-> 0, sent |-> {}, room |-> TRUE,
           given |-> {}, calm |-> FALSE, stray |-> FALSE, user |-> 0]
NoNotes == [text |-> FALSE, anchor |-> 0, covers |-> {}, omitted |-> {}, calm |-> TRUE]
NoCompaction == [stage |-> "idle", anchor |-> 0, covers |-> {}, omitted |-> {}, calm |-> TRUE]

ConvTypeOK ==
  /\ DOMAIN rows \subseteq Ids
  /\ \A m \in DOMAIN rows :
       rows[m] \in [parent : 0..MaxIds, depth : 0..MaxIds, role : {"user", "assistant"},
                    text : {"none", "part", "whole"}, settled : BOOLEAN]
  /\ leaf \in 0..MaxIds
  /\ notes \in [text : BOOLEAN, anchor : 0..MaxIds, covers : SUBSET Ids,
                omitted : SUBSET Ids, calm : BOOLEAN]
  /\ notes.text \/ notes = NoNotes
  /\ running \in CTurns \cup {None}
  /\ \A t \in CTurns :
       /\ turn[t].stage \in {"idle", "ready", "running", "finalizing", "over"}
       /\ turn[t].parent <= MaxIds /\ turn[t].sent \subseteq Ids
  /\ \A k \in Compactors : compaction[k].stage \in {"idle", "checked", "writing", "over"}
  /\ nextId \in 1..MaxIds + 1

ConvInit ==
  /\ rows = <<>> /\ leaf = 0 /\ notes = NoNotes /\ deleted = FALSE
  /\ running = None /\ nextId = 1 /\ edits = 0
  /\ turn = [t \in CTurns |-> NoTurn]
  /\ compaction = [k \in Compactors |-> NoCompaction]
  /\ page = [got |-> <<>>, next |-> 0, calm |-> TRUE]

-----------------------------------------------------------------------------
(* Reading the tree *)

\* The chain of messages from the root to m, as far as parents are stored.
Chain[m \in 0..MaxIds] ==
  IF m \notin DOMAIN rows THEN <<>> ELSE Append(Chain[rows[m].parent], m)

\* The tip of a conversation whose leaf is unset: the deepest message, the newest of several.
Deepest ==
  CHOOSE m \in DOMAIN rows : \A o \in DOMAIN rows :
    \/ rows[o].depth < rows[m].depth
    \/ rows[o].depth = rows[m].depth /\ o <= m

\* Mutant: whatever branch is asked for, the newest tip is read.
LoadActivePath_Deepest(from) == IF DOMAIN rows = {} THEN 0 ELSE Deepest

\* The last message of the branch that is read, or 0.
LoadActivePath(from) ==
  LET tip == IF from = 0 THEN leaf ELSE from
  IN IF DOMAIN rows = {} THEN 0 ELSE IF tip \in DOMAIN rows THEN tip ELSE Deepest

\* Its messages: those of a chain are in the order of their ids.
Branch(m) == {Chain[m][i] : i \in DOMAIN Chain[m]}

\* Mutant: the cursor is the oldest message of the page itself.
PathPage_Overlaps(start, limit) ==
  LET chain == Chain[start]
      first == IF Len(chain) > limit THEN Len(chain) - limit + 1 ELSE 1
  IN [got  |-> SubSeq(chain, first, Len(chain)),
      next |-> IF first > 1 THEN chain[first] ELSE 0]

\* load_path_page: up to limit messages ending at start, and the id above them.
PathPage(start, limit) ==
  LET chain == Chain[start]
      first == IF Len(chain) > limit THEN Len(chain) - limit + 1 ELSE 1
  IN [got  |-> SubSeq(chain, first, Len(chain)),
      next |-> IF first > 1 THEN chain[first - 1] ELSE 0]

TipOf == IF leaf # 0 \/ DOMAIN rows = {} THEN leaf ELSE Deepest

-----------------------------------------------------------------------------
(* What a turn sends *)

HasText(m) == rows[m].text # "none"

\* The n newest of some messages.
Newest(messages, n) == {m \in messages : Cardinality({o \in messages : o > m}) < n}

\* _after_memory: notes whose anchor is not on the branch belong to another one.
NotesApply(path) == notes.text /\ notes.anchor \in path \cup {0}

\* What notes stand in for: what they describe, and what was too old to fit as they were made.
Replaced(n) == n.covers \cup n.omitted

\* The part of the branch that the notes do not replace.
Fresh(path) == {m \in path : HasText(m) /\ (NotesApply(path) => m > notes.anchor)}

\* _plan: the notes unless they belong elsewhere, and the newest messages there is room for.
Plan(path) ==
  LET live == NotesApply(path)
      \* The newest message is sent even when there is no room for it.
      size == Max({1, Window - (IF live THEN 1 ELSE 0)})
      kept == Newest(Fresh(path), size)
  IN [sent  |-> kept,
      room  |-> kept = Fresh(path),
      given |-> IF live THEN Replaced(notes) ELSE {},
      calm  |-> live => notes.calm]

-----------------------------------------------------------------------------
(* A turn *)

Reply(t) == turn[t].user + 1
Stored(t) == turn[t].user \in DOMAIN rows
Unsettled == {t \in CTurns : turn[t].stage \in {"running", "finalizing"}}

\* prepare reads the chat, its leaf and the branch in one session.  The branch point is
\* the caller's, or the leaf; nothing checks that it is a stored message.  Where it is none, or
\* the leaf is unset, the deepest branch is read and the turn is stored elsewhere: it is stray.
Prepare(t, asked, fromRoot) ==
  LET branch == IF fromRoot THEN 0 ELSE IF asked # 0 THEN asked ELSE leaf
      tip    == IF fromRoot THEN 0 ELSE LoadActivePath(branch)
      plan   == Plan(Branch(tip))
      found  == fromRoot \/ branch \in DOMAIN rows \/ (branch = 0 /\ DOMAIN rows = {})
  IN /\ turn[t].stage = "idle"
     /\ ~deleted
     /\ turn' = [turn EXCEPT ![t] =
          [stage |-> "ready", parent |-> branch,
           depth |-> IF tip = 0 THEN 0 ELSE rows[tip].depth + 1,
           sent |-> plan.sent, room |-> plan.room, given |-> plan.given,
           calm |-> Unsettled = {} /\ plan.calm, stray |-> ~found, user |-> 0]]
     /\ UNCHANGED <<rows, leaf, notes, deleted, running, nextId, compaction, page, edits>>

\* The capabilities, images, citations and tools it waits for may fail it; so may start,
\* when another turn runs by then.
Refused(t) ==
  /\ turn[t].stage = "ready"
  /\ turn' = [turn EXCEPT ![t] = [NoTurn EXCEPT !.stage = "over"]]
  /\ UNCHANGED <<rows, leaf, notes, deleted, running, nextId, compaction, page, edits>>

\* Both ids are allocated and the broker takes the turn, without an await in between.
Begins(t) ==
  /\ turn[t].stage = "ready"
  /\ running = None
  /\ nextId + 1 <= MaxIds
  /\ running' = t
  /\ turn' = [turn EXCEPT ![t].stage = "running", ![t].user = nextId]
  /\ nextId' = nextId + 2
  /\ UNCHANGED <<rows, leaf, notes, deleted, compaction, page, edits>>

\* _insert_turn: both rows in one transaction, some time after the turn began.
Inserts(t) ==
  /\ turn[t].stage \in {"running", "finalizing"}
  /\ ~Stored(t)
  /\ LET user  == [parent |-> turn[t].parent, depth |-> turn[t].depth, role |-> "user",
                   text |-> "whole", settled |-> TRUE]
         reply == [parent |-> turn[t].user, depth |-> turn[t].depth + 1, role |-> "assistant",
                   text |-> "none", settled |-> FALSE]
     IN rows' = [m \in DOMAIN rows \cup {turn[t].user, Reply(t)} |->
                   IF m = turn[t].user THEN user ELSE IF m = Reply(t) THEN reply ELSE rows[m]]
  /\ UNCHANGED <<leaf, notes, deleted, running, turn, nextId, compaction, page, edits>>

\* A flush of the text so far.
Flushes(t) ==
  /\ turn[t].stage = "running"
  /\ Stored(t)
  /\ rows' = [rows EXCEPT ![Reply(t)].text = "part"]
  /\ UNCHANGED <<leaf, notes, deleted, running, turn, nextId, compaction, page, edits>>

\* The generator spawns its finalizer and waits for it before the broker sees it end.
Ends(t) ==
  /\ turn[t].stage = "running"
  /\ turn' = [turn EXCEPT ![t].stage = "finalizing"]
  /\ UNCHANGED <<rows, leaf, notes, deleted, running, nextId, compaction, page, edits>>

\* An overflow, or a second stop while the finalizer runs.
EndsEarly(t) ==
  /\ turn[t].stage = "finalizing"
  /\ running = t
  /\ running' = None
  /\ UNCHANGED <<rows, leaf, notes, deleted, turn, nextId, compaction, page, edits>>

Over(t) ==
  /\ turn' = [turn EXCEPT ![t] = [NoTurn EXCEPT !.stage = "over"]]
  /\ running' = IF running = t THEN None ELSE running

\* finalize: the text, which may be empty, and the leaf in one transaction.
Finalizes(t, text) ==
  /\ turn[t].stage = "finalizing"
  /\ Stored(t)
  /\ rows' = [rows EXCEPT ![Reply(t)].text = text, ![Reply(t)].settled = TRUE]
  /\ leaf' = Reply(t)
  /\ Over(t)
  /\ UNCHANGED <<notes, deleted, nextId, compaction, page, edits>>

\* The insert or the final write failed: what is stored stays as it is.
FinalizeFails(t) ==
  /\ turn[t].stage = "finalizing"
  /\ Over(t)
  /\ UNCHANGED <<rows, leaf, notes, deleted, nextId, compaction, page, edits>>

-----------------------------------------------------------------------------
(* Notes *)

\* PUT /memory.  A text keeps the anchor, and with it what the notes stand in for.
Rewrites ==
  /\ ~deleted
  /\ edits < MaxEdits
  /\ edits' = edits + 1
  /\ notes' = [notes EXCEPT !.text = TRUE]
  /\ UNCHANGED <<rows, leaf, deleted, running, turn, nextId, compaction, page>>

\* An empty text forgets the notes and their anchor.
Forgets ==
  /\ ~deleted
  /\ edits < MaxEdits
  /\ edits' = edits + 1
  /\ notes' = NoNotes
  /\ UNCHANGED <<rows, leaf, deleted, running, turn, nextId, compaction, page>>

\* compact looks for a running turn, and then waits for the provider registry.
CompactBegins(k) ==
  /\ compaction[k].stage = "idle"
  /\ running = None
  /\ compaction' = [compaction EXCEPT ![k].stage = "checked"]
  /\ UNCHANGED <<rows, leaf, notes, deleted, running, turn, nextId, page, edits>>

\* Mutant: the anchor moves past the messages that were kept, too.
CompactReads_PastKept(k, keep, fits) ==
  LET path == Branch(LoadActivePath(0))
      live == NotesApply(path)
      old  == Fresh(path) \ Newest(Fresh(path), keep)
      read == Newest(old, fits)
  IN /\ compaction[k].stage = "checked"
     /\ compaction' = [compaction EXCEPT ![k] =
          IF deleted \/ old = {} THEN [NoCompaction EXCEPT !.stage = "over"]
          ELSE [stage |-> "writing", anchor |-> Max(Fresh(path)),
                covers  |-> read \cup (IF live THEN notes.covers ELSE {}),
                omitted |-> (old \ read) \cup (IF live THEN notes.omitted ELSE {}),
                calm |-> Unsettled = {} /\ (live => notes.calm)]]
     /\ UNCHANGED <<rows, leaf, notes, deleted, running, turn, nextId, page, edits>>

\* It reads branch and notes, and chooses what to summarise: what has text after the notes'
\* anchor, without the newest keep.  Notes of another branch are dropped.  _transcript gives the
\* model the newest of it that fit its window, one at least; the anchor moves past all of it.
CompactReads(k, keep, fits) ==
  LET path == Branch(LoadActivePath(0))
      live == NotesApply(path)
      old  == Fresh(path) \ Newest(Fresh(path), keep)
      read == Newest(old, fits)
  IN /\ compaction[k].stage = "checked"
     /\ compaction' = [compaction EXCEPT ![k] =
          IF deleted \/ old = {} THEN [NoCompaction EXCEPT !.stage = "over"]
          ELSE [stage |-> "writing", anchor |-> Max(old),
                covers  |-> read \cup (IF live THEN notes.covers ELSE {}),
                omitted |-> (old \ read) \cup (IF live THEN notes.omitted ELSE {}),
                calm |-> Unsettled = {} /\ (live => notes.calm)]]
     /\ UNCHANGED <<rows, leaf, notes, deleted, running, turn, nextId, page, edits>>

\* The model has answered: notes and anchor are stored together.
CompactWrites(k) ==
  /\ compaction[k].stage = "writing"
  /\ notes' = IF deleted THEN notes
              ELSE [text |-> TRUE, anchor |-> compaction[k].anchor,
                    covers |-> compaction[k].covers, omitted |-> compaction[k].omitted,
                    calm |-> compaction[k].calm]
  /\ compaction' = [compaction EXCEPT ![k] = [NoCompaction EXCEPT !.stage = "over"]]
  /\ UNCHANGED <<rows, leaf, deleted, running, turn, nextId, page, edits>>

\* The model failed or wrote nothing.
CompactFails(k) ==
  /\ compaction[k].stage = "writing"
  /\ compaction' = [compaction EXCEPT ![k] = [NoCompaction EXCEPT !.stage = "over"]]
  /\ UNCHANGED <<rows, leaf, notes, deleted, running, turn, nextId, page, edits>>

-----------------------------------------------------------------------------
(* The client's pages, and deletion *)

OpensChat(branch) ==
  /\ ~deleted
  /\ page.got = <<>>
  /\ LET newest == PathPage(IF branch # 0 THEN branch ELSE TipOf, PageLimit)
     IN page' = [got |-> newest.got, next |-> newest.next, calm |-> Unsettled = {}]
  /\ UNCHANGED <<rows, leaf, notes, deleted, running, turn, nextId, compaction, edits>>

OlderPage ==
  /\ ~deleted
  /\ page.next # 0
  /\ LET older == PathPage(page.next, PageLimit)
     IN page' = [page EXCEPT !.got = older.got \o @, !.next = older.next]
  /\ UNCHANGED <<rows, leaf, notes, deleted, running, turn, nextId, compaction, edits>>

\* soft_delete: a running turn and a compaction go on.
Deletes ==
  /\ ~deleted
  /\ deleted' = TRUE
  /\ UNCHANGED <<rows, leaf, notes, running, turn, nextId, compaction, page, edits>>

TurnSteps(t) ==
  \/ \E asked \in 0..nextId - 1 : Prepare(t, asked, FALSE)
  \/ Prepare(t, 0, TRUE)
  \/ Refused(t) \/ Begins(t) \/ Inserts(t) \/ Flushes(t) \/ Ends(t) \/ EndsEarly(t)
  \/ \E text \in {"none", "whole"} : Finalizes(t, text)
  \/ FinalizeFails(t)

CompactSteps(k) ==
  \/ CompactBegins(k)
  \/ \E keep \in 0..1, fits \in 1..MaxIds : CompactReads(k, keep, fits)
  \/ CompactWrites(k)
  \/ CompactFails(k)

ConvNext ==
  \/ \E t \in CTurns : TurnSteps(t)
  \/ \E k \in Compactors : CompactSteps(k)
  \/ Rewrites \/ Forgets
  \/ \E branch \in {0} \cup DOMAIN rows : OpensChat(branch)
  \/ OlderPage
  \/ Deletes

ConvSpec == ConvInit /\ [][ConvNext]_convVars

-----------------------------------------------------------------------------
(* Properties *)

\* A turn is stored one below the message it answers, and was sent that message's branch and
\* nothing else: every message with text is sent, or replaced by notes that were sent, unless
\* there was no room.  A turn that answers none starts a branch and was sent nothing.
ContinuesItsBranch(t) ==
  LET at == turn[t].parent IN
  /\ turn[t].depth = IF at \in DOMAIN rows THEN rows[at].depth + 1 ELSE 0
  /\ turn[t].sent \subseteq Branch(at)
  /\ turn[t].room => \A m \in Branch(at) : HasText(m) => m \in turn[t].sent \cup turn[t].given

\* So it is of every turn prepared while no other was unsettled (nor its notes made beside one),
\* whatever was edited, branched, failed or summarised before, unless it asked for a message
\* that is not stored, or for the leaf of a conversation that has messages but none set.
CalmTurnsContinueTheirBranch ==
  \A t \in CTurns : turn[t].calm /\ ~turn[t].stray => ContinuesItsBranch(t)

\* "Defaults to the conversation's active leaf", and "when that is unset, the deepest node wins,
\* which is the natural tip" (chat.py:559, chats.py:341): a turn that is given no branch point
\* continues the branch that was read for it.
TurnsContinueWhatWasRead == \A t \in CTurns : turn[t].calm => ContinuesItsBranch(t)

\* Notes describe every message with text that they replace in later turns, but for the omitted
\* ones, which a compaction reports by their number (memory.py:51); the newest they replace is
\* always described.
NotesCoverAlways ==
  notes.anchor # 0 =>
    /\ notes.anchor \in notes.covers
    /\ \A m \in Branch(notes.anchor) : HasText(m) => m \in Replaced(notes)

\* They do so, whatever is edited, forgotten, branched, answered or summarised beside it
\* between reading the branch and storing them, when no turn was unsettled as it was read.
NotesCover == notes.calm => NotesCoverAlways

\* "Messages now covered by the memory" (memory.py:49): all that summarized counts, which is every
\* message with text up to the anchor, are described by the notes.
SummarizedAreDescribed ==
  notes.calm /\ notes.anchor # 0 =>
    \A m \in Branch(notes.anchor) : HasText(m) => m \in notes.covers

\* The tree of a conversation and what is summarised of it (memory.py): both of the above.
ConvInv == ConvTypeOK /\ NotesCover

\* The pages a client has joined are one unbroken branch up to its tip, whatever was
\* appended between them, and the cursor is what continues it (when it opened the
\* conversation at rest: a row inserted late can put a root under a message).
PagesJoin ==
  page.got # <<>> =>
    LET chain == Chain[page.got[Len(page.got)]]
        above == Len(chain) - Len(page.got)
    IN /\ above >= 0 /\ page.got = SubSeq(chain, above + 1, Len(chain))
       /\ page.calm => page.next = IF above = 0 THEN 0 ELSE chain[above]
=============================================================================
