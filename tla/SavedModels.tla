------------------------------ MODULE SavedModels ------------------------------
(***************************************************************************)
(* Custom models and favourites.  The rows of custom models, written by    *)
(* their owners (api/routes/custom_models.py, db/repositories              *)
(* custom_models.py); one person's client, which lists them, starts a      *)
(* conversation from one and creates its chat with the first message       *)
(* (conversation.svelte.ts: startFromCustomModel, reset, open, and send up *)
(* to the turn); and the same person's starred models, set at once on the  *)
(* screen and then by a request (app.svelte.ts, favorite_models.py).       *)
(*                                                                         *)
(* Prompt, parameters, knowledge and tools of a custom model are one       *)
(* preset.  Two creations may overlap, as they do on PostgreSQL.  Nobody   *)
(* edits the prompt of a conversation here, and a turn that still runs     *)
(* when its chat is opened does not keep the composer from sending.        *)
(***************************************************************************)
EXTENDS Naturals, FiniteSets

CONSTANTS
  Owners, Viewer,  \* accounts, and the one whose client is followed
  Slugs, Presets,
  Plain,           \* no preset
  Sends,           \* calls of send() at a time
  Toggles, Refs,   \* calls of toggleFavoriteModel at a time, models to star
  MaxModels,       \* bound: custom models created
  MaxStarted       \* bound: chats created

ASSUME SavedAssumption ==
  /\ Viewer \in Owners
  /\ Plain \notin Presets
  /\ MaxModels \in Nat /\ MaxStarted \in Nat

VARIABLES
  custom,    \* rows of custom_model by id: the empty set, or the one row
  numbered,  \* custom models created so far
  creating,  \* owners whose create has looked its slug up, and the slug
  panel,     \* what the client's panel lists
  draft,     \* the conversation on the screen
  opening,   \* chats asked for to be put on the screen
  send,      \* each call of send()
  chats,     \* rows of chat by id, with how their first turn went
  starred,   \* the viewer's rows of favorite_model
  stars,     \* the stars on the screen
  toggle,    \* each call of toggleFavoriteModel()
  overlapped \* toggles overlapped, or one's answer was lost, since the stars were loaded

modelVars == <<custom, numbered, creating, panel, draft, opening, send, chats>>
starVars == <<starred, stars, toggle, overlapped>>
savedVars == <<custom, numbered, creating, panel, draft, opening, send, chats,
               starred, stars, toggle, overlapped>>

Ids == 1..MaxModels
Chosen == Presets \cup {Plain}
Visibilities == {"private", "shared", "public"}
CustomModel == [owner : Owners, slug : Slugs, visibility : Visibilities, preset : Presets]
Listing == [id : Ids, owner : Owners, visibility : Visibilities, preset : Presets]
\* A chat: its custom model (0 is none), the prompt it was created with, the preset chosen for
\* its first turn and the one that turn had, and whether another message got in between.
Chat == [model : 0..MaxModels, prompt : Chosen, start : Chosen,
         first : {"none"} \cup Chosen, disturbed : BOOLEAN]
\* The conversation store: the chat (0 is none yet), the pending custom model, the prompt the
\* screen shows, whether a reply streams, and whether a chat of another draft landed in it.
Draft == [chat : 0..MaxStarted, pending : 0..MaxModels, preset : Chosen, shows : Chosen,
          streaming : BOOLEAN, mixed : BOOLEAN]
Send == [stage : {"idle", "creating", "created", "listing", "asked"}, model : 0..MaxModels,
         preset : Chosen, prompt : Chosen, chat : 0..MaxStarted, ours : BOOLEAN]
Toggle == [stage : {"idle"}] \cup
          [stage : {"sent", "set"}, ref : Refs, on : BOOLEAN, before : SUBSET Refs, reply : SUBSET Refs]

SavedTypeOK ==
  /\ custom \in [Ids -> SUBSET CustomModel] /\ \A i \in Ids : \A m, n \in custom[i] : m = n
  /\ numbered \in 0..MaxModels
  /\ creating \in [Owners -> SUBSET Slugs]
  /\ panel \subseteq Listing
  /\ draft \in Draft /\ opening \subseteq 1..MaxStarted
  /\ send \in [Sends -> Send]
  /\ chats \in [1..MaxStarted -> SUBSET Chat] /\ \A c \in 1..MaxStarted : \A q, r \in chats[c] : q = r
  /\ starred \subseteq Refs /\ stars \subseteq Refs
  /\ toggle \in [Toggles -> Toggle]
  /\ overlapped \in BOOLEAN

NoDraft == [chat |-> 0, pending |-> 0, preset |-> Plain, shows |-> Plain,
            streaming |-> FALSE, mixed |-> FALSE]
NoSend == [stage |-> "idle", model |-> 0, preset |-> Plain, prompt |-> Plain, chat |-> 0,
           ours |-> FALSE]
NoToggle == [stage |-> "idle"]

SavedInit ==
  /\ custom = [i \in Ids |-> {}] /\ numbered = 0
  /\ creating = [u \in Owners |-> {}]
  /\ panel = {} /\ draft = NoDraft /\ opening = {}
  /\ send = [s \in Sends |-> NoSend]
  /\ chats = [c \in 1..MaxStarted |-> {}]
  /\ starred = {} /\ stars = {}
  /\ toggle = [t \in Toggles |-> NoToggle]
  /\ overlapped = FALSE

-----------------------------------------------------------------------------
(* The rows *)

Named(slug) == \E i \in Ids : \E m \in custom[i] : m.slug = slug

\* create_custom_model: the slug is looked up ...
CreateChecks(u, slug) ==
  /\ creating[u] = {}
  /\ ~Named(slug)
  /\ creating' = [creating EXCEPT ![u] = {slug}]
  /\ UNCHANGED <<custom, numbered, panel, draft, opening, send, chats>>

\* ... and the row inserted, unless one with the slug came first: slugs are unique.
CreateInserts(u, visibility, preset) ==
  /\ numbered < MaxModels
  /\ \E slug \in creating[u] :
       /\ ~Named(slug)
       /\ custom' = [custom EXCEPT ![numbered + 1] =
            {[owner |-> u, slug |-> slug, visibility |-> visibility, preset |-> preset]}]
  /\ numbered' = numbered + 1
  /\ creating' = [creating EXCEPT ![u] = {}]
  /\ UNCHANGED <<panel, draft, opening, send, chats>>

CreateFails(u) ==
  /\ creating[u] # {}
  /\ creating' = [creating EXCEPT ![u] = {}]
  /\ UNCHANGED <<custom, numbered, panel, draft, opening, send, chats>>

\* update: the fields that were given, of the caller's row.
Updates(u, i, visibility, preset) ==
  /\ \E m \in custom[i] :
       /\ m.owner = u
       /\ custom' = [custom EXCEPT ![i] = {[m EXCEPT !.visibility = visibility, !.preset = preset]}]
  /\ UNCHANGED <<numbered, creating, panel, draft, opening, send, chats>>

\* delete: chats started from the row keep no reference to it (ON DELETE SET NULL).
Forgetting(i) ==
  [c \in 1..MaxStarted |-> {IF r.model = i THEN [r EXCEPT !.model = 0] ELSE r : r \in chats[c]}]

DeletesModel(u, i) ==
  /\ \E m \in custom[i] : m.owner = u
  /\ custom' = [custom EXCEPT ![i] = {}]
  /\ chats' = Forgetting(i)
  /\ UNCHANGED <<numbered, creating, panel, draft, opening, send>>

\* list_visible: the caller's own, and what others shared or published.
Visible(u) ==
  {l \in Listing : \E m \in custom[l.id] :
     /\ l.owner = m.owner /\ l.visibility = m.visibility /\ l.preset = m.preset
     /\ m.owner = u \/ m.visibility \in {"shared", "public"}}

PanelLoads ==
  /\ panel' = Visible(Viewer)
  /\ UNCHANGED <<custom, numbered, creating, draft, opening, send, chats>>

-----------------------------------------------------------------------------
(* A conversation from a custom model *)

\* The draft a call of send() began with leaves the screen.
Detached == [s \in Sends |-> [send[s] EXCEPT !.ours = FALSE]]

\* reset
ResetsDraft ==
  /\ draft' = NoDraft
  /\ send' = Detached
  /\ UNCHANGED <<custom, numbered, creating, panel, opening, chats>>

\* startFromCustomModel: reset, and the preset as it was listed.
StartsFrom(l) ==
  /\ l \in panel
  /\ draft' = [NoDraft EXCEPT !.pending = l.id, !.preset = l.preset, !.shows = l.preset]
  /\ send' = Detached
  /\ UNCHANGED <<custom, numbered, creating, panel, opening, chats>>

\* open: the conversation on the screen is left at once, though it stays there until the chat of
\* the list has been read; a pending custom model is not looked at while there is a chat.
OpenBegins(c) ==
  /\ chats[c] # {}
  /\ opening' = opening \cup {c}
  /\ draft' = [draft EXCEPT !.streaming = FALSE]
  /\ send' = Detached
  /\ UNCHANGED <<custom, numbered, creating, panel, chats>>

OpensChat(c) ==
  /\ c \in opening
  /\ \E r \in chats[c] : draft' = [draft EXCEPT !.chat = c, !.shows = r.prompt, !.mixed = FALSE]
  /\ opening' = opening \ {c}
  /\ send' = Detached
  /\ UNCHANGED <<custom, numbered, creating, panel, chats>>

OpenFails(c) ==
  /\ c \in opening
  /\ opening' = opening \ {c}
  /\ UNCHANGED <<custom, numbered, creating, panel, draft, send, chats>>

Disturbed(c) == [chats EXCEPT ![c] = {[r EXCEPT !.disturbed = TRUE] : r \in chats[c]}]

\* send: without a chat, one is created first, and the composer can send again meanwhile.
SendBegins(s) ==
  /\ send[s].stage = "idle" /\ ~draft.streaming /\ draft.chat = 0
  /\ send' = [send EXCEPT ![s] =
       [stage |-> "creating", model |-> draft.pending, preset |-> draft.preset,
        prompt |-> draft.shows, chat |-> 0, ours |-> TRUE]]
  /\ UNCHANGED <<custom, numbered, creating, panel, draft, opening, chats>>

\* With a chat the message goes as it is: the pending custom model is not looked at.
SendContinues(s) ==
  /\ send[s].stage = "idle" /\ ~draft.streaming /\ draft.chat # 0
  /\ send' = [send EXCEPT ![s] = [NoSend EXCEPT !.stage = "asked", !.chat = draft.chat,
                                                !.ours = TRUE]]
  /\ draft' = [draft EXCEPT !.streaming = TRUE]
  /\ chats' = Disturbed(draft.chat)
  /\ UNCHANGED <<custom, numbered, creating, panel, opening>>

\* create_chat: the custom model has to exist still, the chat refers to it.
ChatIsCreated(s) ==
  /\ send[s].stage = "creating"
  /\ send[s].model # 0 => custom[send[s].model] # {}
  /\ \E c \in 1..MaxStarted :
       /\ chats[c] = {} /\ \A d \in 1..MaxStarted : d < c => chats[d] # {}
       /\ chats' = [chats EXCEPT ![c] =
            {[model |-> send[s].model, prompt |-> send[s].prompt, start |-> send[s].preset,
              first |-> "none", disturbed |-> FALSE]}]
       /\ send' = [send EXCEPT ![s].stage = "created", ![s].chat = c]
  /\ UNCHANGED <<custom, numbered, creating, panel, draft, opening>>

\* The request fails: the pending custom model stays.
ChatIsRefused(s) ==
  /\ send[s].stage = "creating"
  /\ send' = [send EXCEPT ![s] = NoSend]
  /\ UNCHANGED <<custom, numbered, creating, panel, draft, opening, chats>>

\* The answer: whatever conversation is on the screen by now, it is this chat's.
ChatArrives(s) ==
  /\ send[s].stage = "created"
  /\ draft' = [draft EXCEPT !.chat = send[s].chat, !.pending = 0, !.preset = Plain,
                            !.mixed = @ \/ ~send[s].ours]
  /\ send' = [send EXCEPT ![s].stage = "listing"]
  /\ UNCHANGED <<custom, numbered, creating, panel, opening, chats>>

\* The list has been loaded: the turn is asked for, with the preset send began with.
Asks(s) ==
  /\ send[s].stage = "listing"
  /\ draft' = [draft EXCEPT !.streaming = TRUE]
  /\ send' = [send EXCEPT ![s].stage = "asked"]
  /\ UNCHANGED <<custom, numbered, creating, panel, opening, chats>>

\* Mutant: the preset is read when the turn is asked for, and the answer has cleared it by then.
TurnBegins_Cleared(s) ==
  /\ send[s].stage = "asked"
  /\ chats' = [chats EXCEPT ![send[s].chat] =
       {IF r.first = "none" THEN [r EXCEPT !.first = draft.preset] ELSE r :
          r \in chats[send[s].chat]}]
  /\ draft' = [draft EXCEPT !.streaming = FALSE]
  /\ send' = [send EXCEPT ![s] = NoSend]
  /\ UNCHANGED <<custom, numbered, creating, panel, opening>>

\* The turn begins on the server; the screen reads it to its end.
TurnBegins(s) ==
  /\ send[s].stage = "asked"
  /\ chats' = [chats EXCEPT ![send[s].chat] =
       {IF r.first = "none" THEN [r EXCEPT !.first = send[s].preset] ELSE r :
          r \in chats[send[s].chat]}]
  /\ draft' = [draft EXCEPT !.streaming = FALSE]
  /\ send' = [send EXCEPT ![s] = NoSend]
  /\ UNCHANGED <<custom, numbered, creating, panel, opening>>

\* The request for the turn fails: the chat is there, its first turn is the next message's.
TurnIsRefused(s) ==
  /\ send[s].stage = "asked"
  /\ chats' = Disturbed(send[s].chat)
  /\ draft' = [draft EXCEPT !.streaming = FALSE]
  /\ send' = [send EXCEPT ![s] = NoSend]
  /\ UNCHANGED <<custom, numbered, creating, panel, opening>>

RowSteps ==
  \/ \E u \in Owners :
       \/ \E slug \in Slugs : CreateChecks(u, slug)
       \/ CreateFails(u)
       \/ \E v \in Visibilities, p \in Presets :
            CreateInserts(u, v, p) \/ \E i \in Ids : Updates(u, i, v, p)
       \/ \E i \in Ids : DeletesModel(u, i)
  \/ PanelLoads

DraftSteps ==
  \/ ResetsDraft
  \/ \E l \in panel : StartsFrom(l)
  \/ \E c \in 1..MaxStarted : OpenBegins(c) \/ OpensChat(c) \/ OpenFails(c)
  \/ \E s \in Sends :
       \/ SendBegins(s) \/ SendContinues(s) \/ ChatIsCreated(s) \/ ChatIsRefused(s)
       \/ ChatArrives(s) \/ Asks(s) \/ TurnBegins(s) \/ TurnIsRefused(s)

-----------------------------------------------------------------------------
(* Stars *)

Calling == {t \in Toggles : toggle[t].stage # "idle"}

\* loadFavoriteModels, when a session begins.
StarsLoad ==
  /\ Calling = {}
  /\ stars' = starred
  /\ overlapped' = FALSE
  /\ UNCHANGED <<starred, toggle>>

\* toggleFavoriteModel: at once on the screen, then the request.
Stars(t, r) ==
  /\ toggle[t].stage = "idle"
  /\ toggle' = [toggle EXCEPT ![t] =
       [stage |-> "sent", ref |-> r, on |-> r \notin stars, before |-> stars, reply |-> {}]]
  /\ stars' = IF r \in stars THEN stars \ {r} ELSE stars \cup {r}
  /\ overlapped' = (overlapped \/ Calling # {})
  /\ UNCHANGED starred

\* set_favorite: repeating either is a no-op; the answer is every star.
SetsFavorite(t) ==
  /\ toggle[t].stage = "sent"
  /\ starred' = IF toggle[t].on THEN starred \cup {toggle[t].ref} ELSE starred \ {toggle[t].ref}
  /\ toggle' = [toggle EXCEPT ![t].stage = "set", ![t].reply = starred']
  /\ UNCHANGED <<stars, overlapped>>

StarsAnswered(t) ==
  /\ toggle[t].stage = "set"
  /\ stars' = toggle[t].reply
  /\ toggle' = [toggle EXCEPT ![t] = NoToggle]
  /\ UNCHANGED <<starred, overlapped>>

\* Refused, or the answer lost: the screen goes back to what it showed before.
StarsFail(t) ==
  /\ toggle[t].stage \in {"sent", "set"}
  /\ stars' = toggle[t].before
  /\ overlapped' = (overlapped \/ toggle[t].stage = "set")
  /\ toggle' = [toggle EXCEPT ![t] = NoToggle]
  /\ UNCHANGED starred

StarSteps ==
  \/ StarsLoad
  \/ \E t \in Toggles :
       \/ \E r \in Refs : Stars(t, r)
       \/ SetsFavorite(t) \/ StarsAnswered(t) \/ StarsFail(t)

SavedNext ==
  \/ (RowSteps \/ DraftSteps) /\ UNCHANGED starVars
  \/ StarSteps /\ UNCHANGED modelVars

SavedSpec == SavedInit /\ [][SavedNext]_savedVars

-----------------------------------------------------------------------------
(* Properties *)

\* A slug names one custom model, however creations overlap.
SlugsNameOneModel ==
  \A i, j \in Ids : \A m \in custom[i], n \in custom[j] : m.slug = n.slug => i = j

\* A chat refers to a custom model that exists, whoever deletes it and when.
ChatsKnowTheirModel ==
  \A c \in 1..MaxStarted : \A r \in chats[c] : r.model # 0 => custom[r.model] # {}

\* A chat has the prompt of the preset it was started from, and its first turn carries that
\* preset, unless another message got in between or the first request for it failed.
FirstTurnsCarryThePreset ==
  \A c \in 1..MaxStarted : \A r \in chats[c] :
    r.prompt = r.start /\ (r.first # "none" => r.first = r.start \/ r.disturbed)

\* The prompt on the screen is that of the chat the next message goes to: the pending custom
\* model's before there is one, the chat's from then on, unless the conversation was left
\* while its chat was being created.
ScreenShowsThePrompt ==
  ~draft.mixed =>
    IF draft.chat = 0 THEN draft.shows = draft.preset
    ELSE \A r \in chats[draft.chat] : r.prompt = draft.shows

\* With no toggle under way the stars on the screen are the stored ones, unless toggles
\* overlapped or an answer was lost.
CalmStarsAreStored == Calling = {} /\ ~overlapped => stars = starred

\* Custom models and favourites: all of the above.
SavedInv ==
  /\ SavedTypeOK /\ SlugsNameOneModel /\ ChatsKnowTheirModel
  /\ FirstTurnsCarryThePreset /\ ScreenShowsThePrompt /\ CalmStarsAreStored

\* "Its system prompt and parameter overrides are applied to the first turn, the moment the chat
\* is actually created" (conversation.svelte.ts:230-231): whatever became of a request for it.
PresetsReachTheFirstTurn ==
  \A c \in 1..MaxStarted : \A r \in chats[c] : r.first # "none" => r.first = r.start
================================================================================
