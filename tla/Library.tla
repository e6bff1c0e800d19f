------------------------------ MODULE Library ------------------------------
(***************************************************************************)
(* How conversations are organised and listed: the tree of folders         *)
(* (db/repositories/folders.py), tags (tags.py), the flags of a chat and   *)
(* its keyset listing (chats.py), search (search.py), and the sidebar of   *)
(* the client, which loads the list one page at a time                     *)
(* (stores/app.svelte.ts) while the server's rows change under it.         *)
(***************************************************************************)
EXTENDS Naturals, FiniteSets, Sequences, SequencesExt

CONSTANTS
  Folders,       \* folder identifiers
  Tags,          \* tag identifiers
  MaxChats,      \* chats are 1 .. MaxChats, in the order of their ids
  MaxClock,      \* bound: values the millisecond clock takes
  MaxShelving,   \* bound: changes made to folders, tags and chats
  Filters,       \* what the sidebar may be asked to list
  PageSize,      \* chats or hits of one page
  MessageHits,   \* messages that match the query: <<created_at, id>>
  Nobody         \* no folder, tag, cursor or request

Chats == 1 .. MaxChats

ASSUME LibraryAssumption ==
  /\ MaxChats \in Nat /\ MaxClock \in Nat /\ MaxShelving \in Nat
  /\ PageSize \in Nat \ {0}
  /\ Nobody \notin Folders \cup Tags
  /\ Nobody \notin Nat \X Nat /\ Nobody \notin Nat \X Nat \X Nat
  /\ {"root", "absent"} \cap Folders = {}
  /\ Filters \subseteq [archived : BOOLEAN, folder : Folders \cup {Nobody}, tag : Tags \cup {Nobody}]
  /\ IsFiniteSet(MessageHits) /\ MessageHits \subseteq Nat \X Nat
  /\ \A h \in MessageHits : h[2] \notin Chats /\ \A g \in MessageHits : g[2] = h[2] => g = h

VARIABLES
  parent,    \* folder -> its parent: a folder, "root", or "absent"
  tags,      \* the tags that exist
  chat,      \* chat -> {} or the set of its one row
  clock,     \* now_ms, and how many changes have been made
  sidebar,   \* the client's list
  walk       \* a search being paged through

libraryVars == <<parent, tags, chat, clock, sidebar, walk>>

----------------------------------------------------------------------------
\* Folders.

Exists(f) == parent[f] # "absent"
Parents == {"root"} \cup {f \in Folders : Exists(f)}
Shelf == {Nobody} \cup {f \in Folders : Exists(f)}

\* A folder and all that is below it, what ON DELETE CASCADE removes: the folders of
\* every set that has this one and, with a folder, those whose parent it is.
Subtree(f) ==
  {g \in Folders : \A s \in SUBSET Folders :
     f \in s /\ (\A h \in Folders : parent[h] \in s => h \in s) => g \in s}

MayShelve == clock.changes < MaxShelving

Ticks(tick) == clock' = [now |-> clock.now + tick, changes |-> clock.changes + 1]

Changed(c) ==
  /\ sidebar' = [sidebar EXCEPT !.moved = @ \cup {c}, !.request.moved = @ \cup {c}]
  /\ walk' = [walk EXCEPT !.moved = @ \cup {c}]

Shelves == MayShelve /\ Ticks(0) /\ UNCHANGED <<sidebar, walk>>

CreatesFolder(f, p) ==
  /\ Shelves
  /\ ~Exists(f)
  /\ p \in Parents
  /\ parent' = [parent EXCEPT ![f] = p]
  /\ UNCHANGED <<tags, chat>>

\* The new parent is looked up, and that is all that is asked of it.
MovesFolder(f, p) ==
  /\ Shelves
  /\ Exists(f)
  /\ p \in Parents
  /\ parent' = [parent EXCEPT ![f] = p]
  /\ UNCHANGED <<tags, chat>>

\* chat.folder_id is set to null for every folder the cascade removes.
Detached(gone) ==
  [c \in Chats |-> {[r EXCEPT !.folder = IF @ \in gone THEN Nobody ELSE @] : r \in chat[c]}]

DeletesFolder(f) ==
  LET gone == Subtree(f)
      hit == {c \in Chats : \E r \in chat[c] : r.folder \in gone}
  IN /\ MayShelve /\ Ticks(0)
     /\ Exists(f)
     /\ parent' = [g \in Folders |-> IF g \in gone THEN "absent" ELSE parent[g]]
     /\ chat' = Detached(gone)
     /\ sidebar' = [sidebar EXCEPT !.moved = @ \cup hit, !.request.moved = @ \cup hit]
     /\ UNCHANGED <<tags, walk>>

\* The names given to two new tags differ (create_tag refuses a name in use).
CreatesTag(t) ==
  /\ Shelves
  /\ t \notin tags
  /\ tags' = tags \cup {t}
  /\ UNCHANGED <<parent, chat>>

DeletesTag(t) ==
  LET hit == {c \in Chats : \E r \in chat[c] : t \in r.tags}
  IN /\ MayShelve /\ Ticks(0)
     /\ t \in tags
     /\ tags' = tags \ {t}
     /\ chat' = [c \in Chats |-> {[r EXCEPT !.tags = @ \ {t}] : r \in chat[c]}]
     /\ sidebar' = [sidebar EXCEPT !.moved = @ \cup hit, !.request.moved = @ \cup hit]
     /\ UNCHANGED <<parent, walk>>

----------------------------------------------------------------------------
\* Chats.

CreatesChat(c, f, tick) ==
  /\ MayShelve /\ Ticks(tick)
  /\ clock.now + tick <= MaxClock
  /\ chat[c] = {} /\ \A d \in Chats : d < c => chat[d] # {}
  /\ f \in Shelf
  /\ chat' = [chat EXCEPT ![c] = {[pinned |-> FALSE, archived |-> FALSE, folder |-> f,
                                   tags |-> {}, stamp |-> clock.now + tick, deleted |-> FALSE]}]
  /\ Changed(c)
  /\ UNCHANGED <<parent, tags>>

Live(c) == \E r \in chat[c] : ~r.deleted

\* A row as it is to be, with the time of the change.
Rewrites(c, tick, now) ==
  /\ MayShelve /\ Ticks(tick)
  /\ clock.now + tick <= MaxClock
  /\ Live(c)
  /\ chat' = [chat EXCEPT ![c] = {[r EXCEPT !.stamp = clock.now + tick] : r \in now}]
  /\ Changed(c)
  /\ UNCHANGED <<parent, tags>>

\* A turn that starts or ends stamps the row; so does every patch.
UsesChat(c, tick) == Rewrites(c, tick, chat[c])
PinsChat(c, tick) == Rewrites(c, tick, {[r EXCEPT !.pinned = ~@] : r \in chat[c]})
ArchivesChat(c, tick) == Rewrites(c, tick, {[r EXCEPT !.archived = ~@] : r \in chat[c]})
FilesChat(c, f, tick) ==
  /\ f \in Shelf
  /\ Rewrites(c, tick, {[r EXCEPT !.folder = f] : r \in chat[c]})
DeletesChat(c, tick) == Rewrites(c, tick, {[r EXCEPT !.deleted = TRUE] : r \in chat[c]})

Tagged(c, t, now) ==
  /\ MayShelve /\ Ticks(0)
  /\ Live(c) /\ t \in tags
  /\ chat' = [chat EXCEPT ![c] = {[r EXCEPT !.tags = now] : r \in @}]
  /\ Changed(c)
  /\ UNCHANGED <<parent, tags>>

AttachesTag(c, t) == \E r \in chat[c] : t \notin r.tags /\ Tagged(c, t, r.tags \cup {t})
DetachesTag(c, t) == \E r \in chat[c] : t \in r.tags /\ Tagged(c, t, r.tags \ {t})

----------------------------------------------------------------------------
\* The keyset listing.

Key(c) == LET r == CHOOSE r \in chat[c] : TRUE
          IN <<IF r.pinned THEN 1 ELSE 0, r.stamp, c>>

\* Mutant: two rows with one timestamp are one position.
Below_NoTieBreak(x, y) == \E i \in 1 .. Len(x) - 1 : x[i] < y[i] /\ \A j \in 1 .. i - 1 : x[j] = y[j]

\* A row-value comparison of two ordering tuples of one length.
Below(x, y) == \E i \in DOMAIN x : x[i] < y[i] /\ \A j \in 1 .. i - 1 : x[j] = y[j]

Listed(c, filter) ==
  \E r \in chat[c] : /\ ~r.deleted
                     /\ r.archived = filter.archived
                     /\ filter.folder \in {Nobody, r.folder}
                     /\ filter.tag = Nobody \/ filter.tag \in r.tags

\* ORDER BY: each key once, and none before one that it is below.
Newest(keys) ==
  CHOOSE s \in [1 .. Cardinality(keys) -> keys] :
    \A i, j \in DOMAIN s : i < j => s[i] # s[j] /\ ~Below(s[i], s[j])

\* The keys of one page, newest first, and the cursor of the next one.
Paged(keys, cursor, limit) ==
  LET sorted == Newest({k \in keys : cursor = Nobody \/ Below(k, cursor)})
      page == SubSeq(sorted, 1, IF Len(sorted) < limit THEN Len(sorted) ELSE limit)
  IN [keys |-> page, next |-> IF Len(sorted) > limit THEN Last(page) ELSE Nobody]

ListPage(filter, cursor) ==
  LET page == Paged({Key(c) : c \in {d \in Chats : Listed(d, filter)}}, cursor, PageSize)
  IN [items |-> [i \in DOMAIN page.keys |-> page.keys[i][3]], next |-> page.next]

----------------------------------------------------------------------------
\* The sidebar.  "shown" are the filters whose pages are in the list, "moved"
\* the chats whose rows changed since the first of those pages was read.

NoRequest ==
  [stage |-> "none", reset |-> FALSE, filter |-> Nobody, cursor |-> Nobody,
   items |-> <<>>, next |-> Nobody, moved |-> {}]

LibraryInit ==
  /\ parent = [f \in Folders |-> "absent"]
  /\ tags = {}
  /\ chat = [c \in Chats |-> {}]
  /\ clock = [now |-> 0, changes |-> 0]
  /\ \E filter \in Filters :
       sidebar = [filter |-> filter, items |-> <<>>, cursor |-> Nobody, shown |-> {},
                  moved |-> {}, request |-> NoRequest]
  /\ walk = [on |-> FALSE, cursor |-> Nobody, got |-> <<>>, done |-> FALSE, moved |-> {}]

\* loadChats: nothing while a load is under way.
Loads(filter, reset) ==
  sidebar' = [sidebar EXCEPT
    !.filter = filter,
    !.request = IF @.stage # "none" THEN @
                ELSE [NoRequest EXCEPT !.stage = "sent", !.reset = reset, !.filter = filter,
                                       !.cursor = IF reset THEN Nobody ELSE sidebar.cursor]]

\* setChatFilter, and a reload of the same filter.
SetsFilter(filter) ==
  /\ Loads(filter, TRUE)
  /\ UNCHANGED <<parent, tags, chat, clock, walk>>

\* The end of the list comes into view.
LoadsMore ==
  /\ sidebar.request.stage = "none" /\ sidebar.cursor # Nobody
  /\ Loads(sidebar.filter, FALSE)
  /\ UNCHANGED <<parent, tags, chat, clock, walk>>

PageIsRead ==
  LET page == ListPage(sidebar.request.filter, sidebar.request.cursor)
  IN /\ sidebar.request.stage = "sent"
     /\ sidebar' = [sidebar EXCEPT !.request.stage = "read", !.request.items = page.items,
                                   !.request.next = page.next, !.request.moved = {}]
     /\ UNCHANGED <<parent, tags, chat, clock, walk>>

PageArrives ==
  LET r == sidebar.request
  IN /\ r.stage = "read"
     /\ sidebar' = [sidebar EXCEPT
          !.items = IF r.reset THEN r.items ELSE @ \o r.items,
          !.cursor = r.next,
          !.shown = IF r.reset THEN {r.filter} ELSE @ \cup {r.filter},
          !.moved = IF r.reset THEN r.moved ELSE @,
          !.request = NoRequest]
     /\ UNCHANGED <<parent, tags, chat, clock, walk>>

PageFails ==
  /\ sidebar.request.stage # "none"
  /\ sidebar' = [sidebar EXCEPT !.request = NoRequest]
  /\ UNCHANGED <<parent, tags, chat, clock, walk>>

\* chats.filter: what a list is without one of its chats.
Without(items, c) ==
  LET kept == {i \in DOMAIN items : items[i] # c}
  IN [k \in 1 .. Cardinality(kept) |->
        items[CHOOSE i \in kept : Cardinality({j \in kept : j < i}) = k - 1]]

\* A chat this client deleted, or moved off the shelf it shows, leaves its list.
LeavesList(c) ==
  /\ c \in sidebar.moved /\ \E i \in DOMAIN sidebar.items : sidebar.items[i] = c
  /\ \E r \in chat[c] : r.deleted \/ r.archived # sidebar.filter.archived
  /\ sidebar' = [sidebar EXCEPT !.items = Without(@, c)]
  /\ UNCHANGED <<parent, tags, chat, clock, walk>>

----------------------------------------------------------------------------
\* Search: one page merges a page of titles with a page of messages.

SearchStarts ==
  /\ ~walk.on
  /\ walk' = [walk EXCEPT !.on = TRUE]
  /\ UNCHANGED <<parent, tags, chat, clock, sidebar>>

TitleHits == {SubSeq(Key(c), 2, 3) : c \in {d \in Chats : Live(d)}}

SearchPage(cursor, limit) ==
  LET fetch == limit + 1
      messages == Paged(MessageHits, cursor, fetch).keys
      titles == Paged(TitleHits, cursor, fetch).keys
  IN Paged(ToSet(messages) \cup ToSet(titles), Nobody, limit)

SearchGoesOn ==
  LET page == SearchPage(walk.cursor, PageSize)
  IN /\ walk.on /\ ~walk.done
     /\ walk' = [walk EXCEPT !.got = @ \o [i \in DOMAIN page.keys |-> page.keys[i][2]],
                             !.cursor = page.next, !.done = page.next = Nobody,
                             !.moved = IF walk.cursor = Nobody THEN {} ELSE @]
     /\ UNCHANGED <<parent, tags, chat, clock, sidebar>>

----------------------------------------------------------------------------

FolderSteps ==
  \/ \E f \in Folders : \/ \E p \in Folders \cup {"root"} : CreatesFolder(f, p) \/ MovesFolder(f, p)
                        \/ DeletesFolder(f)
  \/ \E t \in Tags : CreatesTag(t) \/ DeletesTag(t)

ChatSteps ==
  \E c \in Chats :
    \/ \E tick \in {0, 1} :
         \/ UsesChat(c, tick) \/ PinsChat(c, tick) \/ ArchivesChat(c, tick) \/ DeletesChat(c, tick)
         \/ \E f \in Folders \cup {Nobody} : CreatesChat(c, f, tick) \/ FilesChat(c, f, tick)
    \/ \E t \in Tags : AttachesTag(c, t) \/ DetachesTag(c, t)

SidebarSteps ==
  \/ \E filter \in Filters : SetsFilter(filter)
  \/ LoadsMore \/ PageIsRead \/ PageArrives \/ PageFails
  \/ \E c \in Chats : LeavesList(c)

SearchSteps == SearchStarts \/ SearchGoesOn

LibraryNext == FolderSteps \/ ChatSteps \/ SidebarSteps \/ SearchSteps
LibrarySpec == LibraryInit /\ [][LibraryNext]_libraryVars

----------------------------------------------------------------------------
\* Properties.

\* Every folder, chat and tag attachment points at a row that exists: deleting
\* a folder removes what is below it and detaches every chat of those folders,
\* deleting a tag detaches it (db/models.py, ON DELETE CASCADE and SET NULL).
LibraryTypeOK ==
  /\ \A f \in Folders : parent[f] \in Folders => Exists(f) /\ Exists(parent[f])
  /\ tags \subseteq Tags
  /\ \A c \in Chats : \A r \in chat[c] :
       /\ r.folder = Nobody \/ Exists(r.folder)
       /\ r.tags \subseteq tags
       /\ r.stamp <= clock.now
  /\ sidebar.filter \in Filters /\ ToSet(sidebar.items) \subseteq Chats

Pages(c) == Cardinality({i \in DOMAIN sidebar.items : sidebar.items[i] = c})

\* A list loaded page by page while rows change shows each chat that did not
\* itself change exactly once when it is exhausted, and never twice before:
\* chats that rise to the top, leave or arrive between two pages do not
\* shift the others across a page boundary (ADR-0007, list_page).
UnchangedChatsAreListedOnce ==
  \A c \in Chats \ sidebar.moved :
    Cardinality(sidebar.shown) = 1 =>
      /\ Pages(c) <= 1
      /\ \A filter \in sidebar.shown :
           sidebar.cursor = Nobody /\ Listed(c, filter) => Pages(c) = 1

\* Paging through a search yields every message that matches, and every title
\* that did not change meanwhile, exactly once (search.py, the over-fetch).
SearchPagesJoin ==
  walk.done =>
    \A id \in {h[2] : h \in MessageHits} \cup {c \in Chats \ walk.moved : Live(c)} :
      Cardinality({i \in DOMAIN walk.got : walk.got[i] = id}) = 1

\* Rows, pages and pointers stay joined whatever changes between two of them: all of the above.
LibraryInv == LibraryTypeOK /\ UnchangedChatsAreListedOnce /\ SearchPagesJoin

\* "Folders organize the chat sidebar into a tree" (folders.py): no folder is
\* below itself.
FoldersFormATree ==
  \A f \in Folders : Exists(f) => \A g \in Folders : parent[f] = g => g \notin Subtree(f)

\* "Switch which shelf, folder or tag the sidebar lists, and reload it"
\* (setChatFilter): with no load under way, what is listed is what was asked for.
FilterIsListed ==
  sidebar.request.stage = "none" /\ sidebar.shown # {} => sidebar.shown = {sidebar.filter}
=============================================================================
