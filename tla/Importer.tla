------------------------------- MODULE Importer -------------------------------
(***************************************************************************)
(* velox import openwebui (services/importers/openwebui.py, cli.py): one   *)
(* transaction turns an export into chats whose messages form trees.  An   *)
(* entry is a record                                                       *)
(*   [id, titled, chat, flat, nodes, current, folder, tags]                *)
(* where id may be Absent, chat is "object" or "other" (null, a list), flat  *)
(* tells the legacy shape from history.messages, and a node is             *)
(*   [id, parent, stamp, role]                                             *)
(* with the position it has in the export; stamp is 0 when it has none and *)
(* role says whether it has one.  Contents, models and times are left out. *)
(***************************************************************************)
EXTENDS Integers, Sequences, FiniteSets

CONSTANTS
  Exports,     \* the exports that are imported: sequences of entries
  SourceIds,   \* what entries, messages and folders are called in them
  TagNames,
  FolderNames, \* folder ids that the --folders file gives a name
  Absent,
  MaxChats     \* bound: chats ever created by imports

ExportNode ==
  [id : SourceIds, parent : SourceIds \cup {Absent}, stamp : Nat, role : BOOLEAN]

ExportEntry ==
  [id : SourceIds \cup {Absent}, titled : BOOLEAN, chat : {"object", "other"}, flat : BOOLEAN,
   nodes : Seq(ExportNode), current : SourceIds \cup {Absent}, folder : SourceIds \cup {Absent},
   tags : SUBSET TagNames]

\* The messages of a history are the values of an object, by their ids.
NamesOnce(nodes) == \A i, j \in DOMAIN nodes : nodes[i].id = nodes[j].id => i = j

ASSUME ImportAssumption ==
  /\ Absent \notin SourceIds
  /\ \A export \in Exports :
       export \in Seq(ExportEntry) /\ \A n \in DOMAIN export : NamesOnce(export[n].nodes)

VARIABLES
  imported,  \* the chats, in order of creation: of (their entry), tree, leaf, folder, live
  folders,   \* how many folders the imports have created
  tags,      \* the names of the user's tags
  report     \* of the last run: how many chats it created and how many entries it skipped

importVars == <<imported, folders, tags, report>>

ImportInit == imported = <<>> /\ folders = 0 /\ tags = {} /\ report = [created |-> 0, skipped |-> 0]

-----------------------------------------------------------------------------
(* Reading an entry.                                                       *)

\* Where the messages are that have a role.
Kept(entry) == {i \in DOMAIN entry.nodes : entry.nodes[i].role}

\* sorted(): history.messages by their timestamps, equal ones in the order of the file; the
\* legacy list stays as it is.
SortsBefore(entry, i, j) ==
  LET nodes == entry.nodes
  IN \/ ~entry.flat /\ nodes[i].stamp < nodes[j].stamp
     \/ (entry.flat \/ nodes[i].stamp = nodes[j].stamp) /\ i < j

\* The message that k - 1 others come before.
Nth(entry, k) ==
  CHOOSE i \in Kept(entry) : Cardinality({j \in Kept(entry) : SortsBefore(entry, j, i)}) = k - 1

\* _parse_tree; in the legacy list each message answers the one before it.
Nodes(entry) ==
  [k \in 1 .. Cardinality(Kept(entry)) |->
     LET node == entry.nodes[Nth(entry, k)]
     IN IF ~entry.flat THEN node
        ELSE [node EXCEPT !.parent = IF k = 1 THEN Absent ELSE entry.nodes[Nth(entry, k - 1)].id]]

Malformed(entry) == entry.id = Absent \/ Kept(entry) = {}

\* The report of a malformed entry asks its chat for a title, whatever the chat is.
Aborts(entry) == Malformed(entry) /\ ~entry.titled /\ entry.chat = "other"

-----------------------------------------------------------------------------
(* Writing a chat.                                                         *)

NoMessages == [m \in {} |-> [parent |-> Absent, depth |-> 0]]

\* append_message; a parent that has not been written yet is no parent.
Planted(tree, node) ==
  LET known == node.parent \in DOMAIN tree
      row == [parent |-> IF known THEN node.parent ELSE Absent,
              depth  |-> IF known THEN tree[node.parent].depth + 1 ELSE 0]
  IN [m \in DOMAIN tree \cup {node.id} |-> IF m = node.id THEN row ELSE tree[m]]

\* One message after another.
Grown(nodes) ==
  LET tree[k \in 0 .. Len(nodes)] ==
        IF k = 0 THEN NoMessages ELSE Planted(tree[k - 1], nodes[k])
  IN tree[Len(nodes)]

Leaf(entry) ==
  LET nodes == Nodes(entry)
  IN IF ~entry.flat /\ \E k \in DOMAIN nodes : nodes[k].id = entry.current
     THEN entry.current
     ELSE nodes[Len(nodes)].id

NewChat(entry, folder) ==
  [of |-> entry, tree |-> Grown(Nodes(entry)), leaf |-> Leaf(entry),
   folder |-> folder, live |-> TRUE]

\* What a run has: the sources it knows (already_imported), the folder of each name, and so on.
Skipped(run) == [run EXCEPT !.skipped = @ + 1]

\* The folders of a run by their names, with the one of this entry.
Filed(run, entry) ==
  IF entry.folder \in FolderNames \ DOMAIN run.folderIds
  THEN [f \in DOMAIN run.folderIds \cup {entry.folder} |->
          IF f = entry.folder THEN run.folders + 1 ELSE run.folderIds[f]]
  ELSE run.folderIds

\* Mutant: the source of a chat that was just created is not remembered.
Taken_Forgotten(run, entry) ==
  LET ids == Filed(run, entry)
      folder == IF entry.folder \in FolderNames THEN ids[entry.folder] ELSE 0
  IN [chats |-> Append(run.chats, NewChat(entry, folder)),
      folders |-> IF ids = run.folderIds THEN run.folders ELSE run.folders + 1,
      folderIds |-> ids, seen |-> run.seen, tags |-> run.tags \cup entry.tags,
      created |-> run.created + 1, skipped |-> run.skipped]

\* The chat of an entry, in the folder this run made for that name, with its tags.
Taken(run, entry) ==
  LET ids == Filed(run, entry)
      folder == IF entry.folder \in FolderNames THEN ids[entry.folder] ELSE 0
  IN [chats |-> Append(run.chats, NewChat(entry, folder)),
      folders |-> IF ids = run.folderIds THEN run.folders ELSE run.folders + 1,
      folderIds |-> ids, seen |-> run.seen \cup {entry.id}, tags |-> run.tags \cup entry.tags,
      created |-> run.created + 1, skipped |-> run.skipped]

OneEntry(run, entry) ==
  IF Malformed(entry) \/ entry.id \in run.seen THEN Skipped(run) ELSE Taken(run, entry)

LiveSources == {imported[k].of.id : k \in {i \in DOMAIN imported : imported[i].live}}

RunBegins ==
  [chats |-> imported, folders |-> folders, folderIds |-> [f \in {} |-> 0],
   seen |-> LiveSources, tags |-> tags, created |-> 0, skipped |-> 0]

\* import_export: what the whole run leaves behind.
Outcome(export) ==
  LET run[n \in 0 .. Len(export)] ==
        IF n = 0 THEN RunBegins ELSE OneEntry(run[n - 1], export[n])
  IN run[Len(export)]

-----------------------------------------------------------------------------

Imports ==
  \E export \in Exports :
    LET run == Outcome(export)
    IN /\ \A k \in DOMAIN export : ~Aborts(export[k])
       /\ Len(run.chats) <= MaxChats
       /\ imported' = run.chats
       /\ folders' = run.folders
       /\ tags' = run.tags
       /\ report' = [created |-> run.created, skipped |-> run.skipped]

\* An exception ends the command and rolls its transaction back.
ImportAborts ==
  /\ \E export \in Exports : \E k \in DOMAIN export : Aborts(export[k])
  /\ report' = [created |-> 0, skipped |-> 0]
  /\ UNCHANGED <<imported, folders, tags>>

\* The user deletes an imported chat (deleted_at): its source may be imported again.
DeletesImported ==
  /\ \E k \in DOMAIN imported :
       /\ imported[k].live
       /\ imported' = [imported EXCEPT ![k].live = FALSE]
  /\ UNCHANGED <<folders, tags, report>>

ImportNext == Imports \/ ImportAborts \/ DeletesImported

ImportSpec == ImportInit /\ [][ImportNext]_importVars

-----------------------------------------------------------------------------
(* Properties.                                                             *)

\* "Importing the same export twice is a no-op the second time" (import_export): no two live
\* chats have one source, whether the runs repeat it or a file does.
ImportedOnce ==
  \A i, j \in DOMAIN imported :
    imported[i].live /\ imported[j].live /\ imported[i].of.id = imported[j].of.id => i = j

\* A tree in which every message comes after its parent, by its timestamp or by its place in
\* the file, is taken over link by link; the legacy list becomes one branch; and the chat
\* opens where the export says.
ShapeIsKept(entry, tree, leaf) ==
  LET nodes == entry.nodes
      kept == {i \in DOMAIN nodes : nodes[i].role}
      ids == {nodes[i].id : i \in kept}
      Follows(i, j) == nodes[j].stamp < nodes[i].stamp \/ (nodes[j].stamp = nodes[i].stamp /\ j < i)
      orderly == \A i, j \in kept : nodes[i].parent = nodes[j].id => Follows(i, j)
  IN /\ DOMAIN tree = ids /\ leaf \in ids
     /\ entry.current \in ids /\ ~entry.flat => leaf = entry.current
     /\ orderly /\ ~entry.flat => \A i \in kept :
          tree[nodes[i].id].parent = IF nodes[i].parent \in ids THEN nodes[i].parent ELSE Absent
     /\ entry.flat => \A i \in kept :
          tree[nodes[i].id].depth = Cardinality({j \in kept : j < i})

TreesKeepTheirShape ==
  \A k \in DOMAIN imported :
    ShapeIsKept(imported[k].of, imported[k].tree, imported[k].leaf)

\* Conversations come over once and whole (services/importers/openwebui.py): both of the above.
ImportsKeepChats == ImportedOnce /\ TreesKeepTheirShape

\* "the mapping is structural rather than a reinterpretation" (openwebui.py:9): a message
\* with a parent in the export has it in the chat, whatever the two timestamps are.
ParentsAreKept ==
  \A k \in DOMAIN imported :
    LET chat == imported[k]
    IN ~chat.of.flat => \A i, j \in DOMAIN chat.of.nodes :
         chat.of.nodes[i].parent = chat.of.nodes[j].id /\ chat.of.nodes[j].role
           => chat.tree[chat.of.nodes[i].id].parent = chat.of.nodes[j].id
=============================================================================
