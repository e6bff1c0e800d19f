------------------------------- MODULE MCServices -------------------------------
(***************************************************************************)
(* The services around a turn, on small instances.  They share no state,   *)
(* so each behaviour is one part's and the others stay as they are.  A     *)
(* model value stands for something else in each of them, so that the      *)
(* symmetries of the parts are one small group.                            *)
(***************************************************************************)
EXTENDS ProviderRegistry, SettingsCaches, Knowledge,
        Identifiers, Chunking, Importer, Startup, SavedModels, Uploads, SequencesExt, TLC

CONSTANTS v1, v2, w1, w2, z1, z2, u1, u2, key, kind, operator

VARIABLE part

serviceVars ==
  <<regVars, cacheVars, knowVars, idVars, chunkVars, importVars, startVars,
    savedVars, fileVars, part>>

Symmetric == Permutations({v1, v2}) \cup Permutations({z1, z2})

-----------------------------------------------------------------------------
(* Texts, exports and versions.                                            *)

\* The words of a text, by their lengths.
Total(lengths) == FoldLeft(LAMBDA a, b : a + b, 0, lengths)
TextOf(lengths) ==
  [p \in DOMAIN lengths |->
     [w \in DOMAIN lengths[p] |->
        LET before == Total(FlattenSeq(SubSeq(lengths, 1, p - 1))) + Total(SubSeq(lengths[p], 1, w - 1))
        IN [from |-> before + 1, to |-> before + lengths[p][w]]]]

\* Three paragraphs of one or two words, shorter and as long as a chunk may be.
Paragraphs == {<<x>> : x \in {1, 3, 5}} \cup {<<x, y>> : x \in {1, 3, 5}, y \in {1, 3, 5}}
MCTexts == {TextOf(<<x, y, z>>) : x \in Paragraphs, y \in Paragraphs, z \in Paragraphs}

Node(id, parent, stamp) == [id |-> id, parent |-> parent, stamp |-> stamp, role |-> TRUE]

\* An empty history; a branch, in order and out of order; a reply dated before its
\* question; and a message without a role in the middle of a branch.
NodeLists ==
  {<<>>,
   <<Node("m1", Absent, 1), Node("m2", "m1", 1), Node("m3", "m1", 2)>>,
   <<Node("m2", "m1", 1), Node("m1", Absent, 0)>>,
   <<Node("m1", Absent, 1), Node("m2", "m1", 0)>>,
   <<Node("m1", Absent, 1), [Node("m2", "m1", 1) EXCEPT !.role = FALSE], Node("m3", "m2", 2)>>}

Entries ==
  {[id |-> "s1", titled |-> FALSE, chat |-> "object", flat |-> flat, nodes |-> nodes,
    current |-> "m2", folder |-> "f1", tags |-> {"g"}] : flat \in BOOLEAN, nodes \in NodeLists}
Unreadable ==
  {[id |-> "s2", titled |-> titled, chat |-> "other", flat |-> FALSE, nodes |-> <<>>,
    current |-> Absent, folder |-> Absent, tags |-> {}] : titled \in BOOLEAN}
Second == [(CHOOSE e \in Entries : Len(e.nodes) = 3) EXCEPT !.id = "s2", !.folder = "f2"]

MCExports ==
  {<<e, f>> : e \in Entries \cup {[Second EXCEPT !.id = Absent]}, f \in Entries \cup {Second}}
    \cup {<<Second, e>> : e \in Unreadable}

MCNewest == [i \in Instances |-> IF i = "new" THEN 3 ELSE 2]

-----------------------------------------------------------------------------

Parts ==
  {"editing", "listing", "settings", "knowledge", "ids", "chunks", "imports", "schema", "client",
   "models", "drafts", "stars", "uploads"}

AnyText == CHOOSE t \in Texts : TRUE

MCInit ==
  /\ part \in Parts
  /\ RegInit /\ (part \in {"editing", "listing"} \/ \A p \in Providers : spec[p] = None)
  /\ CachesInit /\ KnowInit
  /\ IdInit /\ (part = "ids" \/ wall = 0)
  /\ ChunkInit /\ (part = "chunks" \/ text = AnyText)
  /\ ImportInit /\ StartInit
  /\ SavedInit /\ UploadsInit

\* While listings and operations race, one administrator edits one backend without a key.
OneAtATime ==
  /\ Cardinality({a \in Admins : edit'[a].op # "none"}) <= 1
  /\ \A a \in Admins : edit'[a].op \in {"create", "update"} => edit'[a].key # key
  /\ Cardinality({p \in Providers : spec'[p] # None \/ epoch'[p] > 0}) <= 1

\* The edits, discoveries, listings and operations under way.
Underway(n) ==
  Cardinality({a \in Admins : edit'[a] # NoEdit}) + Cardinality({d \in Discoverers : probe'[d] # None})
    + Cardinality({l \in Listers : listing'[l] # None})
    + Cardinality({o \in Operators : operation'[o] # None}) <= n

RegistryParts ==
  \/ part = "editing" /\ (EditSteps \/ Restarts \/ DiscoverySteps) /\ Underway(2)
  \/ part = "listing" /\ (EditSteps \/ Restarts \/ ListingSteps) /\ OneAtATime /\ Underway(3)

\* While conversations are started, they are from one private custom model of the viewer's,
\* created and listed before the first of them; one chat at a time is being opened, beside
\* one call of send() at most.
Fresh ==
  draft = NoDraft /\ (\A s \in Sends : send[s] = NoSend) /\ \A c \in 1..MaxStarted : chats[c] = {}

OneModel ==
  /\ \/ Fresh
     \/ numbered' = numbered /\ creating' = creating /\ panel' = panel
  /\ numbered' <= 1 /\ \A u \in Owners : creating'[u] # {} => u = Viewer /\ numbered' = 0 /\ Fresh'
  /\ \A i \in Ids : \A m \in custom'[i] : m.visibility = "private"
  /\ \A c, d \in opening' : c = d
  /\ opening' # {} => \E s \in Sends : send'[s] = NoSend

ModelParts ==
  \/ part = "models" /\ RowSteps
  \/ part = "drafts" /\ (RowSteps \/ DraftSteps) /\ OneModel

MCNext ==
  /\ UNCHANGED part
  /\ \/ RegistryParts
     \/ part \notin {"editing", "listing"} /\ UNCHANGED regVars
  /\ \/ part = "settings" /\ CachesNext
     \/ part # "settings" /\ UNCHANGED cacheVars
  /\ \/ part = "knowledge" /\ KnowNext
     \/ part # "knowledge" /\ UNCHANGED knowVars
  /\ \/ part = "ids" /\ IdNext
     \/ part # "ids" /\ UNCHANGED idVars
  /\ \/ part = "chunks" /\ Splits
     \/ part # "chunks" /\ UNCHANGED chunkVars
  /\ \/ part = "imports" /\ ImportNext
     \/ part # "imports" /\ UNCHANGED importVars
  /\ \/ part = "schema" /\ SchemaSteps
     \/ part # "schema" /\ UNCHANGED schemaVars
  /\ \/ part = "client" /\ ClientSteps
     \/ part # "client" /\ UNCHANGED httpVars
  /\ \/ ModelParts
     \/ part \notin {"models", "drafts"} /\ UNCHANGED modelVars
  /\ \/ part = "stars" /\ StarSteps
     \/ part # "stars" /\ UNCHANGED starVars
  /\ \/ part = "uploads" /\ UploadsNext
     \/ part # "uploads" /\ UNCHANGED fileVars

MCSpec == MCInit /\ [][MCNext]_serviceVars
=================================================================================
