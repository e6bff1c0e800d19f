-------------------------------- MODULE Uploads --------------------------------
(***************************************************************************)
(* Uploaded files: bytes on disk under their hash (security/uploads.py),   *)
(* rows that refer to them (db/repositories/files.py), written by the      *)
(* three routes that store files (api/routes/rag.py, attachments.py,       *)
(* images.py), deletion, and a turn that reads the images attached to it   *)
(* (services/chat.py: _load_images).                                       *)
(*                                                                         *)
(* A content is its bytes; validation has passed for every upload here:    *)
(* a document may be any content, since a text file's bytes are not looked *)
(* at, and an image is a picture by its first bytes.  Storing is one step  *)
(* of the event loop, with nothing awaited in it.                          *)
(***************************************************************************)
EXTENDS Naturals, FiniteSets

CONSTANTS
  Uploaders,
  Contents,
  Pictures,      \* contents that validate_image_upload accepts
  OneWriter,     \* SQLite: write transactions exclude each other
  MaxFiles       \* bound: rows created

ASSUME UploadsAssumption ==
  Pictures \subseteq Contents /\ OneWriter \in BOOLEAN /\ MaxFiles \in Nat

VARIABLES
  blob,      \* each content on disk: not there, cut short by a failed write, or whole
  failed,    \* contents the first write of which failed half-way
  files,     \* rows of file
  filed,     \* rows created so far
  upload,    \* each owner's upload under way
  attached,  \* rows each owner's client was answered with for attachments
  turn,      \* what a turn of each owner has found rows for and reads next
  missed     \* owners a turn of whom did not find the bytes as they were when they were filed

fileVars == <<blob, failed, files, filed, upload, attached, turn, missed>>

Routes == {"document", "image", "generated"}
\* `whole` says whether the bytes on disk were whole when the row was created.
File == [id : 1..MaxFiles, owner : Uploaders, content : Contents, kind : {"document", "image"},
         route : Routes, whole : BOOLEAN]
Upload == [stage : {"idle"}] \cup
          [stage : {"stored", "looked"}, content : Contents, route : {"document", "image"},
           found : SUBSET (1..MaxFiles)]

(* Rows and requests have the shape the code gives them; an id names one row. *)
UploadsTypeOK ==
  /\ blob \in [Contents -> {"none", "cut", "whole"}]
  /\ failed \subseteq Contents
  /\ files \subseteq File /\ \A x, y \in files : x.id = y.id => x = y
  /\ filed \in 0..MaxFiles /\ \A x \in files : x.id <= filed
  /\ upload \in [Uploaders -> Upload]
  /\ attached \in [Uploaders -> SUBSET (1..MaxFiles)]
  /\ turn \in [Uploaders -> SUBSET [content : Contents, whole : BOOLEAN]]
  /\ missed \subseteq Uploaders

UploadsInit ==
  /\ blob = [c \in Contents |-> "none"] /\ failed = {}
  /\ files = {} /\ filed = 0
  /\ upload = [u \in Uploaders |-> [stage |-> "idle"]]
  /\ attached = [u \in Uploaders |-> {}]
  /\ turn = [u \in Uploaders |-> {}]
  /\ missed = {}

\* db.write: on SQLite no other write transaction is open.
MayFile == OneWriter => \A u \in Uploaders : upload[u].stage # "looked"

-----------------------------------------------------------------------------
(* Storing *)

\* Mutant: the bytes are written again whatever is there.
Unwritten_Always(c) == c \in Contents

\* store_upload writes a content that is not there yet.  Whether what is there is whole is not
\* looked at.
Unwritten(c) == blob[c] = "none"

Stores(c) == blob' = [blob EXCEPT ![c] = IF Unwritten(c) THEN "whole" ELSE @]

\* upload_file and upload_attachment: validate and store.
UploadBegins(u, c, route) ==
  /\ upload[u].stage = "idle"
  /\ route = "image" => c \in Pictures
  /\ Stores(c)
  /\ upload' = [upload EXCEPT ![u] =
       [stage |-> "stored", content |-> c, route |-> route, found |-> {}]]
  /\ UNCHANGED <<failed, files, filed, attached, turn, missed>>

\* The disk is full or the process dies in write_bytes: part of the content is on disk.
StoringFails(c) ==
  /\ Unwritten(c)
  /\ blob' = [blob EXCEPT ![c] = "cut"]
  /\ failed' = IF blob[c] = "none" THEN failed \cup {c} ELSE failed
  /\ UNCHANGED <<files, filed, upload, attached, turn, missed>>

\* by_hash: an earlier upload of the same content by the same owner, of whatever kind.
Earlier(u, c) == {x \in files : x.owner = u /\ x.content = c}
Latest(rows) == {x.id : x \in {y \in rows : \A z \in rows : z.id <= y.id}}

UploadLooks(u) ==
  /\ upload[u].stage = "stored" /\ MayFile
  /\ upload' = [upload EXCEPT ![u].stage = "looked",
                              ![u].found = Latest(Earlier(u, upload[u].content))]
  /\ UNCHANGED <<blob, failed, files, filed, attached, turn, missed>>

NewFile(u, c, kind, route) ==
  [id |-> filed + 1, owner |-> u, content |-> c, kind |-> kind, route |-> route,
   whole |-> blob'[c] = "whole"]

Answered(u, ids) ==
  attached' = IF upload[u].route = "image" THEN [attached EXCEPT ![u] = @ \cup ids] ELSE attached

\* The row is answered that was found ...
UploadReuses(u) ==
  /\ upload[u].stage = "looked" /\ upload[u].found # {}
  /\ Answered(u, upload[u].found)
  /\ upload' = [upload EXCEPT ![u] = [stage |-> "idle"]]
  /\ UNCHANGED <<blob, failed, files, filed, turn, missed>>

\* ... or one is created.
UploadCreates(u) ==
  /\ upload[u].stage = "looked" /\ upload[u].found = {} /\ filed < MaxFiles
  /\ UNCHANGED <<blob, failed, turn, missed>>
  /\ files' = files \cup
       {NewFile(u, upload[u].content, upload[u].route, upload[u].route)}
  /\ filed' = filed + 1
  /\ Answered(u, {filed + 1})
  /\ upload' = [upload EXCEPT ![u] = [stage |-> "idle"]]

\* The transaction fails, or the process dies: the bytes stay without a row.
UploadFails(u) ==
  /\ upload[u].stage # "idle"
  /\ upload' = [upload EXCEPT ![u] = [stage |-> "idle"]]
  /\ UNCHANGED <<blob, failed, files, filed, attached, turn, missed>>

\* generate_images: stored and filed in one transaction, without looking for an earlier row.
Generates(u, c) ==
  /\ MayFile /\ filed < MaxFiles /\ c \in Pictures
  /\ Stores(c)
  /\ files' = files \cup {NewFile(u, c, "image", "generated")}
  /\ filed' = filed + 1
  /\ UNCHANGED <<failed, upload, attached, turn, missed>>

\* delete_file: the caller's row; the bytes stay, others may share them.
DeletesFile(u, x) ==
  /\ MayFile
  /\ x \in files /\ x.owner = u
  /\ files' = files \ {x}
  /\ UNCHANGED <<blob, failed, filed, upload, attached, turn, missed>>

-----------------------------------------------------------------------------
(* A turn with images *)

\* The bytes of a row are there, and those that were whole when it was created still are.
HasItsBytes(f) == blob[f.content] = "whole" \/ (blob[f.content] = "cut" /\ ~f.whole)

\* _load_images: of the ids it was sent, the rows of the caller's images ...
TurnFinds(u, ids) ==
  /\ ids \subseteq attached[u]
  /\ turn[u] = {}
  /\ turn' = [turn EXCEPT ![u] =
       {[content |-> x.content, whole |-> x.whole] :
          x \in {y \in files : y.id \in ids /\ y.owner = u /\ y.kind = "image"}}]
  /\ UNCHANGED <<blob, failed, files, filed, upload, attached, missed>>

\* ... and, with the session closed, their bytes, off the event loop.  Bytes that are not there
\* are passed over, and those that were cut short are sent as they are.
TurnReads(u) ==
  /\ turn[u] # {}
  /\ missed' = IF \A f \in turn[u] : HasItsBytes(f) THEN missed ELSE missed \cup {u}
  /\ turn' = [turn EXCEPT ![u] = {}]
  /\ UNCHANGED <<blob, failed, files, filed, upload, attached>>

UploadsNext ==
  \/ \E u \in Uploaders :
       \/ \E c \in Contents :
            Generates(u, c) \/ \E route \in {"document", "image"} : UploadBegins(u, c, route)
       \/ UploadLooks(u) \/ UploadReuses(u) \/ UploadCreates(u) \/ UploadFails(u)
       \/ \E x \in files : DeletesFile(u, x)
       \/ \E ids \in SUBSET attached[u] : TurnFinds(u, ids)
       \/ TurnReads(u)
  \/ \E c \in Contents : StoringFails(c)

UploadsSpec == UploadsInit /\ [][UploadsNext]_fileVars

-----------------------------------------------------------------------------
(* Properties *)

\* A row's bytes are on disk, and stay as whole as they were when the row was created, whatever
\* is uploaded again, fails half-way or is deleted, by the owner or by others who uploaded the
\* same; so do those a turn has found a row for, until it reads them.  Only a row of a content
\* whose first write failed half-way is over anything but the whole content.
RowsHaveTheirBytes ==
  /\ \A x \in files : HasItsBytes(x) /\ (x.whole \/ x.content \in failed)
  /\ \A u \in Uploaders : \A f \in turn[u] : HasItsBytes(f) /\ (f.whole \/ f.content \in failed)
  /\ missed = {}

\* "Write validated bytes to disk" (security/uploads.py:140): a row is over all the bytes that
\* were validated for it.  Not so when the first write of them failed half-way: later uploads
\* of the same content find the path, write nothing, and file a row over what is there.
RowsAreOverWholeBytes == \A x \in files : blob[x.content] = "whole"

\* Where writes exclude each other, an owner has one row of a content, however often it was
\* uploaded and by whichever route, and besides it only rows of generated images.
ContentsAreFiledOnce ==
  OneWriter =>
    \A x, y \in files :
      x.owner = y.owner /\ x.content = y.content /\ x # y =>
        "generated" \in {x.route, y.route}

\* What a client was answered with for an attachment is its own row of a picture, whether the
\* row was created for it or is an earlier one.
AttachmentsAreTheirs ==
  \A u \in Uploaders : \A x \in files :
    x.id \in attached[u] => x.owner = u /\ x.content \in Pictures

\* "Upload an image to attach to a message" (api/routes/attachments.py:41-42): the row that is
\* answered is one a turn takes for an image.  Not so for a picture that was first uploaded as a
\* document: by_hash finds that row, and a turn refuses it (services/chat.py:631).
AttachmentsAreImages ==
  \A u \in Uploaders : \A x \in files : x.id \in attached[u] => x.kind = "image"

\* Uploads: types, bytes, one row of a content, attachments.
UploadsInv ==
  UploadsTypeOK /\ RowsHaveTheirBytes /\ ContentsAreFiledOnce /\ AttachmentsAreTheirs
================================================================================
