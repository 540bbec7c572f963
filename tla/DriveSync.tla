------------------------------ MODULE DriveSync -----------------------------
(***************************************************************************)
(* sync_instructor_to_drive of gyros-os                                    *)
(* (src/gyros_os/integrations/google_drive/drive_sync.py): the folder of   *)
(* an instructor in a shared Drive, with the photo and informacoes.md.     *)
(*                                                                         *)
(* Drive has no unique names: each object is looked up by a query and      *)
(* created when the query finds none, two calls that anything may come     *)
(* between.  A call raises without effect, or with its effect done and the *)
(* answer lost.  Nothing is ever deleted: the account may not.             *)
(*                                                                         *)
(* Folders and files are numbered in the order of their creation.  Names   *)
(* are compared after _normalize_folder_name and _slugify: two cards with  *)
(* one name share the folder and the files in it.                          *)
(***************************************************************************)
EXTENDS Naturals, Sequences

CONSTANTS
  Callers,   \* who may be inside sync_instructor_to_drive at the same time
  Names,     \* normalized names of instructors
  NoName,    \* neither name nor title: _normalize_folder_name has nothing to go by
  Photos,    \* the extensions a photo can have
  NoPhoto,   \* the card has no photo: foto_url is empty
  NoFile     \* stands for "no file found"

VARIABLES
  folders,  \* the names of the folders under the parent folder
  files,    \* the files in them: folder, role, extension of the photo
  at,       \* where each caller stands
  info,     \* InstructorInfo: the name and the photo of its card
  folder,   \* folder_id
  target    \* the file its last query returned

Infos == [name : Names \cup {NoName}, photo : Photos \cup {NoPhoto}]
NoInfo == [name |-> NoName, photo |-> NoPhoto]
Places == {"off", "folder", "createFolder", "photo", "putPhoto",
           "notes", "putNotes", "returned", "raised"}

DriveTypeOK ==
  /\ folders \in Seq(Names)
  /\ files \in Seq([folder : 1..Len(folders), role : {"photo", "notes"},
                    ext : Photos \cup {NoPhoto}])
  /\ at \in [Callers -> Places]
  /\ info \in [Callers -> Infos]
  /\ folder \in [Callers -> 0..Len(folders)]
  /\ target \in [Callers -> (1..Len(files)) \cup {NoFile}]

DriveInit ==
  /\ folders = <<>> /\ files = <<>>
  /\ at = [c \in Callers |-> "off"]
  /\ info = [c \in Callers |-> NoInfo]
  /\ folder = [c \in Callers |-> 0]
  /\ target = [c \in Callers |-> NoFile]

-----------------------------------------------------------------------------
\* What a query returns: the identifiers of the objects that match.
FoldersNamed(n) == {i \in DOMAIN folders : folders[i] = n}
FilesIn(i, role) == {j \in DOMAIN files : files[j].folder = i /\ files[j].role = role}

Move(c, from, to) == at[c] = from /\ at' = [at EXCEPT ![c] = to]

\* The call is over: nothing of it is left but its end.
End(c, how) ==
  /\ at' = [at EXCEPT ![c] = how]
  /\ info' = [info EXCEPT ![c] = NoInfo]
  /\ folder' = [folder EXCEPT ![c] = 0]
  /\ target' = [target EXCEPT ![c] = NoFile]

\* The caller is gone, or its result is used.
Forget(c) == End(c, "off")

\* Without a name sync_instructor_to_drive raises at once.
StartSync(c, i) ==
  /\ at[c] = "off"
  /\ \/ /\ i.name # NoName
        /\ at' = [at EXCEPT ![c] = "folder"]
        /\ info' = [info EXCEPT ![c] = i]
        /\ UNCHANGED <<folder, target>>
     \/ /\ i.name = NoName
        /\ End(c, "raised")
  /\ UNCHANGED <<folders, files>>

\* Defect: the query never matches, the name in it not being normalized.
FindFolderInVain(c) ==
  /\ Move(c, "folder", "createFolder")
  /\ UNCHANGED <<folders, files, info, folder, target>>

\* _find_or_create_folder, the query; it asks for no order, so any match may come first.
FindFolder(c) ==
  /\ \/ /\ Move(c, "folder", "photo")
        /\ \E i \in FoldersNamed(info[c].name) : folder' = [folder EXCEPT ![c] = i]
     \/ /\ FoldersNamed(info[c].name) = {}
        /\ Move(c, "folder", "createFolder")
        /\ UNCHANGED folder
  /\ UNCHANGED <<folders, files, info, target>>

AddFolder(c) == folders' = Append(folders, info[c].name)

CreateFolder(c) ==
  /\ Move(c, "createFolder", "photo")
  /\ AddFolder(c)
  /\ folder' = [folder EXCEPT ![c] = Len(folders) + 1]
  /\ UNCHANGED <<files, info, target>>

CreateFolderUnanswered(c) ==
  /\ at[c] = "createFolder"
  /\ AddFolder(c)
  /\ End(c, "raised")
  /\ UNCHANGED files

\* Defect: a card without a photo ends the call.
SkipPhotoReturns(c) ==
  /\ info[c].photo = NoPhoto
  /\ Move(c, "photo", "returned")
  /\ UNCHANGED <<folders, files, info, folder, target>>

\* _upload_photo without a photo.
SkipPhoto(c) ==
  /\ info[c].photo = NoPhoto
  /\ Move(c, "photo", "notes")
  /\ UNCHANGED <<folders, files, info, folder, target>>

Oldest(S) == CHOOSE j \in S : \A k \in S : j <= k

\* Defect: the query names the extension of the new photo as well.
FindPhotoByName(c) ==
  LET found == {j \in FilesIn(folder[c], "photo") : files[j].ext = info[c].photo}
  IN /\ info[c].photo # NoPhoto
     /\ Move(c, "photo", "putPhoto")
     /\ target' = [target EXCEPT ![c] = IF found = {} THEN NoFile ELSE Oldest(found)]
     /\ UNCHANGED <<folders, files, info, folder>>

\* The photo is downloaded; the query matches every extension, oldest file first.
FindPhoto(c) ==
  LET found == FilesIn(folder[c], "photo")
  IN /\ info[c].photo # NoPhoto
     /\ Move(c, "photo", "putPhoto")
     /\ target' = [target EXCEPT ![c] = IF found = {} THEN NoFile ELSE Oldest(found)]
     /\ UNCHANGED <<folders, files, info, folder>>

\* update, with a new name when the extension has changed, or create.
PutFile(c, role, ext) ==
  LET file == [folder |-> folder[c], role |-> role, ext |-> ext]
  IN files' = IF target[c] = NoFile THEN Append(files, file)
              ELSE [files EXCEPT ![target[c]] = file]

PutPhoto(c) ==
  /\ Move(c, "putPhoto", "notes")
  /\ PutFile(c, "photo", info[c].photo)
  /\ target' = [target EXCEPT ![c] = NoFile]
  /\ UNCHANGED <<folders, info, folder>>

PutPhotoUnanswered(c) ==
  /\ at[c] = "putPhoto"
  /\ PutFile(c, "photo", info[c].photo)
  /\ End(c, "raised")
  /\ UNCHANGED folders

\* _upsert_informacoes_md, the query.
FindNotes(c) ==
  LET found == FilesIn(folder[c], "notes")
  IN /\ Move(c, "notes", "putNotes")
     /\ \E j \in IF found = {} THEN {NoFile} ELSE found :
          target' = [target EXCEPT ![c] = j]
     /\ UNCHANGED <<folders, files, info, folder>>

PutNotes(c) ==
  /\ Move(c, "putNotes", "returned")
  /\ PutFile(c, "notes", NoPhoto)
  /\ UNCHANGED <<folders, info, folder, target>>

PutNotesUnanswered(c) ==
  /\ at[c] = "putNotes"
  /\ PutFile(c, "notes", NoPhoto)
  /\ End(c, "raised")
  /\ UNCHANGED folders

\* Any of the calls raises and has had no effect.
SyncRaises(c) ==
  /\ at[c] \notin {"off", "returned", "raised"}
  /\ End(c, "raised")
  /\ UNCHANGED <<folders, files>>

SyncStep(c) ==
  \/ FindFolder(c) \/ CreateFolder(c) \/ CreateFolderUnanswered(c)
  \/ SkipPhoto(c) \/ FindPhoto(c) \/ PutPhoto(c) \/ PutPhotoUnanswered(c)
  \/ FindNotes(c) \/ PutNotes(c) \/ PutNotesUnanswered(c)
  \/ SyncRaises(c)

-----------------------------------------------------------------------------
(* "Idempotência é requisito": what no sequence of runs, retries and lost  *)
(* answers may break as long as one caller runs at a time.                 *)

\* No instructor has two folders.
OneFolderPerName ==
  \A i, j \in DOMAIN folders : folders[i] = folders[j] => i = j

\* No folder has two informacoes.md or two photos of its instructor, not even
\* when the photo comes back with another extension.
OneOfEachFile ==
  \A i \in DOMAIN folders, role \in {"photo", "notes"} :
    \A j, k \in FilesIn(i, role) : j = k

=============================================================================
