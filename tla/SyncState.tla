----------------------------- MODULE SyncState -----------------------------
(***************************************************************************)
(* The bookkeeping of `gwsr drive +sync` (crates/gws-rust/src/helpers/     *)
(* drive.rs): the in-memory form of <dir>/.gwsr-sync.json, its insertion   *)
(* rule and the per-file decision.  Pure operators; DriveSync.tla runs     *)
(* them.                                                                   *)
(*                                                                         *)
(* A local file is its content.  The code recognises content by size,      *)
(* modification time and SHA-256; here two files are equal exactly when    *)
(* their bytes are, which assumes that a write that changes the bytes also *)
(* changes the size or the modification time.                              *)
(***************************************************************************)
EXTENDS Naturals

CONSTANTS
  Item,          \* Drive file IDs
  Native,        \* the Google-native ones: Drive reports no checksum for them
  Folder,        \* Drive folder IDs, each mirrored into one local directory
  Name,          \* file names
  DriveContent,  \* contents Drive can hold
  UserContent,   \* contents only the user can have produced
  None           \* no item, no record, no file

ASSUME SyncAssumption ==
  /\ Native \subseteq Item
  /\ None \notin Item
  /\ None \notin DriveContent \cup UserContent
  /\ DriveContent \cap UserContent = {}
  /\ None \notin Folder \X (Item \cup {None}) \X Name

Content == DriveContent \cup UserContent

(* A local path: the directory of a folder, the ID prefix `disambiguate`   *)
(* puts before a name claimed twice (None without one) and the name.       *)
Path == Folder \X (Item \cup {None}) \X Name

(* RemoteFingerprint: `sum` is the checksum, `ver` the version and         *)
(* modification time, which move with every change of the item.            *)
Remote == [sum : DriveContent \cup {None}, ver : Nat]
(* SyncRecord.  `local` is the LocalFingerprint.                           *)
Rec == [path : Path, remote : Remote, local : Content]
NoRec == [path |-> None, remote |-> None, local |-> None]
MaybeRec == Rec \cup {NoRec}

(* SyncState.records, by_path, moved_from and dirty.                       *)
State == [records : [Item -> MaybeRec],
          by_path : [Path -> Item \cup {None}],
          moved_from : [Path -> [id : Item \cup {None}, rec : MaybeRec]],
          dirty : BOOLEAN]
NotMoved == [id |-> None, rec |-> NoRec]

NoRecords == [i \in Item |-> NoRec]

-----------------------------------------------------------------------------
(* Checksums decide when both sides have one; otherwise every field must   *)
(* match.                                                                  *)
SameContent(now, then) ==
  IF now.sum # None /\ then.sum # None THEN now.sum = then.sum ELSE now = then

(* A state loaded from the records in the file: the index is rebuilt, no   *)
(* move is remembered.  `lost` says the file was unusable, in which case   *)
(* the records are empty and the state is already dirty.                   *)
LoadState(records, lost) ==
  [records |-> records,
   by_path |-> [p \in Path |->
                  IF \E i \in Item : records[i].path = p
                  THEN CHOOSE i \in Item : records[i].path = p
                  ELSE None],
   moved_from |-> [p \in Path |-> NotMoved],
   dirty |-> lost]

(* Record `id` at rec.path: the older record of the ID moves to moved_from *)
(* when its path changes, and whichever other item owned rec.path loses    *)
(* its record.                                                             *)
InsertForgetsMove(s, id, rec) ==
  LET old == s.records[id] IN
  [records |-> [i \in Item |-> IF i = id THEN rec
                               ELSE IF i = s.by_path[rec.path] THEN NoRec
                               ELSE s.records[i]],
   by_path |-> [p \in Path |-> IF p = rec.path THEN id
                               ELSE IF p = old.path THEN None
                               ELSE s.by_path[p]],
   moved_from |-> s.moved_from,
   dirty |-> TRUE]
InsertKeepsOldIndex(s, id, rec) ==
  [s EXCEPT !.records[id] = rec, !.by_path[rec.path] = id, !.dirty = TRUE]
Insert(s, id, rec) ==
  LET old == s.records[id] IN
  IF old = rec THEN s
  ELSE
  [records |-> [i \in Item |-> IF i = id THEN rec
                               ELSE IF i = s.by_path[rec.path] THEN NoRec
                               ELSE s.records[i]],
   by_path |-> [p \in Path |-> IF p = rec.path THEN id
                               ELSE IF p = old.path THEN None
                               ELSE s.by_path[p]],
   moved_from |-> [p \in Path |-> IF p = rec.path THEN NotMoved
                                  ELSE IF p = old.path THEN [id |-> id, rec |-> old]
                                  ELSE s.moved_from[p]],
   dirty |-> TRUE]

(* The item and record that last wrote `path`.                             *)
AtPath(s, path) ==
  IF s.by_path[path] # None
  THEN [id |-> s.by_path[path], rec |-> s.records[s.by_path[path]]]
  ELSE s.moved_from[path]

-----------------------------------------------------------------------------
(* plan_sync.  `file` is the content now at the item's path, or None.      *)
Download == "download"
Unchanged == "unchanged"
ModifiedLocally == "modifiedLocally"
Untracked == "untracked"
Conflicts == {ModifiedLocally, Untracked}

PlanTracked(owner, i, remote, file) ==
  LET remoteSame == owner.id = i /\ SameContent(remote, owner.rec.remote) IN
  IF file # owner.rec.local THEN ModifiedLocally
  ELSE IF remoteSame THEN Unchanged
  ELSE Download

(* No record describes the path: the file is still the sync's own when it  *)
(* is the copy the item's record (at another path) describes, and is       *)
(* adopted when Drive's checksum proves it is the item's content.          *)
PlanUntrackedOverwrites(s, i, remote, file) ==
  IF file = remote.sum THEN Unchanged ELSE Download
PlanUntracked(s, i, remote, file) ==
  LET elsewhere == s.records[i] IN
  IF elsewhere # NoRec /\ file = elsewhere.local
  THEN IF SameContent(remote, elsewhere.remote) THEN Unchanged ELSE Download
  ELSE IF file = remote.sum THEN Unchanged
  ELSE Untracked

PlanIgnoresDrive(s, i, remote, path, file) ==
  LET owner == AtPath(s, path) IN
  IF file = None THEN Download
  ELSE IF owner # NotMoved
       THEN IF file = owner.rec.local THEN Unchanged ELSE ModifiedLocally
       ELSE PlanUntracked(s, i, remote, file)
Plan(s, i, remote, path, file) ==
  LET owner == AtPath(s, path) IN
  IF file = None THEN Download
  ELSE IF owner # NotMoved THEN PlanTracked(owner, i, remote, file)
  ELSE PlanUntracked(s, i, remote, file)

-----------------------------------------------------------------------------
(* The index is the inverse of the records: one record per ID, one owner   *)
(* per path, and a remembered move only where nobody owns the path now.    *)
Consistent(s) ==
  /\ \A i \in Item, p \in Path : s.by_path[p] = i <=> s.records[i].path = p
  /\ \A p \in Path : s.moved_from[p] # NotMoved =>
       /\ s.by_path[p] = None
       /\ s.moved_from[p].rec.path = p

(* No path has two records: what makes the index rebuildable on load.      *)
PathsUnique(records) ==
  \A i, j \in Item : records[i].path = records[j].path /\ records[i].path # None => i = j

(* Every record, and every remembered move, holds a content of Drive.      *)
FromDrive(records) == \A i \in Item : records[i] # NoRec => records[i].local \in DriveContent
StateFromDrive(s) ==
  /\ FromDrive(s.records)
  /\ \A p \in Path : s.moved_from[p] # NotMoved => s.moved_from[p].rec.local \in DriveContent

(* The files of a directory are, at the given paths, those the records and *)
(* the remembered moves of a state describe.                               *)
Describes(s, files, paths) ==
  /\ \A i \in Item : s.records[i] # NoRec /\ s.records[i].path \in paths =>
       files[s.records[i].path] = s.records[i].local
  /\ \A p \in paths : s.moved_from[p] # NotMoved => files[p] = s.moved_from[p].rec.local
=============================================================================
