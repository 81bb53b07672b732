-------------------------- MODULE DriveSync_proofs --------------------------
(***************************************************************************)
(* Theorems about `gwsr drive +sync`, for any items, folders, names,       *)
(* contents and number of runs: the state is well formed, the path index   *)
(* of a run stays the inverse of its records, a file of the user's is      *)
(* replaced only by the user or with --overwrite as long as nobody touches *)
(* it while it is being downloaded, a saved state is true of the files and *)
(* a tracked file no conflict as long as no process is killed, and a sync  *)
(* that ends undisturbed with nothing to report has mirrored the tree.     *)
(***************************************************************************)
EXTENDS DriveSync, TLAPS

-----------------------------------------------------------------------------
(* The bookkeeping: what loading and inserting do to the type, the path    *)
(* index and the origin of the recorded contents, and when the per-file    *)
(* decision lets a file be replaced.                                       *)

(* A path is never None, so NoRec and NotMoved are no record and no move.  *)
LEMMA PathNotNone == \A p \in Path : p # None
  BY SyncAssumption DEF Path

LEMMA RecFields ==
  ASSUME NEW rec \in MaybeRec
  PROVE  /\ rec.path \in Path \cup {None}
         /\ rec = NoRec <=> rec.path = None
         /\ rec # NoRec => rec.local \in Content /\ rec.remote \in Remote
  BY PathNotNone DEF MaybeRec, Rec, NoRec

(* SyncState::insert keeps the state well formed.                          *)
LEMMA InsertType ==
  ASSUME NEW s \in State, NEW id \in Item, NEW rec \in Rec
  PROVE  Insert(s, id, rec) \in State
  <1>1. CASE s.records[id] = rec
    BY <1>1 DEF Insert
  <1>2. CASE s.records[id] # rec
    <2> DEFINE old == s.records[id]
    <2>1. old \in MaybeRec /\ rec \in MaybeRec /\ NoRec \in MaybeRec
      BY DEF State, MaybeRec
    <2>2. [id |-> id, rec |-> old] \in [id : Item \cup {None}, rec : MaybeRec]
      BY <2>1
    <2>3. NotMoved \in [id : Item \cup {None}, rec : MaybeRec]
      BY <2>1 DEF NotMoved
    <2>4. [i \in Item |-> IF i = id THEN rec
                          ELSE IF i = s.by_path[rec.path] THEN NoRec
                          ELSE s.records[i]] \in [Item -> MaybeRec]
      BY <2>1 DEF State
    <2>5. [p \in Path |-> IF p = rec.path THEN id
                          ELSE IF p = old.path THEN None
                          ELSE s.by_path[p]] \in [Path -> Item \cup {None}]
      BY DEF State
    <2>6. [p \in Path |-> IF p = rec.path THEN NotMoved
                          ELSE IF p = old.path THEN [id |-> id, rec |-> old]
                          ELSE s.moved_from[p]]
            \in [Path -> [id : Item \cup {None}, rec : MaybeRec]]
      BY <2>2, <2>3 DEF State
    <2> QED BY <1>2, <2>4, <2>5, <2>6 DEF Insert, State
  <1> QED BY <1>1, <1>2

(* SyncState::insert keeps the index the inverse of the records.           *)
LEMMA InsertConsistent ==
  ASSUME NEW s \in State, NEW id \in Item, NEW rec \in Rec, Consistent(s)
  PROVE  Consistent(Insert(s, id, rec))
  <1>1. CASE s.records[id] = rec
    BY <1>1 DEF Insert
  <1>2. CASE s.records[id] # rec
    <2> DEFINE old == s.records[id]
               t == Insert(s, id, rec)
    <2>0. /\ rec.path \in Path
          /\ rec.path # None
          /\ None \notin Item
          /\ NoRec.path = None
          /\ \A p \in Path : p # None
      BY PathNotNone, SyncAssumption DEF Rec, NoRec
    <2>1. /\ \A i \in Item : t.records[i] = IF i = id THEN rec
                                 ELSE IF i = s.by_path[rec.path] THEN NoRec
                                 ELSE s.records[i]
          /\ \A p \in Path : t.by_path[p] = IF p = rec.path THEN id
                                 ELSE IF p = old.path THEN None
                                 ELSE s.by_path[p]
          /\ \A p \in Path : t.moved_from[p] = IF p = rec.path THEN NotMoved
                                 ELSE IF p = old.path THEN [id |-> id, rec |-> old]
                                 ELSE s.moved_from[p]
      BY <1>2 DEF Insert
    <2>2. ASSUME NEW i \in Item, NEW p \in Path
          PROVE  t.by_path[p] = i <=> t.records[i].path = p
      <3>1. s.by_path[p] = i <=> s.records[i].path = p
        BY DEF Consistent
      <3>2. s.by_path[rec.path] = i <=> s.records[i].path = rec.path
        BY <2>0 DEF Consistent
      <3>3. s.by_path[p] = id <=> old.path = p
        BY DEF Consistent
      <3> HIDE DEF t, old
      <3>4. CASE i = id
        BY <3>4, <2>0, <2>1, <3>1, <3>3
      <3>5. CASE i # id
        BY <3>5, <2>0, <2>1, <3>1, <3>2, <3>3
      <3> QED BY <3>4, <3>5
    <2>3. ASSUME NEW p \in Path, t.moved_from[p] # NotMoved
          PROVE  t.by_path[p] = None /\ t.moved_from[p].rec.path = p
      BY <2>0, <2>1, <2>3 DEF Consistent
    <2> QED BY <2>2, <2>3 DEF Consistent
  <1> QED BY <1>1, <1>2

(* SyncState::insert of a content of Drive keeps the state free of the     *)
(* user's contents.                                                        *)
LEMMA InsertFromDrive ==
  ASSUME NEW s \in State, NEW id \in Item, NEW rec \in Rec,
         StateFromDrive(s), rec.local \in DriveContent
  PROVE  StateFromDrive(Insert(s, id, rec))
  <1>1. CASE s.records[id] = rec
    BY <1>1 DEF Insert
  <1>2. CASE s.records[id] # rec
    <2>1. ASSUME NEW i \in Item, Insert(s, id, rec).records[i] # NoRec
          PROVE  Insert(s, id, rec).records[i].local \in DriveContent
      BY <1>2, <2>1 DEF Insert, StateFromDrive, FromDrive
    <2>2. ASSUME NEW p \in Path, Insert(s, id, rec).moved_from[p] # NotMoved
          PROVE  Insert(s, id, rec).moved_from[p].rec.local \in DriveContent
      <3>1. CASE p # rec.path /\ p = s.records[id].path
        <4>1. s.records[id] # NoRec
          BY <3>1, PathNotNone DEF NoRec
        <4> QED BY <1>2, <3>1, <4>1 DEF Insert, StateFromDrive, FromDrive
      <3>2. CASE ~(p # rec.path /\ p = s.records[id].path)
        BY <1>2, <2>2, <3>2 DEF Insert, StateFromDrive
      <3> QED BY <3>1, <3>2
    <2> QED BY <2>1, <2>2 DEF StateFromDrive, FromDrive
  <1> QED BY <1>1, <1>2

(* SyncState::load rebuilds a consistent index from records with distinct  *)
(* paths.                                                                  *)
LEMMA LoadType ==
  ASSUME NEW records \in [Item -> MaybeRec], NEW lost \in BOOLEAN
  PROVE  LoadState(records, lost) \in State
  <1>1. NotMoved \in [id : Item \cup {None}, rec : MaybeRec]
    BY DEF NotMoved, MaybeRec
  <1>2. [p \in Path |-> IF \E i \in Item : records[i].path = p
                        THEN CHOOSE i \in Item : records[i].path = p
                        ELSE None] \in [Path -> Item \cup {None}]
    OBVIOUS
  <1> QED BY <1>1, <1>2 DEF LoadState, State

LEMMA LoadConsistent ==
  ASSUME NEW records \in [Item -> MaybeRec], NEW lost \in BOOLEAN, PathsUnique(records)
  PROVE  Consistent(LoadState(records, lost))
  <1> DEFINE s == LoadState(records, lost)
             At(p) == CHOOSE i \in Item : records[i].path = p
  <1>1. ASSUME NEW i \in Item, NEW p \in Path
        PROVE  s.by_path[p] = i <=> s.records[i].path = p
    <2>1. p # None
      BY PathNotNone
    <2>2. CASE \E j \in Item : records[j].path = p
      <3>1. At(p) \in Item /\ records[At(p)].path = p
        BY <2>2
      <3>2. s.by_path[p] = At(p) /\ s.records = records
        BY <2>2 DEF LoadState
      <3> HIDE DEF At, s
      <3> QED BY <2>1, <3>1, <3>2 DEF PathsUnique
    <2>3. CASE ~\E j \in Item : records[j].path = p
      BY <2>3, SyncAssumption DEF LoadState
    <2> QED BY <2>2, <2>3
  <1>2. \A p \in Path : s.moved_from[p] = NotMoved
    BY DEF LoadState
  <1> HIDE DEF s
  <1> QED BY <1>1, <1>2 DEF Consistent, s

LEMMA LoadFromDrive ==
  ASSUME NEW records \in [Item -> MaybeRec], NEW lost \in BOOLEAN, FromDrive(records)
  PROVE  StateFromDrive(LoadState(records, lost))
  BY DEF LoadState, StateFromDrive, FromDrive

(* The records of a consistent state have distinct paths.                  *)
LEMMA ConsistentUnique ==
  ASSUME NEW s \in State, Consistent(s)
  PROVE  PathsUnique(s.records)
  <1> SUFFICES ASSUME NEW i \in Item, NEW j \in Item,
                      s.records[i].path = s.records[j].path, s.records[i].path # None
               PROVE  i = j
    BY DEF PathsUnique
  <1>1. s.records[i].path \in Path
    BY RecFields DEF State
  <1> QED BY <1>1 DEF Consistent

(* plan_sync lets a file be replaced without --overwrite, or takes it for  *)
(* the item's own copy, only when it is not the user's.                    *)
LEMMA PlanSparesUser ==
  ASSUME NEW s \in State, NEW i \in Item, NEW remote \in Remote, NEW p \in Path,
         NEW file \in Content \cup {None}, StateFromDrive(s), Consistent(s)
  PROVE  /\ Plan(s, i, remote, p, file) = Download => file \notin UserContent
         /\ Plan(s, i, remote, p, file) = Unchanged => file \in DriveContent
  <1> DEFINE owner == AtPath(s, p)
  <1>1. CASE file = None
    BY <1>1, SyncAssumption DEF Plan, Download, Unchanged, Content
  <1>2. CASE file # None /\ owner # NotMoved
    <2>1. owner.rec.local \in DriveContent
      <3>1. CASE s.by_path[p] # None
        <4>1. s.by_path[p] \in Item
          BY <3>1 DEF State
        <4>2. s.records[s.by_path[p]].path = p
          BY <4>1 DEF Consistent
        <4>3. s.records[s.by_path[p]] # NoRec
          BY <4>2, PathNotNone DEF NoRec
        <4> QED BY <3>1, <4>1, <4>3 DEF AtPath, StateFromDrive, FromDrive
      <3>2. CASE s.by_path[p] = None
        BY <1>2, <3>2 DEF AtPath, StateFromDrive
      <3> QED BY <3>1, <3>2
    <2>2. Plan(s, i, remote, p, file) = PlanTracked(owner, i, remote, file)
      BY <1>2 DEF Plan
    <2> HIDE DEF owner
    <2> QED BY <2>1, <2>2, SyncAssumption
            DEF PlanTracked, Download, Unchanged, ModifiedLocally
  <1>3. CASE file # None /\ owner = NotMoved
    <2>1. Plan(s, i, remote, p, file) = PlanUntracked(s, i, remote, file)
      BY <1>3 DEF Plan
    <2>2. s.records[i] # NoRec => s.records[i].local \in DriveContent
      BY DEF StateFromDrive, FromDrive
    <2>3. remote.sum \in DriveContent \cup {None}
      BY DEF Remote
    <2> QED BY <1>3, <2>1, <2>2, <2>3, SyncAssumption
            DEF PlanUntracked, Download, Unchanged, Untracked
  <1> QED BY <1>1, <1>2, <1>3

-----------------------------------------------------------------------------
(* Runs.                                                                   *)


LEMMA EmptyStateFine ==
  /\ EmptyState \in State
  /\ Consistent(EmptyState)
  /\ StateFromDrive(EmptyState)
  <1>1. EmptyState \in State
    BY DEF EmptyState, State, NoRecords, NotMoved, MaybeRec
  <1>2. Consistent(EmptyState)
    BY PathNotNone, SyncAssumption DEF EmptyState, Consistent, NoRecords, NoRec
  <1>3. StateFromDrive(EmptyState)
    BY DEF EmptyState, StateFromDrive, FromDrive, NoRecords
  <1> QED BY <1>1, <1>2, <1>3

LEMMA NoRecordsFine ==
  /\ NoRecords \in [Item -> MaybeRec]
  /\ PathsUnique(NoRecords)
  /\ FromDrive(NoRecords)
  BY DEF NoRecords, MaybeRec, PathsUnique, NoRec, FromDrive

(* What the end of a process leaves: type and per-run parts of the         *)
(* invariant.                                                              *)
LEMMA ReleaseFine ==
  ASSUME NEW r \in Run, IndexInv, Release(r)
  PROVE  /\ lock' \in Run \cup {None}
         /\ pc' \in [Run -> PC]
         /\ overwrite' \in [Run -> BOOLEAN]
         /\ mem' \in [Run -> State]
         /\ pending' \in [Run -> SUBSET Folder]
         /\ visited' \in [Run -> SUBSET Folder]
         /\ todo' \in [Run -> SUBSET Entry]
         /\ cur' \in [Run -> Entry \cup {NoEntry}]
         /\ conflicts' \in [Run -> SUBSET Entry]
         /\ failed' \in [Run -> SUBSET Entry]
         /\ quiet' \in [Run -> BOOLEAN]
         /\ CurKnown'
         /\ IndexConsistent'
  BY EmptyStateFine
  DEF Release, IndexInv, TypeOK, PC, Idle, Downloading, Recording, CurKnown,
      IndexConsistent, NoEntry

(* A run that holds the lock and releases it leaves no run active.         *)
LEMMA ReleaseExcludes ==
  ASSUME NEW r \in Run, IndexInv, Release(r), pc[r] # Idle
  PROVE  RunsExclude'
  BY DEF Release, IndexInv, TypeOK, RunsExclude

(* A child of a folder has a path, and the children of a folder are        *)
(* entries.                                                                *)
LEMMA LocalPathIsPath ==
  ASSUME TypeOK, NEW f \in Folder, NEW i \in Children(f)
  PROVE  LocalPath(f, i) \in Path
  <1>1. drive[i] \in DriveItem /\ i \in Item
    BY DEF TypeOK, Children
  <1> QED BY <1>1 DEF LocalPath, Path, DriveItem

LEMMA EntriesType ==
  ASSUME NEW f \in Folder, TypeOK
  PROVE  Entries(f) \in SUBSET Entry
  <1> SUFFICES ASSUME NEW i \in Children(f)
               PROVE  [item |-> i, remote |-> RemoteOf(i), path |-> LocalPath(f, i)] \in Entry
    BY DEF Entries
  <1>1. i \in Item /\ drive[i] \in DriveItem
    BY DEF Children, TypeOK
  <1>2. RemoteOf(i) \in Remote
    BY <1>1 DEF RemoteOf, Remote, DriveItem
  <1>3. LocalPath(f, i) \in Path
    BY LocalPathIsPath
  <1> QED BY <1>1, <1>2, <1>3 DEF Entry

-----------------------------------------------------------------------------
LEMMA IndexInit == Init => IndexInv
  <1> SUFFICES ASSUME Init PROVE IndexInv
    OBVIOUS
  <1>1. drive \in [Item -> DriveItem]
    BY DEF Init, DriveItem
  <1>2. published \subseteq DriveContent
    BY <1>1 DEF Init, DriveItem
  <1>3. TypeOK
    BY <1>1, <1>2, EmptyStateFine, NoRecordsFine
    DEF Init, TypeOK, PC, Idle
  <1>4. RunsExclude /\ CurKnown /\ IndexConsistent /\ PathsUnique(saved)
    BY EmptyStateFine, NoRecordsFine
    DEF Init, RunsExclude, CurKnown, IndexConsistent, Idle, Downloading, Recording
  <1> QED BY <1>3, <1>4 DEF IndexInv

LEMMA IndexStep == IndexInv /\ [Next]_vars => IndexInv'
  <1> SUFFICES ASSUME IndexInv, [Next]_vars PROVE IndexInv'
    OBVIOUS
  <1> USE DEF IndexInv
  <1>1. ASSUME NEW r \in Run, Start(r) PROVE IndexInv'
    <2> DEFINE s == IF unusable THEN LoadState(NoRecords, TRUE) ELSE LoadState(saved, FALSE)
    <2>1. s \in State /\ Consistent(s)
      BY NoRecordsFine, LoadType, LoadConsistent DEF TypeOK
    <2> HIDE DEF s
    <2>2. mem' = [mem EXCEPT ![r] = s]
      BY <1>1 DEF Start, s
    <2>a. overwrite' \in [Run -> BOOLEAN]
      BY <1>1, DriveSyncAssumption DEF Start, TypeOK
    <2>b. mem' \in [Run -> State]
      BY <2>1, <2>2 DEF TypeOK
    <2>3. TypeOK'
      BY <1>1, <2>a, <2>b, DriveSyncAssumption
      DEF Start, TypeOK, envVars, fileVars, reportVars, PC, Listing
    <2>4. RunsExclude'
      BY <1>1, DriveSyncAssumption DEF Start, RunsExclude, TypeOK, LockSyncDir
    <2>5. CurKnown' /\ IndexConsistent' /\ PathsUnique(saved)'
      BY <1>1, <2>1, <2>2
      DEF Start, TypeOK, fileVars, CurKnown, IndexConsistent, Listing, Downloading, Recording
    <2> QED BY <2>3, <2>4, <2>5
  <1>2. ASSUME NEW r \in Run, List(r) PROVE IndexInv'
    <2>1. \A f \in Folder : Entries(f) \in SUBSET Entry /\ SubFolders[f] \in SUBSET Folder
      BY EntriesType, DriveSyncAssumption
    <2>2. TypeOK'
      BY <1>2, <2>1 DEF List, TypeOK, envVars, fileVars, reportVars, PC, Deciding
    <2>3. RunsExclude' /\ CurKnown' /\ IndexConsistent' /\ PathsUnique(saved)'
      BY <1>2
      DEF List, TypeOK, fileVars, RunsExclude, CurKnown, IndexConsistent,
          Idle, Listing, Deciding, Downloading, Recording
    <2> QED BY <2>2, <2>3
  <1>3. ASSUME NEW r \in Run, Decide(r) PROVE IndexInv'
    <2> PICK e \in todo[r] :
          LET act == Plan(mem[r], e.item, e.remote, e.path, disk[e.path]) IN
          /\ todo' = [todo EXCEPT ![r] = @ \ {e}]
          /\ \/ /\ act = Unchanged
                /\ mem' = [mem EXCEPT ![r] =
                     Insert(@, e.item, [path |-> e.path, remote |-> e.remote,
                                        local |-> disk[e.path]])]
                /\ UNCHANGED <<pc, cur, conflicts>>
             \/ /\ act \in Conflicts
                /\ ~overwrite[r]
                /\ conflicts' = [conflicts EXCEPT ![r] = @ \cup {e}]
                /\ UNCHANGED <<pc, cur, mem>>
             \/ /\ act = Download \/ (act \in Conflicts /\ overwrite[r])
                /\ cur' = [cur EXCEPT ![r] = e]
                /\ pc' = [pc EXCEPT ![r] = Downloading]
                /\ UNCHANGED <<mem, conflicts>>
      BY <1>3 DEF Decide
    <2>1. e \in Entry /\ e.item \in Item /\ e.remote \in Remote /\ e.path \in Path
      BY DEF TypeOK, Entry
    <2>2. UNCHANGED <<envVars, fileVars, lock, overwrite, pending, visited, failed, quiet>>
      BY <1>3 DEF Decide
    <2>3. lock = r
      BY <1>3 DEF Decide, RunsExclude, Idle, Deciding
    <2> DEFINE act == Plan(mem[r], e.item, e.remote, e.path, disk[e.path])
               rec == [path |-> e.path, remote |-> e.remote, local |-> disk[e.path]]
    <2>4. CASE act = Unchanged /\ mem' = [mem EXCEPT ![r] = Insert(@, e.item, rec)]
               /\ UNCHANGED <<pc, cur, conflicts>>
      <3>1. disk[e.path] # None
        BY <2>4 DEF Plan, Unchanged, Download
      <3>2. rec \in Rec
        BY <2>1, <3>1 DEF TypeOK, Rec
      <3>3. Insert(mem[r], e.item, rec) \in State /\ Consistent(Insert(mem[r], e.item, rec))
        BY <2>1, <3>2, InsertType, InsertConsistent DEF TypeOK, IndexConsistent
      <3> HIDE DEF rec, act
      <3>4. TypeOK'
        BY <2>1, <2>2, <2>4, <3>3 DEF TypeOK, envVars, fileVars
      <3>5. IndexConsistent'
        BY <2>4, <3>3 DEF IndexConsistent, TypeOK
      <3>6. RunsExclude' /\ CurKnown' /\ PathsUnique(saved)'
        BY <2>2, <2>4 DEF RunsExclude, CurKnown, fileVars
      <3> QED BY <3>4, <3>5, <3>6
    <2>5. CASE conflicts' = [conflicts EXCEPT ![r] = @ \cup {e}] /\ UNCHANGED <<pc, cur, mem>>
      BY <2>1, <2>2, <2>5
      DEF TypeOK, RunsExclude, CurKnown, IndexConsistent, envVars, fileVars
    <2>6. CASE cur' = [cur EXCEPT ![r] = e] /\ pc' = [pc EXCEPT ![r] = Downloading]
               /\ UNCHANGED <<mem, conflicts>>
      <3>1. TypeOK'
        BY <2>1, <2>2, <2>6 DEF TypeOK, envVars, fileVars, PC
      <3>2. RunsExclude' /\ CurKnown' /\ IndexConsistent' /\ PathsUnique(saved)'
        BY <2>1, <2>2, <2>3, <2>6
        DEF TypeOK, RunsExclude, CurKnown, IndexConsistent, fileVars
      <3> QED BY <3>1, <3>2
    <2> QED BY <2>4, <2>5, <2>6
  <1>4. ASSUME NEW r \in Run, NextFolder(r) PROVE IndexInv'
    BY <1>4
    DEF NextFolder, TypeOK, RunsExclude, CurKnown, IndexConsistent, envVars, fileVars,
        walkVars, reportVars, PC, Idle, Listing, Deciding, Downloading, Recording
  <1>5. ASSUME NEW r \in Run, Commit(r) PROVE IndexInv'
    <2>1. cur[r].path \in Path /\ drive[cur[r].item].data \in DriveContent /\ cur[r] \in Entry
      BY <1>5 DEF Commit, CurKnown, Entry, TypeOK, DriveItem
    <2>2. TypeOK'
      BY <1>5, <2>1 DEF Commit, TypeOK, envVars, walkVars, reportVars, PC, Content
    <2>3. RunsExclude' /\ CurKnown' /\ IndexConsistent' /\ PathsUnique(saved)'
      BY <1>5, <2>1
      DEF Commit, TypeOK, RunsExclude, CurKnown, IndexConsistent, walkVars,
          Idle, Downloading, Recording
    <2> QED BY <2>2, <2>3
  <1>6. ASSUME NEW r \in Run, DownloadRefused(r) PROVE IndexInv'
    <2>1. cur[r] \in Entry
      BY <1>6 DEF DownloadRefused, CurKnown
    <2> QED BY <1>6, <2>1
      DEF DownloadRefused, TypeOK, RunsExclude, CurKnown, IndexConsistent, envVars,
          fileVars, PC, Idle, Deciding, Downloading, Recording
  <1>7. ASSUME NEW r \in Run, Record(r) PROVE IndexInv'
    <2> DEFINE e == cur[r]
               rec == [path |-> e.path, remote |-> e.remote, local |-> disk[e.path]]
    <2>1. e \in Entry /\ e.item \in Item /\ e.remote \in Remote /\ e.path \in Path
      BY <1>7 DEF Record, CurKnown, Entry
    <2>2. CASE disk[e.path] = None
      BY <1>7, <2>2
      DEF Record, TypeOK, RunsExclude, CurKnown, IndexConsistent, envVars, fileVars,
          reportVars, PC, Idle, Stopped, Downloading, Recording
    <2>3. CASE disk[e.path] # None
      <3>1. rec \in Rec
        BY <2>1, <2>3 DEF TypeOK, Rec
      <3>2. Insert(mem[r], e.item, rec) \in State /\ Consistent(Insert(mem[r], e.item, rec))
        BY <2>1, <3>1, InsertType, InsertConsistent DEF TypeOK, IndexConsistent
      <3>3. /\ mem' = [mem EXCEPT ![r] = Insert(@, e.item, rec)]
            /\ pc' = [pc EXCEPT ![r] = Deciding]
            /\ cur' = [cur EXCEPT ![r] = NoEntry]
            /\ pc[r] = Recording
            /\ UNCHANGED <<envVars, fileVars, lock, overwrite, pending, visited, todo,
                           reportVars, quiet>>
        BY <1>7, <2>3 DEF Record
      <3> HIDE DEF rec, e
      <3>4. TypeOK'
        BY <3>2, <3>3 DEF TypeOK, envVars, fileVars, reportVars, PC
      <3>5. RunsExclude' /\ CurKnown' /\ IndexConsistent' /\ PathsUnique(saved)'
        BY <3>2, <3>3
        DEF TypeOK, RunsExclude, CurKnown, IndexConsistent, fileVars,
            Idle, Deciding, Downloading, Recording
      <3> QED BY <3>4, <3>5
    <2> QED BY <2>2, <2>3
  <1>8. ASSUME NEW r \in Run, Finish(r) \/ Stop(r) PROVE IndexInv'
    BY <1>8
    DEF Finish, Stop, TypeOK, RunsExclude, CurKnown, IndexConsistent, envVars, fileVars,
        walkVars, reportVars, PC, Idle, Listing, Finished, Stopped, Downloading, Recording
  <1>9. ASSUME NEW r \in Run, Save(r) PROVE IndexInv'
    <2>1. Release(r) /\ pc[r] # Idle
      BY <1>9 DEF Save, Idle, Finished, Stopped
    <2>2. saved' \in [Item -> MaybeRec] /\ PathsUnique(saved')
      BY <1>9, ConsistentUnique DEF Save, TypeOK, State, IndexConsistent
    <2>3. TypeOK'
      BY <1>9, <2>1, <2>2, ReleaseFine DEF Save, TypeOK, envVars
    <2> QED BY <2>1, <2>2, <2>3, ReleaseFine, ReleaseExcludes
  <1>10. ASSUME NEW r \in Run, Crash(r) PROVE IndexInv'
    <2>1. Release(r) /\ pc[r] # Idle
      BY <1>10 DEF Crash
    <2>2. TypeOK'
      BY <1>10, <2>1, ReleaseFine DEF Crash, TypeOK, envVars, fileVars
    <2>3. PathsUnique(saved')
      BY <1>10 DEF Crash, fileVars
    <2> QED BY <2>1, <2>2, <2>3, ReleaseFine, ReleaseExcludes
  <1>11. ASSUME NEW i \in Item, DriveChange(i) PROVE IndexInv'
    <2>1. drive' \in [Item -> DriveItem] /\ published' \subseteq DriveContent
      <3>1. drive[i] \in DriveItem /\ drive[i].ver + 1 \in Nat
        BY DEF TypeOK, DriveItem
      <3>2. /\ \A d \in DriveContent : [drive[i] EXCEPT !.data = d, !.ver = @ + 1] \in DriveItem
            /\ \A n \in Name : [drive[i] EXCEPT !.name = n, !.ver = @ + 1] \in DriveItem
            /\ \A fs \in SUBSET Folder : [drive[i] EXCEPT !.parents = fs, !.ver = @ + 1] \in DriveItem
        BY <3>1 DEF DriveItem
      <3>3. \E x \in DriveItem : drive' = [drive EXCEPT ![i] = x]
        <4>1. ASSUME NEW d \in DriveContent, drive' = [drive EXCEPT ![i].data = d, ![i].ver = @ + 1]
              PROVE  drive' = [drive EXCEPT ![i] = [drive[i] EXCEPT !.data = d, !.ver = @ + 1]]
          BY <4>1 DEF TypeOK
        <4>2. ASSUME NEW n \in Name, drive' = [drive EXCEPT ![i].name = n, ![i].ver = @ + 1]
              PROVE  drive' = [drive EXCEPT ![i] = [drive[i] EXCEPT !.name = n, !.ver = @ + 1]]
          BY <4>2 DEF TypeOK
        <4>3. ASSUME NEW fs \in SUBSET Folder, drive' = [drive EXCEPT ![i].parents = fs, ![i].ver = @ + 1]
              PROVE  drive' = [drive EXCEPT ![i] = [drive[i] EXCEPT !.parents = fs, !.ver = @ + 1]]
          BY <4>3 DEF TypeOK
        <4>4. CASE \E d \in DriveContent : drive' = [drive EXCEPT ![i].data = d, ![i].ver = @ + 1]
          BY <3>2, <4>1, <4>4
        <4>5. CASE \E n \in Name : drive' = [drive EXCEPT ![i].name = n, ![i].ver = @ + 1]
          BY <3>2, <4>2, <4>5
        <4>6. CASE \E fs \in SUBSET Folder : drive' = [drive EXCEPT ![i].parents = fs, ![i].ver = @ + 1]
          BY <3>2, <4>3, <4>6
        <4> QED BY <1>11, <4>4, <4>5, <4>6 DEF DriveChange
      <3>4. drive' \in [Item -> DriveItem]
        BY <3>3 DEF TypeOK
      <3>5. published' = published \/ \E d \in DriveContent : published' = published \cup {d}
        BY <1>11, Zenon DEF DriveChange
      <3>6. published' \subseteq DriveContent
        BY <3>5 DEF TypeOK
      <3> QED BY <3>4, <3>6
    <2>2. driveSteps' \in Nat /\ quiet' \in [Run -> BOOLEAN]
      BY <1>11 DEF DriveChange, TypeOK, Disturb
    <2> QED BY <1>11, <2>1, <2>2
      DEF DriveChange, TypeOK, RunsExclude, CurKnown, IndexConsistent, fileVars,
          walkVars, reportVars
  <1>12. ASSUME NEW p \in Path, UserTouch(p) PROVE IndexInv'
    <2>1. disk' \in [Path -> Content \cup {None}] /\ byUser' \subseteq Path
      BY <1>12 DEF UserTouch, TypeOK, Content
    <2> QED BY <1>12, <2>1
      DEF UserTouch, TypeOK, RunsExclude, CurKnown, IndexConsistent, Disturb,
          walkVars, reportVars
  <1>13. CASE UserLosesState
    BY <1>13, NoRecordsFine
    DEF UserLosesState, TypeOK, RunsExclude, CurKnown, IndexConsistent, Disturb,
        walkVars, reportVars
  <1>14. CASE UNCHANGED vars
    BY <1>14
    DEF vars, TypeOK, RunsExclude, CurKnown, IndexConsistent, envVars, fileVars,
        walkVars, reportVars
  <1> QED
    BY <1>1, <1>2, <1>3, <1>4, <1>5, <1>6, <1>7, <1>8, <1>9, <1>10, <1>11, <1>12, <1>13,
       <1>14
    DEF Next, RunStep

(* Type correctness of `drive +sync`.                                      *)
THEOREM TypeCorrect == Spec => []TypeOK
  <1>1. IndexInv => TypeOK
    BY DEF IndexInv
  <1> QED BY <1>1, IndexInit, IndexStep, PTL DEF Spec

(* The path index of every run is the inverse of its records at all times. *)
THEOREM IndexAlwaysConsistent == Spec => []IndexConsistent
  <1>1. IndexInv => IndexConsistent
    BY DEF IndexInv
  <1> QED BY <1>1, IndexInit, IndexStep, PTL DEF Spec

-----------------------------------------------------------------------------
LEMMA LossInit == Init => LossInv
  <1> SUFFICES ASSUME Init PROVE LossInv
    OBVIOUS
  <1>1. RecordsFromDrive
    BY EmptyStateFine, NoRecordsFine DEF Init, RecordsFromDrive
  <1>2. FlightSparesUser
    BY DEF Init, FlightSparesUser, Idle, Downloading, Recording
  <1> QED BY <1>1, <1>2, IndexInit DEF LossInv

(* One part per step of a run, the files, and the in-flight download.      *)
LEMMA LossStep ==
  ASSUME "editInFlight" \notin Env, LossInv, [Next]_vars
  PROVE  LossInv'
  <1> USE DEF LossInv
  <1>0. IndexInv'
    BY IndexStep
  <1>1. ASSUME NEW r \in Run, Start(r) PROVE RecordsFromDrive' /\ FlightSparesUser'
    <2> DEFINE s == IF unusable THEN LoadState(NoRecords, TRUE) ELSE LoadState(saved, FALSE)
    <2>1. StateFromDrive(s)
      BY NoRecordsFine, LoadFromDrive DEF IndexInv, TypeOK, RecordsFromDrive
    <2> HIDE DEF s
    <2>2. mem' = [mem EXCEPT ![r] = s]
      BY <1>1 DEF Start, s
    <2>3. RecordsFromDrive'
      BY <1>1, <2>1, <2>2 DEF Start, RecordsFromDrive, IndexInv, TypeOK, fileVars
    <2>4. FlightSparesUser'
      BY <1>1
      DEF Start, FlightSparesUser, IndexInv, TypeOK, fileVars, Listing, Downloading, Recording
    <2> QED BY <2>3, <2>4
  <1>2. ASSUME NEW r \in Run, Decide(r) PROVE RecordsFromDrive' /\ FlightSparesUser'
    <2> PICK e \in todo[r] :
          LET act == Plan(mem[r], e.item, e.remote, e.path, disk[e.path]) IN
          \/ /\ act = Unchanged
             /\ mem' = [mem EXCEPT ![r] =
                  Insert(@, e.item, [path |-> e.path, remote |-> e.remote,
                                     local |-> disk[e.path]])]
             /\ UNCHANGED <<pc, cur, conflicts>>
          \/ UNCHANGED <<pc, cur, mem>>
          \/ /\ act = Download \/ (act \in Conflicts /\ overwrite[r])
             /\ cur' = [cur EXCEPT ![r] = e]
             /\ pc' = [pc EXCEPT ![r] = Downloading]
             /\ UNCHANGED <<mem, conflicts>>
      BY <1>2 DEF Decide
    <2>1. e.item \in Item /\ e.remote \in Remote /\ e.path \in Path
      BY DEF IndexInv, TypeOK, Entry
    <2>2. UNCHANGED <<disk, saved, overwrite>>
      BY <1>2 DEF Decide, fileVars
    <2> DEFINE act == Plan(mem[r], e.item, e.remote, e.path, disk[e.path])
               rec == [path |-> e.path, remote |-> e.remote, local |-> disk[e.path]]
    <2>3. /\ mem[r] \in State /\ Consistent(mem[r]) /\ StateFromDrive(mem[r])
          /\ disk[e.path] \in Content \cup {None}
      BY <2>1 DEF IndexInv, TypeOK, IndexConsistent, RecordsFromDrive
    <2>4. /\ act = Download => disk[e.path] \notin UserContent
          /\ act = Unchanged => disk[e.path] \in DriveContent
      BY <2>1, <2>3, PlanSparesUser
    <2>5. CASE act = Unchanged /\ mem' = [mem EXCEPT ![r] = Insert(@, e.item, rec)]
               /\ UNCHANGED <<pc, cur>>
      <3>1. rec \in Rec /\ rec.local \in DriveContent
        BY <2>1, <2>4, <2>5 DEF Rec, Content
      <3>2. StateFromDrive(Insert(mem[r], e.item, rec))
        BY <2>1, <2>3, <3>1, InsertFromDrive
      <3> HIDE DEF rec, act
      <3> QED BY <2>2, <2>5, <3>2
        DEF RecordsFromDrive, FlightSparesUser, IndexInv, TypeOK
    <2>6. CASE UNCHANGED <<pc, cur, mem>>
      BY <2>2, <2>6 DEF RecordsFromDrive, FlightSparesUser
    <2>7. CASE /\ act = Download \/ (act \in Conflicts /\ overwrite[r])
               /\ cur' = [cur EXCEPT ![r] = e]
               /\ pc' = [pc EXCEPT ![r] = Downloading]
               /\ UNCHANGED mem
      <3>1. overwrite[r] \/ disk[e.path] \notin UserContent
        BY <2>4, <2>7
      <3> HIDE DEF act
      <3> QED BY <2>2, <2>7, <3>1
        DEF RecordsFromDrive, FlightSparesUser, IndexInv, TypeOK, Downloading, Recording
    <2> QED BY <2>5, <2>6, <2>7
  <1>3. ASSUME NEW r \in Run, Commit(r) PROVE RecordsFromDrive' /\ FlightSparesUser'
    <2>1. drive[cur[r].item].data \in DriveContent /\ cur[r].path \in Path
      BY <1>3 DEF Commit, IndexInv, CurKnown, Entry, TypeOK, DriveItem
    <2>2. RecordsFromDrive'
      BY <1>3 DEF Commit, RecordsFromDrive
    <2>3. FlightSparesUser'
      <3> SUFFICES ASSUME NEW q \in Run
                   PROVE /\ pc'[q] = Downloading /\ ~overwrite'[q] =>
                              disk'[cur'[q].path] \notin UserContent
                         /\ pc'[q] = Recording => disk'[cur'[q].path] \notin UserContent
        BY DEF FlightSparesUser
      <3>1. CASE q = r
        BY <1>3, <2>1, <3>1, SyncAssumption
        DEF Commit, IndexInv, TypeOK, walkVars, Downloading, Recording
      <3>2. CASE q # r
        <4>1. lock = r /\ pc'[q] = pc[q]
          BY <1>3, <3>2 DEF Commit, IndexInv, TypeOK, RunsExclude, Idle, Downloading
        <4>2. pc[q] = Idle
          BY <3>2, <4>1 DEF IndexInv, RunsExclude
        <4> QED BY <4>1, <4>2 DEF Idle, Downloading, Recording
      <3> QED BY <3>1, <3>2
    <2> QED BY <2>2, <2>3
  <1>4. ASSUME NEW r \in Run, Record(r) PROVE RecordsFromDrive' /\ FlightSparesUser'
    <2> DEFINE e == cur[r]
               rec == [path |-> e.path, remote |-> e.remote, local |-> disk[e.path]]
    <2>1. e.item \in Item /\ e.remote \in Remote /\ e.path \in Path
      BY <1>4 DEF Record, IndexInv, CurKnown, Entry
    <2>2. FlightSparesUser'
      BY <1>4
      DEF Record, FlightSparesUser, IndexInv, TypeOK, fileVars, Stopped, Deciding,
          Downloading, Recording
    <2>3. CASE disk[e.path] = None
      BY <1>4, <2>2, <2>3 DEF Record, RecordsFromDrive, fileVars
    <2>4. CASE disk[e.path] # None
      <3>1. rec \in Rec /\ rec.local \in DriveContent
        BY <1>4, <2>1, <2>4
        DEF Record, Rec, Content, IndexInv, TypeOK, FlightSparesUser
      <3>2. StateFromDrive(Insert(mem[r], e.item, rec))
        BY <2>1, <3>1, InsertFromDrive DEF IndexInv, TypeOK, RecordsFromDrive
      <3>3. mem' = [mem EXCEPT ![r] = Insert(@, e.item, rec)] /\ saved' = saved
        BY <1>4, <2>4 DEF Record, fileVars
      <3> HIDE DEF rec, e
      <3> QED BY <2>2, <3>2, <3>3 DEF RecordsFromDrive, IndexInv, TypeOK
    <2> QED BY <2>3, <2>4
  <1>5. ASSUME NEW r \in Run,
               List(r) \/ NextFolder(r) \/ DownloadRefused(r) \/ Finish(r) \/ Stop(r)
        PROVE  RecordsFromDrive' /\ FlightSparesUser'
    <2>1. /\ UNCHANGED <<disk, saved, overwrite, mem>>
          /\ \A q \in Run : pc'[q] \in {Downloading, Recording} =>
               pc'[q] = pc[q] /\ cur'[q] = cur[q]
      BY <1>5
      DEF List, NextFolder, DownloadRefused, Finish, Stop, fileVars, walkVars, IndexInv,
          TypeOK, Listing, Deciding, Finished, Stopped, Downloading, Recording
    <2> QED BY <2>1 DEF RecordsFromDrive, FlightSparesUser
  <1>6. ASSUME NEW r \in Run, Save(r) \/ Crash(r)
        PROVE  RecordsFromDrive' /\ FlightSparesUser'
    <2>1. Release(r) /\ disk' = disk /\ saved' \in {saved, mem[r].records}
      BY <1>6 DEF Save, Crash, fileVars
    <2>2. RecordsFromDrive'
      BY <2>1, EmptyStateFine
      DEF Release, RecordsFromDrive, StateFromDrive, IndexInv, TypeOK
    <2>3. FlightSparesUser'
      BY <2>1
      DEF Release, FlightSparesUser, IndexInv, TypeOK, Idle, Downloading, Recording
    <2> QED BY <2>2, <2>3
  <1>7. ASSUME NEW i \in Item, DriveChange(i) PROVE RecordsFromDrive' /\ FlightSparesUser'
    BY <1>7 DEF DriveChange, RecordsFromDrive, FlightSparesUser, fileVars, walkVars
  <1>8. ASSUME NEW p \in Path, UserTouch(p) PROVE RecordsFromDrive' /\ FlightSparesUser'
    <2>1. ~InFlight(p) /\ UNCHANGED <<saved, mem, pc, cur, overwrite>>
      BY <1>8 DEF UserTouch, walkVars
    <2>2. \A q \in Path : q # p => disk'[q] = disk[q]
      BY <1>8 DEF UserTouch, IndexInv, TypeOK
    <2>3. \A q \in Run : pc[q] \in {Downloading, Recording} =>
                           cur[q].path \in Path /\ cur[q].path # p
      BY <2>1 DEF InFlight, IndexInv, CurKnown, Entry
    <2> QED BY <2>1, <2>2, <2>3 DEF RecordsFromDrive, FlightSparesUser
  <1>9. CASE UserLosesState
    BY <1>0, <1>9, NoRecordsFine
    DEF UserLosesState, RecordsFromDrive, FlightSparesUser, walkVars
  <1>10. CASE UNCHANGED vars
    BY <1>0, <1>10 DEF vars, RecordsFromDrive, FlightSparesUser, fileVars, walkVars
  <1> QED
    BY <1>0, <1>1, <1>2, <1>3, <1>4, <1>5, <1>6, <1>7, <1>8, <1>9, <1>10
    DEF Next, RunStep

(* Only the user, or a run with --overwrite, replaces a file of the user's.*)
LEMMA LossAction ==
  ASSUME LossInv, [Next]_vars, NEW p \in Path,
         disk[p] \in UserContent, disk'[p] # disk[p]
  PROVE  \/ userSteps' # userSteps
         \/ \E r \in Run : pc[r] = Downloading /\ overwrite[r]
  <1>1. ASSUME NEW r \in Run, Commit(r) PROVE pc[r] = Downloading /\ overwrite[r]
    <2>1. pc[r] = Downloading /\ disk' = [disk EXCEPT ![cur[r].path] = drive[cur[r].item].data]
      BY <1>1 DEF Commit
    <2>2. p = cur[r].path
      BY <2>1 DEF LossInv, IndexInv, TypeOK
    <2> QED BY <2>1, <2>2 DEF LossInv, FlightSparesUser
  <1>2. ASSUME NEW q \in Path, UserTouch(q) PROVE userSteps' # userSteps
    BY <1>2 DEF UserTouch, LossInv, IndexInv, TypeOK
  <1>3. disk' = disk \/ (\E r \in Run : Commit(r)) \/ (\E q \in Path : UserTouch(q))
    BY DEF Next, RunStep, Start, List, Decide, NextFolder, DownloadRefused, Record, Finish,
           Stop, Save, Crash, DriveChange, UserLosesState, fileVars, vars
  <1> QED BY <1>1, <1>2, <1>3

(* `drive +sync` without --overwrite destroys nothing only the user can    *)
(* have written, in any interleaving of runs, crashes and edits in which   *)
(* the user leaves alone the one file a run is downloading.                *)
THEOREM UserFilesSurvive ==
  ASSUME "editInFlight" \notin Env
  PROVE  Spec => NoUserLoss
  <1>1. LossInv /\ [Next]_vars => LossInv'
    BY LossStep
  <1>2. LossInv /\ [Next]_vars =>
          [\A p \in Path : disk[p] \in UserContent /\ disk'[p] # disk[p] =>
             \/ userSteps' # userSteps
             \/ \E r \in Run : pc[r] = Downloading /\ overwrite[r]]_vars
    BY LossAction
  <1> QED BY <1>1, <1>2, LossInit, PTL DEF Spec, NoUserLoss

-----------------------------------------------------------------------------
(* What the state file says of the files.                                  *)

(* SyncState::insert of the file now at a path keeps a state that          *)
(* describes the files everywhere else one that describes them there too.  *)
LEMMA InsertDescribes ==
  ASSUME NEW s \in State, NEW id \in Item, NEW rec \in Rec, NEW files,
         NEW paths \in SUBSET Path, Consistent(s),
         Describes(s, files, paths \ {rec.path}), rec.local = files[rec.path]
  PROVE  Describes(Insert(s, id, rec), files, paths)
  <1>0. rec.path \in Path /\ rec.path # None /\ None \notin Item
    BY PathNotNone, SyncAssumption DEF Rec
  <1>1. CASE s.records[id] = rec
    <2>1. s.by_path[rec.path] = id
      BY <1>0, <1>1 DEF Consistent
    <2>2. \A i \in Item : s.records[i].path = rec.path => i = id
      BY <1>0, <2>1 DEF Consistent
    <2>3. s.moved_from[rec.path] = NotMoved
      BY <1>0, <2>1 DEF Consistent
    <2> QED BY <1>1, <2>2, <2>3 DEF Insert, Describes
  <1>2. CASE s.records[id] # rec
    <2> DEFINE old == s.records[id]
               t == Insert(s, id, rec)
    <2>1. /\ \A i \in Item : t.records[i] = IF i = id THEN rec
                                 ELSE IF i = s.by_path[rec.path] THEN NoRec
                                 ELSE s.records[i]
          /\ \A p \in Path : t.moved_from[p] = IF p = rec.path THEN NotMoved
                                 ELSE IF p = old.path THEN [id |-> id, rec |-> old]
                                 ELSE s.moved_from[p]
      BY <1>2 DEF Insert
    <2> HIDE DEF t
    <2>2. ASSUME NEW i \in Item, t.records[i] # NoRec, t.records[i].path \in paths
          PROVE  files[t.records[i].path] = t.records[i].local
      <3>1. CASE i = id
        BY <2>1, <3>1
      <3>2. CASE i # id
        <4>1. t.records[i] = s.records[i] /\ s.by_path[rec.path] # i
          BY <2>1, <2>2, <3>2
        <4>2. s.records[i].path # rec.path
          BY <1>0, <4>1 DEF Consistent
        <4> QED BY <2>2, <4>1, <4>2 DEF Describes
      <3> QED BY <3>1, <3>2
    <2>3. ASSUME NEW p \in paths, t.moved_from[p] # NotMoved
          PROVE  files[p] = t.moved_from[p].rec.local
      <3>1. p \in paths \ {rec.path}
        BY <2>1, <2>3
      <3>2. CASE p = old.path
        <4>1. old # NoRec
          BY <3>2, PathNotNone DEF NoRec
        <4> QED BY <2>1, <3>1, <3>2, <4>1 DEF Describes
      <3>3. CASE p # old.path
        BY <2>1, <2>3, <3>1, <3>3 DEF Describes
      <3> QED BY <3>2, <3>3
    <2> QED BY <2>2, <2>3 DEF Describes, t
  <1> QED BY <1>1, <1>2

(* An item or a move, once known at a path, keeps the path from being      *)
(* taken for untracked.                                                    *)
LEMMA InsertKnows ==
  ASSUME NEW s \in State, NEW id \in Item, NEW rec \in Rec, NEW p \in Path,
         AtPath(s, p) # NotMoved
  PROVE  AtPath(Insert(s, id, rec), p) # NotMoved
  <1> DEFINE old == s.records[id]
             t == Insert(s, id, rec)
  <1>1. CASE s.records[id] = rec
    BY <1>1 DEF Insert
  <1>2. CASE s.records[id] # rec
    <2>1. /\ t.by_path[p] = IF p = rec.path THEN id
                            ELSE IF p = old.path THEN None ELSE s.by_path[p]
          /\ t.moved_from[p] = IF p = rec.path THEN NotMoved
                               ELSE IF p = old.path THEN [id |-> id, rec |-> old]
                               ELSE s.moved_from[p]
      BY <1>2 DEF Insert
    <2>2. id # None /\ NotMoved.id = None
      BY SyncAssumption DEF NotMoved
    <2> HIDE DEF t, old
    <2>3. CASE p = rec.path
      <3>1. AtPath(t, p).id = id
        BY <2>1, <2>2, <2>3 DEF AtPath
      <3> QED BY <2>2, <3>1 DEF t
    <2>4. CASE p # rec.path /\ p = old.path
      <3>1. AtPath(t, p) = [id |-> id, rec |-> old]
        BY <2>1, <2>2, <2>4 DEF AtPath
      <3> QED BY <2>2, <3>1 DEF t
    <2>5. CASE p # rec.path /\ p # old.path
      <3>1. CASE s.by_path[p] # None
        <4>1. AtPath(t, p).id # None
          BY <2>1, <2>5, <3>1 DEF AtPath
        <4> QED BY <2>2, <4>1 DEF t
      <3>2. CASE s.by_path[p] = None
        <4>1. AtPath(t, p) = AtPath(s, p)
          BY <2>1, <2>5, <3>2 DEF AtPath
        <4> QED BY <4>1 DEF t
      <3> QED BY <3>1, <3>2
    <2> QED BY <2>3, <2>4, <2>5
  <1> QED BY <1>1, <1>2

(* Of a path that a state describes and knows, plan_sync says no conflict. *)
LEMMA PlanKeepsTracked ==
  ASSUME NEW s \in State, NEW i, NEW remote, NEW p \in Path, NEW files, Consistent(s),
         NEW paths, p \in paths, Describes(s, files, paths), AtPath(s, p) # NotMoved
  PROVE  Plan(s, i, remote, p, files[p]) \notin Conflicts
  <1> DEFINE owner == AtPath(s, p)
  <1>1. files[p] = owner.rec.local
    <2>1. CASE s.by_path[p] # None
      <3>1. s.by_path[p] \in Item
        BY <2>1 DEF State
      <3>2. s.records[s.by_path[p]].path = p
        BY <3>1 DEF Consistent
      <3>3. s.records[s.by_path[p]] # NoRec
        BY <3>2, PathNotNone DEF NoRec
      <3> QED BY <2>1, <3>1, <3>2, <3>3 DEF AtPath, Describes
    <2>2. CASE s.by_path[p] = None
      BY <2>2 DEF AtPath, Describes
    <2> QED BY <2>1, <2>2
  <1>2. Plan(s, i, remote, p, files[p]) \in {Download, Unchanged}
    BY <1>1 DEF Plan, PlanTracked
  <1> QED BY <1>2 DEF Download, Unchanged, Conflicts, ModifiedLocally, Untracked

(* While a run is past the lock every other one is idle.                   *)
LEMMA OthersIdle ==
  ASSUME IndexInv, NEW r \in Run, pc[r] # Idle
  PROVE  lock = r /\ lock # None /\ \A q \in Run : q # r => pc[q] = Idle
  BY DriveSyncAssumption DEF IndexInv, RunsExclude

LEMMA SavedInit == Init => SavedInv
  <1> SUFFICES ASSUME Init PROVE SavedInv
    OBVIOUS
  <1>1. UnusableEmpty /\ SavedTrue /\ MemTrue /\ CleanMem /\ RenamedThere
    BY DEF Init, UnusableEmpty, SavedTrue, MemTrue, CleanMem, RenamedThere, NoRecords, Idle,
           Recording
  <1> QED BY <1>1, IndexInit DEF SavedInv

(* One part per action: the state file, and what the active run remembers. *)
LEMMA SavedStep ==
  ASSUME "crash" \notin Env, SavedInv, [Next]_vars
  PROVE  SavedInv'
  <1> USE DEF SavedInv
  <1> DEFINE Kept == UnusableEmpty' /\ SavedTrue' /\ MemTrue' /\ CleanMem'
  <1>0. IndexInv'
    BY IndexStep
  <1>1. ASSUME NEW r \in Run, Start(r) PROVE Kept
    <2> DEFINE s == IF unusable THEN LoadState(NoRecords, TRUE) ELSE LoadState(saved, FALSE)
    <2>1. s.records = saved /\ \A p \in Path : s.moved_from[p] = NotMoved
      BY DEF LoadState, UnusableEmpty
    <2> HIDE DEF s
    <2>2. /\ mem' = [mem EXCEPT ![r] = s]
          /\ lock = None /\ lock' = r
          /\ UNCHANGED <<disk, saved, unusable, byUser>>
      BY <1>1 DEF Start, LockSyncDir, fileVars, s
    <2>3. UnusableEmpty' /\ SavedTrue'
      BY <2>2, DriveSyncAssumption DEF UnusableEmpty, SavedTrue
    <2>4. ASSUME NEW q \in Run, pc'[q] # Idle
          PROVE  /\ Describes(mem'[q], disk', {p \in Path \ byUser' : Recorded(q, p)'})
                 /\ \A i \in Item : saved'[i] \in {NoRec, mem'[q].records[i]}
      <3>1. q = r
        BY <1>0, <2>2, <2>4 DEF IndexInv, RunsExclude
      <3>2. mem'[r] = s
        BY <2>2 DEF IndexInv, TypeOK
      <3>3. \A i \in Item : saved[i] # NoRec /\ saved[i].path \notin byUser =>
              disk[saved[i].path] = saved[i].local
        BY <2>2 DEF SavedTrue
      <3> QED BY <2>1, <2>2, <3>1, <3>2, <3>3 DEF Describes
    <2> QED BY <2>3, <2>4 DEF MemTrue, CleanMem
  <1>2. ASSUME NEW r \in Run, pc[r] # Idle, pc'[r] # Idle,
               mem' = mem \/ \E id \in Item, rec \in Rec :
                               mem' = [mem EXCEPT ![r] = Insert(@, id, rec)],
               Describes(mem'[r], disk', {p \in Path \ byUser' : Recorded(r, p)'}),
               UNCHANGED <<saved, unusable, lock>>
        PROVE  Kept
    <2>1. /\ lock = r /\ lock # None
          /\ \A q \in Run : q # r => pc'[q] = Idle
      BY <1>0, <1>2, OthersIdle DEF IndexInv, RunsExclude
    <2>2. UnusableEmpty' /\ SavedTrue'
      BY <1>2, <2>1 DEF UnusableEmpty, SavedTrue
    <2>3. MemTrue'
      BY <1>2, <2>1 DEF MemTrue
    <2>4. ~mem'[r].dirty => ~mem[r].dirty /\ mem'[r].records = mem[r].records
      BY <1>2 DEF IndexInv, TypeOK, Insert
    <2>5. CleanMem'
      BY <1>2, <2>1, <2>4 DEF CleanMem
    <2> QED BY <2>2, <2>3, <2>5
  <1>3. ASSUME NEW r \in Run, Decide(r) PROVE Kept
    <2>1. /\ pc[r] # Idle /\ pc'[r] # Idle
          /\ \A p \in Path : Recorded(r, p) /\ Recorded(r, p)'
          /\ UNCHANGED <<disk, byUser, saved, unusable, lock>>
      BY <1>3
      DEF Decide, Recorded, IndexInv, TypeOK, Idle, Deciding, Downloading, Recording, fileVars
    <2>2. Describes(mem[r], disk, Path \ byUser)
      BY <2>1 DEF MemTrue
    <2>3. CASE mem' = mem
      <3>1. Describes(mem'[r], disk', {p \in Path \ byUser' : Recorded(r, p)'})
        BY <2>1, <2>2, <2>3
      <3> QED BY <1>2, <2>1, <2>3, <3>1
    <2>4. CASE mem' # mem
      <3> PICK e \in todo[r] :
            /\ Plan(mem[r], e.item, e.remote, e.path, disk[e.path]) = Unchanged
            /\ mem' = [mem EXCEPT ![r] =
                 Insert(@, e.item, [path |-> e.path, remote |-> e.remote,
                                    local |-> disk[e.path]])]
        BY <1>3, <2>4 DEF Decide
      <3> DEFINE rec == [path |-> e.path, remote |-> e.remote, local |-> disk[e.path]]
      <3>1. e.item \in Item /\ e.remote \in Remote /\ e.path \in Path
        BY DEF IndexInv, TypeOK, Entry
      <3>2. disk[e.path] # None
        BY DEF Plan, Download, Unchanged
      <3>3. rec \in Rec
        BY <3>1, <3>2 DEF Rec, IndexInv, TypeOK
      <3>4. rec.local = disk[rec.path] /\ Describes(mem[r], disk, (Path \ byUser) \ {rec.path})
        BY <2>2 DEF Describes
      <3>5. mem[r] \in State /\ Consistent(mem[r])
        BY DEF IndexInv, TypeOK, IndexConsistent
      <3>6. mem' = [mem EXCEPT ![r] = Insert(@, e.item, rec)]
        OBVIOUS
      <3> HIDE DEF rec
      <3>7. Describes(Insert(mem[r], e.item, rec), disk, Path \ byUser)
        BY <3>1, <3>3, <3>4, <3>5, InsertDescribes
      <3>8. Describes(mem'[r], disk', {p \in Path \ byUser' : Recorded(r, p)'})
        BY <2>1, <3>6, <3>7 DEF IndexInv, TypeOK
      <3> QED BY <1>2, <2>1, <3>1, <3>3, <3>6, <3>8
    <2> QED BY <2>3, <2>4
  <1>4. ASSUME NEW r \in Run, Commit(r) PROVE Kept
    <2> DEFINE p0 == cur[r].path
    <2>1. /\ pc[r] # Idle /\ pc'[r] = Recording /\ pc'[r] # Idle
          /\ mem' = mem /\ cur' = cur
          /\ UNCHANGED <<saved, unusable, lock>>
          /\ byUser' = byUser \ {p0}
          /\ \A p \in Path : p # p0 => disk'[p] = disk[p]
      BY <1>4
      DEF Commit, IndexInv, TypeOK, Idle, Downloading, Recording, walkVars
    <2>2. \A p \in Path : Recorded(r, p)
      BY <1>4 DEF Commit, Recorded, Downloading, Recording
    <2>3. Describes(mem[r], disk, Path \ byUser)
      BY <2>1, <2>2 DEF MemTrue
    <2>4. {p \in Path \ byUser' : Recorded(r, p)'} = (Path \ byUser) \ {p0}
      BY <2>1 DEF Recorded
    <2> HIDE DEF p0
    <2>5. Describes(mem[r], disk', (Path \ byUser) \ {p0})
      BY <2>1, <2>3 DEF Describes
    <2> QED BY <1>2, <2>1, <2>4, <2>5
  <1>5. ASSUME NEW r \in Run, Record(r) PROVE Kept
    <2> DEFINE e == cur[r]
               rec == [path |-> e.path, remote |-> e.remote, local |-> disk[e.path]]
    <2>1. e.item \in Item /\ e.remote \in Remote /\ e.path \in Path
      BY <1>5 DEF Record, IndexInv, CurKnown, Entry
    <2>2. /\ pc[r] = Recording /\ pc[r] # Idle /\ pc'[r] # Idle
          /\ UNCHANGED <<disk, byUser, saved, unusable, lock>>
          /\ pc'[r] # Recording
      BY <1>5
      DEF Record, IndexInv, TypeOK, Idle, Deciding, Stopped, Recording, fileVars
    <2>3. Describes(mem[r], disk, (Path \ byUser) \ {e.path})
      BY <2>2 DEF MemTrue, Recorded
    <2>4. {p \in Path \ byUser' : Recorded(r, p)'} = Path \ byUser
      BY <2>2 DEF Recorded
    <2>5. CASE disk[e.path] = None
      <3>1. mem' = mem
        BY <1>5, <2>5 DEF Record
      <3>2. e.path \in byUser
        BY <2>2, <2>5 DEF RenamedThere
      <3> QED BY <1>2, <2>2, <2>3, <2>4, <3>1, <3>2
    <2>6. CASE disk[e.path] # None
      <3>1. rec \in Rec
        BY <2>1, <2>6 DEF Rec, IndexInv, TypeOK
      <3>2. mem' = [mem EXCEPT ![r] = Insert(@, e.item, rec)]
        BY <1>5, <2>6 DEF Record
      <3>3. mem[r] \in State /\ Consistent(mem[r])
        BY DEF IndexInv, TypeOK, IndexConsistent
      <3>4. rec.path = e.path /\ rec.local = disk[rec.path]
        OBVIOUS
      <3> HIDE DEF rec, e
      <3>5. Describes(Insert(mem[r], e.item, rec), disk, Path \ byUser)
        BY <2>1, <2>3, <3>1, <3>3, <3>4, InsertDescribes
      <3>6. Describes(mem'[r], disk', {p \in Path \ byUser' : Recorded(r, p)'})
        BY <2>2, <2>4, <3>2, <3>5 DEF IndexInv, TypeOK
      <3> QED BY <1>2, <2>1, <2>2, <3>1, <3>2, <3>6
    <2> QED BY <2>5, <2>6
  <1>6. ASSUME NEW r \in Run,
               List(r) \/ NextFolder(r) \/ DownloadRefused(r) \/ Finish(r) \/ Stop(r)
        PROVE  Kept
    <2>1. /\ pc[r] # Idle /\ pc'[r] # Idle
          /\ mem' = mem
          /\ UNCHANGED <<disk, byUser, saved, unusable, lock>>
          /\ \A p \in Path : Recorded(r, p) /\ Recorded(r, p)'
      BY <1>6
      DEF List, NextFolder, DownloadRefused, Finish, Stop, fileVars, walkVars, IndexInv,
          TypeOK, Recorded, Idle, Listing, Deciding, Finished, Stopped, Downloading, Recording
    <2>2. Describes(mem[r], disk, Path \ byUser)
      BY <2>1 DEF MemTrue
    <2>3. Describes(mem'[r], disk', {p \in Path \ byUser' : Recorded(r, p)'})
      BY <2>1, <2>2
    <2> QED BY <1>2, <2>1, <2>3
  <1>7. ASSUME NEW r \in Run, Save(r) PROVE Kept
    <2>1. /\ pc[r] # Idle /\ lock' = None
          /\ UNCHANGED <<disk, byUser>>
          /\ \A p \in Path : Recorded(r, p)
      BY <1>7 DEF Save, Release, Recorded, Idle, Finished, Stopped, Recording
    <2>2. \A q \in Run : pc'[q] = Idle
      BY <1>0, <2>1, DriveSyncAssumption DEF IndexInv, RunsExclude
    <2>3. Describes(mem[r], disk, Path \ byUser) /\ mem[r] \in State
      BY <2>1 DEF MemTrue, IndexInv, TypeOK
    <2>4. \A i \in Item : saved'[i] # NoRec => saved'[i] = mem[r].records[i]
      BY <1>7, <2>1 DEF Save, CleanMem
    <2>5. SavedTrue'
      BY <2>1, <2>3, <2>4, RecFields DEF SavedTrue, Describes, State
    <2>6. UnusableEmpty'
      BY <1>7 DEF Save, UnusableEmpty
    <2> QED BY <2>2, <2>5, <2>6 DEF MemTrue, CleanMem
  <1>8. ASSUME NEW p \in Path, UserTouch(p) PROVE Kept
    <2>1. /\ byUser' = byUser \cup {p}
          /\ UNCHANGED <<saved, unusable, lock, pc, mem, cur>>
          /\ \A q \in Path : q # p => disk'[q] = disk[q]
      BY <1>8 DEF UserTouch, walkVars, IndexInv, TypeOK
    <2>2. \A i \in Item : saved[i] \in MaybeRec
      BY DEF IndexInv, TypeOK
    <2>3. SavedTrue'
      BY <2>1, <2>2, RecFields DEF SavedTrue
    <2>4. MemTrue'
      BY <2>1 DEF MemTrue, Describes, Recorded
    <2> QED BY <2>1, <2>3, <2>4 DEF UnusableEmpty, CleanMem
  <1>9. ASSUME UserLosesState PROVE Kept
    <2>1. saved' = NoRecords /\ byUser' = Path /\ UNCHANGED <<disk, lock, pc, mem, cur>>
      BY <1>9 DEF UserLosesState, walkVars
    <2>2. UnusableEmpty' /\ SavedTrue' /\ CleanMem'
      BY <2>1 DEF UnusableEmpty, SavedTrue, CleanMem, NoRecords
    <2>3. MemTrue'
      BY <2>1 DEF MemTrue, Describes
    <2> QED BY <2>2, <2>3
  <1>10. ASSUME UNCHANGED vars \/ \E i \in Item : DriveChange(i) PROVE Kept
    <2>1. UNCHANGED <<disk, saved, unusable, byUser, lock, pc, mem, cur>>
      BY <1>10 DEF vars, DriveChange, fileVars, walkVars
    <2> QED BY <2>1 DEF UnusableEmpty, SavedTrue, MemTrue, CleanMem, Recorded
  <1>11. RenamedThere'
    <2>1. ASSUME NEW r \in Run, Commit(r) PROVE RenamedThere'
      <3>1. \A q \in Run : q # r => pc'[q] # Recording
        BY <1>0, <2>1, OthersIdle
        DEF Commit, IndexInv, RunsExclude, Idle, Downloading, Recording
      <3>2. disk'[cur'[r].path] # None
        BY <2>1, SyncAssumption
        DEF Commit, walkVars, IndexInv, CurKnown, TypeOK, Entry, DriveItem
      <3> QED BY <3>1, <3>2 DEF RenamedThere
    <2>2. ASSUME NEW p \in Path, UserTouch(p) PROVE RenamedThere'
      <3>1. /\ byUser' = byUser \cup {p}
            /\ UNCHANGED <<pc, cur>>
            /\ \A q \in Path : q # p => disk'[q] = disk[q]
        BY <2>2 DEF UserTouch, walkVars, IndexInv, TypeOK
      <3>2. \A r \in Run : pc[r] = Recording => cur[r].path \in Path
        BY DEF IndexInv, CurKnown, Entry
      <3> QED BY <3>1, <3>2 DEF RenamedThere
    <2>3. CASE UserLosesState
      <3>1. byUser' = Path /\ UNCHANGED <<pc, cur>>
        BY <2>3 DEF UserLosesState, walkVars
      <3>2. \A r \in Run : pc[r] = Recording => cur[r].path \in Path
        BY DEF IndexInv, CurKnown, Entry
      <3> QED BY <3>1, <3>2 DEF RenamedThere
    <2>4. ASSUME NEW r \in Run,
                 \/ Start(r) \/ List(r) \/ Decide(r) \/ NextFolder(r)
                 \/ DownloadRefused(r) \/ Record(r) \/ Finish(r) \/ Stop(r) \/ Save(r)
          PROVE  RenamedThere'
      <3>1. /\ UNCHANGED <<disk, byUser>>
            /\ \A q \in Run : pc'[q] = Recording => pc[q] = Recording /\ cur'[q] = cur[q]
        BY <2>4
        DEF Start, List, Decide, NextFolder, DownloadRefused, Record, Finish, Stop, Save,
            Release, fileVars, walkVars, IndexInv, TypeOK, Idle, Listing, Deciding,
            Finished, Stopped, Downloading, Recording
      <3> QED BY <3>1 DEF RenamedThere
    <2>5. CASE UNCHANGED vars \/ \E i \in Item : DriveChange(i)
      <3>1. UNCHANGED <<disk, byUser, pc, cur>>
        BY <2>5 DEF vars, DriveChange, fileVars, walkVars
      <3> QED BY <3>1 DEF RenamedThere
    <2> QED BY <2>1, <2>2, <2>3, <2>4, <2>5 DEF Next, RunStep, Crash
  <1>12. Kept
    BY <1>0, <1>1, <1>3, <1>4, <1>5, <1>6, <1>7, <1>8, <1>9, <1>10
    DEF Next, RunStep, Crash
  <1> QED BY <1>0, <1>11, <1>12

(* What a run saves is true of the files, at every path the user left      *)
(* alone.                                                                  *)
LEMMA SavedAction ==
  ASSUME "crash" \notin Env, SavedInv, SavedInv', NEW r \in Run, Save(r), NEW i \in Item,
         saved'[i] # NoRec, saved'[i].path \notin byUser
  PROVE  disk[saved'[i].path] = saved'[i].local
  <1>1. lock' = None /\ UNCHANGED <<disk, byUser>>
    BY DEF Save, Release
  <1> QED BY <1>1 DEF SavedInv, SavedTrue

(* A run that ends, with any number of renames, reverts, edits and lost    *)
(* state files before and beside it, saves a state that describes the      *)
(* files the user left alone, as long as no process is killed: a killed    *)
(* one leaves a file renamed into place that its record does not describe. *)
THEOREM StateFileTrue ==
  ASSUME "crash" \notin Env
  PROVE  Spec => SavedIsTrue
  <1>1. SavedInv /\ [Next]_vars => SavedInv'
    BY SavedStep
  <1>2. SavedInv /\ SavedInv' /\ [Next]_vars =>
          [\A r \in Run : Save(r) =>
             \A i \in Item : saved'[i] # NoRec /\ saved'[i].path \notin byUser =>
               disk[saved'[i].path] = saved'[i].local]_vars
    BY SavedAction
  <1> QED BY <1>1, <1>2, SavedInit, PTL DEF Spec, SavedIsTrue

-----------------------------------------------------------------------------
(* Paths the state file tracks.                                            *)

(* disambiguate gives no two children of a folder the same path, and every *)
(* one of them a path in the folder's directory.                           *)
LEMMA LocalPathOwn ==
  ASSUME NEW f \in Folder, NEW i \in Children(f), NEW j \in Children(f)
  PROVE  /\ LocalPath(f, i)[1] = f
         /\ LocalPath(f, i) = LocalPath(f, j) => i = j
  <1>1. i \in Item /\ j \in Item /\ None \notin Item
    BY SyncAssumption DEF Children
  <1>2. \A k \in Children(f) :
          LocalPath(f, k) = <<f, IF \E l \in Children(f) \ {k} : drive[l].name = drive[k].name
                                 THEN k ELSE None, drive[k].name>>
    BY DEF LocalPath
  <1>3. ASSUME LocalPath(f, i) = LocalPath(f, j), i # j PROVE FALSE
    <2>1. drive[i].name = drive[j].name
      BY <1>2, <1>3
    <2>2. LocalPath(f, i)[2] = i /\ LocalPath(f, j)[2] = j
      BY <1>2, <1>3, <2>1
    <2> QED BY <1>3, <2>2
  <1> QED BY <1>2, <1>3

(* A run plans each path once, and reports nothing once it has ended.      *)
LEMMA PlannedStep ==
  ASSUME IndexInv, PlannedOnce, IdleReportsNothing, [Next]_vars
  PROVE  PlannedOnce' /\ IdleReportsNothing'
  <1> USE DEF IndexInv
  <1>1. ASSUME NEW r \in Run,
               \A q \in Run : q # r =>
                 /\ todo'[q] = todo[q] /\ conflicts'[q] = conflicts[q]
                 /\ visited'[q] = visited[q] /\ pc'[q] = pc[q] /\ cur'[q] = cur[q],
               PlansOnce(r)', pc'[r] = Idle => conflicts'[r] = {}
        PROVE  PlannedOnce' /\ IdleReportsNothing'
    BY <1>1 DEF PlannedOnce, PlansOnce, InHand, IdleReportsNothing
  <1>2. ASSUME NEW r \in Run, List(r) PROVE PlannedOnce' /\ IdleReportsNothing'
    <2>1. /\ pc'[r] \in {Listing, Deciding} /\ InHand(r)' = {} /\ conflicts' = conflicts
          /\ cur' = cur
      BY <1>2 DEF List, InHand, TypeOK, reportVars, Listing, Deciding, Downloading, Recording
    <2>2. PICK f \in pending[r] :
            \/ todo'[r] = todo[r] /\ visited'[r] = visited[r]
            \/ /\ f \notin visited[r]
               /\ visited'[r] = visited[r] \cup {f}
               /\ todo'[r] = Entries(f)
      BY <1>2 DEF List, TypeOK
    <2>3. f \in Folder
      BY DEF TypeOK
    <2>4. \A e \in Entries(f) : /\ e.path[1] = f
                                /\ e = [item |-> e.item, remote |-> RemoteOf(e.item),
                                        path |-> LocalPath(f, e.item)]
                                /\ e.item \in Children(f)
      BY <2>3, LocalPathOwn DEF Entries
    <2>5. \A e, d \in Entries(f) : e.path = d.path => e = d
      BY <2>3, <2>4, LocalPathOwn
    <2>6. PlansOnce(r)
      BY DEF PlannedOnce
    <2>7. PlansOnce(r)'
      BY <2>1, <2>2, <2>4, <2>5, <2>6 DEF PlansOnce
    <2>8. pc'[r] # Idle
      BY <2>1 DEF Idle, Listing, Deciding
    <2>9. \A q \in Run : q # r =>
            todo'[q] = todo[q] /\ visited'[q] = visited[q] /\ pc'[q] = pc[q]
      BY <1>2 DEF List, TypeOK
    <2> QED BY <1>1, <2>1, <2>7, <2>8, <2>9
  <1>3. ASSUME NEW r \in Run, Decide(r) PROVE PlannedOnce' /\ IdleReportsNothing'
    <2> PICK e \in todo[r] :
          /\ todo' = [todo EXCEPT ![r] = @ \ {e}]
          /\ \/ UNCHANGED <<pc, cur, conflicts>>
             \/ /\ conflicts' = [conflicts EXCEPT ![r] = @ \cup {e}]
                /\ UNCHANGED <<pc, cur>>
             \/ /\ cur' = [cur EXCEPT ![r] = e]
                /\ pc' = [pc EXCEPT ![r] = Downloading]
                /\ UNCHANGED conflicts
      BY <1>3 DEF Decide
    <2>1. pc[r] = Deciding /\ visited' = visited
      BY <1>3 DEF Decide
    <2>2. PlansOnce(r) /\ InHand(r) = {}
      BY <2>1 DEF PlannedOnce, InHand, Deciding, Downloading, Recording
    <2>3. todo'[r] = todo[r] \ {e}
      BY DEF TypeOK
    <2>4. \/ InHand(r)' = {} /\ conflicts'[r] \subseteq conflicts[r] \cup {e}
          \/ InHand(r)' = {e} /\ conflicts'[r] = conflicts[r]
      BY <2>1 DEF InHand, TypeOK, Deciding, Downloading, Recording
    <2>5. PlansOnce(r)'
      BY <2>1, <2>2, <2>3, <2>4 DEF PlansOnce
    <2>6. pc'[r] # Idle
      BY <2>1 DEF TypeOK, Idle, Deciding, Downloading
    <2>7. \A q \in Run : q # r =>
                 /\ todo'[q] = todo[q] /\ conflicts'[q] = conflicts[q]
                 /\ visited'[q] = visited[q] /\ pc'[q] = pc[q] /\ cur'[q] = cur[q]
      BY <2>1 DEF TypeOK
    <2> QED BY <1>1, <2>5, <2>6, <2>7
  <1>4. ASSUME NEW r \in Run,
               \/ Start(r) \/ NextFolder(r) \/ Commit(r) \/ DownloadRefused(r)
               \/ Record(r) \/ Finish(r) \/ Stop(r)
        PROVE  PlannedOnce' /\ IdleReportsNothing'
    <2>1. /\ UNCHANGED <<todo, visited, conflicts>>
          /\ InHand(r)' \subseteq InHand(r)
          /\ pc'[r] # Idle
          /\ \A q \in Run : q # r => pc'[q] = pc[q] /\ cur'[q] = cur[q]
      BY <1>4
      DEF Start, NextFolder, Commit, DownloadRefused, Record, Finish, Stop, InHand, TypeOK,
          walkVars, reportVars, Idle, Listing, Deciding, Downloading, Recording, Finished,
          Stopped
    <2>2. PlansOnce(r)'
      BY <2>1 DEF PlannedOnce, PlansOnce
    <2> QED BY <1>1, <2>1, <2>2
  <1>5. ASSUME NEW r \in Run, Save(r) \/ Crash(r) PROVE PlannedOnce' /\ IdleReportsNothing'
    <2>1. Release(r)
      BY <1>5 DEF Save, Crash
    <2>2. todo'[r] = {} /\ conflicts'[r] = {} /\ InHand(r)' = {}
      BY <2>1 DEF Release, TypeOK, InHand, Idle, Downloading, Recording
    <2>3. PlansOnce(r)'
      BY <2>2 DEF PlansOnce
    <2>4. \A q \in Run : q # r =>
                 /\ todo'[q] = todo[q] /\ conflicts'[q] = conflicts[q]
                 /\ visited'[q] = visited[q] /\ pc'[q] = pc[q] /\ cur'[q] = cur[q]
      BY <2>1 DEF Release, TypeOK
    <2> QED BY <1>1, <2>2, <2>3, <2>4
  <1>6. ASSUME UNCHANGED <<todo, visited, conflicts, pc, cur>>
        PROVE  PlannedOnce' /\ IdleReportsNothing'
    BY <1>6 DEF PlannedOnce, PlansOnce, InHand, IdleReportsNothing
  <1>7. CASE \/ \E i \in Item : DriveChange(i)
             \/ \E p \in Path : UserTouch(p)
             \/ UserLosesState
             \/ UNCHANGED vars
    BY <1>6, <1>7 DEF DriveChange, UserTouch, UserLosesState, vars, walkVars, reportVars
  <1> QED BY <1>2, <1>3, <1>4, <1>5, <1>7 DEF Next, RunStep

(* A run knows the paths the state file tracks from its start to its end.  *)
LEMMA TrackedKnownStep ==
  ASSUME SavedInv, SavedInv', TrackedKnown, [Next]_vars
  PROVE  TrackedKnown'
  <1> USE DEF SavedInv, IndexInv
  <1>1. ASSUME NEW r \in Run, Start(r) PROVE TrackedKnown'
    <2> DEFINE s == IF unusable THEN LoadState(NoRecords, TRUE) ELSE LoadState(saved, FALSE)
    <2>1. Consistent(s) /\ s.records = saved
      BY NoRecordsFine, LoadConsistent DEF TypeOK, LoadState, UnusableEmpty
    <2> HIDE DEF s
    <2>2. mem'[r] = s /\ saved' = saved /\ lock' = r
      BY <1>1 DEF Start, TypeOK, fileVars, s
    <2>3. ASSUME NEW i \in Item, saved[i] # NoRec PROVE AtPath(s, saved[i].path) # NotMoved
      <3>1. saved[i].path \in Path
        BY <2>3, RecFields DEF TypeOK
      <3>2. s.by_path[saved[i].path] = i
        BY <2>1, <3>1 DEF Consistent
      <3>3. AtPath(s, saved[i].path).id = i
        BY <3>2, SyncAssumption DEF AtPath
      <3> QED BY <3>3, SyncAssumption DEF NotMoved
    <2> QED BY <2>2, <2>3 DEF TrackedKnown, RunsExclude
  <1>2. ASSUME NEW r \in Run, Decide(r) \/ Record(r) PROVE TrackedKnown'
    <2>1. saved' = saved /\ pc[r] # Idle /\ \A q \in Run : q # r => pc[q] = Idle
      BY <1>2, OthersIdle DEF Decide, Record, fileVars, Idle, Deciding, Recording
    <2>2. \A q \in Run : q # r => pc'[q] = Idle
      BY <1>2, <2>1 DEF Decide, Record, TypeOK
    <2>3. mem'[r] = mem[r] \/ \E id \in Item, rec \in Rec : mem'[r] = Insert(mem[r], id, rec)
      <3>1. ASSUME NEW e \in todo[r] \cup {cur[r]}, e \in Entry,
                   mem' = [mem EXCEPT ![r] =
                       Insert(@, e.item, [path |-> e.path, remote |-> e.remote,
                                          local |-> disk[e.path]])],
                   disk[e.path] # None
            PROVE  \E id \in Item, rec \in Rec : mem'[r] = Insert(mem[r], id, rec)
        <4> DEFINE rec == [path |-> e.path, remote |-> e.remote, local |-> disk[e.path]]
        <4>1. e.item \in Item /\ rec \in Rec
          BY <3>1 DEF Entry, Rec, TypeOK
        <4>2. mem'[r] = Insert(mem[r], e.item, rec)
          BY <3>1 DEF TypeOK
        <4> HIDE DEF rec
        <4> QED BY <4>1, <4>2
      <3>2. CASE Decide(r)
        <4>1. PICK e \in todo[r] :
                LET act == Plan(mem[r], e.item, e.remote, e.path, disk[e.path]) IN
                \/ /\ act = Unchanged
                   /\ mem' = [mem EXCEPT ![r] =
                        Insert(@, e.item, [path |-> e.path, remote |-> e.remote,
                                           local |-> disk[e.path]])]
                \/ mem' = mem
          BY <3>2 DEF Decide
        <4>2. e \in Entry
          BY DEF TypeOK
        <4>3. CASE mem' = mem
          BY <4>3
        <4>4. CASE mem' # mem
          <5>1. disk[e.path] # None
            BY <4>1, <4>4 DEF Plan, Download, Unchanged
          <5> QED BY <3>1, <4>1, <4>2, <4>4, <5>1
        <4> QED BY <4>3, <4>4
      <3>3. CASE Record(r)
        <4>1. cur[r] \in Entry
          BY <3>3 DEF Record, CurKnown
        <4> QED BY <3>1, <3>3, <4>1 DEF Record
      <3> QED BY <1>2, <3>2, <3>3
    <2>4. ASSUME NEW i \in Item, saved[i] # NoRec
          PROVE  AtPath(mem'[r], saved[i].path) # NotMoved
      <3>1. saved[i].path \in Path
        BY <2>4, RecFields DEF TypeOK
      <3>2. AtPath(mem[r], saved[i].path) # NotMoved
        BY <2>1, <2>4 DEF TrackedKnown
      <3>3. mem[r] \in State
        BY DEF TypeOK
      <3> QED BY <2>3, <3>1, <3>2, <3>3, InsertKnows
    <2> QED BY <2>1, <2>2, <2>4 DEF TrackedKnown
  <1>3. ASSUME NEW r \in Run,
               List(r) \/ NextFolder(r) \/ Commit(r) \/ DownloadRefused(r) \/ Finish(r) \/ Stop(r)
        PROVE  TrackedKnown'
    <2>1. mem' = mem /\ saved' = saved /\ pc[r] # Idle /\ \A q \in Run : q # r => pc'[q] = pc[q]
      BY <1>3
      DEF List, NextFolder, Commit, DownloadRefused, Finish, Stop, fileVars, TypeOK, Idle,
          Listing, Deciding, Downloading
    <2> QED BY <2>1 DEF TrackedKnown
  <1>4. ASSUME NEW r \in Run, Save(r) \/ Crash(r) PROVE TrackedKnown'
    <2>1. lock' = None
      BY <1>4 DEF Save, Crash, Release
    <2> QED BY <2>1, DriveSyncAssumption DEF TrackedKnown, RunsExclude
  <1>5. CASE UserLosesState
    BY <1>5 DEF UserLosesState, TrackedKnown, NoRecords
  <1>6. CASE \/ \E i \in Item : DriveChange(i)
             \/ \E p \in Path : UserTouch(p)
             \/ UNCHANGED vars
    <2>1. UNCHANGED <<mem, saved, pc>>
      BY <1>6 DEF DriveChange, UserTouch, vars, fileVars
    <2> QED BY <2>1 DEF TrackedKnown
  <1> QED BY <1>1, <1>2, <1>3, <1>4, <1>5, <1>6 DEF Next, RunStep

LEMMA TrackedStep ==
  ASSUME "crash" \notin Env, TrackedInv, [Next]_vars
  PROVE  TrackedInv'
  <1> USE DEF TrackedInv
  <1>0. SavedInv' /\ TrackedKnown' /\ PlannedOnce' /\ IdleReportsNothing'
    BY SavedStep, TrackedKnownStep, PlannedStep DEF SavedInv
  <1> USE DEF SavedInv, IndexInv
  <1>1. ASSUME NEW r \in Run, Decide(r) PROVE TrackedNeverConflicts'
    <2>1. /\ UNCHANGED <<saved, byUser>>
          /\ pc[r] = Deciding /\ pc[r] # Idle
          /\ \A q \in Run : q # r => conflicts'[q] = conflicts[q]
      BY <1>1 DEF Decide, TypeOK, fileVars, Idle, Deciding
    <2>2. ASSUME NEW c \in conflicts'[r], c \notin conflicts[r], NEW i \in Item,
                 saved[i].path = c.path
          PROVE  c.path \in byUser
      <3>1. /\ c \in todo[r]
            /\ Plan(mem[r], c.item, c.remote, c.path, disk[c.path]) \in Conflicts
        BY <1>1, <2>2 DEF Decide, TypeOK
      <3>2. c.path \in Path
        BY <3>1 DEF TypeOK, Entry
      <3>3. saved[i] # NoRec
        BY <2>2, <3>2, PathNotNone DEF NoRec
      <3>4. AtPath(mem[r], c.path) # NotMoved
        BY <2>1, <2>2, <3>3 DEF TrackedKnown
      <3>5. Describes(mem[r], disk, Path \ byUser)
        BY <2>1 DEF MemTrue, Recorded, Deciding, Recording
      <3>6. mem[r] \in State /\ Consistent(mem[r])
        BY DEF TypeOK, IndexConsistent
      <3> QED BY <3>1, <3>2, <3>4, <3>5, <3>6, PlanKeepsTracked
    <2> QED BY <2>1, <2>2 DEF TrackedNeverConflicts
  <1>2. ASSUME NEW r \in Run, Commit(r) PROVE TrackedNeverConflicts'
    <2>1. /\ UNCHANGED <<saved, conflicts>>
          /\ byUser' = byUser \ {cur[r].path}
          /\ pc[r] # Idle /\ InHand(r) = {cur[r]}
      BY <1>2 DEF Commit, reportVars, InHand, Idle, Downloading
    <2>2. \A c \in conflicts[r] : c.path # cur[r].path
      BY <2>1 DEF PlannedOnce, PlansOnce
    <2>3. \A q \in Run : q # r => conflicts[q] = {}
      BY <2>1, OthersIdle DEF IdleReportsNothing
    <2> QED BY <2>1, <2>2, <2>3 DEF TrackedNeverConflicts
  <1>3. ASSUME NEW r \in Run, Save(r) PROVE TrackedNeverConflicts'
    <2>1. \A q \in Run : conflicts'[q] = {}
      <3>1. lock' = None
        BY <1>3 DEF Save, Release
      <3> QED BY <1>0, <3>1, DriveSyncAssumption DEF RunsExclude, IdleReportsNothing
    <2> QED BY <2>1 DEF TrackedNeverConflicts
  <1>4. ASSUME UserLosesState PROVE TrackedNeverConflicts'
    <2>1. saved' = NoRecords /\ byUser' = Path /\ conflicts' = conflicts
      BY <1>4 DEF UserLosesState, reportVars
    <2>2. \A r \in Run : \A c \in conflicts[r] : c.path \in Path
      BY DEF TypeOK, Entry
    <2> QED BY <2>1, <2>2 DEF TrackedNeverConflicts
  <1>5. ASSUME NEW r \in Run,
               \/ Start(r) \/ List(r) \/ NextFolder(r) \/ DownloadRefused(r) \/ Record(r)
               \/ Finish(r) \/ Stop(r)
        PROVE  TrackedNeverConflicts'
    <2>1. UNCHANGED <<saved, byUser, conflicts>>
      BY <1>5
      DEF Start, List, NextFolder, DownloadRefused, Record, Finish, Stop, fileVars, reportVars
    <2> QED BY <2>1 DEF TrackedNeverConflicts
  <1>6. ASSUME \/ \E i \in Item : DriveChange(i)
               \/ \E p \in Path : UserTouch(p)
               \/ UNCHANGED vars
        PROVE  TrackedNeverConflicts'
    <2>1. UNCHANGED <<saved, conflicts>> /\ byUser \subseteq byUser'
      BY <1>6 DEF DriveChange, UserTouch, vars, fileVars, reportVars
    <2> QED BY <2>1 DEF TrackedNeverConflicts
  <1>7. TrackedNeverConflicts'
    BY <1>1, <1>2, <1>3, <1>4, <1>5, <1>6 DEF Next, RunStep, Crash
  <1> QED BY <1>0, <1>7

(* A file the state file tracks and the user left alone is never reported  *)
(* as a conflict, whatever items take over each other's names and however  *)
(* often a run is interrupted, as long as no process is killed.            *)
THEOREM TrackedFilesFollow ==
  ASSUME "crash" \notin Env
  PROVE  Spec => []TrackedNeverConflicts
  <1>1. Init => TrackedInv
    <2> SUFFICES ASSUME Init PROVE TrackedInv
      OBVIOUS
    <2>1. TrackedKnown /\ PlannedOnce /\ IdleReportsNothing /\ TrackedNeverConflicts
      BY DEF Init, TrackedKnown, PlannedOnce, PlansOnce, InHand, IdleReportsNothing,
             TrackedNeverConflicts, Idle, Downloading, Recording
    <2> QED BY <2>1, SavedInit DEF TrackedInv
  <1>2. TrackedInv /\ [Next]_vars => TrackedInv'
    BY TrackedStep
  <1>3. TrackedInv => TrackedNeverConflicts
    BY DEF TrackedInv
  <1> QED BY <1>1, <1>2, <1>3, PTL DEF Spec

-----------------------------------------------------------------------------
(* The mirror.                                                             *)

(* A record whose remote side matches what a run saw of the item holds the *)
(* item's content, if Drive still has what the run saw.                    *)
LEMMA SameSeen ==
  ASSUME TypeOK, NEW i \in Item, NEW remote \in Remote, NEW rec \in Rec,
         RemoteSeen(i, remote), RecTrue(i, rec), SameContent(remote, rec.remote)
  PROVE  SameContent(RemoteOf(i), remote) => rec.local = drive[i].data
  <1>1. drive[i].data \in DriveContent /\ published \subseteq DriveContent
    BY DEF TypeOK, DriveItem
  <1>2. None \notin DriveContent
    BY SyncAssumption
  <1> QED BY <1>1, <1>2 DEF RemoteSeen, RecTrue, SameContent, RemoteOf

(* plan_sync calls a file unchanged only when it is a copy of what the run *)
(* saw of the item.                                                        *)
LEMMA PlanTrue ==
  ASSUME TypeOK, NEW s \in State, Consistent(s), StateTrue(s), NEW i \in Item,
         NEW remote \in Remote, RemoteSeen(i, remote), NEW p \in Path,
         NEW file \in Content \cup {None}, Plan(s, i, remote, p, file) = Unchanged
  PROVE  RecTrue(i, [path |-> p, remote |-> remote, local |-> file])
  <1> DEFINE owner == AtPath(s, p)
             elsewhere == s.records[i]
  <1> USE DEF Download, Unchanged, ModifiedLocally, Untracked
  <1> SUFFICES ASSUME SameContent(RemoteOf(i), remote)
               PROVE  file = drive[i].data
    BY DEF RecTrue
  <1>0. file # None /\ None \notin Item
    BY SyncAssumption DEF Plan
  <1>1. CASE owner # NotMoved
    <2>1. owner.id = i /\ SameContent(remote, owner.rec.remote) /\ file = owner.rec.local
      BY <1>0, <1>1 DEF Plan, PlanTracked
    <2>2. owner.rec \in Rec /\ RecTrue(i, owner.rec)
      <3>1. CASE s.by_path[p] # None
        <4>1. owner.id = s.by_path[p] /\ owner.rec = s.records[i] /\ s.by_path[p] = i
          BY <2>1, <3>1 DEF AtPath
        <4>2. s.records[i].path = p
          BY <4>1 DEF Consistent
        <4>3. s.records[i] # NoRec
          BY <4>2, PathNotNone DEF NoRec
        <4> QED BY <4>1, <4>3 DEF StateTrue, RecsTrue, State, MaybeRec
      <3>2. CASE s.by_path[p] = None
        <4>1. owner = s.moved_from[p]
          BY <3>2 DEF AtPath
        <4>2. owner.rec.path = p /\ owner.rec \in MaybeRec
          BY <1>1, <4>1 DEF Consistent, State
        <4>3. owner.rec \in Rec
          BY <4>2, PathNotNone DEF MaybeRec, NoRec
        <4> QED BY <1>1, <2>1, <4>1, <4>3 DEF StateTrue
      <3> QED BY <3>1, <3>2
    <2> HIDE DEF owner
    <2> QED BY <2>1, <2>2, SameSeen
  <1>2. CASE owner = NotMoved
    <2>1. PlanUntracked(s, i, remote, file) = Unchanged
      BY <1>0, <1>2 DEF Plan
    <2>2. CASE elsewhere # NoRec /\ file = elsewhere.local
      <3>1. elsewhere \in Rec /\ RecTrue(i, elsewhere)
        BY <2>2 DEF State, MaybeRec, StateTrue, RecsTrue
      <3>2. SameContent(remote, elsewhere.remote)
        BY <2>1, <2>2 DEF PlanUntracked
      <3> HIDE DEF elsewhere
      <3> QED BY <2>2, <3>1, <3>2, SameSeen
    <2>3. CASE ~(elsewhere # NoRec /\ file = elsewhere.local)
      <3>1. file = remote.sum
        BY <2>1, <2>3 DEF PlanUntracked
      <3>2. drive[i].data # None
        BY SyncAssumption DEF TypeOK, DriveItem
      <3> QED BY <1>0, <3>1, <3>2 DEF SameContent, RemoteOf, RemoteSeen
    <2> QED BY <2>2, <2>3
  <1> QED BY <1>1, <1>2

(* Inserting a true record keeps a state true.                             *)
LEMMA InsertTrue ==
  ASSUME NEW s \in State, StateTrue(s), NEW id \in Item, NEW rec \in Rec, RecTrue(id, rec)
  PROVE  StateTrue(Insert(s, id, rec))
  <1>1. CASE s.records[id] = rec
    BY <1>1 DEF Insert
  <1>2. CASE s.records[id] # rec
    <2> DEFINE old == s.records[id]
               t == Insert(s, id, rec)
    <2>1. /\ \A i \in Item : t.records[i] = IF i = id THEN rec
                                 ELSE IF i = s.by_path[rec.path] THEN NoRec
                                 ELSE s.records[i]
          /\ \A p \in Path : t.moved_from[p] = IF p = rec.path THEN NotMoved
                                 ELSE IF p = old.path THEN [id |-> id, rec |-> old]
                                 ELSE s.moved_from[p]
      BY <1>2 DEF Insert
    <2>2. \A p \in Path : p = old.path => RecTrue(id, old)
      BY PathNotNone DEF StateTrue, RecsTrue, NoRec
    <2> HIDE DEF t, old
    <2>3. RecsTrue(t.records)
      BY <2>1 DEF StateTrue, RecsTrue
    <2>4. ASSUME NEW p \in Path, t.moved_from[p] # NotMoved
          PROVE  t.moved_from[p].id \in Item
                 /\ RecTrue(t.moved_from[p].id, t.moved_from[p].rec)
      <3>1. CASE p = rec.path
        BY <2>1, <2>4, <3>1
      <3>2. CASE p # rec.path /\ p = old.path
        <4>1. t.moved_from[p] = [id |-> id, rec |-> old]
          BY <2>1, <3>2
        <4>2. t.moved_from[p].id = id /\ t.moved_from[p].rec = old
          BY <4>1
        <4> QED BY <2>2, <3>2, <4>2
      <3>3. CASE p # rec.path /\ p # old.path
        <4>1. t.moved_from[p] = s.moved_from[p]
          BY <2>1, <3>3
        <4> QED BY <2>4, <4>1 DEF StateTrue
      <3> QED BY <3>1, <3>2, <3>3
    <2> QED BY <2>3, <2>4 DEF StateTrue, t
  <1> QED BY <1>1, <1>2

(* What a run sees of the children of a folder is true of them.            *)
LEMMA ListedSeen ==
  ASSUME TypeOK, NEW i \in Item, drive[i].data \in published
  PROVE  RemoteSeen(i, RemoteOf(i))
  BY DEF TypeOK, DriveItem, RemoteSeen, RemoteOf

(* What was true of an item stays true while its content is never a former *)
(* one: its version moves on, and a checksum seen before is not the new one.*)
LEMMA DriveChangeKeeps ==
  ASSUME TypeOK, "revert" \notin Env, NEW j \in Item, DriveChange(j), NEW i \in Item,
         drive[i].data \in published
  PROVE  /\ drive'[i].data \in published'
         /\ \A remote \in Remote : RemoteSeen(i, remote) => RemoteSeen(i, remote)'
         /\ \A rec : rec.remote \in Remote /\ RecTrue(i, rec) => RecTrue(i, rec)'
  <1>0. /\ drive \in [Item -> DriveItem] /\ drive[i] \in DriveItem
        /\ drive[i].data \in DriveContent
        /\ drive[i].ver \in Nat
    BY DEF TypeOK, DriveItem
  <1> DEFINE Moves ==
        /\ published \subseteq published'
        /\ drive'[i].data \in DriveContent
        /\ \/ drive'[i] = drive[i]
           \/ /\ drive'[i].ver = drive[i].ver + 1
              /\ \/ drive'[i].data = drive[i].data
                 \/ drive'[i].data \notin published /\ drive'[i].data \in published'
  <1>1. Moves
    <2>1. ASSUME NEW d \in DriveContent \ published,
                 drive' = [drive EXCEPT ![j].data = d, ![j].ver = @ + 1],
                 published' = published \cup {d}
          PROVE  Moves
      BY <1>0, <2>1 DEF DriveItem
    <2>2. ASSUME NEW n \in Name, drive' = [drive EXCEPT ![j].name = n, ![j].ver = @ + 1],
                 published' = published
          PROVE  Moves
      BY <1>0, <2>2 DEF DriveItem
    <2>3. ASSUME NEW fs \in SUBSET Folder, published' = published,
                 drive' = [drive EXCEPT ![j].parents = fs, ![j].ver = @ + 1]
          PROVE  Moves
      BY <1>0, <2>3 DEF DriveItem
    <2> QED BY <2>1, <2>2, <2>3 DEF DriveChange
  <1>2. drive'[i].data \in published'
    BY <1>1
  <1>3. ASSUME NEW remote \in Remote, RemoteSeen(i, remote) PROVE RemoteSeen(i, remote)'
    BY <1>0, <1>1, <1>3 DEF RemoteSeen, Remote
  <1>4. ASSUME NEW rec, rec.remote \in Remote, RecTrue(i, rec) PROVE RecTrue(i, rec)'
    <2>1. rec.remote \in Remote /\ rec.remote.ver \in Nat
      BY <1>4 DEF Remote
    <2>2. RemoteSeen(i, rec.remote)'
      BY <1>3, <1>4, <2>1 DEF RecTrue
    <2>3. drive[i].data # None /\ published \subseteq DriveContent /\ None \notin DriveContent
      BY SyncAssumption DEF TypeOK, DriveItem
    <2>4. drive'[i].data # None
      BY <1>1, SyncAssumption
    <2>5. SameContent(RemoteOf(i)', rec.remote) =>
            SameContent(RemoteOf(i), rec.remote) /\ drive'[i].data = drive[i].data
      <3>1. CASE i \in Native
        BY <1>0, <1>1, <1>4, <2>1, <3>1 DEF SameContent, RemoteOf, RecTrue, RemoteSeen
      <3>2. CASE i \notin Native
        BY <1>1, <1>4, <2>3, <2>4, <3>2 DEF SameContent, RemoteOf, RecTrue, RemoteSeen
      <3> QED BY <3>1, <3>2
    <2> QED BY <1>4, <2>2, <2>5 DEF RecTrue
  <1> QED BY <1>2, <1>3, <1>4

LEMMA DriveFrame ==
  ASSUME drive' = drive, published' = published
  PROVE  /\ \A i, rec : RecTrue(i, rec)' <=> RecTrue(i, rec)
         /\ \A i, remote : RemoteSeen(i, remote)' <=> RemoteSeen(i, remote)
         /\ \A s : StateTrue(s)' <=> StateTrue(s)
         /\ \A records : RecsTrue(records)' <=> RecsTrue(records)
         /\ \A f, i : EntryOf(f, i)' = EntryOf(f, i) /\ LocalPath(f, i)' = LocalPath(f, i)
         /\ \A f : Children(f)' = Children(f)
  <1>1. \A i : RemoteOf(i)' = RemoteOf(i)
    BY DEF RemoteOf
  <1>2. \A i, remote : RemoteSeen(i, remote)' <=> RemoteSeen(i, remote)
    BY DEF RemoteSeen
  <1>3. \A i, rec : RecTrue(i, rec)' <=> RecTrue(i, rec)
    BY <1>1, <1>2 DEF RecTrue
  <1>4. \A records : RecsTrue(records)' <=> RecsTrue(records)
    BY <1>3 DEF RecsTrue
  <1>5. \A s : StateTrue(s)' <=> StateTrue(s)
    BY <1>3, <1>4 DEF StateTrue
  <1>6. \A f : Children(f)' = Children(f)
    BY DEF Children
  <1>7. \A f, i : LocalPath(f, i)' = LocalPath(f, i)
    BY <1>6 DEF LocalPath
  <1>8. \A f, i : EntryOf(f, i)' = EntryOf(f, i)
    BY <1>1, <1>7 DEF EntryOf
  <1> QED BY <1>2, <1>3, <1>4, <1>5, <1>6, <1>7, <1>8

LEMMA EmptyStateTrue ==
  RecsTrue(NoRecords) /\ StateTrue(EmptyState)
  BY DEF RecsTrue, NoRecords, StateTrue, EmptyState

LEMMA MirrorInit == Init => MirrorInv
  <1> SUFFICES ASSUME Init PROVE MirrorInv
    OBVIOUS
  <1>1. CopiesTrue
    BY EmptyStateTrue DEF Init, CopiesTrue, InHand, Idle, Downloading, Recording
  <1>2. QuietWalk
    BY DEF Init, QuietWalk
  <1> QED BY <1>1, <1>2, IndexInit DEF MirrorInv

(* Records stay true, one action at a time.                                *)
LEMMA CopiesStep ==
  ASSUME "revert" \notin Env, "editInFlight" \notin Env, IndexInv, CopiesTrue, [Next]_vars
  PROVE  CopiesTrue'
  <1> USE DEF IndexInv
  <1> DEFINE Mine(r) ==
        /\ StateTrue(mem[r])
        /\ \A e \in todo[r] \cup InHand(r) : RemoteSeen(e.item, e.remote)
        /\ pc[r] = Recording =>
             RecTrue(cur[r].item, [path |-> cur[r].path, remote |-> cur[r].remote,
                                   local |-> disk[cur[r].path]])
  <1>0. \A q \in Run : Mine(q)
    BY DEF CopiesTrue
  <1>1. ASSUME NEW r \in Run, UNCHANGED <<drive, published>>,
               saved' = saved \/ saved' = mem[r].records, Mine(r)',
               \A q \in Run : q # r =>
                 /\ mem'[q] = mem[q] /\ todo'[q] = todo[q] /\ InHand(q)' = InHand(q)
                 /\ pc'[q] # Recording
        PROVE  CopiesTrue'
    <2>1. \A i \in Item : drive'[i].data \in published'
      BY <1>1 DEF CopiesTrue
    <2>2. RecsTrue(saved)'
      BY <1>1, DriveFrame DEF CopiesTrue, StateTrue
    <2>3. ASSUME NEW q \in Run, q # r PROVE Mine(q)'
      BY <1>0, <1>1, <2>3, DriveFrame
    <2> HIDE DEF Mine
    <2>4. \A q \in Run : Mine(q)'
      BY <1>1, <2>3
    <2> QED BY <2>1, <2>2, <2>4 DEF CopiesTrue, Mine
  <1>2. ASSUME NEW r \in Run, pc[r] # Idle,
               \A q \in Run : q # r =>
                 /\ mem'[q] = mem[q] /\ todo'[q] = todo[q] /\ pc'[q] = pc[q]
        PROVE  \A q \in Run : q # r =>
                 /\ mem'[q] = mem[q] /\ todo'[q] = todo[q] /\ InHand(q)' = InHand(q)
                 /\ pc'[q] # Recording
    BY <1>2, OthersIdle DEF InHand, Idle, Downloading, Recording
  <1>3. ASSUME NEW r \in Run, Start(r) PROVE CopiesTrue'
    <2> DEFINE s == IF unusable THEN LoadState(NoRecords, TRUE) ELSE LoadState(saved, FALSE)
    <2>1. StateTrue(s)
      BY EmptyStateTrue DEF LoadState, StateTrue, CopiesTrue
    <2> HIDE DEF s
    <2>2. /\ mem' = [mem EXCEPT ![r] = s]
          /\ pc' = [pc EXCEPT ![r] = Listing] /\ pc[r] = Idle /\ lock = None
          /\ UNCHANGED <<drive, published, saved, todo, cur>>
      BY <1>3 DEF Start, LockSyncDir, envVars, fileVars, s
    <2>3. \A q \in Run : pc[q] = Idle
      BY <2>2, DriveSyncAssumption DEF RunsExclude
    <2>4. \A q \in Run : q # r =>
                 /\ mem'[q] = mem[q] /\ todo'[q] = todo[q] /\ InHand(q)' = InHand(q)
                 /\ pc'[q] # Recording
      BY <2>2, <2>3 DEF TypeOK, InHand, Idle, Downloading, Recording
    <2>5. mem'[r] = s /\ InHand(r)' = {} /\ todo'[r] = todo[r] /\ pc'[r] # Recording
      BY <2>2 DEF TypeOK, InHand, Listing, Downloading, Recording
    <2>6. Mine(r)'
      BY <1>0, <2>1, <2>2, <2>5, DriveFrame
    <2> QED BY <1>1, <2>2, <2>4, <2>6
  <1>4. ASSUME NEW r \in Run, Decide(r) PROVE CopiesTrue'
    <2> PICK e \in todo[r] :
          LET act == Plan(mem[r], e.item, e.remote, e.path, disk[e.path]) IN
          /\ todo' = [todo EXCEPT ![r] = @ \ {e}]
          /\ \/ /\ act = Unchanged
                /\ mem' = [mem EXCEPT ![r] =
                     Insert(@, e.item, [path |-> e.path, remote |-> e.remote,
                                        local |-> disk[e.path]])]
                /\ UNCHANGED <<pc, cur>>
             \/ UNCHANGED <<pc, cur, mem>>
             \/ /\ cur' = [cur EXCEPT ![r] = e]
                /\ pc' = [pc EXCEPT ![r] = Downloading]
                /\ UNCHANGED mem
      BY <1>4 DEF Decide
    <2> DEFINE rec == [path |-> e.path, remote |-> e.remote, local |-> disk[e.path]]
    <2>1. /\ e.item \in Item /\ e.remote \in Remote /\ e.path \in Path
          /\ mem[r] \in State /\ Consistent(mem[r]) /\ StateTrue(mem[r])
          /\ disk[e.path] \in Content \cup {None}
      <3>1. e \in Entry /\ mem[r] \in State /\ Consistent(mem[r])
        BY DEF TypeOK, IndexConsistent
      <3>2. e.item \in Item /\ e.remote \in Remote /\ e.path \in Path
        BY <3>1 DEF Entry
      <3> QED BY <1>0, <3>1, <3>2 DEF TypeOK
    <2>2. RemoteSeen(e.item, e.remote)
      BY <1>0
    <2>3. pc[r] = Deciding /\ pc[r] # Idle /\ UNCHANGED <<drive, published, saved>>
      BY <1>4 DEF Decide, envVars, fileVars, Idle, Deciding
    <2>4. StateTrue(mem'[r])
      <3>1. CASE mem' = mem
        BY <2>1, <3>1
      <3>2. CASE mem' # mem
        <4>1. /\ Plan(mem[r], e.item, e.remote, e.path, disk[e.path]) = Unchanged
              /\ mem'[r] = Insert(mem[r], e.item, rec)
          BY <3>2 DEF TypeOK
        <4>2. disk[e.path] # None
          BY <4>1 DEF Plan, Download, Unchanged
        <4>3. rec \in Rec
          BY <2>1, <4>2 DEF Rec
        <4>4. RecTrue(e.item, rec)
          BY <2>1, <2>2, <4>1, PlanTrue
        <4> HIDE DEF rec
        <4> QED BY <2>1, <4>1, <4>3, <4>4, InsertTrue
      <3> QED BY <3>1, <3>2
    <2>5. /\ todo'[r] \subseteq todo[r] /\ InHand(r)' \subseteq {e} /\ pc'[r] # Recording
          /\ \A q \in Run : q # r =>
                 /\ mem'[q] = mem[q] /\ todo'[q] = todo[q] /\ pc'[q] = pc[q]
      BY <2>3 DEF TypeOK, InHand, Deciding, Downloading, Recording
    <2>6. Mine(r)'
      BY <1>0, <2>2, <2>3, <2>4, <2>5, DriveFrame
    <2> QED BY <1>1, <1>2, <2>3, <2>5, <2>6
  <1>5. ASSUME NEW r \in Run, List(r) PROVE CopiesTrue'
    <2>1. /\ UNCHANGED <<drive, published, saved, mem>> /\ pc[r] # Idle
          /\ pc'[r] # Recording /\ InHand(r)' = {}
          /\ todo'[r] = todo[r] \/ \E f \in pending[r] : todo'[r] = Entries(f)
          /\ \A q \in Run : q # r =>
                 /\ mem'[q] = mem[q] /\ todo'[q] = todo[q] /\ pc'[q] = pc[q]
      BY <1>5
      DEF List, TypeOK, envVars, fileVars, InHand, Idle, Listing, Deciding, Downloading,
          Recording
    <2>2. \A f : \A e \in Entries(f) : RemoteSeen(e.item, e.remote)
      BY ListedSeen DEF Entries, Children, CopiesTrue
    <2>3. StateTrue(mem[r])'
      BY <1>0, <2>1, DriveFrame
    <2>4. ASSUME NEW e \in todo'[r] \cup InHand(r)' PROVE RemoteSeen(e.item, e.remote)'
      <3>1. RemoteSeen(e.item, e.remote)
        <4>1. CASE todo'[r] = todo[r]
          BY <1>0, <2>1, <4>1
        <4>2. CASE \E f \in pending[r] : todo'[r] = Entries(f)
          BY <2>1, <2>2, <4>2
        <4> QED BY <2>1, <4>1, <4>2
      <3> QED BY <2>1, <3>1, DriveFrame
    <2>5. Mine(r)'
      BY <2>1, <2>3, <2>4
    <2> QED BY <1>1, <1>2, <2>1, <2>5
  <1>6. ASSUME NEW r \in Run, Commit(r) PROVE CopiesTrue'
    <2> DEFINE e == cur[r]
    <2>1. /\ UNCHANGED <<drive, published, saved, mem, todo, cur>>
          /\ pc[r] # Idle /\ pc'[r] = Recording
          /\ InHand(r) = {e} /\ InHand(r)' = {e}
          /\ \A q \in Run : q # r =>
                 /\ mem'[q] = mem[q] /\ todo'[q] = todo[q] /\ pc'[q] = pc[q]
      BY <1>6
      DEF Commit, TypeOK, envVars, walkVars, InHand, Idle, Downloading, Recording
    <2>2. /\ e.item \in Item /\ e.path \in Path
          /\ disk'[e.path] = drive[e.item].data
      BY <1>6 DEF Commit, CurKnown, Entry, TypeOK
    <2>3. RemoteSeen(e.item, e.remote)
      BY <1>0, <2>1
    <2>4. RecTrue(e.item, [path |-> e.path, remote |-> e.remote, local |-> disk'[e.path]])
      BY <2>2, <2>3 DEF RecTrue
    <2>5. Mine(r)'
      BY <1>0, <2>1, <2>4, DriveFrame
    <2> QED BY <1>1, <1>2, <2>1, <2>5
  <1>7. ASSUME NEW r \in Run, Record(r) PROVE CopiesTrue'
    <2> DEFINE e == cur[r]
               rec == [path |-> e.path, remote |-> e.remote, local |-> disk[e.path]]
    <2>0. /\ UNCHANGED <<drive, published, saved, todo>>
          /\ pc[r] = Recording
          /\ \/ mem' = mem /\ pc' = [pc EXCEPT ![r] = Stopped]
             \/ /\ disk[e.path] # None
                /\ mem' = [mem EXCEPT ![r] = Insert(@, e.item, rec)]
                /\ pc' = [pc EXCEPT ![r] = Deciding]
      BY <1>7 DEF Record, envVars, fileVars
    <2>1. /\ UNCHANGED <<drive, published, saved, todo>>
          /\ pc[r] = Recording /\ pc[r] # Idle /\ pc'[r] # Recording /\ InHand(r)' = {}
          /\ \/ mem'[r] = mem[r]
             \/ disk[e.path] # None /\ mem'[r] = Insert(mem[r], e.item, rec)
          /\ \A q \in Run : q # r =>
                 /\ mem'[q] = mem[q] /\ todo'[q] = todo[q] /\ pc'[q] = pc[q]
      <3> HIDE DEF rec, e
      <3>1. /\ pc'[r] \in {Stopped, Deciding}
            /\ \A q \in Run : q # r => pc'[q] = pc[q] /\ mem'[q] = mem[q]
            /\ \/ mem'[r] = mem[r]
               \/ disk[e.path] # None /\ mem'[r] = Insert(mem[r], e.item, rec)
        BY <2>0 DEF TypeOK
      <3>2. InHand(r)' = {}
        BY <3>1 DEF InHand, Stopped, Deciding, Downloading, Recording
      <3> QED BY <2>0, <3>1, <3>2 DEF Idle, Stopped, Deciding, Recording
    <2>2. /\ e.item \in Item /\ e.remote \in Remote /\ e.path \in Path
          /\ mem[r] \in State
      BY <2>1 DEF CurKnown, Entry, TypeOK
    <2>3. StateTrue(mem'[r])
      <3>1. CASE mem'[r] = mem[r]
        BY <1>0, <3>1
      <3>2. CASE disk[e.path] # None /\ mem'[r] = Insert(mem[r], e.item, rec)
        <4>1. rec \in Rec
          BY <2>2, <3>2 DEF Rec, TypeOK
        <4>2. RecTrue(e.item, rec) /\ StateTrue(mem[r])
          BY <1>0, <2>1
        <4> HIDE DEF rec, e
        <4> QED BY <2>2, <3>2, <4>1, <4>2, InsertTrue
      <3> QED BY <2>1, <3>1, <3>2
    <2>4. Mine(r)'
      BY <1>0, <2>1, <2>3, DriveFrame
    <2> QED BY <1>1, <1>2, <2>1, <2>4
  <1>8. ASSUME NEW r \in Run, NextFolder(r) \/ DownloadRefused(r) \/ Finish(r) \/ Stop(r)
        PROVE  CopiesTrue'
    <2>1. /\ UNCHANGED <<drive, published, saved, mem, todo>>
          /\ pc[r] # Idle /\ pc'[r] # Recording /\ InHand(r)' = {}
          /\ \A q \in Run : q # r =>
                 /\ mem'[q] = mem[q] /\ todo'[q] = todo[q] /\ pc'[q] = pc[q]
      BY <1>8
      DEF NextFolder, DownloadRefused, Finish, Stop, TypeOK, envVars, fileVars, walkVars,
          InHand, Idle, Listing, Deciding, Finished, Stopped, Downloading, Recording
    <2>2. Mine(r)'
      BY <1>0, <2>1, DriveFrame
    <2> QED BY <1>1, <1>2, <2>1, <2>2
  <1>9. ASSUME NEW r \in Run, Save(r) \/ Crash(r) PROVE CopiesTrue'
    <2>1. /\ UNCHANGED <<drive, published>> /\ pc[r] # Idle
          /\ saved' = saved \/ saved' = mem[r].records
          /\ mem'[r] = EmptyState /\ todo'[r] = {} /\ InHand(r)' = {} /\ pc'[r] # Recording
          /\ \A q \in Run : q # r =>
                 /\ mem'[q] = mem[q] /\ todo'[q] = todo[q] /\ pc'[q] = pc[q]
      BY <1>9
      DEF Save, Crash, Release, TypeOK, envVars, fileVars, InHand, Idle, Finished, Stopped,
          Downloading, Recording
    <2>2. Mine(r)'
      BY <2>1, EmptyStateTrue, DriveFrame
    <2> QED BY <1>1, <1>2, <2>1, <2>2
  <1>10. ASSUME NEW j \in Item, DriveChange(j) PROVE CopiesTrue'
    <2>1. UNCHANGED <<disk, saved, mem, todo, cur, pc>>
      BY <1>10 DEF DriveChange, fileVars, walkVars
    <2>2. ASSUME NEW i \in Item
          PROVE  /\ drive'[i].data \in published'
                 /\ \A remote \in Remote : RemoteSeen(i, remote) => RemoteSeen(i, remote)'
                 /\ \A rec : rec.remote \in Remote /\ RecTrue(i, rec) => RecTrue(i, rec)'
      BY <1>10, DriveChangeKeeps DEF CopiesTrue
    <2>3. ASSUME NEW records \in [Item -> MaybeRec], RecsTrue(records)
          PROVE  RecsTrue(records)'
      BY <2>2, <2>3 DEF RecsTrue, MaybeRec, Rec
    <2>4. ASSUME NEW r \in Run PROVE Mine(r)'
      <3>1. mem[r] \in State /\ Consistent(mem[r]) /\ Mine(r)
        BY <1>0 DEF TypeOK, IndexConsistent
      <3>2. RecsTrue(mem[r].records)'
        BY <2>1, <2>3, <3>1 DEF StateTrue, State
      <3>3. ASSUME NEW p \in Path, mem[r].moved_from[p] # NotMoved
            PROVE  /\ mem[r].moved_from[p].id \in Item
                   /\ RecTrue(mem[r].moved_from[p].id, mem[r].moved_from[p].rec)'
        <4>1. mem[r].moved_from[p].rec.remote \in Remote
          BY <3>1, <3>3, PathNotNone DEF Consistent, State, MaybeRec, NoRec, Rec
        <4> QED BY <2>1, <2>2, <3>1, <3>3, <4>1 DEF StateTrue
      <3>4. StateTrue(mem[r])'
        BY <2>1, <3>2, <3>3 DEF StateTrue
      <3>5. \A e \in todo[r] \cup InHand(r) : e.item \in Item /\ e.remote \in Remote
        BY DEF TypeOK, Entry, InHand, CurKnown
      <3>6. \A e \in todo'[r] \cup InHand(r)' : RemoteSeen(e.item, e.remote)'
        BY <2>1, <2>2, <3>1, <3>5 DEF InHand
      <3>7. ASSUME pc[r] = Recording
            PROVE  RecTrue(cur[r].item, [path |-> cur[r].path, remote |-> cur[r].remote,
                                         local |-> disk[cur[r].path]])'
        <4>1. cur[r].item \in Item /\ cur[r].remote \in Remote
          BY <3>7 DEF CurKnown, Entry
        <4> QED BY <2>1, <2>2, <3>1, <3>7, <4>1
      <3> QED BY <2>1, <3>4, <3>6, <3>7
    <2>5. RecsTrue(saved)'
      BY <2>1, <2>3 DEF CopiesTrue, TypeOK
    <2> QED BY <2>2, <2>4, <2>5 DEF CopiesTrue
  <1>11. ASSUME NEW p \in Path, UserTouch(p) PROVE CopiesTrue'
    <2>1. ~InFlight(p) /\ UNCHANGED <<drive, published, saved, mem, todo, cur, pc>>
      BY <1>11 DEF UserTouch, walkVars
    <2>2. \A q \in Path : q # p => disk'[q] = disk[q]
      BY <1>11 DEF UserTouch, TypeOK
    <2>3. \A q \in Run : pc[q] \in {Downloading, Recording} =>
                           cur[q].path \in Path /\ cur[q].path # p
      BY <2>1 DEF InFlight, CurKnown, Entry
    <2>4. \A r \in Run : Mine(r)'
      BY <1>0, <2>1, <2>2, <2>3, DriveFrame DEF InHand
    <2> QED BY <2>1, <2>4, DriveFrame DEF CopiesTrue
  <1>12. ASSUME UserLosesState PROVE CopiesTrue'
    <2>1. saved' = NoRecords /\ UNCHANGED <<drive, published, disk, mem, todo, cur, pc>>
      BY <1>12 DEF UserLosesState, walkVars
    <2>2. \A r \in Run : Mine(r)'
      BY <1>0, <2>1, DriveFrame DEF InHand
    <2> QED BY <2>1, <2>2, EmptyStateTrue, DriveFrame DEF CopiesTrue
  <1>13. ASSUME UNCHANGED vars PROVE CopiesTrue'
    <2>1. UNCHANGED <<drive, published, saved, disk, mem, todo, cur, pc>>
      BY <1>13 DEF vars, envVars, fileVars, walkVars
    <2>2. \A r \in Run : Mine(r)'
      BY <1>0, <2>1, DriveFrame DEF InHand
    <2> QED BY <2>1, <2>2, DriveFrame DEF CopiesTrue
  <1> QED
    BY <1>3, <1>4, <1>5, <1>6, <1>7, <1>8, <1>9, <1>10, <1>11, <1>12, <1>13
    DEF Next, RunStep

(* A walk nobody disturbs covers the tree, one action at a time.           *)
LEMMA WalkStep ==
  ASSUME IndexInv, CopiesTrue, QuietWalk, [Next]_vars
  PROVE  QuietWalk'
  <1> USE DEF IndexInv
  <1>1. ASSUME NEW r \in Run, pc[r] # Idle \/ lock = None,
               \A q \in Run : q # r =>
                 /\ pc'[q] = pc[q] /\ quiet'[q] = quiet[q]
                 /\ visited'[q] = visited[q] /\ todo'[q] = todo[q],
               pc'[r] = Idle => ~quiet'[r] /\ visited'[r] = {} /\ todo'[r] = {},
               quiet'[r] => WalkCovers(r)'
        PROVE  QuietWalk'
    <2>1. \A q \in Run : q # r => pc[q] = Idle
      BY <1>1, OthersIdle, DriveSyncAssumption DEF RunsExclude
    <2> QED BY <1>1, <2>1 DEF QuietWalk
  <1>2. ASSUME NEW r \in Run, Start(r) PROVE QuietWalk'
    <2>1. /\ pc[r] = Idle /\ lock = None /\ pc' = [pc EXCEPT ![r] = Listing]
          /\ quiet' = [quiet EXCEPT ![r] = TRUE]
          /\ pending' = [pending EXCEPT ![r] = {Root}]
          /\ UNCHANGED <<visited, todo>>
      BY <1>2 DEF Start, LockSyncDir
    <2>2. visited'[r] = {} /\ todo'[r] = {} /\ InHand(r)' = {} /\ pc'[r] = Listing
          /\ pending'[r] = {Root}
      BY <2>1 DEF QuietWalk, TypeOK, InHand, Listing, Downloading, Recording
    <2>3. WalkCovers(r)'
      BY <2>2 DEF WalkCovers, Listing, Finished
    <2> QED BY <1>1, <2>1, <2>2, <2>3 DEF TypeOK, Idle, Listing
  <1>3. ASSUME NEW r \in Run, List(r) PROVE QuietWalk'
    <2> PICK f \in pending[r] :
          IF f \in visited[r]
          THEN /\ pending' = [pending EXCEPT ![r] = @ \ {f}]
               /\ UNCHANGED <<pc, visited, todo>>
          ELSE /\ pending' = [pending EXCEPT ![r] = (@ \ {f}) \cup SubFolders[f]]
               /\ visited' = [visited EXCEPT ![r] = @ \cup {f}]
               /\ todo' = [todo EXCEPT ![r] = Entries(f)]
               /\ pc' = [pc EXCEPT ![r] = Deciding]
      BY <1>3 DEF List
    <2>1. /\ pc[r] = Listing /\ pc[r] # Idle
          /\ UNCHANGED <<drive, published, disk, conflicts, failed, quiet>>
      BY <1>3 DEF List, envVars, fileVars, reportVars, Idle, Listing
    <2>2. ASSUME quiet[r] PROVE WalkCovers(r)'
      <3>1. WalkCovers(r) /\ todo[r] = {}
        BY <2>1, <2>2 DEF QuietWalk, WalkCovers
      <3>2. \A g, i : /\ EntryOf(g, i)' = EntryOf(g, i) /\ LocalPath(g, i)' = LocalPath(g, i)
                      /\ Children(g)' = Children(g)
        BY <2>1, DriveFrame
      <3>3. CASE f \in visited[r]
        <4>1. /\ pc'[r] = Listing /\ visited'[r] = visited[r] /\ todo'[r] = {}
              /\ pending'[r] = pending[r] \ {f} /\ InHand(r)' = {}
          BY <2>1, <3>1, <3>3 DEF TypeOK, InHand, Listing, Downloading, Recording
        <4> QED BY <2>1, <3>1, <3>2, <3>3, <4>1
          DEF WalkCovers, Listing, Finished, Stopped, Downloading
      <3>4. CASE f \notin visited[r]
        <4>1. /\ pc'[r] = Deciding /\ visited'[r] = visited[r] \cup {f}
              /\ todo'[r] = {EntryOf(f, i) : i \in Children(f)}
              /\ pending'[r] = (pending[r] \ {f}) \cup SubFolders[f] /\ InHand(r)' = {}
          BY <2>1, <3>4 DEF TypeOK, InHand, Entries, EntryOf, Deciding, Downloading, Recording
        <4>2. /\ Root \in visited'[r] \cup pending'[r]
              /\ \A g \in visited'[r] : SubFolders[g] \subseteq visited'[r] \cup pending'[r]
          BY <3>1, <4>1 DEF WalkCovers
        <4>3. \A e \in todo'[r] : \E g \in visited'[r] : \E i \in Children(g) : e = EntryOf(g, i)
          BY <4>1
        <4>4. ASSUME NEW g \in visited'[r], NEW i \in Children(g)
              PROVE  \/ EntryOf(g, i) \in todo'[r] \cup conflicts[r] \cup failed[r]
                     \/ disk[LocalPath(g, i)] = drive[i].data
          <5>1. CASE g = f
            BY <4>1, <5>1
          <5>2. CASE g # f
            BY <2>1, <3>1, <4>1, <5>2 DEF WalkCovers, Listing, Downloading, Stopped
          <5> QED BY <5>1, <5>2
        <4> QED BY <2>1, <3>2, <4>1, <4>2, <4>3, <4>4
          DEF WalkCovers, Deciding, Listing, Finished
      <3> QED BY <3>3, <3>4
    <2>3. /\ pc'[r] # Idle /\ quiet' = quiet
          /\ \A q \in Run : q # r =>
                 pc'[q] = pc[q] /\ visited'[q] = visited[q] /\ todo'[q] = todo[q]
      BY <2>1 DEF TypeOK, Idle, Listing, Deciding
    <2> QED BY <1>1, <2>1, <2>2, <2>3
  <1>4. ASSUME NEW r \in Run, Decide(r) PROVE QuietWalk'
    <2> PICK e \in todo[r] :
          LET act == Plan(mem[r], e.item, e.remote, e.path, disk[e.path]) IN
          /\ todo' = [todo EXCEPT ![r] = @ \ {e}]
          /\ \/ act = Unchanged /\ UNCHANGED <<pc, cur, conflicts>>
             \/ /\ conflicts' = [conflicts EXCEPT ![r] = @ \cup {e}]
                /\ UNCHANGED <<pc, cur>>
             \/ /\ cur' = [cur EXCEPT ![r] = e]
                /\ pc' = [pc EXCEPT ![r] = Downloading]
                /\ UNCHANGED conflicts
      BY <1>4 DEF Decide
    <2>1. /\ pc[r] = Deciding /\ pc[r] # Idle
          /\ UNCHANGED <<drive, published, disk, visited, pending, failed, quiet>>
      BY <1>4 DEF Decide, envVars, fileVars, Idle, Deciding
    <2>2. ASSUME quiet[r] PROVE WalkCovers(r)'
      <3>1. WalkCovers(r)
        BY <2>2 DEF QuietWalk
      <3>2. \A g, i : /\ EntryOf(g, i)' = EntryOf(g, i) /\ LocalPath(g, i)' = LocalPath(g, i)
                      /\ Children(g)' = Children(g)
        BY <2>1, DriveFrame
      <3>a. PICK f \in visited[r] : \E i \in Children(f) : e = EntryOf(f, i)
        BY <3>1 DEF WalkCovers
      <3>3. PICK i \in Children(f) : e = EntryOf(f, i)
        BY <3>a
      <3>4. e.item = i /\ e.remote = RemoteOf(i) /\ e.path = LocalPath(f, i)
        BY <3>3 DEF EntryOf
      <3>5. Plan(mem[r], e.item, e.remote, e.path, disk[e.path]) = Unchanged
              => disk[LocalPath(f, i)] = drive[i].data
        <4>1. e \in Entry /\ mem[r] \in State /\ Consistent(mem[r]) /\ StateTrue(mem[r])
          BY DEF TypeOK, IndexConsistent, CopiesTrue
        <4>2. e.item \in Item /\ e.remote \in Remote /\ e.path \in Path
          BY <4>1 DEF Entry
        <4>3. RemoteSeen(e.item, e.remote) /\ disk[e.path] \in Content \cup {None}
          BY <4>2 DEF CopiesTrue, TypeOK
        <4>4. SameContent(RemoteOf(i), RemoteOf(i))
          BY DEF SameContent
        <4> QED BY <3>4, <4>1, <4>2, <4>3, <4>4, PlanTrue DEF RecTrue
      <3>6. /\ todo'[r] = todo[r] \ {e} /\ conflicts[r] \subseteq conflicts'[r]
            /\ pc'[r] \in {Deciding, Downloading} /\ InHand(r)' \subseteq {e}
            /\ \/ disk[LocalPath(f, i)] = drive[i].data
               \/ e \in conflicts'[r]
               \/ pc'[r] = Downloading /\ cur'[r] = e
        BY <2>1, <3>5 DEF TypeOK, InHand, Deciding, Downloading, Recording
      <3>7. \A d \in todo'[r] \cup InHand(r)' :
              \E g \in visited[r] : \E j \in Children(g) : d = EntryOf(g, j)
        BY <3>1, <3>6 DEF WalkCovers
      <3>8. ASSUME NEW g \in visited[r], NEW j \in Children(g)
            PROVE  \/ EntryOf(g, j) \in todo'[r] \cup conflicts'[r] \cup failed[r]
                   \/ pc'[r] = Downloading /\ cur'[r] = EntryOf(g, j)
                   \/ disk[LocalPath(g, j)] = drive[j].data
        <4>1. \/ EntryOf(g, j) \in todo[r] \cup conflicts[r] \cup failed[r]
              \/ disk[LocalPath(g, j)] = drive[j].data
          BY <2>1, <3>1 DEF WalkCovers, Deciding, Downloading, Stopped
        <4>2. EntryOf(g, j) = e => LocalPath(g, j) = LocalPath(f, i) /\ i = j
          BY <3>3 DEF EntryOf
        <4> QED BY <3>3, <3>6, <4>1, <4>2
      <3> QED BY <2>1, <3>1, <3>2, <3>6, <3>7, <3>8
        DEF WalkCovers, Deciding, Downloading, Listing, Finished
    <2>3. /\ pc'[r] # Idle /\ quiet' = quiet
          /\ \A q \in Run : q # r =>
                 pc'[q] = pc[q] /\ visited'[q] = visited[q] /\ todo'[q] = todo[q]
      BY <2>1 DEF TypeOK, Idle, Deciding, Downloading
    <2> QED BY <1>1, <2>1, <2>2, <2>3
  <1>5. ASSUME NEW r \in Run, Commit(r) PROVE QuietWalk'
    <2>1. /\ pc[r] = Downloading /\ pc[r] # Idle /\ pc' = [pc EXCEPT ![r] = Recording]
          /\ disk' = [disk EXCEPT ![cur[r].path] = drive[cur[r].item].data]
          /\ UNCHANGED <<drive, published, visited, pending, todo, cur, conflicts, failed,
                         quiet>>
      BY <1>5 DEF Commit, envVars, walkVars, reportVars, Idle, Downloading
    <2>2. ASSUME quiet[r] PROVE WalkCovers(r)'
      <3>1. WalkCovers(r)
        BY <2>2 DEF QuietWalk
      <3>2. \A g, i : /\ EntryOf(g, i)' = EntryOf(g, i) /\ LocalPath(g, i)' = LocalPath(g, i)
                      /\ Children(g)' = Children(g)
        BY <2>1, DriveFrame
      <3>3. InHand(r) = {cur[r]} /\ InHand(r)' = {cur[r]} /\ pc'[r] = Recording
        BY <2>1 DEF InHand, TypeOK, Downloading, Recording
      <3>a. PICK f \in visited[r] : \E i \in Children(f) : cur[r] = EntryOf(f, i)
        BY <3>1, <3>3 DEF WalkCovers
      <3>4. PICK i \in Children(f) : cur[r] = EntryOf(f, i)
        BY <3>a
      <3>5. cur[r].item = i /\ cur[r].path = LocalPath(f, i) /\ cur[r].path \in Path
        BY <2>1, <3>4 DEF EntryOf, CurKnown, Entry
      <3>6. ASSUME NEW g \in visited[r], NEW j \in Children(g)
            PROVE  \/ EntryOf(g, j) \in todo[r] \cup conflicts[r] \cup failed[r]
                   \/ disk'[LocalPath(g, j)] = drive[j].data
        <4>1. f \in Folder /\ g \in Folder
          BY DEF TypeOK
        <4>2. CASE LocalPath(g, j) = LocalPath(f, i)
          <5>1. g = f /\ j = i
            BY <4>1, <4>2, LocalPathOwn
          <5> QED BY <2>1, <3>5, <5>1 DEF TypeOK
        <4>3. CASE LocalPath(g, j) # LocalPath(f, i)
          <5>1. cur[r] # EntryOf(g, j)
            BY <3>5, <4>3 DEF EntryOf
          <5>2. \/ EntryOf(g, j) \in todo[r] \cup conflicts[r] \cup failed[r]
                \/ disk[LocalPath(g, j)] = drive[j].data
            BY <2>1, <3>1, <5>1 DEF WalkCovers, Downloading, Stopped
          <5>3. disk'[LocalPath(g, j)] = disk[LocalPath(g, j)]
            BY <2>1, <3>5, <4>3, LocalPathIsPath, <4>1 DEF TypeOK
          <5> QED BY <5>2, <5>3
        <4> QED BY <4>2, <4>3
      <3> QED BY <2>1, <3>1, <3>2, <3>3, <3>6
        DEF WalkCovers, Recording, Downloading, Listing, Finished
    <2>3. \A q \in Run : q # r => pc'[q] = pc[q]
      BY <2>1 DEF TypeOK
    <2>4. pc'[r] # Idle
      BY <2>1 DEF TypeOK, Idle, Recording
    <2> QED BY <1>1, <2>1, <2>2, <2>3, <2>4
  <1>6. ASSUME NEW r \in Run, DownloadRefused(r) PROVE QuietWalk'
    <2>1. /\ pc[r] = Downloading /\ pc[r] # Idle
          /\ failed' = [failed EXCEPT ![r] = @ \cup {cur[r]}]
          /\ pc' = [pc EXCEPT ![r] = Deciding]
          /\ UNCHANGED <<drive, published, disk, visited, pending, todo, conflicts, quiet>>
      BY <1>6 DEF DownloadRefused, envVars, fileVars, Idle, Downloading
    <2>2. ASSUME quiet[r] PROVE WalkCovers(r)'
      <3>1. WalkCovers(r)
        BY <2>2 DEF QuietWalk
      <3>2. \A g, i : /\ EntryOf(g, i)' = EntryOf(g, i) /\ LocalPath(g, i)' = LocalPath(g, i)
                      /\ Children(g)' = Children(g)
        BY <2>1, DriveFrame
      <3>3. pc'[r] = Deciding /\ InHand(r)' = {} /\ failed'[r] = failed[r] \cup {cur[r]}
        BY <2>1 DEF InHand, TypeOK, Deciding, Downloading, Recording
      <3> QED BY <2>1, <3>1, <3>2, <3>3
        DEF WalkCovers, Deciding, Downloading, Listing, Finished, Stopped
    <2>3. pc'[r] # Idle /\ \A q \in Run : q # r => pc'[q] = pc[q]
      BY <2>1 DEF TypeOK, Idle, Deciding
    <2> QED BY <1>1, <2>1, <2>2, <2>3
  <1>7. ASSUME NEW r \in Run, Record(r) \/ NextFolder(r) \/ Finish(r) \/ Stop(r)
        PROVE  QuietWalk'
    <2>1. /\ pc[r] # Idle
          /\ \/ pc[r] = Recording /\ pc'[r] \in {Stopped, Deciding}
             \/ pc[r] = Deciding /\ pc'[r] = Listing /\ todo[r] = {}
             \/ pc[r] = Listing /\ pc'[r] = Finished /\ pending[r] = {}
             \/ pc'[r] = Stopped
          /\ \A q \in Run : q # r => pc'[q] = pc[q]
          /\ UNCHANGED <<drive, published, disk, visited, pending, todo, conflicts, failed,
                         quiet>>
      BY <1>7
      DEF Record, NextFolder, Finish, Stop, TypeOK, envVars, fileVars, walkVars, reportVars,
          Idle, Listing, Deciding, Downloading, Recording
    <2>2. ASSUME quiet[r] PROVE WalkCovers(r)'
      <3>1. WalkCovers(r)
        BY <2>2 DEF QuietWalk
      <3>2. \A g, i : /\ EntryOf(g, i)' = EntryOf(g, i) /\ LocalPath(g, i)' = LocalPath(g, i)
                      /\ Children(g)' = Children(g)
        BY <2>1, DriveFrame
      <3>3. InHand(r)' = {}
        BY <2>1 DEF InHand, Listing, Deciding, Finished, Stopped, Downloading, Recording
      <3> QED BY <2>1, <3>1, <3>2, <3>3
        DEF WalkCovers, Deciding, Downloading, Recording, Listing, Finished, Stopped
    <2>3. pc'[r] # Idle
      BY <2>1 DEF Idle, Listing, Deciding, Finished, Stopped
    <2> QED BY <1>1, <2>1, <2>2, <2>3
  <1>8. ASSUME NEW r \in Run, Save(r) \/ Crash(r) PROVE QuietWalk'
    <2>1. /\ pc[r] # Idle
          /\ ~quiet'[r] /\ visited'[r] = {} /\ todo'[r] = {}
          /\ \A q \in Run : q # r =>
                 /\ pc'[q] = pc[q] /\ quiet'[q] = quiet[q]
                 /\ visited'[q] = visited[q] /\ todo'[q] = todo[q]
      BY <1>8 DEF Save, Crash, Release, TypeOK, Idle, Finished, Stopped
    <2> QED BY <1>1, <2>1
  <1>9. CASE \/ \E i \in Item : DriveChange(i)
             \/ \E p \in Path : UserTouch(p)
             \/ UserLosesState
    <2>1. (\A r \in Run : ~quiet'[r]) /\ UNCHANGED <<pc, visited, todo>>
      BY <1>9 DEF DriveChange, UserTouch, UserLosesState, Disturb, walkVars
    <2> QED BY <2>1 DEF QuietWalk
  <1>10. CASE UNCHANGED vars
    <2>1. UNCHANGED <<drive, published, disk, pc, visited, pending, todo, cur, conflicts,
                      failed, quiet>>
      BY <1>10 DEF vars, envVars, fileVars, walkVars, reportVars
    <2>2. \A g, i : /\ EntryOf(g, i)' = EntryOf(g, i) /\ LocalPath(g, i)' = LocalPath(g, i)
                    /\ Children(g)' = Children(g)
      BY <2>1, DriveFrame
    <2>3. \A r \in Run : WalkCovers(r) => WalkCovers(r)'
      BY <2>1, <2>2 DEF WalkCovers, InHand
    <2> QED BY <2>1, <2>3 DEF QuietWalk
  <1> QED
    BY <1>2, <1>3, <1>4, <1>5, <1>6, <1>7, <1>8, <1>9, <1>10 DEF Next, RunStep

(* A sync that ends with nothing to report, while nobody else changed      *)
(* anything, leaves the whole tree mirrored with the content Drive has,    *)
(* whatever crashes, renames, edits and lost state files came before it.   *)
THEOREM MirrorIsComplete ==
  ASSUME "revert" \notin Env, "editInFlight" \notin Env
  PROVE  Spec => []MirrorComplete
  <1>1. MirrorInv /\ [Next]_vars => MirrorInv'
    BY IndexStep, CopiesStep, WalkStep DEF MirrorInv
  <1>2. MirrorInv => MirrorComplete
    BY DEF MirrorInv, QuietWalk, WalkCovers, MirrorComplete, Finished, Stopped, Downloading
  <1> QED BY <1>1, <1>2, MirrorInit, PTL DEF Spec
=============================================================================
