----------------------------- MODULE DriveSync -----------------------------
(***************************************************************************)
(* `gwsr drive +sync` (crates/gws-rust/src/helpers/drive.rs): runs that    *)
(* mirror a Drive folder tree into one local directory, next to the user   *)
(* who edits the directory and to whoever changes the files in Drive.      *)
(*                                                                         *)
(* A run is one process.  It checks the folder, takes the lock of the      *)
(* directory, loads the state file, walks the folders (`List` at one       *)
(* await, then `Decide` for each child with `Commit` at the end of the     *)
(* await of its download, and `Record` right after it) and saves the       *)
(* state.  A signal stops it at an await, a crash anywhere.                *)
(***************************************************************************)
EXTENDS SyncState, FiniteSets

CONSTANTS
  Run,            \* processes that may run +sync on the directory
  Root,           \* --folder-id
  SubFolders,     \* Folder -> its sub-folders
  Overwrite,      \* the values --overwrite takes, a subset of BOOLEAN
  Env,            \* what the surroundings may do, a subset of Disturbances
  MaxDriveSteps,  \* bound on changes made in Drive
  MaxUserSteps    \* bound on changes the user makes in the directory

(* crash: a run is killed.  rename: Drive items change name or parents.    *)
(* revert: an item gets back a content it once had.  editInFlight: the     *)
(* user touches a file while a run downloads it.  loseState: the state     *)
(* file is deleted or corrupted.                                           *)
Disturbances == {"crash", "rename", "revert", "editInFlight", "loseState"}

ASSUME DriveSyncAssumption ==
  /\ Root \in Folder
  /\ None \notin Run
  /\ SubFolders \in [Folder -> SUBSET Folder]
  /\ Overwrite \subseteq BOOLEAN
  /\ Env \subseteq Disturbances
  /\ MaxDriveSteps \in Nat
  /\ MaxUserSteps \in Nat

VARIABLES
  drive,       \* item -> its name, parent folders, content and version
  published,   \* history: contents some item has had
  disk,        \* path -> content of the local file, or None
  saved,       \* the records in .gwsr-sync.json
  unusable,    \* whether that file is corrupt or of another schema version
  lock,        \* the run that holds .gwsr-sync.lock
  pc,          \* what a run is about to do
  overwrite,   \* its --overwrite
  mem,         \* its SyncState
  pending,     \* folders on its stack
  visited,     \* folders it has listed
  todo,        \* children of the folder it is working on
  cur,         \* the child it is downloading
  conflicts,   \* its report: children whose local file it kept ...
  failed,      \* ... and children Drive refused to send
  byUser,      \* history: paths whose file, or its absence, is the user's doing
  quiet,       \* history: nobody else changed anything since it started
  driveSteps, userSteps

envVars == <<drive, published, driveSteps, userSteps>>
fileVars == <<disk, saved, unusable, byUser>>
walkVars == <<pending, visited, todo, cur>>
reportVars == <<conflicts, failed>>
vars == <<envVars, fileVars, lock, pc, overwrite, mem, walkVars, reportVars, quiet>>

DriveItem == [name : Name, parents : SUBSET Folder, data : DriveContent, ver : Nat]
Entry == [item : Item, remote : Remote, path : Path]
NoEntry == [item |-> None, remote |-> None, path |-> None]

Idle == "idle"
Listing == "listing"          \* pop a folder, await the listing of its children
Deciding == "deciding"        \* plan the next child
Downloading == "downloading"  \* await the download of `cur`
Recording == "recording"      \* fingerprint the file just renamed into place
Finished == "finished"        \* the walk is over
Stopped == "stopped"          \* the walk was interrupted or aborted
PC == {Idle, Listing, Deciding, Downloading, Recording, Finished, Stopped}

EmptyState == [records |-> NoRecords,
               by_path |-> [p \in Path |-> None],
               moved_from |-> [p \in Path |-> NotMoved],
               dirty |-> FALSE]

Init ==
  /\ drive \in [Item -> [name : Name, parents : (SUBSET Folder) \ {{}},
                         data : DriveContent, ver : {0}]]
  /\ published = {drive[i].data : i \in Item}
  /\ disk = [p \in Path |-> None]
  /\ saved = NoRecords
  /\ unusable = FALSE
  /\ byUser = {}
  /\ lock = None
  /\ pc = [r \in Run |-> Idle]
  /\ overwrite = [r \in Run |-> FALSE]
  /\ mem = [r \in Run |-> EmptyState]
  /\ pending = [r \in Run |-> {}]
  /\ visited = [r \in Run |-> {}]
  /\ todo = [r \in Run |-> {}]
  /\ cur = [r \in Run |-> NoEntry]
  /\ conflicts = [r \in Run |-> {}]
  /\ failed = [r \in Run |-> {}]
  /\ quiet = [r \in Run |-> FALSE]
  /\ driveSteps = 0
  /\ userSteps = 0

-----------------------------------------------------------------------------
(* The file system and Drive as seen by a run                              *)

(* RemoteFingerprint::of a listed child.                                   *)
RemoteOf(i) ==
  [sum |-> IF i \in Native THEN None ELSE drive[i].data, ver |-> drive[i].ver]

Children(f) == {i \in Item : f \in drive[i].parents}

(* disambiguate: a name claimed by more than one child is given to none of *)
(* them.                                                                   *)
LocalPathFirstWins(f, i) == <<f, None, drive[i].name>>
LocalPath(f, i) ==
  LET claimed == \E j \in Children(f) \ {i} : drive[j].name = drive[i].name
  IN <<f, IF claimed THEN i ELSE None, drive[i].name>>

Entries(f) == {[item |-> i, remote |-> RemoteOf(i), path |-> LocalPath(f, i)] :
                 i \in Children(f)}

(* The lock is released when the process ends, however it ends.            *)
Release(r) == /\ lock' = None
              /\ pc' = [pc EXCEPT ![r] = Idle]
              /\ mem' = [mem EXCEPT ![r] = EmptyState]
              /\ pending' = [pending EXCEPT ![r] = {}]
              /\ visited' = [visited EXCEPT ![r] = {}]
              /\ todo' = [todo EXCEPT ![r] = {}]
              /\ cur' = [cur EXCEPT ![r] = NoEntry]
              /\ conflicts' = [conflicts EXCEPT ![r] = {}]
              /\ failed' = [failed EXCEPT ![r] = {}]
              /\ overwrite' = [overwrite EXCEPT ![r] = FALSE]
              /\ quiet' = [quiet EXCEPT ![r] = FALSE]

-----------------------------------------------------------------------------
(* Steps of a run                                                          *)

(* lock_sync_dir with a zero timeout (a run that finds the lock held ends  *)
(* without having touched anything, which is no step), then                *)
(* SyncState::load.                                                        *)
LockIgnored == TRUE
LockSyncDir == lock = None

Start(r) ==
  /\ pc[r] = Idle
  /\ LockSyncDir
  /\ lock' = r
  /\ \E o \in Overwrite : overwrite' = [overwrite EXCEPT ![r] = o]
  /\ mem' = [mem EXCEPT ![r] = IF unusable THEN LoadState(NoRecords, TRUE)
                                           ELSE LoadState(saved, FALSE)]
  /\ pending' = [pending EXCEPT ![r] = {Root}]
  /\ pc' = [pc EXCEPT ![r] = Listing]
  /\ quiet' = [quiet EXCEPT ![r] = TRUE]
  /\ UNCHANGED <<envVars, fileVars, visited, todo, cur, reportVars>>

(* Pop a folder; one that was mirrored already is only reported.           *)
List(r) ==
  /\ pc[r] = Listing
  /\ \E f \in pending[r] :
       IF f \in visited[r]
       THEN /\ pending' = [pending EXCEPT ![r] = @ \ {f}]
            /\ UNCHANGED <<pc, visited, todo>>
       ELSE /\ pending' = [pending EXCEPT ![r] = (@ \ {f}) \cup SubFolders[f]]
            /\ visited' = [visited EXCEPT ![r] = @ \cup {f}]
            /\ todo' = [todo EXCEPT ![r] = Entries(f)]
            /\ pc' = [pc EXCEPT ![r] = Deciding]
  /\ UNCHANGED <<envVars, fileVars, lock, overwrite, mem, cur, reportVars, quiet>>

(* Plan one child: record it as unchanged, keep the file in its way, or    *)
(* start its download.                                                     *)
Decide(r) ==
  /\ pc[r] = Deciding
  /\ \E e \in todo[r] :
       LET act == Plan(mem[r], e.item, e.remote, e.path, disk[e.path]) IN
       /\ todo' = [todo EXCEPT ![r] = @ \ {e}]
       /\ \/ /\ act = Unchanged
             /\ mem' = [mem EXCEPT ![r] =
                  Insert(@, e.item, [path |-> e.path, remote |-> e.remote,
                                     local |-> disk[e.path]])]
             /\ UNCHANGED <<pc, cur, conflicts>>
          \/ /\ act \in Conflicts
             /\ ~overwrite[r]
             /\ conflicts' = [conflicts EXCEPT ![r] = @ \cup {e}]
             /\ UNCHANGED <<pc, cur, mem>>
          \/ /\ act = Download \/ (act \in Conflicts /\ overwrite[r])
             /\ cur' = [cur EXCEPT ![r] = e]
             /\ pc' = [pc EXCEPT ![r] = Downloading]
             /\ UNCHANGED <<mem, conflicts>>
  /\ UNCHANGED <<envVars, fileVars, lock, overwrite, pending, visited, failed, quiet>>

(* All children of the folder are done: back to the stack.                 *)
NextFolder(r) ==
  /\ pc[r] = Deciding
  /\ todo[r] = {}
  /\ pc' = [pc EXCEPT ![r] = Listing]
  /\ UNCHANGED <<envVars, fileVars, lock, overwrite, mem, walkVars, reportVars, quiet>>

(* The response has arrived: the temporary file replaces the target,       *)
(* whatever is there now.                                                  *)
Commit(r) ==
  /\ pc[r] = Downloading
  /\ disk' = [disk EXCEPT ![cur[r].path] = drive[cur[r].item].data]
  /\ byUser' = byUser \ {cur[r].path}
  /\ pc' = [pc EXCEPT ![r] = Recording]
  /\ UNCHANGED <<envVars, saved, unusable, lock, overwrite, mem, walkVars, reportVars,
                 quiet>>

(* The API refuses this one file: the walk goes on.                        *)
DownloadRefusedRequeues(r) ==
  /\ pc[r] = Downloading
  /\ todo' = [todo EXCEPT ![r] = @ \cup {cur[r]}]
  /\ cur' = [cur EXCEPT ![r] = NoEntry]
  /\ pc' = [pc EXCEPT ![r] = Deciding]
  /\ UNCHANGED <<envVars, fileVars, lock, overwrite, mem, pending, visited, reportVars,
                 quiet>>
DownloadRefused(r) ==
  /\ pc[r] = Downloading
  /\ failed' = [failed EXCEPT ![r] = @ \cup {cur[r]}]
  /\ cur' = [cur EXCEPT ![r] = NoEntry]
  /\ pc' = [pc EXCEPT ![r] = Deciding]
  /\ UNCHANGED <<envVars, fileVars, lock, overwrite, mem, pending, visited, todo,
                 conflicts, quiet>>

(* local_fingerprint reads the file now in place; one that is gone again   *)
(* aborts the walk.                                                        *)
Record(r) ==
  /\ pc[r] = Recording
  /\ LET e == cur[r] IN
     IF disk[e.path] = None
     THEN /\ pc' = [pc EXCEPT ![r] = Stopped]
          /\ UNCHANGED mem
     ELSE /\ mem' = [mem EXCEPT ![r] =
               Insert(@, e.item, [path |-> e.path, remote |-> e.remote,
                                  local |-> disk[e.path]])]
          /\ pc' = [pc EXCEPT ![r] = Deciding]
  /\ cur' = [cur EXCEPT ![r] = NoEntry]
  /\ UNCHANGED <<envVars, fileVars, lock, overwrite, pending, visited, todo,
                 reportVars, quiet>>

Finish(r) ==
  /\ pc[r] = Listing
  /\ pending[r] = {}
  /\ pc' = [pc EXCEPT ![r] = Finished]
  /\ UNCHANGED <<envVars, fileVars, lock, overwrite, mem, walkVars, reportVars, quiet>>

(* A signal, or an error that is not this one file's (auth, network, rate  *)
(* limit), ends the walk at an await.                                      *)
Stop(r) ==
  /\ pc[r] \in {Listing, Downloading}
  /\ pc' = [pc EXCEPT ![r] = Stopped]
  /\ UNCHANGED <<envVars, fileVars, lock, overwrite, mem, walkVars, reportVars, quiet>>

(* SyncState::save, reached however the walk ended, then the end of the    *)
(* process.                                                                *)
Save(r) ==
  /\ pc[r] \in {Finished, Stopped}
  /\ IF mem[r].dirty
     THEN /\ saved' = mem[r].records
          /\ unusable' = FALSE
     ELSE UNCHANGED <<saved, unusable>>
  /\ Release(r)
  /\ UNCHANGED <<envVars, disk, byUser>>

(* The state file cannot be written, or the process is killed.             *)
Crash(r) ==
  /\ "crash" \in Env
  /\ pc[r] # Idle
  /\ Release(r)
  /\ UNCHANGED <<envVars, fileVars>>

RunStep(r) ==
  \/ List(r) \/ Decide(r) \/ NextFolder(r) \/ Commit(r) \/ DownloadRefused(r)
  \/ Record(r) \/ Finish(r) \/ Stop(r) \/ Save(r)

-----------------------------------------------------------------------------
(* Drive and the user                                                      *)

Disturb == quiet' = [r \in Run |-> FALSE]

(* New content, a new name, other parents or the trash (no parent): each   *)
(* changes the version.                                                    *)
DriveChange(i) ==
  /\ driveSteps < MaxDriveSteps
  /\ driveSteps' = driveSteps + 1
  /\ \/ \E d \in DriveContent \ (IF "revert" \in Env THEN {} ELSE published) :
          /\ drive' = [drive EXCEPT ![i].data = d, ![i].ver = @ + 1]
          /\ published' = published \cup {d}
     \/ \E n \in Name :
          /\ "rename" \in Env
          /\ drive' = [drive EXCEPT ![i].name = n, ![i].ver = @ + 1]
          /\ UNCHANGED published
     \/ \E fs \in SUBSET Folder :
          /\ "rename" \in Env
          /\ drive' = [drive EXCEPT ![i].parents = fs, ![i].ver = @ + 1]
          /\ UNCHANGED published
  /\ Disturb
  /\ UNCHANGED <<userSteps, fileVars, lock, pc, overwrite, mem, walkVars, reportVars>>

InFlight(p) == \E r \in Run : pc[r] \in {Downloading, Recording} /\ cur[r].path = p

(* The user writes his own content or a copy of some Drive file, or        *)
(* deletes the file.                                                       *)
UserTouch(p) ==
  /\ userSteps < MaxUserSteps
  /\ userSteps' = userSteps + 1
  /\ "editInFlight" \in Env \/ ~InFlight(p)
  /\ \E c \in (UserContent \cup published \cup {None}) \ {disk[p]} :
       disk' = [disk EXCEPT ![p] = c]
  /\ byUser' = byUser \cup {p}
  /\ Disturb
  /\ UNCHANGED <<drive, published, driveSteps, saved, unusable, lock, pc, overwrite, mem,
                 walkVars, reportVars>>

(* The state file is deleted, or replaced by something that is not one.    *)
UserLosesState ==
  /\ "loseState" \in Env
  /\ userSteps < MaxUserSteps
  /\ userSteps' = userSteps + 1
  /\ saved' = NoRecords
  /\ unusable' \in BOOLEAN
  /\ byUser' = Path
  /\ Disturb
  /\ UNCHANGED <<drive, published, driveSteps, disk, lock, pc, overwrite, mem, walkVars,
                 reportVars>>

Next ==
  \/ \E r \in Run : Start(r) \/ RunStep(r) \/ Crash(r)
  \/ \E i \in Item : DriveChange(i)
  \/ \E p \in Path : UserTouch(p)
  \/ UserLosesState

Spec == Init /\ [][Next]_vars

(* A process that is not killed takes its next step.                       *)
FairSpec == Spec /\ \A r \in Run : WF_vars(RunStep(r))

-----------------------------------------------------------------------------
TypeOK ==
  /\ drive \in [Item -> DriveItem]
  /\ published \subseteq DriveContent
  /\ disk \in [Path -> Content \cup {None}]
  /\ saved \in [Item -> MaybeRec]
  /\ unusable \in BOOLEAN
  /\ byUser \subseteq Path
  /\ lock \in Run \cup {None}
  /\ pc \in [Run -> PC]
  /\ overwrite \in [Run -> BOOLEAN]
  /\ mem \in [Run -> State]
  /\ pending \in [Run -> SUBSET Folder]
  /\ visited \in [Run -> SUBSET Folder]
  /\ todo \in [Run -> SUBSET Entry]
  /\ cur \in [Run -> Entry \cup {NoEntry}]
  /\ conflicts \in [Run -> SUBSET Entry]
  /\ failed \in [Run -> SUBSET Entry]
  /\ quiet \in [Run -> BOOLEAN]
  /\ driveSteps \in Nat
  /\ userSteps \in Nat

(* The path index of a run is the inverse of its records, whatever order   *)
(* items are renamed onto each other's paths in: an item the index lost    *)
(* would be taken for the user's file, one it kept for the sync's.         *)
IndexConsistent == \A r \in Run : Consistent(mem[r])

(* A file holding something only the user can have written is replaced or  *)
(* removed by the user, or by a run started with --overwrite.              *)
NoUserLoss ==
  [][\A p \in Path : disk[p] \in UserContent /\ disk'[p] # disk[p] =>
       \/ userSteps' # userSteps
       \/ \E r \in Run : pc[r] = Downloading /\ overwrite[r]]_vars

(* A walk that ends with nothing to report, while nobody else changed      *)
(* anything, leaves every file of the tree with the content Drive has, at  *)
(* a path of its own.                                                      *)
MirrorComplete ==
  \A r \in Run :
    pc[r] = Finished /\ quiet[r] /\ conflicts[r] = {} /\ failed[r] = {} =>
      /\ Root \in visited[r]
      /\ \A f \in visited[r] :
           /\ SubFolders[f] \subseteq visited[r]
           /\ \A i \in Children(f) : disk[LocalPath(f, i)] = drive[i].data

(* A path the state file tracks is reported as a conflict only where the   *)
(* user touched it, also while items take over each other's names and runs *)
(* are interrupted.                                                        *)
TrackedNeverConflicts ==
  \A r \in Run : \A e \in conflicts[r] :
    (\E i \in Item : saved[i].path = e.path) => e.path \in byUser

(* The state a run saves describes the files on the disk, wherever the     *)
(* user left them alone.                                                   *)
SavedIsTrue ==
  [][\A r \in Run : Save(r) =>
       \A i \in Item : saved'[i] # NoRec /\ saved'[i].path \notin byUser =>
         disk[saved'[i].path] = saved'[i].local]_vars

(* Every run ends and lets go of the directory.                            *)
RunEnds == \A r \in Run : pc[r] # Idle ~> pc[r] = Idle

-----------------------------------------------------------------------------
(* The inductive invariant behind IndexConsistent.                         *)
(* Only the run that holds the lock is past it.                            *)
RunsExclude == \A r \in Run : pc[r] # Idle => lock = r
(* A run that awaits or records a download knows which.                    *)
CurKnown == \A r \in Run : pc[r] \in {Downloading, Recording} => cur[r] \in Entry

IndexInv == TypeOK /\ RunsExclude /\ CurKnown /\ IndexConsistent /\ PathsUnique(saved)

(* The inductive invariant behind NoUserLoss, while nobody touches a file  *)
(* that is being downloaded: no record describes a content of the user's,  *)
(* and a run without --overwrite downloads onto no such content.           *)
RecordsFromDrive == FromDrive(saved) /\ \A r \in Run : StateFromDrive(mem[r])
FlightSparesUser ==
  \A r \in Run :
    /\ pc[r] = Downloading /\ ~overwrite[r] => disk[cur[r].path] \notin UserContent
    /\ pc[r] = Recording => disk[cur[r].path] \notin UserContent

LossInv == IndexInv /\ RecordsFromDrive /\ FlightSparesUser

(* The inductive invariant behind SavedIsTrue and TrackedNeverConflicts,   *)
(* while no process is killed.  The file at a path the user left alone is  *)
(* the one its record, or the move remembered there, describes; only the   *)
(* file a run has just renamed into place is not recorded yet.             *)
Recorded(r, p) == ~(pc[r] = Recording /\ cur[r].path = p)
UnusableEmpty == unusable => saved = NoRecords
SavedTrue ==
  lock = None => \A i \in Item : saved[i] # NoRec /\ saved[i].path \notin byUser =>
                   disk[saved[i].path] = saved[i].local
MemTrue ==
  \A r \in Run : pc[r] # Idle =>
    Describes(mem[r], disk, {p \in Path \ byUser : Recorded(r, p)})
CleanMem ==
  \A r \in Run : pc[r] # Idle /\ ~mem[r].dirty =>
    \A i \in Item : saved[i] \in {NoRec, mem[r].records[i]}
RenamedThere ==
  \A r \in Run : pc[r] = Recording /\ cur[r].path \notin byUser => disk[cur[r].path] # None

SavedInv == IndexInv /\ UnusableEmpty /\ SavedTrue /\ MemTrue /\ CleanMem /\ RenamedThere

(* A run knows every path the state file tracks, until it has recorded the *)
(* file there anew, and it plans a path once: a folder is listed once and  *)
(* gives no two children the same path.                                    *)
TrackedKnown ==
  \A r \in Run : pc[r] # Idle =>
    \A i \in Item : saved[i] # NoRec => AtPath(mem[r], saved[i].path) # NotMoved
InHand(r) == IF pc[r] \in {Downloading, Recording} THEN {cur[r]} ELSE {}
PlansOnce(r) ==
  /\ \A e, d \in todo[r] : e.path = d.path => e = d
  /\ \A e \in InHand(r), d \in todo[r] : e.path # d.path
  /\ \A e \in conflicts[r], d \in todo[r] \cup InHand(r) : e.path # d.path
  /\ \A e \in todo[r] \cup InHand(r) \cup conflicts[r] : e.path[1] \in visited[r]
PlannedOnce == \A r \in Run : PlansOnce(r)
IdleReportsNothing == \A r \in Run : pc[r] = Idle => conflicts[r] = {}

TrackedInv == SavedInv /\ TrackedKnown /\ PlannedOnce /\ IdleReportsNothing
              /\ TrackedNeverConflicts

(* The inductive invariant behind MirrorComplete, while no item gets back  *)
(* a content it once had and nobody touches a file that is being           *)
(* downloaded.  What a run knows of an item was once true of it; a record  *)
(* whose remote side is what Drive has now describes a copy of it.         *)
RemoteSeen(i, remote) ==
  IF i \in Native THEN remote.sum = None /\ remote.ver <= drive[i].ver
                  ELSE remote.sum \in published
RecTrue(i, rec) ==
  /\ RemoteSeen(i, rec.remote)
  /\ SameContent(RemoteOf(i), rec.remote) => rec.local = drive[i].data
RecsTrue(records) == \A i \in Item : records[i] # NoRec => RecTrue(i, records[i])
StateTrue(s) ==
  /\ RecsTrue(s.records)
  /\ \A p \in Path : s.moved_from[p] # NotMoved =>
       s.moved_from[p].id \in Item /\ RecTrue(s.moved_from[p].id, s.moved_from[p].rec)
CopiesTrue ==
  /\ \A i \in Item : drive[i].data \in published
  /\ RecsTrue(saved)
  /\ \A r \in Run :
       /\ StateTrue(mem[r])
       /\ \A e \in todo[r] \cup InHand(r) : RemoteSeen(e.item, e.remote)
       /\ pc[r] = Recording =>
            RecTrue(cur[r].item, [path |-> cur[r].path, remote |-> cur[r].remote,
                                  local |-> disk[cur[r].path]])

(* The walk of a run while nobody else changes anything.                   *)
EntryOf(f, i) == [item |-> i, remote |-> RemoteOf(i), path |-> LocalPath(f, i)]
WalkCovers(r) ==
  /\ Root \in visited[r] \cup pending[r]
  /\ \A f \in visited[r] : SubFolders[f] \subseteq visited[r] \cup pending[r]
  /\ pc[r] \in {Listing, Finished} => todo[r] = {}
  /\ pc[r] = Finished => pending[r] = {}
  /\ \A e \in todo[r] \cup InHand(r) :
       \E f \in visited[r] : \E i \in Children(f) : e = EntryOf(f, i)
  /\ pc[r] # Stopped =>
       \A f \in visited[r] : \A i \in Children(f) :
         \/ EntryOf(f, i) \in todo[r] \cup conflicts[r] \cup failed[r]
         \/ pc[r] = Downloading /\ cur[r] = EntryOf(f, i)
         \/ disk[LocalPath(f, i)] = drive[i].data
QuietWalk ==
  \A r \in Run :
    /\ pc[r] = Idle => ~quiet[r] /\ visited[r] = {} /\ todo[r] = {}
    /\ quiet[r] => WalkCovers(r)

MirrorInv == IndexInv /\ CopiesTrue /\ QuietWalk
=============================================================================
