------------------------------- MODULE ScriptSync ------------------------------
(***************************************************************************)
(* script +pull and +push (helpers/script.rs): an Apps Script project as   *)
(* files in a directory.  A push replaces every file of the project, so a  *)
(* file that a pull could not represent, or a push passes over, is deleted *)
(* from the project.  The disk may tell names apart by case or not.        *)
(*                                                                         *)
(* The files named here stand for what the code tells apart: two names     *)
(* that differ in case only, one that a push skips (hidden), and the       *)
(* manifest, without which nothing is pushed.                              *)
(***************************************************************************)
EXTENDS Outcome, FiniteSets

CONSTANT Edits   \* bound: what the user does between the commands

ASSUME ScriptAssumption == Edits \in Nat

Manifest == "appsscript"
ScriptName == {Manifest, "Code", "code", ".lib"}
SkipName(name) == name = ".lib"
CaseKey(name) == IF name = "Code" THEN "code" ELSE name

\* What a file holds: as in the project, or edited, or it is a symbolic link.
Content == {"project", "edited"}
Link == "link"

VARIABLES
  cStep,     \* "off", plan and write (+pull), push, and "ready" between commands
  cFolds,    \* whether the disk ignores case
  cProject,  \* the files of the project: [name, content]
  cDisk,     \* the files in the directory, and symbolic links
  cOverwrite,
  cFetched,  \* the project as it was pulled
  cPlanned,  \* files still to be written
  cBefore,   \* history: the directory before the pull
  cMirror,   \* history: the directory holds the pulled project and nothing else
  cPushed,   \* files to be pushed
  cEdits,
  cEnd

scriptVars == <<cStep, cFolds, cProject, cDisk, cOverwrite, cFetched, cPlanned, cBefore, cMirror, cPushed, cEdits, cEnd>>

ScriptFile == [name : ScriptName, content : Content]
DiskEntry == [name : ScriptName, content : Content \cup {Link}]
NamesOf(files) == {f.name : f \in files}
SameFile(m, n) == m = n \/ (cFolds /\ CaseKey(m) = CaseKey(n))

ScriptInit ==
  /\ cStep = "off" /\ cFolds = FALSE /\ cProject = {} /\ cDisk = {}
  /\ cOverwrite = FALSE /\ cFetched = NoValue /\ cPlanned = {} /\ cBefore = {}
  /\ cMirror = FALSE /\ cPushed = {} /\ cEdits = 0 /\ cEnd = NoValue

ScriptBegin(folds, project, disk) ==
  /\ cStep = "off"
  /\ cStep' = "ready" /\ cFolds' = folds /\ cProject' = project /\ cDisk' = disk
  /\ UNCHANGED <<cOverwrite, cFetched, cPlanned, cBefore, cMirror, cPushed, cEdits, cEnd>>

ScriptEnds(ending) == cStep' = "ready" /\ cEnd' = ending

\* Between the commands the user edits a file.
UserEdits ==
  /\ cStep = "ready" /\ cEdits < Edits
  /\ cEdits' = cEdits + 1
  /\ \E e \in cDisk :
       /\ e.content = "project"
       /\ cDisk' = (cDisk \ {e}) \cup {[e EXCEPT !.content = "edited"]}
  /\ cMirror' = FALSE
  /\ UNCHANGED <<cStep, cFolds, cProject, cOverwrite, cFetched, cPlanned, cBefore, cPushed, cEnd>>

\* +pull: the content of the project.
Pull(overwrite) ==
  /\ cStep = "ready"
  /\ cOverwrite' = overwrite
  /\ cFetched' = cProject /\ cBefore' = cDisk
  /\ cStep' = "plan" /\ cMirror' = FALSE /\ cEnd' = NoValue
  /\ UNCHANGED <<cFolds, cProject, cDisk, cPlanned, cPushed, cEdits>>

\* Mutant: two names are the same file only if they are spelled the same.
ClaimsClashExact == \E f, g \in cFetched : f # g /\ f.name = g.name

\* claim_case_insensitively: two names that are one file on some disk, whatever
\* this disk does.
ClaimsClash == \E f, g \in cFetched : f # g /\ CaseKey(f.name) = CaseKey(g.name)

\* local_path_for: names that cannot be written, or that a push would skip.
UnsafeName == \E f \in cFetched : SkipName(f.name)

Exists(name) == \E e \in cDisk : SameFile(e.name, name)

\* Mutant: what can be written is, before the rest is refused.
PlanPullEager ==
  /\ cStep = "plan"
  /\ LET present == {f \in cFetched : Exists(f.name)} IN
       IF UnsafeName \/ ClaimsClash THEN ScriptEnds("validation") /\ UNCHANGED <<cPlanned, cDisk>>
       ELSE IF ~cOverwrite /\ present # {} THEN
         ScriptEnds("validation") /\ cDisk' = cDisk \cup (cFetched \ present) /\ UNCHANGED cPlanned
       ELSE cPlanned' = cFetched /\ cStep' = "write" /\ UNCHANGED <<cDisk, cEnd>>
  /\ UNCHANGED <<cFolds, cProject, cOverwrite, cFetched, cBefore, cMirror, cPushed, cEdits>>

\* Everything that can be refused is, before anything is written.  (Locals that are not
\* looked at again, here and below, are reset.)
PlanPull ==
  /\ cStep = "plan"
  /\ IF UnsafeName \/ ClaimsClash \/ (~cOverwrite /\ \E f \in cFetched : Exists(f.name))
     THEN ScriptEnds("validation") /\ UNCHANGED cPlanned
     ELSE cPlanned' = cFetched /\ cStep' = "write" /\ UNCHANGED cEnd
  /\ cOverwrite' = FALSE /\ cBefore' = {}
  /\ UNCHANGED <<cFolds, cProject, cDisk, cFetched, cMirror, cPushed, cEdits>>

\* The files one after the other, each atomically.
WriteFile(f) ==
  /\ cStep = "write" /\ f \in cPlanned
  /\ cPlanned' = cPlanned \ {f}
  /\ cDisk' = {e \in cDisk : ~SameFile(e.name, f.name)} \cup {f}
  /\ UNCHANGED <<cStep, cFolds, cProject, cOverwrite, cFetched, cBefore, cMirror, cPushed, cEdits, cEnd>>

\* A write fails: the files before it are there, and the error names them.
WriteFails ==
  /\ cStep = "write" /\ cPlanned # {}
  /\ ScriptEnds("other") /\ cPlanned' = {}
  /\ UNCHANGED <<cFolds, cProject, cDisk, cOverwrite, cFetched, cBefore, cMirror, cPushed, cEdits>>

PullDone ==
  /\ cStep = "write" /\ cPlanned = {}
  /\ ScriptEnds("ok")
  /\ cMirror' = (cDisk \subseteq cFetched)
  /\ UNCHANGED <<cFolds, cProject, cDisk, cOverwrite, cFetched, cPlanned, cBefore, cPushed, cEdits>>

\* Mutant: symbolic links are left out of the push.
CollectSkippingLinks ==
  /\ cStep = "ready"
  /\ LET files == {e \in cDisk : ~SkipName(e.name) /\ e.content # Link} IN
       IF Manifest \notin NamesOf(files) THEN ScriptEnds("validation") /\ UNCHANGED cPushed
       ELSE cStep' = "push" /\ cPushed' = files /\ UNCHANGED cEnd
  /\ UNCHANGED <<cFolds, cProject, cDisk, cOverwrite, cFetched, cPlanned, cBefore, cMirror, cEdits>>

\* +push: collect_files, which refuses symbolic links that stand for a file, and a
\* directory without a manifest; the replacement of all files is confirmed.
Collect ==
  /\ cStep = "ready"
  /\ LET files == {e \in cDisk : ~SkipName(e.name)} IN
       IF (\E e \in files : e.content = Link) \/ Manifest \notin NamesOf(files)
       THEN ScriptEnds("validation") /\ UNCHANGED cPushed
       ELSE /\ cPushed' = files
            /\ \/ cStep' = "push" /\ UNCHANGED cEnd
               \/ ScriptEnds("unconfirmed")
  /\ UNCHANGED <<cFolds, cProject, cDisk, cOverwrite, cFetched, cPlanned, cBefore, cMirror, cEdits>>

\* The files collected are the project from now on; or the request fails.
Push ==
  /\ cStep = "push"
  /\ \/ cProject' = cPushed /\ ScriptEnds("ok")
     \/ ScriptEnds("api") /\ UNCHANGED cProject
  /\ cPushed' = {}
  /\ UNCHANGED <<cFolds, cDisk, cOverwrite, cFetched, cPlanned, cBefore, cMirror, cEdits>>

\* A project, whose names may differ in case only, and what the directory holds.
LegalFiles(files, folds) ==
  \A f, g \in files : f # g => f.name # g.name /\ (folds => CaseKey(f.name) # CaseKey(g.name))

ScriptNext ==
  \/ /\ cStep = "off"
     /\ \E folds \in BOOLEAN, names \in SUBSET ScriptName, disk \in SUBSET DiskEntry :
          LET project == {[name |-> n, content |-> "project"] : n \in names \cup {Manifest}} IN
            /\ LegalFiles(disk, folds) /\ Cardinality(disk) <= 2
            /\ ScriptBegin(folds, project, disk)
  \/ UserEdits \/ (\E overwrite \in BOOLEAN : Pull(overwrite)) \/ PlanPull
  \/ (\E f \in ScriptFile : WriteFile(f)) \/ WriteFails \/ PullDone
  \/ Collect \/ Push

ScriptSpec == ScriptInit /\ [][ScriptNext]_scriptVars

ScriptTypeOK ==
  /\ cStep \in {"off", "ready", "plan", "write", "push"}
  /\ cFolds \in BOOLEAN /\ cOverwrite \in BOOLEAN /\ cMirror \in BOOLEAN
  /\ cProject \subseteq ScriptFile /\ cDisk \subseteq DiskEntry /\ LegalFiles(cDisk, cFolds)
  /\ cPlanned \subseteq ScriptFile /\ cBefore \subseteq DiskEntry /\ cPushed \subseteq ScriptFile
  /\ cEdits \in 0..Edits /\ cEnd \in Ending \cup {NoValue}

\* A project pulled and pushed straight back is the project: no file is lost on a
\* disk that ignores case, or for a name that a push passes over.  (The directory
\* holds nothing else; a pull does not remove what the project no longer has.)
RoundTrip ==
  [][cStep = "push" /\ cMirror => cProject' \in {cProject, cFetched}]_scriptVars

\* A pull that is refused has written nothing.
RefusedWritesNothing ==
  [][cStep = "plan" /\ cStep' = "ready" => cDisk' = cBefore]_scriptVars

\* A push deletes no file of the project that the directory has, be it as a link.
PushKeepsLocal ==
  [][cProject' # cProject => \A e \in cDisk : SkipName(e.name) \/ e.name \in NamesOf(cProject')]_scriptVars

\* Pulls and pushes lose no file of a project.
ScriptCorrect == RoundTrip /\ RefusedWritesNothing /\ PushKeepsLocal

===============================================================================
