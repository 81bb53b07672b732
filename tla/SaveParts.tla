------------------------------- MODULE SaveParts -------------------------------
(***************************************************************************)
(* gmail +attachments: the parts of a message become files of a directory, *)
(* one after the other (gmail/download.rs), each through a temporary file  *)
(* that is renamed into place (output_file.rs).                            *)
(*                                                                         *)
(* A name is a sequence: its spelling and the " (n)" appended to it.  The  *)
(* file system may or may not tell spellings apart that differ in case or  *)
(* Unicode normalization.  Another process puts files or directories into  *)
(* the same directory, and gwsr can be killed.                             *)
(***************************************************************************)
EXTENDS Outcome, FiniteSets, SequencesExt

CONSTANTS
  Spelling,     \* spellings of one name, the same but for case
  MaxParts,     \* bound: parts of the message
  Intrusions    \* bound: files the other process creates

ASSUME SavePartsAssumption == MaxParts \in Nat /\ Intrusions \in Nat

VARIABLES
  pStep,      \* "off", plan, fetch, create, commit, over, dead
  pParts,     \* the names of the parts, made safe (safe_filename)
  pOverwrite, \* --overwrite
  pFolding,   \* the file system takes all spellings for one
  pPlan,      \* the path of each part, as far as they are planned
  pConflict,  \* a file stands in the way of a planned path
  pSaved,     \* parts saved so far (and named by an error)
  pDisk,      \* what there is: a part's file, somebody's file, a directory
  pAlien,     \* history: where the other process put something
  pEnd

partsVars == <<pStep, pParts, pOverwrite, pFolding, pPlan, pConflict, pSaved, pDisk, pAlien, pEnd>>

PartName == {<<s>> : s \in Spelling} \cup {<<s, 1>> : s \in Spelling}

\* case_insensitive_key: all spellings have one.
CollisionKey(name) == Tail(name)

\* Where the file system keeps the file of a name.
FileAt(name) == IF pFolding THEN CollisionKey(name) ELSE name

Thing(what, part) == [what |-> what, part |-> part]
Taken(name) == FileAt(name) \in DOMAIN pDisk
Directory(name) == Taken(name) /\ pDisk[FileAt(name)].what = "dir"

\* The directory with something in the place of a name.
DiskWith(name, thing) ==
  [e \in DOMAIN pDisk \cup {FileAt(name)} |-> IF e = FileAt(name) THEN thing ELSE pDisk[e]]

PartsInit ==
  /\ pStep = "off" /\ pParts = << >> /\ pOverwrite = FALSE /\ pFolding = FALSE
  /\ pPlan = << >> /\ pConflict = FALSE /\ pSaved = 0 /\ pDisk = << >> /\ pAlien = {} /\ pEnd = NoValue

PartsEnd(ending) == pStep' = "over" /\ pEnd' = ending

\* The message is read.
PartsBegin(parts, overwrite, folding) ==
  /\ pStep = "off"
  /\ pStep' = "plan" /\ pParts' = parts /\ pOverwrite' = overwrite /\ pFolding' = folding
  /\ UNCHANGED <<pPlan, pConflict, pSaved, pDisk, pAlien, pEnd>>

\* Mutant: names that differ in case are different.
DedupeExact(name, taken) ==
  IF name \notin taken THEN name
  ELSE name \o <<CHOOSE n \in 1..(Cardinality(taken) + 1) :
                   /\ name \o <<n>> \notin taken
                   /\ \A m \in 1..(n - 1) : name \o <<m>> \in taken>>

\* dedupe: the first " (n)" that makes the name one of its own.
Dedupe(name, taken) ==
  LET keys == {CollisionKey(t) : t \in taken}
  IN  IF CollisionKey(name) \notin keys THEN name
      ELSE name \o <<CHOOSE n \in 1..(Cardinality(keys) + 1) :
                       /\ CollisionKey(name \o <<n>>) \notin keys
                       /\ \A m \in 1..(n - 1) : CollisionKey(name \o <<m>>) \in keys>>

\* plan_paths, a part: its name, and whether something is in the way of it.
PlanPart ==
  /\ pStep = "plan" /\ Len(pPlan) < Len(pParts)
  /\ LET path == Dedupe(pParts[Len(pPlan) + 1], ToSet(pPlan))
     IN  /\ pPlan' = Append(pPlan, path)
         /\ \/ Directory(path) /\ PartsEnd("validation") /\ UNCHANGED pConflict
            \/ ~Directory(path) /\ pConflict' = (pConflict \/ (~pOverwrite /\ Taken(path))) /\ UNCHANGED <<pStep, pEnd>>
  /\ UNCHANGED <<pParts, pOverwrite, pFolding, pSaved, pDisk, pAlien>>

\* What is in the way is an error before anything is downloaded.
PlanDone ==
  /\ pStep = "plan" /\ Len(pPlan) = Len(pParts)
  /\ IF pConflict THEN PartsEnd("validation") ELSE pStep' = "fetch" /\ UNCHANGED pEnd
  /\ UNCHANGED <<pParts, pOverwrite, pFolding, pPlan, pConflict, pSaved, pDisk, pAlien>>

\* save_part: the body is fetched, or decoded from the message.
FetchPart ==
  /\ pStep = "fetch" /\ pSaved < Len(pParts)
  /\ \/ pStep' = "create" /\ UNCHANGED pEnd
     \/ \E e \in {"api", "network", "other"} : PartsEnd(e)
  /\ UNCHANGED <<pParts, pOverwrite, pFolding, pPlan, pConflict, pSaved, pDisk, pAlien>>

\* AtomicFile::create and write: a temporary file, unless the target is in the way.
CreatePart ==
  /\ pStep = "create"
  /\ LET path == pPlan[pSaved + 1]
     IN  \/ (Directory(path) \/ (~pOverwrite /\ Taken(path))) /\ PartsEnd("validation")
         \/ ~Directory(path) /\ (pOverwrite \/ ~Taken(path)) /\ pStep' = "commit" /\ UNCHANGED pEnd
         \/ PartsEnd("other")
  /\ UNCHANGED <<pParts, pOverwrite, pFolding, pPlan, pConflict, pSaved, pDisk, pAlien>>

\* Mutant: the rename replaces what is there.
CommitOver ==
  /\ pStep = "commit"
  /\ LET path == pPlan[pSaved + 1]
     IN  \/ /\ ~Directory(path)
            /\ pDisk' = DiskWith(path, Thing("part", pSaved + 1))
            /\ pSaved' = pSaved + 1 /\ pStep' = "fetch" /\ UNCHANGED pEnd
         \/ Directory(path) /\ PartsEnd("other") /\ UNCHANGED <<pSaved, pDisk>>
  /\ UNCHANGED <<pParts, pOverwrite, pFolding, pPlan, pConflict, pAlien>>

\* commit: the rename refuses a file that has come since, unless it may replace it,
\* and always a directory.
CommitPart ==
  /\ pStep = "commit"
  /\ LET path == pPlan[pSaved + 1]
     IN  \/ /\ ~Directory(path) /\ (pOverwrite \/ ~Taken(path))
            /\ pDisk' = DiskWith(path, Thing("part", pSaved + 1))
            /\ pSaved' = pSaved + 1 /\ pStep' = "fetch" /\ UNCHANGED pEnd
         \/ ~pOverwrite /\ Taken(path) /\ PartsEnd("validation") /\ UNCHANGED <<pSaved, pDisk>>
         \/ pOverwrite /\ Directory(path) /\ PartsEnd("other") /\ UNCHANGED <<pSaved, pDisk>>
         \/ PartsEnd("other") /\ UNCHANGED <<pSaved, pDisk>>
  /\ UNCHANGED <<pParts, pOverwrite, pFolding, pPlan, pConflict, pAlien>>

PartsDone ==
  /\ pStep = "fetch" /\ pSaved = Len(pParts)
  /\ PartsEnd("ok")
  /\ UNCHANGED <<pParts, pOverwrite, pFolding, pPlan, pConflict, pSaved, pDisk, pAlien>>

\* The other process creates a file or a directory where there is none.
Intrude(name) ==
  /\ pStep \notin {"off", "over", "dead"}
  /\ Cardinality(pAlien) < Intrusions /\ ~Taken(name)
  /\ \E what \in {"user", "dir"} : pDisk' = DiskWith(name, Thing(what, 0))
  /\ pAlien' = pAlien \cup {FileAt(name)}
  /\ UNCHANGED <<pStep, pParts, pOverwrite, pFolding, pPlan, pConflict, pSaved, pEnd>>

\* A signal ends gwsr between two steps.
PartsKilled ==
  /\ pStep \in {"plan", "fetch", "create", "commit"}
  /\ pStep' = "dead"
  /\ UNCHANGED <<pParts, pOverwrite, pFolding, pPlan, pConflict, pSaved, pDisk, pAlien, pEnd>>

PartsNext ==
  \/ \E n \in 0..MaxParts : \E parts \in [1..n -> PartName], overwrite, folding \in BOOLEAN :
       PartsBegin(parts, overwrite, folding)
  \/ PlanPart \/ PlanDone \/ FetchPart \/ CreatePart \/ CommitPart \/ PartsDone
  \/ \E name \in PartName : Intrude(name)
  \/ PartsKilled

-------------------------------------------------------------------------------
PartsTypeOK ==
  /\ pStep \in {"off", "plan", "fetch", "create", "commit", "over", "dead"}
  /\ Len(pParts) <= MaxParts /\ \A i \in DOMAIN pParts : pParts[i] \in PartName
  /\ pOverwrite \in BOOLEAN /\ pFolding \in BOOLEAN
  /\ Len(pPlan) <= Len(pParts) /\ pConflict \in BOOLEAN /\ pSaved \in 0..Len(pPlan)
  /\ \A e \in DOMAIN pDisk : pDisk[e] \in [what : {"part", "user", "dir"}, part : 0..pSaved]
  /\ pAlien \subseteq DOMAIN pDisk
  /\ pEnd \in Ending \cup {NoValue}

\* Every part that the answer, or the error, says was written stands in a file of its
\* own, whichever spellings the file system tells apart, and nothing else was written:
\* no part has replaced another one.
PartsStand ==
  /\ \A i \in 1..pSaved : Taken(pPlan[i]) /\ pDisk[FileAt(pPlan[i])] = Thing("part", i)
  /\ \A e \in DOMAIN pDisk : pDisk[e].what = "part" => pDisk[e].part \in 1..pSaved
  /\ pEnd = "ok" => pSaved = Len(pParts)

\* Without --overwrite no file of somebody else's is replaced, also one that appears
\* while the parts are fetched; a directory never is.
NothingClobbered ==
  \A e \in pAlien : pDisk[e].what = "part" => pOverwrite

===============================================================================
