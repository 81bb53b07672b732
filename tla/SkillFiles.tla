------------------------------ MODULE SkillFiles ------------------------------
(***************************************************************************)
(* gwsr dev generate-skills (generate_skills.rs): a directory of skills is *)
(* rewritten, one SKILL.md after the other, and the skills that are no     *)
(* longer produced are pruned, without touching what somebody else keeps   *)
(* there.  Several runs, of versions that produce different skills, may be *)
(* killed at any point; the user adds files meanwhile.                     *)
(*                                                                         *)
(* Directory names are numbered in their order: 1 is a service's skill, 2  *)
(* that of its helper command, the others personas and recipes.            *)
(***************************************************************************)
EXTENDS Outcome, FiniteSetsExt

CONSTANTS
  MaxSkills,  \* bound: directory names
  SkillRuns,  \* bound: runs
  UserFiles   \* bound: files the user adds

ASSUME SkillsAssumption == MaxSkills \in Nat \ {0, 1} /\ SkillRuns \in Nat /\ UserFiles \in Nat

VARIABLES
  fStep,      \* "off", render, write, rename, list, prune, remove, over, dead
  fProduct,   \* the skills this version has
  fFilter,    \* --filter: what it asks for; none: everything
  fDry,       \* --dry-run
  fLeft,      \* names still to be written, then those still to be judged
  fDisk,      \* the directories and what is in them
  fPruned, fUnmanaged,  \* Tidy
  fRuns,
  fUser,      \* history: where the user has put files
  fBefore,    \* history: the directories when the run began
  fEnd

skillVars == <<fStep, fProduct, fFilter, fDry, fLeft, fDisk, fPruned, fUnmanaged, fRuns,
               fUser, fBefore, fEnd>>

Skills == 1..MaxSkills

\* A directory: its SKILL.md, a temporary file of gwsr, a file of the user's.
Folders == [skill : {"none", "hand", "marked"}, temp : BOOLEAN, notes : BOOLEAN]
Holding(skill, notes) == [skill |-> skill, temp |-> FALSE, notes |-> notes]
Empty == Holding("none", FALSE)

\* What a value of --filter selects; 0 is one with a typo.
SkillsOf(value) ==
  IF value = 0 THEN {} ELSE (IF value = 1 THEN {1, 2} ELSE {value}) \cap fProduct

Produced == IF fFilter = {} THEN fProduct ELSE UNION {SkillsOf(value) : value \in fFilter}

SkillsInit ==
  /\ fStep = "off" /\ fProduct = {} /\ fFilter = {} /\ fDry = FALSE /\ fLeft = {}
  /\ \E there \in SUBSET (Skills \ {1}) :
       fDisk \in [there -> {Holding("hand", FALSE), Holding("marked", FALSE)}]
  /\ fPruned = {} /\ fUnmanaged = {} /\ fRuns = 0 /\ fUser = {} /\ fBefore = fDisk
  /\ fEnd = NoValue

SkillsEnd(ending) == fStep' = "over" /\ fEnd' = ending

\* A run starts, with the files as the last one and the user left them.
SkillsBegin(product, filter, dry) ==
  /\ fStep \in {"off", "over", "dead"} /\ fRuns < SkillRuns
  /\ fStep' = "render" /\ fProduct' = product /\ fFilter' = filter /\ fDry' = dry
  /\ fLeft' = {} /\ fPruned' = {} /\ fUnmanaged' = {} /\ fRuns' = fRuns + 1
  /\ fBefore' = fDisk /\ fEnd' = NoValue
  /\ UNCHANGED <<fDisk, fUser>>

\* Mutant: the filters are not checked before the skills are written.
RenderUnchecked ==
  /\ fStep = "render"
  /\ \/ (fFilter = {} \/ fFilter \cap {1, 2} # {}) /\ SkillsEnd("discovery") /\ UNCHANGED fLeft
     \/ fStep' = (IF fDry THEN "list" ELSE "write") /\ fLeft' = Produced /\ UNCHANGED fEnd
  /\ UNCHANGED <<fProduct, fFilter, fDry, fDisk, fPruned, fUnmanaged, fRuns, fUser, fBefore>>

\* Everything is rendered and every filter checked; only a service, or a helper, that
\* is asked for needs its Discovery document.
Render ==
  /\ fStep = "render"
  /\ \/ (fFilter = {} \/ fFilter \cap {1, 2} # {}) /\ SkillsEnd("discovery") /\ UNCHANGED fLeft
     \/ (\E value \in fFilter : SkillsOf(value) = {}) /\ SkillsEnd("validation") /\ UNCHANGED fLeft
     \/ /\ \A value \in fFilter : SkillsOf(value) # {}
        /\ fStep' = (IF fDry THEN "list" ELSE "write") /\ fLeft' = Produced /\ UNCHANGED fEnd
  /\ UNCHANGED <<fProduct, fFilter, fDry, fDisk, fPruned, fUnmanaged, fRuns, fUser, fBefore>>

\* write_atomic, first half: the directory and a temporary file in it.
CreateSkill ==
  /\ fStep = "write" /\ fLeft # {}
  /\ LET name == Min(fLeft)
         made == IF name \in DOMAIN fDisk THEN fDisk[name] ELSE Empty
     IN  fDisk' = [n \in DOMAIN fDisk \cup {name} |->
                     IF n = name THEN [made EXCEPT !.temp = TRUE] ELSE fDisk[n]]
  /\ fStep' = "rename"
  /\ UNCHANGED <<fProduct, fFilter, fDry, fLeft, fPruned, fUnmanaged, fRuns, fUser, fBefore,
                 fEnd>>

\* write_atomic, second half: the file is renamed into place, replacing what is there;
\* one that cannot be written is removed.
RenameSkill ==
  /\ fStep = "rename"
  /\ LET name == Min(fLeft)
     IN  \/ /\ fDisk' = [fDisk EXCEPT ![name].temp = FALSE, ![name].skill = "marked"]
            /\ fLeft' = fLeft \ {name} /\ fStep' = "write" /\ UNCHANGED fEnd
         \/ fDisk' = [fDisk EXCEPT ![name].temp = FALSE] /\ SkillsEnd("other") /\ UNCHANGED fLeft
  /\ UNCHANGED <<fProduct, fFilter, fDry, fPruned, fUnmanaged, fRuns, fUser, fBefore>>

SkillsWritten ==
  /\ fStep = "write" /\ fLeft = {}
  /\ fStep' = "list"
  /\ UNCHANGED <<fProduct, fFilter, fDry, fLeft, fDisk, fPruned, fUnmanaged, fRuns, fUser,
                 fBefore, fEnd>>

\* Mutant: a filtered run takes the skills it was not asked for as stale.
ListStaleAlways ==
  /\ fStep = "list"
  /\ fLeft' = DOMAIN fDisk \ Produced /\ fStep' = "prune"
  /\ UNCHANGED <<fProduct, fFilter, fDry, fDisk, fPruned, fUnmanaged, fRuns, fUser, fBefore,
                 fEnd>>

\* Only a run of everything looks for directories it did not produce.
ListStale ==
  /\ fStep = "list"
  /\ IF fFilter # {} THEN SkillsEnd("ok") /\ fLeft' = {}
     ELSE fLeft' = DOMAIN fDisk \ Produced /\ fStep' = "prune" /\ UNCHANGED fEnd
  /\ UNCHANGED <<fProduct, fFilter, fDry, fDisk, fPruned, fUnmanaged, fRuns, fUser, fBefore>>

\* Mutant: whatever was not produced is taken for the generator's.
OwnedAny(folder) == TRUE

\* The generator's own: a SKILL.md with its mark.
Owned(folder) == folder.skill = "marked"

\* prune_stale_skills, a directory: somebody else's is reported; the generator's own is
\* deleted, file first, unless it holds anything else.
Prune ==
  /\ fStep = "prune" /\ fLeft # {}
  /\ LET name == Min(fLeft)
         folder == fDisk[name]
     IN  \/ /\ ~Owned(folder)
            /\ fUnmanaged' = fUnmanaged \cup {name} /\ fLeft' = fLeft \ {name}
            /\ UNCHANGED <<fStep, fDisk, fPruned, fEnd>>
         \/ /\ Owned(folder) /\ (folder.temp \/ folder.notes)
            /\ SkillsEnd("validation")
            /\ UNCHANGED <<fLeft, fDisk, fPruned, fUnmanaged>>
         \/ /\ Owned(folder) /\ ~folder.temp /\ ~folder.notes
            /\ IF fDry
                 THEN /\ fPruned' = fPruned \cup {name} /\ fLeft' = fLeft \ {name}
                      /\ UNCHANGED <<fStep, fDisk>>
                 ELSE /\ fDisk' = [fDisk EXCEPT ![name].skill = "none"] /\ fStep' = "remove"
                      /\ UNCHANGED <<fPruned, fLeft>>
            /\ UNCHANGED <<fUnmanaged, fEnd>>
         \/ SkillsEnd("other") /\ UNCHANGED <<fLeft, fDisk, fPruned, fUnmanaged>>
  /\ UNCHANGED <<fProduct, fFilter, fDry, fRuns, fUser, fBefore>>

\* remove_dir, which fails when a file has come meanwhile.
RemoveFolder ==
  /\ fStep = "remove"
  /\ LET name == Min(fLeft)
     IN  IF fDisk[name].notes
           THEN SkillsEnd("other") /\ UNCHANGED <<fLeft, fDisk, fPruned>>
           ELSE /\ fDisk' = [n \in DOMAIN fDisk \ {name} |-> fDisk[n]]
                /\ fPruned' = fPruned \cup {name} /\ fLeft' = fLeft \ {name}
                /\ fStep' = "prune" /\ UNCHANGED fEnd
  /\ UNCHANGED <<fProduct, fFilter, fDry, fUnmanaged, fRuns, fUser, fBefore>>

SkillsDone ==
  /\ fStep = "prune" /\ fLeft = {}
  /\ SkillsEnd("ok")
  /\ UNCHANGED <<fProduct, fFilter, fDry, fLeft, fDisk, fPruned, fUnmanaged, fRuns, fUser,
                 fBefore>>

\* The user puts a file into a directory.
UserAdds(name) ==
  /\ fStep # "off" /\ Cardinality(fUser) < UserFiles
  /\ ~fDisk[name].notes
  /\ fDisk' = [fDisk EXCEPT ![name].notes = TRUE] /\ fUser' = fUser \cup {name}
  /\ UNCHANGED <<fStep, fProduct, fFilter, fDry, fLeft, fPruned, fUnmanaged, fRuns, fBefore,
                 fEnd>>

\* A kill between two steps: a temporary file stays behind.
SkillsKilled ==
  /\ fStep \in {"render", "write", "rename", "list", "prune", "remove"}
  /\ fStep' = "dead"
  /\ UNCHANGED <<fProduct, fFilter, fDry, fLeft, fDisk, fPruned, fUnmanaged, fRuns, fUser,
                 fBefore, fEnd>>

SkillsNext ==
  \/ \E product \in {Skills, 1..2}, filter \in {{}, {0, 2}, {1}, {2}}, dry \in BOOLEAN :
       SkillsBegin(product, filter, dry)
  \/ Render \/ CreateSkill \/ RenameSkill \/ SkillsWritten
  \/ ListStale \/ Prune \/ RemoveFolder \/ SkillsDone
  \/ \E name \in DOMAIN fDisk : UserAdds(name)
  \/ SkillsKilled

-------------------------------------------------------------------------------
SkillsTypeOK ==
  /\ fStep \in {"off", "render", "write", "rename", "list", "prune", "remove", "over", "dead"}
  /\ fProduct \subseteq Skills /\ fFilter \subseteq 0..MaxSkills /\ fDry \in BOOLEAN
  /\ fLeft \subseteq Skills /\ fPruned \subseteq Skills /\ fUnmanaged \subseteq Skills
  /\ fRuns \in 0..SkillRuns /\ fUser \subseteq Skills
  /\ \A disk \in {fDisk, fBefore} :
       DOMAIN disk \subseteq Skills /\ \A n \in DOMAIN disk : disk[n] \in Folders
  /\ fEnd \in Ending \cup {NoValue}

\* No file of somebody else's is ever deleted: not the user's in a generated skill's
\* directory, however late it came, and not a SKILL.md without the mark in a directory
\* this run does not produce.
HandWorkKept ==
  /\ \A name \in fUser : name \in DOMAIN fDisk /\ fDisk[name].notes
  /\ \A name \in DOMAIN fBefore \ Produced : fBefore[name].skill = "hand" =>
       name \in DOMAIN fDisk /\ fDisk[name].skill = "hand"

\* A run that fails before it writes, a dry one and one that was asked for some skills
\* only delete no skill; the first two write none either.
NothingStarted ==
  /\ fFilter # {} \/ fDry =>
       \A name \in DOMAIN fBefore : name \in DOMAIN fDisk /\
         (fBefore[name].skill = "marked" => fDisk[name].skill = "marked")
  /\ fDry \/ fEnd = "discovery" \/ (\E value \in fFilter : SkillsOf(value) = {}) =>
       \A name \in Skills : (name \in DOMAIN fDisk) = (name \in DOMAIN fBefore) /\
         (name \in DOMAIN fDisk => fDisk[name].skill = fBefore[name].skill)

\* A complete run that succeeds, also after one that was killed, leaves every skill it
\* produces and no other generated one; the answer names every other directory.
CompleteRunExact ==
  fEnd = "ok" /\ fFilter = {} /\ ~fDry =>
    /\ {name \in DOMAIN fDisk : fDisk[name].skill = "marked"} = fProduct
    /\ DOMAIN fDisk \ fProduct = fUnmanaged
    /\ DOMAIN fBefore \ fProduct = fPruned \cup fUnmanaged

SkillsCorrect == HandWorkKept /\ NothingStarted /\ CompleteRunExact

===============================================================================
