------------------------------ MODULE FileLock ------------------------------
(***************************************************************************)
(* An advisory lock on a file (crates/gws-rust/src/fs_util.rs, FileLock):  *)
(* open or create the file, lock it, and start again if the path no longer *)
(* names the file that was locked, because somebody removed it meanwhile.  *)
(*                                                                         *)
(* A file keeps its number while somebody has it open, so one more number  *)
(* than there are processes is always enough.                              *)
(***************************************************************************)
EXTENDS Naturals, FiniteSets

CONSTANTS Proc, None

ASSUME FileLockAssumption == IsFiniteSet(Proc) /\ None \notin Proc

VARIABLES
  pc,      \* where each process is
  lockAt,  \* the file the lock's path names, 0 if there is none
  fd,      \* the lock file each process has open, 0 if none
  holder   \* the process that has locked each file, or None

lockVars == <<pc, lockAt, fd, holder>>

LockFile == 1..Cardinality(Proc) + 1
Free == {f \in LockFile : f # lockAt /\ \A p \in Proc : fd[p] # f}

LockInit ==
  /\ lockAt = 0
  /\ fd = [p \in Proc |-> 0]
  /\ holder = [f \in LockFile |-> None]

(* OpenOptions::open with create: the file at the path, or a new one.      *)
OpenLock(p) ==
  /\ pc[p] = "open"
  /\ \E f \in LockFile :
       /\ IF lockAt # 0 THEN f = lockAt ELSE f \in Free /\ \A g \in Free : f <= g
       /\ lockAt' = f
       /\ fd' = [fd EXCEPT ![p] = f]
  /\ pc' = [pc EXCEPT ![p] = "try"]
  /\ UNCHANGED holder

TryLockShared(p) ==
  /\ pc[p] = "try"
  /\ holder' = [holder EXCEPT ![fd[p]] = p]
  /\ pc' = [pc EXCEPT ![p] = "check"]
  /\ UNCHANGED <<lockAt, fd>>

TryLock(p) ==
  /\ pc[p] = "try" /\ holder[fd[p]] = None
  /\ holder' = [holder EXCEPT ![fd[p]] = p]
  /\ pc' = [pc EXCEPT ![p] = "check"]
  /\ UNCHANGED <<lockAt, fd>>

(* The lock on p's file is released and the file closed, by Drop or by the *)
(* end of the process.                                                     *)
Unlock(p) ==
  /\ fd' = [fd EXCEPT ![p] = 0]
  /\ holder' = [f \in LockFile |-> IF holder[f] = p THEN None ELSE holder[f]]

(* still_at_path, after the lock was obtained.                             *)
CheckSkipped(p) ==
  /\ pc[p] = "check"
  /\ pc' = [pc EXCEPT ![p] = "held"]
  /\ UNCHANGED <<lockAt, fd, holder>>

CheckWithoutReopening(p) ==
  /\ pc[p] = "check"
  /\ IF lockAt = fd[p]
     THEN pc' = [pc EXCEPT ![p] = "held"] /\ UNCHANGED <<fd, holder>>
     ELSE pc' = [pc EXCEPT ![p] = "try"] /\ UNCHANGED fd
          /\ holder' = [holder EXCEPT ![fd[p]] = None]
  /\ UNCHANGED lockAt

CheckPath(p) ==
  /\ pc[p] = "check"
  /\ \/ /\ lockAt = fd[p]
        /\ pc' = [pc EXCEPT ![p] = "held"]
        /\ UNCHANGED <<fd, holder>>
     \/ /\ lockAt # fd[p]
        /\ pc' = [pc EXCEPT ![p] = "open"]
        /\ Unlock(p)
  /\ UNCHANGED lockAt

(* The file somebody else has locked is still locked after the timeout.    *)
LockBusy(p) == pc[p] = "try" /\ holder[fd[p]] # None

LockType ==
  /\ lockAt \in {0} \cup LockFile
  /\ fd \in [Proc -> {0} \cup LockFile]
  /\ holder \in [LockFile -> Proc \cup {None}]
=============================================================================
