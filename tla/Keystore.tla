------------------------------- MODULE Keystore --------------------------------
(***************************************************************************)
(* The data key of one configuration directory (auth/keystore.rs), shared  *)
(* by concurrent processes: it is loaded, or generated under the lock      *)
(* encryption.key.lock if there is none and nothing is encrypted yet.      *)
(* Once made it is never replaced, because what was encrypted with it      *)
(* could not be read any more.                                             *)
(*                                                                         *)
(* The lock file is never removed (unlike the one FileLock models), so a   *)
(* lock on it excludes every other holder.                                 *)
(***************************************************************************)
EXTENDS Outcome, FiniteSets

CONSTANTS
  Proc,      \* processes
  MaxKeys    \* bound: keys generated

ASSUME KeystoreAssumption == NoValue \notin Proc /\ NoValue \notin Nat /\ MaxKeys \in Nat

VARIABLES
  kBackend,  \* GWSR_KEYRING_BACKEND
  kStored,   \* the key in the backend; 0 is none
  kMade,     \* keys generated so far; each is a new number
  kLock,     \* the holder of encryption.key.lock
  kOf,       \* for each process, the key it has loaded (Keystore::key); 0 is none
  kNew,      \* for each process, the key it has just generated
  step       \* for each process, where it is

keyVars == <<kBackend, kStored, kMade, kLock, kOf, kNew>>

Key == 1..MaxKeys

KeyInit ==
  /\ kBackend \in {"keyring", "file"}
  /\ kStored = 0 /\ kMade = 0
  /\ kLock = NoValue
  /\ kOf = [p \in Proc |-> 0] /\ kNew = [p \in Proc |-> 0]

Go(p, where) == step' = [step EXCEPT ![p] = where]

\* What the end of a process, or of the command it runs, does to the key: the
\* lock is released, what was in memory is gone.
KeyForget(p) ==
  /\ kLock' = IF kLock = p THEN NoValue ELSE kLock
  /\ kOf' = [kOf EXCEPT ![p] = 0] /\ kNew' = [kNew EXCEPT ![p] = 0]
  /\ UNCHANGED <<kBackend, kStored, kMade>>

KeyFails(p) == Go(p, "failed") /\ KeyForget(p)

\* The key is there: it is remembered, and the lock released.  (A key of its own, if it
\* made one, is not looked at again.)
KeyFound(p, next) ==
  /\ kStored # 0
  /\ kOf' = [kOf EXCEPT ![p] = kStored]
  /\ kLock' = IF kLock = p THEN NoValue ELSE kLock
  /\ kNew' = [kNew EXCEPT ![p] = 0]
  /\ Go(p, next)
  /\ UNCHANGED <<kBackend, kStored, kMade>>

\* The first load, without the lock.
KeyLoad(p, next) ==
  /\ step[p] = "key"
  /\ \/ KeyFound(p, next)
     \/ /\ kStored = 0
        /\ Go(p, "keyLock")
        /\ UNCHANGED keyVars

\* The lock, for which it waits; it may give up (KEY_LOCK_TIMEOUT).
KeyLocks(p) ==
  /\ step[p] = "keyLock"
  /\ \/ /\ kLock = NoValue
        /\ kLock' = p
        /\ Go(p, "keyAgain")
        /\ UNCHANGED <<kBackend, kStored, kMade, kOf, kNew>>
     \/ kLock # NoValue /\ KeyFails(p)

\* Mutant: the key is not looked for again under the lock.
KeyAgainSkipped(p, next) ==
  /\ step[p] = "keyAgain"
  /\ Go(p, "keyScan")
  /\ UNCHANGED keyVars

\* Another process may have made the key meanwhile.
KeyAgain(p, next) ==
  /\ step[p] = "keyAgain"
  /\ \/ KeyFound(p, next)
     \/ /\ kStored = 0
        /\ Go(p, "keyScan")
        /\ UNCHANGED keyVars

\* With encrypted files in the directory no key is generated.
KeyScan(p, encrypted) ==
  /\ step[p] = "keyScan"
  /\ \/ /\ encrypted = {} /\ kMade < MaxKeys
        /\ kMade' = kMade + 1
        /\ kNew' = [kNew EXCEPT ![p] = kMade']
        /\ Go(p, "keyStore")
        /\ UNCHANGED <<kBackend, kStored, kLock, kOf>>
     \/ encrypted # {} /\ KeyFails(p)

\* The keyring item is set; a file is linked into place, which fails if there is
\* one.  The store may fail, also after the key is in place.
KeyStore(p) ==
  /\ step[p] = "keyStore"
  /\ \/ /\ kBackend = "keyring" \/ kStored = 0
        /\ kStored' = kNew[p]
        /\ \/ Go(p, "keyBack") /\ UNCHANGED <<kLock, kOf, kNew>>
           \/ Go(p, "failed") /\ kLock' = NoValue /\ kOf' = [kOf EXCEPT ![p] = 0]
              /\ kNew' = [kNew EXCEPT ![p] = 0]
        /\ UNCHANGED <<kBackend, kMade>>
     \/ /\ kBackend = "keyring"         \* accepted, but not kept
        /\ Go(p, "keyBack")
        /\ UNCHANGED keyVars
     \/ KeyFails(p)

\* Read back, to prove that it was kept.
KeyBack(p, next) ==
  /\ step[p] = "keyBack"
  /\ \/ kStored = kNew[p] /\ KeyFound(p, next)
     \/ KeyFails(p)

\* key_for_encryption; "encrypted" are the encrypted files of the directory.
KeyForEncryption(p, encrypted, next) ==
  \/ KeyLoad(p, next) \/ KeyLocks(p) \/ KeyAgain(p, next)
  \/ KeyScan(p, encrypted) \/ KeyStore(p) \/ KeyBack(p, next)

\* The user loses the key (a keyring that was reset, a deleted key file) while
\* no command runs.
KeyLost ==
  /\ kStored # 0 /\ \A p \in Proc : step[p] = "idle"
  /\ kStored' = 0
  /\ UNCHANGED <<kBackend, kMade, kLock, kOf, kNew, step>>

KeyTypeOK ==
  /\ kBackend \in {"keyring", "file"}
  /\ kStored \in 0..MaxKeys /\ kMade \in 0..MaxKeys
  /\ kLock \in Proc \cup {NoValue}
  /\ kOf \in [Proc -> 0..MaxKeys] /\ kNew \in [Proc -> 0..MaxKeys]
===============================================================================
