----------------------------- MODULE Setups_proofs -----------------------------
(***************************************************************************)
(* Proofs about the commands, the first part.  First those whose results   *)
(* other commands rely on: accounts and their key, the choice of           *)
(* credentials, signing in, the Discovery cache, the resources of a stream *)
(* and their renewal, and the dialogue of auth setup; then what a command  *)
(* works out before it asks or prints: the scopes of a login, a table of   *)
(* several pages, the times of an event, the free slots of calendars and   *)
(* the paragraphs of a Markdown document; then those that are about one    *)
(* object or call: an event or file read and written back, a reply, a      *)
(* batch, a script project, a method.  Each has an inductive invariant of  *)
(* its own.                                                                *)
(*                                                                         *)
(* Of accounts, for any number of processes, profiles, keys and commands,  *)
(* any of which may be killed at any step: what is encrypted can be read   *)
(* with the key there is, a cached time zone is that of the account, and   *)
(* nobody silently acts as another account.                                *)
(*                                                                         *)
(* KeyInv says why a key is never replaced: who is past the lock holds it, *)
(* whoever generates a key has seen none, and nothing encrypted, under the *)
(* lock, and whoever encrypts holds the key that is stored.  OpInv says    *)
(* which command can be where, AloneInv what a command that overlaps with  *)
(* no other knows.                                                         *)
(***************************************************************************)
EXTENDS Accounts, Source, SignIn, DiscoveryCache, StreamSetup, Renewal, Wizard, Scopes, PageTable, EventTimes,
        CalendarReads, DocText, RemoteEdit, ReplyRecipients, Batch, ScriptSync, MethodCall,
        FiniteSetTheorems, SequenceTheorems, WellFoundedInduction, TLAPS

UnderLock == {"keyAgain", "keyScan", "keyStore", "keyBack"}

KeyInv ==
  /\ \A p \in Proc : kOf[p] # 0 => kOf[p] = kStored
  /\ \A p \in Proc : step[p] \in UnderLock => kLock = p
  /\ \A p \in Proc : step[p] \in {"keyScan", "keyStore"} => kStored = 0
  /\ \A p \in Proc : step[p] = "keyStore" => Encrypted = {} /\ kNew[p] # 0
  /\ \A p \in Proc : step[p] = "idle" => kOf[p] = 0
  /\ \A p \in Proc : step[p] \in {"flow", "save"} => kOf[p] # 0

OpInv ==
  /\ \A p \in Proc : step[p] # "idle" => who[p] \in Profile
  /\ \A p \in Proc : step[p] \in {"flow", "save", "active", "default"} => op[p] = "login"
  /\ \A p \in Proc : step[p] = "remove" => op[p] = "logout"
  /\ \A p \in Proc : step[p] = "check" => op[p] = "use"
  /\ \A p \in Proc : step[p] = "set" => op[p] \in {"login", "use"}
  /\ \A p \in Proc : step[p] = "save" => as[p] \in Account

AloneInv ==
  /\ \A p \in alone : \A q \in Proc \ {p} : step[q] = "idle"
  /\ \A p \in alone : step[p] = "default" => config = NoValue
  /\ \A p \in alone : step[p] = "set" /\ op[p] = "login" => config = NoValue /\ creds[Default] = NoValue

AccountsInv == AccountsTypeOK /\ KeyInv /\ OpInv /\ AloneInv /\ AlwaysReadable /\ ZoneOfAccount

-------------------------------------------------------------------------------
\* In the beginning nothing is encrypted and nobody runs.
LEMMA AccountsBegin == AccountsInit => AccountsInv
<1> SUFFICES ASSUME AccountsInit PROVE AccountsInv
  OBVIOUS
<1> USE DEF AccountsInit, KeyInit
<1>1. AccountsTypeOK
  BY AccountsAssumption, KeystoreAssumption DEF AccountsTypeOK, KeyTypeOK
<1>2. KeyInv /\ OpInv /\ AloneInv
  BY DEF KeyInv, OpInv, AloneInv, UnderLock
<1>3. AlwaysReadable /\ ZoneOfAccount
  BY DEF AlwaysReadable, ZoneOfAccount, Profile
<1> QED
  BY <1>1, <1>2, <1>3 DEF AccountsInv

\* The steps of a process, one by one.
StepOf(p) ==
  \/ \E o \in Op, selected \in Profile \cup {NoValue} : Start(p, o, selected)
  \/ LoginKey(p) \/ (\E account \in Account : SignIn(p, account)) \/ SaveCredentials(p)
  \/ ActiveIfUnset(p) \/ DefaultUnused(p) \/ SetActive(p) \/ InvalidateZones(p)
  \/ Logout(p) \/ CheckProfile(p)
  \/ FindSource(p) \/ ReadCredentials(p) \/ CachedZone(p) \/ CacheZone(p) \/ Stop(p)

\* Every step is one of one process, or the loss of the key.
LEMMA Cases ==
  AccountsNext <=> (\E p \in Proc : StepOf(p)) \/ LoseKey
BY DEF AccountsNext, Step, LoginStep, RunStep, StepOf

\* A step moves its process only.
LEMMA MovesOne ==
  ASSUME AccountsTypeOK, NEW p \in Proc, StepOf(p)
  PROVE  \A q \in Proc \ {p} : step'[q] = step[q]
<1> USE DEF AccountsTypeOK, Go
<1>1. ASSUME NEW o \in Op, NEW selected \in Profile \cup {NoValue}, Start(p, o, selected)
      PROVE  \A q \in Proc \ {p} : step'[q] = step[q]
  BY <1>1 DEF Start
<1>2. CASE LoginKey(p)
  BY <1>2 DEF LoginKey, KeyForEncryption, KeyLoad, KeyLocks, KeyAgain, KeyScan, KeyStore, KeyBack, KeyFound, KeyFails, keyVars
<1>3. ASSUME NEW account \in Account, SignIn(p, account)
      PROVE  \A q \in Proc \ {p} : step'[q] = step[q]
  BY <1>3 DEF SignIn
<1>4. CASE SaveCredentials(p) \/ ActiveIfUnset(p) \/ DefaultUnused(p) \/ SetActive(p) \/ InvalidateZones(p)
  BY <1>4 DEF SaveCredentials, ActiveIfUnset, DefaultUnused, SetActive, InvalidateZones
<1>5. CASE Logout(p) \/ CheckProfile(p) \/ FindSource(p) \/ ReadCredentials(p) \/ CachedZone(p) \/ CacheZone(p) \/ Stop(p)
  BY <1>5 DEF Logout, CheckProfile, FindSource, ReadCredentials, CachedZone, CacheZone, Stop
<1> QED
  BY <1>1, <1>2, <1>3, <1>4, <1>5 DEF StepOf

-------------------------------------------------------------------------------
\* The key: what each step of getting it does to the variables of the keystore.
LEMMA TypeKey ==
  ASSUME AccountsTypeOK, NEW p \in Proc, KeyForEncryption(p, Encrypted, "flow")
  PROVE  KeyTypeOK' /\ step' \in [Proc -> {"idle", "failed", "done", "key", "keyLock", "keyAgain", "keyScan", "keyStore",
                        "keyBack", "flow", "save", "active", "default", "set", "zones", "remove", "check",
                        "source", "read", "zone", "fetched"}]
<1> USE KeystoreAssumption DEF AccountsTypeOK, KeyTypeOK, Go, KeyFound, KeyFails, KeyForget, keyVars
<1>1. CASE KeyLoad(p, "flow")
  BY <1>1 DEF KeyLoad
<1>2. CASE KeyLocks(p)
  BY <1>2 DEF KeyLocks
<1>3. CASE KeyAgain(p, "flow")
  BY <1>3 DEF KeyAgain
<1>4. CASE KeyScan(p, Encrypted)
  <2>1. CASE Encrypted = {} /\ kMade < MaxKeys /\ kMade' = kMade + 1 /\ kNew' = [kNew EXCEPT ![p] = kMade']
             /\ Go(p, "keyStore") /\ UNCHANGED <<kBackend, kStored, kLock, kOf>>
    BY <2>1
  <2>2. CASE KeyFails(p)
    BY <2>2
  <2> QED
    BY <1>4, <2>1, <2>2 DEF KeyScan
<1>5. CASE KeyStore(p)
  BY <1>5 DEF KeyStore
<1>6. CASE KeyBack(p, "flow")
  BY <1>6 DEF KeyBack
<1> QED
  BY <1>1, <1>2, <1>3, <1>4, <1>5, <1>6 DEF KeyForEncryption

\* Every step keeps the types; a command has a profile, and an account once it
\* has signed in.
LEMMA TypeStep ==
  ASSUME AccountsTypeOK, KeyInv, OpInv, AccountsNext
  PROVE  AccountsTypeOK'
<1> USE AccountsAssumption, KeystoreAssumption
<1> USE DEF AccountsTypeOK, Others, diskVars, procVars
<1>0. ASSUME NEW p \in Proc, KeyForEncryption(p, Encrypted, "flow"), UNCHANGED <<diskVars, procVars, excused, commands, alone>>
      PROVE  AccountsTypeOK'
  BY <1>0, TypeKey
<1>1. ASSUME NEW p \in Proc, NEW o \in Op, NEW selected \in Profile \cup {NoValue}, Start(p, o, selected)
      PROVE  AccountsTypeOK'
  <2>1. KeyTypeOK' /\ UNCHANGED <<creds, config, zone, as, excused>>
    BY <1>1 DEF Start, keyVars, KeyTypeOK
  <2>2. op' \in [Proc -> Op \cup {NoValue}] /\ commands' \in 0..MaxCommands /\ alone' \subseteq Proc
    BY <1>1 DEF Start
  <2>3. who' \in [Proc -> Profile \cup {NoValue}]
    BY <1>1 DEF Start, Active, Profile
  <2>4. step' \in [Proc -> {"idle", "failed", "done", "key", "keyLock", "keyAgain", "keyScan", "keyStore", "keyBack",
                        "flow", "save", "active", "default", "set", "zones", "remove", "check",
                        "source", "read", "zone", "fetched"}]
    <3>1. CASE o = "login"
      BY <1>1, <3>1 DEF Start, Go
    <3>2. CASE o = "logout"
      BY <1>1, <3>2 DEF Start, Go
    <3>3. CASE o = "use"
      BY <1>1, <3>3 DEF Start, Go
    <3>4. CASE o = "run"
      BY <1>1, <3>4 DEF Start, Go
    <3> QED
      BY <3>1, <3>2, <3>3, <3>4 DEF Op
  <2> QED
    BY <2>1, <2>2, <2>3, <2>4
<1>2. ASSUME NEW p \in Proc, LoginKey(p)
      PROVE  AccountsTypeOK'
  BY <1>0, <1>2 DEF LoginKey
<1>3. ASSUME NEW p \in Proc, NEW account \in Account, SignIn(p, account)
      PROVE  AccountsTypeOK'
  BY <1>3 DEF SignIn, Go, keyVars, KeyTypeOK
<1>4. ASSUME NEW p \in Proc, SaveCredentials(p)
      PROVE  AccountsTypeOK'
  <2>0. step[p] = "save"
    BY <1>4 DEF SaveCredentials
  <2>1. as[p] \in Account
    BY <2>0 DEF OpInv
  <2>2. kOf[p] \in Key
    BY <2>0 DEF KeyInv, KeyTypeOK, Key
  <2>3. [account |-> as[p], key |-> kOf[p]] \in Credentials
    BY <2>1, <2>2 DEF Credentials
  <2>4. creds' \in [Profile -> Credentials \cup {NoValue}]
    BY <1>4, <2>3 DEF SaveCredentials
  <2> QED
    BY <1>4, <2>4 DEF SaveCredentials, Go, keyVars, KeyTypeOK
<1>5. ASSUME NEW p \in Proc, ActiveIfUnset(p) \/ DefaultUnused(p) \/ CheckProfile(p) \/ FindSource(p) \/ CachedZone(p)
      PROVE  AccountsTypeOK'
  BY <1>5 DEF ActiveIfUnset, DefaultUnused, CheckProfile, FindSource, CachedZone, Go, keyVars, KeyTypeOK
<1>6. ASSUME NEW p \in Proc, SetActive(p) \/ InvalidateZones(p)
      PROVE  AccountsTypeOK'
  <2>1. CASE SetActive(p)
    <3>1. who[p] \in Profile
      BY <2>1 DEF SetActive, OpInv
    <3> QED
      BY <2>1, <3>1 DEF SetActive, Go, keyVars, KeyTypeOK
  <2>2. CASE InvalidateZones(p)
    BY <2>2 DEF InvalidateZones, Go, keyVars, KeyTypeOK
  <2> QED
    BY <1>6, <2>1, <2>2
<1>7. ASSUME NEW p \in Proc, Logout(p)
      PROVE  AccountsTypeOK'
  BY <1>7 DEF Logout, Go, keyVars, KeyTypeOK
<1>8. ASSUME NEW p \in Proc, ReadCredentials(p)
      PROVE  AccountsTypeOK'
  <2>1. who[p] \in Profile
    BY <1>8 DEF ReadCredentials, OpInv
  <2>2. as' \in [Proc -> Account \cup {NoValue}]
    BY <1>8, <2>1 DEF ReadCredentials, Readable, Credentials
  <2> QED
    BY <1>8, <2>2 DEF ReadCredentials, Go, keyVars, KeyTypeOK
<1>9. ASSUME NEW p \in Proc, CacheZone(p)
      PROVE  AccountsTypeOK'
  <2>1. who[p] \in Profile
    BY <1>9 DEF CacheZone, OpInv
  <2> QED
    BY <1>9, <2>1 DEF CacheZone, Go, keyVars, KeyTypeOK
<1>10. ASSUME NEW p \in Proc, Stop(p)
       PROVE  AccountsTypeOK'
  <2>1. who[p] \in Profile
    BY <1>10 DEF Stop, OpInv
  <2>2. Unfinished(p) \subseteq Profile
    BY <2>1 DEF Unfinished
  <2>3. excused' \subseteq Profile /\ alone' \subseteq Proc
    BY <1>10, <2>2 DEF Stop
  <2>4. KeyTypeOK'
    BY <1>10 DEF Stop, KeyForget, KeyTypeOK
  <2>5. op' \in [Proc -> Op \cup {NoValue}] /\ who' \in [Proc -> Profile \cup {NoValue}] /\ as' \in [Proc -> Account \cup {NoValue}]
    BY <1>10 DEF Stop
  <2> QED
    BY <1>10, <2>3, <2>4, <2>5 DEF Stop, Go
<1>11. ASSUME LoseKey
       PROVE  AccountsTypeOK'
  <2>1. UNCHANGED <<creds, config, zone, op, who, as, commands, alone, excused, step>>
    BY <1>11 DEF LoseKey, KeyLost
  <2>2. KeyTypeOK'
    BY <1>11 DEF LoseKey, KeyLost, KeyTypeOK
  <2> QED
    BY <2>1, <2>2
<1> HIDE DEF AccountsTypeOK, Others, diskVars, procVars
<1> QED
  BY <1>1, <1>2, <1>3, <1>4, <1>5, <1>6, <1>7, <1>8, <1>9, <1>10, <1>11, Cases DEF StepOf

-------------------------------------------------------------------------------
\* Who holds the lock is who generates; who encrypts holds the key there is.
LEMMA KeySteps ==
  ASSUME AccountsTypeOK, KeyInv, AlwaysReadable, NEW p \in Proc,
         KeyForEncryption(p, Encrypted, "flow"), UNCHANGED diskVars
  PROVE  KeyInv' /\ AlwaysReadable'
<1> USE KeystoreAssumption DEF AccountsTypeOK, KeyTypeOK, KeyInv, UnderLock, AlwaysReadable, Encrypted, diskVars, Go, keyVars
<1>1. CASE KeyLoad(p, "flow")
  BY <1>1 DEF KeyLoad, KeyFound
<1>2. CASE KeyLocks(p)
  BY <1>2 DEF KeyLocks, KeyFails, KeyForget
<1>3. CASE KeyAgain(p, "flow")
  BY <1>3 DEF KeyAgain, KeyFound
<1>4. CASE KeyScan(p, Encrypted)
  BY <1>4 DEF KeyScan, KeyFails, KeyForget
<1>5. CASE KeyStore(p)
  BY <1>5 DEF KeyStore, KeyFails, KeyForget
<1>6. CASE KeyBack(p, "flow")
  BY <1>6 DEF KeyBack, KeyFound, KeyFails, KeyForget
<1> QED
  BY <1>1, <1>2, <1>3, <1>4, <1>5, <1>6 DEF KeyForEncryption

\* No step, a crash included, takes away the key that encrypted data needs.
LEMMA KeyStep ==
  ASSUME AccountsTypeOK, KeyInv, OpInv, AlwaysReadable, AccountsNext
  PROVE  KeyInv' /\ AlwaysReadable'
<1> USE KeystoreAssumption
<1>1. ASSUME NEW p \in Proc, NEW o \in Op, NEW selected \in Profile \cup {NoValue}, Start(p, o, selected)
      PROVE  KeyInv' /\ AlwaysReadable'
  <2>1. step'[p] \in {"key", "remove", "check", "source"} /\ \A q \in Proc \ {p} : step'[q] = step[q]
    BY <1>1 DEF Start, Go, AccountsTypeOK, Op
  <2>2. step[p] = "idle" /\ UNCHANGED <<keyVars, creds>>
    BY <1>1 DEF Start, diskVars
  <2> QED
    BY <2>1, <2>2 DEF KeyInv, UnderLock, AlwaysReadable, Encrypted, keyVars
<1>2. ASSUME NEW p \in Proc, LoginKey(p)
      PROVE  KeyInv' /\ AlwaysReadable'
  BY <1>2, KeySteps DEF LoginKey
<1>3. ASSUME NEW p \in Proc, NEW account \in Account, SignIn(p, account)
      PROVE  KeyInv' /\ AlwaysReadable'
  BY <1>3 DEF SignIn, Go, AccountsTypeOK, KeyInv, UnderLock, AlwaysReadable, Encrypted, keyVars, diskVars
<1>4. ASSUME NEW p \in Proc, SaveCredentials(p)
      PROVE  KeyInv' /\ AlwaysReadable'
  <2>1. kOf[p] = kStored /\ kStored # 0
    BY <1>4 DEF SaveCredentials, KeyInv
  <2>2. KeyInv'
    BY <1>4, <2>1 DEF SaveCredentials, Go, AccountsTypeOK, KeyInv, UnderLock, keyVars
  <2>3. AlwaysReadable'
    BY <1>4, <2>1 DEF SaveCredentials, AlwaysReadable, Encrypted, AccountsTypeOK, keyVars
  <2> QED
    BY <2>2, <2>3
<1>5. ASSUME NEW p \in Proc, ActiveIfUnset(p) \/ DefaultUnused(p) \/ SetActive(p) \/ InvalidateZones(p) \/ CheckProfile(p)
                               \/ FindSource(p) \/ CachedZone(p) \/ CacheZone(p) \/ ReadCredentials(p)
      PROVE  KeyInv' /\ AlwaysReadable'
  <2>1. UNCHANGED <<keyVars, creds>> /\ \A q \in Proc \ {p} : step'[q] = step[q]
    BY <1>5 DEF ActiveIfUnset, DefaultUnused, SetActive, InvalidateZones, CheckProfile, FindSource, CachedZone, CacheZone,
               ReadCredentials, Go, diskVars, AccountsTypeOK
  <2>2. step'[p] \in {"zones", "default", "set", "done", "failed", "read", "zone", "fetched"}
    BY <1>5 DEF ActiveIfUnset, DefaultUnused, SetActive, InvalidateZones, CheckProfile, FindSource, CachedZone, CacheZone,
               ReadCredentials, Go, AccountsTypeOK
  <2> QED
    BY <2>1, <2>2 DEF KeyInv, UnderLock, AlwaysReadable, Encrypted, keyVars
<1>6. ASSUME NEW p \in Proc, Logout(p)
      PROVE  KeyInv' /\ AlwaysReadable'
  <2>1. KeyInv'
    BY <1>6 DEF Logout, Go, AccountsTypeOK, KeyInv, UnderLock, Encrypted, keyVars
  <2>2. AlwaysReadable'
    BY <1>6 DEF Logout, AlwaysReadable, Encrypted, AccountsTypeOK, keyVars
  <2> QED
    BY <2>1, <2>2
<1>7. ASSUME NEW p \in Proc, Stop(p)
      PROVE  KeyInv' /\ AlwaysReadable'
  BY <1>7 DEF Stop, KeyForget, Go, AccountsTypeOK, KeyTypeOK, KeyInv, UnderLock, AlwaysReadable, Encrypted, diskVars
<1>8. ASSUME LoseKey
      PROVE  KeyInv' /\ AlwaysReadable'
  BY <1>8 DEF LoseKey, KeyLost, KeyInv, UnderLock, AlwaysReadable, diskVars
<1> QED
  BY <1>1, <1>2, <1>3, <1>4, <1>5, <1>6, <1>7, <1>8, Cases DEF StepOf

\* Where a command is says which it is.
LEMMA OpStep ==
  ASSUME AccountsTypeOK, OpInv, AccountsNext
  PROVE  OpInv'
<1> USE AccountsAssumption
<1>1. ASSUME NEW p \in Proc, NEW o \in Op, NEW selected \in Profile \cup {NoValue}, Start(p, o, selected)
      PROVE  OpInv'
  <2>1. step'[p] \in {"key", "remove", "check", "source"} /\ (step'[p] = "remove" => o = "logout") /\ (step'[p] = "check" => o = "use")
    BY <1>1 DEF Start, Go, AccountsTypeOK, Op
  <2>2. \A q \in Proc \ {p} : step'[q] = step[q] /\ op'[q] = op[q] /\ who'[q] = who[q]
    BY <1>1 DEF Start, Go, AccountsTypeOK
  <2>3. op'[p] = o /\ who'[p] \in Profile /\ as' = as
    BY <1>1 DEF Start, AccountsTypeOK, Active, Profile
  <2> QED
    BY <2>1, <2>2, <2>3 DEF OpInv
<1>2. ASSUME NEW p \in Proc, LoginKey(p)
      PROVE  OpInv'
  <2>1. step'[p] \in {"failed", "keyLock", "keyAgain", "keyScan", "keyStore", "keyBack", "flow"} /\ step[p] # "idle"
    BY <1>2 DEF LoginKey, KeyForEncryption, KeyLoad, KeyLocks, KeyAgain, KeyScan, KeyStore, KeyBack, KeyFound, KeyFails,
               keyVars, Go, AccountsTypeOK
  <2>2. \A q \in Proc \ {p} : step'[q] = step[q]
    BY <1>2, MovesOne DEF StepOf
  <2> QED
    BY <1>2, <2>1, <2>2 DEF LoginKey, procVars, OpInv
<1>3. ASSUME NEW p \in Proc, NEW account \in Account, SignIn(p, account)
      PROVE  OpInv'
  BY <1>3 DEF SignIn, Go, AccountsTypeOK, OpInv
<1>4. ASSUME NEW p \in Proc, SaveCredentials(p) \/ ActiveIfUnset(p) \/ DefaultUnused(p) \/ SetActive(p) \/ InvalidateZones(p)
                               \/ Logout(p) \/ CheckProfile(p) \/ FindSource(p) \/ CachedZone(p) \/ CacheZone(p)
      PROVE  OpInv'
  <2>1. UNCHANGED procVars /\ \A q \in Proc \ {p} : step'[q] = step[q]
    BY <1>4 DEF SaveCredentials, ActiveIfUnset, DefaultUnused, SetActive, InvalidateZones, Logout, CheckProfile, FindSource,
               CachedZone, CacheZone, Go, AccountsTypeOK
  <2>2. /\ step[p] # "idle" /\ step'[p] \notin {"flow", "save", "remove", "check"}
        /\ step'[p] \in {"active", "default"} => step[p] \in {"save", "active"}
        /\ step'[p] = "set" => step[p] \in {"default", "check"}
    BY <1>4 DEF SaveCredentials, ActiveIfUnset, DefaultUnused, SetActive, InvalidateZones, Logout, CheckProfile, FindSource,
               CachedZone, CacheZone, Go, AccountsTypeOK
  <2> QED
    BY <2>1, <2>2 DEF AccountsTypeOK, OpInv, procVars
<1>5. ASSUME NEW p \in Proc, ReadCredentials(p)
      PROVE  OpInv'
  BY <1>5 DEF ReadCredentials, Go, AccountsTypeOK, OpInv
<1>6. ASSUME NEW p \in Proc, Stop(p)
      PROVE  OpInv'
  BY <1>6 DEF Stop, Go, AccountsTypeOK, OpInv
<1>7. ASSUME LoseKey
      PROVE  OpInv'
  BY <1>7 DEF LoseKey, KeyLost, OpInv, procVars
<1> QED
  BY <1>1, <1>2, <1>3, <1>4, <1>5, <1>6, <1>7, Cases DEF StepOf

\* A command that overlaps with no other finds what it has checked unchanged.
LEMMA AloneStep ==
  ASSUME AccountsTypeOK, OpInv, AloneInv, AccountsNext
  PROVE  AloneInv'
<1>1. ASSUME NEW p \in Proc, NEW o \in Op, NEW selected \in Profile \cup {NoValue}, Start(p, o, selected)
      PROVE  AloneInv'
  <2>1. step'[p] \in {"key", "remove", "check", "source"} /\ \A q \in Proc \ {p} : step'[q] = step[q]
    BY <1>1 DEF Start, Go, AccountsTypeOK, Op
  <2>2. alone' \subseteq {p} /\ (alone' # {} => \A q \in Proc : step[q] = "idle")
    BY <1>1 DEF Start
  <2> QED
    BY <2>1, <2>2 DEF AloneInv
<1>2. ASSUME NEW p \in Proc, LoginKey(p)
      PROVE  AloneInv'
  <2>1. step'[p] \in {"failed", "keyLock", "keyAgain", "keyScan", "keyStore", "keyBack", "flow"} /\ step[p] # "idle"
    BY <1>2 DEF LoginKey, KeyForEncryption, KeyLoad, KeyLocks, KeyAgain, KeyScan, KeyStore, KeyBack, KeyFound, KeyFails,
               keyVars, Go, AccountsTypeOK
  <2>2. \A q \in Proc \ {p} : step'[q] = step[q]
    BY <1>2, MovesOne DEF StepOf
  <2> QED
    BY <1>2, <2>1, <2>2 DEF LoginKey, diskVars, procVars, Others, AloneInv
<1>3. ASSUME NEW p \in Proc, (\E account \in Account : SignIn(p, account)) \/ Logout(p) \/ CheckProfile(p) \/ FindSource(p) \/ ReadCredentials(p)
                               \/ CachedZone(p) \/ CacheZone(p) \/ SaveCredentials(p) \/ InvalidateZones(p)
      PROVE  AloneInv'
  <2>1. alone' = alone /\ op' = op /\ config' = config /\ \A q \in Proc \ {p} : step'[q] = step[q]
    BY <1>3 DEF SignIn, Logout, CheckProfile, FindSource, ReadCredentials, CachedZone, CacheZone, SaveCredentials, InvalidateZones,
               Go, Others, diskVars, procVars, AccountsTypeOK
  <2>2. step[p] # "idle" /\ step'[p] # "default" /\ (step'[p] = "set" => op[p] = "use")
    BY <1>3 DEF SignIn, Logout, CheckProfile, FindSource, ReadCredentials, CachedZone, CacheZone, SaveCredentials, InvalidateZones,
               Go, Others, AccountsTypeOK, OpInv
  <2> QED
    BY <2>1, <2>2 DEF AloneInv, AccountsTypeOK
<1>4. ASSUME NEW p \in Proc, ActiveIfUnset(p) \/ DefaultUnused(p) \/ SetActive(p)
      PROVE  AloneInv'
  <2>1. /\ \A q \in Proc \ {p} : step'[q] = step[q]
        /\ step[p] # "idle" /\ UNCHANGED procVars
    BY <1>4 DEF ActiveIfUnset, DefaultUnused, SetActive, Go, AccountsTypeOK
  <2>2. CASE ActiveIfUnset(p)
    BY <2>1, <2>2 DEF ActiveIfUnset, Go, Others, diskVars, procVars, AloneInv, AccountsTypeOK
  <2>3. CASE DefaultUnused(p)
    BY <2>1, <2>3 DEF DefaultUnused, Go, Others, diskVars, procVars, AloneInv, AccountsTypeOK
  <2>4. CASE SetActive(p)
    BY <2>1, <2>4 DEF SetActive, Go, Others, diskVars, procVars, AloneInv, AccountsTypeOK
  <2> QED
    BY <1>4, <2>2, <2>3, <2>4
<1>5. ASSUME NEW p \in Proc, Stop(p)
      PROVE  AloneInv'
  BY <1>5 DEF Stop, Go, diskVars, AloneInv, AccountsTypeOK
<1>6. ASSUME LoseKey
      PROVE  AloneInv'
  BY <1>6 DEF LoseKey, KeyLost, diskVars, procVars, AloneInv
<1> QED
  BY <1>1, <1>2, <1>3, <1>4, <1>5, <1>6, Cases DEF StepOf

\* Whoever has changed the account of a profile goes on to remove the cached zones.
LEMMA ZoneStep ==
  ASSUME AccountsTypeOK, OpInv, ZoneOfAccount, AccountsNext
  PROVE  ZoneOfAccount'
<1> USE DEF AccountsTypeOK, Go, AccountOf, Unfinished
<1>1. ASSUME NEW p \in Proc, NEW o \in Op, NEW selected \in Profile \cup {NoValue}, Start(p, o, selected)
      PROVE  ZoneOfAccount'
  <2>1. step[p] = "idle" /\ UNCHANGED <<creds, zone, excused>>
    BY <1>1 DEF Start, diskVars
  <2>2. \A q \in Proc \ {p} : step'[q] = step[q] /\ op'[q] = op[q] /\ who'[q] = who[q]
    BY <1>1 DEF Start
  <2> QED
    BY <2>1, <2>2 DEF ZoneOfAccount
<1>2. ASSUME NEW p \in Proc, LoginKey(p)
      PROVE  ZoneOfAccount'
  <2>1. step[p] \notin {"active", "default", "set", "zones"}
    BY <1>2 DEF LoginKey, KeyForEncryption, KeyLoad, KeyLocks, KeyAgain, KeyScan, KeyStore, KeyBack
  <2>2. \A q \in Proc \ {p} : step'[q] = step[q]
    BY <1>2, MovesOne DEF StepOf
  <2> QED
    BY <1>2, <2>1, <2>2 DEF LoginKey, diskVars, procVars, ZoneOfAccount
<1>3. ASSUME NEW p \in Proc, (\E account \in Account : SignIn(p, account)) \/ CheckProfile(p) \/ FindSource(p) \/ ReadCredentials(p) \/ CachedZone(p)
      PROVE  ZoneOfAccount'
  <2>1. step[p] \notin {"active", "default", "set", "zones"} /\ UNCHANGED <<creds, zone, excused, op, who>>
    BY <1>3 DEF SignIn, CheckProfile, FindSource, ReadCredentials, CachedZone, diskVars, procVars
  <2>2. \A q \in Proc \ {p} : step'[q] = step[q]
    BY <1>3 DEF SignIn, CheckProfile, FindSource, ReadCredentials, CachedZone
  <2> QED
    BY <2>1, <2>2 DEF ZoneOfAccount
<1>4. ASSUME NEW p \in Proc, SaveCredentials(p) \/ Logout(p)
      PROVE  ZoneOfAccount'
  <2>1. step'[p] \in {"active", "zones"} /\ op'[p] \in {"login", "logout"} /\ who'[p] = who[p]
    BY <1>4 DEF SaveCredentials, Logout, procVars, OpInv
  <2>2. \A n \in Profile : n # who[p] => creds'[n] = creds[n]
    BY <1>4 DEF SaveCredentials, Logout
  <2>3. \A q \in Proc \ {p} : step'[q] = step[q]
    BY <1>4 DEF SaveCredentials, Logout
  <2>4. UNCHANGED <<zone, excused, op, who>> /\ step[p] \notin {"active", "default", "set", "zones"}
    BY <1>4 DEF SaveCredentials, Logout, procVars
  <2>5. ASSUME NEW n \in Profile, zone'[n] # NoValue /\ zone'[n] # AccountOf(n)'
        PROVE  n \in excused' \/ \E q \in Proc : n \in Unfinished(q)'
    <3>1. CASE n = who[p]
      BY <2>1, <3>1
    <3>2. CASE n # who[p]
      BY <2>2, <2>3, <2>4, <2>5, <3>2 DEF ZoneOfAccount
    <3> QED
      BY <3>1, <3>2
  <2> QED
    BY <2>5 DEF ZoneOfAccount
<1>5. ASSUME NEW p \in Proc, ActiveIfUnset(p) \/ DefaultUnused(p) \/ SetActive(p)
      PROVE  ZoneOfAccount'
  <2>1. UNCHANGED <<creds, zone, excused, op, who>> /\ \A q \in Proc \ {p} : step'[q] = step[q]
    BY <1>5 DEF ActiveIfUnset, DefaultUnused, SetActive, diskVars, procVars
  <2>2. op[p] \in {"login", "logout"} => step'[p] \in {"default", "set", "zones"}
    BY <1>5 DEF ActiveIfUnset, DefaultUnused, SetActive
  <2> QED
    BY <2>1, <2>2 DEF ZoneOfAccount
<1>6. ASSUME NEW p \in Proc, InvalidateZones(p)
      PROVE  ZoneOfAccount'
  BY <1>6 DEF InvalidateZones, ZoneOfAccount
<1>7. ASSUME NEW p \in Proc, CacheZone(p)
      PROVE  ZoneOfAccount'
  <2>1. who[p] \in Profile /\ step[p] \notin {"active", "default", "set", "zones"}
    BY <1>7 DEF CacheZone, OpInv
  <2>2. UNCHANGED <<creds, op, who>> /\ \A q \in Proc \ {p} : step'[q] = step[q]
    BY <1>7 DEF CacheZone, procVars
  <2>3. \A n \in Profile : n # who[p] => zone'[n] = zone[n] /\ (n \in excused => n \in excused')
    BY <1>7 DEF CacheZone
  <2>4. zone'[who[p]] = AccountOf(who[p]) \/ who[p] \in excused'
    BY <1>7, <2>1 DEF CacheZone
  <2> QED
    BY <2>1, <2>2, <2>3, <2>4 DEF ZoneOfAccount
<1>8. ASSUME NEW p \in Proc, Stop(p)
      PROVE  ZoneOfAccount'
  <2>1. UNCHANGED <<creds, zone>> /\ excused' = excused \cup Unfinished(p)
    BY <1>8 DEF Stop, diskVars
  <2>2. \A q \in Proc \ {p} : step'[q] = step[q] /\ op'[q] = op[q] /\ who'[q] = who[q]
    BY <1>8 DEF Stop
  <2> QED
    BY <2>1, <2>2 DEF ZoneOfAccount
<1>9. ASSUME LoseKey
      PROVE  ZoneOfAccount'
  BY <1>9 DEF LoseKey, KeyLost, diskVars, procVars, ZoneOfAccount
<1> HIDE DEF AccountsTypeOK
<1> QED
  BY <1>1, <1>2, <1>3, <1>4, <1>5, <1>6, <1>7, <1>8, <1>9, Cases DEF StepOf

\* A step of a command that overlaps with no other changes the identity of the
\* others only if it is meant to.
LEMMA SwitchStep ==
  ASSUME AccountsTypeOK, OpInv, AloneInv, AccountsNext, NEW p \in alone, step'[p] # step[p], PlainIdentity' # PlainIdentity
  PROVE  op[p] = "use" \/ who[p] = Active \/ PlainIdentity = OtherCredentials
<1> USE DEF AccountsTypeOK
<1>1. PICK q \in Proc : StepOf(q)
  <2>1. ~LoseKey
    BY DEF LoseKey, KeyLost
  <2> QED
    BY <2>1, Cases
<1>2. p = q
  BY <1>1, MovesOne
<1>3. CASE SaveCredentials(p) \/ Logout(p)
  <2>1. config' = config /\ \A n \in Profile : n # who[p] => creds'[n] = creds[n]
    BY <1>3 DEF SaveCredentials, Logout
  <2>2. CASE who[p] = Active
    BY <2>2
  <2>3. CASE who[p] # Active
    <3>1. Active' = Active /\ Active \in Profile /\ creds'[Active] = creds[Active]
      BY <2>1, <2>3 DEF Active, Profile
    <3>2. CASE config # NoValue
      BY <2>1, <3>1, <3>2 DEF PlainIdentity, AccountOf
    <3>3. CASE config = NoValue
      BY <2>1, <3>1, <3>3 DEF PlainIdentity, AccountOf, Active
    <3> QED
      BY <3>2, <3>3
  <2> QED
    BY <2>2, <2>3
<1>4. CASE SetActive(p)
  <2>1. CASE op[p] = "use"
    BY <2>1
  <2>2. CASE op[p] = "login"
    BY <1>4, <2>2 DEF SetActive, AloneInv, PlainIdentity
  <2> QED
    BY <1>4, <2>1, <2>2 DEF SetActive, OpInv
<1>5. CASE ~(SaveCredentials(p) \/ Logout(p) \/ SetActive(p))
  <2>1. UNCHANGED <<creds, config>>
    BY <1>1, <1>2, <1>5 DEF StepOf, Start, LoginKey, SignIn, ActiveIfUnset, DefaultUnused, InvalidateZones, CheckProfile,
       FindSource, ReadCredentials, CachedZone, CacheZone, Stop, diskVars
  <2> QED
    BY <2>1 DEF PlainIdentity, Active, AccountOf
<1> QED
  BY <1>3, <1>4, <1>5

\* Nothing that is kept unchanged breaks the invariant.
LEMMA AccountsStutter ==
  ASSUME AccountsInv, UNCHANGED accountVars
  PROVE  AccountsInv'
<1> USE DEF accountVars, keyVars, diskVars, procVars
<1>1. AccountsTypeOK'
  BY DEF AccountsInv, AccountsTypeOK, KeyTypeOK
<1>2. KeyInv' /\ OpInv' /\ AloneInv'
  BY DEF AccountsInv, KeyInv, UnderLock, Encrypted, OpInv, AloneInv
<1>3. AlwaysReadable' /\ ZoneOfAccount'
  BY DEF AccountsInv, AlwaysReadable, Encrypted, ZoneOfAccount, AccountOf, Unfinished
<1> QED
  BY <1>1, <1>2, <1>3 DEF AccountsInv

\* The invariant holds in every state.
LEMMA AccountsInvHolds == AccountsSpec => []AccountsInv
<1>1. AccountsInv /\ AccountsNext => AccountsInv'
  BY TypeStep, KeyStep, OpStep, AloneStep, ZoneStep DEF AccountsInv
<1>2. AccountsInv /\ [AccountsNext]_accountVars => AccountsInv'
  BY <1>1, AccountsStutter
<1> QED
  BY <1>2, AccountsBegin, PTL DEF AccountsSpec

\* Every variable of the keystore and of the accounts keeps its type.
THEOREM AccountsTyped == AccountsSpec => []AccountsTypeOK
<1>1. AccountsInv => AccountsTypeOK
  BY DEF AccountsInv
<1> QED
  BY <1>1, AccountsInvHolds, PTL

\* However many processes log in, fail and die at the same time: while there is a
\* key, everything encrypted can be read with it.
THEOREM ReadableKept == AccountsSpec => []AlwaysReadable
<1>1. AccountsInv => AlwaysReadable
  BY DEF AccountsInv
<1> QED
  BY <1>1, AccountsInvHolds, PTL

\* A cached time zone is that of the profile's account, and what a plain command
\* acts as changes only by a command that is meant to change it.
THEOREM AccountsKept == AccountsSpec => AccountsCorrect
<1>1. AccountsInv => ZoneOfAccount
  BY DEF AccountsInv
<1> DEFINE Kept == \A p \in Proc :
             step'[p] # step[p] /\ p \in alone /\ PlainIdentity' # PlainIdentity =>
               op[p] = "use" \/ who[p] = Active \/ PlainIdentity = OtherCredentials
<1>2. AccountsInv /\ AccountsNext => Kept
  BY SwitchStep DEF AccountsInv
<1>3. AccountsInv /\ [AccountsNext]_accountVars => [Kept]_accountVars
  BY <1>2
<1>4. AccountsSpec => [][Kept]_accountVars
  <2> HIDE DEF Kept
  <2> QED
    BY <1>3, AccountsInvHolds, PTL DEF AccountsSpec
<1> QED
  BY <1>1, <1>4, AccountsInvHolds, PTL DEF AccountsCorrect, NoSilentSwitch

-----------------------------------------------------------------------------
\* Which credentials a command acts with.

\* The source that was determined is one that may be taken, given what was asked.
SourceChosen ==
  /\ oSource \in CredentialSource
  /\ PerCommandProfile => oSource = "profile"
  /\ oSource \in {"adcEnv", "adcWellKnown"} => ~ExplicitProfile /\ "profile" \in oSawAbsent
  /\ oSource = "adcWellKnown" => ~oAsked.adcEnv
  /\ oAsked.token \/ oAsked.tokenFile => oSource \in {"tokenEnv", "tokenFile"}
  /\ oSource \in {"tokenEnv", "tokenFile"} => ~oAsked.impersonate
  /\ oAsked.credentialsFile => oSource \in {"tokenEnv", "tokenFile", "credentialsFile"}

\* What it acts with is what that source holds.
ActsAs ==
  /\ oSource \in {"tokenEnv", "tokenFile"} => oUsed = "token"
  /\ oSource \in CredentialFile => oUsed \in {"user", "service"}
  /\ oSource \in CredentialFile /\ oAsked.impersonate => oUsed = "service"

IdentityInv ==
  /\ oStep \in {"off", "source", "load", "over"}
  /\ oStep # "over" => oEnd = NoValue
  /\ oStep = "load" => SourceChosen
  /\ oEnd = "ok" => SourceChosen /\ ActsAs

LEMMA IdentityStep == IdentityInv /\ [SourceNext]_sourceVars => IdentityInv'
<1> SUFFICES ASSUME IdentityInv, [SourceNext]_sourceVars PROVE IdentityInv'
  OBVIOUS
<1> USE OutcomeAssumption DEF Ending, ExitCode
<1>1. ASSUME NEW asked \in Asked, NEW files \in [CredentialFile -> FileState],
             SourceBegin(asked, files)
      PROVE  IdentityInv'
  BY <1>1 DEF SourceBegin, IdentityInv
<1>2. ASSUME FindSourceOf PROVE IdentityInv'
  <2> DEFINE source == SourceOf
  <2>1. CASE source \in CredentialSource
    <3>1. oSource' = source /\ oSawAbsent' = Absent(source) /\ oAsked' = oAsked /\ oEnd' = oEnd
      BY <1>2, <2>1 DEF FindSourceOf
    <3>2. ASSUME oAsked.token \/ oAsked.tokenFile PROVE SourceChosen'
      <4>1. source \in {"tokenEnv", "tokenFile"} /\ ~PerCommandProfile /\ ~oAsked.impersonate
        BY <2>1, <3>2 DEF SourceOf, CredentialSource, CredentialFile
      <4> QED
        BY <3>1, <4>1 DEF SourceChosen, CredentialSource, PerCommandProfile, ExplicitProfile
    <3>3. ASSUME ~(oAsked.token \/ oAsked.tokenFile), oAsked.credentialsFile PROVE SourceChosen'
      <4>1. source = "credentialsFile" /\ ~PerCommandProfile
        BY <2>1, <3>3 DEF SourceOf, There, CredentialSource, CredentialFile
      <4> QED
        BY <3>1, <3>3, <4>1 DEF SourceChosen, CredentialSource, CredentialFile, PerCommandProfile, ExplicitProfile
    <3>4. ASSUME ~(oAsked.token \/ oAsked.tokenFile), ~oAsked.credentialsFile PROVE SourceChosen'
      <4>1. source = ProfileSource
        BY <3>4 DEF SourceOf
      <4>2. CASE oFile["profile"] # "missing"
        <5>1. source = "profile"
          BY <2>1, <4>1, <4>2 DEF ProfileSource, There, CredentialSource, CredentialFile
        <5> QED
          BY <3>1, <3>4, <5>1 DEF SourceChosen, CredentialSource, CredentialFile, PerCommandProfile, ExplicitProfile
      <4>3. CASE oFile["profile"] = "missing"
        <5>1. ~ExplicitProfile /\ source = ApplicationDefault
          BY <2>1, <4>1, <4>3 DEF ProfileSource, There, CredentialSource, CredentialFile
        <5>2. source \in {"adcEnv", "adcWellKnown"} /\ (source = "adcWellKnown" => ~oAsked.adcEnv)
          BY <2>1, <5>1 DEF ApplicationDefault, There, CredentialSource, CredentialFile
        <5>3. "profile" \in oSawAbsent'
          BY <3>1, <4>3, <5>2 DEF Absent, CredentialFile
        <5> QED
          BY <3>1, <3>4, <5>1, <5>2, <5>3 DEF SourceChosen, CredentialSource, CredentialFile,
             PerCommandProfile, ExplicitProfile
      <4> QED
        BY <4>2, <4>3
    <3>5. SourceChosen'
      BY <3>2, <3>3, <3>4
    <3> QED
      BY <1>2, <2>1, <3>1, <3>5 DEF FindSourceOf, IdentityInv
  <2>2. CASE source \notin CredentialSource
    <3>1. source # "ok"
      BY DEF SourceOf, ProfileSource, ApplicationDefault, There, PerCommandProfile, ExplicitProfile
    <3> QED
      BY <1>2, <2>2, <3>1 DEF FindSourceOf, SourceEnds, IdentityInv
  <2> QED
    BY <2>1, <2>2
<1>3. ASSUME LoadToken PROVE IdentityInv'
  BY <1>3 DEF LoadToken, SourceEnds, IdentityInv, SourceChosen, ActsAs, PerCommandProfile,
     ExplicitProfile, CredentialFile
<1>4. ASSUME LoadCredential PROVE IdentityInv'
  BY <1>4 DEF LoadCredential, SourceEnds, LoadError, IdentityInv, SourceChosen, ActsAs,
     PerCommandProfile, ExplicitProfile, CredentialFile
<1>5. ASSUME NEW f \in CredentialFile, NEW state \in FileState, FileChanges(f, state)
      PROVE  IdentityInv'
  BY <1>5 DEF FileChanges, IdentityInv, SourceChosen, ActsAs, PerCommandProfile, ExplicitProfile
<1>6. ASSUME UNCHANGED sourceVars PROVE IdentityInv'
  BY <1>6 DEF sourceVars, IdentityInv, SourceChosen, ActsAs, PerCommandProfile, ExplicitProfile
<1> QED
  BY <1>1, <1>2, <1>3, <1>4, <1>5, <1>6 DEF SourceNext, FileState

-----------------------------------------------------------------------------
\* events +renew.

\* What --all keeps when a timer runs it often enough and Google answers it well.
KeptAlive == rClean /\ rMode = [named |-> FALSE, reactivate |-> FALSE]
             /\ Every < Within /\ Every < Lifetime

RenewTypes ==
  /\ rStep \in {"off", "list", "renew", "over"}
  /\ rStep # "off" => rMode \in [named : BOOLEAN, reactivate : BOOLEAN]
  /\ rLeft \in [Subscription -> Nat] /\ rAge \in Nat
  /\ rErrors \subseteq RequestError

\* Those still to do and those reported are all the run has selected, each once.
Reported ==
  /\ rToDo \cup rRenewed \cup rFailed = rTotal
  /\ rRenewed \cap rFailed = {} /\ rToDo \cap (rRenewed \cup rFailed) = {}
  /\ rRenewed \subseteq rFresh
  /\ rErrors = {} <=> rFailed = {}
  /\ rMode.named => (\E s \in Subscription : rTotal = {s}) /\ (rErrors = {} \/ \E e : rErrors = {e})

\* A run that lists the subscriptions was given no name, and has reported nothing.
Unreported == ~rMode.named /\ rRenewed = {} /\ rFailed = {} /\ rErrors = {} /\ rFresh = {}

\* The time left of each subscription covers the time until the next run at the latest.
LeftEnough ==
  /\ rAge <= Every
  /\ rStep = "off" => rAge = 0 /\ \A s \in Subscription : rLeft[s] = Lifetime
  /\ rStep \in {"list", "renew"} => rAge = 0
  /\ KeptAlive /\ rStep = "over" => \A s \in Subscription : rLeft[s] + rAge > Every
  /\ KeptAlive /\ rStep = "list" => \A s \in Subscription : rLeft[s] > 0
  /\ KeptAlive /\ rStep = "renew" =>
       \A s \in Subscription : rLeft[s] > (IF s \in rToDo THEN 0 ELSE Every)

\* A suspended subscription is still to be reactivated, or reported as failed.
SuspendedTold ==
  rStep = "renew" /\ rMode = [named |-> FALSE, reactivate |-> TRUE] =>
    rSuspended \cap Alive \subseteq rToDo \cup rFailed

RenewInv ==
  /\ RenewTypes /\ LeftEnough /\ SuspendedTold
  /\ rStep = "renew" => Reported
  /\ rStep = "list" => Unreported

LEMMA RenewBegins == RenewInit => RenewInv
  BY RenewalAssumption DEF RenewInit, RenewInv, RenewTypes, LeftEnough, SuspendedTold

LEMMA RenewTypesStep == RenewInv /\ [RenewNext]_renewVars => RenewTypes'
<1> SUFFICES ASSUME RenewInv, [RenewNext]_renewVars PROVE RenewTypes'
  OBVIOUS
<1> USE RenewalAssumption DEF RenewTypes, RenewInv
<1>r. ASSUME NEW s \in Subscription, Refresh(s) PROVE rLeft' \in [Subscription -> Nat]
  BY <1>r DEF Refresh
<1>1. CASE Timer
  BY <1>1 DEF Timer, RenewBegin, rGoogle, rReport
<1>2. CASE TimePasses
  <2>1. \A s \in Subscription : (IF s \in Alive THEN rLeft[s] - 1 ELSE 0) \in Nat
    BY DEF Alive
  <2> QED
    BY <1>2, <2>1 DEF TimePasses, rSetting, rReport
<1>3. ASSUME NEW s \in Subscription, Suspends(s) PROVE RenewTypes'
  BY <1>3 DEF Suspends, rSetting, rReport
<1>4. ASSUME NEW s \in Subscription, RenewRun(s) PROVE RenewTypes'
  BY <1>4 DEF RenewRun, rSetting, rGoogle
<1>5. ASSUME NEW s \in Subscription, RenewOne(s) PROVE RenewTypes'
  <2>1. rStep' = rStep /\ rMode' = rMode /\ rAge' = rAge
    BY <1>5 DEF RenewOne, rSetting
  <2>2. rLeft' \in [Subscription -> Nat]
    BY <1>5, <1>r DEF RenewOne, Renewed, Fails, rGoogle
  <2>3. rErrors' \subseteq RequestError
    BY <1>5 DEF RenewOne, Fails
  <2> QED
    BY <2>1, <2>2, <2>3
<1>6. CASE Listing
  BY <1>6 DEF Listing, ListPage, RunEnds, rSetting, rGoogle, rReport
<1>7. CASE ListFails
  BY <1>7 DEF ListFails, RunEnds, rSetting, rGoogle, rReport
<1>8. CASE RenewDone
  BY <1>8 DEF RenewDone, RunEnds, rSetting, rGoogle, rReport
<1>9. CASE UNCHANGED renewVars
  BY <1>9 DEF renewVars, rSetting, rGoogle, rReport
<1> QED
  BY <1>1, <1>2, <1>3, <1>4, <1>5, <1>6, <1>7, <1>8, <1>9 DEF RenewNext

LEMMA ReportedStep ==
  RenewInv /\ [RenewNext]_renewVars =>
    /\ (rStep = "renew" => Reported)'
    /\ (rStep = "list" => Unreported)'
<1> SUFFICES ASSUME RenewInv, [RenewNext]_renewVars
             PROVE  /\ (rStep = "renew" => Reported)'
                    /\ (rStep = "list" => Unreported)'
  OBVIOUS
<1> USE DEF RenewInv
<1>1. CASE Timer
  BY <1>1 DEF Timer, RenewBegin
<1>2. CASE TimePasses
  BY <1>2 DEF TimePasses
<1>3. ASSUME NEW s \in Subscription, Suspends(s) PROVE rStep' = "over"
  BY <1>3 DEF Suspends
<1>4. ASSUME NEW s \in Subscription, RenewRun(s)
      PROVE  (rStep = "renew" => Reported)' /\ (rStep = "list" => Unreported)'
  BY <1>4 DEF RenewRun, Reported, Unreported, rSetting
<1>5. ASSUME NEW s \in Subscription, RenewOne(s) PROVE rStep' = "renew" /\ Reported'
  <2>1. /\ rStep = "renew" /\ s \in rToDo /\ rStep' = rStep /\ rMode' = rMode
        /\ rTotal' = rTotal /\ rToDo' = rToDo \ {s} /\ Reported
    BY <1>5 DEF RenewOne, rSetting
  <2>2. rMode.named => rRenewed = {} /\ rFailed = {} /\ rErrors = {}
    <3> SUFFICES ASSUME rMode.named PROVE rRenewed = {} /\ rFailed = {}
      BY <2>1 DEF Reported
    <3>1. rTotal = {s}
      BY <2>1 DEF Reported
    <3> QED
      BY <2>1, <3>1 DEF Reported
  <2>3. ASSUME Renewed(s), UNCHANGED <<rFailed, rErrors>> PROVE Reported'
    BY <2>1, <2>3 DEF Reported, Renewed, Refresh
  <2>4. ASSUME NEW error \in RequestError, Fails(s, error), rRenewed' = rRenewed PROVE Reported'
    <3>1. rFailed' = rFailed \cup {s} /\ rErrors' = rErrors \cup {error} /\ rFresh \subseteq rFresh'
      BY <2>4 DEF Fails, Refresh
    <3>2. rMode.named => rErrors' = {error}
      BY <2>2, <3>1
    <3> QED
      BY <2>1, <2>4, <3>1, <3>2 DEF Reported
  <2> QED
    BY <1>5, <2>1, <2>3, <2>4 DEF RenewOne
<1>6. ASSUME NEW page \in SUBSET (Alive \ rListed), NEW token \in 0..ListTokens,
             ListPage(page, token), rStep = "list"
      PROVE  (rStep = "renew" => Reported)' /\ (rStep = "list" => Unreported)'
  <2>1. Unreported'
    BY <1>6 DEF ListPage, rReport, rSetting, Unreported
  <2>2. rStep' = "renew" => rTotal' = rToDo' /\ ~rMode'.named
    BY <1>6 DEF ListPage, RunEnds, rSetting, Unreported
  <2> QED
    BY <2>1, <2>2 DEF Reported, Unreported
<1>7. CASE ListFails
  BY <1>7 DEF ListFails, RunEnds
<1>8. CASE RenewDone
  BY <1>8 DEF RenewDone, RunEnds
<1>9. CASE UNCHANGED renewVars
  BY <1>9 DEF renewVars, rSetting, rGoogle, rReport, Reported, Unreported
<1> QED
  BY <1>1, <1>2, <1>3, <1>4, <1>5, <1>6, <1>7, <1>8, <1>9 DEF RenewNext, Listing

LEMMA LeftEnoughStep == RenewInv /\ [RenewNext]_renewVars => LeftEnough'
<1> SUFFICES ASSUME RenewInv, [RenewNext]_renewVars PROVE LeftEnough'
  OBVIOUS
<1> USE RenewalAssumption DEF RenewInv, RenewTypes, LeftEnough, KeptAlive
<1>1. CASE Timer
  <2>1. rStep = "off" /\ rStep' = "over" /\ rAge' = rAge /\ rLeft' = rLeft
    BY <1>1 DEF Timer, RenewBegin, rGoogle
  <2>2. KeptAlive' => Every < Lifetime
    OBVIOUS
  <2> QED
    BY <2>1, <2>2
<1>2. CASE TimePasses
  <2>1. /\ rStep = "over" /\ rStep' = rStep /\ rMode' = rMode /\ rClean' = rClean
        /\ rAge < Every /\ rAge' = rAge + 1
    BY <1>2 DEF TimePasses, rSetting
  <2>2. \A s \in Subscription : rLeft'[s] + 1 >= rLeft[s]
    BY <1>2 DEF TimePasses, Alive
  <2>3. \A s \in Subscription : rLeft[s] \in Nat /\ rLeft'[s] \in Nat
    BY RenewTypesStep DEF RenewNext
  <2> QED
    BY <2>1, <2>2, <2>3
<1>3. ASSUME NEW s \in Subscription, Suspends(s) PROVE LeftEnough'
  BY <1>3 DEF Suspends, rSetting
<1>4. ASSUME NEW s \in Subscription, RenewRun(s) PROVE LeftEnough'
  <2>1. /\ rStep = "over" /\ rMode' = rMode /\ rClean' = rClean /\ rLeft' = rLeft
        /\ rAge' = 0 /\ rStep' = IF rMode.named THEN "renew" ELSE "list"
    BY <1>4 DEF RenewRun, rSetting, rGoogle
  <2>2. KeptAlive => \A u \in Subscription : rLeft[u] > 0
    BY <2>1
  <2> QED
    BY <2>1, <2>2
<1>5. ASSUME NEW s \in Subscription, RenewOne(s) PROVE LeftEnough'
  <2>1. /\ rStep = "renew" /\ rStep' = rStep /\ rMode' = rMode /\ rClean' = rClean
        /\ rAge' = rAge /\ rToDo' = rToDo \ {s}
    BY <1>5 DEF RenewOne, rSetting
  <2>2. ASSUME KeptAlive
        PROVE  \A u \in Subscription : rLeft'[u] > (IF u \in rToDo' THEN 0 ELSE Every)
    <3>1. s \in Alive
      BY <2>1, <2>2 DEF Alive
    <3>2. rLeft' = [rLeft EXCEPT ![s] = Lifetime]
      BY <1>5, <2>2, <3>1 DEF RenewOne, Renewed, Refresh
    <3> QED
      BY <2>1, <2>2, <3>2
  <2> QED
    BY <2>1, <2>2
<1>6. ASSUME NEW page \in SUBSET (Alive \ rListed), NEW token \in 0..ListTokens,
             ListPage(page, token), rStep = "list", rClean => token \notin rFollowed,
             token = 0 => Alive = rListed \cup page
      PROVE  LeftEnough'
  <2>1. rMode' = rMode /\ rClean' = rClean /\ rAge' = rAge /\ rLeft' = rLeft
    BY <1>6 DEF ListPage, rSetting, rGoogle
  <2>2. ASSUME KeptAlive, rStep' = "renew"
        PROVE  \A u \in Subscription : rLeft'[u] > (IF u \in rToDo' THEN 0 ELSE Every)
    <3>1. Alive = Subscription
      BY <1>6, <2>2 DEF Alive
    <3>2. rToDo' = {u \in Subscription : rLeft[u] < Within}
      BY <1>6, <2>2, <3>1 DEF ListPage, Selected, NeedsRenewal, RunEnds
    <3> QED
      BY <1>6, <2>1, <2>2, <3>2
  <2>3. rStep' \in {"list", "renew", "over"} /\ (rClean => rStep' # "over")
    BY <1>6 DEF ListPage, RunEnds
  <2> QED
    BY <1>6, <2>1, <2>2, <2>3
<1>7. CASE ListFails
  BY <1>7 DEF ListFails, RunEnds, rSetting, rGoogle
<1>8. CASE RenewDone
  <2>1. /\ rStep = "renew" /\ rStep' = "over" /\ rMode' = rMode /\ rClean' = rClean
        /\ rAge' = rAge /\ rLeft' = rLeft /\ rToDo = {}
    BY <1>8 DEF RenewDone, RunEnds, rSetting, rGoogle
  <2> QED
    BY <2>1
<1>9. CASE UNCHANGED renewVars
  BY <1>9 DEF renewVars, rSetting, rGoogle
<1> QED
  BY <1>1, <1>2, <1>3, <1>4, <1>5, <1>6, <1>7, <1>8, <1>9 DEF RenewNext, Listing

LEMMA SuspendedStep == RenewInv /\ [RenewNext]_renewVars => SuspendedTold'
<1> SUFFICES ASSUME RenewInv, [RenewNext]_renewVars, (rStep = "renew")',
                    rMode' = [named |-> FALSE, reactivate |-> TRUE]
             PROVE  (rSuspended \cap Alive \subseteq rToDo \cup rFailed)'
  BY DEF SuspendedTold
<1> USE DEF RenewInv, RenewTypes, SuspendedTold
<1>1. CASE Timer
  BY <1>1 DEF Timer, RenewBegin
<1>2. CASE TimePasses
  BY <1>2 DEF TimePasses
<1>3. ASSUME NEW s \in Subscription, Suspends(s) PROVE FALSE
  BY <1>3 DEF Suspends
<1>4. ASSUME NEW s \in Subscription, RenewRun(s) PROVE FALSE
  BY <1>4 DEF RenewRun, rSetting
<1>5. ASSUME NEW s \in Subscription, RenewOne(s)
      PROVE  (rSuspended \cap Alive \subseteq rToDo \cup rFailed)'
  <2>1. /\ rStep = "renew" /\ rMode' = rMode /\ rToDo' = rToDo \ {s} /\ rMode.reactivate
    BY <1>5 DEF RenewOne, rSetting
  <2>2. /\ rLeft' = rLeft /\ rSuspended' \subseteq rSuspended /\ rFailed \subseteq rFailed'
        /\ s \in rSuspended' => s \in rFailed'
    BY <1>5, <2>1 DEF RenewOne, Renewed, Fails, Refresh, rGoogle
  <2> QED
    BY <2>1, <2>2 DEF Alive
<1>6. ASSUME NEW page \in SUBSET (Alive \ rListed), NEW token \in 0..ListTokens,
             ListPage(page, token), rStep = "list", token = 0 => Alive = rListed \cup page
      PROVE  (rSuspended \cap Alive \subseteq rToDo \cup rFailed)'
  <2>1. rMode' = rMode /\ rLeft' = rLeft /\ rSuspended' = rSuspended /\ rMode.reactivate
    BY <1>6 DEF ListPage, rSetting, rGoogle
  <2>2. rToDo' = Alive \cap rSuspended
    BY <1>6, <2>1 DEF ListPage, Selected, RunEnds
  <2> QED
    BY <2>1, <2>2 DEF Alive
<1>7. CASE ListFails
  BY <1>7 DEF ListFails, RunEnds
<1>8. CASE RenewDone
  BY <1>8 DEF RenewDone, RunEnds
<1>9. CASE UNCHANGED renewVars
  BY <1>9 DEF renewVars, rSetting, rGoogle, rReport, Alive
<1> QED
  BY <1>1, <1>2, <1>3, <1>4, <1>5, <1>6, <1>7, <1>8, <1>9 DEF RenewNext, Listing

LEMMA ReportHolds == RenewInv => RenewReport /\ NeverLapses
<1> SUFFICES ASSUME RenewInv PROVE RenewReport /\ NeverLapses
  OBVIOUS
<1> USE RenewalAssumption DEF RenewInv, RenewTypes
<1>1. NeverLapses
  <2> SUFFICES ASSUME KeptAlive PROVE \A s \in Subscription : rLeft[s] > 0
    BY DEF NeverLapses, KeptAlive, Alive
  <2> QED
    BY DEF LeftEnough, KeptAlive
<1>2. ASSUME rStep = "renew", rToDo = {} PROVE RenewOutcome = "ok" <=> rErrors = {}
  <2>1. ASSUME rMode.named, rErrors # {} PROVE RenewOutcome \in RequestError
    BY <2>1 DEF RenewOutcome
  <2>2. ASSUME ~(rMode.named /\ rErrors # {})
        PROVE  RenewOutcome = PartialFailure({StatusOf(e) : e \in rErrors})
    BY <2>2 DEF RenewOutcome
  <2>3. \A e \in rErrors : StatusOf(e) \in {"retry", "perm"}
    BY DEF StatusOf
  <2> QED
    BY <2>1, <2>2, <2>3 DEF PartialFailure, RequestError
<1>3. ASSUME rStep = "renew", rToDo = {}, RenewOutcome = "retryable"
      PROVE  rErrors = {"retryable"}
  <2>1. CASE rMode.named /\ rErrors # {}
    <3>1. PICK e : rErrors = {e}
      BY <1>3, <2>1 DEF Reported
    <3> QED
      BY <1>3, <2>1, <3>1 DEF RenewOutcome
  <2>2. CASE ~(rMode.named /\ rErrors # {})
    <3>1. /\ "perm" \notin {StatusOf(e) : e \in rErrors}
          /\ "retry" \in {StatusOf(e) : e \in rErrors}
      BY <1>3, <2>2 DEF RenewOutcome, PartialFailure
    <3>2. \A e \in rErrors : e = "retryable"
      BY <3>1 DEF StatusOf
    <3> QED
      BY <3>1, <3>2
  <2> QED
    BY <2>1, <2>2
<1> QED
  BY <1>1, <1>2, <1>3 DEF RenewReport, Reported

-----------------------------------------------------------------------------
\* Loading Discovery Documents.

LoadStep == {"off", "dir", "owner", "entry", "read", "remove", "fetch", "ensure", "temp", "persist", "over"}

Loaded == [api : Api \cup {NoValue}, origin : {"cache", "stale", "network", "error"}]

CacheTypes ==
  /\ dEntry \in [File -> Document \cup {Broken, NoValue}] /\ dTemp \subseteq Loader
  /\ lStep \in [Loader -> LoadStep] /\ lApi \in [Loader -> Api \cup {NoValue}]
  /\ lStale \in [Loader -> Document \cup {NoValue}]
  /\ lFetched \in [Loader -> Fetched \cup {NoValue}]
  /\ lResult \in [Loader -> Loaded \cup {NoValue}]
  /\ xStep \in [Clearer -> {"off", "plan", "files", "ok", "failed"}]

\* What loader l holds back for a fetch that fails is a document of its own API, and
\* the network has answered only once it was asked.
LoaderSound(l) ==
  /\ lStep[l] # "off" => lApi[l] \in Api
  /\ lStale[l] # NoValue => lStale[l].api = lApi[l]
  /\ lStep[l] \in {"dir", "owner", "entry", "read", "remove", "fetch"} => lFetched[l] = NoValue
  /\ lStep[l] \in {"ensure", "temp", "persist"} => lFetched[l] = "ok"
  /\ lStep[l] = "off" => lFetched[l] = NoValue /\ lStale[l] = NoValue
  /\ l \in dTemp => lStep[l] \in {"persist", "over"}
  /\ lStep[l] = "over" =>
       /\ lResult[l] \in Loaded
       /\ lResult[l].origin # "error" => lResult[l].api = lApi[l]
       /\ lFetched[l] = "ok" => lResult[l].origin = "network"
       /\ lResult[l].origin = "stale" <=> lFetched[l] = "failed" /\ lStale[l] # NoValue

\* There is nothing in a directory that is not there.
NothingInNothing == dDir = "none" => Present = {} /\ dTemp = {}

CacheInv == CacheTypes /\ NothingInNothing /\ \A l \in Loader : LoaderSound(l)

LEMMA CacheBegins == DiscoveryInit => CacheInv
  BY OutcomeAssumption, DiscoveryAssumption
     DEF DiscoveryInit, CacheInv, CacheTypes, NothingInNothing, LoaderSound, LoadStep, Present

\* A step of loader l changes what that loader knows and nothing of the others'.
LoaderStep(l) ==
  \/ LoadDir(l) \/ LoadOwner(l) \/ LoadEntry(l) \/ LoadRead(l) \/ LoadRemove(l)
  \/ Fetch(l) \/ StoreDir(l) \/ StoreTemp(l) \/ StorePersist(l) \/ LoaderKilled(l)

LEMMA LoaderTypes ==
  ASSUME CacheInv, NEW l \in Loader, LoaderStep(l)
  PROVE  CacheTypes' /\ LoaderSound(l)'
<1> USE DEF CacheInv, CacheTypes, LoadStep, LGo, HandOver, LoadFails, NotStored, Disk, clearVars,
     Fetched
<1>1. /\ LoaderSound(l)
      /\ lApi' = lApi /\ xStep' = xStep
      /\ \A s \in LoadStep : [lStep EXCEPT ![l] = s] \in [Loader -> LoadStep]
      /\ \A r \in Loaded : [lResult EXCEPT ![l] = r] \in [Loader -> Loaded \cup {NoValue}]
  BY DEF LoaderStep, LoadDir, LoadOwner, LoadEntry, LoadRead, LoadRemove, Fetch, StoreDir, StoreTemp,
     StorePersist, LoaderKilled
<1>2. \A origin \in {"cache", "stale", "network", "error"}, api \in Api \cup {NoValue} :
        [api |-> api, origin |-> origin] \in Loaded
  BY DEF Loaded
<1>3. CASE LoadDir(l)
  BY <1>1, <1>3 DEF LoadDir, LoaderSound
<1>4. CASE LoadOwner(l)
  BY <1>1, <1>2, <1>4, DiscoveryAssumption DEF LoadOwner, LoaderSound
<1>5. CASE LoadEntry(l)
  BY <1>1, <1>5 DEF LoadEntry, LoaderSound
<1>6. CASE LoadRead(l)
  BY <1>1, <1>2, <1>6, DiscoveryAssumption
     DEF LoadRead, LoaderSound, RightDocument, Document
<1>7. CASE LoadRemove(l)
  BY <1>1, <1>7 DEF LoadRemove, LoaderSound
<1>8. CASE Fetch(l)
  BY <1>1, <1>2, <1>8 DEF Fetch, LoaderSound, Document
<1>9. CASE StoreDir(l)
  BY <1>1, <1>2, <1>9 DEF StoreDir, LoaderSound
<1>10. CASE StoreTemp(l)
  BY <1>1, <1>2, <1>10 DEF StoreTemp, LoaderSound
<1>11. CASE StorePersist(l)
  <2>1. [api |-> lApi[l], young |-> TRUE] \in Document
    BY <1>1, <1>11 DEF StorePersist, LoaderSound, Document
  <2>2. dEntry' \in [File -> Document \cup {Broken, NoValue}]
    BY <1>11, <2>1 DEF StorePersist
  <2>3. /\ dTemp' \subseteq Loader /\ lStale' = lStale /\ lFetched' = lFetched
        /\ lStep' = [lStep EXCEPT ![l] = "over"]
        /\ lResult' = [lResult EXCEPT ![l] = [api |-> lApi[l], origin |-> "network"]]
    BY <1>11 DEF StorePersist
  <2> QED
    BY <1>1, <1>2, <1>11, <2>2, <2>3 DEF StorePersist, LoaderSound
<1>12. CASE LoaderKilled(l)
  BY <1>1, <1>2, <1>12, DiscoveryAssumption DEF LoaderKilled, LoaderSound
<1> QED
  BY <1>3, <1>4, <1>5, <1>6, <1>7, <1>8, <1>9, <1>10, <1>11, <1>12 DEF LoaderStep

\* A loader's step leaves what is said of the others as it is, but for the files.
LEMMA OthersSound ==
  ASSUME CacheInv, NEW l \in Loader, LoaderStep(l), NEW k \in Loader, k # l
  PROVE  LoaderSound(k)'
<1> USE DEF CacheInv, CacheTypes
<1>1. /\ lStep'[k] = lStep[k] /\ lApi'[k] = lApi[k] /\ lStale'[k] = lStale[k]
      /\ lFetched'[k] = lFetched[k] /\ lResult'[k] = lResult[k]
  BY DEF LoaderStep, LoadDir, LoadOwner, LoadEntry, LoadRead, LoadRemove, Fetch, StoreDir,
     StoreTemp, StorePersist, LoaderKilled, LGo, HandOver, LoadFails, NotStored
<1>2. k \in dTemp' => k \in dTemp
  BY DEF LoaderStep, LoadDir, LoadOwner, LoadEntry, LoadRead, LoadRemove, Fetch, StoreDir,
     StoreTemp, StorePersist, LoaderKilled, Disk
<1> QED
  BY <1>1, <1>2 DEF LoaderSound

LEMMA LoaderNothing ==
  ASSUME CacheInv, NEW l \in Loader, LoaderStep(l)
  PROVE  NothingInNothing'
<1> USE DEF CacheInv, CacheTypes, NothingInNothing, Present
<1>1. CASE UNCHANGED Disk
  BY <1>1 DEF Disk
<1>2. CASE LoadRemove(l)
  BY <1>2 DEF LoadRemove, File
<1>3. CASE StoreDir(l) \/ StoreTemp(l)
  BY <1>3 DEF StoreDir, StoreTemp, NotStored, HandOver
<1>4. CASE StorePersist(l)
  <2>1. CASE l \in dTemp
    BY <1>4, <2>1 DEF StorePersist
  <2>2. CASE l \notin dTemp
    BY <1>4, <2>2 DEF StorePersist
  <2> QED
    BY <2>1, <2>2
<1> QED
  BY <1>1, <1>2, <1>3, <1>4 DEF LoaderStep, LoadDir, LoadOwner, LoadEntry, LoadRead, Fetch, LoaderKilled

LEMMA CacheStep == CacheInv /\ [DiscoveryNext]_discoveryVars => CacheInv'
<1> SUFFICES ASSUME CacheInv, [DiscoveryNext]_discoveryVars PROVE CacheInv'
  OBVIOUS
<1>1. CASE DiscoveryStart
  <2>1. PICK twins \in BOOLEAN, dir \in {"none", "ok", "loose"}, apis \in [Loader -> Api],
             entry \in [File -> Document \cup {Broken, NoValue}] :
          Legal(twins, dir, entry) /\ DiscoveryBegin(twins, dir, entry, apis)
    BY <1>1 DEF DiscoveryStart
  <2>2. /\ lStep' = [l \in Loader |-> "dir"] /\ xStep' = [x \in Clearer |-> "plan"]
        /\ lApi' = apis /\ dDir' = dir /\ dEntry' = entry /\ dTemp' = dTemp
        /\ lStale' = lStale /\ lFetched' = lFetched /\ lResult' = lResult
        /\ \A l \in Loader : lStep[l] = "off"
    BY <2>1 DEF DiscoveryBegin, Idle
  <2>3. CacheTypes' /\ \A l \in Loader : LoaderSound(l)'
    BY <2>2 DEF CacheInv, CacheTypes, LoadStep, LoaderSound
  <2>4. dTemp = {}
    BY <2>2 DEF CacheInv, CacheTypes, LoaderSound
  <2> QED
    BY <2>1, <2>2, <2>3, <2>4 DEF CacheInv, NothingInNothing, Legal, Present
<1>2. ASSUME NEW l \in Loader, LoaderStep(l) PROVE CacheInv'
  BY <1>2, LoaderTypes, OthersSound, LoaderNothing DEF CacheInv
<1>3. ASSUME NEW x \in Clearer, ClearPlan(x) \/ ClearDocument(x) \/ ClearTemp(x) \/ ClearDir(x)
      PROVE  CacheInv'
  <2> USE DEF CacheInv, XGo, loaderVars, Disk
  <2>1. /\ lStep' = lStep /\ lApi' = lApi /\ lStale' = lStale /\ lFetched' = lFetched
        /\ lResult' = lResult /\ dTemp' \subseteq dTemp
    BY <1>3 DEF ClearPlan, ClearDocument, ClearTemp, ClearDir
  <2>2. dEntry' = dEntry \/ \E f : dEntry' = [dEntry EXCEPT ![f] = NoValue]
    BY <1>3 DEF ClearPlan, ClearDocument, ClearTemp, ClearDir
  <2>3. dEntry' \in [File -> Document \cup {Broken, NoValue}] /\ Present' \subseteq Present
    BY <2>2 DEF CacheTypes, Present
  <2>4. CacheTypes'
    BY <1>3, <2>1, <2>3 DEF CacheTypes, ClearPlan, ClearDocument, ClearTemp, ClearDir
  <2>5. \A l \in Loader : LoaderSound(l)'
    BY <2>1 DEF LoaderSound
  <2>6. dDir' = dDir \/ (Present = {} /\ dTemp = {})
    BY <1>3 DEF ClearPlan, ClearDocument, ClearTemp, ClearDir
  <2> QED
    BY <2>1, <2>4, <2>5, <2>6, <2>3 DEF NothingInNothing
<1>4. CASE UNCHANGED discoveryVars
  BY <1>4 DEF discoveryVars, loaderVars, clearVars, CacheInv, CacheTypes, NothingInNothing, LoaderSound,
     Present
<1> QED
  BY <1>1, <1>2, <1>3, <1>4 DEF DiscoveryNext, LoaderStep

-----------------------------------------------------------------------------
\* auth login: the answer to the sign-in.

\* Whoever is accepted has connected.
Connected ==
  /\ gSends \in [Connection -> Request \cup {Nothing, NoValue}]
  /\ gBacklog \in Seq(Connection) /\ gServing \subseteq Connection
  /\ \A i \in 1..Len(gBacklog) : gSends[gBacklog[i]] # NoValue
  /\ \A c \in gServing : gSends[c] # NoValue

SignInv ==
  /\ Connected
  /\ gStep \in {"off", "paste"} => \A c \in Connection : gSends[c] = NoValue
  /\ gStep \in {"off", "wait", "paste"} => gCode = NoValue
  /\ gStep = "exchange" => gCode = "own"
  /\ gStep # "over" => gEnd = NoValue
  /\ gStep \in {"off", "wait", "paste", "exchange", "over"}
  /\ OnlyOwnAnswer

LEMMA ParseSound ==
  ASSUME NEW r \in Request
  PROVE  /\ ParseCallback(r) = "code" => CodeOf(r) = "own"
         /\ ParseCallback(r) = "denied" => r.state = "own" /\ r.error
  BY DEF Request, ParseCallback, CodeOf

LEMMA ConnectedStep == SignInv /\ [SignNext]_signVars => Connected'
<1> SUFFICES ASSUME SignInv, [SignNext]_signVars PROVE Connected'
  OBVIOUS
<1> USE SignInAssumption DEF SignInv, Connected
<1>0. <<>> \in Seq(Connection) /\ Len(<<>>) = 0
  OBVIOUS
<1>1. ASSUME gSends' = gSends, gBacklog' \in {gBacklog, <<>>}, gServing' \subseteq gServing PROVE Connected'
  <2>1. CASE gBacklog' = gBacklog
    BY <1>1, <2>1
  <2>2. CASE gBacklog' = <<>>
    BY <1>0, <1>1, <2>2
  <2> QED
    BY <1>1, <2>1, <2>2
<1>2. ASSUME NEW c \in Connection, NEW sends \in Request \cup {Nothing}, Connects(c, sends)
      PROVE  Connected'
  <2>1. /\ gSends' = [gSends EXCEPT ![c] = sends] /\ gServing' = gServing /\ sends # NoValue
        /\ gBacklog' = Append(gBacklog, c)
    BY <1>2 DEF Connects
  <2>2. \A i \in 1..Len(gBacklog') : gBacklog'[i] \in Connection /\ gSends'[gBacklog'[i]] # NoValue
    BY <2>1
  <2>3. gBacklog' \in Seq(Connection) /\ gSends' \in [Connection -> Request \cup {Nothing, NoValue}]
    BY <2>1
  <2> QED
    BY <2>1, <2>2, <2>3
<1>3. CASE Accept
  <2>1. /\ gSends' = gSends /\ gServing' = gServing \cup {Head(gBacklog)} /\ gBacklog' = Tail(gBacklog)
        /\ gBacklog # <<>>
    BY <1>3 DEF Accept
  <2>2. Head(gBacklog) = gBacklog[1] /\ 1 \in 1..Len(gBacklog) /\ gBacklog[1] \in Connection
    BY <2>1
  <2>3. gBacklog' \in Seq(Connection) /\ \A i \in 1..Len(gBacklog') : gBacklog'[i] = gBacklog[i + 1]
    BY <2>1
  <2>4. Len(gBacklog') = Len(gBacklog) - 1
    BY <2>1
  <2>5. \A i \in 1..Len(gBacklog') : gSends'[gBacklog'[i]] # NoValue
    BY <2>1, <2>3, <2>4
  <2> QED
    BY <2>1, <2>2, <2>3, <2>5
<1> QED
  BY <1>1, <1>2, <1>3 DEF SignNext, SignBegin, Serving, Answer, IdleTimesOut, Drop, SignTimesOut, Paste,
     Exchange, SignEnds, Listener, signVars

LEMMA SignStep == SignInv /\ [SignNext]_signVars => SignInv'
<1> SUFFICES ASSUME SignInv, [SignNext]_signVars PROVE SignInv'
  OBVIOUS
<1> USE SignInAssumption, OutcomeAssumption DEF OnlyOwnAnswer, Ending, ExitCode, CodeOrigin
<1>0. Connected'
  BY ConnectedStep
<1>1. ASSUME NEW mode, NEW patient, SignBegin(mode, patient) PROVE SignInv'
  BY <1>0, <1>1 DEF SignInv, SignBegin
<1>2. ASSUME NEW c \in Connection, NEW sends \in Request \cup {Nothing}, Connects(c, sends)
      PROVE  SignInv'
  BY <1>0, <1>2 DEF SignInv, Connects
<1>3. CASE Accept
  BY <1>0, <1>3 DEF SignInv, Accept
<1>4. ASSUME NEW c \in Connection, Answer(c) PROVE SignInv'
  <2>1. gSends[c] \in Request /\ gSends' = gSends /\ gStep = "wait"
    BY <1>4 DEF SignInv, Connected, Answer, SignEnds, Drop
  <2>2. ASSUME ParseCallback(gSends[c]) = "code", gStep' = "exchange", gCode' = CodeOf(gSends[c]),
               gEnd' = gEnd
        PROVE  SignInv'
    <3>1. gCode' = "own"
      BY <2>1, <2>2, ParseSound
    <3> QED
      BY <1>0, <2>1, <2>2, <3>1 DEF SignInv
  <2>3. ASSUME ParseCallback(gSends[c]) = "denied", gStep' = "over", gEnd' = "auth", gCode' = gCode
        PROVE  SignInv'
    <3>1. gSends[c].state = "own" /\ gSends[c].error
      BY <2>1, <2>3, ParseSound
    <3> QED
      BY <1>0, <2>1, <2>3, <3>1 DEF SignInv
  <2>4. ASSUME Drop(c) PROVE SignInv'
    BY <1>0, <2>1, <2>4 DEF SignInv, Drop
  <2> QED
    BY <1>4, <2>2, <2>3, <2>4 DEF Answer, SignEnds
<1>5. ASSUME NEW c \in Connection, IdleTimesOut(c) PROVE SignInv'
  BY <1>0, <1>5 DEF SignInv, IdleTimesOut, Drop
<1>6. CASE SignTimesOut
  BY <1>0, <1>6 DEF SignInv, SignTimesOut, SignEnds
<1>7. ASSUME NEW r \in Request, Paste(r) PROVE SignInv'
  <2>1. gStep = "paste" /\ gSends' = gSends
    BY <1>7 DEF Paste
  <2>2. ASSUME gStep' = "exchange", gCode' = CodeOf(r), ParseCallback(r) = "code", gEnd' = gEnd
        PROVE  SignInv'
    <3>1. gCode' = "own"
      BY <2>2, ParseSound
    <3> QED
      BY <1>0, <2>1, <2>2, <3>1 DEF SignInv
  <2>3. ASSUME gStep' = "over", gCode' = gCode PROVE SignInv'
    BY <1>0, <2>1, <2>3 DEF SignInv
  <2> QED
    BY <1>7, <2>2, <2>3 DEF Paste, SignEnds
<1>8. CASE Exchange
  BY <1>0, <1>8 DEF SignInv, Exchange, SignEnds
<1>9. CASE UNCHANGED signVars
  BY <1>0, <1>9 DEF SignInv, signVars
<1> QED
  BY <1>1, <1>2, <1>3, <1>4, <1>5, <1>6, <1>7, <1>8, <1>9 DEF SignNext, Serving

-----------------------------------------------------------------------------
\* What events +subscribe and gmail +watch set up and clean up.

\* What a setup has created, newest first.
Kit == {<<>>, <<"topic">>, <<"subscription">>, <<"subscription", "topic">>}

SetupError == {"network", "retryable", "api", "other"}

TopicAndSubscription == {"topic", "subscription"}

SetupTypes ==
  /\ sStep \in {"off", "topic", "policy", "subscription", "feed", "stream", "rollBack", "cleanUp", "over"}
  /\ sStep # "off" => sSetup \in Setup
  /\ sCreated \in Kit /\ sDelete \in Kit

\* Until something is deleted all that is known to be created exists, and nothing else.
Standing ==
  sStep \in {"off", "topic", "policy", "subscription", "feed", "stream"} =>
    /\ \A r \in TopicAndSubscription : SetupKnows(r) <=> r \in sExists
    /\ sStep # "stream" => sStarted = NoValue
    /\ sLeft = {} /\ sError = NoValue /\ sEnd = NoValue
    /\ sStep \in {"off", "topic"} => sCreated = <<>>
    /\ sStep = "policy" => sCreated = <<"topic">>
    /\ sStep = "subscription" => sCreated \in {<<>>, <<"topic">>}
    /\ sStep = "feed" => sCreated \in {<<"subscription">>, <<"subscription", "topic">>}
    /\ sStep = "stream" => sStarted = "started" \/ (sSetup.existing /\ sCreated = <<>>)

\* While things are deleted, what is not gone or left over is still to be deleted, the
\* topic after the subscription.
Deleting ==
  sStep \in {"rollBack", "cleanUp"} =>
    /\ sDelete = <<"subscription", "topic">> => sCreated = sDelete
    /\ sDelete = <<"subscription">> => sCreated = sDelete
    /\ \A r \in TopicAndSubscription :
         SetupKnows(r) => (\E i \in DOMAIN sDelete : sDelete[i] = r) \/ r \notin sExists \/ r \in sLeft
    /\ sDelete = <<"subscription", "topic">> => "topic" \in sExists
    /\ sEnd = NoValue
    /\ sStep = "rollBack" => sStarted \notin {"started", "pending"} /\ sError \in SetupError
    /\ sStep = "cleanUp" => /\ sSetup.cleanup /\ sError \in SetupError \cup {NoValue}
                            /\ \A r \in TopicAndSubscription : r \in sExists => SetupKnows(r)

SetupInv ==
  /\ SetupTypes /\ Standing /\ Deleting
  /\ sStep # "off" /\ sSetup.existing => sStep \in {"stream", "over"} /\ sCreated = <<>>
  /\ SetupCorrect

LEMMA KitFacts ==
  /\ Head(<<"topic">>) = "topic" /\ Tail(<<"topic">>) = <<>>
  /\ Head(<<"subscription">>) = "subscription" /\ Tail(<<"subscription">>) = <<>>
  /\ Head(<<"subscription", "topic">>) = "subscription" /\ Tail(<<"subscription", "topic">>) = <<"topic">>
  /\ <<"topic">> \o <<>> = <<"topic">> /\ <<"subscription">> \o <<>> = <<"subscription">>
  /\ <<"subscription">> \o <<"topic">> = <<"subscription", "topic">>
  /\ DOMAIN <<>> = {} /\ DOMAIN <<"topic">> = {1} /\ DOMAIN <<"subscription">> = {1}
  /\ DOMAIN <<"subscription", "topic">> = {1, 2}
  /\ <<>> # <<"topic">> /\ <<>> # <<"subscription">> /\ <<>> # <<"subscription", "topic">>
  /\ <<"topic">> # <<"subscription">> /\ <<"topic">> # <<"subscription", "topic">>
  /\ <<"subscription">> # <<"subscription", "topic">>
<1>1. DOMAIN <<>> = {} /\ DOMAIN <<"topic">> = {1} /\ DOMAIN <<"subscription">> = {1}
      /\ DOMAIN <<"subscription", "topic">> = {1, 2}
  OBVIOUS
<1>2. Head(<<"topic">>) = "topic" /\ Tail(<<"topic">>) = <<>>
  OBVIOUS
<1>3. Head(<<"subscription">>) = "subscription" /\ Tail(<<"subscription">>) = <<>>
  OBVIOUS
<1>4. Head(<<"subscription", "topic">>) = "subscription" /\ Tail(<<"subscription", "topic">>) = <<"topic">>
  OBVIOUS
<1>5. <<"topic">> \o <<>> = <<"topic">> /\ <<"subscription">> \o <<>> = <<"subscription">>
  OBVIOUS
<1>6. <<"subscription">> \o <<"topic">> = <<"subscription", "topic">>
  <2> DEFINE s == <<"subscription">>
             t == <<"topic">>
             u == <<"subscription", "topic">>
  <2>1. s \in Seq(TopicAndSubscription) /\ t \in Seq(TopicAndSubscription) /\ Len(s) = 1 /\ Len(t) = 1 /\ s[1] = "subscription" /\ t[1] = "topic"
    BY DEF TopicAndSubscription
  <2>2. u \in Seq(TopicAndSubscription) /\ Len(u) = 2 /\ u[1] = "subscription" /\ u[2] = "topic"
    BY DEF TopicAndSubscription
  <2> HIDE DEF s, t, u
  <2>3. s \o t \in Seq(TopicAndSubscription) /\ Len(s \o t) = 2 /\ (s \o t)[1] = s[1] /\ (s \o t)[2] = t[1]
    BY <2>1, ConcatProperties, 1 + 1 = 2, 1 \in 1..2, 2 \in 1..2, 2 - 1 = 1
  <2>4. s \o t = u
    BY <2>1, <2>2, <2>3
  <2> QED
    BY <2>4 DEF s, t, u
<1>7. <<"topic">> # <<"subscription">>
  OBVIOUS
<1>8. /\ <<>> # <<"topic">> /\ <<>> # <<"subscription">> /\ <<>> # <<"subscription", "topic">>
      /\ <<"topic">> # <<"subscription", "topic">> /\ <<"subscription">> # <<"subscription", "topic">>
  BY <1>1
<1> QED
  BY <1>1, <1>2, <1>3, <1>4, <1>5, <1>6, <1>7, <1>8

\* What is known of each kit.
LEMMA Knowing ==
  /\ sCreated = <<>> => ~SetupKnows("topic") /\ ~SetupKnows("subscription")
  /\ sCreated = <<"topic">> => SetupKnows("topic") /\ ~SetupKnows("subscription")
  /\ sCreated = <<"subscription">> => ~SetupKnows("topic") /\ SetupKnows("subscription")
  /\ sCreated = <<"subscription", "topic">> => SetupKnows("topic") /\ SetupKnows("subscription")
  BY KitFacts DEF SetupKnows

LEMMA KnowingNext ==
  /\ sCreated' = <<>> => ~SetupKnows("topic")' /\ ~SetupKnows("subscription")'
  /\ sCreated' = <<"topic">> => SetupKnows("topic")' /\ ~SetupKnows("subscription")'
  /\ sCreated' = <<"subscription">> => ~SetupKnows("topic")' /\ SetupKnows("subscription")'
  /\ sCreated' = <<"subscription", "topic">> => SetupKnows("topic")' /\ SetupKnows("subscription")'
  BY KitFacts DEF SetupKnows

LEMMA SetupSets ==
  ASSUME SetupInv,
         \/ SetupNoProfile \/ SetupPolicy
         \/ SetupCreate("topic", IF sSetup # NoValue /\ sSetup.command = "watch" THEN "policy" ELSE "subscription")
         \/ SetupCreate("subscription", "feed")
  PROVE  SetupInv'
<1> USE OutcomeAssumption, SetupAssumption, KitFacts, Knowing, KnowingNext
    DEF SetupInv, SetupTypes, TopicAndSubscription, SetupCorrect, Ending, ExitCode, Kit, SetupError
<1>1. CASE SetupNoProfile
  <2>1. /\ sStep = "stream" /\ sStep' = "over" /\ sSetup' = sSetup /\ sCreated' = sCreated
        /\ sExists' = sExists /\ sStarted' = sStarted /\ sLeft' = sLeft /\ sDelete' = sDelete
        /\ sSetup.existing /\ sCreated = <<>> /\ sEnd' # "ok" /\ sSetup \in Setup
    BY <1>1 DEF SetupNoProfile
  <2> QED
    BY <2>1 DEF Standing, Deleting, NothingForgotten, UserTopicKept, FeedKeepsTopic, SubscriptionFirst
<1>2. ASSUME sStep \in {"topic", "policy", "subscription"},
             sStep' = "rollBack", sSetup' = sSetup, sCreated' = sCreated, sDelete' = sCreated,
             sError' \in SetupError, sStarted' = sStarted, sLeft' = sLeft, sEnd' = sEnd,
             sExists \subseteq sExists'
      PROVE  SetupInv'
  <2>1. sStarted = NoValue /\ \A r \in TopicAndSubscription : SetupKnows(r) => r \in sExists'
    BY <1>2 DEF Standing
  <2>2. sStarted' \notin {"started", "pending"}
    BY <1>2, <2>1 DEF FeedAnswer
  <2>3. Deleting'
    BY <1>2, <2>1, <2>2 DEF Deleting, Standing
  <2>4. SetupTypes' /\ Standing'
    BY <1>2 DEF Standing
  <2>5. UserTopicKept' /\ NothingForgotten' /\ FeedKeepsTopic'
    BY <1>2, <2>2 DEF UserTopicKept, NothingForgotten, FeedKeepsTopic
  <2>6. SubscriptionFirst'
    BY <1>2, <2>1 DEF SubscriptionFirst
  <2> QED
    BY <1>2, <2>3, <2>4, <2>5, <2>6
<1>3. CASE SetupPolicy
  <2>1. /\ sStep = "policy" /\ sCreated = <<"topic">> /\ sCreated' = sCreated /\ sSetup' = sSetup
        /\ sExists' = sExists /\ sStarted' = sStarted /\ sLeft' = sLeft /\ sEnd' = sEnd
    BY <1>3 DEF SetupPolicy, Standing
  <2>2. ASSUME sStep' = "subscription", sError' = sError, sDelete' = sDelete PROVE SetupInv'
    <3>1. SetupTypes' /\ Standing' /\ Deleting'
      BY <2>1, <2>2 DEF Standing, Deleting
    <3> QED
      BY <2>1, <2>2, <3>1 DEF NothingForgotten, UserTopicKept, FeedKeepsTopic, SubscriptionFirst
  <2> QED
    BY <1>2, <1>3, <2>1, <2>2 DEF SetupPolicy, SetupFails, RollBack
<1>4. ASSUME NEW resource \in TopicAndSubscription, NEW next, SetupCreate(resource, next),
             resource = "topic" => next \in {"policy", "subscription"},
             resource = "subscription" => next = "feed"
      PROVE  SetupInv'
  <2>1. /\ sStep = resource /\ sSetup' = sSetup /\ sStarted' = sStarted /\ sLeft' = sLeft /\ sEnd' = sEnd
        /\ ~sSetup.existing /\ sSetup \in Setup
    BY <1>4 DEF SetupCreate
  <2>2. ASSUME sExists' = sExists \cup {resource}, sCreated' = <<resource>> \o sCreated, sStep' = next,
               sDelete' = sDelete, sError' = sError
        PROVE  SetupInv'
    <3>1. /\ resource = "topic" => sCreated = <<>> /\ sCreated' = <<"topic">>
          /\ resource = "subscription" => /\ sCreated \in {<<>>, <<"topic">>}
                                          /\ sCreated' \in {<<"subscription">>, <<"subscription", "topic">>}
                                          /\ sCreated = <<>> => sCreated' = <<"subscription">>
      BY <2>1, <2>2 DEF Standing
    <3>2. \A r \in TopicAndSubscription : SetupKnows(r)' <=> r \in sExists'
      BY <2>1, <2>2, <3>1 DEF Standing
    <3>3. SetupTypes' /\ Standing' /\ Deleting'
      BY <1>4, <2>1, <2>2, <3>1, <3>2 DEF Standing, Deleting
    <3>4. sStarted' = NoValue /\ sStep' # "over"
      BY <1>4, <2>1, <2>2 DEF Standing
    <3> QED
      BY <2>1, <2>2, <3>2, <3>3, <3>4 DEF NothingForgotten, UserTopicKept, FeedKeepsTopic, SubscriptionFirst, FeedAnswer
  <2> QED
    BY <1>2, <1>4, <2>1, <2>2 DEF SetupCreate, SetupFails, RollBack
<1> QED
  BY <1>1, <1>3, <1>4

LEMMA SetupFeeds ==
  ASSUME SetupInv,
         \/ \E answer \in FeedAnswer : SetupFeed(answer)
         \/ \E e \in {NoValue, "network", "retryable", "api", "other"} : SetupStreamEnds(e)
  PROVE  SetupInv'
<1> USE OutcomeAssumption, SetupAssumption, KitFacts, Knowing, KnowingNext
    DEF SetupInv, SetupTypes, TopicAndSubscription, SetupCorrect, Ending, ExitCode, Kit, SetupError
<1>1. ASSUME NEW answer \in FeedAnswer, SetupFeed(answer) PROVE SetupInv'
  <2>1. /\ sStep = "feed" /\ sSetup' = sSetup /\ sCreated' = sCreated /\ sLeft' = sLeft
        /\ sStarted' = answer /\ sExists' \in {sExists, sExists \cup {"feed"}}
        /\ sSetup \in Setup /\ ~sSetup.existing /\ sEnd = NoValue /\ sError = NoValue
        /\ \A r \in TopicAndSubscription : SetupKnows(r) <=> r \in sExists'
        /\ sCreated \in {<<"subscription">>, <<"subscription", "topic">>}
    BY <1>1 DEF SetupFeed, Standing
  <2>2. ASSUME answer = "started", sStep' = "stream", sError' = sError, sDelete' = sDelete, sEnd' = sEnd
        PROVE  SetupInv'
    <3>1. SetupTypes' /\ Standing' /\ Deleting'
      BY <2>1, <2>2 DEF Standing, Deleting
    <3> QED
      BY <2>1, <2>2, <3>1 DEF NothingForgotten, UserTopicKept, FeedKeepsTopic, SubscriptionFirst
  <2>3. ASSUME answer = "pending", sStep' = "over", sEnd' = "other", sDelete' = sDelete
        PROVE  SetupInv'
    BY <2>1, <2>3 DEF Standing, Deleting, NothingForgotten, UserTopicKept, FeedKeepsTopic, SubscriptionFirst
  <2>4. ASSUME answer \notin {"started", "pending"}, sStep' = "rollBack", sDelete' = sCreated,
               sError' \in SetupError, sEnd' = sEnd
        PROVE  SetupInv'
    <3>1. SetupTypes' /\ Standing' /\ Deleting'
      BY <2>1, <2>4 DEF Standing, Deleting
    <3> QED
      BY <2>1, <2>4, <3>1 DEF NothingForgotten, UserTopicKept, FeedKeepsTopic, SubscriptionFirst
  <2> QED
    BY <1>1, <2>1, <2>2, <2>3, <2>4 DEF SetupFeed, SetupFails, RollBack
<1>2. ASSUME NEW e \in {NoValue, "network", "retryable", "api", "other"}, SetupStreamEnds(e)
      PROVE  SetupInv'
  <2>1. /\ sStep = "stream" /\ sSetup' = sSetup /\ sCreated' = sCreated /\ sLeft' = sLeft
        /\ sStarted' = sStarted /\ sExists' = sExists /\ sError' = e
        /\ sSetup \in Setup /\ sEnd = NoValue
        /\ \A r \in TopicAndSubscription : SetupKnows(r) <=> r \in sExists'
        /\ sStarted = "started" \/ (sSetup.existing /\ sCreated = <<>>)
    BY <1>2 DEF SetupStreamEnds, Standing
  <2>2. ASSUME sSetup.cleanup, ~sSetup.existing, sStep' = "cleanUp", sDelete' = sCreated, sEnd' = sEnd
        PROVE  SetupInv'
    <3>1. SetupTypes' /\ Standing' /\ Deleting'
      BY <2>1, <2>2 DEF Standing, Deleting
    <3> QED
      BY <2>1, <2>2, <3>1 DEF NothingForgotten, UserTopicKept, FeedKeepsTopic, SubscriptionFirst
  <2>3. ASSUME ~(sSetup.cleanup /\ ~sSetup.existing), sStep' = "over", sDelete' = sDelete PROVE SetupInv'
    <3>1. sSetup.cleanup => sCreated = <<>>
      BY <2>1, <2>3
    <3> QED
      BY <2>1, <2>3, <3>1 DEF Standing, Deleting, NothingForgotten, UserTopicKept, FeedKeepsTopic, SubscriptionFirst
  <2> QED
    BY <1>2, <2>2, <2>3 DEF SetupStreamEnds, Cleanup
<1> QED
  BY <1>1, <1>2

LEMMA SetupDeletes ==
  ASSUME SetupInv, SetupDelete \/ SetupDeleted
  PROVE  SetupInv'
<1> USE OutcomeAssumption, SetupAssumption, KitFacts, Knowing, KnowingNext
    DEF SetupInv, SetupTypes, TopicAndSubscription, SetupCorrect, Ending, ExitCode, Kit, SetupError
<1>1. CASE SetupDelete
  <2> DEFINE r == Head(sDelete)
  <2>1. /\ sStep \in {"rollBack", "cleanUp"} /\ sStep' = sStep /\ sSetup' = sSetup /\ sCreated' = sCreated
        /\ sStarted' = sStarted /\ sError' = sError /\ sEnd' = sEnd
        /\ sDelete # <<>> /\ sDelete' = Tail(sDelete) /\ r \in TopicAndSubscription
        /\ sExists' \in {sExists, sExists \ {r}} /\ sLeft \subseteq sLeft'
        /\ r \notin sExists' \/ r \in sLeft'
    BY <1>1 DEF SetupDelete
  <2>2. /\ sDelete = <<"subscription", "topic">> =>
             sDelete' = <<"topic">> /\ r = "subscription" /\ sCreated = <<"subscription", "topic">>
        /\ sDelete = <<"topic">> => sDelete' = <<>> /\ r = "topic"
        /\ sDelete = <<"subscription">> => sDelete' = <<>> /\ r = "subscription" /\ sCreated = sDelete
    BY <2>1 DEF Deleting
  <2> HIDE DEF r
  <2>3. Deleting'
    <3>1. \A q \in TopicAndSubscription :
            SetupKnows(q)' => (\E i \in DOMAIN sDelete' : sDelete'[i] = q) \/ q \notin sExists' \/ q \in sLeft'
      BY <2>1, <2>2 DEF Deleting, SetupKnows
    <3>2. sDelete' \notin {<<"subscription", "topic">>, <<"subscription">>}
      BY <2>1, <2>2
    <3>3. sStep = "cleanUp" => \A q \in TopicAndSubscription : q \in sExists' => SetupKnows(q)'
      BY <2>1 DEF Deleting, SetupKnows
    <3> QED
      BY <2>1, <3>1, <3>2, <3>3 DEF Deleting
  <2>4. SetupTypes' /\ Standing'
    BY <2>1, <2>2 DEF Standing
  <2>5. SubscriptionFirst'
    <3>1. CASE sDelete = <<"subscription", "topic">>
      BY <2>1, <2>2, <3>1 DEF SubscriptionFirst, Deleting
    <3>2. CASE sDelete = <<"topic">>
      <4>1. SetupKnows("subscription") => "subscription" \notin sExists \/ "subscription" \in sLeft
        BY <2>1, <3>2 DEF Deleting
      <4> QED
        BY <2>1, <4>1 DEF SubscriptionFirst
    <3>3. CASE sDelete = <<"subscription">>
      BY <2>1, <2>2, <3>3 DEF SubscriptionFirst
    <3> QED
      BY <2>1, <3>1, <3>2, <3>3
  <2>6. FeedKeepsTopic' /\ UserTopicKept' /\ NothingForgotten'
    BY <2>1 DEF FeedKeepsTopic, UserTopicKept, NothingForgotten, Deleting
  <2> QED
    BY <2>1, <2>3, <2>4, <2>5, <2>6
<1>2. CASE SetupDeleted
  <2>1. /\ sStep \in {"rollBack", "cleanUp"} /\ sStep' = "over" /\ sSetup' = sSetup /\ sCreated' = sCreated
        /\ sStarted' = sStarted /\ sError' = sError /\ sDelete' = sDelete /\ sExists' = sExists
        /\ sLeft' = sLeft /\ sDelete = <<>>
    BY <1>2 DEF SetupDeleted
  <2>2. \A q \in TopicAndSubscription : SetupKnows(q) => q \notin sExists \/ q \in sLeft
    BY <2>1 DEF Deleting
  <2>3. sEnd' = "ok" => sStep = "cleanUp" /\ sLeft = {}
    BY <1>2, <2>1 DEF SetupDeleted, Deleting
  <2>4. sEnd' = "ok" => \A q \in TopicAndSubscription : q \notin sExists
    BY <2>1, <2>2, <2>3 DEF Deleting
  <2>5. NothingForgotten'
    BY <2>1, <2>2, <2>4 DEF NothingForgotten, SetupKnows
  <2> QED
    BY <2>1, <2>5 DEF Standing, Deleting, FeedKeepsTopic, UserTopicKept, SubscriptionFirst
<1> QED
  BY <1>1, <1>2

LEMMA SetupInvStep == SetupInv /\ [SetupNext]_setupVars => SetupInv'
<1> SUFFICES ASSUME SetupInv, [SetupNext]_setupVars PROVE SetupInv'
  OBVIOUS
<1>1. ASSUME NEW s \in Setup, SetupStart(s) PROVE SetupInv'
  <2>1. /\ sStep = "off" /\ sStep' \in {"stream", "subscription", "topic"} /\ sSetup' = s
        /\ sStep' = "stream" <=> s.existing
        /\ UNCHANGED <<sExists, sCreated, sDelete, sLeft, sStarted, sError, sEnd>>
        /\ s.existing \in BOOLEAN /\ sCreated = <<>> /\ sStarted = NoValue
    BY <1>1 DEF SetupStart, Setup, SetupInv, Standing
  <2> QED
    BY <2>1, KitFacts, Knowing, KnowingNext, SetupAssumption
       DEF SetupInv, SetupTypes, Standing, Deleting, SetupCorrect, Kit, NothingForgotten, UserTopicKept,
           FeedKeepsTopic, SubscriptionFirst, TopicAndSubscription, FeedAnswer
<1>2. CASE UNCHANGED setupVars
  BY <1>2 DEF setupVars, SetupInv, SetupTypes, Standing, Deleting, SetupCorrect, NothingForgotten,
     UserTopicKept, FeedKeepsTopic, SubscriptionFirst, SetupKnows
<1> QED
  BY <1>1, <1>2, SetupSets, SetupFeeds, SetupDeletes DEF SetupNext, SetupBegin, SetupStepTaken

LEMMA SetupBegins == SetupInit => SetupInv
  BY KitFacts, Knowing, SetupAssumption
     DEF SetupInit, SetupInv, SetupTypes, Standing, Deleting, SetupCorrect, Kit, NothingForgotten,
         UserTopicKept, FeedKeepsTopic, SubscriptionFirst, TopicAndSubscription, FeedAnswer

-----------------------------------------------------------------------------
\* auth setup.

WizardTypes ==
  /\ zStage \in {"off", "gcloud", "account", "project", "create", "apis", "oauth", "id",
                 "secret", "finish", "over"}
  /\ zStage = "off" => zOpts = NoValue /\ zClient = NoValue /\ ~zChanged
  /\ zStage # "off" =>
       /\ zOpts \in WizardOptions /\ (zOpts.dryRun => ~zOpts.interactive)
       /\ zGcloud \in GcloudConfig /\ zClient \in SavedClient \cup {NoValue}
       /\ zClient = zFirst.client /\ zClient # NoValue => zClient.project \in {zClient.of, NoValue}
       /\ zOpts.project \in MaybeProject
  /\ zStage # "over" => zStatus = NoValue

\* What gcloud is set to agrees with what the wizard goes by, stage for stage.
Agreed ==
  /\ zStage \in {"project", "create", "apis", "oauth", "id", "secret", "finish"} =>
       zGcloud.account = zAccount
  /\ zStage \in {"apis", "oauth", "id", "secret", "finish"} =>
       zProject \in CloudProject /\ (~zOpts.dryRun => zGcloud.project = zProject)
  /\ zStage \in {"oauth", "id", "secret", "finish"} /\ ~zOpts.dryRun => zEnabledIn = zProject
  /\ zStage = "finish" /\ ~zManual /\ ~zOpts.dryRun =>
       zClient # NoValue /\ zClient.project \in {zProject, NoValue}

\* The client ID entered is one of the project, or one that was saved without a project.
TypedWhose ==
  zStage = "secret" =>
    /\ zTyped \in CloudProject
    /\ zTyped = zProject \/ (zClient # NoValue /\ zClient.project = NoValue)

\* A dry run asks nothing.
DryRunAsksNothing ==
  zOpts # NoValue /\ zOpts.dryRun => zStage \notin {"create", "oauth", "id", "secret"}

WizardInv ==
  /\ WizardTypes /\ Agreed /\ TypedWhose /\ DryRunAsksNothing
  /\ OneProject /\ ClientOfItsProject /\ DryRunKeeps

LEMMA WizardInvStep == WizardInv /\ [WizardNext]_wizardVars => WizardInv'
<1> SUFFICES ASSUME WizardInv, [WizardNext]_wizardVars PROVE WizardInv'
  OBVIOUS
<1> USE WizardAssumption DEF WizardInv, SetupStatus
<1>1. ASSUME NEW opts \in WizardOptions, NEW given \in GcloudConfig, NEW client \in SavedClient \cup {NoValue},
             WizardBegin(opts, given, client)
      PROVE  WizardInv'
  <2>1. /\ zStage = "off" /\ zStage' = "gcloud" /\ zOpts' = opts /\ zGcloud' = given /\ zClient' = client
        /\ zFirst'.client = client /\ zFirst'.gcloud = given /\ zStatus' = zStatus /\ zChanged' = zChanged
        /\ opts.dryRun => ~opts.interactive
        /\ client # NoValue => client.project \in {client.of, NoValue}
    BY <1>1 DEF WizardBegin
  <2>2. opts.project \in MaybeProject
    BY DEF WizardOptions
  <2> QED
    BY <2>1, <2>2
       DEF WizardTypes, Agreed, TypedWhose, DryRunAsksNothing, OneProject, ClientOfItsProject, DryRunKeeps
<1>2. CASE WizardGcloud
  <2>1. /\ zStage = "gcloud" /\ zStage' \in {"account", "over"}
        /\ UNCHANGED <<zOpts, zGcloud, zAccount, zProject, zEnabledIn, zManual, zTyped, zClient, zFirst, zChanged, zStatus>>
    BY <1>2 DEF WizardGcloud, WizardGoes, WizardEnds, GcloudFails
  <2> QED
    BY <2>1 DEF WizardTypes, Agreed, TypedWhose, DryRunAsksNothing, OneProject, ClientOfItsProject, DryRunKeeps
<1>3. CASE WizardAccount
  <2>1. /\ zStage = "account"
        /\ UNCHANGED <<zOpts, zProject, zEnabledIn, zManual, zTyped, zClient, zFirst, zChanged, zStatus>>
    BY <1>3 DEF WizardAccount
  <2>2. ASSUME zStage' \in {"gcloud", "over"}, zGcloud' = zGcloud PROVE WizardInv'
    BY <2>1, <2>2 DEF WizardTypes, Agreed, TypedWhose, DryRunAsksNothing, OneProject, ClientOfItsProject, DryRunKeeps
  <2>3. ASSUME zStage' = "project", zGcloud' = zGcloud, zAccount' = zGcloud.account PROVE WizardInv'
    BY <2>1, <2>3 DEF WizardTypes, Agreed, TypedWhose, DryRunAsksNothing, OneProject, ClientOfItsProject, DryRunKeeps
  <2>4. ASSUME NEW account \in CloudAccount, zGcloud' = [zGcloud EXCEPT !.account = account],
               zAccount' = account, zStage' = "project", ~zOpts.dryRun
        PROVE  WizardInv'
    <3>1. zGcloud' \in GcloudConfig /\ zGcloud'.account = account
      BY <2>1, <2>4 DEF WizardTypes, GcloudConfig
    <3> QED
      BY <2>1, <2>4, <3>1
         DEF WizardTypes, Agreed, TypedWhose, DryRunAsksNothing, OneProject, ClientOfItsProject, DryRunKeeps
  <2>5. zOpts.interactive => ~zOpts.dryRun
    BY <2>1 DEF WizardTypes
  <2> QED
    BY <1>3, <2>2, <2>3, <2>4, <2>5 DEF WizardAccount, WizardGoes, WizardEnds, BackTo, Cancels, GcloudFails
<1>u. ASSUME NEW project \in CloudProject, UseProject(project), ~zOpts.dryRun,
             zStage \in {"project", "create"},
             zChanged' \in {zChanged, TRUE},
             UNCHANGED <<zOpts, zAccount, zEnabledIn, zManual, zTyped, zClient, zFirst, zStatus>>
      PROVE  WizardInv'
  <2>1. zGcloud' \in GcloudConfig /\ zGcloud'.project = project /\ zGcloud'.account = zGcloud.account
    BY <1>u DEF UseProject, WizardTypes, GcloudConfig, MaybeProject
  <2> QED
    BY <1>u, <2>1 DEF UseProject, WizardGoes, WizardTypes, Agreed, TypedWhose, DryRunAsksNothing, OneProject,
       ClientOfItsProject, DryRunKeeps
<1>4. CASE WizardProject
  <2>1. /\ zStage = "project" /\ zOpts.project \in MaybeProject /\ zGcloud \in GcloudConfig
        /\ UNCHANGED <<zOpts, zAccount, zEnabledIn, zManual, zTyped, zClient, zFirst, zChanged, zStatus>>
    BY <1>4 DEF WizardProject, WizardTypes
  <2>2. zGcloud.project \in MaybeProject
    BY <2>1 DEF GcloudConfig
  <2>3. ASSUME zStage' = "apis", zGcloud' = zGcloud, zProject' \in CloudProject,
               zOpts.dryRun \/ zProject' = zGcloud.project
        PROVE  WizardInv'
    BY <2>1, <2>3
       DEF WizardTypes, Agreed, TypedWhose, DryRunAsksNothing, OneProject, ClientOfItsProject, DryRunKeeps
  <2>4. ASSUME zStage' \in {"account", "project", "create", "over"}, zStage' = "create" => zOpts.interactive,
               zGcloud' = zGcloud, zProject' = zProject
        PROVE  WizardInv'
    BY <2>1, <2>4
       DEF WizardTypes, Agreed, TypedWhose, DryRunAsksNothing, OneProject, ClientOfItsProject, DryRunKeeps
  <2>5. zOpts.interactive => ~zOpts.dryRun
    BY <2>1 DEF WizardTypes
  <2>6. ASSUME zOpts.project # NoValue, SetsProject, UseProject(zOpts.project) PROVE WizardInv'
    BY <1>u, <2>1, <2>6 DEF SetsProject, MaybeProject
  <2>7. ASSUME zOpts.project # NoValue, ~SetsProject, zProject' = zOpts.project, WizardGoes("apis"),
               UNCHANGED zGcloud
        PROVE  WizardInv'
    BY <2>1, <2>3, <2>7 DEF SetsProject, MaybeProject, WizardGoes
  <2>8. ASSUME zOpts.project = NoValue, ~zOpts.interactive, UNCHANGED zGcloud,
               IF zGcloud.project = NoValue THEN WizardEnds("validation") /\ UNCHANGED zProject
               ELSE zProject' = zGcloud.project /\ WizardGoes("apis")
        PROVE  WizardInv'
    BY <2>2, <2>3, <2>4, <2>8 DEF MaybeProject, WizardGoes, WizardEnds
  <2>9. ASSUME zOpts.interactive, NEW project \in CloudProject, UseProject(project) PROVE WizardInv'
    BY <1>u, <2>1, <2>5, <2>9
  <2> QED
    BY <1>4, <2>4, <2>6, <2>7, <2>8, <2>9
       DEF WizardProject, WizardGoes, WizardEnds, BackTo, Cancels, GcloudFails
<1>5. CASE WizardCreate
  <2>1. /\ zStage = "create" /\ ~zOpts.dryRun
        /\ UNCHANGED <<zOpts, zAccount, zEnabledIn, zManual, zTyped, zClient, zFirst, zStatus>>
    BY <1>5 DEF WizardCreate, WizardTypes, DryRunAsksNothing
  <2>2. ASSUME zStage' \in {"create", "project", "over"}, zGcloud' = zGcloud, zProject' = zProject PROVE WizardInv'
    BY <2>1, <2>2
       DEF WizardTypes, Agreed, TypedWhose, DryRunAsksNothing, OneProject, ClientOfItsProject, DryRunKeeps
  <2> QED
    BY <1>5, <1>u, <2>1, <2>2 DEF WizardCreate, WizardGoes, WizardEnds, BackTo, Cancels, GcloudFails
<1>6. CASE WizardApis
  <2>1. /\ zStage = "apis"
        /\ UNCHANGED <<zOpts, zGcloud, zAccount, zProject, zManual, zTyped, zClient, zFirst, zStatus>>
    BY <1>6 DEF WizardApis
  <2>2. \/ zStage' = "finish" /\ zOpts.dryRun /\ UNCHANGED <<zEnabledIn, zChanged>>
        \/ zStage' = "oauth" /\ ~zOpts.dryRun /\ zEnabledIn' = zProject
        \/ zStage' \in {"project", "over"} /\ UNCHANGED <<zEnabledIn, zChanged>>
    BY <1>6 DEF WizardApis, WizardGoes, WizardEnds, BackTo, Cancels, GcloudFails
  <2> QED
    BY <2>1, <2>2
       DEF WizardTypes, Agreed, TypedWhose, DryRunAsksNothing, OneProject, ClientOfItsProject, DryRunKeeps
<1>7. CASE WizardOauth
  <2>1. /\ zStage = "oauth" /\ ~zOpts.dryRun
        /\ UNCHANGED <<zOpts, zGcloud, zAccount, zProject, zEnabledIn, zTyped, zClient, zFirst, zStatus>>
    BY <1>7 DEF WizardOauth, WizardTypes, DryRunAsksNothing
  <2>2. \/ zStage' = "over"
        \/ zStage' = "id"
        \/ zStage' = "finish" /\ zManual' = ClientStepsNeeded
    BY <1>7 DEF WizardOauth, WizardGoes, WizardEnds
  <2> QED
    BY <2>1, <2>2 DEF ClientStepsNeeded, WizardTypes, Agreed, TypedWhose, DryRunAsksNothing, OneProject,
       ClientOfItsProject, DryRunKeeps
<1>8. CASE WizardClientId
  <2>1. /\ zStage = "id" /\ ~zOpts.dryRun
        /\ UNCHANGED <<zOpts, zGcloud, zAccount, zProject, zEnabledIn, zManual, zClient, zFirst, zChanged, zStatus>>
    BY <1>8 DEF WizardClientId, WizardTypes, DryRunAsksNothing
  <2>2. \/ zStage' = "secret" /\ zTyped' \in {zProject, Prefill} /\ zTyped' # NoValue
        \/ zStage' \in {"apis", "over"} /\ zTyped' = zTyped
    BY <1>8 DEF WizardClientId, WizardGoes, WizardEnds, BackTo
  <2>3. zClient = zFirst.client
    BY <2>1 DEF ClientOfItsProject
  <2>4. Prefill # NoValue =>
          /\ Prefill \in CloudProject
          /\ Prefill = zProject \/ (zClient # NoValue /\ zClient.project = NoValue)
    BY <2>1, <2>3 DEF Prefill, WizardTypes, SavedClient
  <2>5. TypedWhose'
    BY <2>1, <2>2, <2>4 DEF TypedWhose, Agreed
  <2> QED
    BY <2>1, <2>2, <2>5 DEF WizardTypes, Agreed, DryRunAsksNothing, OneProject, ClientOfItsProject, DryRunKeeps
<1>9. CASE WizardSecret
  <2>1. /\ zStage = "secret" /\ ~zOpts.dryRun
        /\ UNCHANGED <<zOpts, zGcloud, zAccount, zProject, zEnabledIn, zManual, zTyped, zFirst, zChanged, zStatus>>
    BY <1>9 DEF WizardSecret, WizardTypes, DryRunAsksNothing
  <2>2. ASSUME zStage' = "finish", zClient' = [of |-> zTyped, project |-> zProject] PROVE WizardInv'
    <3>1. /\ zTyped \in CloudProject /\ zProject \in CloudProject /\ zClient = zFirst.client
          /\ zTyped = zProject \/ (zClient # NoValue /\ zClient.project = NoValue)
      BY <2>1 DEF Agreed, TypedWhose, ClientOfItsProject
    <3>2. /\ zClient' \in SavedClient /\ zClient'.of = zTyped /\ zClient'.project = zProject
          /\ zClient' # NoValue
      BY <2>2, <3>1 DEF SavedClient, MaybeProject
    <3>3. WizardTypes'
      BY <2>1, <2>2, <3>1, <3>2 DEF WizardTypes
    <3> QED
      BY <2>1, <2>2, <3>1, <3>2, <3>3
         DEF Agreed, TypedWhose, DryRunAsksNothing, OneProject, ClientOfItsProject, DryRunKeeps
  <2>3. ASSUME zStage' \in {"apis", "over"}, zClient' = zClient PROVE WizardInv'
    BY <2>1, <2>3
       DEF WizardTypes, Agreed, TypedWhose, DryRunAsksNothing, OneProject, ClientOfItsProject, DryRunKeeps
  <2> QED
    BY <1>9, <2>2, <2>3 DEF WizardSecret, WizardGoes, WizardEnds, BackTo
<1>10. CASE WizardFinish
  <2>1. /\ zStage = "finish" /\ zStage' = "over"
        /\ UNCHANGED <<zOpts, zGcloud, zAccount, zProject, zEnabledIn, zManual, zTyped, zClient, zFirst, zChanged>>
        /\ \/ zStatus' = zStatus
           \/ zStatus' = IF zOpts.dryRun THEN "dry_run" ELSE IF zManual THEN "action_required" ELSE "success"
    BY <1>10 DEF WizardFinish, WizardEnds
  <2> QED
    BY <2>1 DEF WizardTypes, Agreed, TypedWhose, DryRunAsksNothing, OneProject, ClientOfItsProject, DryRunKeeps
<1>11. CASE UNCHANGED wizardVars
  BY <1>11 DEF wizardVars, WizardTypes, Agreed, TypedWhose, DryRunAsksNothing, OneProject,
     ClientOfItsProject, DryRunKeeps
<1> QED
  BY <1>1, <1>2, <1>3, <1>4, <1>5, <1>6, <1>7, <1>8, <1>9, <1>10, <1>11 DEF WizardNext

LEMMA WizardBegins == WizardInit => WizardInv
  BY WizardAssumption DEF WizardInit, WizardInv, WizardTypes, Agreed, TypedWhose, DryRunAsksNothing, OneProject,
     ClientOfItsProject, DryRunKeeps, SetupStatus

\* Where the project cannot change on the way, it is the one of --project, or chosen
\* before there is a note.
NoteInv ==
  /\ zStage = "off" => zNote = NoValue /\ zProject = NoValue
  /\ zStage = "create" => zOpts.interactive /\ zOpts.project = NoValue
  /\ zStage \in {"gcloud", "account", "project"} => zOpts.interactive \/ zNote = NoValue
  /\ zStage # "off" => zOpts.project = NoValue \/ zProject \in {zOpts.project, NoValue}
  /\ NoteOfItsProject

LEMMA NoteInvStep == NoteInv /\ [WizardNext]_wizardVars => NoteInv'
<1> SUFFICES ASSUME NoteInv, [WizardNext]_wizardVars PROVE NoteInv'
  OBVIOUS
<1> USE DEF NoteInv, NoteOfItsProject, WizardGoes, WizardEnds
<1>1. ASSUME NEW opts, NEW given, NEW client, WizardBegin(opts, given, client) PROVE NoteInv'
  BY <1>1 DEF WizardBegin
<1>2. CASE WizardGcloud \/ WizardAccount
  <2>1. /\ zStage \in {"gcloud", "account"} /\ zStage' \in {"gcloud", "account", "project", "over"}
        /\ UNCHANGED <<zNote, zOpts, zProject>>
    BY <1>2 DEF WizardGcloud, WizardAccount, BackTo, Cancels, GcloudFails
  <2> QED
    BY <2>1
<1>3. CASE WizardProject
  <2>1. zStage = "project" /\ UNCHANGED <<zNote, zOpts>>
    BY <1>3 DEF WizardProject
  <2>2. \/ zStage' = "apis" /\ zOpts.project # NoValue /\ zProject' = zOpts.project
        \/ zStage' = "apis" /\ zOpts.project = NoValue
        \/ zStage' = "create" /\ zOpts.project = NoValue /\ zOpts.interactive /\ zProject' = zProject
        \/ zStage' \in {"account", "project", "over"} /\ zProject' = zProject
    BY <1>3 DEF WizardProject, UseProject, BackTo, Cancels, GcloudFails
  <2> QED
    BY <2>1, <2>2
<1>4. CASE WizardCreate
  <2>1. zStage = "create" /\ UNCHANGED <<zNote, zOpts>> /\ zStage' \in {"apis", "create", "project", "over"}
    BY <1>4 DEF WizardCreate, UseProject, BackTo, Cancels, GcloudFails
  <2> QED
    BY <2>1
<1>5. CASE WizardApis \/ WizardClientId \/ WizardSecret
  <2>1. /\ zStage \in {"apis", "id", "secret"} /\ UNCHANGED <<zNote, zOpts, zProject>>
        /\ zStage' \in {"finish", "oauth", "apis", "secret", "over"} \/ (zStage' = "project" /\ zOpts.interactive)
    BY <1>5 DEF WizardApis, WizardClientId, WizardSecret, BackTo, Cancels, GcloudFails
  <2> QED
    BY <2>1
<1>6. CASE WizardOauth
  <2>1. /\ zStage = "oauth" /\ UNCHANGED <<zOpts, zProject>> /\ zNote' \in {zNote, zProject}
        /\ zStage' \in {"id", "finish", "over"}
    BY <1>6 DEF WizardOauth
  <2> QED
    BY <2>1
<1>7. CASE WizardFinish
  BY <1>7 DEF WizardFinish
<1>8. CASE UNCHANGED wizardVars
  BY <1>8 DEF wizardVars
<1> QED
  BY <1>1, <1>2, <1>3, <1>4, <1>5, <1>6, <1>7, <1>8 DEF WizardNext

LEMMA NoteBegins == WizardInit => NoteInv
  BY DEF WizardInit, NoteInv, NoteOfItsProject

-----------------------------------------------------------------------------
\* Sets of numbers have a least element.

LEMMA LeastOf ==
  ASSUME NEW S, S \subseteq Nat, S # {}
  PROVE  Min(S) \in S /\ \A y \in S : Min(S) <= y
<1> DEFINE less == {p \in Nat \X Nat : p[1] < p[2]}
<1>1. IsWellFoundedOn(less, Nat)
  BY NatLessThanWellFounded DEF OpToRel
<1> HIDE DEF less
<1>2. PICK x \in S : \A y \in S : ~(<<y, x>> \in less)
  BY <1>1, WFMin
<1>3. \A y \in S : ~(y < x)
  BY <1>2 DEF less
<1>4. \A y \in S : x <= y
  BY <1>3
<1> QED
  BY <1>4 DEF Min

-----------------------------------------------------------------------------
\* The scopes of a login (auth login), and the one a method is called with.

LEMMA KnownScopes ==
  KnownScope = {<<"drive">>, <<"drive", "file">>, <<"drive", "readonly">>, <<"gmail", "metadata">>,
                <<"gmail", "modify">>, <<"gmail", "readonly">>, <<"gmail", "settings", "basic">>,
                <<"chat", "bot">>, <<"chat", "messages">>, <<"chat", "messages", "readonly">>,
                <<"admin", "user">>, <<"pubsub">>, <<"cloud-platform">>}
  BY DEF KnownScope, Preset, DocumentScopes, Platform

LEMMA ReadOnlyScopes ==
  ASSUME NEW s \in KnownScope
  PROVE  ReadOnly(s) <=> s \in {<<"drive", "readonly">>, <<"gmail", "readonly">>, <<"chat", "messages", "readonly">>}
  BY KnownScopes DEF ReadOnly, Last

ScopeWord ==
  {"drive", "file", "readonly", "gmail", "metadata", "modify", "settings", "basic", "chat", "bot",
   "messages", "admin", "user", "pubsub", "cloud-platform"}

LEMMA ScopeLengths == ASSUME NEW s \in KnownScope PROVE s \in Seq(ScopeWord) /\ Len(s) \in 1..3
<1>1. ASSUME NEW a \in ScopeWord, NEW b \in ScopeWord, NEW c \in ScopeWord
      PROVE  <<a>> \in Seq(ScopeWord) /\ <<a, b>> \in Seq(ScopeWord) /\ <<a, b, c>> \in Seq(ScopeWord)
  OBVIOUS
<1>2. {<<"drive">>, <<"pubsub">>, <<"cloud-platform">>} \subseteq Seq(ScopeWord)
  BY <1>1 DEF ScopeWord
<1>3. {<<"drive", "file">>, <<"drive", "readonly">>, <<"gmail", "metadata">>, <<"gmail", "modify">>,
       <<"gmail", "readonly">>, <<"chat", "bot">>, <<"chat", "messages">>, <<"admin", "user">>} \subseteq Seq(ScopeWord)
  BY <1>1 DEF ScopeWord
<1>4. {<<"gmail", "settings", "basic">>, <<"chat", "messages", "readonly">>} \subseteq Seq(ScopeWord)
  BY <1>1 DEF ScopeWord
<1>5. s \in Seq(ScopeWord)
  BY <1>2, <1>3, <1>4, KnownScopes
<1>6. Len(s) \in 1..3
  BY KnownScopes
<1> QED
  BY <1>5, <1>6

LEMMA FrontOf ==
  ASSUME NEW S, NEW s \in Seq(S), Len(s) > 1
  PROVE  /\ Len(Front(s)) = Len(s) - 1
         /\ IsStrictPrefix(Front(s), s)
         /\ Append(Front(s), Last(s)) = s
<1>1. /\ Front(s) \in Seq(S) /\ Len(Front(s)) = Len(s) - 1
      /\ \A i \in 1..(Len(s) - 1) : Front(s)[i] = s[i]
  BY SubSeqProperties DEF Front
<1>2. SubSeq(Front(s), 1, Len(Front(s))) = Front(s)
  BY <1>1, SubSeqFull
<1>3. IsStrictPrefix(Front(s), s)
  BY <1>1, <1>2 DEF Front, IsStrictPrefix, IsPrefix
<1>4. Last(s) \in S
  BY DEF Last
<1>5. /\ Append(Front(s), Last(s)) \in Seq(S) /\ Len(Append(Front(s), Last(s))) = Len(s)
      /\ \A i \in 1..Len(s) : Append(Front(s), Last(s))[i] = s[i]
  BY <1>1, <1>4 DEF Last
<1>6. Append(Front(s), Last(s)) = s
  BY <1>5, SeqEqual
<1> QED
  BY <1>1, <1>3, <1>6

LEMMA Sections ==
  ASSUME NEW s \in KnownScope
  PROVE  Head(s) = s[1]
  BY KnownScopes 

LEMMA CoversOrder ==
  ASSUME NEW s \in KnownScope, NEW t \in KnownScope, IsStrictPrefix(s, t)
  PROVE  Len(s) < Len(t) /\ \A i \in 1..Len(s) : s[i] = t[i]
  BY ScopeLengths DEF IsStrictPrefix, IsPrefix

LEMMA CoversAgain ==
  ASSUME NEW s \in KnownScope, NEW t \in KnownScope, NEW u \in KnownScope,
         IsStrictPrefix(s, t), IsStrictPrefix(t, u)
  PROVE  IsStrictPrefix(s, u)
  BY ScopeLengths DEF IsStrictPrefix, IsPrefix

LEMMA MetadataCoversNone ==
  ASSUME NEW t \in KnownScope
  PROVE  ~IsStrictPrefix(<<"gmail", "metadata">>, t)
  BY KnownScopes, CoversOrder

LEMMA ReadOnlyFronts ==
  ASSUME NEW s \in KnownScope, ReadOnly(s)
  PROVE  /\ Len(Front(s)) = Len(s) - 1
         /\ IsStrictPrefix(Front(s), s)
         /\ Append(Front(s), "readonly") = s
<1>0. s \in Seq(ScopeWord)
  BY ScopeLengths
<1>1. Len(s) > 1
  BY ReadOnlyScopes
<1>2. Last(s) = "readonly"
  BY DEF ReadOnly
<1> QED
  BY <1>0, <1>1, <1>2, FrontOf

\* None ends in readonly twice.
LEMMA ReadOnlyOnce ==
  ASSUME NEW s \in KnownScope, NEW t \in KnownScope, ReadOnly(s), Front(s) = t
  PROVE  ~ReadOnly(t)
<1> SUFFICES ASSUME ReadOnly(t) PROVE FALSE
  OBVIOUS
<1>1. IsStrictPrefix(t, s) /\ Len(t) = Len(s) - 1
  BY ReadOnlyFronts
<1>2. Len(t) >= 2
  BY ReadOnlyScopes
<1>3. t[1] = s[1] /\ t[2] = s[2]
  BY <1>1, <1>2, CoversOrder
<1> QED
  BY <1>1, <1>2, <1>3, ReadOnlyScopes


\* What covers a ticked scope is covered, in the end, by one that nothing covers.
LEMMA CoveredByChosen ==
  ASSUME NEW T \in SUBSET KnownScope, NEW s \in T, Subsumed(s, T)
  PROVE  \E m \in T : IsStrictPrefix(m, s) /\ ~Subsumed(m, T)
<1>1. PICK m \in T : IsStrictPrefix(m, s)
  BY DEF Subsumed
<1>2. CASE ~Subsumed(m, T)
  BY <1>1, <1>2
<1>3. CASE Subsumed(m, T)
  <2>1. PICK n \in T : IsStrictPrefix(n, m)
    BY <1>3 DEF Subsumed
  <2>2. Len(n) = 1
    BY <1>1, <2>1, CoversOrder, ScopeLengths
  <2>3. ~Subsumed(n, T)
    <3> SUFFICES ASSUME NEW o \in T, IsStrictPrefix(o, n) PROVE FALSE
      BY DEF Subsumed
    <3> QED
      BY <2>2, CoversOrder, ScopeLengths
  <2> QED
    BY <1>1, <2>1, <2>3, CoversAgain
<1> QED
  BY <1>2, <1>3

LEMMA KnownParts ==
  /\ \A v \in DOMAIN DocumentScopes : DocumentScopes[v] \subseteq KnownScope
  /\ \A p \in DOMAIN Preset : Preset[p] \subseteq KnownScope
  /\ EventsRead \cup EventsWrite \subseteq KnownScope
<1>1. \A v \in DOMAIN DocumentScopes : DocumentScopes[v] \subseteq KnownScope
  BY DEF KnownScope
<1>2. \A p \in DOMAIN Preset : Preset[p] \subseteq KnownScope
  BY DEF KnownScope
<1>3. EventsRead \cup EventsWrite \subseteq KnownScope
  BY KnownScopes DEF EventsRead, EventsWrite
<1> QED
  BY <1>1, <1>2, <1>3

LEMMA ScopeMode == DOMAIN Preset = {"readonly", "write", "full"}
  BY DEF Preset

LEMMA ScopeServices == DOMAIN DocumentScopes = {"drive", "gmail", "chat", "admin", "modelarmor"}
  BY DEF DocumentScopes

\* A scope belongs to the service its document is of, cloud-platform to none.
LEMMA DocumentsBelong ==
  ASSUME NEW v \in DOMAIN DocumentScopes, NEW s \in DocumentScopes[v], s # Platform
  PROVE  BelongsTo(s, v)
<1>1. v # "events" /\ s[1] = v
  BY ScopeServices DEF DocumentScopes, Platform
<1>2. Head(s) = s[1]
  OBVIOUS
<1> QED
  BY <1>1, <1>2 DEF BelongsTo

LEMMA PresetPlain ==
  ASSUME NEW mode \in {"default", "write", "full"}
  PROVE  /\ PresetOf(mode) \subseteq KnownScope
         /\ \A s \in PresetOf(mode) : ~AppOnly(s) /\ (mode = "default" => ReadOnly(s))
<1>1. CASE mode = "default"
  BY <1>1, KnownScopes, ReadOnlyScopes DEF PresetOf, Preset, AppOnly
<1>2. CASE mode = "write"
  BY <1>2, KnownScopes DEF PresetOf, Preset, AppOnly
<1>3. CASE mode = "full"
  BY <1>3, KnownScopes DEF PresetOf, Preset, AppOnly, Platform
<1> QED
  BY <1>1, <1>2, <1>3

\* A login for services that are named asks for what each of them needs.
PresetAsks(mode, services, asked) ==
  /\ asked \subseteq KnownScope
  /\ \A s \in asked : ~AppOnly(s) /\ (mode = "default" => ReadOnly(s))
  /\ \A s \in asked \ {Platform} : \E v \in services : BelongsTo(s, v)
  /\ Platform \in asked => "modelarmor" \in services
  /\ \A v \in services \ {"events"} :
       \E s \in asked \cap DocumentScopes[v] : mode = "default" <=> ReadOnly(s)
  /\ "events" \in services =>
       EventsRead \subseteq asked /\ (EventsWrite \subseteq asked <=> mode # "default")

LEMMA PresetServes ==
  ASSUME NEW mode \in {"default", "write", "full"}, NEW services \in SUBSET LoginService, services # NoValue,
         \A v \in Lacking(mode, services) : Grantable(v, mode) # {},
         NEW asked, asked = WithoutRestrictive(Augmented(mode, services))
  PROVE  PresetAsks(mode, services, asked)
<1> DEFINE base == PresetBase(mode, services)
           lacking == Lacking(mode, services)
           more == UNION {Grantable(v, mode) : v \in lacking}
           fixed == FixedScopes(services, mode)
<1>0. Augmented(mode, services) = base \cup more \cup fixed
  BY DEF Augmented
<1>21. \A v \in lacking : Grantable(v, mode) # {}
  OBVIOUS
<1>17. base = OfServices(PresetOf(mode), services)
  BY DEF PresetBase
<1>18. lacking = Unmatched(base, services) \ {"events"}
  BY DEF Lacking
<1>19. more = UNION {Grantable(v, mode) : v \in lacking}
  OBVIOUS
<1>20. fixed = FixedScopes(services, mode)
  OBVIOUS
<1> HIDE DEF base, lacking, more, fixed
<1>1. asked = WithoutRestrictive(base \cup more \cup fixed)
  BY <1>0
<1>2. PresetOf(mode) \subseteq KnownScope /\ (\A s \in PresetOf(mode) : ~AppOnly(s) /\ (mode = "default" => ReadOnly(s)))
  BY PresetPlain
<1>3. base \subseteq PresetOf(mode) /\ (\A s \in base : \E v \in services : BelongsTo(s, v))
  BY <1>17 DEF OfServices
<1>4. lacking \subseteq services \cap DOMAIN DocumentScopes
  BY <1>18 DEF Unmatched, LoginService
<1>5. \A s \in more : \E v \in lacking : s \in DocumentScopes[v] /\ ~AppOnly(s) /\ (mode = "default" => ReadOnly(s))
  BY <1>19 DEF Grantable
<1>6. \A s \in fixed : "events" \in services /\ s \in EventsRead \cup EventsWrite /\ (mode = "default" => s \in EventsRead)
  BY <1>20 DEF FixedScopes
<1>7. \A s \in EventsRead \cup EventsWrite : ~AppOnly(s) /\ BelongsTo(s, "events") /\ s # Platform
  BY DEF EventsRead, EventsWrite, AppOnly, BelongsTo, Platform
<1>8. \A s \in EventsRead : ReadOnly(s)
  BY KnownParts, ReadOnlyScopes DEF EventsRead
<1>9. asked \subseteq base \cup more \cup fixed /\ (\A s \in base \cup more \cup fixed : s \notin asked => s = <<"gmail", "metadata">>)
  BY <1>1 DEF WithoutRestrictive
<1>10. asked \subseteq KnownScope
  BY <1>2, <1>3, <1>4, <1>5, <1>6, <1>9, KnownParts
<1>11. \A s \in asked : ~AppOnly(s) /\ (mode = "default" => ReadOnly(s))
  BY <1>2, <1>3, <1>5, <1>6, <1>7, <1>8, <1>9
<1>12. \A s \in asked \ {Platform} : \E v \in services : BelongsTo(s, v)
  BY <1>3, <1>4, <1>5, <1>6, <1>7, <1>9, DocumentsBelong
<1>13. Platform \notin base
  BY <1>3 DEF BelongsTo, EventsRead, EventsWrite, Platform
<1>14. Platform \in asked => "modelarmor" \in services
  <2>1. \A v \in DOMAIN DocumentScopes : Platform \in DocumentScopes[v] => v = "modelarmor"
    BY DEF DocumentScopes, Platform
  <2> QED
    BY <1>4, <1>5, <1>6, <1>7, <1>9, <1>13, <2>1
<1>15. ASSUME NEW v \in services \ {"events"}
       PROVE  \E s \in asked \cap DocumentScopes[v] : mode = "default" <=> ReadOnly(s)
  <2>1. v \in DOMAIN DocumentScopes
    BY DEF LoginService
  <2>2. ASSUME v \in lacking PROVE \E s \in DocumentScopes[v] : s \in more /\ s # <<"gmail", "metadata">> /\ (mode = "default" <=> ReadOnly(s))
    <3>1. CASE mode = "default"
      <4>1. PICK s \in Grantable(v, mode) : TRUE
        BY <1>21, <2>2
      <4>2. s \in DocumentScopes[v] /\ ReadOnly(s) /\ s \in more
        BY <1>19, <2>2, <3>1, <4>1 DEF Grantable
      <4>3. s # <<"gmail", "metadata">>
        <5>1. ~ReadOnly(<<"gmail", "metadata">>)
          BY DEF ReadOnly, Last
        <5> QED
          BY <4>2, <5>1
      <4> QED
        BY <3>1, <4>2, <4>3
    <3>2. CASE mode # "default"
      <4>1. Grantable(v, mode) = {s \in DocumentScopes[v] : ~AppOnly(s)}
        BY <3>2 DEF Grantable
      <4>2. \E s \in DocumentScopes[v] : ~AppOnly(s) /\ s # <<"gmail", "metadata">> /\ ~ReadOnly(s)
        <5>1. CASE v = "drive"
          BY <5>1 DEF DocumentScopes, AppOnly, ReadOnly, Last
        <5>2. CASE v = "gmail"
          BY <5>2 DEF DocumentScopes, AppOnly, ReadOnly, Last
        <5>3. CASE v = "chat"
          BY <5>3 DEF DocumentScopes, AppOnly, ReadOnly, Last
        <5>4. CASE v = "admin"
          BY <5>4 DEF DocumentScopes, AppOnly, ReadOnly, Last
        <5>5. CASE v = "modelarmor"
          BY <5>5 DEF DocumentScopes, AppOnly, ReadOnly, Last, Platform
        <5> QED
          BY <2>1, <5>1, <5>2, <5>3, <5>4, <5>5, ScopeServices
      <4> QED
        BY <1>19, <2>2, <3>2, <4>1, <4>2
    <3> QED
      BY <3>1, <3>2
  <2>3. ASSUME v \notin lacking PROVE \E s \in DocumentScopes[v] : s \in base /\ s # <<"gmail", "metadata">> /\ (mode = "default" <=> ReadOnly(s))
    <3>1. PICK s \in base : BelongsTo(s, v)
      BY <1>18, <2>3 DEF Unmatched
    <3>2. s \in PresetOf(mode) /\ s # Platform /\ Head(s) = v
      BY <1>3, <3>1 DEF BelongsTo
    <3>3. Head(s) = s[1] /\ s[1] = v
      BY <3>2, KnownScopes
    <3>4. CASE mode = "default"
      <4>1. s \in {<<"drive", "readonly">>, <<"gmail", "readonly">>}
        BY <3>2, <3>4 DEF PresetOf, Preset
      <4>2. s \in DocumentScopes[v]
        BY <3>3, <4>1 DEF DocumentScopes
      <4>3. ReadOnly(s) /\ s # <<"gmail", "metadata">>
        <5>1. Last(<<"drive", "readonly">>) = "readonly" /\ Last(<<"gmail", "readonly">>) = "readonly"
          BY DEF Last
        <5>2. s # <<"gmail", "metadata">>
          BY <4>1
        <5> QED
          BY <4>1, <5>1, <5>2 DEF ReadOnly
      <4> QED
        BY <3>1, <3>4, <4>2, <4>3
    <3>5. CASE mode \in {"write", "full"}
      <4>1. s \in {<<"drive">>, <<"gmail", "modify">>, <<"gmail", "settings", "basic">>, <<"pubsub">>}
        BY <3>2, <3>5 DEF PresetOf, Preset
      <4>2. v \in {"drive", "gmail"}
        BY <2>1, <3>3, <4>1, ScopeServices
      <4>3. CASE v = "drive"
        <5>1. s = <<"drive">>
          BY <3>3, <4>1, <4>3
        <5> QED
          BY <3>1, <3>5, <4>3, <5>1 DEF DocumentScopes, ReadOnly, Last
      <4>4. CASE v = "gmail"
        <5>1. <<"gmail", "modify">> \in PresetOf(mode)
          BY <3>5 DEF PresetOf, Preset
        <5>2. BelongsTo(<<"gmail", "modify">>, v)
          BY <4>4 DEF BelongsTo, Platform
        <5>3. <<"gmail", "modify">> \in base
          BY <1>17, <5>1, <5>2 DEF OfServices
        <5> QED
          BY <3>5, <4>4, <5>3 DEF DocumentScopes, ReadOnly, Last
      <4> QED
        BY <4>2, <4>3, <4>4
    <3> QED
      BY <3>4, <3>5
  <2> QED
    BY <1>9, <2>2, <2>3
<1>16. ASSUME "events" \in services
       PROVE  EventsRead \subseteq asked /\ (EventsWrite \subseteq asked <=> mode # "default")
  <2>1. fixed = EventsRead \cup (IF mode = "default" THEN {} ELSE EventsWrite)
    BY <1>16, <1>20 DEF FixedScopes
  <2>2. <<"gmail", "metadata">> \notin EventsRead \cup EventsWrite
    BY DEF EventsRead, EventsWrite
  <2>3. \A s \in EventsWrite : ~ReadOnly(s)
    BY DEF EventsWrite, ReadOnly, Last
  <2>4. EventsWrite # {}
    BY DEF EventsWrite
  <2> QED
    BY <1>9, <1>11, <2>1, <2>2, <2>3, <2>4
<1> QED
  BY <1>10, <1>11, <1>12, <1>14, <1>15, <1>16 DEF PresetAsks

LEMMA ScopedMethods ==
  ASSUME NEW method \in ScopedMethod
  PROVE  /\ method.get \in BOOLEAN /\ method.scopes \in Seq(KnownScope)
         /\ Len(method.scopes) \in 2..3
<1> DEFINE k == KnownScope
<1>1. ASSUME NEW a \in k, NEW b \in k, NEW c \in k
      PROVE  /\ <<a, b>> \in Seq(k) /\ Len(<<a, b>>) = 2
             /\ <<a, b, c>> \in Seq(k) /\ Len(<<a, b, c>>) = 3
  OBVIOUS
<1>2. method.scopes \in {<<<<"drive">>, <<"drive", "file">>, <<"drive", "readonly">>>>, <<<<"drive", "file">>, <<"drive">>>>,
                         <<<<"gmail", "metadata">>, <<"gmail", "modify">>, <<"gmail", "readonly">>>>,
                         <<<<"gmail", "modify">>, <<"gmail", "readonly">>, <<"gmail", "settings", "basic">>>>,
                         <<<<"chat", "bot">>, <<"chat", "messages">>>>}
  BY DEF ScopedMethod
<1>3. method.get \in BOOLEAN
  <2>1. \E b \in BOOLEAN : \E q : method = [get |-> b, scopes |-> q]
    BY Zenon DEF ScopedMethod
  <2> QED
    BY <2>1
<1>4. PICK a \in k, b \in k, c \in k : method.scopes = <<a, b>> \/ method.scopes = <<a, b, c>>
  <2>1. {<<"drive">>, <<"drive", "file">>, <<"drive", "readonly">>, <<"gmail", "metadata">>, <<"gmail", "modify">>,
         <<"gmail", "readonly">>, <<"gmail", "settings", "basic">>, <<"chat", "bot">>, <<"chat", "messages">>} \subseteq k
    BY KnownScopes
  <2> HIDE DEF k
  <2> QED
    BY <1>2, <2>1
<1> HIDE DEF k
<1>5. method.scopes \in Seq(k) /\ Len(method.scopes) \in 2..3
  <2>1. CASE method.scopes = <<a, b>>
    BY <1>1, <2>1
  <2>2. CASE method.scopes = <<a, b, c>>
    BY <1>1, <2>2
  <2> QED
    BY <1>4, <2>1, <2>2
<1> QED
  BY <1>3, <1>5 DEF k

\* Of the scopes that are as good as any other, the token is for the first.
LEMMA BestIsThere ==
  ASSUME NEW method \in ScopedMethod, NEW pool, pool \subseteq DOMAIN method.scopes, pool # {}
  PROVE  \E i \in pool : \A j \in pool : ~Better(method.scopes[j], method.scopes[i], method)
<1> DEFINE scopes == method.scopes
           fits == {i \in pool : Suits(scopes[i], method)}
           len == [i \in pool |-> Len(scopes[i])]
           rank == [i \in pool |-> IF i \in fits THEN 3 - len[i] ELSE 6 - len[i]]
           ranks == {rank[i] : i \in pool}
<1>1. \A i \in pool : len[i] \in 1..3
  <2>1. \A i \in pool : scopes[i] \in KnownScope
    BY ScopedMethods
  <2> QED
    BY <2>1, ScopeLengths
<1>2. ASSUME NEW i \in pool, NEW j \in pool, Better(scopes[j], scopes[i], method)
      PROVE  (j \in fits /\ i \notin fits) \/ ((j \in fits <=> i \in fits) /\ len[j] > len[i])
  BY <1>2 DEF Better
<1> HIDE DEF fits, len
<1>3. /\ \A i \in fits \cap pool : rank[i] = 3 - len[i] /\ rank[i] \in 0..2
      /\ \A i \in pool \ fits : rank[i] = 6 - len[i] /\ rank[i] \in 3..5
  BY <1>1
<1> HIDE DEF rank
<1>4. ranks \subseteq Nat /\ ranks # {}
  BY <1>3
<1>7. Min(ranks) \in ranks /\ \A y \in ranks : Min(ranks) <= y
  BY <1>4, LeastOf
<1>5. PICK i \in pool : \A j \in pool : rank[i] <= rank[j]
  BY <1>7
<1>6. ASSUME NEW j \in pool, Better(scopes[j], scopes[i], method) PROVE FALSE
  <2>1. rank[j] < rank[i]
    <3>1. CASE j \in fits /\ i \notin fits
      BY <1>3, <3>1
    <3>2. CASE j \in fits /\ i \in fits /\ len[j] > len[i]
      BY <1>1, <1>3, <3>2
    <3>3. CASE j \notin fits /\ i \notin fits /\ len[j] > len[i]
      BY <1>1, <1>3, <3>3
    <3> QED
      BY <1>2, <1>6, <3>1, <3>2, <3>3
  <2>2. rank[i] \in Nat /\ rank[j] \in Nat
    BY <1>4
  <2> QED
    BY <1>5, <2>1, <2>2
<1> QED
  BY <1>6

LEMMA TokenScopeFits ==
  ASSUME NEW method \in ScopedMethod, NEW granted,
         NEW usable, usable = ToSet(method.scopes) \cap granted,
         NEW whole, whole = {s \in usable : ~Partial(s)},
         NEW token, token = TokenScope(method, granted)
  PROVE  /\ token \in KnownScope
         /\ usable # {} => token \in usable
         /\ whole # {} => token \in whole
         /\ method.get /\ (\E s \in whole : ReadOnly(s)) => ReadOnly(token)
<1> DEFINE scopes == method.scopes
           some == {i \in DOMAIN scopes : scopes[i] \in granted}
           pool == Pool(scopes, some)
           best == {i \in pool : \A j \in pool : ~Better(scopes[j], scopes[i], method)}
<1>1. /\ scopes \in Seq(KnownScope) /\ DOMAIN scopes = 1..Len(scopes) /\ Len(scopes) \in Nat \ {0}
      /\ Head(scopes) = scopes[1] /\ method.get \in BOOLEAN
  BY ScopedMethods
<1>2. usable = {scopes[i] : i \in some}
  BY DEF ToSet
<1>3. CASE some = {}
  <2>1. token = Head(scopes)
    BY <1>3 DEF TokenScope
  <2> QED
    BY <1>1, <1>2, <1>3, <2>1
<1>4. CASE some # {}
  <2>1. pool \subseteq some /\ pool # {} /\ (whole # {} => \A i \in pool : ~Partial(scopes[i]))
        /\ (\A i \in some : ~Partial(scopes[i]) => i \in pool)
    BY <1>2, <1>4 DEF Pool
  <2>0. pool \subseteq DOMAIN scopes
    BY <2>1
  <2> HIDE DEF pool
  <2>7. \E i \in pool : \A j \in pool : ~Better(scopes[j], scopes[i], method)
    BY <2>0, <2>1, BestIsThere
  <2>2. best # {} /\ best \subseteq Nat
    BY <1>1, <2>0, <2>7
  <2>3. \E i \in best : \A j \in best : i <= j
    BY <2>2, LeastOf
  <2>4. PICK i \in best : token = scopes[i]
    BY <1>4, <2>3 DEF TokenScope, pool
  <2>5. token \in usable /\ (whole # {} => token \in whole)
    BY <1>2, <2>1, <2>4
  <2>6. ASSUME method.get, NEW s \in whole, ReadOnly(s) PROVE ReadOnly(token)
    <3>1. PICK j \in pool : scopes[j] = s
      BY <1>2, <2>1
    <3>2. ~Better(scopes[j], scopes[i], method)
      BY <2>4
    <3> QED
      BY <1>1, <2>4, <2>6, <3>1, <3>2 DEF Better, Suits
  <2> QED
    BY <1>1, <2>1, <2>4, <2>5, <2>6
<1> QED
  BY <1>3, <1>4

\* What is listed is what the services asked for have, and nothing is listed but by the
\* picker; a token is the end.
LoginGiven == [mode : LoginMode, services : {NoValue} \cup SUBSET LoginService]

RowsListed ==
  /\ yStep # "off" => yLogin \in LoginGiven
  /\ yStep \in {"off", "preset"} => yRows = {}
  /\ yStep \in {"pick", "preset"} => yLogin.mode # "custom"
  /\ \A s \in yRows : ~AppOnly(s)
  /\ yStep # "off" /\ yLogin.services # NoValue => \A s \in yRows : \E v \in yLogin.services : BelongsTo(s, v)
  /\ yToken # NoValue => yStep = "over"

ScopesInv == ScopesTypeOK /\ RowsListed /\ ScopesCorrect

LEMMA ScopesBegins == ScopesInit => ScopesInv
<1> SUFFICES ASSUME ScopesInit PROVE ScopesInv
  OBVIOUS
<1> USE DEF ScopesInit
<1>1. ScopesTypeOK /\ RowsListed
  BY DEF ScopesTypeOK, RowsListed
<1>2. ScopesCorrect
  BY DEF ScopesCorrect, PickerHonest, ServicesServed, DefaultReadsOnly, TokenFits
<1> QED
  BY <1>1, <1>2 DEF ScopesInv

\* The picker's rows.
LEMMA RowsRight ==
  ASSUME NEW enabled \in SUBSET {"drive", "chat", "admin"}, NEW services, NEW rows,
         rows = RowsOf(ListedScopes(enabled), services)
  PROVE  /\ rows \subseteq KnownScope /\ \A s \in rows : ~AppOnly(s)
         /\ services # NoValue => \A s \in rows : \E v \in services : BelongsTo(s, v)
<1>1. ListedScopes(enabled) \subseteq KnownScope
  BY KnownParts, ScopeMode, ScopeServices DEF ListedScopes
<1> QED
  BY <1>1 DEF RowsOf, OfServices

LEMMA NobodyHasPlatform == \A v : ~BelongsTo(Platform, v)
  BY DEF BelongsTo, Platform, EventsRead, EventsWrite

LEMMA EndKnown == "validation" \in Ending /\ "ok" \in Ending
  BY DEF Ending, ExitCode

LEMMA AskedScopes ==
  ASSUME NEW scopes, NEW asked, asked = WithoutRestrictive(scopes)
  PROVE  /\ asked \subseteq scopes
         /\ \A s \in scopes : s \notin asked => s = <<"gmail", "metadata">>
  BY DEF WithoutRestrictive

\* What a login without a picker asks for.
LEMMA PresetStep ==
  ASSUME ScopesInv, NEW failed \in SUBSET LoginService, PresetScopes(failed)
  PROVE  \/ yStep' = "over" /\ yEnd' = "validation" /\ yRequest' = yRequest
         \/ /\ yStep' = "consent" /\ yEnd' = yEnd /\ yRequest' \subseteq KnownScope
            /\ \A s \in yRequest' : ~AppOnly(s) /\ (yLogin.mode = "default" => ReadOnly(s))
            /\ yLogin.services # NoValue =>
                 /\ \A s \in yRequest' \ {Platform} : \E v \in yLogin.services : BelongsTo(s, v)
                 /\ Platform \in yRequest' => "modelarmor" \in yLogin.services
                 /\ \A v \in yLogin.services \ {"events"} :
                      \E s \in yRequest' \cap DocumentScopes[v] : yLogin.mode = "default" <=> ReadOnly(s)
                 /\ "events" \in yLogin.services =>
                      /\ EventsRead \subseteq yRequest'
                      /\ EventsWrite \subseteq yRequest' <=> yLogin.mode # "default"
<1> DEFINE mode == yLogin.mode
           services == yLogin.services
<1>1. mode \in {"default", "write", "full"} /\ services \in {NoValue} \cup SUBSET LoginService
  BY DEF ScopesInv, RowsListed, LoginGiven, LoginMode, PresetScopes
<1>2. CASE services = NoValue
  <2>1. yRequest' = WithoutRestrictive(PresetOf(mode)) /\ yStep' = "consent" /\ yEnd' = yEnd
    BY <1>2 DEF PresetScopes, OfServices, AskFor
  <2> QED
    BY <1>1, <1>2, <2>1, PresetPlain, AskedScopes
<1>3. CASE services # NoValue
  <2>1. \/ yStep' = "over" /\ yEnd' = "validation" /\ yRequest' = yRequest
        \/ /\ yStep' = "consent" /\ yEnd' = yEnd
           /\ \A v \in Lacking(mode, services) : Grantable(v, mode) # {}
           /\ yRequest' = WithoutRestrictive(Augmented(mode, services))
    BY <1>3 DEF PresetScopes, AskFor, ScopesEnd
  <2>2. mode \in {"default", "write", "full"} /\ services \in SUBSET LoginService
    BY <1>1, <1>3
  <2>3. CASE yStep' = "over" /\ yEnd' = "validation" /\ yRequest' = yRequest
    BY <2>3
  <2>4. ASSUME \A v \in Lacking(mode, services) : Grantable(v, mode) # {},
               yRequest' = WithoutRestrictive(Augmented(mode, services))
        PROVE  PresetAsks(mode, services, yRequest')
    <3> HIDE DEF mode, services
    <3> QED
      BY <1>3, <2>2, <2>4, PresetServes
  <2> QED
    BY <1>3, <2>1, <2>3, <2>4 DEF PresetAsks
<1> QED
  BY <1>2, <1>3

LEMMA ScopesTypesStep == ASSUME ScopesInv, [ScopesNext]_scopesVars PROVE ScopesTypeOK' /\ RowsListed'
<1> USE DEF ScopesInv
<1>1. CASE UNCHANGED scopesVars
  BY <1>1 DEF scopesVars, ScopesTypeOK, RowsListed
<1>2. ASSUME NEW mode \in LoginMode, NEW services \in {NoValue} \cup ((SUBSET LoginService) \ {{}}), NEW interactive \in BOOLEAN,
             NEW custom \in SUBSET {<<"gmail", "metadata">>, <<"gmail", "readonly">>, Platform} \ {{}},
             ScopesBegin(mode, services, interactive, custom)
      PROVE  ScopesTypeOK' /\ RowsListed'
  <2> USE <1>2 DEF ScopesBegin
  <2>1. yLogin' \in LoginGiven /\ yLogin'.mode = mode
    BY DEF LoginGiven
  <2>2. custom \subseteq KnownScope
    BY KnownScopes DEF Platform
  <2>3. yRequest' \subseteq KnownScope /\ yEnd' = yEnd /\ yStep' \in {"consent", "pick", "preset"}
        /\ (yStep' # "consent" => mode # "custom")
    BY <2>2, AskedScopes DEF AskFor, ScopesTypeOK
  <2>4. ScopesTypeOK'
    BY <2>1, <2>3 DEF ScopesTypeOK, LoginGiven
  <2>5. RowsListed'
    BY <2>1, <2>3 DEF RowsListed, ScopesTypeOK
  <2> QED
    BY <2>4, <2>5
<1>3. ASSUME NEW enabled \in SUBSET {"drive", "chat", "admin"}, PickerOpens(enabled) PROVE ScopesTypeOK' /\ RowsListed'
  <2>1. yRows' \subseteq KnownScope /\ (\A s \in yRows' : ~AppOnly(s))
        /\ (yLogin.services # NoValue => \A s \in yRows' : \E v \in yLogin.services : BelongsTo(s, v))
        /\ yTicked' \subseteq yRows' /\ yTemplates' \subseteq DOMAIN Preset /\ yStep' \in {"pick", "preset"}
        /\ (yStep' = "preset" => yRows' = {})
    BY <1>3, RowsRight, ScopeMode DEF PickerOpens, ScopesTypeOK
  <2>2. ScopesTypeOK'
    BY <1>3, <2>1 DEF ScopesTypeOK, PickerOpens
  <2>3. RowsListed'
    BY <1>3, <2>1 DEF RowsListed, PickerOpens
  <2> QED
    BY <2>2, <2>3
<1>4. ASSUME (\E scope \in KnownScope : ToggleRow(scope)) \/ (\E template \in DOMAIN Preset : ToggleTemplate(template)) \/ ToggleAll
      PROVE  ScopesTypeOK' /\ RowsListed'
  <2>1. /\ UNCHANGED <<yStep, yLogin, yRows, yRequest, yGranted, yMethod, yToken, yEnd>>
        /\ yTicked' \subseteq yRows /\ yTemplates' \subseteq DOMAIN Preset /\ yAll' \in BOOLEAN
    BY <1>4 DEF ToggleRow, ToggleTemplate, ToggleAll, Tick, Selects, ScopesTypeOK
  <2> QED
    BY <2>1 DEF ScopesTypeOK, RowsListed
<1>5. ASSUME ConfirmPick PROVE ScopesTypeOK' /\ RowsListed'
  <2>1. Chosen \subseteq KnownScope
    BY DEF Chosen, ScopesTypeOK
  <2>2. yRequest' \subseteq KnownScope /\ yStep' \in {"over", "consent"} /\ yEnd' \in Ending \cup {NoValue}
    BY <1>5, <2>1, AskedScopes, EndKnown DEF ConfirmPick, ScopesEnd, AskFor, ScopesTypeOK
  <2> QED
    BY <1>5, <2>2 DEF ConfirmPick, ScopesTypeOK, RowsListed
<1>6. ASSUME CancelPick PROVE ScopesTypeOK' /\ RowsListed'
  BY <1>6, EndKnown DEF CancelPick, ScopesEnd, ScopesTypeOK, RowsListed
<1>7. ASSUME NEW failed \in SUBSET LoginService, PresetScopes(failed) PROVE ScopesTypeOK' /\ RowsListed'
  <2>1. yRequest' \subseteq KnownScope /\ yStep' \in {"over", "consent"} /\ yEnd' \in Ending \cup {NoValue}
    BY <1>7, PresetStep, EndKnown DEF ScopesTypeOK
  <2> QED
    BY <1>7, <2>1 DEF PresetScopes, ScopesTypeOK, RowsListed
<1>8. ASSUME NEW refused, NEW earlier \in SUBSET {<<"gmail", "metadata">>}, Consent(refused, earlier)
      PROVE  ScopesTypeOK' /\ RowsListed'
  <2>1. yGranted' \subseteq KnownScope
    BY <1>8, KnownScopes DEF Consent, ScopesTypeOK
  <2> QED
    BY <1>8, <2>1 DEF Consent, ScopesTypeOK, RowsListed
<1>9. ASSUME NEW method \in ScopedMethod, UseMethod(method) PROVE ScopesTypeOK' /\ RowsListed'
  <2>1. yToken' \in KnownScope
    BY <1>9, TokenScopeFits DEF UseMethod
  <2> QED
    BY <1>9, <2>1, EndKnown DEF UseMethod, ScopesEnd, ScopesTypeOK, RowsListed
<1> QED
  BY <1>1, <1>2, <1>3, <1>4, <1>5, <1>6, <1>7, <1>8, <1>9 DEF ScopesNext

\* A row that is ticked takes the place of its counterpart.
LEMMA TickedAlone ==
  ASSUME yTicked \subseteq KnownScope, NEW scope \in KnownScope,
         \A s \in yTicked : ~(ReadOnly(s) /\ Front(s) \in yTicked)
  PROVE  \A s \in Tick(scope) : ~(ReadOnly(s) /\ Front(s) \in Tick(scope))
<1> SUFFICES ASSUME NEW s \in Tick(scope), ReadOnly(s), Front(s) \in Tick(scope) PROVE FALSE
  OBVIOUS
<1>1. s \in KnownScope /\ Front(s) \in KnownScope /\ s # Counterpart(scope) /\ Front(s) # Counterpart(scope)
      /\ (s = scope \/ s \in yTicked) /\ (Front(s) = scope \/ Front(s) \in yTicked)
  BY DEF Tick
<1>2. CASE s = scope
  BY <1>1, <1>2 DEF Counterpart
<1>3. CASE s # scope
  <2>1. Front(s) = scope
    BY <1>1, <1>3
  <2>2. ~ReadOnly(scope)
    BY <1>1, <2>1, ReadOnlyOnce
  <2>3. Counterpart(scope) = s
    BY <1>1, <2>1, <2>2, ReadOnlyFronts DEF Counterpart
  <2> QED
    BY <1>1, <2>3
<1> QED
  BY <1>2, <1>3

\* A template ticks no scope together with its .readonly.
LEMMA TemplatesApart ==
  ASSUME NEW template \in DOMAIN Preset, yRows \subseteq KnownScope
  PROVE  \A s \in Selects(template) : ~(ReadOnly(s) /\ Front(s) \in Selects(template))
<1> SUFFICES ASSUME NEW s \in Selects(template), ReadOnly(s), Front(s) \in Selects(template) PROVE FALSE
  OBVIOUS
<1>1. CASE template = "full"
  <2>1. s \in yRows /\ Front(s) \in yRows /\ ~Subsumed(s, yRows)
    BY <1>1 DEF Selects
  <2> QED
    BY <2>1, ReadOnlyFronts DEF Subsumed
<1>2. CASE template # "full"
  <2>1. s \in yRows /\ s \in Preset[template] /\ Front(s) \in Preset[template]
    BY <1>2 DEF Selects
  <2>2. Len(Front(s)) = Len(s) - 1
    BY <2>1, ReadOnlyFronts
  <2>3. CASE template = "readonly"
    BY <2>1, <2>2, <2>3 DEF Preset
  <2>4. CASE template = "write"
    BY <2>1, <2>4 DEF Preset, ReadOnly, Last
  <2> QED
    BY <1>2, <2>3, <2>4, ScopeMode
<1> QED
  BY <1>1, <1>2

\* What is ticked is asked for, or covered by something that is.
LEMMA ChosenCovers ==
  ASSUME yTicked \subseteq KnownScope, NEW asked, asked = WithoutRestrictive(Chosen)
  PROVE  /\ asked \subseteq yTicked
         /\ \A s \in yTicked \ asked : Subsumed(s, asked) \/ s = <<"gmail", "metadata">>
<1>1. asked \subseteq yTicked
  BY AskedScopes DEF Chosen
<1>2. ASSUME NEW s \in yTicked, s \notin asked, s # <<"gmail", "metadata">> PROVE Subsumed(s, asked)
  <2>1. Subsumed(s, yTicked)
    BY <1>2, AskedScopes DEF Chosen
  <2>2. PICK m \in yTicked : IsStrictPrefix(m, s) /\ ~Subsumed(m, yTicked)
    BY <2>1, CoveredByChosen
  <2>3. m # <<"gmail", "metadata">>
    BY <2>2, MetadataCoversNone
  <2>4. m \in asked
    BY <2>2, <2>3, AskedScopes DEF Chosen
  <2> QED
    BY <2>2, <2>4 DEF Subsumed
<1> QED
  BY <1>1, <1>2

LEMMA PickerStep == ASSUME ScopesInv, [ScopesNext]_scopesVars PROVE PickerHonest'
<1> USE DEF ScopesInv
<1>0. ScopesTypeOK' /\ yRows \subseteq KnownScope /\ yTicked \subseteq KnownScope /\ PickerHonest
  BY ScopesTypesStep DEF ScopesTypeOK, ScopesCorrect
<1>1. CASE UNCHANGED scopesVars
  BY <1>0, <1>1 DEF scopesVars, PickerHonest, Selects
<1>2. ASSUME NEW mode \in LoginMode, NEW services \in {NoValue} \cup ((SUBSET LoginService) \ {{}}), NEW interactive \in BOOLEAN,
             NEW custom \in SUBSET {<<"gmail", "metadata">>, <<"gmail", "readonly">>, Platform} \ {{}},
             ScopesBegin(mode, services, interactive, custom)
      PROVE  PickerHonest'
  <2>1. yRows = {} /\ UNCHANGED <<yRows, yTicked, yTemplates, yAll>>
    BY <1>2 DEF ScopesBegin, RowsListed
  <2> QED
    BY <1>0, <2>1 DEF PickerHonest, Selects
<1>3. ASSUME NEW enabled \in SUBSET {"drive", "chat", "admin"}, PickerOpens(enabled) PROVE PickerHonest'
  <2>1. yStep' \in {"pick", "preset"} /\ yAll' = yAll
    BY <1>3 DEF PickerOpens
  <2>2. CASE UNCHANGED <<yRows, yTicked, yTemplates>>
    BY <1>0, <2>1, <2>2 DEF PickerHonest, Selects
  <2>3. CASE yTicked' = yRows' \cap Preset.readonly /\ yTemplates' = {"readonly"}
    <3>1. \A s \in Preset.readonly : Front(s) \notin Preset.readonly
      <4>1. \A s \in Preset.readonly : s \in KnownScope /\ ReadOnly(s)
        BY KnownScopes, ReadOnlyScopes DEF Preset
      <4>2. \A s \in Preset.readonly : Len(s) = 2
        BY DEF Preset
      <4> QED
        BY <4>1, <4>2, ReadOnlyFronts
    <3> QED
      BY <2>1, <2>3, <3>1 DEF PickerHonest, Selects
  <2> QED
    BY <1>3, <2>2, <2>3 DEF PickerOpens
<1>4. ASSUME NEW scope \in KnownScope, ToggleRow(scope) PROVE PickerHonest'
  <2>1. yStep' # "consent" /\ yTemplates' = {} /\ yAll' = yAll
        /\ (yTicked' \subseteq yTicked \/ yTicked' = Tick(scope))
    BY <1>4 DEF ToggleRow
  <2>2. CASE yTicked' \subseteq yTicked
    BY <1>0, <2>1, <2>2 DEF PickerHonest
  <2>3. CASE yTicked' = Tick(scope)
    BY <1>0, <2>1, <2>3, TickedAlone DEF PickerHonest
  <2> QED
    BY <2>1, <2>2, <2>3
<1>5. ASSUME NEW template \in DOMAIN Preset, ToggleTemplate(template) PROVE PickerHonest'
  <2>1. yStep' # "consent" /\ yRows' = yRows
    BY <1>5 DEF ToggleTemplate
  <2>2. CASE yTemplates' \subseteq yTemplates /\ UNCHANGED <<yTicked, yAll>>
    BY <1>0, <2>1, <2>2 DEF PickerHonest, Selects
  <2>3. CASE yTemplates' = {template} /\ yTicked' = Selects(template)
    BY <1>0, <2>1, <2>3, TemplatesApart DEF PickerHonest, Selects
  <2> QED
    BY <1>5, <2>2, <2>3 DEF ToggleTemplate
<1>6. ASSUME ToggleAll PROVE PickerHonest'
  BY <1>6 DEF ToggleAll, PickerHonest
<1>7. ASSUME ConfirmPick PROVE PickerHonest'
  <2>1. UNCHANGED <<yRows, yTicked, yTemplates, yAll>> /\ (yStep' = "consent" => yRequest' = WithoutRestrictive(Chosen))
    BY <1>7 DEF ConfirmPick, ScopesEnd, AskFor
  <2> QED
    BY <1>0, <2>1, ChosenCovers DEF PickerHonest, Selects
<1>8. ASSUME CancelPick PROVE PickerHonest'
  BY <1>0, <1>8 DEF CancelPick, ScopesEnd, PickerHonest, Selects
<1>9. ASSUME NEW failed \in SUBSET LoginService, PresetScopes(failed) PROVE PickerHonest'
  BY <1>0, <1>9 DEF PresetScopes, RowsListed, PickerHonest, Selects
<1>10. ASSUME NEW refused, NEW earlier, Consent(refused, earlier) PROVE PickerHonest'
  BY <1>10 DEF Consent, PickerHonest
<1>11. ASSUME NEW method \in ScopedMethod, UseMethod(method) PROVE PickerHonest'
  BY <1>0, <1>11 DEF UseMethod, ScopesEnd, PickerHonest, Selects
<1> QED
  BY <1>1, <1>2, <1>3, <1>4, <1>5, <1>6, <1>7, <1>8, <1>9, <1>10, <1>11 DEF ScopesNext

LEMMA ServedStep == ASSUME ScopesInv, [ScopesNext]_scopesVars PROVE (ServicesServed /\ DefaultReadsOnly)'
<1> USE DEF ScopesInv
<1>0. ServicesServed /\ DefaultReadsOnly
  BY DEF ScopesCorrect
<1>1. CASE UNCHANGED scopesVars
  BY <1>0, <1>1 DEF scopesVars, ServicesServed, DefaultReadsOnly
<1>2. ASSUME yStep' # "consent" PROVE (ServicesServed /\ DefaultReadsOnly)'
  BY <1>2 DEF ServicesServed, DefaultReadsOnly
<1>3. ASSUME NEW mode \in LoginMode, NEW services \in {NoValue} \cup ((SUBSET LoginService) \ {{}}), NEW interactive \in BOOLEAN,
             NEW custom \in SUBSET {<<"gmail", "metadata">>, <<"gmail", "readonly">>, Platform} \ {{}},
             ScopesBegin(mode, services, interactive, custom)
      PROVE  (ServicesServed /\ DefaultReadsOnly)'
  <2>1. yLogin'.mode = mode /\ (yStep' = "consent" => mode = "custom")
    BY <1>3 DEF ScopesBegin
  <2> QED
    BY <2>1 DEF ServicesServed, DefaultReadsOnly
<1>4. ASSUME ConfirmPick PROVE (ServicesServed /\ DefaultReadsOnly)'
  <2>1. UNCHANGED <<yLogin, yRows>> /\ yRows # {} /\ yStep = "pick"
        /\ (yStep' = "consent" => yRequest' = WithoutRestrictive(Chosen))
    BY <1>4 DEF ConfirmPick, ScopesEnd, AskFor
  <2>2. yStep' = "consent" => yRequest' \subseteq yRows
    BY <2>1, AskedScopes DEF Chosen, ScopesTypeOK
  <2> QED
    BY <2>1, <2>2, NobodyHasPlatform DEF ServicesServed, DefaultReadsOnly, RowsListed
<1>5. ASSUME NEW failed \in SUBSET LoginService, PresetScopes(failed) PROVE (ServicesServed /\ DefaultReadsOnly)'
  <2>1. yLogin' = yLogin
    BY <1>5 DEF PresetScopes
  <2> QED
    BY <1>5, <2>1, PresetStep DEF ServicesServed, DefaultReadsOnly
<1>6. ASSUME ~ConfirmPick, ~UNCHANGED scopesVars, yStep' = "consent"
      PROVE  \/ \E mode \in LoginMode, services \in {NoValue} \cup ((SUBSET LoginService) \ {{}}), interactive \in BOOLEAN,
                  custom \in SUBSET {<<"gmail", "metadata">>, <<"gmail", "readonly">>, Platform} \ {{}} :
                  ScopesBegin(mode, services, interactive, custom)
             \/ \E failed \in SUBSET LoginService : PresetScopes(failed)
  BY <1>6 DEF ScopesNext, PickerOpens, ToggleRow, ToggleTemplate, ToggleAll, CancelPick, ScopesEnd, Consent, UseMethod
<1> QED
  BY <1>1, <1>2, <1>3, <1>4, <1>5, <1>6

LEMMA TokenFitsStep == ASSUME ScopesInv, [ScopesNext]_scopesVars PROVE TokenFits'
<1> USE DEF ScopesInv
<1>0. TokenFits
  BY DEF ScopesCorrect
<1>1. ASSUME NEW method \in ScopedMethod, UseMethod(method) PROVE TokenFits'
  <2>1. yMethod' = method /\ yGranted' = yGranted /\ yToken' = TokenScope(method, yGranted)
    BY <1>1 DEF UseMethod
  <2>2. PICK usable, whole, token : /\ usable = ToSet(method.scopes) \cap yGranted
                                    /\ whole = {s \in usable : ~Partial(s)} /\ token = TokenScope(method, yGranted)
    OBVIOUS
  <2>3. /\ usable # {} => token \in usable
        /\ whole # {} => token \in whole
        /\ method.get /\ (\E s \in whole : ReadOnly(s)) => ReadOnly(token)
    BY ONLY <1>1, <2>2, TokenScopeFits
  <2> QED
    BY <2>1, <2>2, <2>3 DEF TokenFits
<1>2. CASE UNCHANGED <<yMethod, yGranted, yToken>>
  BY <1>0, <1>2 DEF TokenFits
<1>3. ASSUME NEW refused, NEW earlier, Consent(refused, earlier) PROVE TokenFits'
  BY <1>3 DEF Consent, RowsListed, TokenFits
<1>4. ASSUME ~UNCHANGED <<yMethod, yGranted, yToken>>
      PROVE  (\E method \in ScopedMethod : UseMethod(method)) \/ (\E refused, earlier : Consent(refused, earlier))
  BY <1>4 DEF ScopesNext, ScopesBegin, PickerOpens, ToggleRow, ToggleTemplate, ToggleAll, ConfirmPick, CancelPick, PresetScopes, scopesVars
<1> QED
  BY <1>1, <1>2, <1>3, <1>4

LEMMA ScopesInvStep == ScopesInv /\ [ScopesNext]_scopesVars => ScopesInv'
  BY ScopesTypesStep, PickerStep, ServedStep, TokenFitsStep DEF ScopesInv, ScopesCorrect

-----------------------------------------------------------------------------
\* Tables and CSV of several pages.

LEMMA SetInOrder ==
  ASSUME NEW S, S \subseteq ColumnKey
  PROVE  SetToSeq(S) \in Seq(ColumnKey) /\ ToSet(SetToSeq(S)) = S
<1> DEFINE n == Cardinality(S)
           order == SetToSeq(S)
<1>1. IsFiniteSet(S) /\ n \in Nat /\ ExistsBijection(1..n, S)
  BY PageTableAssumption, FS_Subset, FS_CardinalityType
<1>2. PICK f \in [1..n -> S] : IsInjective(f)
  BY <1>1 DEF ExistsBijection, Bijection, Injection, IsInjective
<1>3. order \in [1..n -> S] /\ IsInjective(order)
  BY <1>2 DEF SetToSeq
<1> HIDE DEF order, n
<1>4. order \in Injection(1..n, S)
  BY <1>3 DEF Injection, IsInjective
<1>5. Cardinality(1..n) = Cardinality(S)
  BY <1>1, FS_Interval DEF n
<1>6. order \in Surjection(1..n, S)
  BY <1>1, <1>4, <1>5, FS_Injection
<1>7. ToSet(order) = S
  BY <1>6 DEF Surjection, ToSet
<1>8. order \in Seq(ColumnKey)
  BY <1>1, <1>3
<1> QED
  BY <1>7, <1>8 DEF order

\* The keys of all rows, and no others.
LEMMA KeysFound ==
  ASSUME NEW n \in Nat, NEW rows \in [1..n -> SUBSET ColumnKey]
  PROVE  /\ KeysInOrder(rows) \in Seq(ColumnKey)
         /\ \A c : c \in ToSet(KeysInOrder(rows)) <=> \E i \in 1..n : c \in rows[i]
<1> DEFINE next(g, i) == g[i - 1] \o SetToSeq(rows[i] \ ToSet(g[i - 1]))
           solves(g, k) == g[0] = << >> /\ \A i \in 1..k : g[i] = next(g, i)
           solved(k) == \E g \in [0..k -> Seq(ColumnKey)] : solves(g, k)
           bad == {k \in 0..n : ~solved(k)}
<1>0. Len(rows) = n
  OBVIOUS
<1>1. ASSUME NEW keys \in Seq(ColumnKey), NEW i \in 1..n
      PROVE  /\ keys \o SetToSeq(rows[i] \ ToSet(keys)) \in Seq(ColumnKey)
             /\ ToSet(keys \o SetToSeq(rows[i] \ ToSet(keys))) = ToSet(keys) \cup rows[i]
  <2> DEFINE more == SetToSeq(rows[i] \ ToSet(keys))
  <2>1. more \in Seq(ColumnKey) /\ ToSet(more) = rows[i] \ ToSet(keys)
    <3>1. rows[i] \ ToSet(keys) \subseteq ColumnKey
      OBVIOUS
    <3> QED
      BY <3>1, SetInOrder
  <2> HIDE DEF more
  <2> DEFINE all == keys \o more
  <2>2. /\ all \in Seq(ColumnKey) /\ Len(all) = Len(keys) + Len(more)
        /\ \A j \in 1..(Len(keys) + Len(more)) : all[j] = IF j <= Len(keys) THEN keys[j] ELSE more[j - Len(keys)]
    BY <2>1, ConcatProperties, Zenon
  <2> HIDE DEF all
  <2>3. /\ Len(keys) \in Nat /\ Len(more) \in Nat
        /\ ToSet(keys) = {keys[j] : j \in 1..Len(keys)} /\ ToSet(more) = {more[j] : j \in 1..Len(more)}
        /\ ToSet(all) = {all[j] : j \in 1..(Len(keys) + Len(more))}
    <3>1. /\ DOMAIN keys = 1..Len(keys) /\ DOMAIN more = 1..Len(more)
          /\ DOMAIN all = 1..(Len(keys) + Len(more))
      BY <2>1, <2>2
    <3> QED
      BY <2>1, <3>1 DEF ToSet
  <2>4. ToSet(all) \subseteq ToSet(keys) \cup ToSet(more)
    <3>1. ASSUME NEW j \in 1..(Len(keys) + Len(more)) PROVE all[j] \in ToSet(keys) \cup ToSet(more)
      <4>1. j <= Len(keys) => j \in 1..Len(keys)
        BY <2>3
      <4>2. ~(j <= Len(keys)) => j - Len(keys) \in 1..Len(more)
        BY <2>3
      <4> QED
        BY <2>2, <2>3, <4>1, <4>2
    <3> QED
      BY <2>3, <3>1
  <2>5. ToSet(keys) \subseteq ToSet(all)
    <3>1. \A j \in 1..Len(keys) : j \in 1..(Len(keys) + Len(more)) /\ j <= Len(keys)
      BY <2>3
    <3> QED
      BY <2>2, <2>3, <3>1
  <2>6. ToSet(more) \subseteq ToSet(all)
    <3>1. ASSUME NEW j \in 1..Len(more) PROVE more[j] \in ToSet(all)
      <4>1. j + Len(keys) \in 1..(Len(keys) + Len(more)) /\ ~(j + Len(keys) <= Len(keys)) /\ (j + Len(keys)) - Len(keys) = j
        BY <2>3
      <4>2. all[j + Len(keys)] = more[j]
        BY <2>2, <4>1
      <4> QED
        BY <2>3, <4>1, <4>2
    <3> QED
      BY <2>3, <3>1
  <2> QED
    BY <2>1, <2>2, <2>4, <2>5, <2>6 DEF all, more
<1>2. bad = {}
  <2> SUFFICES ASSUME bad # {} PROVE FALSE
    OBVIOUS
  <2>1. bad \subseteq Nat
    OBVIOUS
  <2>2. PICK k \in bad : \A y \in bad : k <= y
    <3> HIDE DEF bad
    <3> QED
      BY <2>1, LeastOf
  <2>3. k \in 0..n /\ ~solved(k)
    OBVIOUS
  <2>4. k # 0
    <3> DEFINE g == [i \in 0..0 |-> << >>]
    <3>1. g \in [0..0 -> Seq(ColumnKey)] /\ g[0] = << >>
      OBVIOUS
    <3>2. solves(g, 0)
      BY <3>1
    <3> HIDE DEF g, solves
    <3> QED
      BY <2>3, <3>1, <3>2
  <2>5. k - 1 \in 0..n /\ k - 1 \notin bad /\ k \in 1..n
    <3>1. k \in 1..n /\ k - 1 \in 0..n
      BY <2>3, <2>4
    <3> HIDE DEF bad
    <3> QED
      BY <2>2, <3>1
  <2>6. PICK g \in [0..(k - 1) -> Seq(ColumnKey)] : solves(g, k - 1)
    <3> HIDE DEF solves
    <3>1. solved(k - 1)
      <4> HIDE DEF solved
      <4> QED
        BY <2>5
    <3> QED
      BY <3>1
  <2> DEFINE h == [i \in 0..k |-> IF i = k THEN next(g, k) ELSE g[i]]
  <2>7. h \in [0..k -> Seq(ColumnKey)]
    <3> HIDE DEF bad, solved
    <3>1. \A i \in 0..k : i # k => i \in 0..(k - 1)
      BY <2>5
    <3>2. k - 1 \in 0..(k - 1)
      BY <2>5
    <3>3. g[k - 1] \in Seq(ColumnKey)
      BY <3>2
    <3>4. next(g, k) \in Seq(ColumnKey)
      BY <1>1, <2>5, <3>3
    <3> HIDE DEF next
    <3> QED
      BY <3>1, <3>4
  <2>8. h[0] = << >>
    BY <2>5, <2>6
  <2>9. ASSUME NEW i \in 1..k PROVE h[i] = next(h, i)
    <3> HIDE DEF bad, solved
    <3>1. i \in 0..k /\ i - 1 \in 0..k /\ i - 1 # k /\ i \in Nat
      BY <2>5
    <3>2. h[i - 1] = g[i - 1]
      BY <3>1
    <3>3. i # k => i \in 1..(k - 1)
      BY <2>5
    <3>4. h[i] = next(g, i)
      BY <2>6, <3>1, <3>3
    <3> QED
      BY <3>2, <3>4
  <2>10. solves(h, k)
    BY <2>8, <2>9
  <2> HIDE DEF h, solves
  <2> QED
    BY <2>3, <2>7, <2>10
<1>3. PICK g \in [0..n -> Seq(ColumnKey)] : solves(g, n)
  <2>1. n \in 0..n
    OBVIOUS
  <2> HIDE DEF solves
  <2> QED
    BY <1>2, <2>1
<1> DEFINE equation(f) == f = [i \in 0..n |-> IF i = 0 THEN << >> ELSE next(f, i)]
           keys == CHOOSE f : equation(f)
<1>4. equation(g)
  <2>1. \A i \in 0..n : i # 0 => i \in 1..n
    OBVIOUS
  <2>2. \A i \in 0..n : g[i] = IF i = 0 THEN << >> ELSE next(g, i)
    BY <1>3, <2>1
  <2> HIDE DEF next
  <2> QED
    BY <2>2
<1>5. KeysInOrder(rows) = keys[n]
  BY <1>0 DEF KeysInOrder
<1>6. equation(keys)
  <2> HIDE DEF equation
  <2> QED
    BY <1>4
<1> HIDE DEF keys
<1>7. keys[0] = << >> /\ \A i \in 1..n : keys[i] = next(keys, i)
  <2>1. 0 \in 0..n /\ \A i \in 1..n : i \in 0..n /\ i # 0
    OBVIOUS
  <2> HIDE DEF next
  <2> QED
    BY <1>6, <2>1, Zenon
<1> DEFINE right(k) == /\ keys[k] \in Seq(ColumnKey)
                       /\ \A c : c \in ToSet(keys[k]) <=> \E i \in 1..k : c \in rows[i]
           wrong == {k \in 0..n : ~right(k)}
<1>8. right(0)
  <2>1. << >> \in Seq(ColumnKey) /\ ToSet(<< >>) = {} /\ 1..0 = {}
    BY DEF ToSet
  <2> QED
    BY <1>7, <2>1
<1>9. ASSUME NEW k \in 1..n, right(k - 1) PROVE right(k)
  <2> DEFINE before == keys[k - 1]
  <2>1. before \in Seq(ColumnKey) /\ \A c : c \in ToSet(before) <=> \E i \in 1..(k - 1) : c \in rows[i]
    BY <1>9
  <2>2. keys[k] = before \o SetToSeq(rows[k] \ ToSet(before))
    BY <1>7
  <2> HIDE DEF before
  <2>3. keys[k] \in Seq(ColumnKey) /\ ToSet(keys[k]) = ToSet(before) \cup rows[k]
    BY <1>1, <2>1, <2>2
  <2>4. (\A i \in 1..k : i \in 1..(k - 1) \/ i = k) /\ k \in 1..k /\ 1..(k - 1) \subseteq 1..k
    OBVIOUS
  <2> QED
    BY <2>1, <2>3, <2>4
<1>10. wrong = {}
  <2> SUFFICES ASSUME wrong # {} PROVE FALSE
    OBVIOUS
  <2> HIDE DEF right
  <2>1. wrong \subseteq Nat
    OBVIOUS
  <2>2. PICK k \in wrong : \A y \in wrong : k <= y
    <3> HIDE DEF wrong
    <3> QED
      BY <2>1, LeastOf
  <2>3. k \in 0..n /\ ~right(k)
    OBVIOUS
  <2>4. k # 0
    BY <1>8, <2>3
  <2>5. k \in 1..n /\ k - 1 \in 0..n
    <3> HIDE DEF wrong
    <3> QED
      BY <2>3, <2>4
  <2>6. k - 1 \notin wrong
    <3> HIDE DEF wrong
    <3> QED
      BY <2>2, <2>5
  <2>7. right(k - 1)
    BY <2>5, <2>6
  <2> QED
    BY <1>9, <2>3, <2>5, <2>7
<1>11. right(n)
  <2>1. n \in 0..n
    OBVIOUS
  <2> HIDE DEF right
  <2> QED
    BY <1>10, <2>1
<1> QED
  BY <1>5, <1>11

TableLine == [header : BOOLEAN, cells : Seq(ColumnKey) \cup Seq(Nat)]

TableShape ==
  /\ tAsked \in TableAsked \cup {NoValue}
  /\ tPages \in 0..MaxPages /\ tGiven \in Seq(SUBSET ColumnKey) /\ Len(tGiven) <= MaxRows
  /\ tStarted \in BOOLEAN /\ tOut \in Seq(TableLine)
  /\ tColumns \in Seq(ColumnKey) \cup {NoValue}
  /\ tOmitted \subseteq ColumnKey /\ tUnseen \in {NoValue} \cup SUBSET ColumnKey
  /\ tEnd \in {"ok", "validation", NoValue}
  /\ tColumns = NoValue <=> Len(tGiven) = 0
  /\ ~tStarted => Len(tOut) = 0 /\ tColumns = NoValue
  /\ tAsked = NoValue => tUnseen = NoValue /\ tColumns = NoValue /\ tEnd = NoValue

\* What no row so far has of the columns that were asked for.
Sought(c) == \A r \in 1..Len(tGiven) : c \notin tGiven[r]

ColumnsAsked ==
  tAsked # NoValue =>
    /\ tUnseen # NoValue <=> tAsked.items /\ tAsked.selected # NoValue /\ Len(tGiven) # 0
    /\ tUnseen # NoValue => \A c \in ToSet(tAsked.selected) : c \in tUnseen <=> Sought(c)
    /\ tUnseen # NoValue => tUnseen \subseteq ToSet(tAsked.selected)
    /\ tAsked.selected # NoValue /\ ~tAsked.items /\ Len(tGiven) # 0 =>
         \A c \in ToSet(tAsked.selected) : ~Sought(c)

TableInv == TableShape /\ ColumnsAsked /\ RowsAligned /\ NothingSilent

LEMMA AskedParts ==
  ASSUME tAsked \in TableAsked
  PROVE  /\ tAsked # NoValue /\ tAsked.table \in BOOLEAN /\ tAsked.items \in BOOLEAN
         /\ tAsked.selected # NoValue => tAsked.selected \in Seq(ColumnKey) /\ ToSet(tAsked.selected) \subseteq ColumnKey
<1>1. \A s \in Selections : s = NoValue \/ s \in Seq(ColumnKey)
  <2>1. \A s \in Selections : s = NoValue \/ \E n \in 1..2 : s \in [1..n -> ColumnKey]
    BY DEF Selections
  <2>2. \A n \in 1..2 : \A s \in [1..n -> ColumnKey] : s \in Seq(ColumnKey)
    OBVIOUS
  <2> QED
    BY <2>1, <2>2
<1>2. \A s \in Seq(ColumnKey) : ToSet(s) \subseteq ColumnKey
  BY DEF ToSet
<1> QED
  BY <1>1, <1>2, AskedAssumption DEF TableAsked

LEMMA NotEnded == NoValue \notin {"ok", "validation"}
  BY OutcomeAssumption DEF Ending, ExitCode

\* The lines of a page.
LEMMA LinesAre ==
  ASSUME NEW n \in Nat, NEW rows \in [1..n -> SUBSET ColumnKey], NEW columns \in Seq(ColumnKey),
         tGiven \in Seq(SUBSET ColumnKey)
  PROVE  LET lines == Lines(columns, rows)
             heads == IF tColumns = NoValue THEN 1 ELSE 0
         IN  /\ lines \in Seq(TableLine) /\ Len(lines) = heads + n
             /\ heads = 1 => lines[1] = Header(columns)
             /\ \A r \in 1..n : lines[heads + r] = Record(columns, rows[r], Len(tGiven) + r)
<1> DEFINE records == [r \in 1..n |-> Record(columns, rows[r], Len(tGiven) + r)]
           head == <<Header(columns)>>
<1>1. Header(columns) \in TableLine
  BY DEF Header, TableLine
<1>2. ASSUME NEW r \in 1..n PROVE Record(columns, rows[r], Len(tGiven) + r) \in TableLine
  <2> DEFINE cells == [c \in DOMAIN columns |-> IF columns[c] \in rows[r] THEN Len(tGiven) + r ELSE 0]
  <2>1. Len(tGiven) + r \in Nat
    OBVIOUS
  <2>2. DOMAIN columns = 1..Len(columns) /\ Len(columns) \in Nat
    OBVIOUS
  <2>3. cells \in Seq(Nat)
    BY <2>1, <2>2
  <2> HIDE DEF cells
  <2>4. [header |-> FALSE, cells |-> cells] \in TableLine
    BY <2>3 DEF TableLine
  <2> QED
    BY <2>4 DEF Record, cells
<1>3. records \in Seq(TableLine) /\ Len(records) = n
  BY <1>2
<1>4. DOMAIN rows = 1..n
  OBVIOUS
<1> DEFINE lines == Lines(columns, rows)
<1>5. CASE tColumns = NoValue
  <2>1. head \in Seq(TableLine) /\ Len(head) = 1 /\ head[1] = Header(columns)
    BY <1>1
  <2>2. lines = head \o records
    BY <1>4, <1>5 DEF Lines
  <2>3. \A r \in 1..n : records[r] = Record(columns, rows[r], Len(tGiven) + r)
    OBVIOUS
  <2> HIDE DEF head, records, lines
  <2>4. /\ lines \in Seq(TableLine) /\ Len(lines) = Len(head) + Len(records)
        /\ \A j \in 1..(Len(head) + Len(records)) :
             lines[j] = IF j <= Len(head) THEN head[j] ELSE records[j - Len(head)]
    BY <1>3, <2>1, <2>2, ConcatProperties, Zenon
  <2>5. Len(lines) = 1 + n /\ lines[1] = Header(columns)
    BY <1>3, <2>1, <2>4
  <2>6. \A r \in 1..n : lines[1 + r] = records[r]
    BY <1>3, <2>1, <2>4
  <2> QED
    BY <1>5, <2>3, <2>4, <2>5, <2>6 DEF lines
<1>6. CASE tColumns # NoValue
  <2>1. lines = << >> \o records
    BY <1>4, <1>6 DEF Lines
  <2>2. lines = records
    <3> HIDE DEF records, lines
    <3> QED
      BY <1>3, <2>1
  <2>3. \A r \in 1..n : records[r] = Record(columns, rows[r], Len(tGiven) + r)
    OBVIOUS
  <2>4. \A r \in 1..n : 0 + r = r
    OBVIOUS
  <2> HIDE DEF records
  <2> QED
    BY <1>3, <1>6, <2>2, <2>3, <2>4
<1> QED
  BY <1>5, <1>6

\* A page, or an item, with rows.
LEMMA PageStep ==
  ASSUME TableInv, NEW n \in 1..MaxRows, NEW rows \in [1..n -> SUBSET ColumnKey], TablePage(rows)
  PROVE  TableInv'
<1> DEFINE keys == KeysInOrder(rows)
           columns == PageColumns(rows)
           many == Len(tGiven)
<1>1. /\ tAsked \in TableAsked /\ tAsked # NoValue /\ tEnd = NoValue /\ tAsked' = tAsked
      /\ tPages < MaxPages /\ tPages' = tPages + 1 /\ tPages \in 0..MaxPages /\ MaxPages \in Nat
      /\ many \in Nat /\ tGiven \in Seq(SUBSET ColumnKey) /\ tOut \in Seq(TableLine)
      /\ tColumns \in Seq(ColumnKey) \cup {NoValue} /\ NoValue \notin Seq(ColumnKey)
      /\ n \in Nat /\ n # 0 /\ Len(rows) = n /\ many + n <= MaxRows
      /\ tColumns = NoValue <=> many = 0
      /\ tOmitted \subseteq ColumnKey
      /\ tAsked.items => n = 1
  <2>1. MaxRows \in Nat /\ MaxPages \in Nat
    BY PageTableAssumption
  <2>2. Len(rows) = n /\ n \in Nat /\ n # 0
    BY <2>1
  <2> QED
    BY <2>1, <2>2, PageTableAssumption DEF TablePage, TableInv, TableShape
<1>2. /\ keys \in Seq(ColumnKey) /\ \A c : c \in ToSet(keys) <=> \E i \in 1..n : c \in rows[i]
  BY <1>1, KeysFound
<1>3. ToSet(keys) \subseteq ColumnKey
  BY <1>2
<1>4. columns \in Seq(ColumnKey) /\ (tColumns # NoValue => columns = tColumns)
  BY <1>1, <1>2, AskedParts DEF PageColumns
<1> HIDE DEF keys
<1>5. CASE MissingColumns(rows) # {}
  <2>1. ~tAsked.items
    BY <1>5 DEF MissingColumns
  <2>2. UNCHANGED <<tGiven, tStarted, tColumns, tOmitted, tUnseen, tOut>> /\ tEnd' = "validation"
    BY <1>5 DEF TablePage
  <2>3. TableShape'
    BY <1>1, <2>2 DEF TableInv, TableShape
  <2>4. ColumnsAsked' /\ RowsAligned' /\ NothingSilent'
    BY <1>1, <2>1, <2>2 DEF TableInv, ColumnsAsked, Sought, RowsAligned, NothingSilent
  <2> QED
    BY <2>3, <2>4 DEF TableInv
<1>6. CASE MissingColumns(rows) = {}
  <2>1. /\ tOut' = tOut \o Lines(columns, rows) /\ tColumns' = columns
        /\ tOmitted' = tOmitted \cup Late(rows)
        /\ tUnseen' = IF tAsked.items /\ tAsked.selected # NoValue THEN StillUnseen(rows) ELSE tUnseen
        /\ tGiven' = tGiven \o rows /\ tStarted' = TRUE /\ tEnd' = NoValue
    BY <1>1, <1>6 DEF TablePage
  <2>2. rows \in Seq(SUBSET ColumnKey)
    BY <1>1
  <2>3. /\ tGiven' \in Seq(SUBSET ColumnKey) /\ Len(tGiven') = many + n
        /\ \A r \in 1..(many + n) : tGiven'[r] = IF r <= many THEN tGiven[r] ELSE rows[r - many]
    <3>1. /\ tGiven \o rows \in Seq(SUBSET ColumnKey) /\ Len(tGiven \o rows) = Len(tGiven) + Len(rows)
          /\ \A r \in 1..(Len(tGiven) + Len(rows)) :
               (tGiven \o rows)[r] = IF r <= Len(tGiven) THEN tGiven[r] ELSE rows[r - Len(tGiven)]
      <4>1. tGiven \in Seq(SUBSET ColumnKey)
        BY <1>1
      <4> QED
        BY <2>2, <4>1, ConcatProperties, Zenon
    <3>2. Len(rows) = n /\ tGiven' = tGiven \o rows
      BY <1>1, <2>1
    <3> QED
      BY <3>1, <3>2
  <2> HIDE DEF many
  <2>4. \A r \in 1..many : r \in 1..(many + n) /\ tGiven'[r] = tGiven[r]
    BY <1>1, <2>3
  <2>5. \A r \in 1..n : many + r \in 1..(many + n) /\ tGiven'[many + r] = rows[r]
    BY <1>1, <2>3
  <2>6. \A r \in 1..(many + n) : r \in 1..many \/ \E i \in 1..n : r = many + i
    <3>1. ASSUME NEW r \in 1..(many + n), r \notin 1..many PROVE \E i \in 1..n : r = many + i
      <4>1. r - many \in 1..n /\ r = many + (r - many)
        BY <1>1, <3>1
      <4> QED
        BY <4>1
    <3> QED
      BY <3>1
  <2>7. \A c : Sought(c)' <=> Sought(c) /\ c \notin ToSet(keys)
    <3>1. Len(tGiven') = many + n
      BY <2>3
    <3>2. ASSUME NEW c PROVE (\A r \in 1..(many + n) : c \notin tGiven'[r]) <=>
                               (\A r \in 1..many : c \notin tGiven[r]) /\ (\A i \in 1..n : c \notin rows[i])
      BY <2>4, <2>5, <2>6
    <3>3. ASSUME NEW c PROVE c \notin ToSet(keys) <=> \A i \in 1..n : c \notin rows[i]
      BY <1>2
    <3>4. ASSUME NEW c PROVE Sought(c)' <=> \A r \in 1..(many + n) : c \notin tGiven'[r]
      BY <3>1 DEF Sought
    <3>5. ASSUME NEW c PROVE Sought(c) <=> \A r \in 1..many : c \notin tGiven[r]
      BY DEF Sought, many
    <3> QED
      BY <3>2, <3>3, <3>4, <3>5
  <2>8. Late(rows) \subseteq ColumnKey
    BY <1>3 DEF Late, keys
  <2>9. tAsked.selected # NoValue => tAsked.selected \in Seq(ColumnKey) /\ ToSet(tAsked.selected) \subseteq ColumnKey
    BY <1>1, AskedParts
  <2>10. tAsked.items /\ tAsked.selected # NoValue =>
           /\ StillUnseen(rows) \subseteq ToSet(tAsked.selected)
           /\ \A c \in ToSet(tAsked.selected) : c \in StillUnseen(rows) <=> Sought(c)'
    <3> SUFFICES ASSUME tAsked.items, tAsked.selected # NoValue
                 PROVE  /\ StillUnseen(rows) \subseteq ToSet(tAsked.selected)
                        /\ \A c \in ToSet(tAsked.selected) : c \in StillUnseen(rows) <=> Sought(c)'
      OBVIOUS
    <3>1. CASE tUnseen = NoValue
      <4>1. many = 0
        BY <1>1, <3>1 DEF TableInv, ColumnsAsked, many
      <4>2. \A c : Sought(c)
        BY <4>1 DEF Sought, many
      <4>3. StillUnseen(rows) = ToSet(tAsked.selected) \ ToSet(keys)
        BY <3>1 DEF StillUnseen, keys
      <4> QED
        BY <2>7, <4>2, <4>3
    <3>2. CASE tUnseen # NoValue
      <4>1. StillUnseen(rows) = tUnseen \ ToSet(keys)
        BY <3>2 DEF StillUnseen, keys
      <4>2. /\ tUnseen \subseteq ToSet(tAsked.selected)
            /\ \A c \in ToSet(tAsked.selected) : c \in tUnseen <=> Sought(c)
        BY <1>1, <3>2 DEF TableInv, ColumnsAsked
      <4> QED
        BY <2>7, <4>1, <4>2
    <3> QED
      BY <3>1, <3>2
  <2>11. tUnseen' \in {NoValue} \cup SUBSET ColumnKey
    BY <2>1, <2>9, <2>10 DEF TableInv, TableShape
  <2>12. tUnseen' # NoValue <=> tAsked.items /\ tAsked.selected # NoValue
    <3>1. tAsked.items /\ tAsked.selected # NoValue => tUnseen' # NoValue
      BY <2>1, <2>9, <2>10, PageTableAssumption
    <3>2. ~(tAsked.items /\ tAsked.selected # NoValue) => tUnseen' = NoValue
      BY <1>1, <2>1 DEF TableInv, ColumnsAsked
    <3> QED
      BY <3>1, <3>2
  <2>13. /\ tOut' \in Seq(TableLine)
         /\ RowsAligned'
    <3> DEFINE lines == Lines(columns, rows)
               heads == IF tColumns = NoValue THEN 1 ELSE 0
               lots == Len(tOut)
    <3>1. /\ lines \in Seq(TableLine) /\ Len(lines) = heads + n
          /\ heads = 1 => lines[1] = Header(columns)
          /\ \A r \in 1..n : lines[heads + r] = Record(columns, rows[r], many + r)
      BY <1>1, <1>4, LinesAre DEF many
    <3>2. heads \in {0, 1} /\ (heads = 1 <=> tColumns = NoValue)
      OBVIOUS
    <3> HIDE DEF lines, heads, columns
    <3>3. /\ tOut' \in Seq(TableLine) /\ Len(tOut') = lots + (heads + n)
          /\ \A j \in 1..(lots + (heads + n)) :
               tOut'[j] = IF j <= lots THEN tOut[j] ELSE lines[j - lots]
      <4>1. /\ tOut \o lines \in Seq(TableLine) /\ Len(tOut \o lines) = Len(tOut) + Len(lines)
            /\ \A j \in 1..(Len(tOut) + Len(lines)) :
                 (tOut \o lines)[j] = IF j <= Len(tOut) THEN tOut[j] ELSE lines[j - Len(tOut)]
        <5>1. tOut \in Seq(TableLine) /\ lines \in Seq(TableLine)
          BY <1>1, <3>1 DEF TableInv, TableShape
        <5> QED
          BY <5>1, ConcatProperties, Zenon
      <4>2. tOut' = tOut \o lines /\ Len(lines) = heads + n
        BY <2>1, <3>1 DEF lines
      <4> QED
        BY <4>1, <4>2
    <3>4. lots \in Nat
      BY <1>1
    <3> HIDE DEF lots
    <3>5. \A j \in 1..lots : tOut'[j] = tOut[j]
      BY <1>1, <3>2, <3>3, <3>4
    <3>6. \A j \in 1..(heads + n) : tOut'[lots + j] = lines[j]
      BY <1>1, <3>2, <3>3, <3>4
    <3>7. Len(tOut') = lots + heads + n
      BY <1>1, <3>2, <3>3, <3>4
    <3>8. PICK before \in 0..1 :
            /\ \A i \in 1..before : tOut[i] = Emptiness
            /\ IF tColumns = NoValue THEN lots = before /\ many = 0
               ELSE /\ lots = before + 1 + many
                    /\ tOut[before + 1] = Header(tColumns)
                    /\ \A r \in DOMAIN tGiven : tOut[before + 1 + r] = Record(tColumns, tGiven[r], r)
      BY DEF TableInv, RowsAligned, lots, many
    <3>9. DOMAIN tGiven = 1..many /\ DOMAIN tGiven' = 1..(many + n)
      BY <1>1, <2>3 DEF many
    <3>10. lots + heads = before + 1 + many /\ before <= lots
      BY <1>1, <3>2, <3>4, <3>8
    <3>11. \A i \in 1..before : tOut'[i] = Emptiness
      BY <3>4, <3>5, <3>8, <3>10
    <3>12. Len(tOut') = before + 1 + (many + n)
      BY <1>1, <3>2, <3>4, <3>7, <3>10
    <3>13. tOut'[before + 1] = Header(columns)
      <4>1. CASE tColumns = NoValue
        <5>1. heads = 1 /\ lots = before /\ 1 \in 1..(heads + n)
          BY <1>1, <3>2, <3>8, <4>1
        <5> QED
          BY <3>1, <3>6, <5>1
      <4>2. CASE tColumns # NoValue
        <5>1. before + 1 \in 1..lots /\ tOut[before + 1] = Header(tColumns)
          BY <1>1, <3>4, <3>8, <4>2
        <5> QED
          BY <1>4, <3>5, <4>2, <5>1
      <4> QED
        BY <4>1, <4>2
    <3>14. ASSUME NEW r \in 1..many PROVE tOut'[before + 1 + r] = Record(columns, tGiven'[r], r)
      <4>1. tColumns # NoValue /\ columns = tColumns
        BY <1>1, <1>4, <3>14
      <4>2. before + 1 + r \in 1..lots /\ tOut[before + 1 + r] = Record(tColumns, tGiven[r], r)
        <5>1. lots = before + 1 + many /\ r \in DOMAIN tGiven
          BY <3>8, <3>9, <3>14, <4>1
        <5>2. before + 1 + r \in 1..lots
          BY <1>1, <5>1
        <5> QED
          BY <3>8, <4>1, <5>1, <5>2
      <4> QED
        BY <2>4, <3>5, <4>1, <4>2
    <3>15. ASSUME NEW i \in 1..n PROVE tOut'[before + 1 + (many + i)] = Record(columns, tGiven'[many + i], many + i)
      <4>1. before + 1 + (many + i) = lots + (heads + i) /\ heads + i \in 1..(heads + n)
        BY <1>1, <3>2, <3>4, <3>10
      <4> QED
        BY <2>5, <3>1, <3>6, <4>1
    <3>16. \A r \in DOMAIN tGiven' : tOut'[before + 1 + r] = Record(columns, tGiven'[r], r)
      BY <2>6, <3>9, <3>14, <3>15
    <3>17. columns # NoValue /\ tColumns' = columns
      BY <1>1, <1>4, <2>1
    <3> QED
      BY <2>3, <3>3, <3>11, <3>12, <3>13, <3>16, <3>17 DEF RowsAligned
  <2>14. TableShape'
    BY <1>1, <1>4, <2>1, <2>3, <2>8, <2>11, <2>13 DEF TableInv, TableShape
  <2>15. tAsked.selected # NoValue /\ ~tAsked.items => \A c \in ToSet(tAsked.selected) : ~Sought(c)'
    <3>1. CASE tColumns = NoValue
      BY <1>6, <2>7, <3>1 DEF MissingColumns, keys
    <3>2. CASE tColumns # NoValue
      BY <1>1, <2>7, <3>2 DEF TableInv, ColumnsAsked, many
    <3> QED
      BY <3>1, <3>2
  <2>16. ColumnsAsked'
    <3>1. Len(tGiven') # 0
      BY <1>1, <2>3
    <3> QED
      BY <1>1, <2>1, <2>10, <2>12, <2>15, <3>1 DEF ColumnsAsked
  <2>17. tAsked.selected = NoValue => \A r \in 1..(many + n) : tGiven'[r] \subseteq ToSet(columns) \cup tOmitted'
    <3> SUFFICES ASSUME tAsked.selected = NoValue PROVE \A r \in 1..(many + n) : tGiven'[r] \subseteq ToSet(columns) \cup tOmitted'
      OBVIOUS
    <3>1. \A i \in 1..n : rows[i] \subseteq ToSet(keys)
      BY <1>2
    <3>2. ToSet(keys) \subseteq ToSet(columns) \cup tOmitted'
      BY <1>1, <2>1 DEF PageColumns, Late, keys
    <3>3. \A r \in 1..many : tGiven[r] \subseteq ToSet(columns) \cup tOmitted'
      BY <1>1, <1>4, <2>1 DEF TableInv, NothingSilent, many
    <3> QED
      BY <2>4, <2>5, <2>6, <3>1, <3>2, <3>3
  <2>18. NothingSilent'
    BY <1>1, <2>1, <2>3, <2>17, NotEnded DEF NothingSilent
  <2> QED
    BY <2>13, <2>14, <2>16, <2>18 DEF TableInv
<1> QED
  BY <1>5, <1>6

LEMMA TableInvStep == TableInv /\ [TableNext]_tableVars => TableInv'
<1> SUFFICES ASSUME TableInv, [TableNext]_tableVars PROVE TableInv'
  OBVIOUS
<1>1. ASSUME NEW table \in BOOLEAN, NEW items \in BOOLEAN, NEW selected \in Selections, TableBegin(table, items, selected)
      PROVE  TableInv'
  <2>1. /\ tAsked = NoValue /\ tAsked' \in TableAsked /\ tColumns = NoValue /\ tUnseen = NoValue /\ tEnd = NoValue
        /\ Len(tGiven) = 0
        /\ UNCHANGED <<tPages, tGiven, tStarted, tColumns, tOmitted, tUnseen, tOut, tEnd>>
    BY <1>1 DEF TableBegin, TableInv, TableShape, TableAsked
  <2>2. TableShape'
    BY <2>1, AskedAssumption DEF TableInv, TableShape
  <2>3. ColumnsAsked' /\ RowsAligned' /\ NothingSilent'
    BY <2>1, NotEnded DEF TableInv, ColumnsAsked, Sought, RowsAligned, NothingSilent
  <2> QED
    BY <2>2, <2>3 DEF TableInv
<1>2. ASSUME NEW n \in 1..MaxRows, NEW rows \in [1..n -> SUBSET ColumnKey], TablePage(rows) PROVE TableInv'
  BY <1>2, PageStep
<1>3. CASE TableEmptyPage
  <2>1. /\ tAsked \in TableAsked /\ tAsked # NoValue /\ tEnd = NoValue
        /\ tOut' = IF tAsked.table /\ ~tStarted THEN Append(tOut, Emptiness) ELSE tOut
        /\ tStarted' = TRUE
        /\ tPages' = tPages + 1 /\ tPages \in 0..MaxPages /\ tPages < MaxPages /\ MaxPages \in Nat
        /\ UNCHANGED <<tAsked, tGiven, tColumns, tOmitted, tUnseen, tEnd>>
    BY <1>3, PageTableAssumption DEF TableEmptyPage, TableInv, TableShape
  <2>2. Emptiness \in TableLine
    <3>1. << >> \in Seq(Nat)
      OBVIOUS
    <3> QED
      BY <3>1 DEF Emptiness, TableLine
  <2>3. tOut \in Seq(TableLine) /\ (~tStarted => Len(tOut) = 0 /\ tColumns = NoValue)
    BY DEF TableInv, TableShape
  <2>4. TableShape'
    BY <2>1, <2>2, <2>3 DEF TableInv, TableShape
  <2>5. RowsAligned'
    <3>1. CASE tOut' = tOut
      BY <2>1, <3>1 DEF TableInv, RowsAligned
    <3>2. CASE tOut' = Append(tOut, Emptiness) /\ ~tStarted
      <4>1. Len(tOut') = 1 /\ tOut'[1] = Emptiness /\ tColumns' = NoValue
        <5>1. tOut' = Append(tOut, Emptiness) /\ Len(tOut) = 0 /\ tOut \in Seq(TableLine) /\ tColumns' = NoValue
          BY <2>1, <2>3, <3>2
        <5> QED
          BY <5>1, <2>2
      <4>2. Len(tGiven') = 0
        BY <2>1, <2>3, <3>2 DEF TableInv, TableShape
      <4>3. 1 \in 0..1 /\ \A i \in 1..1 : i = 1
        OBVIOUS
      <4> QED
        BY <4>1, <4>2, <4>3 DEF RowsAligned
    <3> QED
      BY <2>1, <3>1, <3>2
  <2>6. ColumnsAsked' /\ NothingSilent'
    BY <2>1, NotEnded DEF TableInv, ColumnsAsked, Sought, NothingSilent
  <2> QED
    BY <2>4, <2>5, <2>6 DEF TableInv
<1>4. CASE TableFinish
  <2>1. /\ tAsked \in TableAsked /\ tAsked # NoValue /\ tEnd = NoValue
        /\ tEnd' = IF tUnseen \in {NoValue, {}} THEN "ok" ELSE "validation"
        /\ UNCHANGED <<tAsked, tPages, tGiven, tStarted, tColumns, tOmitted, tUnseen, tOut>>
    BY <1>4 DEF TableFinish, TableInv, TableShape
  <2>2. TableShape' /\ ColumnsAsked' /\ RowsAligned'
    <3>1. TableShape' /\ ColumnsAsked'
      BY <2>1 DEF TableInv, TableShape, ColumnsAsked, Sought
    <3>2. RowsAligned'
      BY <2>1 DEF TableInv, RowsAligned
    <3> QED
      BY <3>1, <3>2
  <2>3. tAsked.selected # NoValue /\ tEnd' = "ok" /\ Len(tGiven) # 0 =>
          \A c \in ToSet(tAsked.selected) : ~Sought(c)
    <3> SUFFICES ASSUME tAsked.selected # NoValue, tEnd' = "ok", Len(tGiven) # 0, NEW c \in ToSet(tAsked.selected)
                 PROVE  ~Sought(c)
      OBVIOUS
    <3>1. CASE tAsked.items
      <4>1. tUnseen # NoValue
        BY <2>1, <3>1 DEF TableInv, ColumnsAsked
      <4>2. tUnseen = {}
        BY <2>1, <4>1
      <4> QED
        BY <2>1, <4>1, <4>2 DEF TableInv, ColumnsAsked
    <3>2. CASE ~tAsked.items
      BY <2>1, <3>2 DEF TableInv, ColumnsAsked
    <3> QED
      BY <3>1, <3>2
  <2>4. tAsked.items /\ tEnd' = "validation" => \E c \in ToSet(tAsked.selected) : Sought(c)
    <3> SUFFICES ASSUME tAsked.items, tEnd' = "validation" PROVE \E c \in ToSet(tAsked.selected) : Sought(c)
      OBVIOUS
    <3>1. tUnseen # NoValue /\ tUnseen # {}
      BY <2>1
    <3>2. PICK c \in tUnseen : TRUE
      BY <3>1, <2>1 DEF TableInv, TableShape
    <3> QED
      BY <2>1, <3>1, <3>2 DEF TableInv, ColumnsAsked
  <2>5. tGiven \in Seq(SUBSET ColumnKey) /\ DOMAIN tGiven = 1..Len(tGiven)
    BY DEF TableInv, TableShape
  <2>6. tGiven # << >> => Len(tGiven) # 0
    BY <2>5
  <2>7. NothingSilent'
    BY <2>1, <2>3, <2>4, <2>5, <2>6 DEF TableInv, NothingSilent, Sought
  <2> QED
    BY <2>2, <2>7 DEF TableInv
<1>5. CASE UNCHANGED tableVars
  <2>1. TableShape' /\ ColumnsAsked' /\ NothingSilent'
    BY <1>5 DEF tableVars, TableInv, TableShape, ColumnsAsked, Sought, NothingSilent
  <2>2. RowsAligned'
    BY <1>5 DEF tableVars, TableInv, RowsAligned
  <2> QED
    BY <2>1, <2>2 DEF TableInv
<1> QED
  BY <1>1, <1>2, <1>3, <1>4, <1>5 DEF TableNext

LEMMA TableBegins == TableInit => TableInv
<1> SUFFICES ASSUME TableInit PROVE TableInv
  OBVIOUS
<1>1. TableShape
  <2>1. << >> \in Seq(SUBSET ColumnKey) /\ << >> \in Seq(TableLine) /\ Len(<< >>) = 0
    OBVIOUS
  <2>2. 0 \in 0..MaxPages /\ 0 <= MaxRows
    BY PageTableAssumption
  <2>3. /\ tAsked = NoValue /\ tPages = 0 /\ tGiven = << >> /\ tStarted = FALSE
        /\ tColumns = NoValue /\ tOmitted = {} /\ tUnseen = NoValue /\ tOut = << >> /\ tEnd = NoValue
    BY DEF TableInit
  <2>4. /\ tGiven \in Seq(SUBSET ColumnKey) /\ tOut \in Seq(TableLine)
        /\ Len(tGiven) = 0 /\ Len(tOut) = 0
    BY <2>1, <2>3
  <2>5. /\ tAsked \in TableAsked \cup {NoValue} /\ tPages \in 0..MaxPages /\ Len(tGiven) <= MaxRows
        /\ tStarted \in BOOLEAN /\ tColumns \in Seq(ColumnKey) \cup {NoValue}
    BY <2>2, <2>3, <2>4
  <2>6. /\ tOmitted \subseteq ColumnKey
        /\ tEnd \in {"ok", "validation", NoValue}
    BY <2>3
  <2>7. tColumns = NoValue <=> Len(tGiven) = 0
    BY <2>3, <2>4
  <2>8. tUnseen \in {NoValue} \cup SUBSET ColumnKey
    BY <2>3
  <2> QED
    BY <2>3, <2>4, <2>5, <2>6, <2>7, <2>8 DEF TableShape
<1>2. RowsAligned
  <2>1. 0 \in 0..1 /\ 1..0 = {}
    OBVIOUS
  <2> QED
    BY <2>1 DEF TableInit, RowsAligned
<1> QED
  BY <1>1, <1>2 DEF TableInit, TableInv, ColumnsAsked, NothingSilent

-----------------------------------------------------------------------------
\* The times of an event.

Zone == {"gap", "fold", "utc"}

\* The instants at which a clock shows n: none where it is put forward, two where it is
\* put back.
LEMMA InstantsAre ==
  ASSUME NEW tz \in Zone, NEW n \in Int
  PROVE  Instants(tz, n) =
           IF tz = "utc" \/ (tz = "gap" /\ n < Change) \/ (tz = "fold" /\ n < Change - 1) THEN {n}
           ELSE IF tz = "gap" THEN IF n = Change THEN {} ELSE {n - 1}
           ELSE IF n = Change - 1 THEN {n, n + 1} ELSE {n + 1}
  BY TimesAssumption DEF Zone, Instants, Clock

LEMMA LeastIs ==
  ASSUME NEW n \in Int
  PROVE  Min({n}) = n /\ Min({n, n + 1}) = n
  BY DEF Min

\* The first of them, or nothing.
FirstAt(tz, n) ==
  IF tz = "gap" THEN IF n < Change THEN n ELSE IF n = Change THEN NoValue ELSE n - 1
  ELSE IF tz = "utc" \/ n < Change THEN n ELSE n + 1

LEMMA FirstIs ==
  ASSUME NEW tz \in Zone, NEW n \in Int
  PROVE  /\ FirstAt(tz, n) = IF Instants(tz, n) = {} THEN NoValue ELSE Min(Instants(tz, n))
         /\ FirstAt(tz, n) = NoValue <=> tz = "gap" /\ n = Change
         /\ FirstAt(tz, n) # NoValue => FirstAt(tz, n) \in Instants(tz, n) /\ FirstAt(tz, n) \in Int
<1> DEFINE before == n - 1
           after == n + 1
<1>1. before \in Int /\ after \in Int /\ NoValue \notin Int /\ before = n - 1 /\ after = n + 1
  BY NothingAssumption
<1>2. Min({n}) = n /\ Min({n, after}) = n /\ Min({before}) = before /\ Min({after}) = after
  BY <1>1, LeastIs
<1> HIDE DEF before, after
<1>6. Instants(tz, n) =
        IF tz = "utc" \/ (tz = "gap" /\ n < Change) \/ (tz = "fold" /\ n < Change - 1) THEN {n}
        ELSE IF tz = "gap" THEN IF n = Change THEN {} ELSE {before}
        ELSE IF n = Change - 1 THEN {n, after} ELSE {after}
  BY <1>1, InstantsAre
<1>3. CASE tz = "utc"
  BY <1>1, <1>2, <1>3, <1>6 DEF FirstAt
<1>4. CASE tz = "gap"
  <2>1. CASE n < Change
    <3>1. Instants(tz, n) = {n} /\ {n} # {}
      BY <1>4, <1>6, <2>1
    <3>2. FirstAt(tz, n) = n /\ ~(tz = "gap" /\ n = Change)
      BY <1>4, <2>1, TimesAssumption DEF FirstAt
    <3> QED
      BY <1>1, <1>2, <3>1, <3>2, Zenon
  <2>2. CASE n = Change
    BY <1>1, <1>4, <2>2, <1>6, TimesAssumption DEF FirstAt
  <2>3. CASE n > Change
    BY <1>1, <1>2, <1>4, <2>3, <1>6, TimesAssumption DEF FirstAt
  <2> QED
    BY <2>1, <2>2, <2>3, TimesAssumption
<1>5. CASE tz = "fold"
  <2>1. CASE n < Change - 1
    <3>1. Instants(tz, n) = {n} /\ {n} # {}
      BY <1>5, <1>6, <2>1
    <3>2. FirstAt(tz, n) = n /\ ~(tz = "gap" /\ n = Change)
      BY <1>5, <2>1, TimesAssumption DEF FirstAt
    <3> QED
      BY <1>1, <1>2, <3>1, <3>2, Zenon
  <2>2. CASE n = Change - 1
    BY <1>1, <1>2, <1>5, <2>2, <1>6, TimesAssumption DEF FirstAt
  <2>3. CASE n > Change - 1
    BY <1>1, <1>2, <1>5, <2>3, <1>6, TimesAssumption DEF FirstAt
  <2> QED
    BY <2>1, <2>2, <2>3, TimesAssumption
<1> QED
  BY <1>3, <1>4, <1>5 DEF Zone

LEMMA TwiceIs ==
  ASSUME NEW tz \in Zone, NEW n \in Int
  PROVE  /\ Cardinality(Instants(tz, n)) > 1 <=> tz = "fold" /\ n = Change - 1
         /\ Cardinality(Instants(tz, n)) = 1 <=>
              Instants(tz, n) # {} /\ ~(tz = "fold" /\ n = Change - 1)
         /\ ~(tz = "fold" /\ n = Change - 1) => \A u \in Instants(tz, n) : u = FirstAt(tz, n)
<1> DEFINE before == n - 1
           after == n + 1
<1>0. before \in Int /\ after \in Int /\ before = n - 1 /\ after = n + 1
  OBVIOUS
<1> HIDE DEF before, after
<1>1. Cardinality({}) = 0 /\ Cardinality({n}) = 1 /\ Cardinality({before}) = 1 /\ Cardinality({after}) = 1
  BY FS_EmptySet, FS_Singleton, Zenon
<1>2. Cardinality({n, after}) = 2
  <2>1. after \notin {n} /\ {n, after} = {n} \cup {after}
    BY <1>0
  <2>2. IsFiniteSet({n})
    BY FS_Singleton, Zenon
  <2>3. Cardinality({n} \cup {after}) = Cardinality({n}) + 1
    BY <2>1, <2>2, FS_AddElement
  <2> QED
    BY <1>1, <2>1, <2>3
<1>3. Instants(tz, n) =
        IF tz = "utc" \/ (tz = "gap" /\ n < Change) \/ (tz = "fold" /\ n < Change - 1) THEN {n}
        ELSE IF tz = "gap" THEN IF n = Change THEN {} ELSE {before}
        ELSE IF n = Change - 1 THEN {n, after} ELSE {after}
  BY <1>0, InstantsAre
<1>4. CASE tz = "utc"
  BY <1>1, <1>3, <1>4 DEF FirstAt
<1>5. CASE tz = "gap"
  BY <1>0, <1>1, <1>3, <1>5, TimesAssumption DEF FirstAt
<1>6. CASE tz = "fold"
  BY <1>0, <1>1, <1>2, <1>3, <1>6, TimesAssumption DEF FirstAt
<1> QED
  BY <1>4, <1>5, <1>6 DEF Zone

\* A local time that follows another does not come before it, wherever it is.
LEMMA InOrderEverywhere ==
  ASSUME NEW tz \in Zone, NEW m \in Int, NEW n \in Int, m <= n,
         FirstAt(tz, m) # NoValue, FirstAt(tz, n) # NoValue
  PROVE  FirstAt(tz, m) <= FirstAt(tz, n)
<1>1. CASE tz = "utc"
  BY <1>1 DEF FirstAt
<1>2. CASE tz = "gap"
  <2>1. m # Change /\ n # Change
    BY <1>2, TimesAssumption DEF FirstAt
  <2> QED
    BY <1>2, <2>1, TimesAssumption DEF FirstAt
<1>3. CASE tz = "fold"
  BY <1>3, TimesAssumption DEF FirstAt
<1> QED
  BY <1>1, <1>2, <1>3 DEF Zone

\* What the clock shows at an instant is shown then.
LEMMA ClockShows ==
  ASSUME NEW tz \in Zone, NEW u \in Int
  PROVE  Clock(tz, u) \in Int /\ u \in Instants(tz, Clock(tz, u))
  BY TimesAssumption DEF Zone, Instants, Clock

\* The instants a time may stand for.
Readings(when, tz) == IF when.kind = "instant" THEN {when.at} ELSE Instants(tz, when.at)

LEMMA UtcIs ==
  ASSUME NEW tz \in Zone, NEW when \in Moment
  PROVE  /\ ToUtc(when, tz) = IF when.kind = "instant" THEN when.at ELSE FirstAt(tz, when.at)
         /\ ToUtc(when, tz) # NoValue => ToUtc(when, tz) \in Readings(when, tz) /\ ToUtc(when, tz) \in Int
<1>1. when.at \in Int /\ NoValue \notin Int
  BY NothingAssumption DEF Moment
<1>2. /\ FirstAt(tz, when.at) = IF Instants(tz, when.at) = {} THEN NoValue ELSE Min(Instants(tz, when.at))
      /\ FirstAt(tz, when.at) # NoValue =>
           FirstAt(tz, when.at) \in Instants(tz, when.at) /\ FirstAt(tz, when.at) \in Int
  BY <1>1, FirstIs
<1> HIDE DEF FirstAt
<1> QED
  BY <1>1, <1>2 DEF ToUtc, Readings

\* A length is added in real time, and what comes of it means one instant.
LEMMA PlusIs ==
  ASSUME NEW tz \in Zone, NEW when \in Moment, NEW d \in Int,
         when.kind # "date", ToUtc(when, tz) # NoValue
  PROVE  /\ Plus(when, d, tz) \in Moment /\ Plus(when, d, tz).kind # "date"
         /\ when.kind = "instant" => Plus(when, d, tz).kind = "instant"
         /\ ToUtc(Plus(when, d, tz), tz) = ToUtc(when, tz) + d
         /\ \A u \in Readings(Plus(when, d, tz), tz) : u = ToUtc(when, tz) + d
<1> DEFINE to == ToUtc(when, tz) + d
           shown == Clock(tz, to)
<1>1. to \in Int /\ NoValue \notin Int
  BY UtcIs, NothingAssumption
<1>2. Plus(when, d, tz) =
        IF when.kind = "local" /\ Cardinality(Instants(tz, shown)) = 1 THEN Local(shown) ELSE Instant(to)
  BY DEF Plus
<1> HIDE DEF to
<1>3. shown \in Int /\ to \in Instants(tz, shown)
  BY <1>1, ClockShows
<1> HIDE DEF shown
<1>4. CASE when.kind = "local" /\ Cardinality(Instants(tz, shown)) = 1
  <2> DEFINE end == Local(shown)
  <2>1. Plus(when, d, tz) = end /\ end \in Moment /\ end.kind = "local" /\ end.at = shown
    BY <1>2, <1>3, <1>4 DEF Local, Moment
  <2>2. \A u \in Instants(tz, shown) : u = FirstAt(tz, shown)
    BY <1>3, <1>4, TwiceIs
  <2>3. to = FirstAt(tz, shown)
    BY <1>3, <2>2
  <2> HIDE DEF end
  <2>4. ToUtc(end, tz) = to
    BY <2>1, <2>3, UtcIs
  <2>5. \A u \in Readings(end, tz) : u = to
    BY <2>1, <2>2, <2>3 DEF Readings
  <2> QED
    BY <1>4, <2>1, <2>4, <2>5 DEF to
<1>5. CASE ~(when.kind = "local" /\ Cardinality(Instants(tz, shown)) = 1)
  <2> DEFINE end == Instant(to)
  <2>1. Plus(when, d, tz) = end /\ end \in Moment /\ end.kind = "instant" /\ end.at = to
    BY <1>1, <1>2, <1>5 DEF Instant, Moment
  <2> HIDE DEF end
  <2>2. ToUtc(end, tz) = to
    BY <2>1, UtcIs
  <2>3. \A u \in Readings(end, tz) : u = to
    BY <2>1 DEF Readings
  <2> QED
    BY <2>1, <2>2, <2>3 DEF to
<1> QED
  BY <1>4, <1>5

LEMMA SaidIs ==
  ASSUME NEW ask \in EventAsk
  PROVE  /\ ask.op \in {"insert", "update"} /\ ask.dryRun \in BOOLEAN
         /\ ask.start = NoValue \/ ask.start \in Moment
         /\ ask.end = NoValue \/ ask.end \in Moment
         /\ ask.duration = NoValue \/ ask.duration \in 1..2
         /\ ask.zone = NoValue \/ ask.zone \in LocalZone
         /\ ask.end = NoValue \/ ask.duration = NoValue
         /\ ask.op = "insert" => ask.start # NoValue
         /\ ask.op = "update" => ask.start # NoValue \/ ask.end # NoValue \/ ask.duration # NoValue
<1>1. When \subseteq Moment
  BY TimesAssumption DEF When, Moment, Date, Instant, Local
<1> QED
  BY <1>1 DEF EventAsk, Opt

\* An event has two ends of one kind, the second after the first.
LEMMA ServedEvent ==
  ASSUME NEW event \in EventOnServer
  PROVE  /\ event \in [start : EventTime, end : EventTime] /\ event # NoValue
         /\ event.start.date = NoValue <=> event.start.dateTime # NoValue
         /\ event.end.date = NoValue <=> event.end.dateTime # NoValue
         /\ event.start.date = NoValue <=> event.end.date = NoValue
         /\ Length(event) \in Nat \ {0}
<1>1. 1 # NoValue /\ 2 # NoValue /\ 3 # NoValue
  BY NothingAssumption
<1>2. \/ event = [start |-> Dated(1), end |-> Dated(3)]
      \/ event = [start |-> Stamped(1, NoValue), end |-> Stamped(3, NoValue)]
      \/ event = [start |-> Stamped(2, "home"), end |-> Stamped(3, "away")]
  BY DEF EventOnServer, AllDay, Timed
<1>3. /\ Dated(1) \in EventTime /\ Dated(3) \in EventTime
      /\ Stamped(1, NoValue) \in EventTime /\ Stamped(3, NoValue) \in EventTime
      /\ Stamped(2, "home") \in EventTime /\ Stamped(3, "away") \in EventTime
  BY DEF Dated, Stamped, EventTime, Opt
<1>4. event \in [start : EventTime, end : EventTime]
  BY <1>2, <1>3
<1>5. CASE event = [start |-> Dated(1), end |-> Dated(3)]
  BY <1>1, <1>4, <1>5, NothingAssumption DEF Length, Dated, Stamped
<1>6. CASE event = [start |-> Stamped(1, NoValue), end |-> Stamped(3, NoValue)]
  BY <1>1, <1>4, <1>6, NothingAssumption DEF Length, Dated, Stamped
<1>7. CASE event = [start |-> Stamped(2, "home"), end |-> Stamped(3, "away")]
  BY <1>1, <1>4, <1>7, NothingAssumption DEF Length, Dated, Stamped
<1> QED
  BY <1>2, <1>5, <1>6, <1>7

\* Its ends as they are parsed back.
LEMMA CurrentIs ==
  ASSUME NEW event \in EventOnServer, NEW from, NEW to,
         from = CurrentWhen(event.start), to = CurrentWhen(event.end)
  PROVE  /\ from \in Moment /\ to \in Moment /\ from.kind = to.kind /\ from.kind # "local"
         /\ to.at - from.at = Length(event) /\ Length(event) \in Int
<1>1. /\ event.start.date = NoValue <=> event.start.dateTime # NoValue
      /\ event.end.date = NoValue <=> event.end.dateTime # NoValue
      /\ event.start.date = NoValue <=> event.end.date = NoValue
      /\ Length(event) \in Nat
  BY ServedEvent
<1>2. \A time \in {event.start, event.end} :
        (time.date = NoValue \/ time.date \in Nat) /\ (time.dateTime = NoValue \/ time.dateTime \in Nat)
  BY ServedEvent DEF EventTime, Opt
<1>3. CASE event.start.date = NoValue
  <2>1. /\ from = [kind |-> "instant", at |-> event.start.dateTime]
        /\ to = [kind |-> "instant", at |-> event.end.dateTime]
    BY <1>1, <1>3 DEF CurrentWhen, Instant
  <2>2. event.start.dateTime \in Nat /\ event.end.dateTime \in Nat
    BY <1>1, <1>2, <1>3
  <2>3. Length(event) = event.end.dateTime - event.start.dateTime
    BY <1>1, <1>3 DEF Length
  <2> QED
    BY <2>1, <2>2, <2>3, <1>1 DEF Moment
<1>4. CASE event.start.date # NoValue
  <2>1. /\ from = [kind |-> "date", at |-> event.start.date]
        /\ to = [kind |-> "date", at |-> event.end.date]
    BY <1>1, <1>4 DEF CurrentWhen, Date
  <2>2. event.start.date \in Nat /\ event.end.date \in Nat
    BY <1>1, <1>2, <1>4
  <2>3. Length(event) = event.end.date - event.start.date
    BY <1>1, <1>4 DEF Length
  <2> QED
    BY <2>1, <2>2, <2>3, <1>1 DEF Moment
<1> QED
  BY <1>3, <1>4

\* A range that is not refused is the two times it was made of, in order.
LEMMA CheckedIs ==
  ASSUME NEW start, NEW end, NEW tz
  PROVE  Checked(start, end, tz) # NoValue =>
           /\ Checked(start, end, tz) = <<start, end>>
           /\ end # NoValue /\ CheckRange(start, end, tz)
  BY DEF Checked

LEMMA ResolvedIs ==
  ASSUME NEW tz \in Zone, NEW start \in Moment, NEW end, end = NoValue \/ end \in Moment,
         NEW duration, duration = NoValue \/ duration \in 1..2, end = NoValue \/ duration = NoValue,
         ResolveRange(start, end, duration, tz) # NoValue
  PROVE  \E last \in Moment :
           /\ ResolveRange(start, end, duration, tz) = <<start, last>> /\ CheckRange(start, last, tz)
           /\ end # NoValue => last = end
           /\ end = NoValue /\ duration # NoValue =>
                /\ start.kind # "date" /\ ToUtc(start, tz) # NoValue
                /\ last = Plus(start, duration, tz)
           /\ end = NoValue /\ duration = NoValue => start.kind = "date" /\ last = Date(start.at + 1)
<1> DEFINE last == IF end # NoValue THEN end
                   ELSE IF duration # NoValue THEN Plus(start, duration, tz)
                   ELSE IF start.kind = "date" THEN Date(start.at + 1) ELSE NoValue
<1>1. ResolveRange(start, end, duration, tz) = Checked(start, last, tz)
  BY DEF ResolveRange
<1>2. ResolveRange(start, end, duration, tz) = <<start, last>> /\ last # NoValue /\ CheckRange(start, last, tz)
  BY <1>1, CheckedIs
<1>3. CASE end # NoValue
  BY <1>2, <1>3
<1>4. CASE end = NoValue /\ duration # NoValue
  <2>1. last = Plus(start, duration, tz) /\ duration \in Int
    BY <1>4
  <2>2. start.kind # "date" /\ ToUtc(start, tz) # NoValue
    BY <1>2, <2>1 DEF Plus
  <2>3. last \in Moment
    BY <2>1, <2>2, PlusIs
  <2> QED
    BY <1>2, <1>4, <2>1, <2>2, <2>3
<1>5. CASE end = NoValue /\ duration = NoValue
  <2>1. start.kind = "date" /\ last = Date(start.at + 1)
    BY <1>2, <1>5
  <2>2. last \in Moment
    BY <2>1 DEF Date, Moment
  <2> QED
    BY <1>2, <1>5, <2>1, <2>2
<1> QED
  BY <1>3, <1>4, <1>5

\* The length that was said, or kept.
SaidLength ==
  IF vAsk.duration # NoValue THEN vAsk.duration ELSE IF vAsk.op = "update" THEN Length(vSaw) ELSE 1

\* The two times of the range that is written.
RangeSaid(start, end) ==
  /\ CheckRange(start, end, vZone)
  /\ vAsk.start # NoValue => start = vAsk.start
  /\ vAsk.start = NoValue => start.kind # "local"
  /\ vAsk.end # NoValue => end = vAsk.end
  /\ vAsk.end = NoValue =>
       \/ start.kind = "date" /\ end = Date(start.at + SaidLength)
       \/ start.kind # "date" /\ ToUtc(start, vZone) # NoValue /\ end = Plus(start, SaidLength, vZone)

LEMMA RangeIs ==
  ASSUME vAsk \in EventAsk, vZone \in Zone, vSaw = NoValue \/ vSaw \in EventOnServer,
         EventRange # NoValue
  PROVE  \E start, end \in Moment : EventRange = <<start, end>> /\ RangeSaid(start, end)
<1> DEFINE start == IF vAsk.start # NoValue THEN vAsk.start
                    ELSE IF vSaw # NoValue THEN CurrentWhen(vSaw.start) ELSE NoValue
<1>1. /\ vAsk.op \in {"insert", "update"}
      /\ vAsk.start = NoValue \/ vAsk.start \in Moment
      /\ vAsk.end = NoValue \/ vAsk.end \in Moment
      /\ vAsk.duration = NoValue \/ vAsk.duration \in 1..2
      /\ vAsk.end = NoValue \/ vAsk.duration = NoValue
      /\ vAsk.op = "insert" => vAsk.start # NoValue
      /\ vAsk.op = "update" => vAsk.start # NoValue \/ vAsk.end # NoValue \/ vAsk.duration # NoValue
  BY SaidIs
<1>2. /\ start \in Moment
      /\ vAsk.start = NoValue => start.kind # "local"
      /\ EventRange = IF vAsk.op = "update" /\ vAsk.end = NoValue /\ vAsk.duration = NoValue
                        THEN KeepLength(start)
                      ELSE ResolveRange(start, vAsk.end, vAsk.duration, vZone)
  <2>1. start # NoValue
    BY DEF EventRange
  <2>2. CASE vAsk.start # NoValue
    BY <1>1, <2>1, <2>2 DEF EventRange
  <2>3. CASE vAsk.start = NoValue
    <3>1. vSaw \in EventOnServer /\ start = CurrentWhen(vSaw.start)
      BY <2>1, <2>3
    <3>2. start \in Moment /\ start.kind # "local"
      BY <3>1, CurrentIs
    <3> QED
      BY <2>1, <2>3, <3>2 DEF EventRange
  <2> QED
    BY <2>2, <2>3
<1>3. vAsk.start # NoValue => start = vAsk.start
  OBVIOUS
<1> HIDE DEF start
<1>4. CASE vAsk.op = "update" /\ vAsk.end = NoValue /\ vAsk.duration = NoValue
  <2> DEFINE from == CurrentWhen(vSaw.start)
             to == CurrentWhen(vSaw.end)
             length == to.at - from.at
  <2>1. vSaw \in EventOnServer /\ EventRange = KeepLength(start)
    BY <1>2, <1>4 DEF KeepLength
  <2>2. /\ from \in Moment /\ to \in Moment /\ from.kind = to.kind
        /\ length = Length(vSaw) /\ Length(vSaw) \in Int
    BY <2>1, CurrentIs
  <2>3. SaidLength = Length(vSaw)
    BY <1>4 DEF SaidLength
  <2>4. KeepLength(start) = IF "date" \notin {from.kind, start.kind} THEN Checked(start, Plus(start, length, vZone), vZone)
                            ELSE IF from.kind = start.kind THEN Checked(start, Date(start.at + length), vZone)
                            ELSE NoValue
    <3>1. vSaw # NoValue
      BY <2>1, ServedEvent
    <3> QED
      BY <3>1 DEF KeepLength
  <2> HIDE DEF from, to, length
  <2>5. CASE start.kind # "date" /\ from.kind # "date"
    <3>1. EventRange = Checked(start, Plus(start, length, vZone), vZone)
      BY <2>1, <2>4, <2>5
    <3>2. /\ EventRange = <<start, Plus(start, length, vZone)>> /\ Plus(start, length, vZone) # NoValue
          /\ CheckRange(start, Plus(start, length, vZone), vZone)
      BY <3>1, CheckedIs
    <3>3. ToUtc(start, vZone) # NoValue
      BY <3>2 DEF Plus
    <3>4. Plus(start, length, vZone) \in Moment
      BY <1>2, <2>2, <2>5, <3>3, PlusIs
    <3> QED
      BY <1>2, <1>3, <1>4, <2>2, <2>3, <2>5, <3>2, <3>3, <3>4 DEF RangeSaid
  <2>6. CASE start.kind = "date" /\ from.kind = "date"
    <3>1. EventRange = Checked(start, Date(start.at + length), vZone)
      BY <2>1, <2>4, <2>6
    <3>2. /\ EventRange = <<start, Date(start.at + length)>>
          /\ CheckRange(start, Date(start.at + length), vZone)
      BY <3>1, CheckedIs
    <3>3. Date(start.at + length) \in Moment
      <4>1. start.at \in Int
        BY <1>2 DEF Moment
      <4> QED
        BY <2>2, <4>1 DEF Date, Moment
    <3> QED
      BY <1>2, <1>3, <1>4, <2>2, <2>3, <2>6, <3>2, <3>3 DEF RangeSaid
  <2> QED
    BY <2>1, <2>4, <2>5, <2>6
<1>5. CASE ~(vAsk.op = "update" /\ vAsk.end = NoValue /\ vAsk.duration = NoValue)
  <2>1. EventRange = ResolveRange(start, vAsk.end, vAsk.duration, vZone)
    BY <1>2, <1>5
  <2>2. PICK last \in Moment :
           /\ EventRange = <<start, last>> /\ CheckRange(start, last, vZone)
           /\ vAsk.end # NoValue => last = vAsk.end
           /\ vAsk.end = NoValue /\ vAsk.duration # NoValue =>
                /\ start.kind # "date" /\ ToUtc(start, vZone) # NoValue
                /\ last = Plus(start, vAsk.duration, vZone)
           /\ vAsk.end = NoValue /\ vAsk.duration = NoValue => start.kind = "date" /\ last = Date(start.at + 1)
    BY <1>1, <1>2, <2>1, ResolvedIs
  <2>3. vAsk.end = NoValue => SaidLength = IF vAsk.duration # NoValue THEN vAsk.duration ELSE 1
    BY <1>5 DEF SaidLength
  <2>4. RangeSaid(start, last)
    BY <1>2, <1>3, <2>2, <2>3 DEF RangeSaid
  <2> QED
    BY <1>2, <2>2, <2>4
<1> QED
  BY <1>4, <1>5

\* A time as the server has it after the request.
Stands(time, when) ==
  IF when.kind = "date" THEN time.date = when.at /\ time.dateTime = NoValue
  ELSE time.date = NoValue /\ time.dateTime \in Readings(when, vZone)

LEMMA MergedIs ==
  ASSUME NEW when \in Moment, NEW tz, when.kind = "local" => tz = vZone /\ tz # NoValue,
         NEW old \in EventTime, NEW written,
         written = PatchEventTime(when, tz) \/ (written = ToEventTime(when, tz) /\ old = Unset),
         NEW time \in Merged(old, written)
  PROVE  /\ Stands(time, when)
         /\ time = [date |-> time.date, dateTime |-> time.dateTime, zone |-> time.zone]
         /\ time.zone \in {old.zone, tz}
<1> DEFINE over == [f \in DOMAIN old |-> IF f \in DOMAIN written THEN written[f] ELSE old[f]]
<1>1. /\ when # NoValue /\ when.kind \in {"date", "instant", "local"}
      /\ old = [date |-> old.date, dateTime |-> old.dateTime, zone |-> old.zone]
  BY NothingAssumption DEF Moment, EventTime
<1>2. CASE when.kind = "date"
  <2>1. over = [date |-> when.at, dateTime |-> NoValue, zone |-> old.zone]
    <3>1. CASE written = PatchEventTime(when, tz)
      <4>1. written = [date |-> when.at, dateTime |-> NoValue]
        BY <1>2, <3>1 DEF PatchEventTime, ToEventTime, Clearing
      <4> QED
        BY <1>1, <4>1
    <3>2. CASE written = ToEventTime(when, tz) /\ old = Unset
      <4>1. written = [date |-> when.at]
        BY <1>2, <3>2 DEF ToEventTime
      <4> QED
        BY <3>2, <4>1 DEF Unset
    <3> QED
      BY <3>1, <3>2
  <2>2. time = over
    BY <2>1 DEF Merged
  <2> QED
    BY <1>2, <2>1, <2>2 DEF Stands
<1>3. CASE when.kind # "date"
  <2>1. /\ over = [date |-> NoValue, dateTime |-> when, zone |-> IF tz = NoValue THEN old.zone ELSE tz]
        /\ "dateTime" \in DOMAIN written
    <3>1. CASE written = PatchEventTime(when, tz)
      <4>1. written = IF tz = NoValue THEN [date |-> NoValue, dateTime |-> when]
                      ELSE [date |-> NoValue, dateTime |-> when, zone |-> tz]
        BY <1>3, <3>1 DEF PatchEventTime, ToEventTime, Clearing
      <4> QED
        BY <1>1, <4>1
    <3>2. CASE written = ToEventTime(when, tz) /\ old = Unset
      <4>1. written = IF tz = NoValue THEN [dateTime |-> when] ELSE [dateTime |-> when, zone |-> tz]
        BY <1>3, <3>2 DEF ToEventTime
      <4> QED
        BY <3>2, <4>1 DEF Unset
    <3> QED
      BY <3>1, <3>2
  <2> HIDE DEF over
  <2>2. over.dateTime = when /\ over.date = NoValue /\ (tz # NoValue => over.zone = tz)
    BY <2>1
  <2>3. PICK u \in IF when.kind = "instant" THEN {when.at} ELSE Instants(over.zone, when.at) :
          time = [over EXCEPT !.dateTime = u]
    BY <1>1, <2>1, <2>2 DEF Merged, over
  <2>4. u \in Readings(when, vZone)
    BY <1>1, <1>3, <2>2, <2>3 DEF Readings
  <2>5. /\ time = [date |-> NoValue, dateTime |-> u, zone |-> over.zone]
        /\ over.zone \in {old.zone, tz}
    BY <2>1, <2>3
  <2> QED
    BY <1>3, <2>4, <2>5 DEF Stands
<1> QED
  BY <1>2, <1>3

LEMMA OneReading ==
  ASSUME NEW tz \in Zone, NEW when \in Moment, when.kind # "date", ToUtc(when, tz) # NoValue,
         when.kind = "local" => ~(Cardinality(Instants(tz, when.at)) > 1)
  PROVE  \A u \in Readings(when, tz) : u = ToUtc(when, tz)
<1>1. when.at \in Int /\ when.kind \in {"date", "instant", "local"}
  BY DEF Moment
<1>2. CASE when.kind = "instant"
  BY <1>2, UtcIs DEF Readings
<1>3. CASE when.kind = "local"
  <2>1. \A u \in Instants(tz, when.at) : u = FirstAt(tz, when.at)
    BY <1>1, <1>3, TwiceIs
  <2>2. ToUtc(when, tz) = FirstAt(tz, when.at)
    BY <1>3, UtcIs
  <2> QED
    BY <1>3, <2>1, <2>2 DEF Readings
<1> QED
  BY <1>1, <1>2, <1>3

\* The event that was written, in the times of its range.
LEMMA EventFits ==
  ASSUME vAsk \in EventAsk, vZone \in Zone, NEW start \in Moment, NEW end \in Moment, RangeSaid(start, end),
         vAsk.end = NoValue => SaidLength \in Int,
         NEW event, Stands(event.start, start), Stands(event.end, end)
  PROVE  /\ event.start.date = NoValue <=> event.start.dateTime # NoValue
         /\ event.end.date = NoValue <=> event.end.dateTime # NoValue
         /\ event.start.date = NoValue <=> event.end.date = NoValue
         /\ Ambiguous(vAsk.start) \/ Ambiguous(vAsk.end) \/ Length(event) > 0
         /\ vAsk.start # NoValue => SameTime(event.start, vAsk.start)
         /\ vAsk.end # NoValue => SameTime(event.end, vAsk.end)
         /\ vAsk.end = NoValue /\ ~Ambiguous(vAsk.start) => Length(event) = SaidLength
<1> DEFINE first == ToUtc(start, vZone)
           last == ToUtc(end, vZone)
<1>1. /\ start.at \in Int /\ end.at \in Int /\ NoValue \notin Int
      /\ start.kind \in {"date", "instant", "local"} /\ end.kind \in {"date", "instant", "local"}
  BY NothingAssumption DEF Moment
<1>2. /\ start.kind = "date" <=> end.kind = "date"
      /\ start.kind = "date" => start.at < end.at
      /\ start.kind # "date" => first \in Int /\ last \in Int /\ first < last
  BY <1>1, UtcIs DEF RangeSaid, CheckRange
<1>3. \A tz \in Zone, when \in Moment : \A u \in Readings(when, tz) : u \in Int
  <2>1. \A tz \in Zone, n \in Int : \A u \in Instants(tz, n) : u \in Int
    BY DEF Instants
  <2> QED
    BY <2>1 DEF Readings, Moment
<1>4. /\ vAsk.start # NoValue => SameTime(event.start, vAsk.start)
      /\ vAsk.end # NoValue => SameTime(event.end, vAsk.end)
  BY DEF RangeSaid, Stands, SameTime, Readings
<1>5. CASE start.kind = "date"
  <2>1. /\ event.start.date = start.at /\ event.start.dateTime = NoValue
        /\ event.end.date = end.at /\ event.end.dateTime = NoValue
    BY <1>2, <1>5 DEF Stands
  <2>2. Length(event) = end.at - start.at
    BY <1>1, <2>1 DEF Length
  <2>3. vAsk.end = NoValue => end.at = start.at + SaidLength
    BY <1>5 DEF RangeSaid, Date
  <2> QED
    BY <1>1, <1>2, <1>4, <1>5, <2>1, <2>2, <2>3
<1>6. CASE start.kind # "date"
  <2> DEFINE from == event.start.dateTime
             to == event.end.dateTime
  <2>1. /\ event.start.date = NoValue /\ from \in Readings(start, vZone)
        /\ event.end.date = NoValue /\ to \in Readings(end, vZone)
    BY <1>2, <1>6 DEF Stands
  <2>2. from \in Int /\ to \in Int /\ from # NoValue /\ to # NoValue
    BY <1>1, <1>3, <2>1
  <2>3. Length(event) = to - from
    BY <2>1 DEF Length
  <2>4. ~Ambiguous(vAsk.start) => from = first
    <3>1. ~Ambiguous(vAsk.start) => (start.kind = "local" => ~(Cardinality(Instants(vZone, start.at)) > 1))
      BY DEF Ambiguous, IsLocal, RangeSaid
    <3>2. first # NoValue
      BY <1>1, <1>2, <1>6
    <3> QED
      BY <1>6, <2>1, <3>1, <3>2, OneReading
  <2>5. vAsk.end # NoValue /\ ~Ambiguous(vAsk.end) => to = last
    <3>1. vAsk.end # NoValue /\ ~Ambiguous(vAsk.end) =>
            (end.kind = "local" => ~(Cardinality(Instants(vZone, end.at)) > 1))
      BY DEF Ambiguous, IsLocal, RangeSaid
    <3>2. last # NoValue /\ end.kind # "date"
      BY <1>1, <1>2, <1>6
    <3> QED
      BY <2>1, <3>1, <3>2, OneReading
  <2>6. vAsk.end = NoValue => to = last /\ last = first + SaidLength
    <3>1. ASSUME vAsk.end = NoValue PROVE end = Plus(start, SaidLength, vZone) /\ first # NoValue
      BY <1>6, <3>1 DEF RangeSaid
    <3> QED
      BY <1>6, <2>1, <3>1, PlusIs
  <2> HIDE DEF from, to, first, last
  <2>7. Ambiguous(vAsk.start) \/ Ambiguous(vAsk.end) \/ to - from > 0
    BY <1>2, <1>6, <2>4, <2>5, <2>6
  <2>8. vAsk.end = NoValue /\ ~Ambiguous(vAsk.start) => to - from = SaidLength
    BY <1>2, <1>6, <2>4, <2>6
  <2>9. /\ event.start.date = NoValue /\ event.start.dateTime # NoValue
        /\ event.end.date = NoValue /\ event.end.dateTime # NoValue
    BY <2>1, <2>2 DEF from, to
  <2> QED
    BY <1>4, <2>3, <2>7, <2>8, <2>9
<1> QED
  BY <1>5, <1>6

\* What is refused in UTC, where nothing is skipped or comes twice, no zone makes right,
\* unless it has to say what a local time is beside an instant.
LEMMA RefusedEarly ==
  ASSUME NEW ask \in EventAsk, ~Precheck(ask),
         NEW tz \in IF ask.zone # NoValue THEN {ask.zone} ELSE LocalZone
  PROVE  ResolveRange(ask.start, ask.end, ask.duration, tz) = NoValue
<1> DEFINE start == ask.start
           end == ask.end
           told == IF ask.zone = NoValue THEN "utc" ELSE ask.zone
<1>1. /\ start \in Moment /\ (end = NoValue \/ end \in Moment)
      /\ ask.duration = NoValue \/ ask.duration \in 1..2
      /\ ask.zone = NoValue \/ ask.zone \in LocalZone
      /\ end = NoValue \/ ask.duration = NoValue
  BY SaidIs DEF Precheck
<1>2. /\ ResolveRange(start, end, ask.duration, told) = NoValue
      /\ ~(ask.zone = NoValue /\ end # NoValue /\ {start.kind, end.kind} = {"local", "instant"})
  BY DEF Precheck
<1>3. CASE ask.zone # NoValue
  BY <1>2, <1>3
<1>4. CASE ask.zone = NoValue
  <2>1. told = "utc" /\ tz \in Zone /\ "utc" \in Zone
    BY <1>4 DEF LocalZone, Zone
  <2> SUFFICES ASSUME ResolveRange(start, end, ask.duration, tz) # NoValue PROVE FALSE
    OBVIOUS
  <2>2. PICK last \in Moment :
           /\ CheckRange(start, last, tz)
           /\ end # NoValue => last = end
           /\ end = NoValue /\ ask.duration # NoValue =>
                /\ start.kind # "date" /\ ToUtc(start, tz) # NoValue
                /\ last = Plus(start, ask.duration, tz)
           /\ end = NoValue /\ ask.duration = NoValue => start.kind = "date" /\ last = Date(start.at + 1)
    BY <1>1, <2>1, ResolvedIs
  <2>3. /\ start.at \in Int /\ start.kind \in {"date", "instant", "local"} /\ NoValue \notin Int
        /\ last.at \in Int /\ last.kind \in {"date", "instant", "local"} /\ last # NoValue
    BY <1>1, NothingAssumption DEF Moment
  <2>4. \A when \in Moment : ToUtc(when, "utc") = when.at
    <3>1. ASSUME NEW when \in Moment PROVE ToUtc(when, "utc") = when.at
      BY <2>1, UtcIs DEF FirstAt
    <3> QED
      BY <3>1
  <2>5. \A from, to \in Moment :
          Checked(from, to, "utc") = NoValue <=> ~CheckRange(from, to, "utc")
    <3>1. ASSUME NEW from \in Moment, NEW to \in Moment
          PROVE  Checked(from, to, "utc") = NoValue <=> ~CheckRange(from, to, "utc")
      <4>1. <<from, to>> # NoValue /\ to # NoValue
        BY NothingAssumption
      <4> QED
        BY <4>1 DEF Checked
    <3> QED
      BY <3>1
  <2>6. CASE end # NoValue
    <3>1. ~CheckRange(start, end, "utc")
      <4>1. ResolveRange(start, end, ask.duration, "utc") = Checked(start, end, "utc")
        BY <2>6 DEF ResolveRange
      <4> QED
        BY <1>1, <1>2, <2>1, <2>5, <2>6, <4>1
    <3>2. end = last /\ end \in Moment
      BY <1>1, <2>2, <2>6
    <3>3. start.kind # "date" /\ end.kind # "date"
      BY <2>2, <3>1, <3>2 DEF CheckRange
    <3>4. ~(start.at < end.at)
      BY <1>1, <2>3, <2>4, <3>1, <3>2, <3>3 DEF CheckRange
    <3>5. start.kind = end.kind
      BY <1>2, <1>4, <2>3, <2>6, <3>2, <3>3
    <3>6. /\ ToUtc(start, tz) # NoValue /\ ToUtc(end, tz) # NoValue
          /\ ToUtc(start, tz) < ToUtc(end, tz)
      BY <2>2, <3>2, <3>3 DEF CheckRange
    <3>7. CASE start.kind = "instant"
      BY <3>4, <3>5, <3>6, <3>7 DEF ToUtc
    <3>8. CASE start.kind = "local"
      <4>1. ToUtc(start, tz) = FirstAt(tz, start.at) /\ ToUtc(end, tz) = FirstAt(tz, end.at)
        BY <1>1, <2>1, <3>2, <3>5, <3>8, UtcIs
      <4>2. FirstAt(tz, end.at) <= FirstAt(tz, start.at)
        BY <2>1, <2>3, <3>2, <3>4, <3>6, <4>1, InOrderEverywhere
      <4>3. FirstAt(tz, end.at) \in Int /\ FirstAt(tz, start.at) \in Int
        BY <2>1, <2>3, <3>2, <3>6, <4>1, FirstIs
      <4> QED
        BY <3>6, <4>1, <4>2, <4>3
    <3> QED
      BY <2>3, <3>3, <3>7, <3>8
  <2>7. CASE end = NoValue /\ ask.duration # NoValue
    <3> DEFINE later == Plus(start, ask.duration, "utc")
    <3>1. start.kind # "date" /\ ask.duration \in 1..2
      BY <1>1, <2>2, <2>7
    <3>2. ToUtc(start, "utc") = start.at /\ start.at # NoValue
      BY <1>1, <2>3, <2>4
    <3>3. later \in Moment /\ later.kind # "date" /\ ToUtc(later, "utc") = start.at + ask.duration
      BY <1>1, <2>1, <3>1, <3>2, PlusIs
    <3>4. ResolveRange(start, end, ask.duration, "utc") = Checked(start, later, "utc")
      BY <2>7 DEF ResolveRange
    <3> HIDE DEF later
    <3>5. CheckRange(start, later, "utc")
      <4>1. start.at + ask.duration \in Int /\ start.at < start.at + ask.duration
        BY <2>3, <3>1
      <4> QED
        BY <2>3, <3>1, <3>2, <3>3, <4>1 DEF CheckRange
    <3> QED
      BY <1>1, <1>2, <2>1, <2>5, <3>3, <3>4, <3>5
  <2>8. CASE end = NoValue /\ ask.duration = NoValue
    <3> DEFINE next == Date(start.at + 1)
    <3>1. start.kind = "date" /\ next \in Moment /\ next.kind = "date" /\ next.at = start.at + 1
      BY <2>2, <2>3, <2>8 DEF Date, Moment
    <3>2. ResolveRange(start, end, ask.duration, "utc") = Checked(start, next, "utc")
      BY <2>8, <3>1 DEF ResolveRange
    <3> HIDE DEF next
    <3>3. CheckRange(start, next, "utc")
      BY <2>3, <3>1 DEF CheckRange
    <3> QED
      BY <1>1, <1>2, <2>1, <2>5, <3>1, <3>2, <3>3
  <2> QED
    BY <2>6, <2>7, <2>8
<1> QED
  BY <1>3, <1>4

EventFrame ==
  /\ vStep \in {"off", "checked", "read", "send", "over"}
  /\ vStep # "over" => vEnd = NoValue
  /\ vStep \in {"checked", "read", "send"} =>
       /\ vAsk \in EventAsk /\ Precheck(vAsk) /\ ~vEarly
       /\ IF vAsk.op = "insert" THEN vEvent = NoValue /\ vBefore = NoValue
          ELSE vEvent \in EventOnServer /\ vBefore \in EventOnServer
  /\ vStep \in {"read", "send"} =>
       /\ vZone \in Zone /\ (vAsk.zone # NoValue => vZone = vAsk.zone)
       /\ vAsk.zone = NoValue /\ ~SaysLocal(vAsk) => vZone = "utc"
  /\ vStep \in {"checked", "read"} => vSaw = NoValue /\ vEvent = vBefore
  /\ vStep = "read" => NeedsCurrent(vAsk)
  /\ vStep = "send" => vSaw \in {NoValue, vBefore} /\ (NeedsCurrent(vAsk) /\ ~vAsk.dryRun => vSaw = vBefore)
  /\ vStep = "off" => vSaw = NoValue /\ ~vEarly

EventInv == EventFrame /\ EventTimesCorrect

LEMMA EventNotEnded == "ok" \in Ending /\ "validation" \in Ending /\ NoValue \notin {"ok", "validation"}
  BY OutcomeAssumption DEF Ending, ExitCode

\* Nothing is claimed before there is a result.
LEMMA EventOpen ==
  ASSUME vEnd \notin {"ok", "validation"}, ~vEarly
  PROVE  EventTimesCorrect
  BY DEF EventTimesCorrect, EventIsARange, TimesAsSaid, ZonesKept, PrecheckRight, EventWritten

LEMMA EventBeginStep ==
  ASSUME EventInv, NEW ask \in EventAsk, NEW event \in EventOnServer,
         EventBegin(ask, IF ask.op = "insert" THEN NoValue ELSE event)
  PROVE  EventInv'
<1> DEFINE there == IF ask.op = "insert" THEN NoValue ELSE event
<1>1. vEnd = NoValue /\ vAsk' = ask /\ vEvent' = there /\ vBefore' = there /\ vSaw' = NoValue
  BY DEF EventInv, EventFrame, EventBegin
<1>2. vEnd' \notin {"ok"}
  BY <1>1, EventNotEnded DEF EventBegin, EventEnds
<1>3. CASE Precheck(ask)
  <2>1. vStep' = "checked" /\ vEnd' = NoValue /\ ~vEarly'
    BY <1>1, <1>3 DEF EventBegin
  <2>2. vEnd' \notin {"ok", "validation"}
    BY <2>1, EventNotEnded
  <2>3. EventTimesCorrect'
    BY <2>1, <2>2 DEF EventTimesCorrect, EventIsARange, TimesAsSaid, ZonesKept, PrecheckRight, EventWritten
  <2>4. Precheck(vAsk)'
    BY <1>1, <1>3 DEF Precheck
  <2>5. EventFrame'
    BY <1>1, <2>1, <2>4 DEF EventFrame
  <2> QED
    BY <2>3, <2>5 DEF EventInv
<1>4. CASE ~Precheck(ask)
  <2>1. vStep' = "over" /\ vEarly'
    BY <1>4 DEF EventBegin, EventEnds
  <2>2. \A tz \in IF ask.zone # NoValue THEN {ask.zone} ELSE LocalZone :
          ResolveRange(ask.start, ask.end, ask.duration, tz) = NoValue
    BY <1>4, RefusedEarly
  <2>3. EventFrame'
    BY <2>1 DEF EventFrame
  <2>4. EventTimesCorrect'
    BY <1>1, <1>2, <2>1, <2>2 DEF EventTimesCorrect, EventIsARange, TimesAsSaid, ZonesKept, PrecheckRight, EventWritten
  <2> QED
    BY <2>3, <2>4 DEF EventInv
<1> QED
  BY <1>3, <1>4

LEMMA EventWaits ==
  ASSUME EventInv,
         \/ EventDeclined \/ EventZoneFails \/ EventRead \/ EventFails
         \/ \E z \in LocalZone : EventZone(z)
         \/ \E event \in EventOnServer : EventMoved(event)
  PROVE  EventInv'
<1>1. vEnd = NoValue /\ ~vEarly /\ UNCHANGED <<vAsk, vBefore, vEarly>> /\ vAsk \in EventAsk
  BY DEF EventInv, EventFrame, EventDeclined, EventZoneFails, EventRead, EventFails, EventZone, EventMoved
<1>2. vEnd' \in {NoValue, "unconfirmed", "api"}
  BY <1>1 DEF EventDeclined, EventZoneFails, EventRead, EventFails, EventZone, EventMoved, EventEnds
<1>3. EventTimesCorrect'
  <2>1. vEnd' \notin {"ok", "validation"}
    BY <1>2, EventNotEnded
  <2> QED
    BY <1>1, <2>1 DEF EventTimesCorrect, EventIsARange, TimesAsSaid, ZonesKept, PrecheckRight, EventWritten
<1>4. EventFrame'
  <2>1. CASE EventDeclined \/ EventZoneFails \/ EventFails
    <3>1. vStep' = "over"
      BY <2>1 DEF EventDeclined, EventZoneFails, EventFails, EventEnds
    <3> QED
      BY <1>1, <3>1 DEF EventFrame
  <2>2. CASE EventRead
    BY <1>1, <2>2 DEF EventInv, EventFrame, EventRead
  <2>3. ASSUME NEW z \in LocalZone, EventZone(z) PROVE EventFrame'
    <3>1. /\ vStep = "checked" /\ UNCHANGED <<vEvent, vSaw, vEnd>>
          /\ vStep' = IF NeedsCurrent(vAsk) THEN "read" ELSE "send"
          /\ vZone' = IF vAsk.zone # NoValue THEN vAsk.zone
                      ELSE IF SaysLocal(vAsk) /\ ~vAsk.dryRun THEN z ELSE "utc"
      BY <2>3 DEF EventZone
    <3>2. vZone' \in Zone
      BY <1>1, <3>1, SaidIs DEF LocalZone, Zone
    <3>3. NeedsCurrent(vAsk)' = NeedsCurrent(vAsk)
      BY <1>1 DEF NeedsCurrent, KeepsEventZone
    <3> QED
      BY <1>1, <3>1, <3>2, <3>3 DEF EventInv, EventFrame
  <2>4. ASSUME NEW event \in EventOnServer, EventMoved(event) PROVE EventFrame'
    <3>1. vStep = "send" /\ vAsk.op = "update" /\ UNCHANGED <<vStep, vZone, vSaw, vEnd>> /\ vEvent' = event
      BY <2>4 DEF EventMoved
    <3>2. NeedsCurrent(vAsk)' = NeedsCurrent(vAsk)
      BY <1>1 DEF NeedsCurrent, KeepsEventZone
    <3> QED
      BY <1>1, <3>1, <3>2 DEF EventInv, EventFrame
  <2> QED
    BY <2>1, <2>2, <2>3, <2>4
<1> QED
  BY <1>3, <1>4 DEF EventInv

\* Where no local time is said, the range has none.
LEMMA NoneLocal ==
  ASSUME ~SaysLocal(vAsk), NEW start \in Moment, NEW end \in Moment, RangeSaid(start, end)
  PROVE  start.kind # "local" /\ end.kind # "local"
<1>1. /\ start.at \in Int /\ end.at \in Int /\ NoValue \notin Int
      /\ start.kind \in {"date", "instant", "local"} /\ end.kind \in {"date", "instant", "local"}
  BY NothingAssumption DEF Moment
<1>2. start.kind # "local"
  BY DEF SaysLocal, IsLocal, RangeSaid
<1>3. CASE vAsk.end # NoValue
  BY <1>2, <1>3 DEF SaysLocal, IsLocal, RangeSaid
<1>4. CASE vAsk.end = NoValue
  <2>1. CASE start.kind = "date" /\ end = Date(start.at + SaidLength)
    BY <1>2, <2>1 DEF Date
  <2>2. CASE start.kind # "date" /\ end = Plus(start, SaidLength, vZone)
    BY <1>1, <1>2, <2>2, NothingAssumption DEF Plus, Instant
  <2> QED
    BY <1>4, <2>1, <2>2 DEF RangeSaid
<1> QED
  BY <1>2, <1>3, <1>4

\* The zones an update states.
LEMMA ZonesStated ==
  ASSUME vAsk \in EventAsk, vAsk.op = "update", KeepsEventZone, ~vAsk.dryRun,
         NEW start \in Moment, NEW end \in Moment, RangeSaid(start, end), vZone \in Zone,
         vBefore \in EventOnServer, vSaw \in {NoValue, vBefore},
         NeedsCurrent(vAsk) => vSaw = vBefore,
         NEW which \in {"start", "end"},
         NEW body, body = Body(<<start, end>>), body[which].date = NoValue, vBefore[which].zone # NoValue
  PROVE  "zone" \in DOMAIN body[which] /\ body[which].zone = vBefore[which].zone
<1> DEFINE when == IF which = "start" THEN start ELSE end
           kept == CurrentZone(which)
<1>1. /\ start.at \in Int /\ end.at \in Int /\ NoValue \notin Int
      /\ start.kind \in {"date", "instant", "local"} /\ end.kind \in {"date", "instant", "local"}
  BY NothingAssumption DEF Moment
<1>2. start.kind # "local" /\ end.kind # "local"
  BY NoneLocal DEF KeepsEventZone
<1>3. ForEvent(<<start, end>>) = NoValue
  BY <1>2 DEF ForEvent, IsLocal, KeepsEventZone
<1>4. body[which] = PatchEventTime(when, kept)
  BY <1>3 DEF Body
<1>5. when \in Moment
  OBVIOUS
<1> HIDE DEF when
<1>6. when.kind # "date"
  <2> SUFFICES ASSUME when.kind = "date" PROVE FALSE
    OBVIOUS
  <2>1. body[which] = [date |-> when.at, dateTime |-> NoValue]
    BY <1>4 DEF PatchEventTime, ToEventTime, Clearing
  <2>2. when.at # NoValue
    BY <1>1 DEF when
  <2> QED
    BY <2>1, <2>2
<1>7. vSaw = vBefore
  <2>1. start.kind # "date" /\ end.kind # "date"
    BY <1>1, <1>6 DEF when, RangeSaid, CheckRange
  <2>2. NeedsCurrent(vAsk)
    BY <1>1, <1>2, <2>1, SaidIs DEF NeedsCurrent, RangeSaid
  <2> QED
    BY <2>2
<1>8. kept = vBefore[which].zone
  <2>1. vSaw # NoValue
    BY <1>7, ServedEvent
  <2> QED
    BY <1>7, <2>1 DEF CurrentZone
<1> HIDE DEF kept
<1>9. body[which] = [date |-> NoValue, dateTime |-> when, zone |-> kept]
  BY <1>4, <1>6, <1>8 DEF PatchEventTime, ToEventTime, Clearing
<1> QED
  BY <1>8, <1>9

\* The zones an end of an event may state.
StatedZone == Opt({"home", "away"} \cup LocalZone)

\* The zone a request states for both ends.
SaidZone(start, end) ==
  IF vAsk.zone # NoValue \/ IsLocal(start) \/ IsLocal(end) THEN {vZone} ELSE {}

Formed(time, zones) ==
  time = [date |-> time.date, dateTime |-> time.dateTime, zone |-> time.zone] /\ time.zone \in StatedZone \cup zones

\* The event that a request leaves on the server: its two times, and the zones it states.
LEMMA SentIs ==
  ASSUME EventInv, EventSend, EventRange # NoValue, ~vAsk.dryRun
  PROVE  \E start, end \in Moment :
           /\ EventRange = <<start, end>> /\ RangeSaid(start, end)
           /\ Stands(vEvent'.start, start) /\ Stands(vEvent'.end, end)
           /\ Formed(vEvent'.start, SaidZone(start, end)) /\ Formed(vEvent'.end, SaidZone(start, end))
<1>0. /\ vAsk \in EventAsk /\ vZone \in Zone /\ vSaw \in {NoValue, vBefore}
      /\ vAsk.op = "insert" \/ vAsk.op = "update"
      /\ IF vAsk.op = "insert" THEN vEvent = NoValue /\ vBefore = NoValue
         ELSE vEvent \in EventOnServer /\ vBefore \in EventOnServer
  BY SaidIs DEF EventInv, EventFrame, EventSend
<1>1. vSaw = NoValue \/ vSaw \in EventOnServer
  BY <1>0
<1>2. PICK start \in Moment, end \in Moment : EventRange = <<start, end>> /\ RangeSaid(start, end)
  BY <1>0, <1>1, RangeIs
<1> DEFINE old == IF vEvent = NoValue THEN [start |-> Unset, end |-> Unset] ELSE vEvent
<1>3. /\ vSent' = Body(<<start, end>>)
      /\ \E s \in Merged(old.start, vSent'.start), e \in Merged(old.end, vSent'.end) :
           vEvent' = [start |-> s, end |-> e]
  BY <1>2 DEF EventSend, EventEnds
<1>4. PICK s \in Merged(old.start, vSent'.start), e \in Merged(old.end, vSent'.end) :
        vEvent' = [start |-> s, end |-> e]
  BY <1>3
<1>5. /\ old.start \in EventTime /\ old.end \in EventTime
      /\ vAsk.op = "insert" => old.start = Unset /\ old.end = Unset
  <2>1. Unset \in EventTime
    BY DEF Unset, EventTime, Opt
  <2> QED
    BY <1>0, <2>1, ServedEvent
<1> HIDE DEF old
<1> DEFINE zoned == ForEvent(<<start, end>>)
           zones == SaidZone(start, end)
<1>6. /\ zoned = IF vAsk.zone # NoValue \/ IsLocal(start) \/ IsLocal(end) THEN vZone ELSE NoValue
      /\ vZone # NoValue /\ start # NoValue /\ end # NoValue
  BY <1>0, NothingAssumption DEF ForEvent, Zone, LocalZone
<1>7. start.kind = "local" \/ end.kind = "local" => zoned = vZone /\ zoned # NoValue
  BY <1>6 DEF IsLocal
<1>8. zoned \in StatedZone \cup zones
  BY <1>6 DEF SaidZone, StatedZone, Opt
<1>9. old.start.zone \in StatedZone /\ old.end.zone \in StatedZone
  BY <1>5 DEF EventTime, StatedZone
<1> HIDE DEF zoned, zones
<1>10. (Stands(s, start) /\ Formed(s, zones)) /\ (Stands(e, end) /\ Formed(e, zones))
  <2>1. CASE vAsk.op = "insert"
    <3>1. vSent'.start = ToEventTime(start, zoned) /\ vSent'.end = ToEventTime(end, zoned)
      BY <1>3, <2>1 DEF Body, zoned
    <3>2. Stands(s, start) /\ Formed(s, zones)
      BY <1>4, <1>5, <1>7, <1>8, <1>9, <2>1, <3>1, MergedIs DEF Formed
    <3>3. Stands(e, end) /\ Formed(e, zones)
      BY <1>4, <1>5, <1>7, <1>8, <1>9, <2>1, <3>1, MergedIs DEF Formed
    <3> QED
      BY <3>2, <3>3
  <2>2. CASE vAsk.op # "insert"
    <3> DEFINE Zoned(which) == IF zoned # NoValue THEN zoned ELSE CurrentZone(which)
    <3>1. /\ vSent'.start = PatchEventTime(start, Zoned("start"))
          /\ vSent'.end = PatchEventTime(end, Zoned("end"))
      BY <1>3, <2>2 DEF Body, zoned
    <3>2. start.kind = "local" \/ end.kind = "local" =>
            \A which \in {"start", "end"} : Zoned(which) = vZone /\ Zoned(which) # NoValue
      BY <1>7
    <3>3. \A which \in {"start", "end"} : Zoned(which) \in StatedZone \cup zones
      <4>1. NoValue \in StatedZone
        BY DEF StatedZone, Opt
      <4>2. vSaw # NoValue => vSaw.start.zone \in StatedZone /\ vSaw.end.zone \in StatedZone
        <5>1. vSaw # NoValue => vSaw.start \in EventTime /\ vSaw.end \in EventTime
          BY <1>1, ServedEvent
        <5> QED
          BY <5>1 DEF EventTime, StatedZone
      <4> QED
        BY <1>8, <4>1, <4>2 DEF CurrentZone
    <3>4. Zoned("start") \in StatedZone \cup zones /\ Zoned("end") \in StatedZone \cup zones
      BY <3>3
    <3> HIDE DEF Zoned
    <3>5. Stands(s, start) /\ Formed(s, zones)
      BY <1>4, <1>5, <1>9, <3>1, <3>2, <3>4, MergedIs DEF Formed
    <3>6. Stands(e, end) /\ Formed(e, zones)
      BY <1>4, <1>5, <1>9, <3>1, <3>2, <3>4, MergedIs DEF Formed
    <3> QED
      BY <3>5, <3>6
  <2> QED
    BY <2>1, <2>2
<1> QED
  BY <1>2, <1>4, <1>10 DEF zones

\* The length an event is to have is known when it is written.
LEMMA LengthSaid ==
  ASSUME EventInv, EventSend, ~vAsk.dryRun, vAsk.end = NoValue PROVE SaidLength \in Int
<1>0. /\ vAsk \in EventAsk /\ (NeedsCurrent(vAsk) => vSaw = vBefore)
      /\ vAsk.op = "update" => vBefore \in EventOnServer
  BY DEF EventInv, EventFrame, EventSend
<1>1. CASE vAsk.duration # NoValue
  BY <1>0, <1>1, SaidIs DEF SaidLength
<1>2. CASE vAsk.duration = NoValue /\ vAsk.op = "update"
  <2>1. NeedsCurrent(vAsk)
    BY <1>0, <1>2, SaidIs DEF NeedsCurrent
  <2>2. vSaw \in EventOnServer
    BY <1>0, <1>2, <2>1
  <2> QED
    BY <1>2, <2>2, CurrentIs DEF SaidLength
<1>3. CASE vAsk.duration = NoValue /\ vAsk.op # "update"
  BY <1>3 DEF SaidLength
<1> QED
  BY <1>1, <1>2, <1>3

LEMMA EventSendStep == EventInv /\ EventSend => EventInv'
<1> SUFFICES ASSUME EventInv, EventSend PROVE EventInv'
  OBVIOUS
<1>1. /\ vStep = "send" /\ vStep' = "over" /\ ~vEarly /\ UNCHANGED <<vAsk, vZone, vSaw, vBefore, vEarly>>
      /\ vAsk \in EventAsk /\ Precheck(vAsk) /\ vZone \in Zone
      /\ vSaw \in {NoValue, vBefore} /\ (NeedsCurrent(vAsk) /\ ~vAsk.dryRun => vSaw = vBefore)
      /\ IF vAsk.op = "insert" THEN vEvent = NoValue /\ vBefore = NoValue
         ELSE vEvent \in EventOnServer /\ vBefore \in EventOnServer
      /\ vAsk.zone # NoValue => vZone = vAsk.zone
      /\ vAsk.zone = NoValue /\ ~SaysLocal(vAsk) => vZone = "utc"
  BY DEF EventInv, EventFrame, EventSend, EventEnds
<1>2. EventFrame'
  BY <1>1 DEF EventFrame
<1>3. CASE EventRange = NoValue
  <2>1. vEnd' = "validation"
    BY <1>3 DEF EventSend, EventEnds
  <2>2. vAsk.start # NoValue /\ (vAsk.op = "insert" \/ vAsk.end # NoValue \/ vAsk.duration # NoValue)
          => vAsk.zone = NoValue /\ SaysLocal(vAsk)
    <3> SUFFICES ASSUME vAsk.start # NoValue, vAsk.op = "insert" \/ vAsk.end # NoValue \/ vAsk.duration # NoValue,
                        ~(vAsk.zone = NoValue /\ SaysLocal(vAsk))
                 PROVE  FALSE
      OBVIOUS
    <3>1. vZone = IF vAsk.zone = NoValue THEN "utc" ELSE vAsk.zone
      BY <1>1
    <3>2. vAsk.op \in {"insert", "update"}
      BY <1>1, SaidIs
    <3>3. ResolveRange(vAsk.start, vAsk.end, vAsk.duration, vZone) = NoValue
      BY <1>3, <3>2 DEF EventRange
    <3>4. vAsk.zone = NoValue /\ vAsk.end # NoValue /\ {vAsk.start.kind, vAsk.end.kind} = {"local", "instant"}
      BY <1>1, <3>1, <3>2, <3>3 DEF Precheck
    <3> QED
      BY <3>4 DEF SaysLocal, IsLocal
  <2>3. EventTimesCorrect'
    <3>1. vEnd' # "ok" /\ ~vEarly'
      BY <1>1, <2>1
    <3>2. SaysLocal(vAsk') <=> SaysLocal(vAsk)
      BY <1>1 DEF SaysLocal
    <3> QED
      BY <1>1, <2>2, <3>1, <3>2
      DEF EventTimesCorrect, EventIsARange, TimesAsSaid, ZonesKept, PrecheckRight, EventWritten
  <2> QED
    BY <1>2, <2>3 DEF EventInv
<1>4. CASE EventRange # NoValue /\ vAsk.dryRun
  <2>1. vEnd' = "ok" /\ ~vEarly' /\ vAsk'.dryRun
    BY <1>1, <1>4 DEF EventSend, EventEnds
  <2> QED
    BY <1>2, <2>1 DEF EventInv, EventTimesCorrect, EventIsARange, TimesAsSaid, ZonesKept, PrecheckRight, EventWritten
<1>5. CASE EventRange # NoValue /\ ~vAsk.dryRun
  <2>2. PICK start \in Moment, end \in Moment :
          /\ EventRange = <<start, end>> /\ RangeSaid(start, end)
          /\ Stands(vEvent'.start, start) /\ Stands(vEvent'.end, end)
    BY <1>5, SentIs
  <2>3. vEnd' = "ok" /\ vSent' = Body(<<start, end>>)
    BY <1>5, <2>2 DEF EventSend, EventEnds
  <2>6. Stands(vEvent'.start, start) /\ Stands(vEvent'.end, end)
    BY <2>2
  <2>7. vAsk.end = NoValue => SaidLength \in Int
    BY <1>5, LengthSaid
  <2> DEFINE event == vEvent'
  <2>8. /\ event.start.date = NoValue <=> event.start.dateTime # NoValue
        /\ event.end.date = NoValue <=> event.end.dateTime # NoValue
        /\ event.start.date = NoValue <=> event.end.date = NoValue
        /\ Ambiguous(vAsk.start) \/ Ambiguous(vAsk.end) \/ Length(event) > 0
        /\ vAsk.start # NoValue => SameTime(event.start, vAsk.start)
        /\ vAsk.end # NoValue => SameTime(event.end, vAsk.end)
        /\ vAsk.end = NoValue /\ ~Ambiguous(vAsk.start) => Length(event) = SaidLength
    BY <1>1, <2>2, <2>6, <2>7, EventFits
  <2>9. EventIsARange' /\ TimesAsSaid'
    BY <1>1, <2>8 DEF EventIsARange, TimesAsSaid, Ambiguous, SameTime, SaidLength
  <2>10. ZonesKept'
    <3> SUFFICES ASSUME vAsk.op = "update", KeepsEventZone, NEW which \in {"start", "end"},
                        vSent'[which].date = NoValue, vBefore[which].zone # NoValue
                 PROVE  "zone" \in DOMAIN vSent'[which] /\ vSent'[which].zone = vBefore[which].zone
      BY <1>1 DEF ZonesKept, KeepsEventZone
    <3> QED
      BY <1>1, <1>5, <2>2, <2>3, ZonesStated
  <2>11. PrecheckRight'
    BY <1>1, <2>3 DEF PrecheckRight
  <2> QED
    BY <1>2, <2>9, <2>10, <2>11 DEF EventInv, EventTimesCorrect
<1> QED
  BY <1>3, <1>4, <1>5

LEMMA EventInvStep == EventInv /\ [EventNext]_eventVars => EventInv'
<1> SUFFICES ASSUME EventInv, [EventNext]_eventVars PROVE EventInv'
  OBVIOUS
<1>1. CASE UNCHANGED eventVars
  <2>1. EventFrame'
    BY <1>1 DEF EventInv, EventFrame, eventVars, Precheck, NeedsCurrent, KeepsEventZone, SaysLocal
  <2>2. EventTimesCorrect'
    BY <1>1 DEF EventInv, EventTimesCorrect, EventIsARange, TimesAsSaid, ZonesKept, PrecheckRight, EventWritten,
       Ambiguous, SameTime, KeepsEventZone, SaysLocal, eventVars
  <2> QED
    BY <2>1, <2>2 DEF EventInv
<1> QED
  BY <1>1, EventBeginStep, EventWaits, EventSendStep DEF EventNext

LEMMA EventBegins == EventInit => EventInv
  BY EventNotEnded DEF EventInit, EventInv, EventFrame, EventTimesCorrect, EventIsARange, TimesAsSaid,
     ZonesKept, PrecheckRight, EventWritten


-----------------------------------------------------------------------------
\* The free slots of calendar +freebusy.

SlotQuery ==
  [from : Time, to : Time, busy : SUBSET Interval, min : Nat \ {0},
   working : ((0..Day) \X (0..Day)) \cup {NoValue}]

\* A unit that is asked for and that nobody is busy in, whatever the hour.
OpenUnit(query, t) ==
  /\ query.from <= t /\ t < query.to
  /\ \A b \in query.busy : t < b[1] \/ t >= b[2]

\* A run of them that cannot be made longer.
OpenRun(query, g) ==
  /\ g \in Interval
  /\ \A t \in g[1]..(g[2] - 1) : OpenUnit(query, t)
  /\ ~OpenUnit(query, g[1] - 1) /\ ~OpenUnit(query, g[2])

LEMMA GreatestOf ==
  ASSUME NEW S, S \subseteq Time, S # {}
  PROVE  Max(S) \in S /\ \A y \in S : y <= Max(S)
<1> DEFINE down == {Horizon - x : x \in S}
<1>0. Horizon \in Nat /\ \A x \in S : x \in Nat /\ x <= Horizon
  BY CalendarAssumption DEF Time
<1>1. down \subseteq Nat /\ down # {}
  BY <1>0
<1>2. PICK x \in S : Horizon - x = Min(down)
  BY <1>1, LeastOf
<1>3. \A y \in S : Horizon - x <= Horizon - y
  <2> TAKE y \in S
  <2>1. Horizon - y \in down
    OBVIOUS
  <2> QED BY <1>1, <1>2, <2>1, LeastOf
<1>4. \A y \in S : y <= x
  BY <1>3, CalendarAssumption DEF Time
<1> QED
  BY <1>4 DEF Max

\* The cursor is the start of the query, or the end of an interval that was passed, and
\* none of these is after it.
LEMMA CursorIs ==
  ASSUME NEW query \in SlotQuery, NEW done \in SUBSET query.busy
  PROVE  /\ Cursor(query, done) \in Time /\ query.from <= Cursor(query, done)
         /\ \A i \in done : i[2] <= Cursor(query, done)
         /\ Cursor(query, done) = query.from \/ \E i \in done : i[2] = Cursor(query, done)
<1> DEFINE S == {query.from} \cup {i[2] : i \in done}
<1>1. query.from \in Time /\ \A i \in done : i[2] \in Time
  BY DEF SlotQuery, Interval
<1>2. S \subseteq Time /\ S # {} /\ query.from \in S /\ \A i \in done : i[2] \in S
  BY <1>1
<1>3. Cursor(query, done) = Max(S)
  BY DEF Cursor
<1>4. Max(S) \in S /\ \A y \in S : y <= Max(S)
  BY <1>2, GreatestOf
<1>5. Max(S) = query.from \/ \E i \in done : i[2] = Max(S)
  BY <1>4
<1> HIDE DEF S
<1> QED
  BY <1>2, <1>3, <1>4, <1>5

\* A gap is a run of open units that cannot be made longer.
LEMMA GapsAreRuns ==
  ASSUME NEW query \in SlotQuery, NEW g \in Gaps(query)
  PROVE  OpenRun(query, g)
<1> DEFINE done(b) == {i \in query.busy : Sooner(i, b)}
<1>1. /\ query.from \in Time /\ query.to \in Time /\ query.busy \subseteq Interval
  BY DEF SlotQuery
<1>2. /\ Horizon \in Nat
      /\ \A i \in query.busy : i[1] \in Time /\ i[2] \in Time /\ i[1] < i[2]
  BY <1>1, CalendarAssumption DEF Interval
<1>3. ASSUME NEW b \in query.busy, Cursor(query, done(b)) < b[1], Cursor(query, done(b)) < query.to,
             g = <<Cursor(query, done(b)), Earlier(b[1], query.to)>>
      PROVE  OpenRun(query, g)
  <2> DEFINE c == Cursor(query, done(b))
             e == Earlier(b[1], query.to)
  <2>1. /\ c \in Time /\ query.from <= c
        /\ \A i \in done(b) : i[2] <= c
        /\ c = query.from \/ \E i \in done(b) : i[2] = c
    BY CursorIs
  <2>2. e \in Time /\ e <= b[1] /\ e <= query.to /\ (e = b[1] \/ e = query.to) /\ c < e
    BY <1>1, <1>2, <1>3 DEF Earlier, Time
  <2>3. \A i \in query.busy : i[2] <= c \/ b[1] <= i[1]
    BY <1>2, <2>1 DEF Sooner, Time
  <2>4. c = query.from \/ \E i \in query.busy : i[2] = c
    BY <2>1
  <2>5. g[1] = c /\ g[2] = e /\ g = <<c, e>>
    BY <1>3
  <2> HIDE DEF c, e, done
  <2>6. g \in Interval
    BY <2>1, <2>2, <2>5 DEF Interval
  <2>7. \A t \in c..(e - 1) : OpenUnit(query, t)
    BY <1>1, <1>2, <2>1, <2>2, <2>3 DEF OpenUnit, Time
  <2>8. ~OpenUnit(query, c - 1)
    BY <1>1, <1>2, <2>1, <2>4 DEF OpenUnit, Time
  <2>9. ~OpenUnit(query, e)
    BY <1>1, <1>2, <2>2 DEF OpenUnit, Time
  <2> QED
    BY <2>5, <2>6, <2>7, <2>8, <2>9 DEF OpenRun
<1>4. ASSUME Cursor(query, query.busy) < query.to, g = <<Cursor(query, query.busy), query.to>>
      PROVE  OpenRun(query, g)
  <2> DEFINE c == Cursor(query, query.busy)
             e == query.to
  <2>1. /\ c \in Time /\ query.from <= c
        /\ \A i \in query.busy : i[2] <= c
        /\ c = query.from \/ \E i \in query.busy : i[2] = c
    BY CursorIs
  <2>5. g[1] = c /\ g[2] = e /\ g = <<c, e>> /\ c < e /\ e \in Time /\ e = query.to
    BY <1>1, <1>4
  <2> HIDE DEF c, e
  <2>6. g \in Interval
    BY <2>1, <2>5 DEF Interval
  <2>7. \A t \in c..(e - 1) : OpenUnit(query, t)
    BY <1>1, <1>2, <2>1, <2>5 DEF OpenUnit, Time
  <2>8. ~OpenUnit(query, c - 1)
    BY <1>1, <1>2, <2>1 DEF OpenUnit, Time
  <2>9. ~OpenUnit(query, e)
    BY <1>1, <2>5 DEF OpenUnit, Time
  <2> QED
    BY <2>5, <2>6, <2>7, <2>8, <2>9 DEF OpenRun
<1> QED
  BY <1>3, <1>4 DEF Gaps

\* Of the busy intervals of a set, one comes first.
LEMMA FirstBusy ==
  ASSUME NEW busy \in SUBSET Interval, busy # {}
  PROVE  \E b \in busy : \A i \in busy : b[1] <= i[1] /\ (Sooner(i, b) => FALSE)
<1> DEFINE starts == {i[1] : i \in busy}
<1>1. \A i \in busy : i[1] \in Nat /\ i[2] \in Nat
  BY CalendarAssumption DEF Interval, Time
<1>2. starts \subseteq Nat /\ starts # {}
  BY <1>1
<1>3. PICK a \in busy : \A i \in busy : a[1] <= i[1]
  <2>1. Min(starts) \in starts /\ \A y \in starts : Min(starts) <= y
    BY <1>2, LeastOf
  <2>2. PICK a \in busy : Min(starts) = a[1]
    BY <2>1
  <2> QED BY <2>1, <2>2
<1> DEFINE same == {i \in busy : i[1] = a[1]}
           ends == {i[2] : i \in same}
<1>4. ends \subseteq Nat /\ ends # {}
  BY <1>1
<1>5. PICK b \in same : \A i \in same : b[2] <= i[2]
  <2>1. Min(ends) \in ends /\ \A y \in ends : Min(ends) <= y
    BY <1>4, LeastOf
  <2>2. PICK b \in same : Min(ends) = b[2]
    BY <2>1
  <2> QED BY <2>1, <2>2
<1> QED
  BY <1>1, <1>3, <1>5 DEF Sooner

\* Every open unit is in a gap.
LEMMA OpenInGap ==
  ASSUME NEW query \in SlotQuery, NEW t \in Int, OpenUnit(query, t)
  PROVE  \E g \in Gaps(query) : g[1] <= t /\ t < g[2]
<1> DEFINE done(b) == {i \in query.busy : Sooner(i, b)}
           past == {i \in query.busy : i[2] <= t}
           rest == query.busy \ past
<1>1. /\ query.from \in Time /\ query.to \in Time /\ query.busy \subseteq Interval
  BY DEF SlotQuery
<1>2. /\ Horizon \in Nat
      /\ \A i \in query.busy : i[1] \in Time /\ i[2] \in Time /\ i[1] < i[2]
  BY <1>1, CalendarAssumption DEF Interval
<1>3. /\ query.from <= t /\ t < query.to
      /\ \A i \in query.busy : i \in past <=> i[2] <= t
      /\ \A i \in query.busy : i \notin past => t < i[1]
      /\ \A i \in past : i[1] < t
  BY <1>2 DEF OpenUnit, Time
<1>4. Cursor(query, past) <= t
  BY <1>1, <1>2, <1>3, CursorIs DEF Time
<1>5. CASE rest = {}
  <2>1. past = query.busy
    BY <1>5
  <2>2. <<Cursor(query, query.busy), query.to>> \in Gaps(query)
    <3>1. Cursor(query, query.busy) \in Time
      BY CursorIs
    <3>2. Cursor(query, query.busy) <= t
      BY <1>4, <2>1
    <3>3. Cursor(query, query.busy) < query.to
      BY <1>1, <1>3, <3>1, <3>2 DEF Time
    <3> QED BY <3>3 DEF Gaps
  <2> QED BY <1>3, <1>4, <2>1, <2>2
<1>6. CASE rest # {}
  <2>1. PICK b \in rest : \A i \in rest : b[1] <= i[1] /\ (Sooner(i, b) => FALSE)
    BY <1>1, <1>6, FirstBusy
  <2>2. done(b) = past
    <3>1. \A i \in past : Sooner(i, b)
      BY <1>2, <1>3, <2>1 DEF Sooner, Time
    <3> QED BY <2>1, <3>1
  <2> DEFINE c == Cursor(query, done(b))
  <2>3. c \in Time /\ c <= t
    <3>1. c \in Time
      BY CursorIs
    <3> QED BY <1>4, <2>2, <3>1
  <2>4. b \in query.busy /\ t < b[1] /\ b[1] \in Time
    BY <1>2, <1>3, <2>1
  <2>5. c < b[1] /\ c < query.to
    BY <1>1, <1>2, <1>3, <2>3, <2>4 DEF Time
  <2>6. <<c, Earlier(b[1], query.to)>> \in Gaps(query)
    BY <2>4, <2>5 DEF Gaps
  <2>7. t < Earlier(b[1], query.to)
    BY <1>3, <2>4 DEF Earlier
  <2> HIDE DEF c
  <2> QED BY <2>3, <2>6, <2>7
<1> QED
  BY <1>5, <1>6

LEMMA RunInGap ==
  ASSUME NEW query \in SlotQuery, NEW i \in Interval, \A t \in i[1]..(i[2] - 1) : OpenUnit(query, t)
  PROVE  \E g \in Gaps(query) : OpenRun(query, g) /\ g[1] <= i[1] /\ i[2] <= g[2]
<1>1. i[1] \in Nat /\ i[2] \in Nat /\ i[1] < i[2]
  BY CalendarAssumption DEF Interval, Time
<1>2. OpenUnit(query, i[1])
  BY <1>1
<1>3. PICK g \in Gaps(query) : g[1] <= i[1] /\ i[1] < g[2]
  BY <1>1, <1>2, OpenInGap
<1>4. OpenRun(query, g)
  BY GapsAreRuns
<1>5. g[1] \in Nat /\ g[2] \in Nat /\ ~OpenUnit(query, g[2])
  BY <1>4, CalendarAssumption DEF OpenRun, Interval, Time
<1>6. i[2] <= g[2]
  <2> SUFFICES ASSUME g[2] < i[2] PROVE FALSE
    BY <1>1, <1>5
  <2>1. g[2] \in i[1]..(i[2] - 1)
    BY <1>1, <1>3, <1>5
  <2> QED BY <1>5, <2>1
<1> QED
  BY <1>3, <1>4, <1>6

\* An open run that meets a gap is within it.
LEMMA WithinGap ==
  ASSUME NEW query, NEW g, OpenRun(query, g),
         NEW j \in Interval, \A t \in j[1]..(j[2] - 1) : OpenUnit(query, t),
         j[1] < g[2], g[1] < j[2]
  PROVE  g[1] <= j[1] /\ j[2] <= g[2]
<1>1. j[1] \in Nat /\ j[2] \in Nat /\ j[1] < j[2]
  BY CalendarAssumption DEF Interval, Time
<1>2. /\ g[1] \in Nat /\ g[2] \in Nat /\ g[1] < g[2]
      /\ ~OpenUnit(query, g[1] - 1) /\ ~OpenUnit(query, g[2])
  BY CalendarAssumption DEF OpenRun, Interval, Time
<1>3. g[1] <= j[1]
  <2> SUFFICES ASSUME j[1] < g[1] PROVE FALSE
    BY <1>1, <1>2
  <2>1. g[1] - 1 \in j[1]..(j[2] - 1)
    BY <1>1, <1>2
  <2> QED BY <1>2, <2>1
<1>4. j[2] <= g[2]
  <2> SUFFICES ASSUME g[2] < j[2] PROVE FALSE
    BY <1>1, <1>2
  <2>1. g[2] \in j[1]..(j[2] - 1)
    BY <1>1, <1>2
  <2> QED BY <1>2, <2>1
<1> QED
  BY <1>3, <1>4

LEMMA SameInterval ==
  ASSUME NEW i \in Interval, NEW j \in Interval, i[1] = j[1], i[2] = j[2] PROVE i = j
  BY DEF Interval, Time

\* The units of a day and its hours.
LEMMA DayIs ==
  ASSUME NEW t \in Nat, NEW d \in Nat, d * Day <= t, t < d * Day + Day
  PROVE  t \div Day = d /\ t = d * Day + (t % Day)
<1> DEFINE q == t \div Day
           r == t % Day
<1>1. q \in Nat /\ r \in 0..(Day - 1) /\ t = Day * q + r
  BY CalendarAssumption
<1> HIDE DEF q, r
<1>2. q = d
  BY <1>1, CalendarAssumption
<1>3. t = d * Day + r
  BY <1>1, <1>2, CalendarAssumption
<1> QED
  BY <1>2, <1>3 DEF q, r

LEMMA DayOf ==
  ASSUME NEW t \in Nat
  PROVE  LET d == t \div Day IN
           /\ d \in Nat /\ t % Day \in 0..(Day - 1)
           /\ d * Day \in Nat /\ d * Day <= t /\ t < d * Day + Day /\ t = d * Day + (t % Day)
<1> DEFINE q == t \div Day
           r == t % Day
<1>1. q \in Nat /\ r \in 0..(Day - 1) /\ t = Day * q + r
  BY CalendarAssumption
<1> HIDE DEF q, r
<1>2. q * Day \in Nat /\ q * Day = Day * q
  BY <1>1, CalendarAssumption
<1>3. t = q * Day + r /\ q * Day <= t /\ t < q * Day + Day
  BY <1>1, <1>2, CalendarAssumption
<1> QED
  BY <1>1, <1>2, <1>3 DEF q, r

LEMMA DaysGrow ==
  ASSUME NEW t \in Nat, NEW u \in Nat, t <= u
  PROVE  t \div Day <= u \div Day
<1> DEFINE q == t \div Day
           p == u \div Day
<1>1. /\ q \in Nat /\ q * Day \in Nat /\ q * Day <= t /\ t < q * Day + Day
      /\ p \in Nat /\ p * Day \in Nat /\ p * Day <= u /\ u < p * Day + Day
  BY DayOf
<1> HIDE DEF q, p
<1>2. q <= p
  <2> SUFFICES ASSUME p < q PROVE FALSE
    BY <1>1
  <2>1. (p + 1) * Day <= q * Day
    BY <1>1, CalendarAssumption
  <2>2. (p + 1) * Day = p * Day + Day
    BY <1>1, CalendarAssumption
  <2> QED BY <1>1, <2>1, <2>2, CalendarAssumption
<1> QED
  BY <1>2 DEF q, p

LEMMA HoursAre ==
  ASSUME NEW t \in Nat, NEW d \in Nat, NEW a \in 0..Day, NEW b \in 0..Day
  PROVE  t \div Day = d /\ a <= t % Day /\ t % Day < b <=> d * Day + a <= t /\ t < d * Day + b
<1> DEFINE q == t \div Day
           r == t % Day
           s == d * Day
<1>1. q \in Nat /\ r \in 0..(Day - 1) /\ t = q * Day + r
  BY DayOf
<1>2. s \in Nat
  BY CalendarAssumption
<1>3. s <= t /\ t < s + Day => q = d /\ t = s + r
  BY DayIs
<1> HIDE DEF q, r, s
<1>4. q = d => q * Day = s
  BY DEF s
<1>5. q = d /\ a <= r /\ r < b => s + a <= t /\ t < s + b
  BY <1>1, <1>2, <1>4, CalendarAssumption
<1>6. s + a <= t /\ t < s + b => q = d /\ a <= r /\ r < b
  BY <1>1, <1>2, <1>3, CalendarAssumption
<1> QED
  BY <1>5, <1>6 DEF q, r, s

\* A run of free units that cannot be made longer.
Longest(query, i) ==
  /\ i \in Interval /\ FreeRun(query, i)
  /\ \A j \in Interval : FreeRun(query, j) /\ j[1] <= i[1] /\ i[2] <= j[2] => j = i

LEMMA AlwaysOpen ==
  ASSUME NEW query \in SlotQuery, query.working = NoValue, NEW i
  PROVE  i \in Windows(query) <=> Longest(query, i)
<1>1. Windows(query) = Gaps(query)
  BY DEF Windows
<1>2. \A j : FreeRun(query, j) <=> \A t \in j[1]..(j[2] - 1) : OpenUnit(query, t)
  BY DEF FreeRun, FreeUnit, OpenUnit
<1>3. \A j \in Interval : j[1] \in Nat /\ j[2] \in Nat /\ j[1] < j[2]
  BY CalendarAssumption DEF Interval, Time
<1>4. ASSUME i \in Gaps(query) PROVE Longest(query, i)
  <2>1. OpenRun(query, i) /\ i \in Interval
    BY <1>4, GapsAreRuns DEF OpenRun
  <2>2. FreeRun(query, i)
    BY <1>2, <2>1 DEF OpenRun
  <2>3. ASSUME NEW j \in Interval, FreeRun(query, j), j[1] <= i[1], i[2] <= j[2] PROVE j = i
    <3>1. j[1] < i[2] /\ i[1] < j[2]
      BY <1>3, <2>1, <2>3
    <3>2. i[1] <= j[1] /\ j[2] <= i[2]
      BY <1>2, <2>1, <2>3, <3>1, WithinGap
    <3>3. j[1] = i[1] /\ j[2] = i[2]
      BY <1>3, <2>1, <2>3, <3>2
    <3> QED BY <2>1, <3>3, SameInterval
  <2> QED BY <2>1, <2>2, <2>3 DEF Longest
<1>5. ASSUME Longest(query, i) PROVE i \in Gaps(query)
  <2>1. i \in Interval /\ FreeRun(query, i)
    BY <1>5 DEF Longest
  <2>2. PICK g \in Gaps(query) : OpenRun(query, g) /\ g[1] <= i[1] /\ i[2] <= g[2]
    BY <1>2, <2>1, RunInGap
  <2>3. g \in Interval /\ FreeRun(query, g)
    BY <1>2, <2>2 DEF OpenRun
  <2>4. g = i
    BY <1>5, <2>2, <2>3 DEF Longest
  <2> QED BY <2>4
<1> QED
  BY <1>1, <1>4, <1>5

LEMMA WorkingHours ==
  ASSUME NEW query \in SlotQuery, query.working # NoValue, NEW i
  PROVE  i \in Windows(query) /\ i[1] < i[2] <=> Longest(query, i)
<1> DEFINE a == query.working[1]
           b == query.working[2]
           day(t) == t \div Day
           from(d) == d * Day + a
           to(d) == d * Day + b
           cut(g, d) == <<Later(g[1], from(d)), Earlier(g[2], to(d))>>
<1>1. a \in 0..Day /\ b \in 0..Day
  BY DEF SlotQuery
<1>2. \A j \in Interval : j[1] \in Nat /\ j[2] \in Nat /\ j[1] < j[2] /\ j[2] <= Horizon
  BY CalendarAssumption DEF Interval, Time
<1>3. \A t \in Nat : day(t) \in Nat
  BY DayOf
<1>4. \A d \in Nat : from(d) \in Nat /\ to(d) \in Nat
  BY <1>1, CalendarAssumption
<1>5. \A t \in Nat, d \in Nat : day(t) = d /\ a <= t % Day /\ t % Day < b <=> from(d) <= t /\ t < to(d)
  BY <1>1, HoursAre
<1>6. \A t \in Nat, u \in Nat : t <= u => day(t) <= day(u)
  BY DaysGrow
<1>7. Windows(query) = UNION {{cut(g, d) : d \in day(g[1])..day(g[2])} : g \in Gaps(query)}
  BY DEF Windows
<1>8. \A t \in Nat : FreeUnit(query, t) <=> OpenUnit(query, t) /\ a <= t % Day /\ t % Day < b
  BY DEF FreeUnit, OpenUnit
<1>9. \A j \in Interval : FreeRun(query, j) <=> /\ \A t \in j[1]..(j[2] - 1) : FreeUnit(query, t)
                                                /\ day(j[1]) = day(j[2] - 1)
  BY DEF FreeRun
<1> HIDE DEF day, from, to, a, b
\* A run is one of open units in the hours of a day.
<1>10. ASSUME NEW j \in Interval
       PROVE  FreeRun(query, j) <=> /\ \A t \in j[1]..(j[2] - 1) : OpenUnit(query, t)
                                    /\ from(day(j[1])) <= j[1] /\ j[2] <= to(day(j[1]))
  <2> DEFINE d == day(j[1])
  <2>1. j[1] \in Nat /\ j[2] \in Nat /\ j[1] < j[2] /\ d \in Nat /\ from(d) \in Nat /\ to(d) \in Nat
    BY <1>2, <1>3, <1>4
  <2> HIDE DEF d
  <2>2. ASSUME FreeRun(query, j)
        PROVE  /\ \A t \in j[1]..(j[2] - 1) : OpenUnit(query, t)
               /\ from(d) <= j[1] /\ j[2] <= to(d)
    <3>1. \A t \in j[1]..(j[2] - 1) : t \in Nat /\ FreeUnit(query, t)
      BY <1>9, <2>1, <2>2
    <3>2. j[1] \in j[1]..(j[2] - 1) /\ (j[2] - 1) \in j[1]..(j[2] - 1)
      BY <2>1
    <3>3. day(j[1]) = d /\ day(j[2] - 1) = d
      BY <1>9, <2>2 DEF d
    <3>4. from(d) <= j[1] /\ (j[2] - 1) < to(d)
      BY <1>5, <1>8, <2>1, <3>1, <3>2, <3>3
    <3> QED BY <1>8, <2>1, <3>1, <3>4
  <2>3. ASSUME \A t \in j[1]..(j[2] - 1) : OpenUnit(query, t), from(d) <= j[1], j[2] <= to(d)
        PROVE  FreeRun(query, j)
    <3>1. \A t \in j[1]..(j[2] - 1) : t \in Nat /\ from(d) <= t /\ t < to(d)
      BY <2>1, <2>3
    <3>2. \A t \in j[1]..(j[2] - 1) : FreeUnit(query, t) /\ day(t) = d
      BY <1>5, <1>8, <2>1, <2>3, <3>1
    <3>3. (j[2] - 1) \in j[1]..(j[2] - 1)
      BY <2>1
    <3> QED BY <1>9, <3>2, <3>3 DEF d
  <2> QED BY <2>2, <2>3 DEF d
<1>11. ASSUME i \in Windows(query), i[1] < i[2] PROVE Longest(query, i)
  <2>0. PICK g \in Gaps(query) : i \in {cut(g, d) : d \in day(g[1])..day(g[2])}
    BY <1>7, <1>11
  <2>1. PICK d \in day(g[1])..day(g[2]) : i = cut(g, d)
    BY <2>0
  <2>2. OpenRun(query, g) /\ g \in Interval
    BY GapsAreRuns DEF OpenRun
  <2>3. g[1] \in Nat /\ g[2] \in Nat /\ g[1] < g[2] /\ d \in Nat /\ from(d) \in Nat /\ to(d) \in Nat /\ g[2] <= Horizon
    BY <1>2, <1>3, <1>4, <2>2
  <2>4. /\ i = <<i[1], i[2]>> /\ i[1] = Later(g[1], from(d)) /\ i[2] = Earlier(g[2], to(d))
    BY <2>1
  <2>5. /\ i[1] \in Nat /\ i[2] \in Nat /\ g[1] <= i[1] /\ from(d) <= i[1] /\ i[2] <= g[2] /\ i[2] <= to(d)
        /\ i[1] = g[1] \/ i[1] = from(d)
        /\ i[2] = g[2] \/ i[2] = to(d)
    BY <2>3, <2>4 DEF Later, Earlier
  <2>6. i \in Interval
    <3>1. i[1] \in Time /\ i[2] \in Time
      BY <1>11, <2>3, <2>5, CalendarAssumption DEF Time
    <3> QED BY <1>11, <2>4, <3>1 DEF Interval
  <2>7. \A t \in i[1]..(i[2] - 1) : OpenUnit(query, t)
    BY <2>2, <2>3, <2>5 DEF OpenRun
  <2>8. day(i[1]) = d
    BY <1>5, <1>11, <2>3, <2>5
  <2>9. FreeRun(query, i)
    BY <1>10, <2>5, <2>6, <2>7, <2>8
  <2>10. ASSUME NEW j \in Interval, FreeRun(query, j), j[1] <= i[1], i[2] <= j[2] PROVE j = i
    <3>1. /\ j[1] \in Nat /\ j[2] \in Nat /\ j[1] < j[2]
          /\ \A t \in j[1]..(j[2] - 1) : OpenUnit(query, t)
          /\ from(day(j[1])) <= j[1] /\ j[2] <= to(day(j[1])) /\ day(j[1]) \in Nat
      BY <1>2, <1>3, <1>10, <2>10
    <3>2. day(i[1]) = day(j[1])
      <4> DEFINE e == day(j[1])
      <4>1. e \in Nat /\ from(e) \in Nat /\ to(e) \in Nat /\ from(e) <= j[1] /\ j[2] <= to(e)
        BY <1>4, <3>1
      <4> HIDE DEF e
      <4>2. from(e) <= i[1] /\ i[1] < to(e)
        BY <1>11, <2>5, <2>10, <3>1, <4>1
      <4>3. day(i[1]) = e
        BY <1>5, <2>5, <4>1, <4>2
      <4> QED BY <4>3 DEF e
    <3>3. from(d) <= j[1] /\ j[2] <= to(d)
      BY <2>8, <3>1, <3>2
    <3>4. j[1] < g[2] /\ g[1] < j[2]
      BY <1>11, <2>3, <2>5, <2>10, <3>1
    <3>5. g[1] <= j[1] /\ j[2] <= g[2]
      BY <2>2, <3>1, <3>4, WithinGap
    <3>6. j[1] = i[1] /\ j[2] = i[2]
      BY <2>3, <2>5, <2>10, <3>1, <3>3, <3>5
    <3> QED BY <2>6, <3>6, SameInterval
  <2> QED BY <2>6, <2>9, <2>10 DEF Longest
<1>12. ASSUME Longest(query, i) PROVE i \in Windows(query) /\ i[1] < i[2]
  <2> DEFINE d == day(i[1])
  <2>1. i \in Interval /\ FreeRun(query, i)
    BY <1>12 DEF Longest
  <2>2. /\ i[1] \in Nat /\ i[2] \in Nat /\ i[1] < i[2] /\ d \in Nat
        /\ from(d) \in Nat /\ to(d) \in Nat
        /\ \A t \in i[1]..(i[2] - 1) : OpenUnit(query, t)
        /\ from(d) <= i[1] /\ i[2] <= to(d)
    BY <1>2, <1>3, <1>4, <1>10, <2>1
  <2>3. PICK g \in Gaps(query) : OpenRun(query, g) /\ g[1] <= i[1] /\ i[2] <= g[2]
    BY <2>1, <2>2, RunInGap
  <2>4. g \in Interval /\ g[1] \in Nat /\ g[2] \in Nat /\ g[2] <= Horizon
    BY <1>2, <2>3 DEF OpenRun
  <2>5. d \in day(g[1])..day(g[2])
    BY <1>3, <1>6, <2>2, <2>3, <2>4
  <2> DEFINE w == cut(g, d)
  <2>6. w \in Windows(query)
    BY <1>7, <2>5
  <2>7. w = <<w[1], w[2]>> /\ w[1] = Later(g[1], from(d)) /\ w[2] = Earlier(g[2], to(d))
    OBVIOUS
  <2> HIDE DEF d, w
  <2>8. /\ w[1] \in Nat /\ w[2] \in Nat /\ w[1] <= i[1] /\ i[2] <= w[2]
        /\ from(d) <= w[1] /\ w[2] <= to(d) /\ g[1] <= w[1] /\ w[2] <= g[2] /\ w[1] < w[2]
    BY <2>2, <2>3, <2>4, <2>7 DEF Later, Earlier
  <2>9. w \in Interval
    <3>1. w[1] \in Time /\ w[2] \in Time
      BY <2>4, <2>8, CalendarAssumption DEF Time
    <3> QED BY <2>7, <2>8, <3>1 DEF Interval
  <2>10. day(w[1]) = d
    BY <1>5, <2>2, <2>8
  <2>11. \A t \in w[1]..(w[2] - 1) : OpenUnit(query, t)
    BY <2>3, <2>4, <2>8 DEF OpenRun
  <2>12. FreeRun(query, w)
    BY <1>10, <2>8, <2>9, <2>10, <2>11
  <2>13. w = i
    BY <1>12, <2>8, <2>9, <2>12 DEF Longest
  <2> QED BY <2>2, <2>6, <2>13
<1> QED
  BY <1>11, <1>12

\* The free slots of a query are what they should be.
LEMMA SlotsAre ==
  ASSUME NEW query \in SlotQuery
  PROVE  FreeSlots(query) = {i \in Interval : Longest(query, i) /\ i[2] - i[1] >= query.min}
<1>1. \A i \in Interval : i[1] < i[2]
  BY DEF Interval
<1>2. \A i : i \in Windows(query) /\ i[1] < i[2] <=> Longest(query, i)
  BY <1>1, AlwaysOpen, WorkingHours DEF Longest
<1>3. \A i : Longest(query, i) => i \in Interval
  BY DEF Longest
<1> QED
  BY <1>2, <1>3 DEF FreeSlots

-----------------------------------------------------------------------------
\* A Markdown document, flattened.

BuilderField == {"text", "paras", "spans", "para", "open", "lists", "ids", "lineStart", "itemBody"}
Builder(b) == b = [f \in BuilderField |-> b[f]]

\* A sequence, whatever it is of.
Sequence(s) == s \in Seq({s[i] : i \in DOMAIN s})

ParaSort == {"normal", "quote", "heading", "bullet", "code", "rule"}
ClosedPara == [start : Nat, end : Nat, kind : ParaSort, list : Nat, ordered : BOOLEAN]
ParaForm == [kind : ParaSort, list : Nat, ordered : BOOLEAN]

Covered(paras) == IF paras = << >> THEN 0 ELSE paras[Len(paras)].end

\* Closed paragraphs follow each other from the beginning, each with something in it.
Adjoining(paras) ==
  /\ paras \in Seq(ClosedPara)
  /\ paras # << >> => paras[1].start = 0
  /\ \A i \in 1..Len(paras) : paras[i].start < paras[i].end
  /\ \A i \in 2..Len(paras) : paras[i].start = paras[i - 1].end

SpansRight(spans) ==
  /\ Sequence(spans)
  /\ \A i \in 1..Len(spans) : spans[i].start < spans[i].end /\ spans[i].style \in {"bold", "code"}

\* The open paragraph begins where the closed ones end; without one they cover the text.
Covers(b) ==
  /\ Builder(b)
  /\ Sequence(b.text) /\ Adjoining(b.paras) /\ SpansRight(b.spans)
  /\ b.lists \in Seq([ordered : BOOLEAN, id : Nat]) /\ b.ids \in Nat /\ b.open \in Seq(Nat) /\ b.lineStart \in BOOLEAN
  /\ b.itemBody \in 0..Len(b.text)
  /\ b.para \in OpenPara \cup {NoValue}
  /\ b.para # NoValue => b.para.start = Covered(b.paras) /\ Covered(b.paras) <= Len(b.text)
  /\ b.para = NoValue => /\ Covered(b.paras) = Len(b.text)
                         /\ Len(b.text) > 0 => b.itemBody < Len(b.text)

\* What a step of the builder leaves alone.
Keeps(b, c) ==
  /\ c.lists = b.lists /\ c.ids = b.ids /\ c.spans = b.spans /\ c.open = b.open
  /\ c.lineStart = b.lineStart /\ c.itemBody = b.itemBody

LEMMA SequenceIs ==
  ASSUME NEW S, NEW s \in Seq(S) PROVE Sequence(s)
<1>1. s \in [1..Len(s) -> {s[i] : i \in DOMAIN s}] /\ Len(s) \in Nat
  OBVIOUS
<1> QED
  BY <1>1 DEF Sequence

LEMMA SequenceLen ==
  ASSUME NEW s, Sequence(s) PROVE Len(s) \in Nat /\ DOMAIN s = 1..Len(s)
  BY DEF Sequence

LEMMA JoinIs ==
  ASSUME NEW s, NEW t, Sequence(s), Sequence(t)
  PROVE  Sequence(s \o t) /\ Len(s \o t) = Len(s) + Len(t)
<1> DEFINE S == {s[i] : i \in DOMAIN s} \cup {t[i] : i \in DOMAIN t}
<1>1. s \in Seq(S) /\ t \in Seq(S)
  BY DEF Sequence
<1> HIDE DEF S
<1>2. (s \o t) \in Seq(S) /\ Len(s \o t) = Len(s) + Len(t)
  BY <1>1
<1> QED
  BY <1>2, SequenceIs

LEMMA MoreIs ==
  ASSUME NEW s, NEW e, Sequence(s)
  PROVE  /\ Sequence(Append(s, e)) /\ Len(Append(s, e)) = Len(s) + 1
         /\ \A i \in 1..Len(s) : Append(s, e)[i] = s[i]
         /\ Append(s, e)[Len(s) + 1] = e
<1> DEFINE S == {s[i] : i \in DOMAIN s} \cup {e}
<1>1. s \in Seq(S) /\ e \in S
  BY DEF Sequence
<1> HIDE DEF S
<1>2. /\ Append(s, e) \in Seq(S) /\ Len(Append(s, e)) = Len(s) + 1
      /\ \A i \in 1..Len(s) : Append(s, e)[i] = s[i]
      /\ Append(s, e)[Len(s) + 1] = e
  BY <1>1
<1> QED
  BY <1>2, SequenceIs

LEMMA LastIs ==
  ASSUME NEW S, NEW s \in Seq(S), s # << >>
  PROVE  Last(s) \in S /\ Last(s) = s[Len(s)] /\ Len(s) \in Nat \ {0}
  BY DEF Last

LEMMA FrontIs ==
  ASSUME NEW S, NEW s \in Seq(S), s # << >>
  PROVE  /\ Front(s) \in Seq(S) /\ Len(Front(s)) = Len(s) - 1
         /\ \A i \in 1..(Len(s) - 1) : Front(s)[i] = s[i]
<1> DEFINE n == Len(s) - 1
<1>1. n \in Nat /\ 1 \in Int /\ \A i \in 1..n : s[i] \in S
  OBVIOUS
<1>2. Front(s) = SubSeq(s, 1, n)
  BY DEF Front
<1> HIDE DEF n
<1>3. /\ SubSeq(s, 1, n) \in Seq(S) /\ Len(SubSeq(s, 1, n)) = IF 1 <= n THEN n - 1 + 1 ELSE 0
      /\ \A i \in 1..(n - 1 + 1) : SubSeq(s, 1, n)[i] = s[1 + i - 1]
  BY <1>1, SubSeqProperties
<1>4. /\ Front(s) \in Seq(S) /\ Len(Front(s)) = n
      /\ \A i \in 1..n : Front(s)[i] = s[i]
  BY <1>1, <1>2, <1>3
<1> QED
  BY <1>4 DEF n

LEMMA LessIs ==
  ASSUME NEW s, Sequence(s), Len(s) > 0
  PROVE  Sequence(Front(s)) /\ Len(Front(s)) = Len(s) - 1
<1> DEFINE S == {s[i] : i \in DOMAIN s}
<1>1. s \in Seq(S) /\ s # << >>
  BY DEF Sequence
<1> HIDE DEF S
<1> QED
  BY <1>1, FrontIs, SequenceIs

LEMMA OneIs ==
  ASSUME NEW u PROVE Sequence(<<u>>) /\ Len(<<u>>) = 1 /\ DOMAIN <<u>> = {1} /\ <<u>>[1] = u
<1>1. <<u>> \in Seq({u}) /\ Len(<<u>>) = 1 /\ <<u>>[1] = u
  OBVIOUS
<1>2. DOMAIN <<u>> = {1}
  OBVIOUS
<1> QED
  BY <1>1, <1>2, SequenceIs

-----------------------------------------------------------------------------
LEMMA PushIs ==
  ASSUME NEW b, NEW units, Covers(b), Sequence(units)
  PROVE  LET p == PushText(b, units) IN
           /\ Builder(p) /\ Keeps(b, p) /\ p.paras = b.paras /\ p.para = b.para
           /\ Sequence(p.text) /\ Len(p.text) >= Len(b.text)
           /\ (\A i \in DOMAIN units : units[i].c # "control") => Len(p.text) = Len(b.text) + Len(units)
<1> DEFINE q == [b EXCEPT !.text = @ \o units]
<1>1. Builder(b) /\ Sequence(b.text)
  BY DEF Covers
<1>2. /\ Builder(q) /\ Keeps(b, q) /\ q.paras = b.paras /\ q.para = b.para /\ q.text = b.text \o units
  BY <1>1 DEF Builder, BuilderField, Keeps
<1>3. /\ Sequence(b.text \o units) /\ Len(b.text \o units) = Len(b.text) + Len(units)
      /\ Len(b.text) \in Nat /\ Len(units) \in Nat
  BY <1>1, JoinIs, SequenceLen
<1>4. PushText(b, units) = IF \E i \in DOMAIN units : units[i].c = "control" THEN b ELSE q
  BY DEF PushText
<1> HIDE DEF q
<1>5. Keeps(b, b)
  BY DEF Keeps
<1>6. CASE \E i \in DOMAIN units : units[i].c = "control"
  BY <1>1, <1>3, <1>4, <1>5, <1>6
<1>7. CASE ~\E i \in DOMAIN units : units[i].c = "control"
  <2> DEFINE p == PushText(b, units)
  <2>1. p = q
    BY <1>4, <1>7
  <2> HIDE DEF p
  <2>2. /\ Builder(p) /\ Keeps(b, p) /\ p.paras = b.paras /\ p.para = b.para
        /\ Sequence(p.text) /\ Len(p.text) = Len(b.text) + Len(units)
    BY <1>2, <1>3, <2>1
  <2> QED BY <1>3, <2>2 DEF p
<1> QED
  BY <1>6, <1>7

LEMMA PushCovers ==
  ASSUME NEW b, NEW units, Covers(b), b.para # NoValue, Sequence(units)
  PROVE  /\ Covers(PushText(b, units)) /\ Keeps(b, PushText(b, units))
         /\ PushText(b, units).para = b.para /\ PushText(b, units).paras = b.paras
         /\ Len(PushText(b, units).text) >= Len(b.text)
<1> DEFINE p == PushText(b, units)
<1>1. /\ Builder(p) /\ Keeps(b, p) /\ p.paras = b.paras /\ p.para = b.para
      /\ Sequence(p.text) /\ Len(p.text) >= Len(b.text)
  BY PushIs
<1> HIDE DEF p
<1>2. Len(p.text) \in Nat /\ Len(b.text) \in Nat
  BY <1>1, SequenceLen DEF Covers
<1>3. Covered(b.paras) <= Len(b.text) /\ Covered(b.paras) \in Nat
  BY DEF Covers, OpenPara
<1>4. Covers(p)
  BY <1>1, <1>2, <1>3 DEF Covers, Keeps
<1> QED
  BY <1>1, <1>4 DEF p

LEMMA BeginIs ==
  ASSUME NEW b, NEW para \in ParaForm, Covers(b)
  PROVE  /\ Covers(BeginPara(b, para)) /\ Keeps(b, BeginPara(b, para))
         /\ BeginPara(b, para).para # NoValue /\ BeginPara(b, para).text = b.text
<1>1. CASE b.para # NoValue
  BY <1>1 DEF BeginPara, Keeps
<1>2. CASE b.para = NoValue
  <2> DEFINE kind == IF para.kind = "normal" /\ InQuote THEN "quote" ELSE para.kind
             new == [start |-> DocLen(b), kind |-> kind, list |-> para.list, ordered |-> para.ordered]
             p == [b EXCEPT !.para = new]
  <2>1. Builder(b) /\ Sequence(b.text) /\ Len(b.text) \in Nat
    BY SequenceLen DEF Covers
  <2>2. kind \in ParaSort /\ para.list \in Nat /\ para.ordered \in BOOLEAN
    BY DEF ParaForm, ParaSort
  <2>3. new \in OpenPara /\ new.start = Len(b.text)
    BY <2>1, <2>2 DEF OpenPara, ParaSort, DocLen
  <2>4. BeginPara(b, para) = p
    BY <1>2 DEF BeginPara
  <2> HIDE DEF new
  <2>5. /\ Builder(p) /\ Keeps(b, p) /\ p.paras = b.paras /\ p.para = new /\ p.text = b.text
    BY <2>1 DEF Builder, BuilderField, Keeps
  <2> HIDE DEF p
  <2>6. new # NoValue
    BY <2>3, OpenParaAssumption
  <2>7. Covers(p)
    BY <1>2, <2>1, <2>3, <2>5, <2>6 DEF Covers, Keeps
  <2> QED BY <2>4, <2>5, <2>6, <2>7
<1> QED
  BY <1>1, <1>2

LEMMA EndIs ==
  ASSUME NEW b, Covers(b)
  PROVE  Covers(EndPara(b)) /\ Keeps(b, EndPara(b)) /\ EndPara(b).para = NoValue
<1>1. CASE b.para = NoValue
  BY <1>1 DEF EndPara, Keeps
<1>2. CASE b.para # NoValue
  <2> DEFINE closed == PushText(b, <<Unit("nl", NoValue)>>)
             new == [start |-> b.para.start, end |-> DocLen(closed),
                     kind |-> b.para.kind, list |-> b.para.list, ordered |-> b.para.ordered]
             p == [closed EXCEPT !.paras = Append(@, new), !.para = NoValue]
  <2>1. EndPara(b) = p
    BY <1>2 DEF EndPara
  <2>2. /\ Builder(closed) /\ Keeps(b, closed) /\ closed.paras = b.paras /\ closed.para = b.para
        /\ Sequence(closed.text) /\ Len(closed.text) = Len(b.text) + 1
    <3> DEFINE u == Unit("nl", NoValue)
               units == <<u>>
    <3>1. u.c # "control"
      BY DEF Unit
    <3> HIDE DEF u
    <3>2. Sequence(units) /\ Len(units) = 1 /\ \A i \in DOMAIN units : units[i].c # "control"
      BY <3>1, OneIs
    <3> HIDE DEF units
    <3>3. closed = PushText(b, units)
      BY DEF u, units
    <3> HIDE DEF closed
    <3> QED BY <3>2, <3>3, PushIs
  <2>3. /\ Len(b.text) \in Nat /\ b.para \in OpenPara /\ b.paras \in Seq(ClosedPara) /\ Adjoining(b.paras)
        /\ b.para.start = Covered(b.paras) /\ b.para.start <= Len(b.text) /\ b.itemBody \in 0..Len(b.text)
    BY <1>2, SequenceLen DEF Covers, Adjoining
  <2>4. new \in ClosedPara /\ new.start = Covered(b.paras) /\ new.end = Len(b.text) + 1 /\ new.start < new.end
    BY <2>2, <2>3 DEF ClosedPara, OpenPara, ParaSort, DocLen
  <2> HIDE DEF closed, new
  <2>5. /\ Builder(p) /\ Keeps(b, p) /\ p.text = closed.text /\ p.para = NoValue
        /\ p.paras = Append(b.paras, new)
    BY <2>2 DEF Builder, BuilderField, Keeps
  <2> HIDE DEF p
  <2>6. Adjoining(p.paras) /\ Covered(p.paras) = new.end
    <3> DEFINE n == Len(b.paras)
               s == Append(b.paras, new)
    <3>1. /\ n \in Nat /\ s \in Seq(ClosedPara) /\ Len(s) = n + 1 /\ s # << >>
          /\ \A i \in 1..n : s[i] = b.paras[i]
          /\ s[n + 1] = new
      BY <2>3, <2>4
    <3>2. /\ n = 0 <=> b.paras = << >>
          /\ Covered(b.paras) = IF n = 0 THEN 0 ELSE b.paras[n].end
      BY <2>3 DEF Covered
    <3>3. /\ n # 0 => b.paras[1].start = 0
          /\ \A i \in 1..n : b.paras[i].start < b.paras[i].end
          /\ \A i \in 2..n : b.paras[i].start = b.paras[i - 1].end
      BY <2>3, <3>2 DEF Adjoining
    <3> HIDE DEF n, s
    <3>4. s[1].start = 0
      BY <2>4, <3>1, <3>2, <3>3
    <3>5. \A i \in 1..(n + 1) : s[i].start < s[i].end
      BY <2>4, <3>1, <3>3
    <3>6. \A i \in 2..(n + 1) : s[i].start = s[i - 1].end
      <4> TAKE i \in 2..(n + 1)
      <4>1. CASE i = n + 1
        <5>1. n # 0 /\ n \in 1..n /\ i - 1 = n
          BY <3>1, <4>1
        <5> QED BY <2>4, <3>1, <3>2, <4>1, <5>1
      <4>2. CASE i # n + 1
        <5>1. i \in 2..n /\ i \in 1..n /\ (i - 1) \in 1..n
          BY <3>1, <4>2
        <5> QED BY <3>1, <3>3, <5>1
      <4> QED BY <4>1, <4>2
    <3>7. Covered(s) = new.end
      BY <3>1 DEF Covered
    <3> QED BY <2>5, <3>1, <3>4, <3>5, <3>6, <3>7 DEF Adjoining, s
  <2>7. Covers(p)
    BY <2>2, <2>3, <2>4, <2>5, <2>6 DEF Covers, Keeps
  <2> QED BY <2>1, <2>5, <2>7
<1> QED
  BY <1>1, <1>2

LEMMA KindIs ==
  ASSUME NEW b, Covers(b) PROVE ListItemKind(b) \in ParaForm
<1>1. b.lists \in Seq([ordered : BOOLEAN, id : Nat])
  BY DEF Covers
<1>2. CASE b.lists = << >>
  BY <1>2 DEF ListItemKind, ParaOf, NoList, ParaForm, ParaSort
<1>3. CASE b.lists # << >>
  <2>1. Last(b.lists) \in [ordered : BOOLEAN, id : Nat]
    <3> DEFINE S == [ordered : BOOLEAN, id : Nat]
    <3>1. b.lists \in Seq(S) /\ b.lists # << >>
      BY <1>1, <1>3
    <3> HIDE DEF S
    <3>2. Last(b.lists) \in S
      BY <3>1, LastIs
    <3> QED BY <3>2 DEF S
  <2> QED BY <1>3, <2>1 DEF ListItemKind, ParaOf, ParaForm, ParaSort
<1> QED
  BY <1>2, <1>3

\* Without an open paragraph, the last one that was closed is opened again: its line end
\* goes, and a line break takes its place unless nothing precedes it.
LEMMA ReopenIs ==
  ASSUME NEW b, Covers(b), b.para = NoValue, b.paras # << >>, Last(b.paras).kind = "bullet"
  PROVE  LET last == Last(b.paras)
             reopened == [b EXCEPT !.text = Front(@), !.paras = Front(@)]
             p == [BreakLine(reopened, last.start) EXCEPT
                     !.para = [start |-> last.start, kind |-> "bullet", list |-> last.list, ordered |-> last.ordered]]
         IN  Covers(p) /\ Keeps(b, p) /\ p.para # NoValue
<1> DEFINE n == Len(b.paras)
           last == Last(b.paras)
           text == Front(b.text)
           paras == Front(b.paras)
           r == [b EXCEPT !.text = Front(@), !.paras = Front(@)]
           new == [start |-> last.start, kind |-> "bullet", list |-> last.list, ordered |-> last.ordered]
           c == BreakLine(r, last.start)
           p == [c EXCEPT !.para = new]
<1>1. /\ Builder(b) /\ Sequence(b.text) /\ Adjoining(b.paras) /\ b.paras \in Seq(ClosedPara)
      /\ Covered(b.paras) = Len(b.text) /\ b.itemBody \in 0..Len(b.text)
      /\ Len(b.text) > 0 => b.itemBody < Len(b.text)
  BY DEF Covers, Adjoining
<1>2. last \in ClosedPara /\ last = b.paras[n] /\ n \in Nat \ {0}
  BY <1>1, LastIs
<1>3. last.start \in Nat /\ last.end \in Nat /\ last.list \in Nat /\ last.ordered \in BOOLEAN
  BY <1>2 DEF ClosedPara
<1>4. last.start < last.end /\ last.end = Len(b.text)
  <2>1. n \in 1..n
    BY <1>2
  <2> QED BY <1>1, <1>2, <2>1 DEF Adjoining, Covered
<1>5. Sequence(text) /\ Len(text) = Len(b.text) - 1 /\ Len(b.text) \in Nat
  BY <1>1, <1>3, <1>4, LessIs
<1>6. /\ paras \in Seq(ClosedPara) /\ Len(paras) = n - 1
      /\ \A i \in 1..(n - 1) : paras[i] = b.paras[i]
  BY <1>1, <1>2, FrontIs
<1>7. new \in OpenPara /\ new # NoValue /\ new.start = last.start
  <2>1. new \in OpenPara /\ new.start = last.start
    BY <1>3 DEF OpenPara
  <2> HIDE DEF new
  <2> QED BY <2>1, OpenParaAssumption
<1>8. /\ Builder(r) /\ Keeps(b, r) /\ r.text = text /\ r.paras = paras /\ r.para = NoValue
  BY <1>1 DEF Builder, BuilderField, Keeps
<1> HIDE DEF n, last, text, paras, r, new
<1>9. Adjoining(paras) /\ Covered(paras) = last.start
  <2>1. /\ b.paras[1].start = 0
        /\ \A i \in 1..n : b.paras[i].start < b.paras[i].end
        /\ \A i \in 2..n : b.paras[i].start = b.paras[i - 1].end
    BY <1>1, <1>2 DEF Adjoining, n
  <2>2. CASE n = 1
    <3>1. paras = << >>
      BY <1>6, <2>2
    <3> QED BY <1>2, <1>6, <2>1, <2>2, <3>1 DEF Adjoining, Covered
  <2>3. CASE n # 1
    <3>1. /\ 1 \in 1..(n - 1) /\ (n - 1) \in 1..(n - 1) /\ n \in 2..n /\ paras # << >>
          /\ \A i \in 1..(n - 1) : i \in 1..n
          /\ \A i \in 2..(n - 1) : i \in 2..n /\ i \in 1..(n - 1) /\ (i - 1) \in 1..(n - 1)
      BY <1>2, <1>6, <2>3
    <3>2. paras[1].start = 0
      BY <1>6, <2>1, <3>1
    <3>3. \A i \in 1..(n - 1) : paras[i].start < paras[i].end
      BY <1>6, <2>1, <3>1
    <3>4. \A i \in 2..(n - 1) : paras[i].start = paras[i - 1].end
      BY <1>6, <2>1, <3>1
    <3>5. Covered(paras) = paras[n - 1].end
      BY <1>6, <3>1 DEF Covered
    <3>6. Covered(paras) = last.start
      BY <1>2, <1>6, <2>1, <3>1, <3>5
    <3> QED BY <1>6, <3>2, <3>3, <3>4, <3>6 DEF Adjoining
  <2> QED BY <2>2, <2>3
<1>10. /\ Builder(c) /\ Keeps(r, c) /\ c.paras = r.paras
       /\ Sequence(c.text) /\ Len(c.text) >= Len(r.text) /\ Len(c.text) \in Nat
  <2> DEFINE u == Unit("vt", NoValue)
             units == <<u>>
             q == [r EXCEPT !.text = @ \o units]
  <2>1. u.c # "control"
    BY DEF Unit
  <2> HIDE DEF u
  <2>2. Sequence(units) /\ Len(units) = 1 /\ \A i \in DOMAIN units : units[i].c # "control"
    BY <2>1, OneIs
  <2>3. c = r \/ c = PushText(r, units)
    BY DEF BreakLine, u
  <2> HIDE DEF units, c
  <2>4. PushText(r, units) = q
    BY <2>2 DEF PushText
  <2>5. Builder(q) /\ Keeps(r, q) /\ q.paras = r.paras /\ q.text = r.text \o units
    BY <1>8 DEF Builder, BuilderField, Keeps
  <2> HIDE DEF q
  <2>6. Sequence(q.text) /\ Len(q.text) = Len(r.text) + 1 /\ Len(r.text) \in Nat
    BY <1>5, <1>8, <2>2, <2>5, JoinIs, SequenceLen
  <2>7. Keeps(r, r)
    BY DEF Keeps
  <2>8. CASE c = r
    BY <1>5, <1>8, <2>6, <2>7, <2>8
  <2>9. CASE c = q
    <3>1. Len(q.text) >= Len(r.text) /\ Len(q.text) \in Nat
      BY <2>6
    <3> QED BY <2>5, <2>6, <2>9, <3>1
  <2> QED BY <2>3, <2>4, <2>8, <2>9
<1> HIDE DEF c
<1>11. Builder(p) /\ Keeps(c, p) /\ p.paras = c.paras /\ p.text = c.text /\ p.para = new
  BY <1>10 DEF Builder, BuilderField, Keeps
<1> HIDE DEF p
<1>12. Keeps(b, p)
  BY <1>8, <1>10, <1>11 DEF Keeps
<1>13. /\ Builder(p) /\ Sequence(p.text) /\ p.paras = paras /\ p.para = new
       /\ Len(p.text) \in Nat /\ Len(p.text) >= Len(b.text) - 1
  BY <1>5, <1>8, <1>10, <1>11
<1>14. b.itemBody \in 0..Len(p.text) /\ last.start <= Len(p.text)
  BY <1>1, <1>3, <1>4, <1>5, <1>13
<1>15. Covers(p)
  BY <1>7, <1>9, <1>12, <1>13, <1>14 DEF Covers, Keeps
<1> QED
  BY <1>7, <1>12, <1>13, <1>15 DEF p, c, r, new, last

LEMMA BreakIs ==
  ASSUME NEW b, NEW start, Covers(b), b.para # NoValue
  PROVE  Covers(BreakLine(b, start)) /\ Keeps(b, BreakLine(b, start)) /\ BreakLine(b, start).para # NoValue
<1> DEFINE u == Unit("vt", NoValue)
           units == <<u>>
<1>1. Sequence(units)
  BY OneIs
<1>2. BreakLine(b, start) = b \/ BreakLine(b, start) = PushText(b, units)
  BY DEF BreakLine
<1> HIDE DEF units
<1>3. /\ Covers(PushText(b, units)) /\ Keeps(b, PushText(b, units)) /\ PushText(b, units).para # NoValue
      /\ Keeps(b, b)
  BY <1>1, PushCovers DEF Keeps
<1> QED
  BY <1>2, <1>3

LEMMA ContinueIs ==
  ASSUME NEW b, Covers(b)
  PROVE  Covers(ContinueItem(b)) /\ Keeps(b, ContinueItem(b)) /\ ContinueItem(b).para # NoValue
<1>1. CASE b.para # NoValue
  BY <1>1, BreakIs DEF ContinueItem
<1>2. CASE b.para = NoValue /\ b.paras # << >> /\ Last(b.paras).end = DocLen(b) /\ Last(b.paras).kind = "bullet"
  BY <1>2, ReopenIs DEF ContinueItem
<1>3. CASE b.para = NoValue /\ ~(b.paras # << >> /\ Last(b.paras).end = DocLen(b) /\ Last(b.paras).kind = "bullet")
  BY <1>3, BeginIs, KindIs DEF ContinueItem
<1> QED
  BY <1>1, <1>2, <1>3

LEMMA SpanIs ==
  ASSUME NEW b, NEW start, NEW style \in {"bold", "code"}, Covers(b)
  PROVE  LET c == SpanFrom(b, start, style) IN
           /\ Covers(c) /\ c.para = b.para /\ c.lists = b.lists /\ c.lineStart = b.lineStart
<1> DEFINE new == [start |-> start, end |-> DocLen(b), style |-> style]
           spans == Append(b.spans, new)
           c == [b EXCEPT !.spans = Append(@, new)]
<1>1. Builder(b) /\ SpansRight(b.spans) /\ Sequence(b.spans) /\ Len(b.spans) \in Nat
  BY SequenceLen DEF Covers, SpansRight
<1>2. SpanFrom(b, start, style) = IF DocLen(b) > start THEN c ELSE b
  BY DEF SpanFrom
<1>3. /\ Builder(c) /\ c.spans = spans /\ c.text = b.text /\ c.paras = b.paras /\ c.para = b.para
      /\ c.lists = b.lists /\ c.ids = b.ids /\ c.open = b.open /\ c.lineStart = b.lineStart /\ c.itemBody = b.itemBody
  BY <1>1 DEF Builder, BuilderField
<1>4. ASSUME DocLen(b) > start PROVE SpansRight(spans)
  <2>1. new.start < new.end /\ new.style \in {"bold", "code"}
    BY <1>4
  <2> HIDE DEF new
  <2>2. /\ Sequence(spans) /\ Len(spans) = Len(b.spans) + 1
        /\ \A i \in 1..Len(b.spans) : spans[i] = b.spans[i]
        /\ spans[Len(b.spans) + 1] = new
    BY <1>1, MoreIs
  <2> HIDE DEF spans
  <2> QED BY <1>1, <2>1, <2>2 DEF SpansRight
<1> HIDE DEF spans, c
<1>5. DocLen(b) > start => Covers(c)
  BY <1>3, <1>4 DEF Covers
<1> QED
  BY <1>2, <1>3, <1>5

\* What is set in between.
LEMMA LineStartIs ==
  ASSUME NEW b, NEW v \in BOOLEAN, Covers(b)
  PROVE  LET c == [b EXCEPT !.lineStart = v] IN Covers(c) /\ c.para = b.para /\ c.lists = b.lists /\ c.lineStart = v
<1> DEFINE c == [b EXCEPT !.lineStart = v]
<1>1. /\ Builder(c) /\ c.text = b.text /\ c.paras = b.paras /\ c.spans = b.spans /\ c.para = b.para
      /\ c.lists = b.lists /\ c.ids = b.ids /\ c.open = b.open /\ c.lineStart = v /\ c.itemBody = b.itemBody
  BY DEF Covers, Builder, BuilderField
<1> HIDE DEF c
<1>2. Covers(c)
  BY <1>1 DEF Covers
<1> QED
  BY <1>1, <1>2 DEF c

LEMMA OpenIs ==
  ASSUME NEW b, NEW v \in Seq(Nat), Covers(b)
  PROVE  LET c == [b EXCEPT !.open = v] IN Covers(c) /\ c.para = b.para /\ c.lists = b.lists /\ c.lineStart = b.lineStart
<1> DEFINE c == [b EXCEPT !.open = v]
<1>1. /\ Builder(c) /\ c.text = b.text /\ c.paras = b.paras /\ c.spans = b.spans /\ c.para = b.para
      /\ c.lists = b.lists /\ c.ids = b.ids /\ c.open = v /\ c.lineStart = b.lineStart /\ c.itemBody = b.itemBody
  BY DEF Covers, Builder, BuilderField
<1> HIDE DEF c
<1>2. Covers(c)
  BY <1>1 DEF Covers
<1> QED
  BY <1>1, <1>2 DEF c

LEMMA ListsAre ==
  ASSUME NEW b, NEW v \in Seq([ordered : BOOLEAN, id : Nat]), Covers(b)
  PROVE  LET c == [b EXCEPT !.lists = v] IN Covers(c) /\ c.para = b.para /\ c.lists = v /\ c.lineStart = b.lineStart
<1> DEFINE c == [b EXCEPT !.lists = v]
<1>1. /\ Builder(c) /\ c.text = b.text /\ c.paras = b.paras /\ c.spans = b.spans /\ c.para = b.para
      /\ c.lists = v /\ c.ids = b.ids /\ c.open = b.open /\ c.lineStart = b.lineStart /\ c.itemBody = b.itemBody
  BY DEF Covers, Builder, BuilderField
<1> HIDE DEF c
<1>2. Covers(c)
  BY <1>1 DEF Covers
<1> QED
  BY <1>1, <1>2 DEF c

LEMMA ItemBodyIs ==
  ASSUME NEW b, Covers(b), b.para # NoValue
  PROVE  LET c == [b EXCEPT !.itemBody = DocLen(b)] IN Covers(c) /\ c.para = b.para /\ c.lists = b.lists
<1> DEFINE c == [b EXCEPT !.itemBody = DocLen(b)]
<1>1. /\ Builder(c) /\ c.text = b.text /\ c.paras = b.paras /\ c.spans = b.spans /\ c.para = b.para
      /\ c.lists = b.lists /\ c.ids = b.ids /\ c.open = b.open /\ c.lineStart = b.lineStart /\ c.itemBody = Len(b.text)
  BY DEF Covers, Builder, BuilderField, DocLen
<1>2. Len(b.text) \in Nat
  BY SequenceLen DEF Covers
<1> HIDE DEF c
<1>3. Covers(c)
  BY <1>1, <1>2 DEF Covers
<1> QED
  BY <1>1, <1>3 DEF c

LEMMA OpenListIs ==
  ASSUME NEW b, NEW ordered \in BOOLEAN, Covers(b)
  PROVE  Covers(OpenList(b, ordered))
<1> DEFINE S == [ordered : BOOLEAN, id : Nat]
<1>1. b.lists \in Seq(S) /\ b.ids \in Nat /\ Builder(b)
  BY DEF Covers
<1>2. CASE b.lists # << >>
  <2> DEFINE new == [ordered |-> b.lists[1].ordered, id |-> b.lists[1].id]
             v == Append(b.lists, new)
  <2>1. b.lists[1] \in S
    <3> HIDE DEF S
    <3> QED BY <1>1, <1>2
  <2>2. new \in S
    BY <2>1
  <2> HIDE DEF new, S
  <2>3. v \in Seq(S)
    BY <1>1, <2>2
  <2>4. OpenList(b, ordered) = [b EXCEPT !.lists = v]
    BY <1>2 DEF OpenList, new
  <2> HIDE DEF v
  <2> QED BY <2>3, <2>4, ListsAre DEF S
<1>3. CASE b.lists = << >>
  <2> DEFINE new == [ordered |-> ordered, id |-> b.ids + 1]
             c == [b EXCEPT !.ids = @ + 1, !.lists = <<new>>]
  <2>1. new \in S
    BY <1>1
  <2> HIDE DEF new, S
  <2>2. <<new>> \in Seq(S)
    BY <2>1
  <2>3. OpenList(b, ordered) = c
    BY <1>3 DEF OpenList, new
  <2>4. /\ Builder(c) /\ c.text = b.text /\ c.paras = b.paras /\ c.spans = b.spans /\ c.para = b.para
        /\ c.lists = <<new>> /\ c.ids = b.ids + 1 /\ c.open = b.open /\ c.lineStart = b.lineStart
        /\ c.itemBody = b.itemBody
    BY <1>1 DEF Builder, BuilderField
  <2> HIDE DEF c
  <2> QED BY <1>1, <2>2, <2>3, <2>4 DEF Covers, S
<1> QED
  BY <1>2, <1>3

-----------------------------------------------------------------------------
\* The constructs of the parser: none is open inside a code block.
TagSort == {"para", "heading", "quote", "code", "list", "item", "strong"}
AfterSort == {"start", "block", "code", "strong", "text", "line", "break"}
DocTag == [tag : TagSort, tight : BOOLEAN, n : Nat, after : AfterSort, id : Nat]

Nested(tags) ==
  /\ tags \in Seq(DocTag)
  /\ \A i \in 1..(Len(tags) - 1) : tags[i].tag # "code"

LEMMA FollowsIs ==
  ASSUME NEW what \in AfterSort, Nested(tTags)
  PROVE  /\ Follows(what) \in Seq(DocTag) /\ Len(Follows(what)) = Len(tTags)
         /\ \A i \in 1..Len(tTags) : Follows(what)[i].tag = tTags[i].tag
<1> DEFINE n == Len(tTags)
           last == [tTags[n] EXCEPT !.after = what, !.n = @ + 1]
<1>1. tTags \in Seq(DocTag) /\ n \in Nat
  BY DEF Nested
<1>2. CASE tTags = << >>
  BY <1>2 DEF Follows
<1>3. CASE tTags # << >>
  <2>1. tTags[n] \in DocTag /\ n \in 1..n
    <3> HIDE DEF DocTag
    <3> QED BY <1>1, <1>3
  <2>2. last \in DocTag /\ last.tag = tTags[n].tag
    <3> DEFINE t == tTags[n]
    <3>1. t \in DocTag
      BY <2>1
    <3> HIDE DEF t
    <3>2. /\ t = [tag |-> t.tag, tight |-> t.tight, n |-> t.n, after |-> t.after, id |-> t.id]
          /\ t.tag \in TagSort /\ t.tight \in BOOLEAN /\ t.n \in Nat /\ t.id \in Nat
      BY <3>1 DEF DocTag
    <3> DEFINE u == [t EXCEPT !.after = what]
               m == t.n + 1
    <3>3. /\ u = [tag |-> t.tag, tight |-> t.tight, n |-> t.n, after |-> what, id |-> t.id]
          /\ m \in Nat
      BY <3>2
    <3> HIDE DEF u
    <3>4. [u EXCEPT !.n = m] = [tag |-> t.tag, tight |-> t.tight, n |-> m, after |-> what, id |-> t.id]
      BY <3>3
    <3>5. [u EXCEPT !.n = m] \in DocTag /\ [u EXCEPT !.n = m].tag = t.tag
      BY <3>2, <3>3, <3>4 DEF DocTag
    <3>6. last = [u EXCEPT !.n = m]
      BY DEF u, t
    <3> QED BY <3>5, <3>6 DEF t
  <2>3. Follows(what) = [tTags EXCEPT ![n] = last]
    BY <1>3, <2>1 DEF Follows, DocTag
  <2> HIDE DEF last
  <2>4. /\ [tTags EXCEPT ![n] = last] \in Seq(DocTag) /\ Len([tTags EXCEPT ![n] = last]) = n
        /\ \A i \in 1..n : [tTags EXCEPT ![n] = last][i] = IF i = n THEN last ELSE tTags[i]
    BY <1>1, <2>1, <2>2
  <2> QED BY <2>2, <2>3, <2>4
<1> QED
  BY <1>2, <1>3

LEMMA OpensIs ==
  ASSUME NEW tag \in TagSort, NEW tight \in BOOLEAN, NEW what \in AfterSort,
         Nested(tTags), tCount \in Nat, Innermost.tag # "code", Opens(tag, tight, what)
  PROVE  Nested(tTags') /\ Innermost'.tag = tag
<1> DEFINE f == Follows(what)
           new == [tag |-> tag, tight |-> tight, n |-> 0, after |-> "start", id |-> tCount]
           n == Len(tTags)
<1>1. /\ f \in Seq(DocTag) /\ Len(f) = n /\ \A i \in 1..n : f[i].tag = tTags[i].tag
      /\ n \in Nat /\ tTags \in Seq(DocTag) /\ \A i \in 1..(n - 1) : tTags[i].tag # "code"
  BY FollowsIs DEF Nested
<1>2. new \in DocTag /\ new.tag = tag
  BY DEF DocTag, AfterSort
<1>3. tTags' = Append(f, new)
  BY DEF Opens
<1>4. n # 0 => tTags[n].tag # "code"
  BY <1>1, LastIs DEF Innermost
<1> HIDE DEF f, new, n, DocTag
<1>5. /\ tTags' \in Seq(DocTag) /\ Len(tTags') = n + 1 /\ tTags'[n + 1] = new /\ tTags' # << >>
      /\ \A i \in 1..n : tTags'[i] = f[i]
  BY <1>1, <1>2, <1>3
<1>6. \A i \in 1..n : tTags'[i].tag # "code"
  BY <1>1, <1>4, <1>5
<1>7. Last(tTags') = new
  BY <1>5, LastIs
<1>8. Innermost'.tag = tag
  BY <1>2, <1>5, <1>7 DEF Innermost
<1>9. Len(tTags') - 1 = n
  BY <1>1, <1>5
<1> QED
  BY <1>5, <1>6, <1>8, <1>9 DEF Nested

\* An event inside the innermost construct.
LEMMA FollowedIs ==
  ASSUME NEW what \in AfterSort, Nested(tTags), tTags' = Follows(what)
  PROVE  Nested(tTags') /\ Innermost'.tag = Innermost.tag
<1> DEFINE n == Len(tTags)
<1>1. /\ tTags' \in Seq(DocTag) /\ Len(tTags') = n /\ \A i \in 1..n : tTags'[i].tag = tTags[i].tag
      /\ n \in Nat /\ tTags \in Seq(DocTag) /\ \A i \in 1..(n - 1) : tTags[i].tag # "code"
  BY FollowsIs DEF Nested
<1> HIDE DEF n, DocTag
<1>2. Nested(tTags')
  BY <1>1 DEF Nested
<1>3. CASE n = 0
  <2>1. tTags = << >> /\ tTags' = << >>
    BY <1>1, <1>3 DEF n
  <2> QED BY <1>2, <2>1 DEF Innermost
<1>4. CASE n # 0
  <2>1. tTags # << >> /\ tTags' # << >>
    BY <1>1, <1>4 DEF n
  <2>2. Last(tTags) = tTags[n] /\ Last(tTags') = tTags'[n]
    BY <1>1, <2>1, LastIs DEF n
  <2> QED BY <1>1, <1>2, <1>4, <2>1, <2>2 DEF Innermost
<1> QED
  BY <1>3, <1>4

LEMMA ClosesIs ==
  ASSUME Nested(tTags), tTags # << >>, tTags' = Front(tTags)
  PROVE  Nested(tTags') /\ Innermost'.tag # "code"
<1> DEFINE n == Len(tTags)
<1>1. /\ tTags \in Seq(DocTag) /\ \A i \in 1..(n - 1) : tTags[i].tag # "code"
      /\ n \in Nat
  BY DEF Nested
<1> HIDE DEF DocTag
<1>2. /\ tTags' \in Seq(DocTag) /\ Len(tTags') = n - 1 /\ \A i \in 1..(n - 1) : tTags'[i] = tTags[i]
  BY <1>1, FrontIs
<1> HIDE DEF n
<1>3. Nested(tTags')
  BY <1>1, <1>2 DEF Nested
<1>4. CASE n = 1
  <2>1. tTags' = << >>
    BY <1>2, <1>4
  <2> QED BY <1>3, <2>1 DEF Innermost
<1>5. CASE n # 1
  <2>1. tTags' # << >> /\ (n - 1) \in 1..(n - 1)
    BY <1>1, <1>2, <1>5 DEF n
  <2>2. Last(tTags') = tTags'[n - 1]
    BY <1>2, <2>1, LastIs
  <2> QED BY <1>1, <1>2, <1>3, <2>1, <2>2 DEF Innermost
<1> QED
  BY <1>4, <1>5

\* Inside a line of code that belongs to an item, the item's paragraph is open.
MidLine ==
  Innermost.tag = "code" /\ tLists # << >> /\ ~tLineStart => tPara # NoValue

DocInv ==
  /\ tStep \in {"off", "parse", "requests", "over"}
  /\ tOld \in [text : BOOLEAN, bullet : BOOLEAN, styled : BOOLEAN] \cup {NoValue}
  /\ tSpent \in 0..MarkdownEvents /\ tCount \in Nat /\ tLine \in Nat /\ tCuts \in Nat
  /\ Nested(tTags) /\ MidLine /\ Covers(Built)
  /\ tStep = "requests" => tPara = NoValue /\ Len(tText) > 0

LEMMA BuildIs ==
  ASSUME NEW b, Covers(b), Build(b)
  PROVE  /\ Covers(Built)' /\ Built' = b
         /\ tPara' = b.para /\ tLists' = b.lists /\ tLineStart' = b.lineStart /\ tText' = b.text
<1>1. Builder(b)
  BY DEF Covers
<1>2. Built' = b
  BY <1>1 DEF Built, Build, Builder, BuilderField
<1>3. Covers(Built')
  BY <1>2
<1> QED
  BY <1>2, <1>3 DEF Build

\* An event, whatever it makes of the text.
LEMMA EventKeeps ==
  ASSUME DocInv, NEW cost \in {0, 1}, Event(cost), NEW b, Covers(b), Build(b),
         Nested(tTags'), tLine' \in Nat, tCuts' \in Nat,
         Innermost'.tag # "code" \/ b.lists = << >> \/ b.lineStart \/ b.para # NoValue
  PROVE  DocInv'
<1>1. tStep' = "parse" /\ tCount' \in Nat /\ tSpent' \in 0..MarkdownEvents /\ tOld' = tOld
  BY DocTextAssumption DEF DocInv, Event
<1>2. Covers(Built)' /\ tPara' = b.para /\ tLists' = b.lists /\ tLineStart' = b.lineStart
  BY BuildIs
<1>3. MidLine'
  BY <1>2 DEF MidLine
<1> QED
  BY <1>1, <1>2, <1>3 DEF DocInv

LEMMA LineCounts ==
  ASSUME DocInv
  PROVE  /\ Line => tLine' \in Nat
         /\ Cut => tCuts' \in Nat
         /\ UNCHANGED tCuts => tCuts' \in Nat
         /\ Trails => tLine' \in Nat /\ tCuts' \in Nat
  BY DEF DocInv, Line, Cut, Trails

LEMMA FormsAre ==
  /\ ParaOf("normal", NoList) \in ParaForm /\ ParaOf("heading", NoList) \in ParaForm
  /\ ParaOf("rule", NoList) \in ParaForm /\ ParaOf("code", NoList) \in ParaForm
  BY DEF ParaOf, NoList, ParaForm, ParaSort

LEMMA BuiltIs ==
  ASSUME DocInv
  PROVE  /\ Covers(Built) /\ Built.lists = tLists /\ Built.para = tPara /\ Built.lineStart = tLineStart
         /\ Built.open = tOpen /\ Built.text = tText /\ Built.paras = tParas
  BY DEF DocInv, Built

LEMMA StartParagraphKeeps ==
  ASSUME DocInv, StartParagraph PROVE DocInv'
<1>1. /\ Event(1) /\ Opens("para", FALSE, "block") /\ Innermost.tag # "code"
      /\ tLine' \in Nat /\ tCuts' \in Nat
  BY LineCounts DEF StartParagraph, Spends, HoldsBlocks
<1>2. Nested(tTags') /\ Innermost'.tag # "code"
  BY <1>1, OpensIs DEF DocInv, TagSort, AfterSort
<1> DEFINE b == IF Built.lists # << >> /\ Built.para = NoValue THEN ContinueItem(Built)
                ELSE BeginPara(Built, ListItemKind(Built))
<1>3. Covers(b)
  BY BuiltIs, ContinueIs, BeginIs, KindIs
<1>4. Build(b)
  BY DEF StartParagraph
<1> HIDE DEF b
<1> QED
  BY <1>1, <1>2, <1>3, <1>4, EventKeeps

LEMMA StartHeadingKeeps ==
  ASSUME DocInv, StartHeading PROVE DocInv'
<1>1. /\ Event(1) /\ Opens("heading", FALSE, "block") /\ Innermost.tag # "code"
      /\ tLine' \in Nat /\ tCuts' \in Nat
  BY LineCounts DEF StartHeading, Spends, HoldsBlocks
<1>2. Nested(tTags') /\ Innermost'.tag # "code"
  BY <1>1, OpensIs DEF DocInv, TagSort, AfterSort
<1> DEFINE b == BeginPara(EndPara(Built), ParaOf("heading", NoList))
<1>3. Covers(b)
  BY BuiltIs, EndIs, BeginIs, FormsAre
<1>4. Build(b)
  BY DEF StartHeading
<1> HIDE DEF b
<1> QED
  BY <1>1, <1>2, <1>3, <1>4, EventKeeps

LEMMA StartQuoteKeeps ==
  ASSUME DocInv, StartQuote PROVE DocInv'
<1>1. /\ Event(1) /\ Opens("quote", FALSE, "block") /\ Innermost.tag # "code"
      /\ tLine' \in Nat /\ tCuts' \in Nat
  BY LineCounts DEF StartQuote, Spends, HoldsBlocks
<1>2. Nested(tTags') /\ Innermost'.tag # "code"
  BY <1>1, OpensIs DEF DocInv, TagSort, AfterSort
<1>3. Covers(EndPara(Built)) /\ Build(EndPara(Built))
  BY BuiltIs, EndIs DEF StartQuote
<1> QED
  BY <1>1, <1>2, <1>3, EventKeeps

LEMMA StartCodeKeeps ==
  ASSUME DocInv, StartCode PROVE DocInv'
<1>1. /\ Event(1) /\ Opens("code", FALSE, "code") /\ Innermost.tag # "code"
      /\ tLine' \in Nat /\ tCuts' \in Nat
  BY LineCounts DEF StartCode, Spends, HoldsBlocks
<1>2. Nested(tTags')
  BY <1>1, OpensIs DEF DocInv, TagSort, AfterSort
<1> DEFINE a == IF Built.lists # << >> THEN Built ELSE EndPara(Built)
           b == [a EXCEPT !.lineStart = TRUE]
<1>3. Covers(a)
  BY BuiltIs, EndIs
<1>4. Build(b)
  BY DEF StartCode
<1> HIDE DEF a
<1>5. Covers(b) /\ b.lineStart
  BY <1>3, LineStartIs
<1> HIDE DEF b
<1> QED
  BY <1>1, <1>2, <1>4, <1>5, EventKeeps

LEMMA StartListKeeps ==
  ASSUME DocInv, NEW ordered \in BOOLEAN, NEW tight \in BOOLEAN, StartList(ordered, tight) PROVE DocInv'
<1>1. /\ Event(1) /\ Opens("list", tight, "block") /\ Innermost.tag # "code"
      /\ tLine' \in Nat /\ tCuts' \in Nat
  BY LineCounts DEF StartList, Spends, HoldsBlocks
<1>2. Nested(tTags') /\ Innermost'.tag # "code"
  BY <1>1, OpensIs DEF DocInv, TagSort, AfterSort
<1>3. Covers(OpenList(EndPara(Built), ordered)) /\ Build(OpenList(EndPara(Built), ordered))
  BY BuiltIs, EndIs, OpenListIs DEF StartList
<1> QED
  BY <1>1, <1>2, <1>3, EventKeeps

LEMMA TightIs ==
  ASSUME DocInv PROVE Innermost.tight \in BOOLEAN
<1>1. tTags \in Seq(DocTag)
  BY DEF DocInv, Nested
<1>2. CASE tTags = << >>
  BY <1>2 DEF Innermost
<1>3. CASE tTags # << >>
  <2>1. Last(tTags) \in DocTag
    <3> HIDE DEF DocTag
    <3> QED BY <1>1, <1>3, LastIs
  <2> QED BY <1>3, <2>1 DEF Innermost, DocTag
<1> QED
  BY <1>2, <1>3

LEMMA StartItemKeeps ==
  ASSUME DocInv, StartItem PROVE DocInv'
<1>1. /\ Event(IF Innermost.n = 0 THEN 0 ELSE 1) /\ Opens("item", Innermost.tight, "block") /\ Innermost.tag # "code"
      /\ tLine' \in Nat /\ tCuts' \in Nat
  BY LineCounts DEF StartItem, SpendsUnlessFirst
<1>2. Nested(tTags') /\ Innermost'.tag # "code"
  BY <1>1, OpensIs, TightIs DEF DocInv, TagSort, AfterSort
<1> DEFINE begun == EndPara(Built)
           para == BeginPara(begun, ListItemKind(begun))
           tabs == [i \in 1..Len(begun.lists) - 1 |-> Unit("tab", NoValue)]
           tabbed == PushText(para, tabs)
           b == [tabbed EXCEPT !.itemBody = DocLen(tabbed)]
<1>3. Covers(begun) /\ Covers(para) /\ para.para # NoValue
  BY BuiltIs, EndIs, BeginIs, KindIs
<1>4. Sequence(tabs)
  <2> DEFINE k == IF Len(begun.lists) = 0 THEN 0 ELSE Len(begun.lists) - 1
             u == Unit("tab", NoValue)
  <2>1. Len(begun.lists) \in Nat
    BY <1>3 DEF Covers
  <2>2. k \in Nat /\ 1..Len(begun.lists) - 1 = 1..k
    BY <2>1
  <2>3. tabs = [i \in 1..k |-> u]
    BY <2>2
  <2> HIDE DEF k, u
  <2>4. [i \in 1..k |-> u] \in Seq({u})
    BY <2>2
  <2> QED BY <2>3, <2>4, SequenceIs
<1>5. Build(b)
  BY DEF StartItem
<1> HIDE DEF begun, para, tabs
<1>6. Covers(tabbed) /\ tabbed.para # NoValue
  BY <1>3, <1>4, PushCovers
<1> HIDE DEF tabbed
<1>7. Covers(b)
  BY <1>6, ItemBodyIs
<1> HIDE DEF b
<1> DEFINE cost == IF Innermost.n = 0 THEN 0 ELSE 1
<1>8. cost \in {0, 1} /\ Event(cost)
  BY <1>1
<1> HIDE DEF cost
<1> QED
  BY <1>1, <1>2, <1>5, <1>7, <1>8, EventKeeps

LEMMA StartStrongKeeps ==
  ASSUME DocInv, StartStrong PROVE DocInv'
<1>1. /\ Event(1) /\ Opens("strong", FALSE, "strong") /\ Innermost.tag # "code"
      /\ tLine' \in Nat /\ tCuts' \in Nat
  BY LineCounts DEF StartStrong, Spends, HoldsText
<1>2. Nested(tTags') /\ Innermost'.tag # "code"
  BY <1>1, OpensIs DEF DocInv, TagSort, AfterSort
<1> DEFINE v == Append(Built.open, DocLen(Built))
           b == [Built EXCEPT !.open = v]
<1>3. Covers(Built)
  BY BuiltIs
<1>4. v \in Seq(Nat)
  <2> DEFINE open == Built.open
             n == DocLen(Built)
  <2>1. open \in Seq(Nat) /\ n \in Nat
    BY <1>3, SequenceLen DEF Covers, DocLen
  <2> HIDE DEF open, n
  <2>2. Append(open, n) \in Seq(Nat)
    BY <2>1
  <2> QED BY <2>2 DEF open, n
<1>5. Build(b)
  BY DEF StartStrong
<1> HIDE DEF v
<1>6. Covers(b)
  BY <1>3, <1>4, OpenIs
<1> HIDE DEF b
<1> QED
  BY <1>1, <1>2, <1>5, <1>6, EventKeeps

LEMMA FrontStays ==
  ASSUME NEW S, NEW s \in Seq(S) PROVE Front(s) \in Seq(S)
<1>1. CASE s = << >>
  <2> DEFINE k == Len(s) - 1
  <2>1. 1 \in Int /\ k \in Int /\ \A i \in 1..k : s[i] \in S
    BY <1>1
  <2>2. SubSeq(s, 1, k) \in Seq(S)
    <3> HIDE DEF k
    <3> QED BY <2>1, SubSeqProperties
  <2> QED BY <2>2 DEF Front
<1>2. CASE s # << >>
  BY <1>2, FrontIs
<1> QED
  BY <1>1, <1>2

LEMMA EndTagKeeps ==
  ASSUME DocInv, EndTag PROVE DocInv'
<1>1. /\ tTags # << >> /\ tTags' = Front(tTags) /\ tStep = "parse"
      /\ UNCHANGED <<tStep, tOld, tCount, tSpent, tLine, tCuts>>
  BY DEF EndTag
<1>2. Nested(tTags') /\ Innermost'.tag # "code"
  BY <1>1, ClosesIs DEF DocInv
<1> DEFINE spanned == SpanFrom(Built, Last(Built.open), "bold")
           closed == EndPara(Built)
           strong == [spanned EXCEPT !.open = Front(@)]
           list == [closed EXCEPT !.lists = Front(@)]
           b == CASE Innermost.tag = "strong" -> strong
                  [] Innermost.tag = "list" -> list
                  [] Innermost.tag = "code" -> Built
                  [] OTHER -> closed
<1>3. Covers(Built) /\ Covers(closed)
  BY BuiltIs, EndIs
<1>4. Covers(spanned)
  BY <1>3, SpanIs
<1>5. Covers(strong)
  <2> HIDE DEF spanned
  <2> DEFINE v == Front(spanned.open)
  <2>1. v \in Seq(Nat)
    BY <1>4, FrontStays DEF Covers
  <2>2. strong = [spanned EXCEPT !.open = v]
    OBVIOUS
  <2> HIDE DEF v
  <2> QED BY <1>4, <2>1, <2>2, OpenIs
<1>6. Covers(list)
  <2> HIDE DEF closed
  <2> DEFINE v == Front(closed.lists)
  <2>1. v \in Seq([ordered : BOOLEAN, id : Nat])
    BY <1>3, FrontStays DEF Covers
  <2>2. list = [closed EXCEPT !.lists = v]
    OBVIOUS
  <2> HIDE DEF v
  <2> QED BY <1>3, <2>1, <2>2, ListsAre
<1>7. Build(b)
  BY DEF EndTag
<1> HIDE DEF strong, list, closed
<1>8. Covers(b)
  BY <1>3, <1>5, <1>6
<1> HIDE DEF b
<1>9. Covers(Built)'
  BY <1>7, <1>8, BuildIs
<1> QED
  BY <1>1, <1>2, <1>9 DEF DocInv, MidLine

LEMMA TwoAre ==
  ASSUME NEW u, NEW w PROVE Sequence(<<u, w>>)
<1>1. <<u, w>> \in Seq({u, w})
  OBVIOUS
<1> QED
  BY <1>1, SequenceIs

LEMMA TextEventKeeps ==
  ASSUME DocInv, NEW form \in {"plain", "tabbed", "control"}, TextEvent(form) PROVE DocInv'
<1> DEFINE at == Origin(FALSE, tLine', tCuts')
           units == CASE form = "plain" -> <<Unit("x", at)>>
                      [] form = "tabbed" -> <<Unit("tab", at), Unit("x", at)>>
                      [] form = "control" -> <<Unit("control", at)>>
           para == IF Built.para = NoValue THEN BeginPara(Built, ListItemKind(Built)) ELSE Built
           b == PushText(para, units)
           cost == IF Innermost.n = 0 THEN 0 ELSE 1
<1>1. /\ Event(cost) /\ cost \in {0, 1} /\ tTags' = Follows("text") /\ Innermost.tag # "code"
      /\ tLine' \in Nat /\ tCuts' \in Nat
  BY LineCounts DEF TextEvent, SpendsUnlessFirst, HoldsText
<1>2. Nested(tTags') /\ Innermost'.tag # "code"
  BY <1>1, FollowedIs DEF DocInv, AfterSort
<1>3. Build(b)
  BY DEF TextEvent, PutText
<1>4. Sequence(units)
  <2> HIDE DEF at
  <2> QED BY OneIs, TwoAre
<1>5. Covers(para) /\ para.para # NoValue
  BY BuiltIs, BeginIs, KindIs
<1> HIDE DEF units, para
<1>6. Covers(b)
  BY <1>4, <1>5, PushCovers
<1> HIDE DEF b, cost
<1> QED
  BY <1>1, <1>2, <1>3, <1>6, EventKeeps

LEMMA CodeEventKeeps ==
  ASSUME DocInv, NEW piece \in BOOLEAN, NEW ends \in BOOLEAN, CodeEvent(piece, ends) PROVE DocInv'
<1> DEFINE inItem == Built.lists # << >>
           begun == IF inItem THEN LineBegun(Built) ELSE BeginPara(Built, ParaOf("code", NoList))
           units == <<Unit("x", Origin(TRUE, tLine, tCuts))>>
           said == IF piece THEN PushText(begun, units) ELSE begun
           put == SpanFrom(said, DocLen(begun), "code")
           b == IF inItem THEN [put EXCEPT !.lineStart = ends] ELSE IF ends THEN EndPara(put) ELSE put
           cost == IF Innermost.n = 0 THEN 0 ELSE 1
<1>1. /\ Event(cost) /\ cost \in {0, 1} /\ Innermost.tag = "code"
      /\ tTags' = Follows(IF ends THEN "line" ELSE "text")
      /\ tLine' \in Nat /\ tCuts' \in Nat
  BY DEF CodeEvent, SpendsUnlessFirst, DocInv
<1>2. Nested(tTags')
  BY <1>1, FollowedIs DEF DocInv, AfterSort
<1>3. Build(b)
  BY DEF CodeEvent
<1>4. Covers(Built) /\ (inItem /\ ~Built.lineStart => Built.para # NoValue)
  BY <1>1, BuiltIs DEF DocInv, MidLine
<1>5. Covers(begun) /\ begun.para # NoValue /\ begun.lists = Built.lists
  <2>1. CASE inItem /\ Built.lineStart
    <3> DEFINE c == ContinueItem(Built)
    <3>1. Covers(c) /\ Keeps(Built, c) /\ c.para # NoValue
      BY <1>4, ContinueIs
    <3> HIDE DEF c
    <3>2. begun = [c EXCEPT !.lineStart = FALSE]
      BY <2>1 DEF LineBegun, c
    <3> QED BY <3>1, <3>2, LineStartIs DEF Keeps
  <2>2. CASE inItem /\ ~Built.lineStart
    BY <1>4, <2>2 DEF LineBegun
  <2>3. CASE ~inItem
    BY <1>4, <2>3, BeginIs, FormsAre DEF Keeps
  <2> QED BY <2>1, <2>2, <2>3
<1>6. Sequence(units)
  BY OneIs
<1> HIDE DEF begun, units
<1>7. Covers(said) /\ said.para # NoValue /\ said.lists = Built.lists
  BY <1>5, <1>6, PushCovers DEF Keeps
<1> HIDE DEF said
<1>8. Covers(put) /\ put.para # NoValue /\ put.lists = Built.lists
  BY <1>7, SpanIs
<1> HIDE DEF put
<1>9. Covers(b) /\ (b.lists = << >> \/ b.para # NoValue)
  <2>1. CASE inItem
    BY <1>8, <2>1, LineStartIs
  <2>2. CASE ~inItem
    BY <1>8, <2>2, EndIs DEF Keeps
  <2> QED BY <2>1, <2>2
<1> HIDE DEF b, cost
<1> QED
  BY <1>1, <1>2, <1>3, <1>9, EventKeeps

LEMMA HardBreakKeeps ==
  ASSUME DocInv, HardBreak PROVE DocInv'
<1> DEFINE kind == IF Built.para = NoValue THEN ParaOf("normal", NoList)
                   ELSE [kind |-> Built.para.kind, list |-> Built.para.list, ordered |-> Built.para.ordered]
           b == IF kind.kind = "bullet" THEN ContinueItem(Built) ELSE BeginPara(EndPara(Built), kind)
<1>1. /\ Event(1) /\ tTags' = Follows("break") /\ Innermost.tag # "code"
      /\ tLine' \in Nat /\ tCuts' \in Nat
  BY LineCounts DEF HardBreak, Spends
<1>2. Nested(tTags') /\ Innermost'.tag # "code"
  BY <1>1, FollowedIs DEF DocInv, AfterSort
<1>3. Build(b)
  BY DEF HardBreak
<1>4. Covers(Built)
  BY BuiltIs
<1>5. kind \in ParaForm
  <2>1. CASE Built.para = NoValue
    BY <2>1, FormsAre
  <2>2. CASE Built.para # NoValue
    <3>1. Built.para \in OpenPara
      BY <1>4, <2>2 DEF Covers
    <3> QED BY <2>2, <3>1 DEF OpenPara, ParaForm, ParaSort
  <2> QED BY <2>1, <2>2
<1> HIDE DEF kind
<1>6. Covers(b)
  BY <1>4, <1>5, ContinueIs, EndIs, BeginIs
<1> HIDE DEF b
<1> QED
  BY <1>1, <1>2, <1>3, <1>6, EventKeeps

LEMMA RuleKeeps ==
  ASSUME DocInv, Rule PROVE DocInv'
<1> DEFINE b == EndPara(BeginPara(EndPara(Built), ParaOf("rule", NoList)))
<1>1. /\ Event(1) /\ tTags' = Follows("block") /\ Innermost.tag # "code"
      /\ tLine' \in Nat /\ tCuts' \in Nat
  BY LineCounts DEF Rule, Spends, HoldsBlocks
<1>2. Nested(tTags') /\ Innermost'.tag # "code"
  BY <1>1, FollowedIs DEF DocInv, AfterSort
<1>3. Build(b)
  BY DEF Rule
<1>4. Covers(b)
  BY BuiltIs, EndIs, BeginIs, FormsAre
<1> HIDE DEF b
<1> QED
  BY <1>1, <1>2, <1>3, <1>4, EventKeeps

LEMMA ParsedKeeps ==
  ASSUME DocInv, Parsed PROVE DocInv'
<1> DEFINE b == EndPara(Built)
<1>1. /\ Build(b) /\ tStep' = (IF b.text = << >> THEN "over" ELSE "requests")
      /\ UNCHANGED <<tOld, tTags, tCount, tSpent, tLine, tCuts>> /\ tTags = << >>
  BY DEF Parsed
<1>2. Covers(b) /\ b.para = NoValue
  BY BuiltIs, EndIs
<1> HIDE DEF b
<1>3. /\ Covers(Built)' /\ Built' = b /\ tPara' = NoValue /\ tText' = b.text
  BY <1>1, <1>2, BuildIs
<1>4. b.text # << >> => Len(tText') > 0
  <2>1. Sequence(tText')
    BY <1>2, <1>3 DEF Covers
  <2>2. tText' \in Seq({tText'[i] : i \in DOMAIN tText'})
    BY <2>1 DEF Sequence
  <2> DEFINE S == {tText'[i] : i \in DOMAIN tText'}
  <2> HIDE DEF S
  <2>3. tText' \in Seq(S)
    BY <2>2 DEF S
  <2> QED BY <1>3, <2>3
<1>5. MidLine'
  BY <1>1 DEF MidLine, Innermost
<1>6. Nested(tTags')
  BY <1>1 DEF DocInv
<1> QED
  BY <1>1, <1>3, <1>4, <1>5, <1>6 DEF DocInv

LEMMA WriteMarkdownKeeps ==
  ASSUME DocInv, NEW old \in [text : BOOLEAN, bullet : BOOLEAN, styled : BOOLEAN], WriteMarkdown(old) PROVE DocInv'
<1>1. Built' = Built /\ UNCHANGED <<tTags, tCount, tSpent, tLine, tCuts, tPara, tLists, tLineStart, tText>>
  BY DEF WriteMarkdown, builderVars, Built
<1>2. Covers(Built)'
  BY <1>1 DEF DocInv
<1> QED
  BY <1>1, <1>2 DEF DocInv, MidLine, WriteMarkdown, Innermost

LEMMA MarkdownBeginKeeps ==
  ASSUME DocInv, MarkdownBegin PROVE DocInv'
<1>1. /\ Built' = Built /\ tStep' = "parse"
      /\ UNCHANGED <<tOld, tTags, tCount, tSpent, tLine, tCuts, tPara, tLists, tLineStart, tText>>
  BY DEF MarkdownBegin, builderVars, Built
<1>2. Covers(Built)'
  BY <1>1 DEF DocInv
<1> QED
  BY <1>1, <1>2 DEF DocInv, MidLine, Innermost

LEMMA DocStays ==
  ASSUME DocInv, UNCHANGED docVars PROVE DocInv'
<1>1. /\ Built' = Built
      /\ UNCHANGED <<tStep, tOld, tTags, tCount, tSpent, tLine, tCuts, tPara, tLists, tLineStart, tText>>
  BY DEF docVars, Built
<1>2. Covers(Built)'
  BY <1>1 DEF DocInv
<1> QED
  BY <1>1, <1>2 DEF DocInv, MidLine, Innermost

LEMMA DocStarts ==
  DocInit => DocInv
<1> SUFFICES ASSUME DocInit PROVE DocInv
  OBVIOUS
<1> USE DEF DocInit
<1>1. Builder(Built)
  BY DEF Builder, BuilderField, Built
<1>2. /\ Built.text = << >> /\ Built.paras = << >> /\ Built.spans = << >> /\ Built.para = NoValue /\ Built.open = << >>
      /\ Built.lists = << >> /\ Built.ids = 0 /\ Built.lineStart = FALSE /\ Built.itemBody = 0
  BY DEF Built
<1>3. Sequence(Built.text) /\ SpansRight(Built.spans)
  <2>1. << >> \in Seq({1}) /\ Len(<< >>) = 0
    OBVIOUS
  <2>2. Sequence(<< >>)
    BY <2>1, SequenceIs
  <2> QED BY <1>2, <2>1, <2>2 DEF SpansRight
<1>4. Adjoining(Built.paras) /\ Covered(Built.paras) = 0
  BY <1>2 DEF Adjoining, Covered
<1>5. Covers(Built)
  <2> DEFINE b == Built
             S == [ordered : BOOLEAN, id : Nat]
  <2>1. /\ b.text = << >> /\ b.paras = << >> /\ b.spans = << >> /\ b.para = NoValue /\ b.open = << >>
        /\ b.lists = << >> /\ b.ids = 0 /\ b.lineStart = FALSE /\ b.itemBody = 0
        /\ Builder(b) /\ Sequence(b.text) /\ SpansRight(b.spans) /\ Adjoining(b.paras) /\ Covered(b.paras) = 0
    BY <1>1, <1>2, <1>3, <1>4
  <2> HIDE DEF b, S
  <2>2. b.lists \in Seq(S) /\ b.open \in Seq(Nat) /\ Len(b.text) = 0
    BY <2>1
  <2>3. Covers(b)
    <3>1. b.itemBody \in 0..Len(b.text) /\ b.ids \in Nat
      <4>1. b.itemBody = 0 /\ b.ids = 0 /\ Len(b.text) = 0
        BY <2>1, <2>2
      <4> QED BY <4>1
    <3>4. b.lineStart \in BOOLEAN
      <4>1. b.lineStart = FALSE
        BY <2>1
      <4> QED BY <4>1
    <3>2. b.lists \in Seq([ordered : BOOLEAN, id : Nat])
      BY <2>2 DEF S
    <3>3. Len(b.text) = 0 /\ b.para \in OpenPara \cup {NoValue} /\ ~(Len(b.text) > 0)
      BY <2>1, <2>2
    <3> QED BY <2>1, <2>2, <3>1, <3>2, <3>3, <3>4 DEF Covers
  <2> QED BY <2>3 DEF b
<1>6. Nested(tTags) /\ MidLine
  BY DEF Nested, MidLine, Innermost
<1> QED
  BY <1>5, <1>6, DocTextAssumption DEF DocInv

LEMMA DocKeeps ==
  ASSUME DocInv, [DocNext]_docVars PROVE DocInv'
<1>1. CASE DocNext
  BY <1>1, MarkdownBeginKeeps, StartParagraphKeeps, StartHeadingKeeps, StartQuoteKeeps, StartCodeKeeps,
     StartItemKeeps, StartStrongKeeps, StartListKeeps, TextEventKeeps, CodeEventKeeps, HardBreakKeeps,
     RuleKeeps, EndTagKeeps, ParsedKeeps, WriteMarkdownKeeps
     DEF DocNext
<1>2. CASE UNCHANGED docVars
  BY <1>2, DocStays
<1> QED
  BY <1>1, <1>2

LEMMA DocCovers ==
  DocInv => ParagraphsCover
<1> SUFFICES ASSUME DocInv, tStep = "requests"
             PROVE  /\ tParas # << >> /\ tParas[1].start = 0 /\ Last(tParas).end = Len(tText)
                    /\ \A i \in 2..Len(tParas) : tParas[i].start = tParas[i - 1].end
  BY DEF ParagraphsCover
<1>1. /\ Adjoining(tParas) /\ Covered(tParas) = Len(tText) /\ Len(tText) > 0
  BY BuiltIs DEF DocInv, Covers
<1>2. tParas # << >>
  BY <1>1 DEF Covered
<1>3. Last(tParas) = tParas[Len(tParas)]
  BY DEF Last
<1> QED
  BY <1>1, <1>2, <1>3 DEF Adjoining, Covered

LEMMA DocTyped ==
  DocInv => DocTypeOK
<1> SUFFICES ASSUME DocInv PROVE DocTypeOK
  OBVIOUS
<1>1. Covers(Built) /\ SpansRight(Built.spans) /\ Built.ids = tListIds /\ Built.itemBody = tItemBody
      /\ Built.text = tText /\ Built.spans = tSpans /\ Built.lineStart = tLineStart
  BY DEF DocInv, Covers, Built
<1>2. DOMAIN tSpans = 1..Len(tSpans)
  BY <1>1, SequenceLen DEF SpansRight
<1> QED
  BY <1>1, <1>2 DEF DocInv, DocTypeOK, Covers, SpansRight
-----------------------------------------------------------------------------
\* Reading an object and writing it back.

\* The guest list was read, and only those in eMeanwhile have been changed since.
GuestsSeen ==
  /\ eBefore \in GuestList
  /\ eSaw.omitted = eHides
  /\ eSaw.guests = IF eHides THEN [g \in Guest |-> IF g = Me THEN eBefore[g] ELSE NoValue] ELSE eBefore
  /\ \A g \in Guest \ eMeanwhile : eGuests[g] = eBefore[g]

\* An update that leaves the guests alone reads nothing.
GuestsNotAsked ==
  eAsk.op = "update" /\ eAsk.add \cup eAsk.remove = {} /\ eBefore = NoValue

EditInv ==
  /\ eStep \in {"off", "read", "lookup", "patch", "over"}
  /\ eStep # "over" => eEnd = NoValue
  /\ eStep # "off" => eAsk.op \in {"update", "rsvp", "move"}
  /\ eStep \in {"off", "read"} => eBefore = NoValue
  /\ eHides \in BOOLEAN /\ eGuests \in GuestList
  /\ eStep \in {"lookup", "patch"} => GuestsSeen \/ GuestsNotAsked
  /\ OthersStayInvited

FolderInv ==
  /\ eStep \in {"off", "read", "lookup", "patch", "over"}
  /\ eStep # "over" => eEnd = NoValue
  /\ eStep \notin {"off", "over"} /\ eAsk.op = "move" => eAsk.dest \in Folder \cup {"root"}
  /\ eStep = "patch" /\ eAsk.op = "move" => eDest = Resolved(eAsk.dest)
  /\ FileKeepsParent

LEMMA EditStep == EditInv /\ [EditNext]_editVars => EditInv'
<1> SUFFICES ASSUME EditInv, [EditNext]_editVars PROVE EditInv'
  OBVIOUS
<1> USE OutcomeAssumption, EditAssumption DEF Ending, ExitCode
<1>1. ASSUME NEW ask \in EditAsk, NEW guests \in GuestList, NEW hides \in BOOLEAN,
             NEW parents \in SUBSET Folder, EditBegin(ask, guests, hides, parents)
      PROVE  EditInv'
  <2>1. ask.op \in {"update", "rsvp", "move"}
    BY DEF EditAsk
  <2> QED
    BY <1>1, <2>1 DEF EditBegin, EditInv, GuestsNotAsked, OthersStayInvited
<1>2. ASSUME EditRead PROVE EditInv'
  <2>1. GuestsSeen'
    BY <1>2 DEF EditRead, EditInv, GuestsSeen, Shown, remote
  <2> QED
    BY <1>2, <2>1 DEF EditRead, EditInv, OthersStayInvited, remote
<1>3. ASSUME EditFails PROVE EditInv'
  BY <1>3 DEF EditFails, EditEnds, EditInv, OthersStayInvited, Intended, remote, GuestsSeen, GuestsNotAsked
<1>4. ASSUME NEW g \in Guest, NEW response \in Response \cup {NoValue}, OthersEdit(g, response)
      PROVE  EditInv'
  <2>1. eGuests' \in GuestList /\ \A h \in Guest \ {g} : eGuests'[h] = eGuests[h]
    BY <1>4 DEF OthersEdit, EditInv, GuestList
  <2>2. GuestsSeen /\ eStep # "read" => GuestsSeen'
    BY <1>4, <2>1 DEF OthersEdit, GuestsSeen
  <2>3. GuestsNotAsked => GuestsNotAsked'
    BY <1>4 DEF OthersEdit, GuestsNotAsked
  <2> QED
    BY <1>4, <2>1, <2>2, <2>3 DEF OthersEdit, EditInv, OthersStayInvited
<1>5. ASSUME NEW folder \in Folder, OthersMove(folder) PROVE EditInv'
  BY <1>5 DEF OthersMove, EditInv, GuestsSeen, GuestsNotAsked, OthersStayInvited
<1>6. ASSUME UpdateGuests PROVE EditInv'
  <2>1. CASE eAsk.add \cup eAsk.remove = {}
    BY <1>6, <2>1 DEF UpdateGuests, EditEnds, EditInv, GuestsSeen, GuestsNotAsked,
       OthersStayInvited, Intended, remote
  <2>2. CASE eAsk.add \cup eAsk.remove # {} /\ ~Updatable
    BY <1>6, <2>2 DEF UpdateGuests, EditEnds, EditInv, GuestsSeen, GuestsNotAsked,
       OthersStayInvited, Intended, remote
  <2>3. CASE eAsk.add \cup eAsk.remove # {} /\ Updatable
    <3>1. GuestsSeen /\ eSaw.guests = eBefore /\ eGuests' = NewList
      BY <1>6, <2>3 DEF UpdateGuests, EditInv, GuestsSeen, GuestsNotAsked, Updatable, Written, Patched
    <3>2. eGuests' \in GuestList
      BY <3>1 DEF NewList, GuestsSeen, GuestList, Response
    <3>3. eStep = "patch" /\ eStep' = "over" /\ eEnd' = "ok" /\ UNCHANGED <<eHides, eAsk, eBefore>>
      BY <1>6, <2>3 DEF UpdateGuests, Written, EditEnds
    <3>4. ASSUME NEW g \in Guest PROVE eGuests'[g] = Intended(g)'
      BY <1>6, <3>1, <3>3 DEF UpdateGuests, NewList, Intended
    <3> QED
      BY <1>6, <3>2, <3>3, <3>4 DEF EditInv, OthersStayInvited
  <2> QED
    BY <2>1, <2>2, <2>3
<1>7. ASSUME Rsvp PROVE EditInv'
  <2>1. GuestsSeen
    BY <1>7 DEF Rsvp, EditInv, GuestsNotAsked
  <2>2. CASE eSaw.guests[Me] = NoValue
    BY <1>7, <2>1, <2>2 DEF Rsvp, EditEnds, EditInv, GuestsSeen, OthersStayInvited, Intended, remote
  <2>3. CASE eSaw.guests[Me] # NoValue
    <3>1. eStep' = "over" /\ eEnd' = "ok" /\ UNCHANGED <<eHides, eAsk, eBefore, eMeanwhile>>
      BY <1>7, <2>3 DEF Rsvp, Written, EditEnds
    <3>2. eGuests' = IF eHides THEN [g \in Guest |-> IF Responded[g] = NoValue THEN eGuests[g] ELSE Responded[g]]
                     ELSE Responded
      BY <1>7, <2>1, <2>3 DEF Rsvp, Written, Patched, RsvpBody, GuestsSeen
    <3>3. Responded = [g \in Guest |-> IF g = Me THEN "accepted" ELSE eSaw.guests[g]]
      BY <2>1 DEF Responded, GuestsSeen, GuestList
    <3>4. eGuests' \in GuestList
      BY <2>1, <3>2, <3>3 DEF GuestsSeen, GuestList, Response, EditInv
    <3>5. ASSUME NEW g \in Guest \ eMeanwhile PROVE eGuests'[g] = Intended(g)'
      BY <1>7, <2>1, <3>1, <3>2, <3>3 DEF Rsvp, GuestsSeen, Intended, Response
    <3> QED
      BY <1>7, <3>1, <3>4, <3>5 DEF Rsvp, EditInv, OthersStayInvited
  <2> QED
    BY <2>2, <2>3
<1>8. ASSUME LookUp PROVE EditInv'
  BY <1>8 DEF LookUp, EditEnds, EditInv, GuestsSeen, GuestsNotAsked, OthersStayInvited, Intended, remote
<1>9. ASSUME Move PROVE EditInv'
  BY <1>9 DEF Move, EditEnds, EditInv, GuestsSeen, GuestsNotAsked, OthersStayInvited, Intended
<1>10. ASSUME UNCHANGED editVars PROVE EditInv'
  BY <1>10 DEF editVars, remote, EditInv, GuestsSeen, GuestsNotAsked, OthersStayInvited, Intended
<1> QED
  BY <1>1, <1>2, <1>3, <1>4, <1>5, <1>6, <1>7, <1>8, <1>9, <1>10 DEF EditNext

LEMMA FolderStep == FolderInv /\ [EditNext]_editVars => FolderInv'
<1> SUFFICES ASSUME FolderInv, [EditNext]_editVars PROVE FolderInv'
  OBVIOUS
<1> USE OutcomeAssumption, EditAssumption DEF Ending, ExitCode
<1>1. ASSUME NEW ask \in EditAsk, NEW guests \in GuestList, NEW hides \in BOOLEAN,
             NEW parents \in (SUBSET Folder) \ {{}}, EditBegin(ask, guests, hides, parents)
      PROVE  FolderInv'
  <2>1. ask.op = "move" => ask.dest \in Folder \cup {"root"}
    BY DEF EditAsk
  <2>2. eStep' \in {"read", "patch"} /\ (ask.op = "move" => eStep' = "read")
    BY <1>1 DEF EditBegin
  <2>3. eAsk' = ask /\ eParents' # {} /\ eEnd' = NoValue
    BY <1>1 DEF EditBegin, FolderInv
  <2> QED
    BY <2>1, <2>2, <2>3 DEF FolderInv, FileKeepsParent
<1>2. CASE EditRead \/ EditFails \/ UpdateGuests \/ Rsvp
  <2>1. UNCHANGED <<eParents, eAsk>> /\ (eStep' = "patch" => eAsk.op # "move")
        /\ (eEnd' = "ok" => eAsk.op # "move") /\ (eStep' # "over" => eEnd' = eEnd)
    BY <1>2 DEF EditRead, EditFails, UpdateGuests, Rsvp, EditEnds, Written, remote, FolderInv
  <2>2. eStep \notin {"off", "over"} /\ eStep' \in {"lookup", "patch", "over"}
    BY <1>2 DEF EditRead, EditFails, UpdateGuests, Rsvp, EditEnds, Written
  <2> QED
    BY <2>1, <2>2 DEF FolderInv, FileKeepsParent
<1>3. ASSUME NEW g \in Guest, NEW response \in Response \cup {NoValue}, OthersEdit(g, response)
      PROVE  FolderInv'
  BY <1>3 DEF OthersEdit, FolderInv, FileKeepsParent
<1>4. ASSUME NEW folder \in Folder, OthersMove(folder) PROVE FolderInv'
  BY <1>4 DEF OthersMove, FolderInv, FileKeepsParent
<1>5. CASE LookUp
  BY <1>5 DEF LookUp, EditEnds, RealId, FolderInv, FileKeepsParent, remote
<1>6. CASE Move
  <2>1. Resolved(eDest) = eDest
    BY <1>6 DEF Move, FolderInv, Resolved
  <2> QED
    BY <1>6, <2>1 DEF Move, EditEnds, FolderInv, FileKeepsParent
<1>7. CASE UNCHANGED editVars
  BY <1>7 DEF editVars, remote, FolderInv, FileKeepsParent
<1> QED
  BY <1>1, <1>2, <1>3, <1>4, <1>5, <1>6, <1>7 DEF EditNext

-----------------------------------------------------------------------------
\* Whom a reply goes to.

ReplyInv ==
  /\ aStep \in {"off", "fetch", "over"}
  /\ aStep # "over" => aSent = NoValue
  /\ aStep = "fetch" => aFlags \in ReplyFlags
  /\ NobodyElseReached /\ NobodyLeftOut

GivenBy(f) == f.to \cup f.cc \cup f.bcc

ReachedBy(r) == r.to \cup r.cc \cup r.bcc

\* The recipients as sets: each in one field, To before Cc before Bcc.
LEMMA RecipientsAre ==
  ASSUME NEW o, NEW f
  PROVE  LET first == (IF f.all THEN AllTo(o, f) ELSE PlainTo(o)) \cup f.to
             second == IF f.all THEN AllCc(o, f) ELSE f.cc
         IN  /\ Recipients(o, f).to = first
             /\ Recipients(o, f).cc = second \ first
             /\ Recipients(o, f).bcc = f.bcc \ (first \cup (second \ first))
  BY DEF Recipients, Dedup

\* Nobody is addressed twice, nobody who neither had the message nor was given,
\* nobody removed, and the user only in an answer to themselves.
LEMMA OnlyThoseMeant ==
  ASSUME NEW o \in Originals, NEW f \in ReplyFlags, NEW r, r = Recipients(o, f),
         NEW given, given = GivenBy(f), NEW reached, reached = ReachedBy(r)
  PROVE  /\ r.to \cap r.cc = {} /\ (r.to \cup r.cc) \cap r.bcc = {}
         /\ reached \subseteq given \cup o.to \cup o.cc \cup o.replyTo \cup {o.from}
         /\ reached \cap f.remove \subseteq f.to \cup f.bcc
         /\ (reached \cap Own) \ given # {} =>
              \/ o.from \in Own /\ o.to \subseteq Own \cup f.remove
              \/ ~f.all /\ o.from \notin Own /\ o.replyTo \cap Own # {}
<1> DEFINE first == (IF f.all THEN AllTo(o, f) ELSE PlainTo(o)) \cup f.to
           second == IF f.all THEN AllCc(o, f) ELSE f.cc
<1>1. r.to = first /\ r.cc = second \ first /\ r.bcc = f.bcc \ (first \cup (second \ first))
  BY RecipientsAre
<1>2. r.to \cap r.cc = {} /\ (r.to \cup r.cc) \cap r.bcc = {} /\ reached = first \cup second \cup f.bcc
  BY <1>1 DEF ReachedBy
<1>3. f.all \in BOOLEAN /\ (f.all \/ f.remove = {})
  BY DEF ReplyFlags
<1>4. AllCandidates(o) \subseteq o.to \cup o.replyTo \cup {o.from}
  BY DEF AllCandidates, ReplyAddress
<1>5. PlainTo(o) \subseteq o.to \cup o.replyTo \cup {o.from}
  BY DEF PlainTo, ReplyAddress
<1>6. AllTo(o, f) \subseteq AllCandidates(o) \ f.remove
  BY DEF AllTo
<1>7. AllCc(o, f) \subseteq (o.to \cup o.cc \cup f.cc) \ (Own \cup f.remove)
  BY DEF AllCc
<1>8. first \cup second \subseteq given \cup o.to \cup o.cc \cup o.replyTo \cup {o.from}
  BY <1>3, <1>4, <1>5, <1>6, <1>7 DEF GivenBy
<1>9. (first \cup second) \cap f.remove \subseteq f.to
  BY <1>3, <1>6, <1>7
<1>10. ASSUME NEW a \in Own, a \in first \cup second, a \notin given
       PROVE  \/ o.from \in Own /\ o.to \subseteq Own \cup f.remove
              \/ ~f.all /\ o.from \notin Own /\ o.replyTo \cap Own # {}
  <2>1. CASE f.all
    <3>1. a \in AllTo(o, f)
      BY <1>7, <1>10, <2>1 DEF GivenBy
    <3>2. AllCandidates(o) \ (Own \cup f.remove) = {} /\ SelfReply(o)
      BY <1>10, <3>1 DEF AllTo, GivenBy
    <3> QED
      BY <3>2 DEF AllCandidates, SelfReply
  <2>2. CASE ~f.all
    <3>1. a \in PlainTo(o)
      BY <1>10, <2>2 DEF GivenBy
    <3>2. CASE o.from \in Own
      BY <1>10, <3>1, <3>2 DEF PlainTo, SelfReply
    <3>3. CASE o.from \notin Own
      BY <1>10, <2>2, <3>1, <3>3 DEF PlainTo, SelfReply, ReplyAddress
    <3> QED
      BY <3>2, <3>3
  <2> QED
    BY <1>3, <2>1, <2>2
<1> HIDE DEF first, second
<1> QED
  BY <1>2, <1>8, <1>9, <1>10 DEF GivenBy

\* A reply to all reaches those who had the message, and a reply its sender.
LEMMA AllThoseMeant ==
  ASSUME NEW o \in Originals, NEW f \in ReplyFlags, NEW r, r = Recipients(o, f),
         NEW reached, reached = ReachedBy(r)
  PROVE  /\ f.all => (o.to \cup o.cc) \ (Own \cup f.remove) \subseteq reached
         /\ o.from \notin Own =>
              ReplyAddress(o) \ (IF f.all THEN Own \cup f.remove ELSE {}) \subseteq r.to
<1> DEFINE first == (IF f.all THEN AllTo(o, f) ELSE PlainTo(o)) \cup f.to
           second == IF f.all THEN AllCc(o, f) ELSE f.cc
<1>1. r.to = first /\ r.cc = second \ first /\ r.bcc = f.bcc \ (first \cup (second \ first))
  BY RecipientsAre
<1>2. ASSUME f.all PROVE (o.to \cup o.cc) \ (Own \cup f.remove) \subseteq AllTo(o, f) \cup AllCc(o, f)
  BY DEF AllTo, AllCc, AllCandidates
<1>3. ASSUME f.all, o.from \notin Own
      PROVE  ReplyAddress(o) \ (Own \cup f.remove) \subseteq AllTo(o, f)
  BY <1>3 DEF AllTo, AllCandidates, SelfReply
<1>4. ASSUME o.from \notin Own PROVE ReplyAddress(o) = PlainTo(o)
  BY <1>4 DEF PlainTo, SelfReply
<1> QED
  BY <1>1, <1>2, <1>3, <1>4 DEF ReachedBy

LEMMA ReplyStep == ReplyInv /\ [ReplyNext]_replyVars => ReplyInv'
<1> SUFFICES ASSUME ReplyInv, [ReplyNext]_replyVars PROVE ReplyInv'
  OBVIOUS
<1>1. CASE ReplyBegin
  BY <1>1 DEF ReplyBegin, ReplyInv, NobodyElseReached, NobodyLeftOut
<1>2. CASE ReplyDeliver
  <2>1. PICK o \in Originals : aOriginal' = o
    BY <1>2 DEF ReplyDeliver
  <2> DEFINE r == Recipients(o, aFlags)
  <2>2. aFlags \in ReplyFlags /\ aFlags' = aFlags /\ aStep' = "over"
    BY <1>2 DEF ReplyDeliver, ReplyInv
  <2>3. aSent' = NoValue \/ aSent' = r
    BY <1>2, <2>1 DEF ReplyDeliver
  <2>4. /\ r.to \cap r.cc = {} /\ (r.to \cup r.cc) \cap r.bcc = {}
        /\ ReachedBy(r) \subseteq GivenBy(aFlags) \cup o.to \cup o.cc \cup o.replyTo \cup {o.from}
        /\ ReachedBy(r) \cap aFlags.remove \subseteq aFlags.to \cup aFlags.bcc
        /\ (ReachedBy(r) \cap Own) \ GivenBy(aFlags) # {} =>
             \/ o.from \in Own /\ o.to \subseteq Own \cup aFlags.remove
             \/ ~aFlags.all /\ o.from \notin Own /\ o.replyTo \cap Own # {}
    BY <2>2, OnlyThoseMeant
  <2>5. /\ aFlags.all => (o.to \cup o.cc) \ (Own \cup aFlags.remove) \subseteq ReachedBy(r)
        /\ o.from \notin Own =>
             ReplyAddress(o) \ (IF aFlags.all THEN Own \cup aFlags.remove ELSE {}) \subseteq r.to
    BY <2>2, AllThoseMeant
  <2> HIDE DEF r
  <2>6. NobodyElseReached'
    BY <2>1, <2>2, <2>3, <2>4 DEF NobodyElseReached, Reached, Given, ReachedBy, GivenBy
  <2>7. NobodyLeftOut'
    BY <2>1, <2>2, <2>3, <2>5 DEF NobodyLeftOut, Reached, ReachedBy, ReplyAddress
  <2> QED
    BY <2>2, <2>6, <2>7 DEF ReplyInv
<1>3. CASE UNCHANGED replyVars
  BY <1>3 DEF replyVars, ReplyInv, NobodyElseReached, NobodyLeftOut, Reached, Given, ReplyAddress
<1> QED
  BY <1>1, <1>2, <1>3 DEF ReplyNext

-----------------------------------------------------------------------------
\* gwsr batch.

Unsent == {"off", "destructive", "outbound", "credentials"}

BatchFate == {"pending", "printed", "unknown", "withheld", "unprinted", "notSent"}

\* Nothing of call c has reached the server, and nothing will.
Untouched(c) == bApplied[c] = 0 /\ bLate[c] = 0 /\ c \notin bOpen

BatchTypes ==
  /\ bStep \in Unsent \cup {"ready", "sent", "results", "over"}
  /\ bFirst \in BatchCall /\ bAt \in Nat
  /\ bOpen \subseteq Group
  /\ bLate \in [BatchCall -> Nat] /\ bApplied \in [BatchCall -> Nat]
  /\ bVerdict \in [BatchCall -> CallStatus \cup {NoValue}]
  /\ bFailed \subseteq {"retry", "perm"}
  /\ bPrinted \in [BatchCall -> Part \cup {NoValue}]
  /\ bFate \in [BatchCall -> BatchFate]
  /\ bStep \in {"destructive", "outbound", "credentials"} => bGate \in Gate
  /\ bStep = "off" => bGate = NoValue

\* The gate: impacts passed so far are confirmed or need no confirmation.
GateInv ==
  /\ bStep \in {"outbound", "credentials"} =>
       ("destructive" \in bGate.impacts =>
          Decide("destructive", bGate.inv) = "proceed" \/ "destructive" \in bGate.confirmed)
  /\ BatchConfirmed

\* What is still to be sent was never sent; a group is sent again only if all of it may be.
ServerInv ==
  /\ BatchAtMostOnce
  /\ bStep \in Unsent => \A c \in BatchCall : Untouched(c)
  /\ \A c \in NotSent : Untouched(c)
  /\ bStep = "ready" => \A c \in Group \ bSafe : Untouched(c)
  /\ bStep # "sent" => bOpen = {}
  /\ \A c \in BatchCall : bVerdict[c] = "ok" => bApplied[c] > 0

\* The parts of an answer that was matched: one for each call, in order.
PartsRight ==
  /\ Len(bParts) = Cardinality(Group) /\ bAt <= Len(bParts)
  /\ \A k \in 1..Len(bParts) :
       bParts[k] \in Part /\ bParts[k].of = bFirst + k - 1 /\ bParts[k].status = bVerdict[bFirst + k - 1]
  /\ \A c \in Group : bVerdict[c] # NoValue

\* The result printed for a call is its own, its failure is counted, and its success
\* was carried out.
PrintedRight(c) ==
  /\ bPrinted[c] \in Part /\ bPrinted[c].of = c
  /\ IF bPrinted[c].status = "ok" THEN bApplied[c] > 0 ELSE bPrinted[c].status \in bFailed

\* What was said of the calls: the groups before this one are printed, in this one
\* those up to the current one are dealt with, and nothing was said of the rest.
FateInv ==
  /\ \A c \in BatchCall : bFate[c] = "printed" => PrintedRight(c)
  /\ bStep \in Unsent => bAt = 0 /\ bFirst = 1 /\ \A c \in BatchCall : bFate[c] = "pending"
  /\ bStep \in {"ready", "sent"} =>
       bAt = 0 /\ \A c \in BatchCall : bFate[c] = IF c < bFirst THEN "printed" ELSE "pending"
  /\ bStep = "results" =>
       /\ PartsRight
       /\ \A c \in BatchCall :
            /\ c < bFirst => bFate[c] = "printed"
            /\ bFirst <= c /\ c < Current => bFate[c] \in {"printed", "withheld"}
            /\ c >= Current => bFate[c] = "pending"
            /\ bFate[c] = "withheld" => c \in Group
  /\ bStep = "over" => BatchTruthful /\ BatchExitHonest

BatchInv == BatchTypes /\ GateInv /\ ServerInv /\ FateInv

\* A group is an interval that begins with its first call.
LEMMA InGroupIs ==
  ASSUME NEW first \in BatchCall
  PROVE  /\ IsFiniteSet(InGroup(first)) /\ Cardinality(InGroup(first)) \in Nat /\ first \in InGroup(first)
         /\ \A c \in Int : c \in InGroup(first) <=> first <= c /\ c < first + Cardinality(InGroup(first))
         /\ \A c \in BatchCall : c < first \/ c \in InGroup(first) \/ first + BatchLimit <= c
<1> USE BatchAssumption
<1> DEFINE last == IF first + BatchLimit - 1 <= BatchCalls THEN first + BatchLimit - 1 ELSE BatchCalls
<1>1. InGroup(first) = first..last
  BY DEF InGroup, BatchCall
<1>2. last \in Int /\ first \in Int /\ first <= last
  BY DEF BatchCall
<1>3. IsFiniteSet(InGroup(first)) /\ Cardinality(InGroup(first)) = last - first + 1
  BY <1>1, <1>2, FS_Interval
<1> HIDE DEF last
<1>4. \A c \in BatchCall : c < first \/ c \in InGroup(first) \/ first + BatchLimit <= c
  BY DEF InGroup, BatchCall
<1> QED
  BY <1>1, <1>2, <1>3, <1>4

LEMMA GroupIs ==
  ASSUME bFirst \in BatchCall
  PROVE  /\ IsFiniteSet(Group) /\ Cardinality(Group) \in Nat /\ bFirst \in Group
         /\ \A c \in Int : c \in Group <=> bFirst <= c /\ c < bFirst + Cardinality(Group)
         /\ \A c \in BatchCall : c < bFirst \/ c \in Group \/ c \in NotSent
         /\ \A c \in NotSent : c \notin Group /\ c > bFirst
<1>1. \A c \in NotSent : c \notin Group /\ c > bFirst
  BY BatchAssumption DEF Group, InGroup, NotSent, BatchCall
<1> QED
  BY <1>1, InGroupIs DEF Group, NotSent

\* Matched parts stand in the order of the calls and each is its call's own.
LEMMA Matched ==
  ASSUME BatchTypes, NEW parts \in BatchAnswers, NEW ordered \in InCallOrder(parts),
         \A c \in Group : bVerdict[c] # NoValue
  PROVE  /\ Len(ordered) = Cardinality(Group)
         /\ \A k \in 1..Len(ordered) :
              /\ ordered[k] \in Part /\ ordered[k].of = bFirst + k - 1
              /\ ordered[k].status = bVerdict[bFirst + k - 1]
<1> DEFINE n == Cardinality(Group)
<1>1. /\ n \in Nat /\ IsFiniteSet(Group) /\ bFirst \in Int
      /\ \A c \in Int : c \in Group <=> bFirst <= c /\ c < bFirst + n
  BY GroupIs DEF BatchTypes, BatchCall
<1>2. Group \subseteq BatchCall /\ Foreign \notin Group /\ Unnamed \notin Group
  BY BatchAssumption DEF Group, InGroup, BatchCall, Foreign, Unnamed
<1>3. /\ Len(parts) = n
      /\ \A i \in 1..n : CallOf(parts, i) \in Group
      /\ \A i, j \in 1..n : i # j => CallOf(parts, i) # CallOf(parts, j)
      /\ ordered = [k \in 1..n |->
           [parts[CHOOSE i \in 1..n : CallOf(parts, i) = bFirst + k - 1] EXCEPT !.name = bFirst + k - 1]]
  BY DEF InCallOrder
<1>4. ASSUME NEW i \in 1..n
      PROVE  /\ parts[i] \in Part /\ parts[i].of \in Group /\ parts[i].status = bVerdict[parts[i].of]
             /\ parts[i].name \in BatchCall => parts[i].name = parts[i].of
             /\ parts[i].name = Unnamed => parts[i].of = bFirst + i - 1
             /\ parts[i].name \in Group \cup {Foreign, Unnamed}
  <2> DEFINE Possible == {[name |-> name, status |-> bVerdict[c], of |-> c] :
                            c \in Group, name \in Group \cup {Foreign, Unnamed}}
  <2>1. PICK m \in 0..n : parts \in [1..m -> {p \in Possible : p.name \in BatchCall => p.name = p.of}]
    BY DEF BatchAnswers
  <2>2. Len(parts) = m
    BY <2>1, <1>1
  <2>3. parts[i] \in Possible /\ (parts[i].name \in BatchCall => parts[i].name = parts[i].of)
    BY <2>1, <2>2, <1>3
  <2>4. parts[i].name = Unnamed => parts[i].of = bFirst + i - 1
    BY <1>3 DEF BatchAnswers
  <2>5. PICK c \in Group, name \in Group \cup {Foreign, Unnamed} :
          parts[i] = [name |-> name, status |-> bVerdict[c], of |-> c]
    BY <2>3
  <2>6. bVerdict[c] \in CallStatus
    BY <1>2 DEF BatchTypes
  <2> QED
    BY <1>2, <2>3, <2>4, <2>5, <2>6 DEF Part
<1>5. \A i \in 1..n : CallOf(parts, i) = parts[i].of
  BY <1>2, <1>3, <1>4 DEF CallOf, Foreign
<1>6. ASSUME NEW k \in 1..n PROVE \E i \in 1..n : CallOf(parts, i) = bFirst + k - 1
  <2> DEFINE f == [i \in 1..n |-> CallOf(parts, i)]
  <2>1. f \in Injection(1..n, Group)
    BY <1>3 DEF Injection, IsInjective
  <2>2. IsFiniteSet(1..n) /\ Cardinality(1..n) = n
    BY <1>1, FS_Interval
  <2>3. f \in Surjection(1..n, Group)
    BY <2>1, <2>2, <1>1, FS_Injection
  <2>4. bFirst + k - 1 \in Group
    BY <1>1
  <2> QED
    BY <2>3, <2>4 DEF Surjection
<1>7. ASSUME NEW k \in 1..n
      PROVE  ordered[k] \in Part /\ ordered[k].of = bFirst + k - 1 /\ ordered[k].status = bVerdict[bFirst + k - 1]
  <2> DEFINE i == CHOOSE i \in 1..n : CallOf(parts, i) = bFirst + k - 1
  <2>1. i \in 1..n /\ CallOf(parts, i) = bFirst + k - 1
    BY <1>6
  <2>2. ordered[k] = [parts[i] EXCEPT !.name = bFirst + k - 1]
    BY <1>3
  <2> HIDE DEF i
  <2>3. bFirst + k - 1 \in BatchCall
    BY <1>1, <1>2
  <2> QED
    BY <2>1, <2>2, <2>3, <1>4, <1>5 DEF Part
<1>8. Len(ordered) = n
  BY <1>1, <1>3
<1> QED
  BY <1>7, <1>8

LEMMA BatchTypesStep == BatchInv /\ [BatchNext]_batchVars => BatchTypes'
<1> SUFFICES ASSUME BatchInv, [BatchNext]_batchVars PROVE BatchTypes'
  OBVIOUS
<1> USE DEF BatchInv, BatchTypes
<1>1. ASSUME NEW impacts \in SUBSET Impact, NEW inv \in Invocation, NEW safe \in SUBSET BatchCall,
             NEW screen \in BOOLEAN, BatchStart(impacts, inv, safe, screen)
      PROVE  BatchTypes'
  BY <1>1 DEF BatchStart, bServer, bResult, Group, Gate, Unsent
<1>2. ASSUME NEW impact \in Impact, NEW next \in {"outbound", "credentials"}, BatchGate(impact, next)
      PROVE  BatchTypes'
  <2>1. bGate' \in Gate
    BY <1>2 DEF BatchGate, BatchRefused, Gate, Impact, Unsent
  <2> QED
    BY <1>2, <2>1 DEF BatchGate, BatchRefused, bServer, bResult, bSetting, Group, Unsent, Impact
<1>3. CASE BatchCredentials
  BY <1>3 DEF BatchCredentials, BatchRefused, bServer, bResult, bSetting, Group, Unsent
<1>4. CASE BatchSend
  BY <1>4 DEF BatchSend, bServer, bResult, bSetting, Group, Unsent
<1>5. ASSUME NEW lost, NEW why \in BatchFate, NEW ending, BatchStop(lost, why, ending)
      PROVE  bFate' \in [BatchCall -> BatchFate] /\ bStep' = "over"
  BY <1>5 DEF BatchStop, BatchFate
<1>6. CASE BatchUnreachable
  BY <1>5, <1>6 DEF BatchUnreachable, BatchLost, bServer, bResult, bSetting, Group, Unsent, BatchFate
<1>7. BatchAbandon => bLate' \in [BatchCall -> Nat] /\ bOpen' = {}
  BY DEF BatchAbandon
<1>8. ASSUME NEW ending, BatchNoAnswer(ending) PROVE BatchTypes'
  BY <1>5, <1>7, <1>8 DEF BatchNoAnswer, BatchLost, bResult, bSetting, Group, Unsent, BatchFate
<1>9. CASE BatchRejected
  BY <1>5, <1>7, <1>9 DEF BatchRejected, BatchLost, bResult, bSetting, Group, Unsent, BatchFate
<1>10. ASSUME NEW parts \in BatchAnswers, BatchAnswer(parts) PROVE BatchTypes'
  BY <1>5, <1>10 DEF BatchAnswer, BatchLost, bServer, bResult, bSetting, Group, Unsent, BatchFate
<1>11. bStep = "results" /\ bAt < Len(bParts) =>
         /\ Current \in BatchCall /\ Len(bParts) \in Nat
         /\ bParts[bAt + 1] \in Part /\ (CountFailure => bFailed' \subseteq {"retry", "perm"})
  <2> SUFFICES ASSUME bStep = "results", bAt < Len(bParts)
               PROVE  /\ Current \in BatchCall /\ Len(bParts) \in Nat
                      /\ bParts[bAt + 1] \in Part /\ (CountFailure => bFailed' \subseteq {"retry", "perm"})
    OBVIOUS
  <2>1. PartsRight
    BY DEF FateInv
  <2>2. Len(bParts) \in Nat /\ Current \in Group
    BY <2>1, GroupIs DEF PartsRight, Current, BatchCall
  <2>3. bParts[bAt + 1] \in Part
    BY <2>1, <2>2 DEF PartsRight
  <2>4. bParts[bAt + 1].status \in {"ok", "retry", "perm"}
    BY <2>3 DEF Part, CallStatus
  <2> QED
    BY <2>2, <2>3, <2>4 DEF CountFailure, Group, InGroup
<1>12. CASE BatchPrint
  <2>1. /\ bPrinted' \in [BatchCall -> Part \cup {NoValue}] /\ bFate' \in [BatchCall -> BatchFate]
        /\ bStep' \in {"results", "over"} /\ bAt' \in Nat
    <3>1. CASE BatchStop(Withheld \cup AndLater, "unprinted", "other") /\ UNCHANGED <<bPrinted, bAt>>
      BY <1>5, <3>1 DEF BatchFate
    <3>2. CASE /\ bPrinted' = [bPrinted EXCEPT ![Current] = bParts[bAt + 1]]
               /\ bFate' = [bFate EXCEPT ![Current] = "printed"]
               /\ bAt' = bAt + 1 /\ bStep' = bStep
      <4>1. bParts[bAt + 1] \in Part /\ bStep = "results"
        BY <1>11, <1>12 DEF BatchPrint
      <4>2. \A p \in Part : [bPrinted EXCEPT ![Current] = p] \in [BatchCall -> Part \cup {NoValue}]
        OBVIOUS
      <4>3. bPrinted' \in [BatchCall -> Part \cup {NoValue}]
        BY <3>2, <4>1, <4>2
      <4>4. bFate' \in [BatchCall -> BatchFate]
        BY <3>2 DEF BatchFate
      <4> QED
        BY <3>2, <4>1, <4>3, <4>4
    <3> QED
      BY <1>12, <3>1, <3>2 DEF BatchPrint
  <2> QED
    BY <1>11, <1>12, <2>1 DEF BatchPrint, bServer, bSetting, Group, Unsent
<1>13. CASE BatchWithhold
  <2>1. bFate' \in [BatchCall -> BatchFate] /\ bAt' \in Nat
    BY <1>11, <1>13 DEF BatchWithhold, BatchFate
  <2> QED
    BY <1>11, <1>13, <2>1 DEF BatchWithhold, bServer, bSetting, Group, Unsent
<1>14. CASE BatchGroupDone
  <2>1. bOpen = {}
    BY <1>14 DEF BatchGroupDone, ServerInv
  <2>2. NotSent # {} => bFirst + BatchLimit \in BatchCall
    BY BatchAssumption DEF NotSent, BatchCall
  <2> QED
    BY <1>5, <1>14, <2>1, <2>2 DEF BatchGroupDone, bServer, bSetting, Group, Unsent, BatchFate
<1>15. ASSUME NEW c \in BatchCall, NEW s \in CallStatus, BatchServe(c, s) PROVE BatchTypes'
  BY <1>15 DEF BatchServe, bResult, bSetting, Group, Unsent
<1>16. ASSUME NEW c \in BatchCall, NEW applies \in BOOLEAN, BatchServeLate(c, applies) PROVE BatchTypes'
  BY <1>16 DEF BatchServeLate, bResult, bSetting, Group, Unsent
<1>17. CASE UNCHANGED batchVars
  BY <1>17 DEF batchVars, bServer, bResult, bSetting, Group, Unsent
<1>18. CASE BatchServing
  BY <1>15, <1>16, <1>18 DEF BatchServing
<1> QED
  BY <1>1, <1>2, <1>3, <1>4, <1>6, <1>8, <1>9, <1>10, <1>12, <1>13, <1>14, <1>17, <1>18
     DEF BatchNext, BatchBegin, BatchClient, Impact

LEMMA GateStep == BatchInv /\ [BatchNext]_batchVars => GateInv'
<1> SUFFICES ASSUME BatchInv, [BatchNext]_batchVars PROVE GateInv'
  OBVIOUS
<1> USE DEF BatchInv, GateInv, BatchConfirmed
<1>1. CASE bStep' \notin {"outbound", "credentials"}
  BY <1>1
<1>2. CASE BatchGate("destructive", "outbound") /\ bStep' = "outbound"
  <2>1. bGate \in Gate
    BY <1>2 DEF BatchTypes, BatchGate
  <2>2. bGate'.impacts = bGate.impacts /\ bGate'.inv = bGate.inv
    BY <1>2, <2>1 DEF BatchGate, BatchRefused, Gate
  <2>3. "destructive" \in bGate.impacts /\ Decide("destructive", bGate.inv) # "proceed"
          => "destructive" \in bGate'.confirmed
    BY <1>2, <2>1 DEF BatchGate, BatchRefused, Gate, Decide
  <2> QED
    BY <1>2, <2>2, <2>3
<1>3. CASE BatchGate("outbound", "credentials") /\ bStep' = "credentials"
  <2>1. bGate \in Gate
    BY <1>3 DEF BatchTypes, BatchGate
  <2>2. bGate'.impacts = bGate.impacts /\ bGate'.inv = bGate.inv /\ bGate.confirmed \subseteq bGate'.confirmed
    BY <1>3, <2>1 DEF BatchGate, BatchRefused, Gate
  <2>3. "outbound" \in bGate.impacts /\ Decide("outbound", bGate.inv) # "proceed"
          => "outbound" \in bGate'.confirmed
    BY <1>3, <2>1 DEF BatchGate, BatchRefused, Gate, Decide
  <2>4. bGate.impacts \subseteq {"destructive", "outbound"} /\ bStep = "outbound"
    BY <1>3, <2>1 DEF Gate, Impact, BatchGate
  <2> QED
    BY <1>3, <2>2, <2>3, <2>4
<1>4. CASE bStep' = bStep /\ bGate' = bGate
  BY <1>4
<1>5. CASE BatchServing
  BY <1>4, <1>5 DEF BatchServing, BatchServe, BatchServeLate
<1>6. CASE BatchBegin
  BY <1>1, <1>6 DEF BatchBegin, BatchStart
<1>7. CASE BatchClient
  <2>1. CASE BatchGate("destructive", "outbound")
    BY <1>1, <1>2, <2>1 DEF BatchGate, BatchRefused
  <2>2. CASE BatchGate("outbound", "credentials")
    BY <1>1, <1>3, <2>2 DEF BatchGate, BatchRefused
  <2>3. CASE BatchCredentials \/ BatchSend
    BY <1>1, <2>3 DEF BatchCredentials, BatchSend, BatchRefused
  <2>4. CASE BatchUnreachable \/ BatchRejected \/ BatchPrint \/ BatchWithhold \/ BatchGroupDone
    BY <1>1, <2>4 DEF BatchUnreachable, BatchRejected, BatchPrint, BatchWithhold, BatchGroupDone,
       BatchLost, BatchStop
  <2>5. ASSUME NEW ending, BatchNoAnswer(ending) PROVE GateInv'
    BY <1>1, <2>5 DEF BatchNoAnswer, BatchLost, BatchStop
  <2>6. ASSUME NEW parts \in BatchAnswers, BatchAnswer(parts) PROVE GateInv'
    BY <1>1, <2>6 DEF BatchAnswer, BatchLost, BatchStop
  <2> QED
    BY <1>7, <2>1, <2>2, <2>3, <2>4, <2>5, <2>6 DEF BatchClient
<1>8. CASE UNCHANGED batchVars
  BY <1>4, <1>8 DEF batchVars
<1> QED
  BY <1>5, <1>6, <1>7, <1>8 DEF BatchNext

\* The calls of a request given up on may still be carried out, those of no other.
LEMMA AbandonCounts ==
  ASSUME BatchTypes, BatchAbandon, bApplied' = bApplied, ServerInv, bSafe' = bSafe,
         bFirst' = bFirst, bVerdict' = bVerdict,
         bStep = "sent",
         bStep' = "over" \/ (bStep' = "ready" /\ Group \subseteq bSafe)
  PROVE  ServerInv'
<1>1. \A c \in BatchCall : bLate'[c] = IF c \in bOpen THEN bLate[c] + 1 ELSE bLate[c]
  BY DEF BatchAbandon
<1>2. bOpen' = {}
  BY DEF BatchAbandon
<1>3. \A c \in BatchCall : bApplied[c] \in Nat /\ bLate[c] \in Nat
  BY DEF BatchTypes
<1>4. BatchAtMostOnce'
  BY <1>1, <1>2, <1>3 DEF ServerInv, BatchAtMostOnce
<1>5. \A c \in NotSent : Untouched(c)'
  BY <1>1, <1>2 DEF ServerInv, Untouched, NotSent
<1>6. NotSent' = NotSent /\ Group' = Group
  BY DEF NotSent, Group
<1> QED
  BY <1>2, <1>4, <1>5, <1>6 DEF ServerInv, Unsent

\* A step that leaves the server alone and does not send.
LEMMA ServerIdle ==
  ASSUME ServerInv, UNCHANGED <<bLate, bApplied, bSafe, bFirst, bVerdict, bOpen>>,
         \/ bStep' \notin Unsent \cup {"ready", "sent"} /\ bOpen = {}
         \/ bStep' = bStep
         \/ bStep \in Unsent /\ bStep' \in Unsent \cup {"ready"}
  PROVE  ServerInv'
<1>1. NotSent' = NotSent /\ Group' = Group /\ \A c \in BatchCall : Untouched(c)' = Untouched(c)
  BY DEF NotSent, Group, Untouched
<1>2. Group \subseteq BatchCall /\ NotSent \subseteq BatchCall
  BY DEF Group, InGroup, NotSent
<1>3. BatchAtMostOnce'
  BY DEF ServerInv, BatchAtMostOnce
<1>4. bStep' # "sent" => bOpen' = {}
  BY DEF ServerInv, Unsent
<1> QED
  BY <1>1, <1>2, <1>3, <1>4 DEF ServerInv, Unsent

LEMMA ServerStep == BatchInv /\ [BatchNext]_batchVars => ServerInv'
<1> SUFFICES ASSUME BatchInv, [BatchNext]_batchVars PROVE ServerInv'
  OBVIOUS
<1>1. ASSUME NEW impacts \in SUBSET Impact, NEW inv \in Invocation, NEW safe \in SUBSET BatchCall,
             NEW screen \in BOOLEAN, BatchStart(impacts, inv, safe, screen)
      PROVE  ServerInv'
  <2>1. \A c \in BatchCall : Untouched(c)'
    BY <1>1 DEF BatchStart, bServer, BatchInv, ServerInv, Unsent, Untouched
  <2>2. bStep' \in {"over", "destructive"} /\ bOpen' = {}
    BY <1>1 DEF BatchStart, BatchInv, ServerInv
  <2>3. \A c \in BatchCall : bVerdict'[c] = "ok" => bApplied'[c] > 0
    BY <1>1 DEF BatchStart, bServer, BatchInv, ServerInv
  <2>4. Group' \subseteq BatchCall /\ NotSent' \subseteq BatchCall
    BY DEF Group, InGroup, NotSent
  <2> QED
    BY <2>1, <2>2, <2>3, <2>4 DEF ServerInv, BatchAtMostOnce, Untouched
<1>2. ASSUME NEW impact \in Impact, NEW next \in {"outbound", "credentials"}, BatchGate(impact, next)
      PROVE  ServerInv'
  BY <1>2, ServerIdle DEF BatchGate, BatchRefused, Impact, bServer, bSetting, Unsent, BatchInv, ServerInv
<1>3. CASE BatchCredentials
  BY <1>3, ServerIdle DEF BatchCredentials, BatchRefused, bServer, bSetting, Unsent, BatchInv, ServerInv
<1>4. CASE BatchSend
  <2>1. Group \subseteq BatchCall /\ NotSent \subseteq BatchCall /\ \A c \in NotSent : c \notin Group
    BY GroupIs DEF Group, InGroup, NotSent, BatchInv, BatchTypes
  <2>2. /\ UNCHANGED <<bApplied, bLate, bSafe, bFirst>> /\ bOpen' = Group /\ bOpen = {}
        /\ bStep' = "sent" /\ bStep = "ready"
    BY <1>4 DEF BatchSend, bServer, bSetting, BatchInv, ServerInv
  <2>3. \A c \in BatchCall : bVerdict'[c] # "ok"
    BY <1>4, OutcomeAssumption DEF BatchSend, CallStatus
  <2>4. BatchAtMostOnce'
    BY <2>1, <2>2 DEF BatchInv, ServerInv, BatchAtMostOnce, Untouched, BatchTypes
  <2>5. NotSent' = NotSent /\ \A c \in NotSent : Untouched(c)'
    BY <2>1, <2>2 DEF BatchInv, ServerInv, Untouched, NotSent
  <2> QED
    BY <2>2, <2>3, <2>4, <2>5 DEF ServerInv, Unsent
<1>5. CASE BatchUnreachable
  BY <1>5, ServerIdle DEF BatchUnreachable, BatchLost, BatchStop, bServer, bSetting, Unsent, BatchInv, ServerInv
<1>6. ASSUME NEW ending, BatchNoAnswer(ending) PROVE ServerInv'
  BY <1>6, AbandonCounts DEF BatchNoAnswer, BatchLost, BatchStop, BatchMayResend, bSetting, BatchInv
<1>7. CASE BatchRejected
  <2>1. ASSUME BatchAbandon PROVE ServerInv'
    BY <1>7, <2>1, AbandonCounts DEF BatchRejected, BatchLost, BatchStop, bSetting, BatchInv
  <2>2. ASSUME bOpen' = {}, UNCHANGED bLate PROVE ServerInv'
    <3>1. UNCHANGED <<bApplied, bLate, bSafe, bFirst, bVerdict>> /\ bStep' = "over"
      BY <1>7, <2>2 DEF BatchRejected, BatchLost, BatchStop, bSetting
    <3>2. NotSent' = NotSent /\ NotSent \subseteq BatchCall
      BY <3>1 DEF NotSent
    <3>3. BatchAtMostOnce'
      BY <2>2, <3>1 DEF BatchInv, ServerInv, BatchAtMostOnce, BatchTypes
    <3> QED
      BY <2>2, <3>1, <3>2, <3>3 DEF BatchInv, ServerInv, Untouched, Unsent
  <2> QED
    BY <1>7, <2>1, <2>2 DEF BatchRejected
<1>8. ASSUME NEW parts \in BatchAnswers, BatchAnswer(parts) PROVE ServerInv'
  BY <1>8, ServerIdle DEF BatchAnswer, BatchLost, BatchStop, bServer, bSetting, Unsent, BatchInv
<1>9. CASE BatchPrint
  BY <1>9, ServerIdle DEF BatchPrint, BatchStop, bServer, bSetting, Unsent, BatchInv, ServerInv
<1>10. CASE BatchWithhold
  BY <1>10, ServerIdle DEF BatchWithhold, bServer, bSetting, Unsent, BatchInv
<1>11. CASE BatchGroupDone
  <2>1. CASE bStep' = "over"
    <3>1. bFirst' = bFirst
      BY <1>11, <2>1 DEF BatchGroupDone
    <3> QED
      BY <1>11, <2>1, <3>1, ServerIdle DEF BatchGroupDone, bServer, bSetting, Unsent, BatchInv, ServerInv
  <2>2. CASE bStep' = "ready" /\ bFirst' = bFirst + BatchLimit
    <3>1. Group' \subseteq NotSent /\ NotSent' \subseteq NotSent
      BY <2>2, BatchAssumption DEF Group, InGroup, NotSent, BatchCall, BatchInv, BatchTypes
    <3>2. UNCHANGED <<bApplied, bLate, bSafe, bVerdict, bOpen>> /\ bOpen = {}
      BY <1>11 DEF BatchGroupDone, bServer, bSetting, BatchInv, ServerInv
    <3>3. BatchAtMostOnce'
      BY <3>2 DEF BatchInv, ServerInv, BatchAtMostOnce
    <3> QED
      BY <2>2, <3>1, <3>2, <3>3 DEF BatchInv, ServerInv, Untouched, Unsent
  <2> QED
    BY <1>11, <2>1, <2>2 DEF BatchGroupDone, BatchStop
<1>12. ASSUME NEW c \in BatchCall, NEW s \in CallStatus, BatchServe(c, s) PROVE ServerInv'
  <2>1. /\ c \in bOpen /\ bOpen' = bOpen \ {c} /\ UNCHANGED <<bStep, bLate, bSafe, bFirst>>
        /\ bStep = "sent"
    BY <1>12 DEF BatchServe, bSetting, BatchInv, ServerInv
  <2>2. /\ bApplied' = IF s = "ok" THEN [bApplied EXCEPT ![c] = @ + 1] ELSE bApplied
        /\ bVerdict' = [bVerdict EXCEPT ![c] = s]
    BY <1>12 DEF BatchServe
  <2>3. NotSent' = NotSent /\ NotSent \subseteq BatchCall /\ c \notin NotSent
    BY <2>1, GroupIs DEF NotSent, BatchInv, BatchTypes
  <2>4. BatchAtMostOnce'
    BY <2>1, <2>2 DEF BatchInv, ServerInv, BatchAtMostOnce, BatchTypes
  <2>5. \A d \in NotSent : Untouched(d)'
    BY <2>1, <2>2, <2>3 DEF BatchInv, ServerInv, Untouched, BatchTypes
  <2>6. \A d \in BatchCall : bVerdict'[d] = "ok" => bApplied'[d] > 0
    BY <2>2 DEF BatchInv, ServerInv, BatchTypes
  <2> QED
    BY <2>1, <2>3, <2>4, <2>5, <2>6 DEF ServerInv, Unsent
<1>13. ASSUME NEW c \in BatchCall, NEW applies \in BOOLEAN, BatchServeLate(c, applies) PROVE ServerInv'
  <2>1. UNCHANGED <<bStep, bSafe, bFirst, bVerdict, bOpen>> /\ bLate[c] > 0
    BY <1>13 DEF BatchServeLate, bSetting
  <2>2. /\ bLate' = [bLate EXCEPT ![c] = @ - 1]
        /\ bApplied' = IF applies THEN [bApplied EXCEPT ![c] = @ + 1] ELSE bApplied
    BY <1>13 DEF BatchServeLate
  <2>3. NotSent' = NotSent /\ Group' = Group /\ NotSent \subseteq BatchCall /\ Group \subseteq BatchCall
    BY <2>1 DEF NotSent, Group, InGroup
  <2>4. BatchAtMostOnce'
    BY <2>1, <2>2 DEF BatchInv, ServerInv, BatchAtMostOnce, BatchTypes
  <2>5. \A d \in BatchCall : Untouched(d) => Untouched(d)'
    BY <2>1, <2>2 DEF Untouched, BatchInv, BatchTypes
  <2>6. \A d \in BatchCall : bVerdict'[d] = "ok" => bApplied'[d] > 0
    BY <2>1, <2>2 DEF BatchInv, ServerInv, BatchTypes
  <2> QED
    BY <2>1, <2>3, <2>4, <2>5, <2>6 DEF BatchInv, ServerInv
<1>14. CASE UNCHANGED batchVars
  BY <1>14, ServerIdle DEF batchVars, bServer, bSetting, BatchInv
<1> QED
  BY <1>1, <1>2, <1>3, <1>4, <1>5, <1>6, <1>7, <1>8, <1>9, <1>10, <1>11, <1>12, <1>13, <1>14
     DEF BatchNext, BatchBegin, BatchClient, BatchServing, Impact

\* The batch stops: every call is printed, lost or was not sent.
LEMMA Stopped ==
  ASSUME NEW lost \in SUBSET BatchCall, NEW why \in {"unknown", "withheld", "unprinted"}, NEW ending,
         BatchStop(lost, why, ending), ending # "ok", lost # {}, ServerInv', NotSent' = NotSent,
         UNCHANGED <<bPrinted, bVerdict>>,
         \A c \in BatchCall \ lost : c \in NotSent \/ bFate[c] = "printed",
         \A c \in BatchCall : bFate[c] = "printed" => PrintedRight(c)',
         why # "unknown" => \A c \in lost : bVerdict[c] # NoValue
  PROVE  FateInv'
<1>1. /\ bStep' = "over" /\ bEnd' = ending
      /\ \A c \in BatchCall : bFate'[c] = IF c \in lost THEN why ELSE IF c \in NotSent THEN "notSent" ELSE "printed"
  BY DEF BatchStop
<1>2. \A c \in BatchCall : bFate'[c] = "printed" => PrintedRight(c)'
  BY <1>1 DEF BatchStop
<1>3. \A c \in NotSent : Untouched(c)'
  BY DEF ServerInv
<1>4. BatchTruthful'
  BY <1>1, <1>2, <1>3 DEF BatchTruthful, Untouched, PrintedRight
<1>5. PICK c \in lost : bFate'[c] # "printed"
  BY <1>1
<1>6. BatchExitHonest'
  BY <1>1, <1>5 DEF BatchExitHonest
<1> QED
  BY <1>1, <1>2, <1>4, <1>6 DEF FateInv, Unsent

LEMMA FateStep == BatchInv /\ [BatchNext]_batchVars => FateInv'
<1> SUFFICES ASSUME BatchInv, [BatchNext]_batchVars PROVE FateInv'
  OBVIOUS
<1>a. ServerInv' /\ BatchTypes'
  BY ServerStep, BatchTypesStep
<1>b. /\ bFirst \in BatchCall /\ bFirst \in Nat /\ bFirst \in Group
      /\ Group \subseteq BatchCall /\ NotSent \subseteq BatchCall /\ BatchCall \subseteq Nat
  BY GroupIs DEF BatchInv, BatchTypes, Group, InGroup, NotSent, BatchCall
<1>c. \A c \in BatchCall : c < bFirst \/ c \in Group \/ c \in NotSent
  BY GroupIs DEF BatchInv, BatchTypes
<1>d. \A c \in Int : c \in Group <=> bFirst <= c /\ c < bFirst + Cardinality(Group)
  BY GroupIs DEF BatchInv, BatchTypes
<1>e. \A c \in BatchCall : bFate[c] = "printed" => PrintedRight(c)
  BY DEF BatchInv, FateInv
<1>f. (/\ bPrinted' = bPrinted /\ bFailed \subseteq bFailed'
       /\ \A c \in BatchCall : bApplied[c] > 0 => bApplied'[c] > 0)
      => \A c \in BatchCall : PrintedRight(c) => PrintedRight(c)'
  BY DEF PrintedRight
\* Losing the whole group.
<1>g. ASSUME NEW ending, BatchLost(ending), ending # "ok", bStep \in {"ready", "sent"},
             UNCHANGED <<bVerdict, bFirst, bApplied>>
      PROVE  FateInv'
  <2>1. BatchStop(Group, "unknown", ending) /\ UNCHANGED <<bPrinted, bFailed>>
    BY <1>g DEF BatchLost
  <2>2. \A c \in BatchCall \ Group : c \in NotSent \/ bFate[c] = "printed"
    BY <1>g, <1>c DEF BatchInv, FateInv
  <2>3. NotSent' = NotSent
    BY <1>g DEF NotSent
  <2> QED
    BY <1>a, <1>b, <1>e, <1>f, <1>g, <2>1, <2>2, <2>3, Stopped
<1>1. ASSUME NEW impacts \in SUBSET Impact, NEW inv \in Invocation, NEW safe \in SUBSET BatchCall,
             NEW screen \in BOOLEAN, BatchStart(impacts, inv, safe, screen)
      PROVE  FateInv'
  <2>1. bGate' \in Gate /\ bGate' # NoValue
    BY <1>1, NoPart DEF BatchStart, Gate
  <2>2. \A c \in BatchCall : bFate'[c] = "pending"
    BY <1>1 DEF BatchStart, bResult, BatchInv, FateInv, Unsent
  <2>3. bStep' \in {"over", "destructive"} /\ bAt' = 0 /\ bFirst' = 1
    BY <1>1 DEF BatchStart, BatchInv, FateInv, Unsent
  <2> QED
    BY <2>1, <2>2, <2>3 DEF FateInv, BatchTruthful, BatchExitHonest
<1>2. ASSUME UNCHANGED <<bFate, bAt, bFirst>>, bStep \in Unsent, bStep' \in Unsent \cup {"ready"}
      PROVE  FateInv'
  <2>1. \A c \in BatchCall : bFate'[c] = "pending"
    BY <1>2 DEF BatchInv, FateInv
  <2>2. bAt' = 0 /\ bFirst' = 1
    BY <1>2 DEF BatchInv, FateInv
  <2> QED
    BY <1>2, <2>1, <2>2 DEF FateInv, Unsent, BatchCall
<1>3. ASSUME NEW ending, BatchRefused(ending), bStep \in Unsent, bGate # NoValue PROVE FateInv'
  <2>1. \A c \in BatchCall : bFate'[c] = "pending"
    BY <1>3 DEF BatchInv, FateInv, BatchRefused, bResult
  <2>2. bStep' = "over" /\ bGate' # NoValue
    BY <1>3 DEF BatchRefused
  <2> QED
    BY <2>1, <2>2 DEF FateInv, BatchTruthful, BatchExitHonest, Unsent
<1>4. ASSUME NEW impact \in Impact, NEW next \in {"outbound", "credentials"}, BatchGate(impact, next)
      PROVE  FateInv'
  <2>1. bStep \in {"destructive", "outbound"} /\ bGate # NoValue
    BY <1>4, NoPart DEF BatchGate, Impact, BatchInv, BatchTypes
  <2> QED
    BY <1>2, <1>3, <1>4, <2>1 DEF BatchGate, bResult, Unsent
<1>5. CASE BatchCredentials
  <2>1. bGate # NoValue
    BY <1>5, NoPart DEF BatchCredentials, BatchInv, BatchTypes
  <2> QED
    BY <1>2, <1>3, <1>5, <2>1 DEF BatchCredentials, bResult, Unsent
<1>6. CASE BatchSend
  <2>1. bStep = "ready" /\ bStep' = "sent" /\ UNCHANGED <<bFirst, bAt, bFailed, bPrinted, bFate, bApplied>>
    BY <1>6 DEF BatchSend, bResult, bServer
  <2> QED
    BY <1>e, <1>f, <2>1 DEF BatchInv, FateInv, Unsent
<1>7. CASE BatchUnreachable
  <2>1. bStep = "ready" /\ UNCHANGED <<bFirst, bAt, bApplied, bVerdict>>
    BY <1>7 DEF BatchUnreachable, bServer
  <2>2. CASE BatchLost("network")
    BY <1>g, <2>1, <2>2
  <2>3. CASE UNCHANGED <<bStep, bResult, bEnd>>
    BY <1>e, <1>f, <2>1, <2>3 DEF BatchInv, FateInv, Unsent, bResult
  <2> QED
    BY <1>7, <2>2, <2>3 DEF BatchUnreachable
<1>8. ASSUME NEW ending \in {"network", "retryable"}, BatchNoAnswer(ending) PROVE FateInv'
  <2>1. bStep = "sent" /\ UNCHANGED <<bFirst, bAt, bApplied, bVerdict>>
    BY <1>8 DEF BatchNoAnswer
  <2>2. CASE BatchLost(ending)
    BY <1>g, <2>1, <2>2
  <2>3. CASE bStep' = "ready" /\ UNCHANGED <<bResult, bEnd>>
    BY <1>e, <1>f, <2>1, <2>3 DEF BatchInv, FateInv, Unsent, bResult
  <2> QED
    BY <1>8, <2>2, <2>3 DEF BatchNoAnswer
<1>9. CASE BatchRejected
  BY <1>g, <1>9 DEF BatchRejected
<1>10. ASSUME NEW parts \in BatchAnswers, BatchAnswer(parts) PROVE FateInv'
  <2>1. /\ bStep = "sent" /\ UNCHANGED <<bFirst, bAt, bApplied, bVerdict>>
        /\ \A c \in Group : bVerdict[c] # NoValue
    BY <1>10 DEF BatchAnswer, bServer
  <2>2. CASE BatchLost("other")
    BY <1>g, <2>1, <2>2
  <2>3. CASE bParts' \in InCallOrder(parts) /\ bStep' = "results" /\ UNCHANGED <<bResult, bEnd>>
    <3>1. Group' = Group /\ bAt' = 0
      BY <2>1 DEF Group, BatchInv, FateInv
    <3>2. PartsRight'
      <4>1. /\ Len(bParts') = Cardinality(Group)
            /\ \A k \in 1..Len(bParts') :
                 /\ bParts'[k] \in Part /\ bParts'[k].of = bFirst + k - 1
                 /\ bParts'[k].status = bVerdict[bFirst + k - 1]
        BY <2>1, <2>3, Matched DEF BatchInv
      <4>2. Cardinality(Group) \in Nat
        BY GroupIs DEF BatchInv, BatchTypes
      <4> QED
        BY <2>1, <3>1, <4>1, <4>2 DEF PartsRight
    <3>3. \A c \in BatchCall : bFate'[c] = IF c < bFirst THEN "printed" ELSE "pending"
      BY <2>1, <2>3 DEF BatchInv, FateInv, bResult
    <3>4. Current' = bFirst /\ bFirst' = bFirst
      BY <1>b, <2>1, <3>1 DEF Current
    <3>5. \A c \in BatchCall : bFate'[c] = "printed" => PrintedRight(c)'
      BY <1>e, <1>f, <2>1, <2>3 DEF bResult
    <3> QED
      BY <1>b, <2>3, <3>2, <3>3, <3>4, <3>5 DEF FateInv, Unsent
  <2> QED
    BY <1>10, <2>2, <2>3 DEF BatchAnswer

\* The results of a group.
<1>h. ASSUME bStep = "results"
      PROVE  /\ PartsRight /\ bAt \in Nat /\ Cardinality(Group) \in Nat /\ Len(bParts) \in Nat
             /\ \A c \in BatchCall :
                  /\ c < bFirst => bFate[c] = "printed"
                  /\ bFirst <= c /\ c < Current => bFate[c] \in {"printed", "withheld"}
                  /\ c >= Current => bFate[c] = "pending"
                  /\ bFate[c] = "withheld" => c \in Group
  BY <1>h, GroupIs DEF BatchInv, FateInv, BatchTypes, PartsRight
<1>i. ASSUME bStep = "results", bAt < Len(bParts), CountFailure
      PROVE  /\ Current \in Group /\ Current \in Nat /\ bFailed \subseteq bFailed'
             /\ bParts[bAt + 1] \in Part /\ bParts[bAt + 1].of = Current
             /\ IF bParts[bAt + 1].status = "ok" THEN bApplied[Current] > 0
                ELSE bParts[bAt + 1].status \in bFailed'
  <2>1. Current \in Group /\ Current = bFirst + bAt
    BY <1>b, <1>d, <1>h, <1>i DEF Current, PartsRight
  <2>2. bParts[bAt + 1] \in Part /\ bParts[bAt + 1].of = Current /\ bParts[bAt + 1].status = bVerdict[Current]
    BY <1>b, <1>h, <1>i, <2>1 DEF PartsRight
  <2> QED
    BY <1>b, <1>h, <1>i, <2>1, <2>2 DEF CountFailure, BatchInv, ServerInv
<1>11. CASE BatchPrint
  <2>1. /\ bStep = "results" /\ bAt < Len(bParts) /\ CountFailure
        /\ UNCHANGED <<bFirst, bApplied, bVerdict, bParts, bGate>>
    BY <1>11 DEF BatchPrint, bServer
  <2>2. CASE BatchStop(Withheld \cup AndLater, "unprinted", "other") /\ UNCHANGED <<bPrinted, bAt>>
    <3>1. Withheld \cup AndLater \subseteq Group /\ Current \in AndLater
      BY <1>i, <2>1 DEF Withheld, AndLater
    <3>2. \A c \in BatchCall \ (Withheld \cup AndLater) : c \in NotSent \/ bFate[c] = "printed"
      BY <1>b, <1>c, <1>d, <1>h, <1>i, <2>1 DEF Withheld, AndLater
    <3>3. NotSent' = NotSent
      BY <2>1 DEF NotSent
    <3>4. \A c \in BatchCall : bFate[c] = "printed" => PrintedRight(c)'
      BY <1>e, <1>f, <1>i, <2>1, <2>2
    <3>5. \A c \in Withheld \cup AndLater : bVerdict[c] # NoValue
      BY <1>h, <2>1, <3>1 DEF PartsRight
    <3> QED
      BY <1>a, <1>b, <2>1, <2>2, <3>1, <3>2, <3>3, <3>4, <3>5, Stopped
  <2>3. CASE /\ bPrinted' = [bPrinted EXCEPT ![Current] = bParts[bAt + 1]]
             /\ bFate' = [bFate EXCEPT ![Current] = "printed"]
             /\ bAt' = bAt + 1 /\ bStep' = bStep
    <3>1. Current' = Current + 1 /\ Group' = Group
      BY <1>b, <1>h, <2>1, <2>3 DEF Current, Group
    <3>2. PartsRight'
      BY <1>h, <2>1, <2>3, <3>1 DEF PartsRight
    <3>3. \A c \in BatchCall : bFate'[c] = IF c = Current THEN "printed" ELSE bFate[c]
      BY <2>3 DEF BatchInv, BatchTypes
    <3>4. \A c \in BatchCall : bPrinted'[c] = IF c = Current THEN bParts[bAt + 1] ELSE bPrinted[c]
      BY <2>3 DEF BatchInv, BatchTypes
    <3>5. \A c \in BatchCall : bFate'[c] = "printed" => PrintedRight(c)'
      BY <1>e, <1>i, <2>1, <3>3, <3>4 DEF PrintedRight
    <3>6. \A c \in BatchCall :
            /\ c < bFirst => bFate'[c] = "printed"
            /\ bFirst <= c /\ c < Current + 1 => bFate'[c] \in {"printed", "withheld"}
            /\ c >= Current + 1 => bFate'[c] = "pending"
            /\ bFate'[c] = "withheld" => c \in Group
      BY <1>b, <1>h, <1>i, <2>1, <3>3
    <3> QED
      BY <2>1, <2>3, <3>1, <3>2, <3>5, <3>6 DEF FateInv, Unsent
  <2> QED
    BY <1>11, <2>2, <2>3 DEF BatchPrint
<1>12. CASE BatchWithhold
  <2>1. /\ bStep = "results" /\ bAt < Len(bParts) /\ CountFailure
        /\ UNCHANGED <<bStep, bFirst, bApplied, bVerdict, bParts, bPrinted>>
    BY <1>12 DEF BatchWithhold, bServer
  <2>2. Group' = Group /\ \A c \in BatchCall : PrintedRight(c) => PrintedRight(c)'
    BY <1>f, <1>i, <2>1 DEF Group
  <2>3. CASE bFate' = [bFate EXCEPT ![Current] = "withheld"] /\ bAt' = bAt + 1
    <3>1. Current' = Current + 1
      BY <1>b, <1>h, <2>1, <2>3 DEF Current
    <3>2. PartsRight'
      BY <1>h, <2>1, <2>2, <2>3 DEF PartsRight
    <3>3. \A c \in BatchCall : bFate'[c] = IF c = Current THEN "withheld" ELSE bFate[c]
      BY <2>3 DEF BatchInv, BatchTypes
    <3>4. \A c \in BatchCall :
            /\ c < bFirst => bFate'[c] = "printed"
            /\ bFirst <= c /\ c < Current + 1 => bFate'[c] \in {"printed", "withheld"}
            /\ c >= Current + 1 => bFate'[c] = "pending"
            /\ bFate'[c] = "withheld" => c \in Group
      BY <1>b, <1>d, <1>h, <1>i, <2>1, <3>3
    <3>5. \A c \in BatchCall : bFate'[c] = "printed" => PrintedRight(c)'
      BY <1>e, <2>2, <3>3
    <3> QED
      BY <2>1, <2>2, <3>1, <3>2, <3>4, <3>5 DEF FateInv, Unsent
  <2>4. CASE bFate' = [c \in BatchCall |-> IF c \in AndLater THEN "withheld" ELSE bFate[c]] /\ bAt' = Len(bParts)
    <3>1. Current' = bFirst + Cardinality(Group)
      BY <1>h, <2>1, <2>4 DEF Current, PartsRight
    <3>2. PartsRight'
      BY <1>h, <2>1, <2>2, <2>4 DEF PartsRight
    <3>3. \A c \in BatchCall : bFate'[c] = IF c \in AndLater THEN "withheld" ELSE bFate[c]
      BY <2>4
    <3>4. \A c \in BatchCall :
            /\ c < bFirst => bFate'[c] = "printed"
            /\ bFirst <= c /\ c < bFirst + Cardinality(Group) => bFate'[c] \in {"printed", "withheld"}
            /\ c >= bFirst + Cardinality(Group) => bFate'[c] = "pending"
            /\ bFate'[c] = "withheld" => c \in Group
      BY <1>b, <1>d, <1>h, <1>i, <2>1, <3>3 DEF AndLater
    <3>5. \A c \in BatchCall : bFate'[c] = "printed" => PrintedRight(c)'
      BY <1>e, <2>2, <3>3
    <3> QED
      BY <2>1, <2>2, <3>1, <3>2, <3>4, <3>5 DEF FateInv, Unsent
  <2> QED
    BY <1>12, <2>3, <2>4 DEF BatchWithhold
<1>13. CASE BatchGroupDone
  <2>1. /\ bStep = "results" /\ bAt = Len(bParts) /\ bAt' = 0
        /\ UNCHANGED <<bApplied, bVerdict, bFailed, bPrinted, bGate>>
    BY <1>13 DEF BatchGroupDone, bServer
  <2>2. Current = bFirst + Cardinality(Group)
    BY <1>h, <2>1 DEF Current, PartsRight
  <2>3. \A c \in BatchCall \ Withheld : c \in NotSent \/ bFate[c] = "printed"
    BY <1>b, <1>c, <1>d, <1>h, <2>1, <2>2 DEF Withheld
  <2>4. \A c \in BatchCall : bFate[c] = "printed" => PrintedRight(c)'
    BY <1>e, <1>f, <2>1
  <2>5. ASSUME NEW ending \in {"blocked", "network"}, BatchStop(Withheld, "withheld", ending),
               Withheld # {}, UNCHANGED bFirst
        PROVE  FateInv'
    <3>1. Withheld \subseteq BatchCall /\ \A c \in Withheld : bVerdict[c] # NoValue
      BY <1>b, <1>h, <2>1 DEF PartsRight, Withheld
    <3>2. NotSent' = NotSent
      BY <2>5 DEF NotSent
    <3> QED
      BY <1>a, <2>1, <2>3, <2>4, <2>5, <3>1, <3>2, Stopped
  <2>6. CASE Withheld = {} /\ bFirst' = bFirst + BatchLimit /\ bStep' = "ready" /\ UNCHANGED <<bFate, bEnd>>
    <3>1. \A c \in BatchCall : bFate[c] = IF c < bFirst + BatchLimit THEN "printed" ELSE "pending"
      <4> SUFFICES ASSUME NEW c \in BatchCall
                   PROVE  bFate[c] = IF c < bFirst + BatchLimit THEN "printed" ELSE "pending"
        OBVIOUS
      <4>1. CASE c < bFirst + BatchLimit
        <5>1. c \notin NotSent
          BY <1>b, <4>1, BatchAssumption DEF NotSent
        <5> QED
          BY <2>3, <2>6, <4>1, <5>1
      <4>2. CASE ~(c < bFirst + BatchLimit)
        <5>1. c \notin Group /\ c >= bFirst
          BY <1>b, <4>2, BatchAssumption DEF Group, InGroup
        <5>2. c >= Current
          BY <1>b, <1>d, <1>h, <2>1, <2>2, <5>1
        <5> QED
          BY <1>h, <2>1, <4>2, <5>2
      <4> QED
        BY <4>1, <4>2
    <3> QED
      BY <2>1, <2>4, <2>6, <3>1 DEF FateInv, Unsent
  <2>7. CASE /\ Withheld = {} /\ NotSent = {} /\ bStep' = "over"
             /\ bEnd' = PartialFailure(bFailed) /\ UNCHANGED <<bFate, bFirst>>
    <3>1. \A c \in BatchCall : bFate'[c] = "printed" /\ PrintedRight(c)'
      BY <2>3, <2>4, <2>7
    <3>2. bFailed \subseteq {"retry", "perm"} /\ bFailed' = bFailed
      BY <2>1 DEF BatchInv, BatchTypes
    <3>3. BatchTruthful'
      BY <3>1 DEF BatchTruthful, PrintedRight
    <3>4. BatchExitHonest'
      <4>1. \A c \in BatchCall :
              /\ bPrinted'[c] \in Part
              /\ IF bPrinted'[c].status = "ok" THEN bApplied'[c] > 0 ELSE bPrinted'[c].status \in bFailed
        BY <3>1, <3>2 DEF PrintedRight
      <4>2. bEnd' = "ok" => bFailed = {}
        BY <2>7, <3>2 DEF PartialFailure
      <4>3. bEnd' = "retryable" => "perm" \notin bFailed
        BY <2>7 DEF PartialFailure
      <4> QED
        BY <4>1, <4>2, <4>3, NoPart DEF BatchExitHonest
    <3> QED
      BY <2>7, <3>1, <3>3, <3>4 DEF FateInv, Unsent
  <2> QED
    BY <1>13, <2>5, <2>6, <2>7 DEF BatchGroupDone
<1>14. CASE BatchServing \/ UNCHANGED batchVars
  <2>1. UNCHANGED <<bStep, bGate, bFirst, bParts, bAt, bFailed, bPrinted, bFate, bEnd>>
    BY <1>14 DEF BatchServing, BatchServe, BatchServeLate, batchVars, bResult
  <2>2. \A c \in BatchCall : bApplied'[c] >= bApplied[c]
    BY <1>14 DEF BatchServing, BatchServe, BatchServeLate, batchVars, bServer, BatchInv, BatchTypes
  <2>a. \A c \in BatchCall : bApplied[c] > 0 => bApplied'[c] > 0
    BY <1>a, <2>2 DEF BatchInv, BatchTypes
  <2>3. bStep # "sent" => bVerdict' = bVerdict /\ bOpen' = {} /\ bOpen = {}
    BY <1>14 DEF BatchServing, BatchServe, BatchServeLate, batchVars, BatchInv, ServerInv
  <2>4. \A c \in BatchCall : bOpen = {} /\ Untouched(c) => Untouched(c)'
    BY <1>14, <2>3 DEF BatchServing, BatchServe, BatchServeLate, batchVars, bServer, Untouched,
       BatchInv, BatchTypes
  <2>5. \A c \in BatchCall : bFate'[c] = "printed" => PrintedRight(c)'
    BY <1>e, <1>f, <2>1, <2>a
  <2>6. CASE bStep # "over"
    <3>1. bStep = "results" => PartsRight' /\ Current' = Current /\ Group' = Group
      BY <1>h, <2>1, <2>3 DEF PartsRight, Group, Current
    <3> QED
      BY <2>1, <2>5, <2>6, <3>1 DEF BatchInv, FateInv
  <2>7. CASE bStep = "over"
    <3>1. BatchTruthful'
      BY <2>1, <2>3, <2>4, <2>7 DEF BatchInv, FateInv, BatchTruthful, Untouched
    <3>2. BatchExitHonest'
      BY <2>1, <2>a, <2>7 DEF BatchInv, FateInv, BatchExitHonest
    <3> QED
      BY <2>1, <2>5, <2>7, <3>1, <3>2 DEF BatchInv, FateInv, Unsent
  <2> QED
    BY <2>6, <2>7
<1> QED
  BY <1>1, <1>4, <1>5, <1>6, <1>7, <1>8, <1>9, <1>10, <1>11, <1>12, <1>13, <1>14
     DEF BatchNext, BatchBegin, BatchClient, BatchServing, Impact

LEMMA BatchBeginsRight == BatchInit => BatchInv
<1> SUFFICES ASSUME BatchInit PROVE BatchInv
  OBVIOUS
<1>1. 1 \in BatchCall /\ BatchCall \subseteq Nat /\ NotSent \subseteq BatchCall
  BY BatchAssumption DEF BatchCall, NotSent
<1>2. BatchTypes
  BY <1>1 DEF BatchInit, BatchTypes, Unsent, BatchFate
<1>3. ServerInv
  <2>1. \A c \in BatchCall : bApplied[c] = 0 /\ bLate[c] = 0 /\ c \notin bOpen /\ bVerdict[c] # "ok"
    BY OutcomeAssumption DEF BatchInit, CallStatus
  <2>2. Group \subseteq BatchCall
    BY DEF Group, InGroup
  <2>3. BatchAtMostOnce
    BY <2>1 DEF BatchAtMostOnce
  <2>4. \A c \in BatchCall : Untouched(c)
    BY <2>1 DEF Untouched
  <2>5. bOpen = {}
    BY DEF BatchInit
  <2> QED
    BY <1>1, <2>1, <2>2, <2>3, <2>4, <2>5 DEF ServerInv
<1> QED
  BY <1>2, <1>3 DEF BatchInv, BatchInit, GateInv, BatchConfirmed, FateInv, Unsent

LEMMA BatchStep == BatchInv /\ [BatchNext]_batchVars => BatchInv'
  BY BatchTypesStep, GateStep, ServerStep, FateStep DEF BatchInv

LEMMA BatchHolds == BatchInv => BatchCorrect
<1> SUFFICES ASSUME BatchInv PROVE BatchCorrect
  OBVIOUS
<1>1. bStep # "over" => BatchTruthful /\ BatchExitHonest
  <2> SUFFICES ASSUME bStep # "over" PROVE BatchTruthful
    BY DEF BatchExitHonest
  <2>1. \A c \in BatchCall : bFate[c] \in {"pending", "printed", "withheld"}
    BY GroupIs DEF BatchInv, BatchTypes, FateInv, Unsent, Current, BatchCall
  <2>2. \A c \in BatchCall : bFate[c] = "withheld" => bVerdict[c] # NoValue
    BY DEF BatchInv, BatchTypes, FateInv, PartsRight, Unsent
  <2> QED
    BY <2>1, <2>2 DEF BatchInv, FateInv, BatchTruthful, PrintedRight
<1> QED
  BY <1>1 DEF BatchInv, GateInv, ServerInv, FateInv, BatchCorrect

-----------------------------------------------------------------------------
\* script +pull and +push.

\* Nothing of a pull is lost on a disk that ignores case, nor passed over by a push.
Representable == ~UnsafeName /\ ~ClaimsClash

ScriptInv ==
  /\ cStep = "off" => cDisk = {}
  /\ cStep = "plan" => cDisk = cBefore
  /\ cStep \in {"off", "plan", "write"} => ~cMirror
  /\ cStep = "write" => Representable /\ cPlanned \subseteq cFetched /\ cFetched \ cPlanned \subseteq cDisk
  /\ cMirror => cDisk = cFetched /\ ~UnsafeName
  /\ cStep = "push" => cPushed = {e \in cDisk : ~SkipName(e.name)}

LEMMA ScriptStep == ScriptInv /\ [ScriptNext]_scriptVars => ScriptInv'
<1> SUFFICES ASSUME ScriptInv, [ScriptNext]_scriptVars PROVE ScriptInv'
  OBVIOUS
<1> USE DEF ScriptInv, ScriptEnds
<1>1. ASSUME NEW folds, NEW project, NEW disk, ScriptBegin(folds, project, disk) PROVE ScriptInv'
  BY <1>1 DEF ScriptBegin, UnsafeName
<1>2. CASE UserEdits
  BY <1>2 DEF UserEdits
<1>3. ASSUME NEW overwrite, Pull(overwrite) PROVE ScriptInv'
  BY <1>3 DEF Pull
<1>4. CASE PlanPull
  <2>1. /\ cStep = "plan" /\ cDisk' = cDisk /\ cFetched' = cFetched /\ cMirror' = cMirror
    BY <1>4 DEF PlanPull
  <2>2. CASE cStep' = "ready"
    BY <2>1, <2>2
  <2>3. CASE cStep' = "write"
    BY <1>4, <2>1, <2>3 DEF PlanPull, Representable, UnsafeName, ClaimsClash
  <2> QED
    BY <1>4, <2>2, <2>3 DEF PlanPull
<1>5. ASSUME NEW f, WriteFile(f) PROVE ScriptInv'
  <2>1. /\ cStep = "write" /\ cStep' = cStep /\ cFetched' = cFetched /\ cMirror' = cMirror
        /\ f \in cFetched /\ cPlanned' = cPlanned \ {f}
        /\ cDisk' = {e \in cDisk : ~SameFile(e.name, f.name)} \cup {f}
    BY <1>5 DEF WriteFile
  <2>2. \A g \in cFetched : g # f => ~SameFile(g.name, f.name)
    BY <2>1 DEF Representable, ClaimsClash, SameFile, CaseKey
  <2>3. cFetched \ cPlanned' \subseteq cDisk'
    BY <2>1, <2>2
  <2> QED
    BY <2>1, <2>3 DEF Representable, UnsafeName, ClaimsClash
<1>6. CASE WriteFails
  BY <1>6 DEF WriteFails
<1>7. CASE PullDone
  <2>1. cFetched \subseteq cDisk /\ ~UnsafeName /\ cMirror' = (cDisk \subseteq cFetched)
    BY <1>7 DEF PullDone, Representable
  <2>2. cDisk' = cDisk /\ cFetched' = cFetched /\ cStep' = "ready"
    BY <1>7 DEF PullDone
  <2> QED
    BY <2>1, <2>2 DEF UnsafeName
<1>8. CASE Collect
  BY <1>8 DEF Collect, UnsafeName
<1>9. CASE Push
  BY <1>9 DEF Push, UnsafeName
<1>10. CASE UNCHANGED scriptVars
  BY <1>10 DEF scriptVars, Representable, UnsafeName, ClaimsClash
<1> QED
  BY <1>1, <1>2, <1>3, <1>4, <1>5, <1>6, <1>7, <1>8, <1>9, <1>10 DEF ScriptNext

\* What a step of the commands on a script's files may never do (helpers/script.rs).
LEMMA ScriptSteps ==
  ASSUME ScriptInv, ScriptNext
  PROVE  /\ cStep = "push" /\ cMirror => cProject' \in {cProject, cFetched}
         /\ cStep = "plan" /\ cStep' = "ready" => cDisk' = cBefore
         /\ cProject' # cProject => \A e \in cDisk : SkipName(e.name) \/ e.name \in NamesOf(cProject')
<1> USE DEF ScriptInv, ScriptEnds
<1>1. CASE Push
  <2>1. cStep = "push" /\ cStep' # "plan" /\ cProject' \in {cProject, cPushed}
    BY <1>1 DEF Push
  <2>2. cMirror => cPushed = cFetched
    BY <2>1 DEF UnsafeName
  <2>3. \A e \in cDisk : SkipName(e.name) \/ e.name \in NamesOf(cPushed)
    BY <2>1 DEF NamesOf
  <2> QED
    BY <2>1, <2>2, <2>3
<1>2. ASSUME NEW folds, NEW project, NEW disk, ScriptBegin(folds, project, disk)
      PROVE  cStep = "off" /\ cDisk = {}
  BY <1>2 DEF ScriptBegin
<1>3. CASE PlanPull
  BY <1>3 DEF PlanPull
<1>4. ASSUME UserEdits \/ (\E overwrite \in BOOLEAN : Pull(overwrite)) \/ (\E f \in ScriptFile : WriteFile(f))
             \/ WriteFails \/ PullDone \/ Collect
      PROVE  cProject' = cProject /\ cStep # "plan" /\ cStep # "push"
  BY <1>4 DEF UserEdits, Pull, WriteFile, WriteFails, PullDone, Collect
<1> QED
  BY <1>1, <1>2, <1>3, <1>4 DEF ScriptNext

-----------------------------------------------------------------------------
\* One generated API command.

\* What the command is asked for contradicts nothing.
SoundShape == mShape \in Shape /\ UsefulShape(mShape) /\ ~Contradiction(mShape)

MethodTypes ==
  /\ mStep \in {"off", "gate", "credentials", "request", "wait", "screen", "output", "over"}
  /\ mToken \in Token \cup {0} /\ mSeen \subseteq Token /\ mNext \in Token \cup {0} /\ mPages \in Nat
  /\ mPrinted \in Seq(Token \cup {0})
  /\ mStep \notin {"off", "over"} => SoundShape
  /\ mStep # "over" => mEnd = NoValue

\* The gate is asked what it may be asked, and has answered before the credentials.
Gated ==
  /\ mStep \in {"gate", "credentials"} => mGate \in [impacts : SUBSET Impact, flag : BOOLEAN,
                                                    inv : Invocation, confirmed : BOOLEAN]
  /\ mStep = "gate" => (mGate.impacts # {} => mGate.flag)
  /\ MethodConfirmed

\* A page is printed under a token that was seen, and the token at hand is a new one.
TokensOnce ==
  /\ mToken \in mSeen \cup {0}
  /\ \A i \in 1..Len(mPrinted) : mPrinted[i] \in mSeen \cup {0}
  /\ mStep # "over" => \A i \in 1..Len(mPrinted) : mPrinted[i] # mToken
  /\ mPages = 0 => mPrinted = <<>>
  /\ mStep \in {"off", "gate", "credentials"} => mPages = 0 /\ mPrinted = <<>> /\ mValue = NoValue
                                                   /\ ~mKnown
  /\ mStep = "request" /\ mPages = 0 => mValue = NoValue
  /\ PagesOnce

\* What is at hand when an answer has been screened or waited for.
AtHand ==
  /\ mStep = "output" /\ mShape.screen # "off" => mScreened
  /\ mStep \in {"request", "wait", "screen", "output"} /\ mShape.pageAll =>
       mStep # "wait" /\ mValue # "response"
  /\ mStep = "request" /\ ~mShape.pageAll => ~mKnown /\ mValue \notin Result
  /\ mStep \in {"wait", "screen", "output"} => mKnown = mShape.writes /\ mPages # 0

MethodInv ==
  /\ MethodTypes /\ Gated /\ TokensOnce /\ AtHand
  /\ ListComplete /\ OnlyScreened /\ WriteIsSaid

LEMMA MethodBegins == MethodInit => MethodInv
  BY OutcomeAssumption, MethodAssumption
     DEF MethodInit, MethodInv, MethodTypes, Gated, TokensOnce, AtHand, ListComplete, OnlyScreened,
         WriteIsSaid, MethodConfirmed, PagesOnce, Ending, ExitCode

\* The gate has a word for every class it could refuse.
LEMMA GatedHasFlag ==
  ASSUME NEW class \in MethodClass, NEW ask \in Ask, MethodImpact(class, ask) # {}
  PROVE  MayBeGated(class)
  BY DEF MethodClass, MethodImpact, MayBeGated, InOutboundTable

LEMMA MethodStarts ==
  ASSUME MethodInv, NEW s \in Shape, UsefulShape(s), NEW class \in MethodClass, NEW ask \in Ask,
         NEW inv \in Invocation, MethodStart(s, class, ask, inv)
  PROVE  MethodInv'
<1> USE MethodAssumption, OutcomeAssumption DEF MethodInv, MethodTypes, Ending, ExitCode
<1>1. /\ mStep = "off" /\ mShape' = s /\ mToken' = s.start /\ mSeen' = {s.start} \ {0}
      /\ mPages' = mPages /\ mNext' = mNext /\ mPrinted' = mPrinted /\ mLeaked' = mLeaked
      /\ mValue' = mValue /\ mScreened' = mScreened /\ mKnown' = mKnown /\ mTold' = mTold
      /\ mGate' = [impacts |-> MethodImpact(class, ask), flag |-> MayBeGated(class),
                   inv |-> inv, confirmed |-> FALSE]
  BY DEF MethodStart, SeenAtStart, mPageVars, mValueVars, mServerVars, mOutVars
<1>2. /\ mStep' \in {"gate", "over"} /\ (mStep' = "gate" => mEnd' = NoValue /\ ~Contradiction(s))
      /\ mEnd' \in {NoValue, "ok", "validation"}
  BY <1>1 DEF MethodStart, End
<1>3. s.start \in Token \cup {0} /\ mPrinted = <<>> /\ ~mKnown
  BY <1>1 DEF Shape, Token, TokensOnce
<1>4. MethodTypes'
  BY <1>1, <1>2, <1>3 DEF SoundShape
<1>5. Gated'
  <2>1. MethodImpact(class, ask) \subseteq Impact /\ MayBeGated(class) \in BOOLEAN
    BY DEF MethodImpact, MayBeGated, Impact, InOutboundTable
  <2>2. mGate' \in [impacts : SUBSET Impact, flag : BOOLEAN, inv : Invocation, confirmed : BOOLEAN]
    BY <1>1, <2>1
  <2> QED
    BY <1>1, <1>2, <2>2, GatedHasFlag DEF Gated, MethodConfirmed
<1>6. TokensOnce'
  BY <1>1, <1>2, <1>3 DEF TokensOnce, PagesOnce
<1> QED
  BY <1>1, <1>2, <1>3, <1>4, <1>5, <1>6 DEF AtHand, ListComplete, OnlyScreened, WriteIsSaid

\* The steps before the request, and a request that fails.
LEMMA MethodAsks ==
  ASSUME MethodInv,
         \/ MethodGate \/ MethodCredentials
         \/ \E ending \in {"network", "retryable", "api", "other"}, done \in BOOLEAN :
              MethodFails(ending, done)
  PROVE  MethodInv'
<1> USE MethodAssumption, OutcomeAssumption DEF MethodInv, MethodTypes, Ending, ExitCode, End
<1>1. CASE MethodGate
  <2>1. /\ mStep = "gate" /\ mShape' = mShape /\ mToken' = mToken /\ mSeen' = mSeen /\ mPages' = mPages
        /\ mNext' = mNext /\ mPrinted' = mPrinted /\ mLeaked' = mLeaked /\ mValue' = mValue
        /\ mScreened' = mScreened /\ mKnown' = mKnown /\ mTold' = mTold
    BY <1>1 DEF MethodGate, mPageVars, mValueVars, mServerVars, mOutVars
  <2>2. ASSUME "refuse" \notin Verdicts, mStep' = "credentials", mEnd' = mEnd,
               mGate' = [mGate EXCEPT !.confirmed = "prompt" \in Verdicts]
        PROVE  MethodInv'
    <3>1. /\ mGate' \in [impacts : SUBSET Impact, flag : BOOLEAN, inv : Invocation, confirmed : BOOLEAN]
          /\ mGate'.impacts = mGate.impacts /\ mGate'.inv = mGate.inv
          /\ mGate'.confirmed = ("prompt" \in Verdicts)
      <4> DEFINE yes == "prompt" \in Verdicts
      <4>1. /\ mGate \in [impacts : SUBSET Impact, flag : BOOLEAN, inv : Invocation, confirmed : BOOLEAN]
            /\ yes \in BOOLEAN /\ mGate' = [mGate EXCEPT !.confirmed = yes]
        BY <2>1, <2>2 DEF Gated
      <4> HIDE DEF yes, MethodInv, MethodTypes
      <4>2. /\ mGate' \in [impacts : SUBSET Impact, flag : BOOLEAN, inv : Invocation, confirmed : BOOLEAN]
            /\ mGate'.impacts = mGate.impacts /\ mGate'.inv = mGate.inv /\ mGate'.confirmed = yes
        BY <4>1
      <4> QED
        BY <4>2 DEF yes
    <3>2. \A impact \in mGate.impacts : Decide(impact, mGate.inv) \in {"proceed", "prompt", "refuse"}
      BY DEF Decide
    <3>3. Gated'
      BY <2>1, <2>2, <3>1, <3>2 DEF Gated, MethodConfirmed, Verdicts
    <3> QED
      BY <2>1, <2>2, <3>3 DEF SoundShape, TokensOnce, PagesOnce, AtHand, ListComplete, OnlyScreened, WriteIsSaid
  <2>3. ASSUME Verdicts \cap {"refuse", "prompt"} # {}, mStep' = "over", mEnd' = "unconfirmed",
               mGate' = mGate
        PROVE  MethodInv'
    <3>1. mGate.flag
      BY <2>1, <2>3 DEF Gated, Verdicts
    <3> QED
      BY <2>1, <2>3, <3>1 DEF Gated, MethodConfirmed, TokensOnce, PagesOnce, AtHand, ListComplete,
         OnlyScreened, WriteIsSaid
  <2> QED
    BY <1>1, <2>2, <2>3 DEF MethodGate
<1>2. CASE MethodCredentials
  <2>1. /\ mStep = "credentials" /\ mShape' = mShape /\ mToken' = mToken /\ mSeen' = mSeen
        /\ mPages' = mPages /\ mNext' = mNext /\ mPrinted' = mPrinted /\ mLeaked' = mLeaked
        /\ mValue' = mValue /\ mScreened' = mScreened /\ mKnown' = mKnown /\ mTold' = mTold
        /\ \/ mStep' = "request" /\ mEnd' = mEnd
           \/ mStep' = "over" /\ mEnd' = "auth"
    BY <1>2 DEF MethodCredentials, mPageVars, mValueVars, mServerVars, mOutVars
  <2> QED
    BY <2>1 DEF SoundShape, Gated, MethodConfirmed, TokensOnce, PagesOnce, AtHand, ListComplete,
       OnlyScreened, WriteIsSaid, Result
<1>3. ASSUME NEW ending \in {"network", "retryable", "api", "other"}, NEW done \in BOOLEAN,
             MethodFails(ending, done)
      PROVE  MethodInv'
  <2>1. /\ mStep = "request" /\ mShape' = mShape /\ mToken' = mToken /\ mSeen' = mSeen
        /\ mPages' = mPages /\ mNext' = mNext /\ mPrinted' = mPrinted /\ mLeaked' = mLeaked
        /\ mValue' = mValue /\ mScreened' = mScreened /\ mKnown' = mKnown /\ mTold' = mTold
        /\ mStep' = "over" /\ mEnd' = ending
    BY <1>3 DEF MethodFails, mPageVars, mValueVars, mOutVars
  <2> QED
    BY <2>1 DEF SoundShape, Gated, MethodConfirmed, TokensOnce, PagesOnce, AtHand, ListComplete,
       OnlyScreened, WriteIsSaid
<1> QED
  BY <1>1, <1>2, <1>3

LEMMA DeliverSound ==
  ASSUME NEW kind \in {"text", "binary", "media"}, SoundShape, ~mLeaked, Deliver(kind)
  PROVE  /\ ~mLeaked' /\ mStep' = "over" /\ mSaid' = "nothing"
         /\ mEnd' \in {"ok", "other", "network", "blocked"}
<1>1. ~(mShape.screen # "off" /\ mShape.output = "stdout")
  BY DEF SoundShape, Contradiction
<1>2. ~mLeaked'
  BY <1>1 DEF Deliver
<1> QED
  BY <1>2 DEF Deliver, Blocking, End

\* An answer that is not JSON is delivered or refused.
LEMMA MethodDelivers ==
  ASSUME MethodInv,
         \/ \E kind \in {"empty", "badJson", "text", "binary"} : MethodOtherAnswer(kind)
         \/ MethodMedia
  PROVE  MethodInv'
<1> USE OutcomeAssumption DEF MethodInv, MethodTypes, Ending, ExitCode
<1>1. /\ mStep = "request" /\ mShape' = mShape /\ mToken' = mToken /\ mSeen' = mSeen
      /\ mPages' = mPages /\ mNext' = mNext /\ mPrinted' = mPrinted
      /\ mValue' = mValue /\ mScreened' = mScreened /\ ~mLeaked /\ SoundShape
  BY DEF MethodOtherAnswer, MethodMedia, mPageVars, mValueVars, OnlyScreened
<1>2. /\ ~mLeaked' /\ mStep' = "over" /\ mEnd' \in {"ok", "other", "network", "blocked"}
      /\ mEnd' = "ok" /\ mPages > 0 /\ mShape.pageAll => mTold'
  <2>1. ASSUME NEW kind \in {"empty", "badJson", "text", "binary"}, MethodOtherAnswer(kind)
        PROVE  /\ ~mLeaked' /\ mStep' = "over" /\ mEnd' \in {"ok", "other", "network", "blocked"}
               /\ mEnd' = "ok" /\ mPages > 0 /\ mShape.pageAll => mTold'
    BY <1>1, <2>1, DeliverSound DEF MethodOtherAnswer, End
  <2>2. ASSUME MethodMedia
        PROVE  /\ ~mLeaked' /\ mStep' = "over" /\ mEnd' \in {"ok", "other", "network", "blocked"}
               /\ ~mShape.pageAll
    BY <1>1, <2>2, DeliverSound DEF MethodMedia, SoundShape, UsefulShape
  <2> QED
    BY <2>1, <2>2
<1>3. mPages = 0 => mPrinted = <<>>
  BY DEF TokensOnce
<1>4. Gated' /\ TokensOnce'
  BY <1>1, <1>2 DEF Gated, MethodConfirmed, TokensOnce, PagesOnce
<1> QED
  BY <1>1, <1>2, <1>3, <1>4 DEF AtHand, ListComplete, OnlyScreened, WriteIsSaid

LEMMA MethodAnswers ==
  ASSUME MethodInv, NEW value \in {"page", "operation"}, NEW next \in Token \cup {0},
         MethodAnswer(value, next)
  PROVE  MethodInv'
<1> USE OutcomeAssumption DEF MethodInv, MethodTypes, Ending, ExitCode
<1>1. /\ mStep = "request" /\ mShape' = mShape /\ mToken' = mToken /\ mSeen' = mSeen
      /\ mPages' = mPages + 1 /\ mNext' = next /\ mPrinted' = mPrinted /\ mLeaked' = mLeaked
      /\ mValue' = value /\ mKnown' = mShape.writes /\ mEnd' = mEnd /\ SoundShape
      /\ mStep' = IF value = "operation" /\ (mShape.wait \/ (mShape.output # "none" /\ mShape.pollable))
                  THEN "wait" ELSE "screen"
  BY DEF MethodAnswer, mOutVars
<1>2. mShape.pageAll => mStep' = "screen"
  BY <1>1 DEF SoundShape, UsefulShape, Contradiction
<1>3. Gated' /\ TokensOnce'
  BY <1>1 DEF Gated, MethodConfirmed, TokensOnce, PagesOnce
<1>4. mEnd' = NoValue
  BY <1>1
<1> QED
  BY <1>1, <1>2, <1>3, <1>4 DEF SoundShape, AtHand, ListComplete, OnlyScreened, WriteIsSaid

\* The operation is waited for and its result fetched; what is at hand is screened.
LEMMA MethodWaits ==
  ASSUME MethodInv, MethodPoll \/ MethodFetchResult \/ MethodScreen
  PROVE  MethodInv'
<1> USE OutcomeAssumption DEF MethodInv, MethodTypes, Ending, ExitCode
<1>1. /\ mStep \in {"wait", "screen"} /\ mShape' = mShape /\ mToken' = mToken /\ mSeen' = mSeen
      /\ mPages' = mPages /\ mNext' = mNext /\ mPrinted' = mPrinted /\ mKnown' = mKnown
      /\ ~mLeaked /\ SoundShape
  BY DEF MethodPoll, MethodFetchResult, MethodScreen, mPageVars, mServerVars, mOutVars, OnlyScreened
<1>2. /\ mStep' \in {"wait", "screen", "output", "over"}
      /\ mStep' # "over" => mEnd' = mEnd
      /\ mStep' = "over" => mEnd' \in {"ok", "network", "retryable", "api", "other", "blocked"}
      /\ mShape.pageAll => mStep' # "wait"
      /\ mStep' = "wait" => mValue' = mValue /\ mStep = "wait"
      /\ mStep' = "output" => mValue' = mValue /\ (mShape.screen # "off" => mScreened')
      /\ mStep' = "screen" => ~mShape.pageAll
      /\ mStep' = "over" /\ mEnd' = "ok" => ~mShape.pageAll
      /\ ~mLeaked'
      /\ mStep' = "over" /\ mEnd' # "ok" /\ mShape.writes /\ mValue' \in Result => mSaid' # "nothing"
  <2>1. CASE MethodPoll
    BY <1>1, <2>1 DEF MethodPoll, End, mOutVars, AtHand
  <2>2. CASE MethodScreen
    BY <1>1, <2>2 DEF MethodScreen, End, Applied, mOutVars
  <2>3. CASE MethodFetchResult
    <3>1. mValue' = "file" /\ mValue' \notin Result /\ ~mShape.pageAll
      BY <2>3 DEF MethodFetchResult, Result, AtHand
    <3>2. /\ ~mLeaked' /\ mStep' = "over"
          /\ mEnd' \in {"ok", "network", "retryable", "api", "other", "blocked"}
      BY <1>1, <2>3, DeliverSound DEF MethodFetchResult, End
    <3> QED
      BY <3>1, <3>2
  <2> QED
    BY <2>1, <2>2, <2>3
<1>3. Gated' /\ TokensOnce'
  BY <1>1, <1>2 DEF Gated, MethodConfirmed, TokensOnce, PagesOnce
<1>4. MethodTypes' /\ AtHand'
  BY <1>1, <1>2 DEF SoundShape, AtHand
<1>5. mKnown' => mShape.writes
  BY <1>1 DEF AtHand
<1> QED
  BY <1>1, <1>2, <1>3, <1>4, <1>5 DEF ListComplete, OnlyScreened, WriteIsSaid

\* A result or a page is put out.
LEMMA MethodPrints ==
  ASSUME MethodInv, MethodOutput \/ MethodPage
  PROVE  MethodInv'
<1> USE MethodAssumption, OutcomeAssumption DEF MethodInv, MethodTypes, Ending, ExitCode, End
<1>1. /\ mStep = "output" /\ mShape' = mShape /\ mPages' = mPages /\ mNext' = mNext
      /\ mKnown' = mKnown /\ mValue' = mValue /\ mScreened' = mScreened /\ SoundShape
      /\ ~mLeaked /\ (mShape.screen # "off" => mScreened) /\ mEnd = NoValue /\ mPages # 0
  BY DEF MethodOutput, MethodPage, mPageVars, mValueVars, mServerVars, OnlyScreened, AtHand
<1>2. ~mLeaked'
  BY <1>1 DEF MethodOutput, MethodPage, PrintResult
<1>3. \/ mPrinted' = mPrinted
      \/ mPrinted' = Append(mPrinted, mToken)
  BY DEF MethodOutput, MethodPage, PrintResult
<1>4. /\ mPrinted' \in Seq(Token \cup {0})
      /\ \A i \in 1..Len(mPrinted') : mPrinted'[i] \in mSeen \cup {0}
      /\ PagesOnce'
  <2>1. CASE mPrinted' = mPrinted
    BY <2>1 DEF TokensOnce, PagesOnce
  <2>2. CASE mPrinted' = Append(mPrinted, mToken)
    <3>1. Len(mPrinted') = Len(mPrinted) + 1 /\ mPrinted'[Len(mPrinted) + 1] = mToken
      BY <2>2
    <3>2. \A i \in 1..Len(mPrinted) : mPrinted'[i] = mPrinted[i] /\ mPrinted[i] # mToken
      BY <1>1, <2>2 DEF TokensOnce
    <3>3. \A i \in 1..Len(mPrinted') : i = Len(mPrinted) + 1 \/ i \in 1..Len(mPrinted)
      BY <3>1
    <3> QED
      BY <2>2, <3>1, <3>2, <3>3 DEF TokensOnce, PagesOnce
  <2> QED
    BY <1>3, <2>1, <2>2
<1>5. ASSUME MethodOutput PROVE MethodInv'
  <2>1. /\ ~mShape.pageAll /\ mStep' = "over" /\ mToken' = mToken /\ mSeen' = mSeen
        /\ mEnd' \in {"ok", "other"} /\ (mEnd' = "other" => mSaid' = Applied)
    BY <1>5 DEF MethodOutput, mPageVars
  <2>2. mKnown => mShape.writes
    BY <1>1 DEF AtHand
  <2>3. Gated'
    BY <2>1 DEF Gated, MethodConfirmed
  <2>4. TokensOnce'
    BY <1>1, <1>4, <2>1 DEF TokensOnce
  <2> QED
    BY <1>1, <1>2, <1>4, <2>1, <2>2, <2>3, <2>4 DEF AtHand, ListComplete, OnlyScreened, WriteIsSaid, Applied
<1>6. ASSUME MethodPage PROVE MethodInv'
  <2>1. mShape.pageAll /\ mValue # "response"
    BY <1>6 DEF MethodPage, AtHand
  <2>2. ASSUME mStep' = "over", mToken' = mToken, mSeen' = mSeen, mEnd' \in {"ok", "other"},
               mEnd' = "ok" /\ mNext = 0 => mPrinted' = Append(mPrinted, mToken),
               mEnd' = "ok" /\ mNext # 0 => mTold'
        PROVE  MethodInv'
    <3>1. Gated'
      BY <2>2 DEF Gated, MethodConfirmed
    <3>2. TokensOnce'
      BY <1>1, <1>4, <2>2 DEF TokensOnce
    <3>3. ListComplete'
      BY <1>1, <2>2 DEF ListComplete
    <3> QED
      BY <1>1, <1>2, <1>4, <2>1, <2>2, <3>1, <3>2, <3>3 DEF AtHand, OnlyScreened, WriteIsSaid
  <2>3. ASSUME mStep' = "request", mToken' = mNext, mSeen' = mSeen \cup {mNext}, mEnd' = mEnd,
               mNext \notin mSeen, mNext # 0
        PROVE  MethodInv'
    <3>1. Gated'
      BY <1>1, <2>3 DEF Gated, MethodConfirmed
    <3>2. TokensOnce'
      BY <1>1, <1>4, <2>3 DEF TokensOnce
    <3> QED
      BY <1>1, <1>2, <1>4, <2>1, <2>3, <3>1, <3>2
         DEF SoundShape, AtHand, ListComplete, OnlyScreened, WriteIsSaid
  <2> QED
    BY <1>6, <2>2, <2>3 DEF MethodPage, PrintResult
<1> QED
  BY <1>5, <1>6

LEMMA MethodInvStep == MethodInv /\ [MethodNext]_methodVars => MethodInv'
<1> SUFFICES ASSUME MethodInv, [MethodNext]_methodVars PROVE MethodInv'
  OBVIOUS
<1>1. CASE MethodBegin
  BY <1>1, MethodStarts DEF MethodBegin
<1>2. CASE MethodStep
  BY <1>2, MethodAsks, MethodDelivers, MethodAnswers, MethodWaits, MethodPrints DEF MethodStep
<1>3. CASE UNCHANGED methodVars
  BY <1>3 DEF methodVars, mPageVars, mValueVars, mServerVars, mOutVars, MethodInv, MethodTypes, SoundShape,
     Gated, MethodConfirmed, TokensOnce, PagesOnce, AtHand, ListComplete, OnlyScreened, WriteIsSaid
<1> QED
  BY <1>1, <1>2, <1>3 DEF MethodNext

================================================================================
