------------------------- MODULE TokenStore_proofs -------------------------
(***************************************************************************)
(* The lock on the token cache excludes and only one process refreshes,    *)
(* for any number of processes, commands and tokens, until a logout        *)
(* unlinks the lock file of a process at work.                             *)
(*                                                                         *)
(* LockInv says why: who is past try_lock holds the file it has open, and  *)
(* who is past still_at_path holds the file at the path, of which there is *)
(* one.  TypeInv says whose token a process holds, CacheInv what it knows  *)
(* of the cache between its read and its write.                            *)
(***************************************************************************)
EXTENDS TokenStore, TLAPS

Outside == {"idle", "creds", "meta", "open", "use", "save", "savemeta", "revoke", "list", "remove"}

Shape ==
  /\ pc \in [Proc -> Outside \cup {"try", "check", "held", "fetch", "write"}]
  /\ fd \in [Proc -> {0} \cup LockFile]
  /\ holder \in [LockFile -> Proc \cup {None}]
  /\ lockAt \in {0} \cup LockFile
  /\ cmd = [p \in Proc |-> cmd[p]]

Locked(p) == pc[p] \in {"check", "held", "fetch", "write"}

LockInv ==
  /\ \A p \in Proc : pc[p] = "try" \/ Locked(p) => fd[p] # 0
  /\ \A p \in Proc : Locked(p) => holder[fd[p]] = p
  /\ ~unlinked => \A p \in Proc : AtWork(p) => fd[p] = lockAt

Inv == Shape /\ LockInv /\ OneRefresh

(* Two processes at work hold the same file, so they are one.              *)
LEMMA Excluded == ASSUME Inv PROVE Exclusive
BY DEF Inv, LockInv, Exclusive, AtWork, Locked

(* A process that is not at the lock, or has left it, disturbs nobody.     *)
LEMMA Leaves ==
  ASSUME Shape, LockInv, NEW p \in Proc, NEW where \in Outside,
         Goto(p, where), UNCHANGED lockAt, unlinked => unlinked',
         Unlock(p) \/ UNCHANGED <<fd, holder>>, cmd' = [q \in Proc |-> cmd'[q]]
  PROVE  (Shape /\ LockInv)'
<1> USE DEF Shape, LockInv, Locked, AtWork, Goto, Outside
<1>1. pc' \in [Proc -> Outside \cup {"try", "check", "held", "fetch", "write"}] /\ pc'[p] = where /\ \A q \in Proc \ {p} : pc'[q] = pc[q]
  OBVIOUS
<1>2. \A q \in Proc \ {p} : fd'[q] = fd[q] /\ (Locked(q) => holder'[fd[q]] = holder[fd[q]])
  BY DEF Unlock
<1>3. Shape'
  BY <1>1 DEF Unlock
<1>4. LockInv'
  BY <1>1, <1>2, FileLockAssumption
<1> QED
  BY <1>3, <1>4

(* get_or_fetch goes on under the lock.                                    *)
LEMMA Works ==
  ASSUME Shape, LockInv, NEW p \in Proc, NEW where \in {"fetch", "write"}, AtWork(p),
         Goto(p, where), UNCHANGED <<lockAt, fd, holder, unlinked>>,
         cmd' = [q \in Proc |-> cmd'[q]]
  PROVE  (Shape /\ LockInv)'
<1> USE DEF Shape, LockInv, Locked, AtWork, Goto, Outside
<1>1. pc'[p] = where /\ \A q \in Proc \ {p} : pc'[q] = pc[q]
  OBVIOUS
<1>2. Shape'
  OBVIOUS
<1>3. LockInv'
  BY <1>1
<1> QED
  BY <1>2, <1>3

(* FileLock::acquire: a file is made only when the path names none, and    *)
(* then nobody is at work; a file is held only when nobody holds it.       *)
LEMMA Acquires ==
  ASSUME Shape, LockInv, NEW p \in Proc, Acquire(p)
  PROVE  (Shape /\ LockInv)'
<1> USE DEF Acquire, Quiet, historyVars
<1>1. CASE OpenLock(p) /\ UNCHANGED cmd
  <2>1. /\ Shape'
        /\ pc[p] = "open" /\ pc'[p] = "try" /\ fd'[p] # 0
        /\ \A q \in Proc \ {p} : pc'[q] = pc[q] /\ fd'[q] = fd[q]
        /\ lockAt # 0 => lockAt' = lockAt
    BY <1>1 DEF OpenLock, Shape, Free, Outside, LockFile
  <2>2. ~unlinked => \A q \in Proc : AtWork(q) => fd'[q] = lockAt'
    BY <2>1, <1>1 DEF LockInv, AtWork, Locked
  <2> QED
    BY <2>1, <2>2, <1>1 DEF LockInv, AtWork, Locked, OpenLock
<1>2. CASE TryLock(p) /\ UNCHANGED cmd
  <2>1. /\ Shape'
        /\ pc[p] = "try" /\ pc'[p] = "check" /\ UNCHANGED <<fd, lockAt>>
        /\ \A q \in Proc \ {p} : pc'[q] = pc[q]
        /\ fd[p] \in LockFile /\ holder[fd[p]] = None /\ holder'[fd[p]] = p
        /\ \A f \in LockFile \ {fd[p]} : holder'[f] = holder[f]
    BY <1>2 DEF TryLock, Shape, LockInv, Outside
  <2>2. \A q \in Proc \ {p} : Locked(q) => fd[q] \in LockFile /\ holder'[fd[q]] = q
    BY <2>1, FileLockAssumption DEF LockInv, Locked, Shape
  <2> QED
    BY <2>1, <2>2, <1>2 DEF LockInv, AtWork, Locked
<1>3. CASE CheckPath(p) /\ UNCHANGED cmd
  <2>1. CASE lockAt = fd[p] /\ pc' = [pc EXCEPT ![p] = "held"] /\ UNCHANGED <<fd, holder>>
    <3>1. /\ pc[p] = "check" /\ pc'[p] = "held" /\ lockAt' = lockAt
          /\ \A q \in Proc \ {p} : pc'[q] = pc[q]
      BY <1>3, <2>1 DEF CheckPath, Shape
    <3>2. Shape'
      BY <1>3, <2>1 DEF CheckPath, Shape, Outside
    <3> QED
      BY <3>1, <3>2, <1>3, <2>1 DEF LockInv, AtWork, Locked
  <2>2. CASE pc' = [pc EXCEPT ![p] = "open"] /\ Unlock(p)
    <3>1. Goto(p, "open") /\ UNCHANGED lockAt /\ "open" \in Outside
      BY <1>3, <2>2 DEF CheckPath, Goto, Outside
    <3> QED
      BY <3>1, <1>3, <2>2, Leaves DEF Shape
  <2> QED
    BY <1>3, <2>1, <2>2 DEF CheckPath
<1>4. CASE End(p)
  <2>1. Goto(p, "idle") /\ UNCHANGED lockAt /\ "idle" \in Outside /\ Unlock(p)
    BY <1>4 DEF End, Outside
  <2>2. cmd' = [q \in Proc |-> cmd'[q]]
    BY <1>4 DEF End, Become, Shape
  <2> QED
    BY <2>1, <2>2, Leaves
<1> QED
  BY <1>1, <1>2, <1>3, <1>4

(* Removing the lock file says so when a process is at work on it.         *)
LEMMA Removes ==
  ASSUME Shape, LockInv, NEW p \in Proc, Remove(p)
  PROVE  (Shape /\ LockInv)'
<1>1. CASE End(p) /\ UNCHANGED <<diskVars, unlinked>>
  <2>1. Goto(p, "idle") /\ UNCHANGED lockAt /\ "idle" \in Outside /\ Unlock(p)
    BY <1>1 DEF End, Outside
  <2>2. cmd' = [q \in Proc |-> cmd'[q]]
    BY <1>1 DEF End, Become, Shape
  <2> QED
    BY <1>1, <2>1, <2>2, Leaves
<1>2. CASE \E i \in cmd[p].files :
             /\ Become(p, [cmd[p] EXCEPT !.files = @ \ {i}])
             /\ lockAt' = IF File[i] = "lock" THEN 0 ELSE lockAt
             /\ unlinked' = \/ unlinked
                            \/ File[i] = "lock" /\ \E q \in Proc : AtWork(q) /\ fd[q] = lockAt
             /\ UNCHANGED <<pc, fd, holder>>
  <2>1. Shape'
    BY <1>2 DEF Shape, Become
  <2>2. LockInv'
    BY <1>2 DEF LockInv, Locked, AtWork
  <2> QED
    BY <2>1, <2>2
<1> QED
  BY <1>1, <1>2 DEF Remove

(* Every step keeps the lock sound.                                        *)
LEMMA LockStep ==
  ASSUME Shape, LockInv, [Next]_vars
  PROVE  (Shape /\ LockInv)'
<1> USE DEF diskVars, googleVars, historyVars, Quiet
<1>1. CASE UNCHANGED vars
  BY <1>1 DEF vars, lockVars, Shape, LockInv, Locked, AtWork
<1>2. CASE Expire
  BY <1>2 DEF Expire, lockVars, Shape, LockInv, Locked, AtWork
<1>3. ASSUME NEW p \in Proc, Begin(p) \/ Step(p) \/ Killed(p) PROVE (Shape /\ LockInv)'
  <2> DEFINE Out(where) ==
        /\ Goto(p, where) /\ where \in Outside /\ UNCHANGED <<lockAt, unlinked>>
        /\ Unlock(p) \/ UNCHANGED <<fd, holder>>
        /\ cmd' = [q \in Proc |-> cmd'[q]]
  <2>1. ASSUME NEW where, Out(where) PROVE (Shape /\ LockInv)'
    BY <2>1, Leaves
  <2> HIDE DEF Out
  <2>2. ASSUME NEW local, Become(p, local) PROVE cmd' = [q \in Proc |-> cmd'[q]]
    BY <2>2 DEF Become, Shape
  <2>3. ASSUME End(p), unlinked' = unlinked PROVE (Shape /\ LockInv)'
    BY <2>1, <2>2, <2>3 DEF Out, End, Outside
  <2>4. ASSUME cmd' = cmd PROVE cmd' = [q \in Proc |-> cmd'[q]]
    BY <2>4 DEF Shape
  <2>5. CASE Begin(p)
    <3>1. \E where \in {"creds", "save", "revoke"} : \E local : Goto(p, where) /\ Become(p, local)
      BY <2>5 DEF Begin
    <3> QED
      BY <3>1, <2>1, <2>2, <2>5 DEF Out, Begin, Outside
  <2>6. CASE LoadCreds(p)
    BY <2>6, <2>1, <2>2, <2>3 DEF Out, LoadCreds, Outside
  <2>7. CASE LoadMeta(p)
    BY <2>7, <2>1, <2>2 DEF Out, LoadMeta, Outside
  <2>8. CASE Acquire(p)
    BY <2>8, Acquires
  <2>9. CASE ReadCache(p)
    BY <2>9, <2>1, <2>2, Works DEF Out, ReadCache, Outside, AtWork
  <2>10. CASE Fetch(p)
    BY <2>10, <2>2, Works DEF Fetch, Granting, AtWork
  <2>11. CASE FetchUncached(p)
    BY <2>11, <2>1, <2>2, Works DEF Out, FetchUncached, Granting, Outside, AtWork
  <2>12. CASE FetchFails(p) \/ WriteFails(p) \/ Killed(p)
    BY <2>12, <2>3 DEF FetchFails, WriteFails, Killed
  <2>13. CASE WriteCache(p)
    BY <2>13, <2>1, <2>2 DEF Out, WriteCache, Outside
  <2>14. CASE Use(p)
    BY <2>14, <2>1, <2>2, <2>3 DEF Out, Use, Outside
  <2>15. CASE SaveCreds(p)
    BY <2>15, <2>1, <2>4 DEF Out, SaveCreds, Outside
  <2>16. CASE SaveMeta(p)
    BY <2>16, <2>1, <2>2, <2>3 DEF Out, SaveMeta, Outside
  <2>17. CASE Clear(p)
    BY <2>17, <2>1, <2>2, <2>4 DEF Out, Clear, Outside
  <2>18. CASE Revoke(p)
    BY <2>18, <2>1, <2>2 DEF Out, Revoke, Outside
  <2>19. CASE List(p)
    BY <2>19, <2>1, <2>2 DEF Out, List, Outside
  <2>20. CASE Remove(p)
    BY <2>20, Removes
  <2>21. CASE RemoveDir(p)
    BY <2>21, <2>3 DEF RemoveDir
  <2> QED
    BY <1>3, <2>5, <2>6, <2>7, <2>8, <2>9, <2>10, <2>11, <2>12, <2>13, <2>14, <2>15, <2>16,
       <2>17, <2>18, <2>19, <2>20, <2>21 DEF Step
<1> QED
  BY <1>1, <1>2, <1>3 DEF Next

(* Nobody comes to fetch while its token is cached: who is at work adds    *)
(* entries alone, and looks before it fetches.                             *)
LEMMA RefreshKept ==
  ASSUME Inv, NEW p \in Proc,
         \A q \in Proc \ {p} : pc'[q] = pc[q] /\ cmd'[q] = cmd[q],
         unlinked => unlinked', stale \subseteq stale',
         Entries' \subseteq Entries \/ AtWork(p),
         pc'[p] = "fetch" => Hits(p)' = {}
  PROVE  OneRefresh'
<1> SUFFICES ASSUME ~unlinked', NEW q \in Proc, pc'[q] = "fetch"
             PROVE  Hits(q)' = {}
  BY DEF OneRefresh
<1>1. CASE q = p
  BY <1>1
<1>2. CASE q # p
  <2>1. ~unlinked /\ pc[q] = "fetch" /\ cmd'[q] = cmd[q] /\ Hits(q) = {}
    BY <1>2 DEF Inv, OneRefresh
  <2>2. ~AtWork(p)
    BY <2>1, <1>2, Excluded DEF Exclusive, AtWork
  <2> QED
    BY <2>1, <2>2 DEF Hits, SameKey
<1> QED
  BY <1>1, <1>2

LEMMA RefreshStep ==
  ASSUME Inv, [Next]_vars
  PROVE  OneRefresh'
<1> USE DEF diskVars, googleVars, historyVars, Quiet
<1>1. CASE UNCHANGED vars
  BY <1>1 DEF vars, lockVars, Inv, OneRefresh, Hits, Entries, SameKey
<1>2. CASE Expire
  BY <1>2 DEF Expire, lockVars, Inv, OneRefresh, Hits, Entries, SameKey
<1>3. ASSUME NEW p \in Proc, Begin(p) \/ Step(p) \/ Killed(p) PROVE OneRefresh'
  <2> DEFINE Apart(where) ==
        /\ pc' = [pc EXCEPT ![p] = where] /\ where # "fetch"
        /\ cmd' = [cmd EXCEPT ![p] = cmd'[p]]
        /\ unlinked => unlinked'
        /\ UNCHANGED stale
        /\ Entries' \subseteq Entries \/ AtWork(p)
  <2>1. ASSUME NEW where, Apart(where) PROVE OneRefresh'
    BY <2>1, RefreshKept DEF Inv, Shape
  <2> HIDE DEF Apart
  <2>2. ASSUME NEW local, Become(p, local) PROVE cmd' = [cmd EXCEPT ![p] = cmd'[p]]
    BY <2>2 DEF Become, Inv, Shape
  <2>3. ASSUME End(p), UNCHANGED <<stale, cache>>, unlinked => unlinked' PROVE OneRefresh'
    BY <2>1, <2>2, <2>3 DEF Apart, End, Goto, Entries
  <2>4. ASSUME cmd' = cmd PROVE cmd' = [cmd EXCEPT ![p] = cmd'[p]]
    BY <2>4 DEF Inv, Shape
  <2>5. ASSUME UNCHANGED cache PROVE Entries' = Entries
    BY <2>5 DEF Entries
  <2>6. CASE Begin(p)
    <3>1. \E where \in {"creds", "save", "revoke"} : \E local : Goto(p, where) /\ Become(p, local)
      BY <2>6 DEF Begin
    <3> QED
      BY <3>1, <2>1, <2>2, <2>5, <2>6 DEF Apart, Begin, Goto
  <2>7. CASE LoadCreds(p)
    BY <2>7, <2>1, <2>2, <2>3, <2>5 DEF Apart, LoadCreds, Goto
  <2>8. CASE LoadMeta(p)
    BY <2>8, <2>1, <2>2, <2>5 DEF Apart, LoadMeta, Goto
  <2>9. CASE Acquire(p)
    BY <2>9, <2>1, <2>3, <2>4, <2>5 DEF Apart, Acquire, OpenLock, TryLock, CheckPath
  <2>10. CASE ReadCache(p)
    <3>1. Entries' = Entries /\ UNCHANGED <<stale, unlinked>>
      BY <2>10 DEF ReadCache, Entries
    <3>2. CASE \E t \in Hits(p) : Become(p, [cmd[p] EXCEPT !.token = t]) /\ Goto(p, "use")
      BY <3>1, <3>2, <2>1, <2>2 DEF Apart, Goto
    <3>3. CASE Hits(p) = {} /\ Become(p, [cmd[p] EXCEPT !.seen = Entries]) /\ Goto(p, "fetch")
      <4>1. \A q \in Proc \ {p} : pc'[q] = pc[q] /\ cmd'[q] = cmd[q]
        BY <3>3 DEF Become, Goto, Inv, Shape
      <4>2. cmd'[p] = [cmd[p] EXCEPT !.seen = Entries]
        BY <3>3 DEF Become, Inv, Shape
      <4>3. Hits(p)' = {}
        BY <3>1, <3>3, <4>2 DEF Hits, SameKey
      <4> QED
        BY <3>1, <4>1, <4>3, RefreshKept
    <3> QED
      BY <2>10, <3>2, <3>3 DEF ReadCache
  <2>11. CASE Fetch(p)
    BY <2>11, <2>1, <2>2, <2>5 DEF Apart, Fetch, Granting, Goto
  <2>12. CASE FetchUncached(p)
    BY <2>12, <2>1, <2>2, <2>5 DEF Apart, FetchUncached, Granting, Goto
  <2>13. CASE FetchFails(p) \/ WriteFails(p) \/ Killed(p)
    BY <2>13, <2>3 DEF FetchFails, WriteFails, Killed
  <2>14. CASE WriteCache(p)
    BY <2>14, <2>1, <2>2 DEF Apart, WriteCache, Goto, AtWork
  <2>15. CASE Use(p)
    BY <2>15, <2>1, <2>2, <2>3, <2>5 DEF Apart, Use, Goto
  <2>16. CASE SaveCreds(p)
    BY <2>16, <2>1, <2>4, <2>5 DEF Apart, SaveCreds, Goto
  <2>17. CASE SaveMeta(p)
    BY <2>17, <2>1, <2>2, <2>3, <2>5 DEF Apart, SaveMeta, Goto
  <2>18. CASE Clear(p)
    BY <2>18, <2>1, <2>2, <2>4 DEF Apart, Clear, Goto, AtWork
  <2>19. CASE Revoke(p)
    BY <2>19, <2>1, <2>2, <2>5 DEF Apart, Revoke, Goto
  <2>20. CASE List(p)
    BY <2>20, <2>1, <2>2, <2>5 DEF Apart, List, Goto
  <2>21. CASE Remove(p)
    <3>1. CASE End(p) /\ UNCHANGED <<diskVars, unlinked>>
      BY <3>1, <2>21, <2>3 DEF Remove
    <3>2. CASE \E i \in cmd[p].files :
                 /\ Become(p, [cmd[p] EXCEPT !.files = @ \ {i}])
                 /\ cache' = IF File[i] = "cache" THEN None ELSE cache
                 /\ unlinked' = \/ unlinked
                                \/ File[i] = "lock" /\ \E q \in Proc : AtWork(q) /\ fd[q] = lockAt
                 /\ UNCHANGED pc
      <4>1. pc' = [pc EXCEPT ![p] = "remove"] /\ UNCHANGED stale
        BY <3>2, <2>21 DEF Remove, Inv, Shape
      <4>2. Entries' \subseteq Entries
        BY <3>2 DEF Entries
      <4> QED
        BY <3>2, <4>1, <4>2, <2>1, <2>2 DEF Apart
    <3> QED
      BY <2>21, <3>1, <3>2 DEF Remove
  <2>22. CASE RemoveDir(p)
    BY <2>22, <2>3 DEF RemoveDir
  <2> QED
    BY <1>3, <2>6, <2>7, <2>8, <2>9, <2>10, <2>11, <2>12, <2>13, <2>14, <2>15, <2>16,
       <2>17, <2>18, <2>19, <2>20, <2>21, <2>22 DEF Step
<1> QED
  BY <1>1, <1>2, <1>3 DEF Next

LEMMA InvHolds == Spec => []Inv
<1>1. Init => Inv
  BY FileLockAssumption
     DEF Init, LockInit, Inv, Shape, Outside, LockInv, Locked, AtWork, OneRefresh
<1>2. Inv /\ [Next]_vars => Inv'
  BY LockStep, RefreshStep DEF Inv
<1> QED
  BY <1>1, <1>2, PTL DEF Spec

(* The sequence read, refresh, write of one process excludes the others',  *)
(* also when lock files are removed and made anew (token_cache.rs:17).     *)
THEOREM LockExcludes == Spec => []Exclusive
BY InvHolds, Excluded, PTL

(* While a fresh token is cached nobody refreshes it (token_cache.rs:18).  *)
THEOREM RefreshedOnce == Spec => []OneRefresh
<1>1. Inv => OneRefresh
  BY DEF Inv
<1> QED
  BY <1>1, InvHolds, PTL

-----------------------------------------------------------------------------
(* Types, and whose token a command holds.                                 *)
Local == [op : {None, "token", "login", "logout"}, scope : Scope \cup {None},
          grant : Grant \cup {None}, down : Scope \cup {All, None}, force : BOOLEAN,
          seen : SUBSET Token, token : Token \cup {None}, files : SUBSET DOMAIN File]

Minted == {t \in Token : t.id <= minted}

(* What a process knows at each place: a login its grant, a token command  *)
(* from "meta" on its grant, from "open" on the scopes it asks for, and    *)
(* from "write" on a token of both.                                        *)
Good(p) ==
  /\ pc[p] \in {"save", "savemeta"} => cmd[p].grant \in Grant
  /\ pc[p] \in {"creds", "meta", "fetch", "write", "use"} => cmd[p].op = "token"
  /\ cmd[p].op = "token" =>
       /\ cmd[p].scope \in Scope
       /\ pc[p] # "creds" => cmd[p].grant \in Grant
       /\ pc[p] \notin {"creds", "meta"} => cmd[p].down \in {cmd[p].scope, All}
  /\ pc[p] \in {"write", "use"} =>
       /\ cmd[p].token \in Minted
       /\ cmd[p].token.grant = cmd[p].grant /\ cmd[p].token.down = cmd[p].down
  /\ cmd[p].seen \subseteq Minted

DiskType ==
  /\ dir \in BOOLEAN /\ creds \in Grant \cup {None} /\ meta \in Grant \cup {None}
  /\ Entries \subseteq Minted /\ corrupt \in BOOLEAN

RestType ==
  /\ minted \in 0..MaxMints /\ stale \subseteq 1..minted /\ rejected \subseteq 1..minted
  /\ revoked \subseteq Grant /\ used \subseteq Grant
  /\ \A op \in Op : started[op] \in 0..MaxOf[op]
  /\ started = [op \in Op |-> started[op]]
  /\ unlinked \in BOOLEAN /\ purged \subseteq 1..minted /\ left \in BOOLEAN

TypeInv ==
  /\ cmd \in [Proc -> Local] /\ DiskType /\ RestType
  /\ \A p \in Proc : Good(p)

LEMMA TypesFollow == ASSUME Shape, TypeInv PROVE TypeOK
<1>1. LockType /\ pc \in [Proc -> {"idle", "creds", "meta", "open", "try", "check", "held", "fetch", "write",
                      "use", "save", "savemeta", "revoke", "list", "remove"}]
  BY DEF Shape, Outside, LockType
<1>2. cache \in {None, Garbage} \/ cache \subseteq Token
  BY DEF TypeInv, DiskType, Entries, Minted
<1> QED
  BY <1>1, <1>2 DEF TypeInv, TypeOK, DiskType, RestType, Local

(* Only what happens to p and to the disk has to be looked at.             *)
LEMMA TypeKept ==
  ASSUME Shape, TypeInv, NEW p \in Proc, NEW local \in Local,
         Become(p, local), \A q \in Proc \ {p} : pc'[q] = pc[q],
         DiskType', RestType', minted' \in {minted, minted + 1}, Good(p)'
  PROVE  TypeInv'
<1>1. cmd' \in [Proc -> Local] /\ \A q \in Proc \ {p} : cmd'[q] = cmd[q]
  BY DEF TypeInv, Become
<1>2. Minted \subseteq Minted'
  BY DEF TypeInv, RestType, Minted, Token
<1>3. ASSUME NEW q \in Proc \ {p} PROVE Good(q)'
  BY <1>1, <1>2 DEF TypeInv, Good
<1> QED
  BY <1>1, <1>3 DEF TypeInv

LEMMA TypeStep ==
  ASSUME Shape, TypeInv, [Next]_vars
  PROVE  TypeInv'
<1> USE DEF diskVars, googleVars, historyVars, Quiet
<1>1. CASE UNCHANGED vars
  BY <1>1 DEF vars, lockVars, TypeInv, DiskType, RestType, Good, Entries, Minted
<1>2. CASE Expire
  <2>1. RestType'
    BY <1>2 DEF Expire, TypeInv, DiskType, RestType, Minted, Token
  <2> QED
    BY <2>1, <1>2 DEF Expire, lockVars, TypeInv, DiskType, Good, Entries, Minted
<1>3. ASSUME NEW p \in Proc, Begin(p) \/ Step(p) \/ Killed(p) PROVE TypeInv'
  <2> DEFINE Steady == UNCHANGED <<creds, meta, cache, corrupt, dir, minted, stale, rejected, revoked,
                                   used, started, purged>>
                       /\ unlinked' \in BOOLEAN /\ left' \in BOOLEAN
             Alone == \A q \in Proc \ {p} : pc'[q] = pc[q]
  <2>1. cmd[p] \in Local /\ Good(p) /\ Idle \in Local
    BY DEF TypeInv, Idle, Local
  <2>2. ASSUME Steady PROVE DiskType' /\ RestType' /\ Minted' = Minted /\ minted' = minted
    BY <2>2 DEF TypeInv, DiskType, RestType, Entries, Minted
  <2>3. ASSUME NEW where, Goto(p, where) PROVE Alone /\ pc'[p] = where
    BY <2>3 DEF Goto, Shape
  <2>4. ASSUME NEW local, Become(p, local) PROVE cmd'[p] = local
    BY <2>4 DEF Become, TypeInv
  <2>5. ASSUME cmd' = cmd PROVE Become(p, cmd[p])
    BY <2>5 DEF Become, TypeInv
  <2>6. ASSUME End(p), DiskType', RestType', minted' = minted PROVE TypeInv'
    <3>1. pc'[p] = "idle" /\ cmd'[p] = Idle /\ Alone
      BY <2>6, <2>3, <2>4 DEF End
    <3>2. Good(p)'
      BY <3>1, TokenStoreAssumption DEF Good, Idle, Op
    <3> QED
      BY <2>1, <2>6, <3>1, <3>2, TypeKept DEF End
  <2> HIDE DEF Steady, Alone
  <2> USE DEF Steady
  <2>7. ASSUME End(p), Steady PROVE TypeInv'
    BY <2>2, <2>6, <2>7
  <2>8. CASE Begin(p)
    <3>1. DiskType' /\ minted' = minted
      BY <2>8 DEF Begin, TypeInv, DiskType, Entries, Minted
    <3>2. RestType'
      <4>1. PICK op \in Op : Start(p, op)
        BY <2>8 DEF Begin, Op
      <4>2. \A o \in Op : started'[o] \in 0..MaxOf[o] /\ started' = [x \in Op |-> started'[x]]
        BY <4>1, TokenStoreAssumption DEF Start, TypeInv, RestType
      <4>3. used' \subseteq Grant
        BY <2>8 DEF Begin, TypeInv, RestType
      <4> QED
        BY <2>8, <4>2, <4>3 DEF Begin, TypeInv, RestType
    <3>3. ASSUME NEW where \in {"creds", "save", "revoke"}, NEW local \in Local, Goto(p, where), Become(p, local),
                 local.seen = {}, where = "save" => local.op = "login" /\ local.grant \in Grant,
                 where = "creds" => local.op = "token" /\ local.scope \in Scope,
                 where = "revoke" => local.op = "logout"
          PROVE  TypeInv'
      <4>1. Good(p)'
        BY <3>3, <2>3, <2>4 DEF Good
      <4> QED
        BY <3>1, <3>2, <3>3, <4>1, <2>3, TypeKept DEF Alone
    <3>4. CASE \E s \in Scope : Become(p, [Idle EXCEPT !.op = "token", !.scope = s]) /\ Goto(p, "creds")
      <4>1. \A s \in Scope : LET l == [Idle EXCEPT !.op = "token", !.scope = s]
                             IN  l \in Local /\ l.seen = {} /\ l.op = "token" /\ l.scope = s
        BY DEF Idle, Local
      <4> QED
        BY <3>3, <3>4, <4>1
    <3>5. CASE \E g \in Grant : Become(p, [Idle EXCEPT !.op = "login", !.grant = g]) /\ Goto(p, "save")
      <4>1. \A g \in Grant : LET l == [Idle EXCEPT !.op = "login", !.grant = g]
                             IN  l \in Local /\ l.seen = {} /\ l.op = "login" /\ l.grant = g
        BY DEF Idle, Local
      <4> QED
        BY <3>3, <3>5, <4>1
    <3>6. CASE Become(p, [Idle EXCEPT !.op = "logout", !.grant = creds]) /\ Goto(p, "revoke")
      <4>1. LET l == [Idle EXCEPT !.op = "logout", !.grant = creds]
            IN  l \in Local /\ l.seen = {} /\ l.op = "logout"
        BY DEF Idle, Local, TypeInv, DiskType
      <4> QED
        BY <3>3, <3>6, <4>1
    <3> QED
      BY <2>8, <3>4, <3>5, <3>6 DEF Begin
  <2>9. CASE LoadCreds(p)
    <3>1. CASE creds # None /\ Become(p, [cmd[p] EXCEPT !.grant = creds]) /\ Goto(p, "meta")
      <4>1. [cmd[p] EXCEPT !.grant = creds] \in Local /\ creds \in Grant
        BY <3>1, <2>1 DEF Local, TypeInv, DiskType
      <4>2. Good(p)'
        <5>1. Minted' = Minted /\ pc[p] = "creds"
          BY <2>9, <2>2 DEF LoadCreds, TypeInv, RestType
        <5>2. cmd'[p] = [cmd[p] EXCEPT !.grant = creds] /\ pc'[p] = "meta"
          BY <3>1, <2>3, <2>4
        <5> QED
          BY <5>1, <5>2, <4>1, <2>1 DEF Good, Local
      <4> QED
        BY <2>9, <3>1, <4>1, <4>2, <2>2, <2>3, TypeKept DEF LoadCreds, Alone, TypeInv, RestType
    <3> QED
      BY <2>9, <3>1, <2>7 DEF LoadCreds, TypeInv, RestType
  <2>10. CASE LoadMeta(p)
    <3> DEFINE local == [cmd[p] EXCEPT !.down = Downscope(cmd[p].scope)]
    <3>1. Steady
      BY <2>10 DEF LoadMeta, TypeInv, RestType
    <3>2. local \in Local /\ Downscope(cmd[p].scope) \in {cmd[p].scope, All}
      BY <2>1 DEF Local, Downscope
    <3>3. Good(p)'
      BY <2>10, <3>1, <3>2, <2>1, <2>2, <2>3, <2>4 DEF LoadMeta, Good, Local
    <3> QED
      BY <2>10, <3>1, <3>2, <3>3, <2>2, <2>3, TypeKept DEF LoadMeta, Alone
  <2>11. CASE Acquire(p)
    <3>1. Steady
      BY <2>11 DEF Acquire, TypeInv, RestType
    <3>2. ASSUME UNCHANGED cmd, NEW where \in {"try", "check", "held", "open"}, pc[p] \in {"open", "try", "check"},
                 pc' = [pc EXCEPT ![p] = where]
          PROVE  TypeInv'
      <4>1. Goto(p, where) /\ Become(p, cmd[p])
        BY <3>2, <2>5 DEF Goto
      <4>2. Good(p)'
        BY <3>2, <4>1, <3>1, <2>1, <2>2, <2>3, <2>4 DEF Good
      <4> QED
        BY <3>1, <4>1, <4>2, <2>1, <2>2, <2>3, TypeKept DEF Alone
    <3> QED
      BY <2>11, <3>1, <3>2, <2>7 DEF Acquire, OpenLock, TryLock, CheckPath
  <2>12. CASE ReadCache(p)
    <3>1. Entries' = Entries /\ DiskType' /\ RestType' /\ minted' = minted /\ Minted' = Minted
      BY <2>12 DEF ReadCache, TypeInv, DiskType, RestType, Entries, Minted
    <3>2. CASE \E t \in Hits(p) : Become(p, [cmd[p] EXCEPT !.token = t]) /\ Goto(p, "use")
      <4>1. PICK t \in Hits(p) : Become(p, [cmd[p] EXCEPT !.token = t]) /\ Goto(p, "use")
        BY <3>2
      <4>2. t \in Minted /\ SameKey(t, p) /\ [cmd[p] EXCEPT !.token = t] \in Local
        BY <4>1, <2>1 DEF Hits, TypeInv, DiskType, Minted, Local
      <4>3. Good(p)'
        BY <2>12, <3>1, <4>1, <4>2, <2>1, <2>3, <2>4 DEF ReadCache, Good, SameKey, Local
      <4> QED
        BY <3>1, <4>1, <4>2, <4>3, <2>3, TypeKept DEF Alone
    <3>3. CASE Become(p, [cmd[p] EXCEPT !.seen = Entries]) /\ Goto(p, "fetch")
      <4>1. [cmd[p] EXCEPT !.seen = Entries] \in Local /\ Entries \subseteq Minted
        BY <2>1 DEF TypeInv, DiskType, Minted, Local
      <4>2. Good(p)'
        BY <2>12, <3>1, <3>3, <4>1, <2>1, <2>3, <2>4 DEF ReadCache, Good, Local
      <4> QED
        BY <3>1, <3>3, <4>1, <4>2, <2>3, TypeKept DEF Alone
    <3> QED
      BY <2>12, <3>2, <3>3 DEF ReadCache
  <2>13. ASSUME Granting(p), UNCHANGED <<diskVars, stale, rejected, revoked, started, used, unlinked, left>>,
                purged' \subseteq 1..minted',
                NEW seen, seen \subseteq cmd[p].seen \cup {Refreshed(p)},
                NEW where \in {"write", "use"}, Goto(p, where),
                Become(p, [cmd[p] EXCEPT !.token = Refreshed(p), !.seen = seen])
         PROVE  TypeInv'
    <3>1. minted' = minted + 1 /\ RestType' /\ minted \in Nat
      <4>1. minted' = minted + 1 /\ minted \in Nat /\ minted' \in 0..MaxMints
        BY <2>13, TokenStoreAssumption DEF Granting, TypeInv, RestType
      <4>2. 1..minted \subseteq 1..minted'
        BY <4>1
      <4> QED
        BY <2>13, <4>1, <4>2 DEF TypeInv, RestType
    <3>2. Minted \subseteq Minted' /\ DiskType'
      BY <2>13, <3>1 DEF TypeInv, DiskType, Minted, Entries, Token
    <3>3. cmd[p].grant \in Grant /\ cmd[p].down \in Scope \cup {All} /\ cmd[p].op = "token"
      BY <2>13, <2>1 DEF Granting, Good
    <3>4. Refreshed(p) \in Minted'
      BY <2>13, <3>1, <3>3 DEF Refreshed, Minted, Token, Granting, RestType, TypeInv
    <3>5. [cmd[p] EXCEPT !.token = Refreshed(p), !.seen = seen] \in Local /\ seen \subseteq Minted'
      BY <2>13, <3>2, <3>4, <2>1 DEF Local, Good, Minted
    <3>6. Good(p)'
      <4>1. cmd'[p] = [cmd[p] EXCEPT !.token = Refreshed(p), !.seen = seen] /\ pc'[p] = where /\ pc[p] = "fetch"
        BY <2>13, <2>3, <2>4 DEF Granting
      <4>2. Refreshed(p).grant = cmd[p].grant /\ Refreshed(p).down = cmd[p].down
        BY DEF Refreshed
      <4> HIDE DEF Refreshed
      <4> QED
        BY <4>1, <4>2, <3>3, <3>4, <3>5, <2>1 DEF Good, Local
    <3> QED
      BY <2>13, <3>1, <3>2, <3>5, <3>6, <2>3, TypeKept DEF Alone
  <2>14. CASE Fetch(p)
    <3>1. PICK dropped \in SUBSET {t \in cmd[p].seen : t.id \in stale} :
               Become(p, [cmd[p] EXCEPT !.token = Refreshed(p),
                            !.seen = {t \in @ \ dropped : ~SameKey(t, p)} \cup {Refreshed(p)}])
      BY <2>14 DEF Fetch
    <3>2. {t \in cmd[p].seen \ dropped : ~SameKey(t, p)} \cup {Refreshed(p)} \subseteq cmd[p].seen \cup {Refreshed(p)}
      OBVIOUS
    <3>3. purged' \subseteq 1..minted'
      BY <2>14 DEF Fetch, Granting, TypeInv, RestType
    <3> QED
      BY <2>13, <2>14, <3>1, <3>2, <3>3 DEF Fetch
  <2>15. Replaced(p) \subseteq 1..minted
    BY DEF Replaced, TypeInv, DiskType, Minted, Token, RestType
  <2>16. CASE FetchUncached(p)
    <3> DEFINE others == {t \in cmd[p].seen : ~SameKey(t, p)}
    <3>1. purged' \subseteq 1..minted'
      BY <2>15, <2>16 DEF FetchUncached, Granting, TypeInv, RestType
    <3>2. others \subseteq cmd[p].seen \cup {Refreshed(p)} /\ {} \subseteq cmd[p].seen \cup {Refreshed(p)}
      OBVIOUS
    <3> HIDE DEF others
    <3>3. \/ Become(p, [cmd[p] EXCEPT !.token = Refreshed(p), !.seen = {}]) /\ Goto(p, "use")
          \/ Become(p, [cmd[p] EXCEPT !.token = Refreshed(p), !.seen = others]) /\ Goto(p, "write")
      BY <2>16 DEF FetchUncached, others
    <3>4. Granting(p) /\ UNCHANGED <<diskVars, stale, rejected, revoked, started, used, unlinked, left>>
      BY <2>16 DEF FetchUncached
    <3> QED
      BY <2>13, <3>1, <3>2, <3>3, <3>4
  <2>17. CASE FetchFails(p) \/ WriteFails(p) \/ Killed(p)
    BY <2>17, <2>7 DEF FetchFails, WriteFails, Killed, TypeInv, RestType
  <2>18. CASE WriteCache(p)
    <3>1. minted' = minted /\ Minted' = Minted /\ RestType'
      BY <2>15, <2>18 DEF WriteCache, TypeInv, RestType, Minted
    <3>2. DiskType'
      BY <2>18, <2>1, <3>1 DEF WriteCache, TypeInv, DiskType, Good, Entries
    <3>3. [cmd[p] EXCEPT !.seen = {}] \in Local
      BY <2>1 DEF Local
    <3>4. Good(p)'
      BY <2>18, <3>1, <3>3, <2>1, <2>3, <2>4 DEF WriteCache, Good, Local
    <3> QED
      BY <2>18, <3>1, <3>2, <3>3, <3>4, <2>3, TypeKept DEF WriteCache, Alone
  <2>19. CASE Use(p)
    <3>1. minted' = minted /\ Minted' = Minted /\ DiskType'
      BY <2>19 DEF Use, TypeInv, DiskType, Minted, Entries
    <3>2. RestType'
      BY <2>19, <2>1 DEF Use, TypeInv, RestType, Good, Minted, Token
    <3>3. CASE Become(p, [Idle EXCEPT !.op = "token", !.scope = cmd[p].scope, !.force = TRUE]) /\ Goto(p, "creds")
      <4>1. cmd[p].op = "token" /\ cmd[p].scope \in Scope
        BY <2>19, <2>1 DEF Use, Good
      <4>2. [Idle EXCEPT !.op = "token", !.scope = cmd[p].scope, !.force = TRUE] \in Local
        BY <4>1 DEF Local, Idle
      <4>3. cmd'[p].op = "token" /\ cmd'[p].scope \in Scope /\ cmd'[p].seen = {} /\ pc'[p] = "creds"
        BY <3>3, <4>1, <2>3, <2>4 DEF Idle
      <4>4. Good(p)'
        BY <4>3 DEF Good
      <4> QED
        BY <3>1, <3>2, <3>3, <4>2, <4>4, <2>3, TypeKept DEF Alone
    <3> QED
      BY <2>19, <3>1, <3>2, <3>3, <2>6 DEF Use
  <2>20. CASE SaveCreds(p)
    <3>1. minted' = minted /\ Minted' = Minted /\ DiskType' /\ RestType'
      BY <2>20, <2>1 DEF SaveCreds, TypeInv, DiskType, RestType, Minted, Entries, Good
    <3>2. Good(p)'
      BY <2>20, <3>1, <2>1, <2>3 DEF SaveCreds, Good
    <3> QED
      BY <2>20, <3>1, <3>2, <2>1, <2>3, <2>5, TypeKept DEF SaveCreds, Alone
  <2>21. CASE SaveMeta(p)
    <3>1. minted' = minted /\ Minted' = Minted /\ DiskType' /\ RestType'
      BY <2>21, <2>1 DEF SaveMeta, TypeInv, DiskType, RestType, Minted, Entries, Good
    <3>2. CASE Goto(p, "open") /\ Become(p, [Idle EXCEPT !.op = "login"])
      <4>1. [Idle EXCEPT !.op = "login"] \in Local
        BY <2>1 DEF Local
      <4>2. Good(p)'
        BY <3>2, <2>3, <2>4 DEF Good, Idle
      <4> QED
        BY <3>1, <3>2, <4>1, <4>2, <2>3, TypeKept DEF Alone
    <3> QED
      BY <2>21, <3>1, <3>2, <2>6 DEF SaveMeta
  <2>22. CASE Clear(p)
    <3>1. minted' = minted /\ Minted' = Minted /\ DiskType' /\ RestType'
      BY <2>22 DEF Clear, TypeInv, DiskType, RestType, Minted, Entries
    <3>2. CASE Goto(p, "idle") /\ Become(p, Idle)
      <4>1. Good(p)'
        BY <3>2, <2>3, <2>4, TokenStoreAssumption DEF Good, Idle, Op
      <4> QED
        BY <3>1, <3>2, <4>1, <2>1, <2>3, TypeKept DEF Alone
    <3>3. CASE cmd[p].op = "logout" /\ Goto(p, "list") /\ UNCHANGED cmd
      <4>1. Good(p)'
        BY <3>1, <3>3, <2>1, <2>3 DEF Good
      <4> QED
        BY <3>1, <3>3, <4>1, <2>1, <2>3, <2>5, TypeKept DEF Alone
    <3> QED
      BY <2>22, <3>2, <3>3 DEF Clear
  <2>23. CASE Revoke(p)
    <3>1. minted' = minted /\ DiskType' /\ RestType'
      BY <2>23 DEF Revoke, TypeInv, DiskType, RestType, Minted, Entries
    <3>2. PICK where \in {"open", "list"} : Goto(p, where)
      BY <2>23 DEF Revoke
    <3>3. [Idle EXCEPT !.op = "logout"] \in Local
      BY <2>1 DEF Local
    <3>4. Good(p)'
      BY <2>23, <3>2, <2>3, <2>4 DEF Revoke, Good, Idle
    <3> QED
      BY <2>23, <3>1, <3>2, <3>3, <3>4, <2>3, TypeKept DEF Revoke, Alone
  <2>24. CASE List(p)
    <3> DEFINE local == [cmd[p] EXCEPT !.files = {i \in DOMAIN File : Exists(File[i])}]
    <3>1. Steady
      BY <2>24 DEF List, TypeInv, RestType
    <3>2. local \in Local
      BY <2>1 DEF Local
    <3>3. pc[p] = "list" /\ pc'[p] = "remove" /\ cmd'[p] = local
      BY <2>24, <2>3, <2>4 DEF List
    <3>4. /\ local.op = cmd[p].op /\ local.scope = cmd[p].scope /\ local.grant = cmd[p].grant
          /\ local.down = cmd[p].down /\ local.seen = cmd[p].seen
      BY <2>1 DEF Local
    <3> HIDE DEF local
    <3>5. Good(p)'
      BY <3>1, <3>3, <3>4, <2>1, <2>2 DEF Good
    <3> QED
      BY <2>24, <3>1, <3>2, <3>5, <2>2, <2>3, TypeKept DEF List, Alone, local
  <2>25. CASE Remove(p)
    <3>1. minted' = minted /\ Minted' = Minted /\ DiskType' /\ RestType'
      BY <2>25 DEF Remove, TypeInv, DiskType, RestType, Minted, Entries
    <3>2. ASSUME NEW i \in cmd[p].files, Become(p, [cmd[p] EXCEPT !.files = @ \ {i}]), UNCHANGED pc
          PROVE  TypeInv'
      <4>1. [cmd[p] EXCEPT !.files = @ \ {i}] \in Local
        BY <2>1 DEF Local
      <4>2. Good(p)'
        BY <2>25, <3>1, <3>2, <4>1, <2>1, <2>4 DEF Remove, Good, Local
      <4>3. \A q \in Proc \ {p} : pc'[q] = pc[q]
        BY <3>2
      <4> QED
        BY <3>1, <3>2, <4>1, <4>2, <4>3, TypeKept
    <3> QED
      BY <2>25, <3>1, <3>2, <2>6 DEF Remove
  <2>26. CASE RemoveDir(p)
    <3>1. minted' = minted /\ DiskType' /\ RestType'
      BY <2>26 DEF RemoveDir, TypeInv, DiskType, RestType, Minted, Entries
    <3> QED
      BY <2>26, <3>1, <2>6 DEF RemoveDir
  <2> QED
    BY <1>3, <2>8, <2>9, <2>10, <2>11, <2>12, <2>14, <2>16, <2>17, <2>18, <2>19, <2>20, <2>21,
       <2>22, <2>23, <2>24, <2>25, <2>26 DEF Step
<1> QED
  BY <1>1, <1>2, <1>3 DEF Next

LEMMA TypesHold == Spec => [](Shape /\ TypeInv)
<1>1. Init => TypeInv
  <2> SUFFICES ASSUME Init PROVE TypeInv
    OBVIOUS
  <2>1. Idle \in Local /\ \A p \in Proc : cmd[p] = Idle
    BY DEF Init, Idle, Local
  <2>2. Entries = {} /\ minted = 0
    BY DEF Init, Entries
  <2>3. DiskType
    BY <2>2 DEF Init, DiskType
  <2>4. RestType
    <3>1. \A op \in Op : started[op] = 0 /\ 0 \in 0..MaxOf[op]
      BY TokenStoreAssumption DEF Init
    <3>2. started = [op \in Op |-> started[op]]
      BY DEF Init
    <3>3. minted \in 0..MaxMints
      BY TokenStoreAssumption DEF Init
    <3> QED
      BY <3>1, <3>2, <3>3 DEF Init, RestType
  <2>5. \A p \in Proc : Good(p)
    BY <2>1, TokenStoreAssumption DEF Init, Good, Idle, Op
  <2> QED
    BY <2>1, <2>3, <2>4, <2>5 DEF Init, TypeInv
<1>2. Inv /\ TypeInv /\ [Next]_vars => TypeInv'
  BY TypeStep DEF Inv
<1>3. Inv => Shape
  BY DEF Inv
<1> QED
  BY <1>1, <1>2, <1>3, InvHolds, PTL DEF Spec

(* What the files and the processes hold is of the types declared.         *)
THEOREM TypeCorrect == Spec => []TypeOK
BY TypesHold, TypesFollow, PTL

(* A command uses a token of the login whose credentials it read, for the  *)
(* scope it asked for or for all (token_cache.rs:203-208).                 *)
THEOREM NoForeignToken == Spec => []OwnToken
<1>1. TypeInv => OwnToken
  BY DEF TypeInv, Good, OwnToken
<1> QED
  BY <1>1, TypesHold, PTL

-----------------------------------------------------------------------------
(* What a process between its read and its write knows of the cache: it    *)
(* has seen every entry, and what it will write has the entries of other   *)
(* keys and no rejected one.                                               *)
UniqueIds(S) == \A t, u \in S : t.id = u.id => t = u

Ready(p) ==
  /\ UniqueIds(cmd[p].seen)
  /\ \A t \in cmd[p].seen : t.id \notin purged
  /\ pc[p] = "fetch" => Entries \subseteq cmd[p].seen
  /\ pc[p] = "write" => \A u \in Entries :
       /\ u \in cmd[p].seen \/ u.id \in stale \/ SameKey(u, p)
       /\ SameKey(u, p) => \A t \in cmd[p].seen : t.id # u.id

CacheInv ==
  ~unlinked =>
    /\ UniqueIds(Entries)
    /\ \A t \in Entries : t.id \notin purged
    /\ \A p \in Proc : pc[p] \in {"fetch", "write"} => Ready(p)

(* Only who is at work adds an entry or replaces one, and nobody else is.  *)
LEMMA ReadyKept ==
  ASSUME Inv, CacheInv, NEW p \in Proc,
         \A q \in Proc \ {p} : pc'[q] = pc[q] /\ cmd'[q] = cmd[q],
         unlinked => unlinked', stale \subseteq stale',
         (Entries' \subseteq Entries /\ purged' = purged) \/ AtWork(p),
         ~unlinked' /\ pc'[p] \in {"fetch", "write"} => Ready(p)',
         ~unlinked' => UniqueIds(Entries)' /\ \A t \in Entries' : t.id \notin purged'
  PROVE  CacheInv'
<1> SUFFICES ASSUME ~unlinked', NEW q \in Proc, pc'[q] \in {"fetch", "write"}
             PROVE  Ready(q)'
  BY DEF CacheInv
<1>1. CASE q = p
  BY <1>1
<1>2. CASE q # p
  <2>1. ~unlinked /\ pc'[q] = pc[q] /\ cmd'[q] = cmd[q] /\ Ready(q)
    BY <1>2 DEF CacheInv
  <2>2. ~AtWork(p)
    BY <2>1, <1>2, Excluded DEF Exclusive, AtWork
  <2>3. Entries' \subseteq Entries /\ purged' = purged
    BY <2>2
  <2> QED
    BY <2>1, <2>3 DEF Ready, UniqueIds, SameKey
<1> QED
  BY <1>1, <1>2

(* The common case: p is not about to write, and no entry comes.           *)
LEMMA ReadyApart ==
  ASSUME Inv, CacheInv, NEW p \in Proc, NEW where, where \notin {"fetch", "write"},
         pc' = [pc EXCEPT ![p] = where], cmd' = [cmd EXCEPT ![p] = cmd'[p]],
         unlinked => unlinked', UNCHANGED <<stale, purged>>, Entries' \subseteq Entries
  PROVE  CacheInv'
<1>1. /\ \A q \in Proc \ {p} : pc'[q] = pc[q] /\ cmd'[q] = cmd[q]
      /\ pc'[p] = where
  BY DEF Inv, Shape
<1>2. ~unlinked' => UniqueIds(Entries)' /\ \A t \in Entries' : t.id \notin purged'
  BY DEF CacheInv, UniqueIds
<1> QED
  BY <1>1, <1>2, ReadyKept

(* The new token's number is greater than every other's, so it is in no    *)
(* cache and has not been rejected.                                        *)
LEMMA Newest ==
  ASSUME TypeInv, NEW p \in Proc
  PROVE  /\ Refreshed(p).id \notin purged
         /\ \A t \in Entries \cup cmd[p].seen : t.id # Refreshed(p).id
<1>1. minted \in Nat /\ minted + 1 \notin purged
  BY DEF TypeInv, RestType
<1>2. \A t \in Entries \cup cmd[p].seen : t.id \in Nat /\ t.id <= minted
  BY DEF TypeInv, DiskType, Good, Minted, Token
<1> QED
  BY <1>1, <1>2 DEF Refreshed

LEMMA ReadyFetch ==
  ASSUME Inv, TypeInv, CacheInv, NEW p \in Proc, Fetch(p) PROVE CacheInv'
<1> USE DEF diskVars, googleVars
<1>1. PICK dropped \in SUBSET {t \in cmd[p].seen : t.id \in stale} :
         Become(p, [cmd[p] EXCEPT !.token = Refreshed(p),
                      !.seen = {t \in @ \ dropped : ~SameKey(t, p)} \cup {Refreshed(p)}])
  BY DEF Fetch
<1>2. /\ pc[p] = "fetch" /\ pc'[p] = "write" /\ \A q \in Proc \ {p} : pc'[q] = pc[q] /\ cmd'[q] = cmd[q]
      /\ UNCHANGED <<cache, stale, purged, unlinked>> /\ Entries' = Entries
  BY <1>1 DEF Fetch, Granting, Goto, Become, Inv, Shape, historyVars, Entries
<1> DEFINE kept == {t \in cmd[p].seen \ dropped : ~SameKey(t, p)}
<1>3. cmd'[p].seen = kept \cup {Refreshed(p)} /\ \A t : SameKey(t, p)' = SameKey(t, p)
  BY <1>1 DEF Become, Inv, Shape, SameKey, TypeInv, Local
<1>4. ASSUME ~unlinked PROVE Ready(p)'
  <2>1. Ready(p)
    BY <1>2, <1>4 DEF CacheInv
  <2>2. \A u \in Entries : u \in kept \/ u.id \in stale \/ SameKey(u, p)
    BY <1>2, <2>1 DEF Ready
  <2>3. \A u \in Entries : SameKey(u, p) => \A t \in kept : t.id # u.id
    BY <1>2, <2>1 DEF Ready, UniqueIds
  <2>4. UniqueIds(kept) /\ \A t \in kept : t.id \notin purged /\ t.id # Refreshed(p).id
    BY <2>1, Newest DEF Ready, UniqueIds
  <2> HIDE DEF kept
  <2>5. UniqueIds(kept \cup {Refreshed(p)})
    BY <2>4 DEF UniqueIds
  <2>6. UniqueIds(cmd[p].seen)'
    BY <1>3, <2>5 DEF UniqueIds
  <2> QED
    BY <1>2, <1>3, <2>2, <2>3, <2>4, <2>6, Newest DEF Ready
<1>5. ~unlinked' => UniqueIds(Entries)' /\ \A t \in Entries' : t.id \notin purged'
  BY <1>2 DEF CacheInv, UniqueIds
<1> QED
  BY <1>2, <1>4, <1>5, ReadyKept

LEMMA ReadyFetchUncached ==
  ASSUME Inv, TypeInv, CacheInv, NEW p \in Proc, FetchUncached(p) PROVE CacheInv'
<1> USE DEF diskVars, googleVars
<1> DEFINE others == {t \in cmd[p].seen : ~SameKey(t, p)}
<1>1. /\ pc[p] = "fetch" /\ UNCHANGED <<cache, stale, unlinked>> /\ Entries' = Entries
  BY DEF FetchUncached, Granting, Entries
<1>2. CASE /\ others = cmd[p].seen
           /\ Become(p, [cmd[p] EXCEPT !.token = Refreshed(p), !.seen = {}])
           /\ Goto(p, "use") /\ purged' = purged \cup Replaced(p)
  <2>1. pc'[p] = "use" /\ \A q \in Proc \ {p} : pc'[q] = pc[q] /\ cmd'[q] = cmd[q]
    BY <1>2 DEF Goto, Become, Inv, Shape
  <2>2. ~unlinked => Replaced(p) = {}
    <3> SUFFICES ASSUME ~unlinked PROVE {u \in Entries : SameKey(u, p) /\ u.id \in rejected} = {}
      BY DEF Replaced
    <3> QED
      BY <1>1, <1>2 DEF CacheInv, Ready
  <2>3. ~unlinked' => UniqueIds(Entries)' /\ \A t \in Entries' : t.id \notin purged'
    BY <1>1, <1>2, <2>2 DEF CacheInv, UniqueIds
  <2>4. AtWork(p)
    BY <1>1 DEF AtWork
  <2> QED
    BY <1>1, <2>1, <2>3, <2>4, ReadyKept
<1>3. CASE /\ Become(p, [cmd[p] EXCEPT !.token = Refreshed(p), !.seen = others])
           /\ Goto(p, "write") /\ UNCHANGED purged
  <2>1. pc'[p] = "write" /\ \A q \in Proc \ {p} : pc'[q] = pc[q] /\ cmd'[q] = cmd[q]
    BY <1>3 DEF Goto, Become, Inv, Shape
  <2>2. cmd'[p].seen = others /\ \A t : SameKey(t, p)' = SameKey(t, p)
    BY <1>3 DEF Become, Inv, Shape, SameKey, TypeInv, Local
  <2>3. ASSUME ~unlinked PROVE Ready(p)'
    <3>1. Ready(p)
      BY <1>1, <2>3 DEF CacheInv
    <3> QED
      BY <1>1, <1>3, <2>1, <2>2, <3>1 DEF Ready, UniqueIds
  <2>4. ~unlinked' => UniqueIds(Entries)' /\ \A t \in Entries' : t.id \notin purged'
    BY <1>1, <1>3 DEF CacheInv, UniqueIds
  <2> QED
    BY <1>1, <1>3, <2>1, <2>3, <2>4, ReadyKept
<1> QED
  BY <1>2, <1>3 DEF FetchUncached

LEMMA ReadyWrite ==
  ASSUME Inv, TypeInv, CacheInv, NEW p \in Proc, WriteCache(p) PROVE CacheInv'
<1>1. /\ pc[p] = "write" /\ pc'[p] = "use" /\ \A q \in Proc \ {p} : pc'[q] = pc[q] /\ cmd'[q] = cmd[q]
      /\ UNCHANGED <<stale, unlinked>> /\ Entries' \subseteq cmd[p].seen /\ purged' = purged \cup Replaced(p)
  BY DEF WriteCache, Goto, Become, Inv, Shape, Entries, googleVars
<1>2. \A u \in Entries : u.id \in Replaced(p) /\ ~unlinked => \A t \in cmd[p].seen : t.id # u.id
  <2> SUFFICES ASSUME NEW u \in Entries, u.id \in Replaced(p), ~unlinked PROVE \A t \in cmd[p].seen : t.id # u.id
    OBVIOUS
  <2>1. PICK v \in Entries : SameKey(v, p) /\ v.id = u.id
    BY DEF Replaced
  <2> QED
    BY <2>1, <1>1 DEF CacheInv, Ready
<1>3. \A i \in Replaced(p) : \E u \in Entries : u.id = i
  BY DEF Replaced
<1>4. ~unlinked' => UniqueIds(Entries)' /\ \A t \in Entries' : t.id \notin purged'
  BY <1>1, <1>2, <1>3 DEF CacheInv, Ready, UniqueIds
<1> QED
  BY <1>1, <1>4, ReadyKept DEF AtWork

LEMMA ReadyRead ==
  ASSUME Inv, TypeInv, CacheInv, NEW p \in Proc, ReadCache(p) PROVE CacheInv'
<1>1. Entries' = Entries /\ UNCHANGED <<stale, purged, unlinked>>
  BY DEF ReadCache, Entries, googleVars, historyVars
<1>2. CASE \E t \in Hits(p) : Become(p, [cmd[p] EXCEPT !.token = t]) /\ Goto(p, "use")
  BY <1>1, <1>2, ReadyApart DEF Goto, Become, Inv, Shape
<1>3. CASE Become(p, [cmd[p] EXCEPT !.seen = Entries]) /\ Goto(p, "fetch")
  <2>1. pc'[p] = "fetch" /\ \A q \in Proc \ {p} : pc'[q] = pc[q] /\ cmd'[q] = cmd[q]
    BY <1>3 DEF Goto, Become, Inv, Shape
  <2>2. cmd'[p].seen = Entries
    BY <1>3 DEF Become, TypeInv, Local
  <2>3. ~unlinked' => Ready(p)'
    BY <1>1, <2>1, <2>2 DEF CacheInv, Ready, UniqueIds
  <2>4. ~unlinked' => UniqueIds(Entries)' /\ \A t \in Entries' : t.id \notin purged'
    BY <1>1 DEF CacheInv, UniqueIds
  <2> QED
    BY <1>1, <2>1, <2>3, <2>4, ReadyKept
<1> QED
  BY <1>2, <1>3 DEF ReadCache

LEMMA CacheStep ==
  ASSUME Inv, TypeInv, CacheInv, [Next]_vars
  PROVE  CacheInv'
<1> USE DEF diskVars, googleVars, historyVars, Quiet
<1>1. CASE UNCHANGED vars
  BY <1>1 DEF vars, lockVars, CacheInv, Ready, UniqueIds, Entries, SameKey
<1>2. CASE Expire
  <2>1. Entries' = Entries /\ stale \subseteq stale' /\ UNCHANGED <<pc, cmd, purged, unlinked>>
    BY <1>2 DEF Expire, lockVars, Entries
  <2> QED
    BY <2>1 DEF CacheInv, Ready, UniqueIds, SameKey
<1>3. ASSUME NEW p \in Proc, Begin(p) \/ Step(p) \/ Killed(p) PROVE CacheInv'
  <2>1. ASSUME NEW where, where # "fetch", where # "write", Goto(p, where), NEW local, Become(p, local),
               Entries' \subseteq Entries, UNCHANGED <<stale, purged>>, unlinked => unlinked'
        PROVE  CacheInv'
    BY <2>1, ReadyApart DEF Goto, Become, Inv, Shape
  <2>2. ASSUME cmd' = cmd PROVE Become(p, cmd[p])
    BY <2>2 DEF Become, Inv, Shape
  <2>3. ASSUME UNCHANGED cache PROVE Entries' \subseteq Entries
    BY <2>3 DEF Entries
  <2>4. ASSUME End(p), UNCHANGED <<stale, cache, purged>>, unlinked => unlinked' PROVE CacheInv'
    <3>1. Goto(p, "idle") /\ Become(p, Idle)
      BY <2>4 DEF End
    <3> QED
      BY <3>1, <2>1, <2>3, <2>4
  <2>5. ASSUME NEW where, where # "fetch", where # "write", Goto(p, where), NEW local, Become(p, local),
               UNCHANGED <<stale, cache, purged, unlinked>>
        PROVE  CacheInv'
    BY <2>1, <2>3, <2>5
  <2>6. CASE Begin(p)
    <3>1. PICK where \in {"creds", "save", "revoke"} : \E local : Goto(p, where) /\ Become(p, local)
      BY <2>6 DEF Begin
    <3> QED
      BY <3>1, <2>5, <2>6 DEF Begin
  <2>7. CASE LoadCreds(p)
    BY <2>7, <2>4, <2>5 DEF LoadCreds
  <2>8. CASE LoadMeta(p)
    BY <2>8, <2>5 DEF LoadMeta
  <2>9. CASE Acquire(p)
    <3>1. CASE End(p)
      BY <3>1, <2>9, <2>4 DEF Acquire
    <3>2. CASE UNCHANGED cmd /\ (OpenLock(p) \/ TryLock(p) \/ CheckPath(p))
      <4>1. PICK where \in {"try", "check", "held", "open"} : Goto(p, where)
        BY <3>2 DEF OpenLock, TryLock, CheckPath, Goto
      <4> QED
        BY <3>2, <4>1, <2>2, <2>5, <2>9 DEF Acquire
    <3> QED
      BY <3>1, <3>2, <2>9 DEF Acquire
  <2>10. CASE ReadCache(p) \/ Fetch(p) \/ FetchUncached(p) \/ WriteCache(p)
    BY <2>10, ReadyRead, ReadyFetch, ReadyFetchUncached, ReadyWrite
  <2>11. CASE FetchFails(p) \/ WriteFails(p) \/ Killed(p)
    BY <2>11, <2>4 DEF FetchFails, WriteFails, Killed
  <2>12. CASE Use(p)
    BY <2>12, <2>4, <2>5 DEF Use
  <2>13. CASE SaveCreds(p)
    BY <2>13, <2>2, <2>5 DEF SaveCreds
  <2>14. CASE SaveMeta(p)
    BY <2>14, <2>4, <2>5 DEF SaveMeta
  <2>15. CASE Clear(p)
    <3>1. Entries' = {} /\ UNCHANGED <<stale, purged, unlinked>>
      BY <2>15 DEF Clear, Entries
    <3>2. PICK where \in {"idle", "list"} : Goto(p, where) /\ \E local : Become(p, local)
      BY <2>15, <2>2 DEF Clear
    <3> QED
      BY <3>1, <3>2, <2>1
  <2>16. CASE Revoke(p)
    BY <2>16, <2>5 DEF Revoke
  <2>17. CASE List(p)
    BY <2>17, <2>5 DEF List
  <2>18. CASE Remove(p)
    <3>1. CASE End(p) /\ UNCHANGED <<diskVars, unlinked>>
      BY <3>1, <2>18, <2>4 DEF Remove
    <3>2. CASE \E i \in cmd[p].files :
                 /\ Become(p, [cmd[p] EXCEPT !.files = @ \ {i}])
                 /\ cache' = IF File[i] = "cache" THEN None ELSE cache
                 /\ unlinked' = \/ unlinked
                                \/ File[i] = "lock" /\ \E q \in Proc : AtWork(q) /\ fd[q] = lockAt
                 /\ UNCHANGED pc
      <4>1. Goto(p, "remove") /\ UNCHANGED <<stale, purged>>
        BY <3>2, <2>18 DEF Remove, Goto, Inv, Shape
      <4>2. Entries' \subseteq Entries
        BY <3>2 DEF Entries
      <4>3. unlinked => unlinked'
        BY <3>2
      <4> QED
        BY <3>2, <4>1, <4>2, <4>3, <2>1
    <3> QED
      BY <2>18, <3>1, <3>2 DEF Remove
  <2>19. CASE RemoveDir(p)
    BY <2>19, <2>4 DEF RemoveDir
  <2> QED
    BY <1>3, <2>6, <2>7, <2>8, <2>9, <2>10, <2>11, <2>12, <2>13, <2>14, <2>15, <2>16,
       <2>17, <2>18, <2>19 DEF Step
<1> QED
  BY <1>1, <1>2, <1>3 DEF Next

LEMMA CacheHolds == Spec => [](Inv /\ TypeInv /\ CacheInv)
<1>1. Init => CacheInv
  BY DEF Init, CacheInv, Entries, UniqueIds
<1>2. Inv /\ TypeInv /\ CacheInv /\ [Next]_vars => CacheInv'
  BY CacheStep
<1> QED
  BY <1>1, <1>2, InvHolds, TypesHold, PTL DEF Spec

(* A rejected token that was replaced is in the cache no more, whoever     *)
(* writes it (token_cache.rs:144-176).                                     *)
THEOREM RejectedGone == Spec => []RejectedStaysGone
<1>1. CacheInv => RejectedStaysGone
  BY DEF CacheInv, RejectedStaysGone
<1> QED
  BY <1>1, CacheHolds, PTL

(* A write keeps the entries of the other processes (token_cache.rs:18).   *)
THEOREM UpdatesSurvive == Spec => NoLostUpdate
<1> DEFINE Kept == \A p \in Proc : pc[p] = "write" /\ pc'[p] = "use" /\ ~unlinked =>
                     \A t \in Entries : t \in cache' \/ t.id \in stale \/ SameKey(t, p)
<1>1. Inv /\ CacheInv /\ [Next]_vars => [Kept]_vars
  <2> SUFFICES ASSUME Inv, CacheInv, [Next]_vars, NEW p \in Proc,
                      pc[p] = "write", pc'[p] = "use", ~unlinked, NEW t \in Entries
               PROVE  t \in cache' \/ t.id \in stale \/ SameKey(t, p)
    OBVIOUS
  <2>1. PICK q \in Proc : Begin(q) \/ Step(q) \/ Killed(q)
    BY DEF Next, Expire, vars, lockVars
  <2>2. CASE WriteCache(q)
    <3>1. q = p
      BY <2>2 DEF WriteCache, Goto, Inv, Shape
    <3> QED
      BY <2>2, <3>1 DEF WriteCache, CacheInv, Ready
  <2>3. CASE ~WriteCache(q)
    <3>1. pc'[q] # "use" \/ pc[q] # "write"
      BY <2>1, <2>3 DEF Begin, Step, Killed, LoadCreds, LoadMeta, Acquire, OpenLock, TryLock, CheckPath,
           ReadCache, Fetch, FetchUncached, Granting, FetchFails, WriteFails, Use, SaveCreds, SaveMeta,
           Clear, Revoke, List, Remove, RemoveDir, End, Goto, Inv, Shape, Start
    <3>2. \A r \in Proc \ {q} : pc'[r] = pc[r]
      BY <2>1, <2>3 DEF Begin, Step, Killed, LoadCreds, LoadMeta, Acquire, OpenLock, TryLock, CheckPath,
           ReadCache, Fetch, FetchUncached, Granting, FetchFails, WriteFails, Use, SaveCreds, SaveMeta,
           Clear, Revoke, List, Remove, RemoveDir, End, Goto, Inv, Shape, Start
    <3> QED
      BY <3>1, <3>2
  <2> QED
    BY <2>2, <2>3
<1> QED
  BY <1>1, CacheHolds, PTL DEF Spec, NoLostUpdate
=============================================================================
