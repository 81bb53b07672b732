----------------------------- MODULE TokenStore -----------------------------
(***************************************************************************)
(* A profile's directory shared by concurrent gwsr processes: the          *)
(* credentials (credentials.enc), what was granted (profile.json), the     *)
(* cache of access tokens and its lock.  A process runs commands:          *)
(*   token   crates/gws-rust/src/auth/mod.rs get_token_fresh and           *)
(*           token_cache.rs get_or_fetch, and once more with ForceRefresh  *)
(*           after an API answered 401 (transport/mod.rs)                  *)
(*   login   auth/commands/login.rs, from the saved grant on               *)
(*   logout  auth/commands/logout.rs                                       *)
(*                                                                         *)
(* A grant stands for a refresh token.  Access tokens within the expiry    *)
(* margin are stale like expired ones.                                     *)
(***************************************************************************)
EXTENDS FileLock

CONSTANTS
  Grant,               \* refresh tokens
  Scope, All,          \* the OAuth scopes commands ask for, "every granted scope"
  Granted,             \* those of Scope that each grant covers
  Garbage,             \* a cache file that does not decrypt (damaged, or another key)
  MaxOf, MaxCommands,  \* bounds: commands started, of each kind and in all
  MaxMints             \* bound: access tokens minted

Op == {"token", "login", "logout"}

ASSUME TokenStoreAssumption ==
  /\ Granted \in [Grant -> SUBSET Scope]
  /\ None \notin Grant \cup Op /\ All \notin Scope
  /\ MaxOf \in [Op -> Nat] /\ MaxCommands \in Nat /\ MaxMints \in Nat

Token == [id : 1..MaxMints, grant : Grant, down : Scope \cup {All}]

VARIABLES
  dir,      \* the profile directory exists
  creds,    \* the grant in credentials.enc, or None
  meta,     \* the grant profile.json describes, or None
  cache,    \* token_cache.enc: None, Garbage or a set of tokens
  corrupt,  \* some token_cache.enc.corrupt-<time> exists
  minted,   \* Google: access tokens minted so far
  stale,    \* expired tokens
  rejected, \* tokens an API has answered 401 to
  revoked,  \* revoked grants
  cmd,      \* each process's locals
  started,  \* commands started so far
  used,     \* grants a login has obtained
  unlinked, \* history: a logout removed the lock file of a process at work
  purged,   \* history: rejected tokens that a forced refresh has replaced
  left      \* history: a logout has succeeded and no login has saved since

diskVars == <<dir, creds, meta, cache, corrupt>>
googleVars == <<minted, stale, rejected, revoked>>
historyVars == <<unlinked, purged, left>>
vars == <<lockVars, diskVars, googleVars, cmd, started, used, historyVars>>

Idle == [op |-> None, scope |-> None, grant |-> None, down |-> None, force |-> FALSE,
         seen |-> {}, token |-> None, files |-> {}]

Init ==
  /\ LockInit /\ pc = [p \in Proc |-> "idle"]
  /\ dir = TRUE /\ creds \in Grant /\ meta = creds
  /\ cache \in {None, Garbage} /\ corrupt = FALSE
  /\ minted = 0 /\ stale = {} /\ rejected = {} /\ revoked = {}
  /\ cmd = [p \in Proc |-> Idle] /\ started = [op \in Op |-> 0] /\ used = {creds}
  /\ unlinked = FALSE /\ purged = {} /\ left = FALSE

-----------------------------------------------------------------------------
Goto(p, where) == pc' = [pc EXCEPT ![p] = where]
Become(p, local) == cmd' = [cmd EXCEPT ![p] = local]

(* The command ends; whatever it holds is released.                        *)
End(p) == Goto(p, "idle") /\ Become(p, Idle) /\ Unlock(p) /\ UNCHANGED lockAt
Quiet == UNCHANGED <<diskVars, googleVars, started, used, historyVars>>

Start(p, op) ==
  /\ pc[p] = "idle" /\ started[op] < MaxOf[op]
  /\ started["token"] + started["login"] + started["logout"] < MaxCommands
  /\ started' = [started EXCEPT ![op] = @ + 1]

Begin(p) ==
  /\ \/ /\ Start(p, "token")
        /\ \E s \in Scope : Become(p, [Idle EXCEPT !.op = "token", !.scope = s])
        /\ Goto(p, "creds") /\ UNCHANGED used
     \/ /\ Start(p, "login")
        /\ \E g \in Grant \ used :
             Become(p, [Idle EXCEPT !.op = "login", !.grant = g]) /\ used' = used \cup {g}
        /\ Goto(p, "save")
     \/ /\ Start(p, "logout")
        /\ Become(p, [Idle EXCEPT !.op = "logout", !.grant = creds])
        /\ Goto(p, "revoke") /\ UNCHANGED used
  /\ UNCHANGED <<lockAt, fd, holder, diskVars, googleVars, historyVars>>

(* get_token_fresh: the credentials, then the metadata, each read by       *)
(* itself; `downscope` asks for the wanted scope alone if it was granted.  *)
LoadCreds(p) ==
  /\ pc[p] = "creds"
  /\ \/ creds = None /\ End(p)
     \/ /\ creds # None
        /\ Become(p, [cmd[p] EXCEPT !.grant = creds]) /\ Goto(p, "meta")
        /\ UNCHANGED <<lockAt, fd, holder>>
  /\ Quiet

Downscope(s) == IF meta # None /\ s \in Granted[meta] THEN s ELSE All

LoadMeta(p) ==
  /\ pc[p] = "meta"
  /\ Become(p, [cmd[p] EXCEPT !.down = Downscope(cmd[p].scope)])
  /\ Goto(p, "open")
  /\ UNCHANGED <<lockAt, fd, holder>> /\ Quiet

(* FileLock::acquire on token_cache.lock.                                  *)
Acquire(p) ==
  /\ \/ dir /\ OpenLock(p) /\ UNCHANGED cmd
     \/ ~dir /\ pc[p] = "open" /\ End(p)
     \/ (TryLock(p) \/ CheckPath(p)) /\ UNCHANGED cmd
     \/ LockBusy(p) /\ End(p)
  /\ Quiet

-----------------------------------------------------------------------------
(* get_or_fetch, under the lock.  The cache's key is the grant's           *)
(* fingerprint with the scopes asked for.                                  *)
SameKeyAnyGrant(t, p) == t.down = cmd[p].down
SameKey(t, p) == t.grant = cmd[p].grant /\ t.down = cmd[p].down

Entries == IF cache \in {None, Garbage} THEN {} ELSE cache
Hits(p) == {t \in Entries : SameKey(t, p) /\ t.id \notin stale /\ ~cmd[p].force}

(* read_cache: a cache that does not decrypt is moved aside.               *)
ReadCache(p) ==
  /\ pc[p] = "held" /\ cmd[p].op = "token"
  /\ IF cache = Garbage THEN cache' = None /\ corrupt' = TRUE ELSE UNCHANGED <<cache, corrupt>>
  /\ \/ \E t \in Hits(p) :
          /\ Become(p, [cmd[p] EXCEPT !.token = t])
          /\ Goto(p, "use") /\ Unlock(p) /\ UNCHANGED lockAt
     \/ /\ Hits(p) = {}
        /\ Become(p, [cmd[p] EXCEPT !.seen = Entries]) /\ Goto(p, "fetch")
        /\ UNCHANGED <<lockAt, fd, holder>>
  /\ UNCHANGED <<dir, creds, meta, googleVars, started, used, historyVars>>

Refreshed(p) == [id |-> minted + 1, grant |-> cmd[p].grant, down |-> cmd[p].down]

(* The entries a forced refresh has replaced because an API rejected them. *)
Replaced(p) ==
  IF cmd[p].force THEN {t.id : t \in {u \in Entries : SameKey(u, p) /\ u.id \in rejected}} ELSE {}

Granting(p) ==
  /\ pc[p] = "fetch"
  /\ cmd[p].grant \notin revoked /\ cmd[p].down \in Granted[cmd[p].grant] \cup {All}
  /\ minted < MaxMints /\ minted' = minted + 1

FetchForgetsOthers(p) ==
  /\ Granting(p)
  /\ Become(p, [cmd[p] EXCEPT !.token = Refreshed(p), !.seen = {Refreshed(p)}])
  /\ Goto(p, "write")
  /\ UNCHANGED <<lockAt, fd, holder, diskVars, stale, rejected, revoked, started, used, historyVars>>

(* The token endpoint answers with a token that has an expiry: expired     *)
(* entries are dropped, those within the margin may not be...              *)
Fetch(p) ==
  /\ Granting(p)
  /\ \E dropped \in SUBSET {t \in cmd[p].seen : t.id \in stale} :
       Become(p, [cmd[p] EXCEPT !.token = Refreshed(p),
                    !.seen = {t \in @ \ dropped : ~SameKey(t, p)} \cup {Refreshed(p)}])
  /\ Goto(p, "write")
  /\ UNCHANGED <<lockAt, fd, holder, diskVars, stale, rejected, revoked, started, used, historyVars>>

(* ... or with one that has none, which is not cached; the entry it        *)
(* replaces is removed.                                                    *)
FetchUncachedKeepsEntry(p) ==
  /\ Granting(p)
  /\ Become(p, [cmd[p] EXCEPT !.token = Refreshed(p), !.seen = {}])
  /\ Goto(p, "use") /\ Unlock(p)
  /\ purged' = purged \cup Replaced(p)
  /\ UNCHANGED <<lockAt, diskVars, stale, rejected, revoked, started, used, unlinked, left>>

FetchUncached(p) ==
  /\ Granting(p)
  /\ LET others == {t \in cmd[p].seen : ~SameKey(t, p)}
     IN  \/ /\ others = cmd[p].seen
            /\ Become(p, [cmd[p] EXCEPT !.token = Refreshed(p), !.seen = {}])
            /\ Goto(p, "use") /\ Unlock(p) /\ purged' = purged \cup Replaced(p)
         \/ /\ others # cmd[p].seen
            /\ Become(p, [cmd[p] EXCEPT !.token = Refreshed(p), !.seen = others])
            /\ Goto(p, "write") /\ UNCHANGED <<fd, holder, purged>>
  /\ UNCHANGED <<lockAt, diskVars, stale, rejected, revoked, started, used, unlinked, left>>

(* The endpoint refuses, cannot be reached or does not answer in time.     *)
FetchFails(p) == pc[p] = "fetch" /\ End(p) /\ Quiet

WriteCache(p) ==
  /\ pc[p] = "write" /\ dir
  /\ cache' = cmd[p].seen
  /\ Become(p, [cmd[p] EXCEPT !.seen = {}])
  /\ Goto(p, "use") /\ Unlock(p) /\ UNCHANGED lockAt
  /\ purged' = purged \cup Replaced(p)
  /\ UNCHANGED <<dir, creds, meta, corrupt, googleVars, started, used, unlinked, left>>

WriteFails(p) == pc[p] = "write" /\ End(p) /\ Quiet

(* The API call: served, or 401, after which the token is refreshed once,  *)
(* from the start.                                                         *)
Use(p) ==
  /\ pc[p] = "use"
  /\ \/ /\ cmd[p].token.id \notin rejected /\ cmd[p].token.grant \notin revoked
        /\ End(p) /\ UNCHANGED rejected
     \/ /\ rejected' = rejected \cup {cmd[p].token.id}
        /\ \/ cmd[p].force /\ End(p)
           \/ /\ ~cmd[p].force
              /\ Become(p, [Idle EXCEPT !.op = "token", !.scope = cmd[p].scope, !.force = TRUE]) /\ Goto(p, "creds")
              /\ UNCHANGED <<lockAt, fd, holder>>
  /\ UNCHANGED <<diskVars, minted, stale, revoked, started, used, historyVars>>

-----------------------------------------------------------------------------
(* login: credentials, metadata, then the cache is cleared under its lock. *)
SaveCreds(p) ==
  /\ pc[p] = "save"
  /\ dir' = TRUE /\ creds' = cmd[p].grant /\ left' = FALSE
  /\ Goto(p, "savemeta")
  /\ UNCHANGED <<lockAt, fd, holder, meta, cache, corrupt, googleVars, cmd, started, used, unlinked, purged>>

SaveMeta(p) ==
  /\ pc[p] = "savemeta"
  /\ \/ dir /\ meta' = cmd[p].grant /\ Goto(p, "open") /\ UNCHANGED <<lockAt, fd, holder>>
        /\ Become(p, [Idle EXCEPT !.op = "login"])
     \/ ~dir /\ End(p) /\ UNCHANGED meta
  /\ UNCHANGED <<dir, creds, cache, corrupt, googleVars, started, used, historyVars>>

(* TokenCache::clear, for login and logout.                                *)
Clear(p) ==
  /\ pc[p] = "held" /\ cmd[p].op \in {"login", "logout"}
  /\ cache' = None
  /\ Unlock(p) /\ UNCHANGED lockAt
  /\ \/ cmd[p].op = "login" /\ Goto(p, "idle") /\ Become(p, Idle)
     \/ cmd[p].op = "logout" /\ Goto(p, "list") /\ UNCHANGED cmd
  /\ UNCHANGED <<dir, creds, meta, corrupt, googleVars, started, used, historyVars>>

(* logout: revoke the stored grant, unless --no-revoke or it fails.        *)
Revoke(p) ==
  /\ pc[p] = "revoke"
  /\ revoked' \in {revoked, revoked \cup ({cmd[p].grant} \cap Grant)}
  /\ IF dir THEN Goto(p, "open") ELSE Goto(p, "list")
  /\ Become(p, [Idle EXCEPT !.op = "logout"])
  /\ UNCHANGED <<lockAt, fd, holder, diskVars, minted, stale, rejected, started, used, historyVars>>

(* owned_files, in the order in which they are removed.                    *)
File == <<"creds", "meta", "cache", "corrupt", "lock">>
Exists(f) ==
  \/ f = "creds" /\ creds # None
  \/ f = "meta" /\ meta # None
  \/ f = "cache" /\ cache # None
  \/ f = "corrupt" /\ corrupt
  \/ f = "lock" /\ lockAt # 0

List(p) ==
  /\ pc[p] = "list"
  /\ Become(p, [cmd[p] EXCEPT !.files = {i \in DOMAIN File : Exists(File[i])}])
  /\ Goto(p, "remove")
  /\ UNCHANGED <<lockAt, fd, holder>> /\ Quiet

AtWork(q) == pc[q] \in {"held", "fetch", "write"}

(* The next file is removed, without the lock; one that is gone is an      *)
(* error.                                                                  *)
Remove(p) ==
  /\ pc[p] = "remove"
  /\ \E i \in cmd[p].files :
       /\ \A j \in cmd[p].files : i <= j
       /\ \/ ~Exists(File[i]) /\ End(p) /\ UNCHANGED <<diskVars, unlinked>>
          \/ /\ Exists(File[i])
             /\ Become(p, [cmd[p] EXCEPT !.files = @ \ {i}])
             /\ creds' = IF File[i] = "creds" THEN None ELSE creds
             /\ meta' = IF File[i] = "meta" THEN None ELSE meta
             /\ cache' = IF File[i] = "cache" THEN None ELSE cache
             /\ corrupt' = (corrupt /\ File[i] # "corrupt")
             /\ lockAt' = IF File[i] = "lock" THEN 0 ELSE lockAt
             /\ unlinked' = \/ unlinked
                            \/ File[i] = "lock" /\ \E q \in Proc : AtWork(q) /\ fd[q] = lockAt
             /\ UNCHANGED <<dir, pc, fd, holder>>
  /\ UNCHANGED <<googleVars, started, used, purged, left>>

(* remove_dir, which leaves a directory that is not empty.                 *)
RemoveDir(p) ==
  /\ pc[p] = "remove" /\ cmd[p].files = {}
  /\ dir' = (dir /\ \E i \in DOMAIN File : Exists(File[i]))
  /\ left' = (creds = None)
  /\ End(p)
  /\ UNCHANGED <<creds, meta, cache, corrupt, googleVars, started, used, unlinked, purged>>

-----------------------------------------------------------------------------
(* Killed, where that can matter: while it waits for or holds the lock,    *)
(* or between two of its writes.                                           *)
Killed(p) == pc[p] \notin {"idle", "creds", "meta", "use"} /\ End(p) /\ Quiet

(* A token expires: as long as nobody looks at the cache, or asks for a    *)
(* token, it makes no difference.                                          *)
Expire ==
  /\ \E p \in Proc : pc[p] \in {"held", "fetch"} /\ cmd[p].op = "token"
  /\ \E t \in Entries : t.id \notin stale /\ stale' = stale \cup {t.id}
  /\ UNCHANGED <<lockVars, diskVars, minted, rejected, revoked, cmd, started, used, historyVars>>

Step(p) ==
  \/ LoadCreds(p) \/ LoadMeta(p) \/ Acquire(p)
  \/ ReadCache(p) \/ Fetch(p) \/ FetchUncached(p) \/ FetchFails(p) \/ WriteCache(p) \/ WriteFails(p)
  \/ Use(p)
  \/ SaveCreds(p) \/ SaveMeta(p) \/ Clear(p)
  \/ Revoke(p) \/ List(p) \/ Remove(p) \/ RemoveDir(p)

Next == (\E p \in Proc : Begin(p) \/ Step(p) \/ Killed(p)) \/ Expire

Spec == Init /\ [][Next]_vars

(* A process that runs a command goes on: its calls answer or time out.    *)
FairSpec == Spec /\ \A p \in Proc : WF_vars(Step(p))

-----------------------------------------------------------------------------
TypeOK ==
  /\ LockType
  /\ pc \in [Proc -> {"idle", "creds", "meta", "open", "try", "check", "held", "fetch", "write",
                      "use", "save", "savemeta", "revoke", "list", "remove"}]
  /\ dir \in BOOLEAN /\ creds \in Grant \cup {None} /\ meta \in Grant \cup {None}
  /\ cache \in {None, Garbage} \/ cache \subseteq Token
  /\ corrupt \in BOOLEAN
  /\ minted \in 0..MaxMints /\ stale \subseteq 1..minted /\ rejected \subseteq 1..minted
  /\ revoked \subseteq Grant /\ used \subseteq Grant
  /\ cmd \in [Proc -> [op : {None, "token", "login", "logout"}, scope : Scope \cup {None},
                       grant : Grant \cup {None}, down : Scope \cup {All, None}, force : BOOLEAN,
                       seen : SUBSET Token, token : Token \cup {None}, files : SUBSET DOMAIN File]]
  /\ \A op \in Op : started[op] \in 0..MaxOf[op]
  /\ unlinked \in BOOLEAN /\ purged \subseteq 1..minted /\ left \in BOOLEAN

(* token_cache.rs:17: the whole read, refresh, write sequence of a process  *)
(* excludes the others', whatever dies, times out or removes the lock file, *)
(* as long as no logout removes it under a process at work.                 *)
Exclusive == ~unlinked => \A p, q \in Proc : AtWork(p) /\ AtWork(q) => p = q

(* token_cache.rs:18: no update of another process is lost.                 *)
NoLostUpdate ==
  [][\A p \in Proc : pc[p] = "write" /\ pc'[p] = "use" /\ ~unlinked =>
       \A t \in Entries : t \in cache' \/ t.id \in stale \/ SameKey(t, p)]_vars

(* token_cache.rs:18: only one process refreshes an expired token: nobody   *)
(* mints a token while a fresh one of the same key is cached.               *)
OneRefresh ==
  ~unlinked => \A p \in Proc : pc[p] = "fetch" => Hits(p) = {}

(* A command never uses the token of another login than the one whose       *)
(* credentials it read, and never one that lacks its scope when that login  *)
(* was granted it, also when it read the metadata of another login.         *)
OwnToken ==
  \A p \in Proc : pc[p] = "use" =>
    /\ cmd[p].token.grant = cmd[p].grant
    /\ cmd[p].token.down \in {cmd[p].scope, All}

(* A token that an API rejected and a forced refresh replaced is not served *)
(* again.                                                                   *)
RejectedStaysGone == ~unlinked => \A t \in Entries : t.id \notin purged

(* logout.rs:170-171: no token is written back into the profile that was    *)
(* logged out.                                                              *)
LoggedOut == left => cache = None

(* Every command ends: nobody waits for a lock for ever, also not for one   *)
(* whose file was removed.                                                  *)
CommandEnds == \A p \in Proc : pc[p] # "idle" ~> pc[p] = "idle"
=============================================================================
