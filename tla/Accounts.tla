------------------------------- MODULE Accounts --------------------------------
(***************************************************************************)
(* Profiles and the identity a command acts as, with concurrent gwsr       *)
(* processes in one configuration directory:                               *)
(*   login   auth/commands/login.rs: the key, the sign-in, the credentials *)
(*           of the profile, the active profile, the caches of time zones  *)
(*   logout  auth/commands/logout.rs                                       *)
(*   use     auth/commands/profile.rs: sets the profile in config.toml     *)
(*   run     any other command: finds its profile and credentials, and     *)
(*           (the calendar helpers) the time zone of the account, which is *)
(*           cached per profile (timezone.rs)                              *)
(*                                                                         *)
(* A process may be killed at any moment.  An account stands for one       *)
(* refresh token.  The directory of a profile, its token cache and the     *)
(* revocation of tokens are modelled in TokenStore; the credentials that   *)
(* do not come from a profile in Source.                                   *)
(***************************************************************************)
EXTENDS Keystore

CONSTANTS
  Named,        \* profiles with a name
  Default,      \* the default profile
  Account,
  MaxCommands   \* bound: commands started

ASSUME AccountsAssumption ==
  Default \notin Named /\ NoValue \notin Named \cup {Default} /\ NoValue \notin Account /\ MaxCommands \in Nat

Profile == Named \cup {Default}

VARIABLES
  creds,      \* for each profile, credentials.enc: the account and the key it is encrypted with
  config,     \* profile in config.toml
  zone,       \* for each profile, the account whose time zone is cached
  op,         \* for each process, the command it runs
  who,        \* for each process, the profile the command has resolved
  as,         \* for each process, the account it has signed in to or loaded
  commands,   \* commands started so far
  alone,      \* history: processes no other command has overlapped with
  excused     \* history: profiles whose cached zone nobody had a chance to remove

diskVars == <<creds, config, zone>>
procVars == <<op, who, as>>
accountVars == <<keyVars, step, diskVars, procVars, commands, alone, excused>>

Op == {"login", "logout", "use", "run"}

AccountsInit ==
  /\ KeyInit
  /\ step = [p \in Proc |-> "idle"]
  /\ creds = [n \in Profile |-> NoValue]
  /\ config = NoValue
  /\ zone = [n \in Profile |-> NoValue]
  /\ op = [p \in Proc |-> NoValue] /\ who = [p \in Proc |-> NoValue]
  /\ as = [p \in Proc |-> NoValue]
  /\ commands = 0
  /\ alone = {} /\ excused = {}

\* The encrypted files there are, by their profile.
Encrypted == {n \in Profile : creds[n] # NoValue}
AccountOf(n) == IF creds[n] = NoValue THEN NoValue ELSE creds[n].account

\* The profile of a command without a selection of its own.
Active == IF config # NoValue THEN config ELSE Default

\* A command starts and resolves its profile: the one selected for it, the one
\* in config.toml, or the default one.  "use" is given the profile by name.
Start(p, o, selected) ==
  /\ step[p] = "idle" /\ commands < MaxCommands
  /\ o = "use" => selected # NoValue
  /\ commands' = commands + 1
  /\ op' = [op EXCEPT ![p] = o]
  /\ who' = [who EXCEPT ![p] = IF selected # NoValue THEN selected ELSE Active]
  /\ Go(p, CASE o = "login" -> "key" [] o = "logout" -> "remove" [] o = "use" -> "check" [] o = "run" -> "source")
  /\ alone' = IF \A q \in Proc : step[q] = "idle" THEN {p} ELSE {}
  /\ UNCHANGED <<keyVars, diskVars, as, excused>>

\* What a login or logout leaves behind if it ends before it has removed the
\* cached time zones, having changed the credentials.
Unfinished(p) ==
  IF step[p] \in {"active", "default", "set", "zones"} /\ op[p] \in {"login", "logout"}
  THEN {who[p]} ELSE {}

\* The command is over, well or with an error, or the process is killed.
Stop(p) ==
  /\ step[p] # "idle"
  /\ Go(p, "idle")
  /\ KeyForget(p)
  /\ op' = [op EXCEPT ![p] = NoValue] /\ who' = [who EXCEPT ![p] = NoValue]
  /\ as' = [as EXCEPT ![p] = NoValue]
  /\ excused' = excused \cup Unfinished(p)
  /\ alone' = alone \ {p}
  /\ UNCHANGED <<diskVars, commands>>

Others == UNCHANGED <<commands, alone>>

-------------------------------------------------------------------------------
\* login: the key comes first, before the browser opens.
LoginKey(p) ==
  /\ op[p] = "login"
  /\ KeyForEncryption(p, Encrypted, "flow")
  /\ UNCHANGED <<diskVars, procVars, excused>> /\ Others

\* The user signs in to some account.
SignIn(p, account) ==
  /\ step[p] = "flow"
  /\ as' = [as EXCEPT ![p] = account]
  /\ Go(p, "save")
  /\ UNCHANGED <<keyVars, diskVars, op, who, excused>> /\ Others

\* Mutant: the credentials are written without encryption.
SaveCredentialsPlain(p) ==
  /\ step[p] = "save"
  /\ creds' = [creds EXCEPT ![who[p]] = [account |-> as[p], key |-> 0]]
  /\ Go(p, "active")
  /\ UNCHANGED <<keyVars, config, zone, procVars, excused>> /\ Others

\* The credentials are encrypted and written atomically.
SaveCredentials(p) ==
  /\ step[p] = "save"
  /\ creds' = [creds EXCEPT ![who[p]] = [account |-> as[p], key |-> kOf[p]]]
  /\ Go(p, "active")
  /\ UNCHANGED <<keyVars, config, zone, procVars, excused>> /\ Others

\* make_active_if_unset: never for the default profile, nor if one is set, nor
\* while the default profile has credentials.
ActiveIfUnset(p) ==
  /\ step[p] = "active"
  /\ Go(p, IF who[p] = Default \/ config # NoValue THEN "zones" ELSE "default")
  /\ UNCHANGED <<keyVars, diskVars, procVars, excused>> /\ Others

\* Mutant: whether the default profile is in use is not asked.
DefaultUnusedAnyhow(p) ==
  /\ step[p] = "default"
  /\ Go(p, "set")
  /\ UNCHANGED <<keyVars, diskVars, procVars, excused>> /\ Others

DefaultUnused(p) ==
  /\ step[p] = "default"
  /\ Go(p, IF creds[Default] # NoValue THEN "zones" ELSE "set")
  /\ UNCHANGED <<keyVars, diskVars, procVars, excused>> /\ Others

\* set_active_profile, of a login or of "use".
SetActive(p) ==
  /\ step[p] = "set"
  /\ config' = who[p]
  /\ Go(p, IF op[p] = "use" THEN "done" ELSE "zones")
  /\ UNCHANGED <<keyVars, creds, zone, procVars, excused>> /\ Others

\* Mutant: only the zone of the active profile is removed.
InvalidateZonesActive(p) ==
  /\ step[p] = "zones"
  /\ zone' = [zone EXCEPT ![Active] = NoValue]
  /\ excused' = excused \ {Active}
  /\ Go(p, "done")
  /\ UNCHANGED <<keyVars, creds, config, procVars>> /\ Others

\* timezone::invalidate_cache removes every cached zone.
InvalidateZones(p) ==
  /\ step[p] = "zones"
  /\ zone' = [n \in Profile |-> NoValue]
  /\ excused' = {}
  /\ Go(p, "done")
  /\ UNCHANGED <<keyVars, creds, config, procVars>> /\ Others

-------------------------------------------------------------------------------
\* logout: the files are removed (an error if one is gone meanwhile).
Logout(p) ==
  /\ step[p] = "remove"
  /\ creds' = [creds EXCEPT ![who[p]] = NoValue]
  /\ Go(p, "zones")
  /\ UNCHANGED <<keyVars, config, zone, procVars, excused>> /\ Others

\* use: a profile without credentials is refused.
CheckProfile(p) ==
  /\ step[p] = "check"
  /\ Go(p, IF creds[who[p]] # NoValue THEN "set" ELSE "failed")
  /\ UNCHANGED <<keyVars, diskVars, procVars, excused>> /\ Others

-------------------------------------------------------------------------------
\* run: the credentials are those of the profile; without any the command fails,
\* or acts with others than a profile's (Source), which are not followed here.
FindSource(p) ==
  /\ step[p] = "source"
  /\ Go(p, IF creds[who[p]] # NoValue THEN "read" ELSE "failed")
  /\ UNCHANGED <<keyVars, diskVars, procVars, excused>> /\ Others

Readable(n) == creds[n] # NoValue /\ creds[n].key = kStored

\* They are read and decrypted with the key there is; the file may be gone.
ReadCredentials(p) ==
  /\ step[p] = "read"
  /\ \/ /\ Readable(who[p])
        /\ as' = [as EXCEPT ![p] = creds[who[p]].account]
        /\ Go(p, "zone")
     \/ /\ ~Readable(who[p])
        /\ Go(p, "failed")
        /\ UNCHANGED as
  /\ UNCHANGED <<keyVars, diskVars, op, who, excused>> /\ Others

\* The cached zone, unless there is none or it is too old.
CachedZone(p) ==
  /\ step[p] = "zone"
  /\ \/ zone[who[p]] # NoValue /\ Go(p, "done")
     \/ Go(p, "fetched")
  /\ UNCHANGED <<keyVars, diskVars, procVars, excused>> /\ Others

\* Fetched from the account, and cached for the profile, which may belong to
\* another account by now.
CacheZone(p) ==
  /\ step[p] = "fetched"
  /\ zone' = [zone EXCEPT ![who[p]] = as[p]]
  /\ excused' = IF as[p] = AccountOf(who[p]) THEN excused \ {who[p]} ELSE excused \cup {who[p]}
  /\ Go(p, "done")
  /\ UNCHANGED <<keyVars, creds, config, procVars>> /\ Others

-------------------------------------------------------------------------------
LoginStep(p) ==
  \/ LoginKey(p) \/ (\E account \in Account : SignIn(p, account)) \/ SaveCredentials(p)
  \/ ActiveIfUnset(p) \/ DefaultUnused(p) \/ SetActive(p) \/ InvalidateZones(p)

RunStep(p) == FindSource(p) \/ ReadCredentials(p) \/ CachedZone(p) \/ CacheZone(p)

Step(p) ==
  \/ \E o \in Op, selected \in Profile \cup {NoValue} : Start(p, o, selected)
  \/ LoginStep(p) \/ Logout(p) \/ CheckProfile(p) \/ RunStep(p) \/ Stop(p)

\* The user loses the key.
LoseKey == KeyLost /\ UNCHANGED <<diskVars, procVars, commands, alone, excused>>

AccountsNext == (\E p \in Proc : Step(p)) \/ LoseKey

AccountsSpec == AccountsInit /\ [][AccountsNext]_accountVars

-------------------------------------------------------------------------------
Credentials == [account : Account, key : Key]

AccountsTypeOK ==
  /\ KeyTypeOK
  /\ step \in [Proc -> {"idle", "failed", "done", "key", "keyLock", "keyAgain", "keyScan", "keyStore", "keyBack",
                        "flow", "save", "active", "default", "set", "zones", "remove", "check",
                        "source", "read", "zone", "fetched"}]
  /\ creds \in [Profile -> Credentials \cup {NoValue}]
  /\ config \in Profile \cup {NoValue}
  /\ zone \in [Profile -> Account \cup {NoValue}]
  /\ op \in [Proc -> Op \cup {NoValue}] /\ who \in [Proc -> Profile \cup {NoValue}]
  /\ as \in [Proc -> Account \cup {NoValue}]
  /\ commands \in 0..MaxCommands
  /\ alone \subseteq Proc /\ excused \subseteq Profile

\* As long as there is a key, every encrypted file can be read with it: no key is
\* generated while there is data under another one, however first logins, crashes
\* and failing stores interleave, and also after a key was lost.
AlwaysReadable == kStored # 0 => \A n \in Encrypted : creds[n].key = kStored

\* Whom a command without --profile acts as: its profile and that one's account,
\* or other credentials than those of a profile.
OtherCredentials == <<NoValue, NoValue>>
PlainIdentity ==
  IF config = NoValue /\ creds[Default] = NoValue THEN OtherCredentials ELSE <<Active, AccountOf(Active)>>

\* Nobody's commands silently switch identity: what a command without --profile
\* acts as changes only by "auth use", by a login to or logout from the very
\* profile it acts as, or by the first login of all.  (Commands that overlap are
\* excepted: a login checks the configuration and the default profile, and writes
\* the configuration later.)
NoSilentSwitch ==
  [][\A p \in Proc :
       step'[p] # step[p] /\ p \in alone /\ PlainIdentity' # PlainIdentity =>
         op[p] = "use" \/ who[p] = Active \/ PlainIdentity = OtherCredentials]_accountVars

\* A cached zone is that of the account now logged in to the profile, unless a
\* command that was under way when the account changed has written it, or the
\* login or logout that changed it has not removed the zones, yet or for good.
\* The code has both: they are exceptions here, not things this rules out.
ZoneOfAccount ==
  \A n \in Profile :
    zone[n] # NoValue /\ zone[n] # AccountOf(n) =>
      n \in excused \/ \E p \in Proc : n \in Unfinished(p)

\* With processes that overlap or are killed, a command acts as the account it did
\* before and is told that account's time zone.
AccountsCorrect == []ZoneOfAccount /\ NoSilentSwitch

===============================================================================
