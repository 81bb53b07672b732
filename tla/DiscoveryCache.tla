----------------------------- MODULE DiscoveryCache ----------------------------
(***************************************************************************)
(* Loading Discovery Documents (core discovery/mod.rs) through the cache   *)
(* directory (discovery/cache.rs) that concurrent gwsr processes share     *)
(* without a lock, while others run "gwsr cache clear".                    *)
(*                                                                         *)
(* On a case-insensitive file system the documents of two APIs whose names *)
(* differ only in case have one file.                                      *)
(***************************************************************************)
EXTENDS Outcome, FiniteSets

CONSTANTS
  Loader,         \* processes that load a document
  Clearer,        \* processes that clear the cache
  Api,
  ClearMaxRounds

\* How a fetch ends.
Fetched == {"ok", "failed"}

ASSUME DiscoveryAssumption ==
  ClearMaxRounds \in Nat /\ NoValue \notin Api /\ NoValue \notin Fetched

VARIABLES
  dTwins,     \* whether all APIs have one file
  dDir,       \* the directory: "none", "ok", or "loose", which others may write to
  dEntry,     \* for each file, the document in it, or NoValue
  dTemp,      \* loaders whose temporary file is there
  lStep, lApi,
  lFresh,     \* whether the entry was young when it was inspected
  lStale,     \* the stale document kept for the case that the fetch fails
  lFetched,   \* history: what the network answered
  lResult,    \* the document delivered, with its origin, or an error
  xStep,
  xPlan,      \* files still to be removed, [docs, temps]
  xRounds

loaderVars == <<lStep, lApi, lFresh, lStale, lFetched, lResult>>
clearVars == <<xStep, xPlan, xRounds>>
discoveryVars == <<dTwins, dDir, dEntry, dTemp, loaderVars, clearVars>>

\* An entry: the document of an API, young or old, or a file that is none or that
\* belongs to somebody else.
Broken == [api |-> NoValue, young |-> FALSE]
Document == [api : Api, young : BOOLEAN]
FileOf(api) == IF dTwins THEN CHOOSE a \in Api : TRUE ELSE api
File == Api

DiscoveryInit ==
  /\ dTwins = FALSE /\ dDir = "none"
  /\ dEntry = [f \in File |-> NoValue] /\ dTemp = {}
  /\ lStep = [l \in Loader |-> "off"] /\ lApi = [l \in Loader |-> NoValue]
  /\ lFresh = [l \in Loader |-> FALSE] /\ lStale = [l \in Loader |-> NoValue]
  /\ lFetched = [l \in Loader |-> NoValue] /\ lResult = [l \in Loader |-> NoValue]
  /\ xStep = [x \in Clearer |-> "off"] /\ xRounds = [x \in Clearer |-> 0]
  /\ xPlan = [x \in Clearer |-> [docs |-> {}, temps |-> {}]]

Idle == \A l \in Loader : lStep[l] = "off"

\* The cache earlier commands have left, and the documents to be loaded.
DiscoveryBegin(twins, dir, entry, apis) ==
  /\ Idle
  /\ dTwins' = twins /\ dDir' = dir /\ dEntry' = entry
  /\ lApi' = apis /\ lStep' = [l \in Loader |-> "dir"]
  /\ xStep' = [x \in Clearer |-> "plan"]
  /\ UNCHANGED <<dTemp, lFresh, lStale, lFetched, lResult, xPlan, xRounds>>

LGo(l, step) == lStep' = [lStep EXCEPT ![l] = step]
HandOver(l, api, origin) ==
  LGo(l, "over") /\ lResult' = [lResult EXCEPT ![l] = [api |-> api, origin |-> origin]]
LoadFails(l) == HandOver(l, NoValue, "error")
Disk == <<dTwins, dDir, dEntry, dTemp>>
Entry(l) == FileOf(lApi[l])

\* The directory is there?
LoadDir(l) ==
  /\ lStep[l] = "dir"
  /\ LGo(l, IF dDir = "none" THEN "fetch" ELSE "owner")
  /\ UNCHANGED <<Disk, lApi, lFresh, lStale, lFetched, lResult, clearVars>>

\* check_not_shared: a directory others may write to is passed over; one that was
\* removed meanwhile is an error.
LoadOwner(l) ==
  /\ lStep[l] = "owner"
  /\ \/ dDir = "ok" /\ LGo(l, "entry") /\ UNCHANGED lResult
     \/ dDir = "loose" /\ LGo(l, "fetch") /\ UNCHANGED lResult
     \/ dDir = "none" /\ LoadFails(l)
  /\ UNCHANGED <<Disk, lApi, lFresh, lStale, lFetched, clearVars>>

\* The entry's metadata; its age is that of now, its content that of later.
LoadEntry(l) ==
  /\ lStep[l] = "entry"
  /\ LET e == dEntry[Entry(l)] IN
       \/ e = NoValue /\ LGo(l, "fetch") /\ UNCHANGED lFresh
       \/ /\ e # NoValue
          /\ LGo(l, "read")
          /\ lFresh' = [lFresh EXCEPT ![l] = e # Broken /\ e.young]
  /\ UNCHANGED <<Disk, lApi, lStale, lFetched, lResult, clearVars>>

\* Mutant: any document in the file will do.
RightDocumentAny(e, api) == e \in Document

\* parse_and_validate: the document of this very API.
RightDocument(e, api) == e \in Document /\ e.api = api

\* The entry is read: delivered if it was young, kept if it was old, passed over if
\* it is a twin's, discarded if it is no document, an error if it is gone.  (lFresh is
\* not looked at again.)
LoadRead(l) ==
  /\ lStep[l] = "read"
  /\ LET e == dEntry[Entry(l)] IN
       \/ e = NoValue /\ LoadFails(l) /\ UNCHANGED lStale
       \/ e = Broken /\ LGo(l, "remove") /\ UNCHANGED <<lStale, lResult>>
       \/ /\ RightDocument(e, lApi[l])
          /\ IF lFresh[l] THEN HandOver(l, e.api, "cache") /\ UNCHANGED lStale
             ELSE lStale' = [lStale EXCEPT ![l] = e] /\ LGo(l, "fetch") /\ UNCHANGED lResult
       \/ /\ e \in Document /\ ~RightDocument(e, lApi[l])
          /\ LGo(l, "fetch") /\ UNCHANGED <<lStale, lResult>>
  /\ lFresh' = [lFresh EXCEPT ![l] = FALSE]
  /\ UNCHANGED <<Disk, lApi, lFetched, clearVars>>

\* The discarded entry is removed; if it cannot be, that is only noted.
LoadRemove(l) ==
  /\ lStep[l] = "remove"
  /\ dEntry' \in {dEntry, [dEntry EXCEPT ![Entry(l)] = NoValue]}
  /\ LGo(l, "fetch")
  /\ UNCHANGED <<dTwins, dDir, dTemp, lApi, lFresh, lStale, lFetched, lResult, clearVars>>

\* fetch: the document from one of the two URLs, validated; or the stale one.
Fetch(l) ==
  /\ lStep[l] = "fetch"
  /\ \/ /\ lFetched' = [lFetched EXCEPT ![l] = "ok"]
        /\ LGo(l, "ensure") /\ UNCHANGED lResult
     \/ /\ lFetched' = [lFetched EXCEPT ![l] = "failed"]
        /\ IF lStale[l] # NoValue THEN HandOver(l, lStale[l].api, "stale") ELSE LoadFails(l)
  /\ UNCHANGED <<Disk, lApi, lFresh, lStale, clearVars>>

\* A failed write is noted; the document is delivered all the same.
NotStored(l) == HandOver(l, lApi[l], "network")

\* ensure_dir creates the directory and makes it private, unless another user owns it.
StoreDir(l) ==
  /\ lStep[l] = "ensure"
  /\ \/ dDir' = "ok" /\ LGo(l, "temp") /\ UNCHANGED lResult
     \/ NotStored(l) /\ UNCHANGED dDir
  /\ UNCHANGED <<dTwins, dEntry, dTemp, lApi, lFresh, lStale, lFetched, clearVars>>

\* The temporary file, in a directory that may be gone.
StoreTemp(l) ==
  /\ lStep[l] = "temp"
  /\ \/ dDir # "none" /\ dTemp' = dTemp \cup {l} /\ LGo(l, "persist") /\ UNCHANGED lResult
     \/ NotStored(l) /\ UNCHANGED dTemp
  /\ UNCHANGED <<dTwins, dDir, dEntry, lApi, lFresh, lStale, lFetched, clearVars>>

\* It is renamed into place, if it is still there.
StorePersist(l) ==
  /\ lStep[l] = "persist"
  /\ \/ /\ l \in dTemp
        /\ dTemp' = dTemp \ {l}
        /\ dEntry' = [dEntry EXCEPT ![Entry(l)] = [api |-> lApi[l], young |-> TRUE]]
        /\ HandOver(l, lApi[l], "network")
     \/ l \notin dTemp /\ NotStored(l) /\ UNCHANGED <<dTemp, dEntry>>
  /\ UNCHANGED <<dTwins, dDir, lApi, lFresh, lStale, lFetched, clearVars>>

\* A writer that is killed leaves its temporary file.
LoaderKilled(l) ==
  /\ lStep[l] = "persist"
  /\ LoadFails(l)
  /\ lFetched' = [lFetched EXCEPT ![l] = NoValue]
  /\ UNCHANGED <<Disk, lApi, lFresh, lStale, clearVars>>

-------------------------------------------------------------------------------
XGo(x, step) == xStep' = [xStep EXCEPT ![x] = step]
Present == {f \in File : dEntry[f] # NoValue}

\* clear_plan lists the directory.
ClearPlan(x) ==
  /\ xStep[x] = "plan"
  /\ xPlan' = [xPlan EXCEPT ![x] = [docs |-> Present, temps |-> dTemp]]
  /\ XGo(x, IF dDir = "none" THEN "ok" ELSE "files")
  /\ UNCHANGED <<Disk, loaderVars, xRounds>>

\* One of the files listed; one that is gone is skipped.
ClearDocument(x) ==
  /\ xStep[x] = "files"
  /\ \E f \in xPlan[x].docs :
       /\ dEntry' = [dEntry EXCEPT ![f] = NoValue]
       /\ xPlan' = [xPlan EXCEPT ![x].docs = @ \ {f}]
  /\ UNCHANGED <<dTwins, dDir, dTemp, loaderVars, xStep, xRounds>>

ClearTemp(x) ==
  /\ xStep[x] = "files" /\ xPlan[x].docs = {}
  /\ \E l \in xPlan[x].temps :
       /\ dTemp' = dTemp \ {l}
       /\ xPlan' = [xPlan EXCEPT ![x].temps = @ \ {l}]
  /\ UNCHANGED <<dTwins, dDir, dEntry, loaderVars, xStep, xRounds>>

\* Mutant: what was written meanwhile is left.
ClearDirOnce(x) ==
  /\ xStep[x] = "files" /\ xPlan[x].docs = {} /\ xPlan[x].temps = {}
  /\ dDir' = IF Present = {} /\ dTemp = {} THEN "none" ELSE dDir
  /\ XGo(x, "ok")
  /\ UNCHANGED <<dTwins, dEntry, dTemp, loaderVars, xPlan, xRounds>>

\* The directory goes last.  If others have written to it, it is listed again, a
\* bounded number of times.
ClearDir(x) ==
  /\ xStep[x] = "files" /\ xPlan[x].docs = {} /\ xPlan[x].temps = {}
  /\ IF Present = {} /\ dTemp = {} THEN dDir' = "none" /\ XGo(x, "ok") /\ UNCHANGED xRounds
     ELSE IF xRounds[x] < ClearMaxRounds THEN
       xRounds' = [xRounds EXCEPT ![x] = @ + 1] /\ XGo(x, "plan") /\ UNCHANGED dDir
     ELSE XGo(x, "failed") /\ UNCHANGED <<dDir, xRounds>>
  /\ UNCHANGED <<dTwins, dEntry, dTemp, loaderVars, xPlan>>

-------------------------------------------------------------------------------
\* Entries are in the file of their API, and only if there is a directory.
Legal(twins, dir, entry) ==
  /\ dir = "none" => \A f \in File : entry[f] = NoValue
  /\ \A f \in File :
       /\ twins /\ f # (CHOOSE a \in Api : TRUE) => entry[f] = NoValue
       /\ ~twins /\ entry[f] \in Document => entry[f].api = f

DiscoveryStart ==
  /\ Idle
  /\ \E twins \in BOOLEAN, dir \in {"none", "ok", "loose"}, apis \in [Loader -> Api],
        entry \in [File -> Document \cup {Broken, NoValue}] :
       /\ Legal(twins, dir, entry)
       /\ DiscoveryBegin(twins, dir, entry, apis)

DiscoveryNext ==
  \/ DiscoveryStart
  \/ \E l \in Loader :
       \/ LoadDir(l) \/ LoadOwner(l) \/ LoadEntry(l) \/ LoadRead(l) \/ LoadRemove(l)
       \/ Fetch(l) \/ StoreDir(l) \/ StoreTemp(l) \/ StorePersist(l) \/ LoaderKilled(l)
  \/ \E x \in Clearer : ClearPlan(x) \/ ClearDocument(x) \/ ClearTemp(x) \/ ClearDir(x)

DiscoverySpec == DiscoveryInit /\ [][DiscoveryNext]_discoveryVars

DiscoveryTypeOK ==
  /\ dTwins \in BOOLEAN /\ dDir \in {"none", "ok", "loose"}
  /\ dTemp \subseteq Loader
  /\ dDir = "none" => Present = {} /\ dTemp = {}
  /\ lStep \in [Loader -> {"off", "dir", "owner", "entry", "read", "remove", "fetch", "ensure", "temp", "persist", "over"}]
  /\ lApi \in [Loader -> Api \cup {NoValue}] /\ lFetched \in [Loader -> Fetched \cup {NoValue}]
  /\ xStep \in [Clearer -> {"off", "plan", "files", "ok", "failed"}]
  /\ xRounds \in [Clearer -> 0..ClearMaxRounds]

\* Whatever other processes do to the cache, a command is built from the document
\* of the API it is for; a document the network delivered is never lost to trouble
\* with the cache; and an old one is used when, and only when, the network fails.
DocumentServed ==
  \A l \in Loader : lStep[l] = "over" =>
    /\ lResult[l].origin # "error" => lResult[l].api = lApi[l]
    /\ lFetched[l] = "ok" => lResult[l].origin = "network"
    /\ lResult[l].origin = "stale" <=> lFetched[l] = "failed" /\ lStale[l] # NoValue

\* A clear that succeeds leaves nothing behind, of the documents there were nor of
\* those written while it ran, half-written ones included.
ClearedForGood ==
  [][\A x \in Clearer : xStep[x] # "ok" /\ xStep'[x] = "ok" =>
       dDir' = "none" /\ Present' = {} /\ dTemp' = {}]_discoveryVars

\* Loads that race with clears serve the right document, and a clear clears.
DiscoveryCorrect == []DocumentServed /\ ClearedForGood

===============================================================================
