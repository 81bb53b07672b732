# A TLA+ model of gwsr

`gwsr` is a command-line client for the Google Workspace APIs, written in Rust
(`crates/gws-rust-core`, a small library, and `crates/gws-rust`, the program).
Most of it turns arguments into one request and a response into output. The
parts that are hard to get right are those that keep state which other
processes, the user or a server change at the same time: an incremental mirror
of a Drive folder, two streaming commands over Pub/Sub, a token cache that
several processes share, and a retrying HTTP client with resumable uploads.
Around them stand commands that are short but have to get an order right: a
batch, a method with pages, a wizard, a sign-in, renewals on a timer, files
saved where others write. All of these are modelled here and checked with TLC on
small instances; nearly all their safety properties are proved with TLAPS for every
instance.

Paths in this file are relative to `src/crates/gws-rust/src/` unless they start
with `core/`, which stands for `src/crates/gws-rust-core/src/`.

## 1. Inventory

### 1.1 Parts with a state of their own

| part | state | operations | interacts with |
|---|---|---|---|
| drive +sync (`helpers/drive.rs`) | `.gwsr-sync.json` (records: item, path, content hash, Drive fingerprint), the path index, the moves of this run, the local files | start, list a folder, plan a child, download, record, move, save, stop | Drive (listing, download), the user's files, other runs through `.gwsr-sync.lock` |
| streaming loop (`helpers/events/stream.rs`) | failure budget, back-off, the shutdown latch of `helpers/mod.rs` | pull, wait, back off, reconnect, give up | Pub/Sub; one consumer per batch |
| events +subscribe (`helpers/events/subscribe.rs`) | the batch in hand: what was output, what is to be acknowledged | screen, output, drop, acknowledge, end (`--once`) | streaming loop, Model Armor, output directory |
| gmail +watch (`helpers/gmail/watch.rs`) | `last_history_id`, the memory of emitted mails | list history, fetch, screen, emit, acknowledge | streaming loop, Gmail |
| file lock (`fs_util.rs`) | the lock file at a path, open handles | open, try, check the path, unlock | every user of a locked file |
| token cache (`auth/token_cache.rs`, `auth/mod.rs`, `auth/commands/`) | a profile's credentials, metadata, cache and lock file | get a token (cached, refreshed, forced), save a login, log out | file lock, token endpoint, other processes |
| keystore (`auth/keystore.rs`) | one encryption key in the keyring or a file | load or create the key | keyring, encrypted files of every profile |
| HTTP client (`core/client.rs`) and transport (`transport/mod.rs`) | attempts made, whether an earlier one may have been carried out, the token | send, retry, follow a redirect, refresh after a 401 | server, token cache |
| uploads (`executor/upload.rs`) | offset, end of what was sent, consecutive failures | start a session, send a chunk, ask for the status | HTTP client, upload session at the server |
| batch (`executor/batch.rs`) | which calls of which group were answered | send a group, split the answers, print, stop | HTTP client, gate, Model Armor |
| methods (`executor/`) | the page token and those seen, the operation polled, what was printed | gate, send, next page, poll, screen, save or print | HTTP client, gate, Model Armor |
| confirmation gate (`confirm.rs`) | none; the impacts confirmed at one prompt | decide, ask | methods, batch, helpers |
| setup of the streams (`events/subscribe.rs`, `gmail/watch.rs`) | topic, subscription and feed that exist, those it created | create, roll back, clean up | Pub/Sub, Workspace Events, Gmail |
| renewal (`events/renew.rs`) | subscriptions with their expiry | select, renew, reactivate | Workspace Events, a timer |
| discovery cache (`core/discovery/`) | a directory of documents, temporary files | inspect, fetch, publish, clear | other processes, HTTP client |
| profiles and configuration (`auth/`, `config.rs`) | `config.toml`, credentials, cached time zones | login, logout, use, run | keystore, token cache, other processes |
| sign-in (`auth/flow.rs`) | a listener with a few places, the state of the attempt | accept, answer, time out, exchange | browser, anything else on the machine |
| auth setup and the scope picker (`auth/setup/`, `auth/commands/`) | stage, account, project, client; the scopes ticked | forward, back, save; tick, choose | gcloud, Google, the user |
| edits of remote objects (`calendar.rs`, `drive.rs`, `script.rs`, `docs/`) | the object as it was read | read, change, write back | others who edit it |
| files on disk (`output_file.rs`, `gmail/download.rs`, `generate_skills.rs`) | temporary files, what was saved | plan, write, rename, prune | the user and other processes |

Parts without such a state (building requests, parsing, validation, layout,
messages, the launcher) are listed in `PROJECT.json` with the reason why they are
left out; section 7 says more.

### 1.2 What is hard, and what correctness means there

* **drive +sync** is an ordering problem: items are renamed onto each other's
  paths and Drive lists them in any order, a run may be stopped or killed
  between any two steps, and the user edits the directory meanwhile. Correct
  means: no content that only the user has is destroyed; an undisturbed run
  that reports nothing leaves a complete mirror; a file the sync wrote never
  comes back as a conflict; the saved state is true of the disk; every run ends.
* **the streams** deliver at least once over calls that fail, time out after
  taking effect, or are interrupted by a signal. Correct means: nothing is
  acknowledged before it was dealt with; a duplicate has a reason; a signal or
  `--once` ends the stream promptly; a lasting outage ends it within the
  budget; whatever waits is dealt with in the end.
* **the token cache** is shared by processes that are killed at will and whose
  lock file a logout may remove. Correct means: read, refresh and write of one
  process exclude those of another; one process refreshes; no entry is lost; a
  command never uses another login's token; every command ends.
* **HTTP** is the two generals' problem: after a lost answer the client does not
  know whether the request was carried out. Correct means: what may not be done
  twice is not sent twice; a rejection or a "not found" is the truth; an upload
  that succeeds is whole; every call ends.

* **the commands** are sequences in which any step may fail. Correct means: what
  destroys or reaches others is confirmed and screened before, not after; what was
  done is told even when a later step fails; what is shown is whole or says that it
  is not; nobody is affected who is not meant; several parts that are set up
  belong together; files of the user stay.

`PROJECT.json` lists the hazards one by one, at the line where each bites, with
the properties that cover it.

## 2. Modules

```
SyncState <- DriveSync <- MCDriveSync               records, runs
PullLoop  <- SubscribeStream                        shared loop, consumers
          <- GmailWatch
EventDelivery                                       at-least-once, refined by both
FileLock  <- TokenStore <- MCTokenStore             lock, profile
HttpClient <- ResumableUpload <- ApiCalls           one request, an upload
Outcome                                             exit codes, confirmations
Keystore <- Accounts ---------------------------+
Batch, MethodCall, Outbound, Listing, PageTable |   calls and their results
StreamSetup, Renewal, Source, SignIn            +- Commands
DiscoveryCache, RemoteEdit, ScriptSync, DocText |   shared and remote objects
CalendarReads, EventTimes, ReplyRecipients      |
SaveParts, Downloads, SkillFiles, Wizard, Scopes+   files, dialogues
Setups_proofs, Commands_proofs                      theorems about Commands
*_proofs                                            theorems of the module they extend
```

An arrow is EXTENDS, from the left to the right. Definitions keep the names of
the source where TLA+ allows it; `PROJECT.json` maps each to its lines. Names
such as `CheckSkipped` that are introduced by a comment "Mutant: ..." are
plausible mistakes in the definition that follows them. No specification uses
them: they serve to test that the properties can tell the code from a broken
variant of it.

### 2.1 SyncState and DriveSync: `drive +sync`

`SyncState` has the pure part: `LoadState`, `Insert` (SyncState::insert with its
index and its moves), `PlanTracked`, `PlanUntracked` and `Plan` (plan_sync).
`DriveSync` has runs, the user and Drive.

| action | code |
|---|---|
| `Start` | the checks, the lock, the state file (a corrupt one counts as empty) |
| `List` | one await: the children of a folder with the names `local_names` gives them |
| `Decide` | plan_sync for the next child, with the moves, records and conflicts it leads to; or its download begins |
| `Commit`, `DownloadRefused` | the end of that await: the file is renamed into place, or Drive refuses it |
| `Record` | the fingerprint of the file that was just written |
| `Finish`, `Stop`, `Save` | the end of the walk, a signal at an await, saving the state |
| `Crash` | the process is gone; files and state stay as they are, the lock is free |
| `DriveChange`, `UserTouch`, `UserLosesState` | the surroundings, as far as `Env` allows |

Abstractions: a file is its content (the shortcut by size and modification time
is taken to be exact); names are case-sensitive; the folder tree does not
change and each folder has one local directory; native types without an export
format and the error of two colliding prefixed names are left out. A save that
fails is a `Crash`; a second run that finds the lock taken is no step.

### 2.2 PullLoop, SubscribeStream, GmailWatch and EventDelivery: the streams

`PullLoop` is `run_stream` with the budget, the poll wait and the shutdown
latch, and Pub/Sub as far as the loop relies on it: a message is waiting, leased
or gone; a pull that times out may have leased; an acknowledgement may take
effect although its call failed; a lease runs out. `SubscribeStream` is the
consumer of `+subscribe`: an event is screened, written, and the batch is
acknowledged up to the first failure. `GmailWatch` is the consumer of `+watch`:
a notification only says that there is something newer, the mails come from the
history list, and a bounded memory (`EMITTED_MEMORY`) suppresses repetitions.

`EventDelivery` says in three variables what both promise: what is announced is
dealt with (output, dropped as blocked or undecodable) before it is settled. Both
consumers implement it under a refinement mapping (`AtLeastOnce`): a message of
`+subscribe` is itself the event, a notification of `+watch` stands for the mails
it announces that arrived during the session.

### 2.3 FileLock and TokenStore: a profile's files

`FileLock` numbers the lock files that have been at the path, so that a process
can hold a lock on a file that is no longer there. `OpenLock`, `TryLock` and
`CheckPath` (still_at_path) are three steps, as they are three system calls.

`TokenStore` has processes that each run one command at a time: `token`
(get_token_fresh: credentials and metadata are read one after the other, then
get_or_fetch under the lock, and once more with ForceRefresh after a 401),
`login` (from the saving on) and `logout` (clear under the lock, revoke, list and
remove the files without it). Any process may be killed wherever that can matter,
any cached token may expire, Google may reject or revoke. The history variable
`unlinked` becomes true when a logout removes the lock file of a process at
work: from then on two processes can be inside at once, and the guarantees below
hold until then.

Abstractions: tokens are numbered; a cache is unreadable only at the start; a
failed save is a kill; an entry in the expiry margin counts as fresh or not; a
write that continues after its command was cancelled, the encryption of the
files and the keystore are left out.

### 2.4 HttpClient, ResumableUpload and ApiCalls: requests

`HttpClient` is `client::send` inside `send_with_policy`. A caller starts with
`Request` and finds `result` when `phase` is "over". The request that is waited
for is in `wire`; once given up on it moves to `late`, from where the server may
still handle it. `Classify` is the decision after an answer: repeat, refresh
the token, or return; `NoAnswer` the one after none.

`ResumableUpload` has the loop of `executor/upload.rs` and an upload session that
keeps any part of a chunk, answers late, expires, and once may describe a different
upload. What was given to the client (`handed`, up to `sentEnd`) and what the server has
kept (`kept`) are told apart: a chunk counts as sent before there is a connection.
`ApiCalls` adds the commands of one request (a POST that creates, a POST with a
requestId, a DELETE) and a server that carries a request out, fails before or after it,
limits, refuses or redirects, and runs one of these jobs on the client.

Abstractions: URLs, headers, bodies and delays are left out; a chain of
redirects to other origins is one hop, since after the first only a GET without
credentials is sent; redirects within an origin are inside one attempt; equal late
copies count as one; the upload server redirects nothing to another origin.

### 2.5 Commands: everything that runs once and ends

Each of the following modules is a command, or a group of commands with one
shape, as one state machine with a `...Init`, a `...Next` and a conjunction
`...Correct` of named properties. `Commands` composes them: a behaviour is one of
the commands, picked at the start as `main.rs` picks a subcommand, and the
variables of the others stay as they were. `Accounts` is a composition itself:
several processes on the profiles, the key and the configuration.

| module | code | the state machine | what could be wrong |
|---|---|---|---|
| `Outcome` | `core/error.rs`, `confirm.rs` | operators: exit codes; which class of method with which body asks for which confirmation, and what the gate decides | used by the others |
| `Batch` | `executor/batch.rs` | groups with retries; a server that carries out calls one by one, answers late, in any order, with parts missing or repeated | `BatchTruthful`: what is said of each call is so; `BatchAtMostOnce`; `BatchExitHonest`; `BatchConfirmed` |
| `MethodCall` | `executor/mod.rs`, `operation.rs`, `pagination.rs`, `download.rs` | gate, request, pages by a server that repeats tokens, an operation polled, screening, a file or standard output | `PagesOnce`, `ListComplete`, `WriteIsSaid`, `OnlyScreened`, `MethodConfirmed`; it ends |
| `StreamSetup` | `events/subscribe.rs`, `gmail/watch.rs` | create topic, subscription, feed; roll back; clean up; every request may be carried out without an answer | `NothingForgotten`, `FeedKeepsTopic`, `UserTopicKept`, `SubscriptionFirst` |
| `Renewal` | `events/renew.rs` | runs on a timer while subscriptions age, get suspended and lapse | `NeverLapses`, `RenewReport`, `Reactivated` |
| `Source` | `auth/credentials.rs` | the source is determined, then read; files come and go in between | `NeverAnotherIdentity` |
| `SignIn` | `auth/flow.rs` | connections of anybody to a listener with few places | `OnlyOwnAnswer`; `RedirectServed` |
| `DiscoveryCache` | `core/discovery/` | loads and clears of several processes on one directory, with names that differ in case | `DocumentServed`, `ClearedForGood` |
| `Keystore`, `Accounts` | `auth/keystore.rs`, `auth/commands/`, `auth/profiles.rs`, `timezone.rs` | login, logout, use and run of several processes, each killed anywhere | `AlwaysReadable`, `ZoneOfAccount`, `NoSilentSwitch` |
| `RemoteEdit` | `calendar.rs` (+update, +rsvp), `drive.rs` (+move) | read, compute, write back, while others edit | `OthersStayInvited`, `FileKeepsParent` |
| `EventTimes` | `calendar.rs` (+insert, +update), `calendar/time.rs` | ends as dates, instants or local times in zones that skip or repeat an hour, checked twice, worked out from a length, merged into an event somebody else moves | `TimesAsSaid`, `EventIsARange`, `ZonesKept`, `PrecheckRight` |
| `ScriptSync` | `script.rs` | a project pulled to and pushed from a disk that may ignore case | `RoundTrip`, `RefusedWritesNothing`, `PushKeepsLocal` |
| `CalendarReads` | `calendar.rs`, `calendar/time.rs` | calendars picked by ID and name, read a few at once, each of which may fail; gaps between busy times, compared with a definition unit by unit | `AgendaWhole`, `AllBusyKnown`, `SlotsRight` |
| `ReplyRecipients` | `gmail/reply.rs` | every original message and every set of flags over a few addresses | `NobodyElseReached`, `NobodyLeftOut` |
| `Listing` | `http.rs` (paginate), `gmail/search.rs`, `workflows.rs` | four loops over pages with limits, repeated tokens, and messages that are gone when they are fetched | `LimitAnnounced`, `SearchContinues`, `ReportsWhole`, `PagesEnd` |
| `PageTable` | `formatter.rs` (PageStream) | rows of several pages under one header whose columns are those of the first page | `RowsAligned`, `NothingSilent` |
| `Outbound` | the writing helpers of Gmail, Chat, Calendar, Drive, Sheets, Docs, Tasks, Meet, Slides, Admin, and `modelarmor.rs` | the order of confirm, plan, read, screen, write, withhold and print for each of 26 actions, any of which may fail | `ConfirmedFirst`, `ScreenedFirst`, `DryRunQuiet`, `ChangeTold` |
| `SaveParts` | `gmail/download.rs`, `output_file.rs` | names chosen, then files written one by one, among files of another process, on disks that fold names or not | `NothingClobbered`, `PartsStand` |
| `Downloads` | `drive.rs` (+download, +export) | a file whose type decides whether to download, to export or to follow a shortcut; the advice in an error is followed | `AdviceWorks`, `OutputClean`, `LocalKept` |
| `DocText` | `docs/markdown.rs`, `docs.rs` | any events of a Markdown parser, flattened; the requests made of them; a document that carries these out one by one, where creating bullets removes tabs | `TextLooksWritten`, `LinesKept`, `ItemsKept`, `ListsKept`, `ParagraphsCover` |
| `Wizard` | `auth/setup/` | the stages of `auth setup`, forward and back, with steps that fail, a dry run or no terminal | `OneProject`, `NoteOfItsProject`, `ClientOfItsProject`, `DryRunKeeps` |
| `Scopes` | `auth/commands/login.rs`, `picker.rs`, `setup/tui.rs`, `scopes.rs` | templates and scopes ticked in any order, flags, the scopes asked for, and what a method's token is for | `PickerHonest`, `ServicesServed`, `DefaultReadsOnly`, `TokenFits` |
| `SkillFiles` | `generate_skills.rs` | runs of versions with different skills, filtered or killed, in a directory where the user keeps files | `HandWorkKept`, `NothingStarted`, `CompleteRunExact` |

Abstractions they share: a request with its retries is one step that is carried
out or not and answered or not (the client itself is `HttpClient`); a verdict of
Model Armor is one of clean, match, skipped, failed; texts, addresses and IDs are
model values. What each leaves out is said at its head.

## 3. Runs

Bounds are named in each module (`Max...`) and set in the `.cfg` files, which
instantiate the modules directly; `MCDriveSync` and `MCTokenStore` add the
values that are functions. Deadlock is checked in the `drive +sync` runs, where
something can always happen; the streams, token commands, calls and commands end,
so their `.cfg` files allow it.

| run | question | instance |
|---|---|---|
| `sync_user` | does any step destroy what only the user has; do records and index agree? | 2 processes, with and without `--overwrite`, 2 items of one name, 1 Drive change, 2 user changes, crashes, renames, reverts, lost state |
| `sync_mirror` | is an undisturbed run without a report a complete mirror? | root and sub-folder, 2 items (1 native) of one name, 2 Drive changes, crashes |
| `sync_tracked` | does every run end, is the saved state true, is a tracked file ever in its own way? | 2 processes, 2 items (1 native) over 2 names, 2 Drive changes, refusals, interrupts |
| `subscribe` | at least once; duplicates and endings with a reason; everything settles | 2 events, 2 sessions, batches of 2, budget 1 |
| `watch_session` | at least once for mails, repetition only beyond the memory | 3 mails by 2 changes of the mailbox and 1 undecodable notification, 2 sessions, batches of 2, memory 1, budget 1 |
| `token_shared` | does the lock exclude; one refresh; nothing lost, nothing foreign | 2 processes, 3 commands (at most 2 tokens, 1 login, 2 logouts), 2 logins with different scopes, 2 minted tokens |
| `api_calls` | nothing twice, no false "not found", uploads whole, every call ends | 3 attempts, 1 expiring token, an upload of 3 chunks with 1 failure in a row allowed |
| `commands` | does each command do what it says, once, to nobody else, and say what it has done? | below |
| `sync_inflight`, `watch_restart`, `token_logout`, `upload_resized` | a statement of the repository that the code does not keep (section 6) | the smallest instance that shows it |

Why the bounds are enough for the interesting cases:

* Two items and one name give every collision of names (prefix gained, lost,
  swapped); two names give the exchange of paths; two Drive changes give a rename
  followed by a takeover; one user change before and one after a run give the edit
  that a stale record would destroy. A third item adds only another partner for
  the same pairwise rules.
* Two sessions give one predecessor that died at any point; a budget of one gives
  the last tolerated failure and the one that is too many; two messages give a
  batch that fails in its middle. Three mails and a memory of one are the least with
  which a mail can be printed again: its window is listed again after a failure, when
  two others have been remembered since. One of the changes adds two mails, so that
  the third needs no third notification; the repetition does occur in the run.
* Two processes contend for the lock and three commands let a login or a logout
  fall between two token commands; the lock file can be removed and created again
  under a waiting process. Two tokens give an expired one and its successor.
* What no step can tell apart is one state: a local that is not looked at again is
  reset, a connection is the first of those left, a token expires when the cache or
  Google is about to be asked, whether the object is there is open for a delete only.
* Three attempts give a first, a middle and a last one; the same goes for three
  chunks. One expiry is the only one a request can survive.
* `commands`: 3 calls in groups of 2 give a group that fails before and after
  another; 3 page tokens one that is repeated at once or later; 2 subscriptions of
  lifetime 4, renewed every 2 within 3, one that is due and one that is not; 3
  connections for 2 places a listener that is full; 2 loads and a clear every order
  of their steps; 2 processes with 3 commands on 2 profiles a login, a logout and a
  run that overlap, with one key lost; 3 entries on up to 3 pages the limit within,
  at and after the end of a page; 3 attachments of 2 spellings a name that is
  claimed twice and the name it would be changed to; 3 rows of 2 columns on 3 pages
  a column that appears late; 2 cloud accounts and 2 projects a way back to another;
  3 skills over 2 runs one that is new, one that stays and one that is stale; 3
  commands of drive +download a refusal and the two that it advises. Time is 6 units
  in days of 3 (no change of the clocks), busy intervals are all sets of up to two.
  The times of an event are within 4 hours with the change of the clocks after the
  second, forward in one zone and back in the other, so that a time is skipped,
  one comes twice, and lengths of 1 and 2 begin or end there.
  In a Markdown document 3 events count: a block, text or break beyond the first item
  of a list and the first text of a block or item, so that there are nested
  lists, items of several blocks, and two lists; only the first text may hold a tab
  or a control character. The module was also checked on its own with 4 (5.1 million
  states). The scopes are a dozen of six services, with every sort of preset, one
  refusal and one earlier grant.

Liveness and fairness. `RunEnds`, `EveryEventSettles`, `OutageEnds`,
`EndsWhenTold`, `EveryMailEmitted`, `CommandEnds`, `CallEnds`, `MethodEnds` and
`RedirectServed` assume weak fairness of the steps of a process that is running
(`FairSpec` of each module; `MethodFair` and `SignFair` of `Commands`).
It is justified by the code's time limits: every await is a call that answers,
fails or times out (`--timeout`; with `--timeout 0` the network must answer), the
lock wait gives up after 60 seconds, back-off and poll waits are finite. No
process must start, nobody must send a signal, change a file or log in. Of the
surroundings only Pub/Sub is assumed to be fair: a message that waits is in some
pull again and again, and a deadline passes in the end. `EveryEventSettles` and
`EveryMailEmitted` say in their statement that they hold unless faults recur for
ever, `OutageEnds` that it is about an outage in which no step succeeds any more.
`RedirectServed` needs the listener to accept, answer and time out its connections,
which its loop and the deadline of each connection do, and not that anybody connects.

In the run `commands` a property is a conjunction of the named parts of section
2.5: `RightIdentity` (credentials, sign-in), `BystandersKept` (guests, parents,
recipients), `ReadsCorrect` (pages of a method, calendars, free slots, lists, searches
that go on, tables of several pages, Drive downloads), `WritesCorrect` (batches,
methods, outbound actions, skills, attachments and their names on disk, times of
events, the paragraphs of a Markdown document), `SetupsCorrect` (streams, wizard, scopes
of a login), `DocumentCorrect` (what the requests for a Markdown document make of it),
`CommandsEnd` (a method ends, the redirect is served: `MethodEnds` and `RedirectServed`
as one leads-to, as a behaviour is one command), and one for each of the others.
A counterexample names the command and so the part. The parts are grouped so that all
of a group is proved, but for `DocumentCorrect` and `CommandsEnd` (section 4).

Each property of each passing run is shown to be falsifiable: `PROJECT.json`
names for it a change of a modelled definition, of the kind a plausible bug would
make, under which TLC finds the property violated; for a conjunction several, in
each of the modules it is about. The type invariants of the modules of the other runs
are proved, and no longer part of the runs; that of `Commands` is both.

## 4. Theorems

The proofs hold for every value of the constants that satisfies the named
assumptions of the modules; they need no bound on runs, messages, processes,
attempts or sizes.

| theorem | says | inductive invariant |
|---|---|---|
| `DriveSync_proofs!IndexAlwaysConsistent`, `TypeCorrect` | the path index is the inverse of the records in every run's memory | `IndexInv`: types, one run at a time, the child in hand is known, saved paths are unique |
| `DriveSync_proofs!StateFileTrue` | unless a run is killed, a saved record describes the file at its path, where the user left it alone | `SavedInv`: with nobody running the saved records describe the disk; a run's own records and remembered moves do, but for the file just renamed into place; a state that is not dirty is the saved one |
| `DriveSync_proofs!TrackedFilesFollow` | unless a run is killed, a tracked path is a conflict only where the user touched it | `TrackedInv`: `SavedInv`; a file nobody touched is in a record or among the moves, or is a remainder the index no longer names; a run plans a path once |
| `DriveSync_proofs!MirrorIsComplete` | an undisturbed run without a report leaves a complete mirror | `MirrorInv`: a content is published once; what a run knows of an item was once true of it, and a record with today's remote side describes a copy of it; what was visited is current or still to do |
| `DriveSync_proofs!UserFilesSurvive` | no step destroys what only the user has, unless the user may edit a file during its download | `LossInv`: `IndexInv`, every recorded content came from Drive, and the path a download is headed for is not the user's |
| `SubscribeStream_proofs!DeliversAtLeastOnce`, `DuplicatesHaveAReason`, `SignalStopsPromptly`, `BudgetIsKept`, `TypeCorrect` | the stream implements `EventDelivery`; the reasons of duplicates; signals; the budget | `Inv`: `TypeOK`, `BudgetInv`, `BatchInv` (what is output and what is to be acknowledged are prefixes of the batch), `DealtInv`, `StopInv` |
| `GmailWatch_proofs!DeliversAtLeastOnce`, `DuplicatesAreOld`, `TypeCorrect` | the watch implements `EventDelivery`; a repetition is older than the memory | `WatchInv`: `TypeOK`, `BudgetInv`, `QueueInv`, `HistoryInv` (everything up to `last_history_id` is dealt with), `SettledInv`; and `MemoryInv` |
| `TokenStore_proofs!LockExcludes`, `RefreshedOnce` | mutual exclusion, one refresh | `Inv`: `Shape`, `LockInv` (who is at work holds the lock of the file at the path), `OneRefresh` |
| `TokenStore_proofs!NoForeignToken`, `TypeCorrect` | a command uses its own login's token | `TypeInv`: what a process knows at each place in its command |
| `TokenStore_proofs!UpdatesSurvive`, `RejectedGone` | no entry is lost, no replaced token comes back | `CacheInv`: between read and write a process has seen every entry, and what it will write holds the others' entries and no rejected token |
| `Setups_proofs!ReadableKept`, `AccountsTyped` | whatever processes overlap and die, what is encrypted can be read with the key there is | `AccountsInv`: `AccountsTypeOK`, `KeyInv` (who generates a key is alone, holds the lock and has found nothing encrypted since), `OpInv`, `AloneInv`, `AlwaysReadable`, `ZoneOfAccount` |
| `Setups_proofs!AccountsKept`, `Commands_proofs!AccountsHold` | a command acts as whom it did before, in that one's time zone; the same of every behaviour of `Commands` | the same; `AloneInv`: a command that met no other has seen the configuration it relies on |
| `Commands_proofs!IdentityRight` | credentials as asked for; only the own answer decides a sign-in | `IdentityInv`: the source that was determined is one that may be taken, and it is the one that is used; `SignInv`: what is known of each connection, that only the own state leads to a code |
| `Commands_proofs!OthersUnaffected` | nobody is affected who is not meant | `EditInv` (what is sent back is the guest list that was read with one change), `FolderInv`, `ReplyInv` |
| `Commands_proofs!BatchTold` | confirmations before the first call; no call twice; printed fates and exit code true | `BatchInv`: types; `GateInv`; `ServerInv` (what is still to be sent was never sent; a group is sent again only if all of it may be); `FateInv`, `PartsRight` (a verdict comes from a part of an answer, a fate from a verdict) |
| `Commands_proofs!ReadsHold` | what is read is whole or says what is missing; the free slots are those there are; a search goes on where it ended; rows stand under their columns | `MethodInv` (the token at hand is new; a page is printed when it came; what is printed passed the screening), `CalendarInv` (the calendars wanted are waiting, being read or there), `SlotsAre` (the gaps between busy times in the order of their start, each from where `Cursor` stands, are the free times), `ListInv` (all tokens were followed and the items are the entries before the next page; as many pages as tokens), `SearchInv` (while no token repeats, what was listed is a part of the list and the token stands for the place after it), `TableInv` (rows, columns and what was left out, said of all pages so far), `DownloadInv` (the advice fits the file it is about) |
| `Commands_proofs!WritesHold` | asked for and screened before; told after; nothing of somebody else replaced; events at the times that were said; paragraphs that cover the text | `BatchInv`, `MethodInv`, `OutboundInv` (what the steps of a helper that lie behind imply, over the rows of all 26 actions), `SkillsInv` (a directory in the output is the user's, as found, or rendered by this run), `PartsInv` (planned names differ on the disk there is, what was saved is there), `EventInv` (what was worked out of what was asked and read is a range in real time; an update sends what it read), `DocInv` (whatever the parser sends, the paragraphs so far follow each other and end where the open one begins) |
| `Commands_proofs!SetupsHold` | what is set up belongs together; scopes are those of the services chosen | `SetupInv` (what exists is known or said to be unsure; the topic goes after what needs it), `WizardInv` (the client at hand and the project agreed on belong together), `NoteInv` (where the project cannot change on the way, it is the one of `--project`, or chosen before there is a note), `ScopesInv` (the rows of the picker are scopes of the services chosen) |
| `Commands_proofs!CommandsTyped` | every variable of every command keeps its type | the inductive invariants of all commands, and the types of the variables that none of them needs (`SimpleTypes`, `RestTypes`); that an event is never before the first time there is takes `EventInv` |
| `Commands_proofs!RenewalHolds` | nothing lapses, the report is true | `RenewInv`: at each point of a run what is not yet renewed has time left until its turn |
| `Commands_proofs!DiscoveryHolds` | loads serve the right document, clears clear | `CacheInv`: what each loader knows of the file it looked at, whoever changes it meanwhile |
| `Commands_proofs!ScriptHolds` | pulls and pushes lose no file | `ScriptInv`: what a plan that was not refused says of the directory |
| `ApiCalls_proofs!PostedOnce` | a POST takes effect at most once | `CreateInv`: it is sent only while it surely had no effect, and once it may have had one no copy is on its way |
| `ApiCalls_proofs!RejectionIsFinal` | a rejected POST had no effect and will have none | `CreateInv` |
| `ApiCalls_proofs!MissingBefore` | an unremarked "not found" is true | `DeleteInv`: a DELETE may have taken effect only while the client remembers that it may |
| `ApiCalls_proofs!WholeFileKept`, `TypeCorrect` | after a successful upload the server has kept every unit of the file, unless it spoke of another upload; then every unit was at least given to the client | `UploadInv`: what was given to the client is a prefix of the file that ends at `sentEnd`, and the server has, or reports, the end only after it was given; `KeptInv`: while it spoke of no other upload, the server has kept every unit that it says it has |

The invariants are needed because none of the properties is inductive as it
stands. For `AtMostOnce`, for example, a state with `applied = 1` and a copy in
`late` satisfies the property and violates it a step later; `CreateInv` says that
such a state does not occur, because a POST is given up on only when the call is
over, and because a second attempt follows only a connection that was never made
or a 401. TLC confirms the inductive invariants of `DriveSync` (on the instance of
`sync_user`) and of `ApiCalls` (on that of `api_calls`) as well.

Every proof is by the same plan: `Init` implies the invariant; one lemma or one
step per action shows that the action keeps it; the invariant implies the
property; a temporal step closes. Lemmas about the operators (the first part of
`DriveSync_proofs` on `Insert` and `Plan`, `PullLoop_proofs` on the loop that both
streams share, `LeastOf`, `FromGoesOn` and the like in the proofs of the commands) are stated
once. A step of `Commands` is a step of one command and leaves the variables of the
others alone (`BatchAlone`, `MethodAlone`, ...), so that an invariant of a command's
own module carries over. `Setups_proofs` has the invariants of the commands whose
results others rely on, of what a command works out before it asks or prints, and of those
about one object or call (guest lists, replies, batches, script projects, methods);
`Commands_proofs` has those of the rest and the theorems about all.

What the theorems assume, beside the types of the constants:

* `StateFileTrue` and `TrackedFilesFollow`: `"crash" \notin Env`, that is, no run is
  killed. This is the code's limit and not the proof's: between the rename of a file
  and the save of the state a killed process leaves a file that no record describes.
  An interrupt (Ctrl-C, SIGTERM) is not a kill, the code saves after it, and is
  included; so are the user, Drive, other runs and a lost state file.
* `MirrorIsComplete`: `"revert" \notin Env` and `"editInFlight" \notin Env`. A record
  pairs the checksum of the listing with the content downloaded later, so an item that
  gets the listed content back after that looks unchanged; and a file the user edits
  during its download is replaced (the run `sync_inflight`). Killed runs are included.
* `UserFilesSurvive`: the step is not one of a run with `--overwrite`, and nobody edits
  a file while it is downloaded.
* That `NoValue` is none of the values it stands beside (`OutcomeAssumption`,
  `SetupAssumption`, `AskedAssumption`, `NothingAssumption`, `OpenParaAssumption`, ...):
  Rust's `None` is not a `Some`.
* Bounds that are not too small to hold what a module talks about: `MaxSkills` is at
  least 2, as one service of the model has two skills, `Horizon` as well, as free slots
  are asked for from 0 or 1 on, and `ListTurns` at least 1, as a search that begins with a
  token has one. A table has finitely many columns (`PageTableAssumption`).

Where the proofs changed the model: the arms of a CASE that overlapped (the choice of
a credentials source, the parsing of a callback) are IF and ELSE now, since the CASE of
TLA+ may pick any arm that applies and the code takes the first. The names of
attachments are chosen one per step (`PlanPart`, `PlanDone`), as the loop in
`gmail/download.rs` does, so that what holds of them is an invariant. `ListTurns = 0`
was allowed before the proof of `CommandsTyped`, though a search that goes on needs a token.

Only model-checked, not proved:

* everything about liveness (`RunEnds`, `EveryEventSettles`, `OutageEnds`,
  `EndsWhenTold`, `EveryMailEmitted`, `CommandEnds`, `CallEnds`, and `CommandsEnd` of
  `MethodEnds` and `RedirectServed`): TLAPS does not reason about fairness and ENABLED;
* `DocumentCorrect` (`TextLooksWritten`, `LinesKept`, `ItemsKept`, `ListsKept`): the
  requests made of a Markdown document are carried out one by one on a document of any
  length, and each that removes tabs moves all that follows. That is a fold over the
  requests whose state is a sequence, and the induction theorems of the library, which
  take an operator as a parameter, cannot be instantiated by the installed provers. What
  the requests are made from, paragraphs that follow each other and cover the text, is
  proved (`ParagraphsCover`).

Loops that the model takes step by step are proved by their invariant. Where a result is
worked out in one step over data of any length (the messages left of a search, the columns
of a page, the gaps between busy times), the proof has to do without an induction rule:
it characterises the result by a property and refutes the least argument at which that
would fail (`LeastOf`). No module declares a RECURSIVE operator; two have a recursive
function (`LeftOf`, and one in `KeysInOrder`), whose equation is proved in this way.

## 5. Where guarantees end

Stated in the properties as exceptions, because the code behaves so. Where a
comment says otherwise, it is quoted; no run of its own states these comments:

* `SavedIsTrue` and `TrackedNeverConflicts` do not survive a crash between a
  rename and the save, and `MirrorComplete` neither a local edit during a
  download nor an item that gets an old content back: the record pairs the
  fingerprint of the listing with the content downloaded later
  (`helpers/drive.rs:2079-2089`).
* `DuplicatesOnlyAfterMemory`: `helpers/gmail/watch.rs:19-20` says that mails
  already emitted in the session are not emitted twice; this holds as far as
  `EMITTED_MEMORY` reaches. A window of more than that many mails that is listed
  again is printed again.
* The guarantees of the cache lock end when a logout removes the lock file of a
  process at work (`unlinked`).
* `AtMostOnce`: a POST that is carried out, redirected (303) to another origin and
  answered there with a 401 is sent again after the refresh, although
  `transport/mod.rs:317-318` says that a 401 cannot duplicate anything.
* `NotFoundIsHonest`: a DELETE that is sent again after a refresh no longer knows
  that an earlier attempt may have deleted the object, since the flag is local to
  `client::send` (`core/client.rs:406-407`); likewise one redirected by 303.
* The resumable upload counts failures in a row. A server that forever advances by
  one byte and falls back again would keep it going; the model's server is honest
  or loses its way once.
* `NothingSkipped`: `executor/upload.rs:541` counts a chunk as sent before it is sent,
  and leaves it so when the connection is never made. A server that describes another
  upload can then make the client skip bytes that never left, and the upload ends well
  with a hole, although `executor/upload.rs:357-359` calls these the bytes that "this
  upload has transmitted so far", past which the check refuses to go on. What holds is
  that nothing is skipped that was not read and given to the client, and that a server
  which never spoke of another upload has the whole file.
* A file rewritten with the same size while it is uploaded arrives as a mixture.
* The moves of a sync are not part of its saved state: a file that an interrupted
  run was about to move is taken for the user's by the next one. Equal size and
  modification time are trusted without hashing (`helpers/drive.rs:1609`), and on a
  disk that ignores case two spellings of a path have one record each
  (`helpers/drive.rs:1466`); the model's files are their contents and its names
  are told apart.
* `WriteIsSaid`, `ChangeTold`: an answer whose body breaks off or is no JSON, or that
  lacks the ID a helper looks for, is an error that does not say that the change was made
  (`executor/mod.rs:817`, `helpers/http.rs:388-404`), although its status was a success
  and `helpers/http.rs:359` has noted the write; nor does `+unsubscribe` when its output
  fails. `+label` and `+trash` that fail part-way do not name the messages changed; they
  can be repeated.
* `FeedKeepsTopic`: a request for a feed whose answer is lost may come up after the
  roll-back has removed its topic, although `events/subscribe.rs:478` says that
  nothing will ever publish to it. A watch of a mailbox whose answer has no history ID
  stands, and its topic is removed all the same. The property is about a feed that
  Google has confirmed, or has said may still come up.
* `RenewReport`: of the failures of `+renew --all` only answers of the API count as
  worth a retry; one without an answer makes the run a permanent failure
  (`events/renew.rs:303`). `NeverLapses` needs a timer more frequent than `--within`: a
  subscription with exactly that time left is passed over.
* `AlwaysReadable` is about one configuration directory. The keyring's item is the
  same for all of them, while the lock and the search for encrypted files belong to
  one (`auth/keystore.rs:28-30`).
* `NoSilentSwitch` is about commands that do not overlap with others: a named login
  that overlaps with the first login of the default profile may take over
  (`auth/commands/login.rs:200-228`). `ZoneOfAccount`: a login that fails before it
  removes the cached zones leaves them for up to a day, and so does a command that was
  under way when the account changed and writes the zone it has asked for afterwards.
  The property does not rule these out; it says that there are no others.
* `NoteOfItsProject`: `Ctx::consent_note` is set for a project (`auth/setup/mod.rs:701`) and
  never taken back. After the user has gone back and chosen another project, the form
  for the client (`:715`) and the summary (`:795`) may show the first one's note and URL.
  Where the project cannot change, without a terminal or with `--project`, it is the right one.
* `OthersStayInvited`: the calendar is read and written without an etag
  (`helpers/calendar.rs`), so a guest added in between is uninvited.
* `DocumentServed`: a `cache clear` between two steps of a load can make it fail
  with an input/output error; it never gives the wrong document.
* `RoundTrip` needs a directory that holds nothing else: a pull does not remove what
  the project no longer has, and a push after a pull that failed part-way deletes
  the rest of the project.
* `PagesEnd`: `+search --page-token T` lists a page twice if the answer repeats T. At
  its limit `paginate` returns a token without looking whether it is a repetition.
* `RowsAligned`: plain rows of a CSV are as wide as those of their own page. A table
  whose first page is empty prints "(empty)" before the header of a later one.
* `ScopesCorrect`: of two scopes one of which is a dotted child of the other the
  child is dropped by its name (`contacts.other.readonly` below `contacts`).
* `HandWorkKept`: a kill during a write leaves a `.gwsr-output-` file, because of which
  the next run refuses to prune that directory; one between the removal of the file
  and of the directory leaves an empty directory. The comment that a failed run
  leaves the output untouched (`generate_skills.rs:164`) is about rendering.
* `ListsKept`: Docs takes a tab with which an item's own text begins for nesting. The
  levels are right where no text begins so.
* `WriteMarkdown` writes at the end the document had when it was read
  (`helpers/docs.rs:508-525`); an edit in between moves it.
* `logout` stops at the first file that another process has removed since it was
  listed (`auth/commands/logout.rs:198`), and a cancelled command may go on writing
  its cache entry after the lock is free (`auth/token_cache.rs:197`).

## 6. Disagreements between code and text

Each is a run that TLC answers with a counterexample; `PROJECT.json` quotes the
text.

* `sync_inflight` (`NoUserLoss`): the local file is judged before the download
  and replaced after it, so an edit in between is lost without `--overwrite`.
* `watch_restart` (`AckedOnlyAfterEmitted`): a session that starts again on its
  subscription begins at the mailbox's current history and acknowledges the
  notifications of older mails without emitting these.
* `token_logout` (`LoggedOut`): the files are listed and removed after the lock
  was released, so a refresh can write a token in between.
* `upload_resized` (`NothingUploaded`): "nothing was uploaded" is printed also
  when the server has the last byte and only the answer was lost. The
  single-request upload has the same message after a time-out.

Two more were met while modelling; the model does what the code does, and the
properties except it:

* `README.md:172` says of `auth login --services` that "`cloud-platform` is never
  included", but the picker's list is extended by every grantable scope of the
  Discovery document of a service that no preset covers
  (`auth/commands/picker.rs:284-345`), so that `auth login --write -s modelarmor` asks
  for `cloud-platform` (`ServicesServed`).
* `helpers/docs/markdown.rs:22-24` says that later paragraphs of a list item continue
  it "after a line break (U+000B)". A paragraph right after a code block does not: the
  item's paragraph is still open, so `Start(Paragraph)` begins nothing
  (`helpers/docs/markdown.rs:244-252`) and its text is put on the last line of the code.
  In the model this is a cut (`Cut` in `StartParagraph`), which `LinesKept` excepts. The
  text of a tight item after a quoted code block, a heading or a rule begins a
  bullet of its own.

## 7. Not modelled, and what is left

The map of `PROJECT.json` covers about a seventh of the repository's lines. Nearly
half of these are the tests inside the source files; of the code proper it is about a
quarter. Left out are, with the reasons:

* **Predicates and conversions over strings**: validation of arguments and URLs, MIME
  (composing and reading messages), HTML and Markdown as text, addresses, the forms
  dates and times are written in, JSON schemas, `--jq`. The repository tests them
  case by case; TLC would enumerate strings to repeat these cases.
* **Layout and wording**: widths of columns, colours, the terminal interface, help,
  errors and hints, completions, the rendering of skills.
* **Single requests**: helpers that make one request of their arguments and print the
  answer (People, Classroom, Keep, most of Sheets, Tasks and Slides, templates of
  Model Armor). What they share, the gate, the screening, the output that fails, is
  in `Outbound`.
* **Reports**: `auth status`, `auth export`, `schema`, the inventory.
* **Outside the program**: npm launcher, packaging, CI.

Left for later, in this order:

1. A proof of `DocumentCorrect`, part by part: the requests carried out one per step, with
   an invariant that relates each paragraph to where it stands after the tabs removed so far.
2. Reading a message (`gmail/message.rs`): which of the parts of a MIME tree is the
   body, and that what is shown, quoted and forwarded agree.
3. A run with two commands of different kinds at once where they share state: a
   stream that refreshes its token while its profile is logged out.
