------------------------------- MODULE Commands -------------------------------
(***************************************************************************)
(* The commands of gwsr that do not stream, synchronise or upload, each in *)
(* a module of its own.  A behaviour is one of them: main.rs picks a       *)
(* subcommand, and what it needs of the others' state (credentials, a      *)
(* Discovery document) it is given as an input.                            *)
(***************************************************************************)
EXTENDS Batch, MethodCall, StreamSetup, Renewal, Source, SignIn, DiscoveryCache, RemoteEdit,
        ScriptSync, CalendarReads, ReplyRecipients, Accounts, Listing, SaveParts, Outbound,
        PageTable, Wizard, Scopes, SkillFiles, Downloads, DocText, EventTimes

VARIABLE command

Command ==
  {"batch", "method", "setup", "renew", "source", "sign", "discovery", "edit", "script",
   "calendar", "reply", "accounts", "list", "parts", "outbound", "table", "wizard",
   "scopes", "skills", "download", "document", "times"}

commandsVars ==
  <<command, batchVars, methodVars, setupVars, renewVars, sourceVars, signVars,
    discoveryVars, editVars, scriptVars, calendarVars, replyVars, accountVars, listVars,
    partsVars, outboundVars, tableVars, wizardVars, scopesVars, skillVars, downloadVars,
    docVars, eventVars>>

CommandsInit ==
  /\ command \in Command
  /\ BatchInit /\ MethodInit /\ SetupInit /\ RenewInit /\ SourceInit /\ SignInit
  /\ DiscoveryInit /\ EditInit /\ ScriptInit /\ CalendarInit /\ ReplyInit /\ AccountsInit
  /\ ListInit /\ PartsInit /\ OutboundInit /\ TableInit /\ WizardInit /\ ScopesInit
  /\ SkillsInit /\ DownloadInit /\ DocInit /\ EventInit
  /\ (command # "accounts" => kBackend = "file") /\ (command # "skills" => fDisk = << >>)

RunBatch ==
  /\ command = "batch" /\ BatchNext
  /\ UNCHANGED <<command, methodVars, setupVars, renewVars, sourceVars, signVars,
                discoveryVars, editVars, scriptVars, calendarVars, replyVars,
                accountVars, listVars, partsVars, outboundVars, tableVars, wizardVars,
                scopesVars, skillVars, downloadVars, docVars, eventVars>>

RunMethod ==
  /\ command = "method" /\ MethodNext
  /\ UNCHANGED <<command, batchVars, setupVars, renewVars, sourceVars, signVars,
                discoveryVars, editVars, scriptVars, calendarVars, replyVars,
                accountVars, listVars, partsVars, outboundVars, tableVars, wizardVars,
                scopesVars, skillVars, downloadVars, docVars, eventVars>>

RunSetup ==
  /\ command = "setup" /\ SetupNext
  /\ UNCHANGED <<command, batchVars, methodVars, renewVars, sourceVars, signVars,
                discoveryVars, editVars, scriptVars, calendarVars, replyVars,
                accountVars, listVars, partsVars, outboundVars, tableVars, wizardVars,
                scopesVars, skillVars, downloadVars, docVars, eventVars>>

RunRenew ==
  /\ command = "renew" /\ RenewNext
  /\ UNCHANGED <<command, batchVars, methodVars, setupVars, sourceVars, signVars,
                discoveryVars, editVars, scriptVars, calendarVars, replyVars,
                accountVars, listVars, partsVars, outboundVars, tableVars, wizardVars,
                scopesVars, skillVars, downloadVars, docVars, eventVars>>

RunSource ==
  /\ command = "source" /\ SourceNext
  /\ UNCHANGED <<command, batchVars, methodVars, setupVars, renewVars, signVars,
                discoveryVars, editVars, scriptVars, calendarVars, replyVars,
                accountVars, listVars, partsVars, outboundVars, tableVars, wizardVars,
                scopesVars, skillVars, downloadVars, docVars, eventVars>>

RunSign ==
  /\ command = "sign" /\ SignNext
  /\ UNCHANGED <<command, batchVars, methodVars, setupVars, renewVars, sourceVars,
                discoveryVars, editVars, scriptVars, calendarVars, replyVars,
                accountVars, listVars, partsVars, outboundVars, tableVars, wizardVars,
                scopesVars, skillVars, downloadVars, docVars, eventVars>>

RunDiscovery ==
  /\ command = "discovery" /\ DiscoveryNext
  /\ UNCHANGED <<command, batchVars, methodVars, setupVars, renewVars, sourceVars,
                signVars, editVars, scriptVars, calendarVars, replyVars, accountVars,
                listVars, partsVars, outboundVars, tableVars, wizardVars, scopesVars,
                skillVars, downloadVars, docVars, eventVars>>

RunEdit ==
  /\ command = "edit" /\ EditNext
  /\ UNCHANGED <<command, batchVars, methodVars, setupVars, renewVars, sourceVars,
                signVars, discoveryVars, scriptVars, calendarVars, replyVars,
                accountVars, listVars, partsVars, outboundVars, tableVars, wizardVars,
                scopesVars, skillVars, downloadVars, docVars, eventVars>>

RunScript ==
  /\ command = "script" /\ ScriptNext
  /\ UNCHANGED <<command, batchVars, methodVars, setupVars, renewVars, sourceVars,
                signVars, discoveryVars, editVars, calendarVars, replyVars, accountVars,
                listVars, partsVars, outboundVars, tableVars, wizardVars, scopesVars,
                skillVars, downloadVars, docVars, eventVars>>

RunCalendar ==
  /\ command = "calendar" /\ CalendarNext
  /\ UNCHANGED <<command, batchVars, methodVars, setupVars, renewVars, sourceVars,
                signVars, discoveryVars, editVars, scriptVars, replyVars, accountVars,
                listVars, partsVars, outboundVars, tableVars, wizardVars, scopesVars,
                skillVars, downloadVars, docVars, eventVars>>

RunReply ==
  /\ command = "reply" /\ ReplyNext
  /\ UNCHANGED <<command, batchVars, methodVars, setupVars, renewVars, sourceVars,
                signVars, discoveryVars, editVars, scriptVars, calendarVars,
                accountVars, listVars, partsVars, outboundVars, tableVars, wizardVars,
                scopesVars, skillVars, downloadVars, docVars, eventVars>>

RunAccounts ==
  /\ command = "accounts" /\ AccountsNext
  /\ UNCHANGED <<command, batchVars, methodVars, setupVars, renewVars, sourceVars,
                signVars, discoveryVars, editVars, scriptVars, calendarVars, replyVars,
                listVars, partsVars, outboundVars, tableVars, wizardVars, scopesVars,
                skillVars, downloadVars, docVars, eventVars>>

RunList ==
  /\ command = "list" /\ ListNext
  /\ UNCHANGED <<command, batchVars, methodVars, setupVars, renewVars, sourceVars,
                signVars, discoveryVars, editVars, scriptVars, calendarVars, replyVars,
                accountVars, partsVars, outboundVars, tableVars, wizardVars, scopesVars,
                skillVars, downloadVars, docVars, eventVars>>

RunParts ==
  /\ command = "parts" /\ PartsNext
  /\ UNCHANGED <<command, batchVars, methodVars, setupVars, renewVars, sourceVars,
                signVars, discoveryVars, editVars, scriptVars, calendarVars, replyVars,
                accountVars, listVars, outboundVars, tableVars, wizardVars, scopesVars,
                skillVars, downloadVars, docVars, eventVars>>

RunOutbound ==
  /\ command = "outbound" /\ OutboundNext
  /\ UNCHANGED <<command, batchVars, methodVars, setupVars, renewVars, sourceVars,
                signVars, discoveryVars, editVars, scriptVars, calendarVars, replyVars,
                accountVars, listVars, partsVars, tableVars, wizardVars, scopesVars,
                skillVars, downloadVars, docVars, eventVars>>

RunTable ==
  /\ command = "table" /\ TableNext
  /\ UNCHANGED <<command, batchVars, methodVars, setupVars, renewVars, sourceVars,
                signVars, discoveryVars, editVars, scriptVars, calendarVars, replyVars,
                accountVars, listVars, partsVars, outboundVars, wizardVars, scopesVars,
                skillVars, downloadVars, docVars, eventVars>>

RunWizard ==
  /\ command = "wizard" /\ WizardNext
  /\ UNCHANGED <<command, batchVars, methodVars, setupVars, renewVars, sourceVars,
                signVars, discoveryVars, editVars, scriptVars, calendarVars, replyVars,
                accountVars, listVars, partsVars, outboundVars, tableVars, scopesVars,
                skillVars, downloadVars, docVars, eventVars>>

RunScopes ==
  /\ command = "scopes" /\ ScopesNext
  /\ UNCHANGED <<command, batchVars, methodVars, setupVars, renewVars, sourceVars,
                signVars, discoveryVars, editVars, scriptVars, calendarVars, replyVars,
                accountVars, listVars, partsVars, outboundVars, tableVars, wizardVars,
                skillVars, downloadVars, docVars, eventVars>>

RunSkills ==
  /\ command = "skills" /\ SkillsNext
  /\ UNCHANGED <<command, batchVars, methodVars, setupVars, renewVars, sourceVars,
                signVars, discoveryVars, editVars, scriptVars, calendarVars, replyVars,
                accountVars, listVars, partsVars, outboundVars, tableVars, wizardVars,
                scopesVars, downloadVars, docVars, eventVars>>

RunDownload ==
  /\ command = "download" /\ DownloadNext
  /\ UNCHANGED <<command, batchVars, methodVars, setupVars, renewVars, sourceVars,
                signVars, discoveryVars, editVars, scriptVars, calendarVars, replyVars,
                accountVars, listVars, partsVars, outboundVars, tableVars, wizardVars,
                scopesVars, skillVars, docVars, eventVars>>

RunDoc ==
  /\ command = "document" /\ DocNext
  /\ UNCHANGED <<command, batchVars, methodVars, setupVars, renewVars, sourceVars,
                signVars, discoveryVars, editVars, scriptVars, calendarVars, replyVars,
                accountVars, listVars, partsVars, outboundVars, tableVars, wizardVars,
                scopesVars, skillVars, downloadVars, eventVars>>

RunEvent ==
  /\ command = "times" /\ EventNext
  /\ UNCHANGED <<command, batchVars, methodVars, setupVars, renewVars, sourceVars,
                signVars, discoveryVars, editVars, scriptVars, calendarVars, replyVars,
                accountVars, listVars, partsVars, outboundVars, tableVars, wizardVars,
                scopesVars, skillVars, downloadVars, docVars>>

CommandsNext ==
  \/ RunBatch \/ RunMethod \/ RunSetup \/ RunRenew \/ RunSource \/ RunSign
  \/ RunDiscovery \/ RunEdit \/ RunScript \/ RunCalendar \/ RunReply \/ RunAccounts
  \/ RunList \/ RunParts \/ RunOutbound \/ RunTable \/ RunWizard \/ RunScopes
  \/ RunSkills \/ RunDownload \/ RunDoc \/ RunEvent

\* The commands for which something must eventually happen.
CommandsFair == MethodFair /\ SignFair

CommandsSpec == CommandsInit /\ [][CommandsNext]_commandsVars /\ CommandsFair

CommandsTypeOK ==
  /\ command \in Command
  /\ command = "batch" => BatchTypeOK
  /\ command = "method" => MethodTypeOK
  /\ command = "setup" => SetupTypeOK
  /\ command = "renew" => RenewTypeOK
  /\ command = "source" => SourceTypeOK
  /\ command = "sign" => SignTypeOK
  /\ command = "discovery" => DiscoveryTypeOK
  /\ command = "edit" => EditTypeOK
  /\ command = "script" => ScriptTypeOK
  /\ command = "calendar" => CalendarTypeOK
  /\ command = "reply" => ReplyTypeOK
  /\ command = "accounts" => AccountsTypeOK
  /\ command = "list" => ListTypeOK
  /\ command = "parts" => PartsTypeOK
  /\ command = "outbound" => OutboundTypeOK
  /\ command = "table" => TableTypeOK
  /\ command = "wizard" => WizardTypeOK
  /\ command = "scopes" => ScopesTypeOK
  /\ command = "skills" => SkillsTypeOK
  /\ command = "download" => DownloadTypeOK
  /\ command = "document" => DocTypeOK
  /\ command = "times" => EventTypeOK

\* Nobody but those a command is about is affected by it: guests of an event others
\* have invited, the folders of a file, the people of a thread who get a reply.
BystandersKept == OthersStayInvited /\ FileKeepsParent /\ NobodyElseReached /\ NobodyLeftOut

\* The identity a command acts as is the one that was asked for: the source its
\* credentials are read from, and the answer of the browser it signs in with.
RightIdentity == NeverAnotherIdentity /\ OnlyOwnAnswer

\* What a command reads and shows is whole, or it says what is missing: the pages of a
\* method, calendars, lists with a limit and reports over all of a list, a search that
\* goes on where the last one ended, a table of several pages, files, free slots.
ReadsCorrect ==
  PagesOnce /\ ListComplete /\ OnlyScreened /\ AgendaWhole /\ AllBusyKnown
  /\ LimitAnnounced /\ ReportsWhole /\ PagesEnd /\ SearchContinues /\ TableCorrect
  /\ DownloadsCorrect /\ SlotsRight

\* What a command changes is asked for and screened first, and told even when a later
\* step fails: the calls of a batch, a method, messages and other writes, the generated
\* skills on disk, attachments, each of which gets a file and replaces no other's; an event
\* is written at the times that were said, and the paragraphs of a document cover its text.
WritesCorrect ==
  BatchCorrect /\ MethodConfirmed /\ WriteIsSaid /\ OutboundCorrect /\ SkillsCorrect
  /\ PartsStand /\ NothingClobbered /\ EventTimesCorrect /\ ParagraphsCover

\* What setting up leaves behind belongs together: the feed, subscription and topic of
\* a stream; the project, APIs and OAuth client of `auth setup`; the services chosen in a
\* login, the scopes it asks for and the methods they are good for.
SetupsCorrect == SetupCorrect /\ WizardCorrect /\ ScopesCorrect

\* A method comes to its end, and the redirect of the browser is served (MethodEnds and
\* RedirectServed as one formula, as a behaviour is one command).
Owed ==
  \/ command = "method" /\ mStep # "off" /\ mStep # "over"
  \/ command = "sign" /\ gStep = "wait" /\ \E c \in Connection : Redirect(c)
CommandsEnd == Owed ~> IF command = "method" THEN mStep = "over" ELSE gStep # "wait"

===============================================================================
