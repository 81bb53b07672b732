-------------------------------- MODULE Wizard --------------------------------
(***************************************************************************)
(* gwsr auth setup (auth/setup/mod.rs): stages that ask gcloud, Google and *)
(* the user, between which the user goes forward and back, and which leave *)
(* behind gcloud's active account and project, enabled APIs, a consent     *)
(* screen and the saved OAuth client (auth/client_config.rs).              *)
(*                                                                         *)
(* Without a terminal, with --non-interactive and with --dry-run nothing   *)
(* is asked.  Nobody else changes gcloud's configuration meanwhile, and    *)
(* the user types the ID of a client of the project shown to him, or       *)
(* accepts the one that is filled in.                                      *)
(***************************************************************************)
EXTENDS Outcome

CONSTANTS
  CloudAccount,   \* Google accounts
  CloudProject    \* Google Cloud projects

MaybeProject == CloudProject \cup {NoValue}
WizardOptions == [interactive : BOOLEAN, dryRun : BOOLEAN, project : MaybeProject]
SavedClient == [of : CloudProject, project : MaybeProject]
SetupStatus == {"dry_run", "action_required", "success"}

ASSUME WizardAssumption ==
  /\ NoValue \notin CloudAccount \cup CloudProject
  /\ NoValue \notin SavedClient /\ NoValue \notin WizardOptions /\ NoValue \notin SetupStatus

VARIABLES
  zStage,     \* off, gcloud, account, project, create, apis, oauth, id, secret, finish, over
  zOpts,      \* [interactive, dryRun, project]: --project, or NoValue
  zGcloud,    \* gcloud's active [account, project], each of them or NoValue
  zAccount,   \* Ctx::account
  zProject,   \* Ctx::project_id
  zEnabledIn, \* the project Ctx::enable is of; NoValue before
  zManual,    \* Ctx::manual_steps, whether there are any
  zNote,      \* Ctx::consent_note: the project it speaks of; NoValue without one
  zTyped,     \* the project the client ID entered is of
  zClient,    \* the saved client: [of, project], the project it is of and the one it
              \* records, if it does; NoValue without one
  zFirst,     \* history: the saved client and gcloud's configuration at the start
  zChanged,   \* history: whether the command has changed anything at Google
  zStatus,    \* "status" of the JSON summary; NoValue before
  zEnd

wizardVars == <<zStage, zOpts, zGcloud, zAccount, zProject, zEnabledIn, zManual, zTyped,
                zNote, zClient, zFirst, zChanged, zStatus, zEnd>>

GcloudConfig == [account : CloudAccount \cup {NoValue}, project : MaybeProject]

WizardInit ==
  /\ zStage = "off" /\ zOpts = NoValue /\ zGcloud = NoValue /\ zAccount = NoValue /\ zProject = NoValue
  /\ zEnabledIn = NoValue /\ zManual = FALSE /\ zTyped = NoValue /\ zClient = NoValue
  /\ zNote = NoValue /\ zFirst = NoValue /\ zChanged = FALSE /\ zStatus = NoValue /\ zEnd = NoValue

WizardBegin(opts, config, client) ==
  /\ zStage = "off"
  /\ opts.dryRun => ~opts.interactive
  /\ client # NoValue => client.project \in {client.of, NoValue}
  /\ zStage' = "gcloud" /\ zOpts' = opts /\ zGcloud' = config /\ zClient' = client
  /\ zFirst' = [client |-> client, gcloud |-> config]
  /\ UNCHANGED <<zNote, zAccount, zProject, zEnabledIn, zManual, zTyped, zChanged, zStatus, zEnd>>

WizardEnds(ending) == zStage' = "over" /\ zEnd' = ending
WizardGoes(stage) == zStage' = stage /\ UNCHANGED zEnd

\* Esc in a picker or a prompt: "setup cancelled".
Cancels == zOpts.interactive /\ WizardEnds("validation")
\* GoBack.
BackTo(stage) == zOpts.interactive /\ WizardGoes(stage)
\* gcloud_err: gcloud could not be run, or failed.
GcloudFails == WizardEnds("auth")

WizardGcloud ==
  /\ zStage = "gcloud"
  /\ WizardGoes("account") \/ WizardEnds("validation") \/ GcloudFails
  /\ UNCHANGED <<zNote, zOpts, zGcloud, zAccount, zProject, zEnabledIn, zManual, zTyped, zClient, zFirst, zChanged, zStatus>>

\* The active account without asking, logging in if there is none; an account the
\* user picks, or logs in to, is made the active one.
WizardAccount ==
  /\ zStage = "account"
  /\ \/ /\ ~zOpts.interactive /\ zGcloud.account # NoValue
        /\ zAccount' = zGcloud.account /\ WizardGoes("project") /\ UNCHANGED zGcloud
     \/ /\ ~zOpts.interactive /\ zGcloud.account = NoValue /\ zOpts.dryRun
        /\ WizardEnds("validation") /\ UNCHANGED <<zAccount, zGcloud>>
     \/ /\ zOpts.interactive \/ (zGcloud.account = NoValue /\ ~zOpts.dryRun)
        /\ \E account \in CloudAccount :
             zGcloud' = [zGcloud EXCEPT !.account = account] /\ zAccount' = account
        /\ WizardGoes("project")
     \/ BackTo("gcloud") /\ UNCHANGED <<zAccount, zGcloud>>
     \/ (Cancels \/ GcloudFails) /\ UNCHANGED <<zAccount, zGcloud>>
  /\ UNCHANGED <<zNote, zOpts, zProject, zEnabledIn, zManual, zTyped, zClient, zFirst, zChanged, zStatus>>

\* The project is used from here on, and made gcloud's.
UseProject(project) ==
  /\ zProject' = project /\ zGcloud' = [zGcloud EXCEPT !.project = project]
  /\ WizardGoes("apis")

\* Mutant: --project is set in gcloud before --dry-run is looked at.
SetsProjectAlways == TRUE

SetsProject == ~zOpts.dryRun

\* --project; the current project without asking; a project picked or typed (one that
\* is no project ID is asked for again).
WizardProject ==
  /\ zStage = "project"
  /\ \/ /\ zOpts.project # NoValue /\ SetsProject /\ UseProject(zOpts.project)
     \/ /\ zOpts.project # NoValue /\ ~SetsProject
        /\ zProject' = zOpts.project /\ WizardGoes("apis") /\ UNCHANGED zGcloud
     \/ /\ zOpts.project = NoValue /\ ~zOpts.interactive
        /\ IF zGcloud.project = NoValue THEN WizardEnds("validation") /\ UNCHANGED zProject
           ELSE zProject' = zGcloud.project /\ WizardGoes("apis")
        /\ UNCHANGED zGcloud
     \/ /\ zOpts.project = NoValue /\ zOpts.interactive
        /\ \/ \E project \in CloudProject : UseProject(project)
           \/ WizardGoes("project") /\ UNCHANGED <<zProject, zGcloud>>
           \/ (WizardGoes("create") \/ BackTo("account") \/ Cancels) /\ UNCHANGED <<zProject, zGcloud>>
     \/ GcloudFails /\ UNCHANGED <<zProject, zGcloud>>
  /\ UNCHANGED <<zNote, zOpts, zAccount, zEnabledIn, zManual, zTyped, zClient, zFirst, zChanged, zStatus>>

\* create_project_loop: asks again after an ID that is none or that Google refuses.
\* Making the new project gcloud's may fail.
WizardCreate ==
  /\ zStage = "create"
  /\ \/ \E project \in CloudProject : UseProject(project) /\ zChanged' = TRUE
     \/ GcloudFails /\ zChanged' \in {zChanged, TRUE} /\ UNCHANGED <<zProject, zGcloud>>
     \/ (WizardGoes("create") \/ BackTo("project") \/ Cancels) /\ UNCHANGED <<zProject, zGcloud, zChanged>>
  /\ UNCHANGED <<zNote, zOpts, zAccount, zEnabledIn, zManual, zTyped, zClient, zFirst, zStatus>>

\* Going on without the result of this project's APIs would report another's.
WizardApis ==
  /\ zStage = "apis"
  /\ \/ zOpts.dryRun /\ WizardGoes("finish") /\ UNCHANGED <<zEnabledIn, zChanged>>
     \/ /\ ~zOpts.dryRun /\ WizardGoes("oauth")
        /\ zEnabledIn' = zProject /\ zChanged' = TRUE
     \/ (BackTo("project") \/ Cancels) /\ UNCHANGED <<zEnabledIn, zChanged>>
     \/ ~zOpts.dryRun /\ GcloudFails /\ UNCHANGED <<zEnabledIn, zChanged>>
  /\ UNCHANGED <<zNote, zOpts, zGcloud, zAccount, zProject, zManual, zTyped, zClient, zFirst, zStatus>>

\* Mutant: any saved client will do.
ClientStepsNeededAny == zClient = NoValue

\* noninteractive_client_steps: a client that records another project is not this one's.
ClientStepsNeeded ==
  zClient = NoValue \/ zClient.project \notin {NoValue, zProject}

\* configure_consent_screen, which leaves a note where it could not and an earlier
\* note where it could; then the client: asked for, or what is left to do.
WizardOauth ==
  /\ zStage = "oauth"
  /\ zNote' \in {zNote, zProject}
  /\ zChanged' \in {zChanged, TRUE}
  /\ \/ (\E e \in {"auth", "network", "other", "config"} : WizardEnds(e)) /\ UNCHANGED zManual
     \/ IF zOpts.interactive THEN WizardGoes("id") /\ UNCHANGED zManual
        ELSE zManual' = ClientStepsNeeded /\ WizardGoes("finish")
  /\ UNCHANGED <<zOpts, zGcloud, zAccount, zProject, zEnabledIn, zTyped, zClient, zFirst, zStatus>>

\* Mutant: whatever client is saved is filled in.
PrefillAny == IF zClient = NoValue THEN NoValue ELSE zClient.of

\* client_id_prefill: the project of the client ID that is filled in.
Prefill ==
  IF zClient = NoValue \/ zClient.project \notin {NoValue, zProject} THEN NoValue ELSE zClient.of

WizardClientId ==
  /\ zStage = "id"
  /\ \/ zTyped' \in {zProject, Prefill} \ {NoValue} /\ WizardGoes("secret")
     \/ (BackTo("apis") \/ WizardEnds("validation")) /\ UNCHANGED zTyped
  /\ UNCHANGED <<zNote, zOpts, zGcloud, zAccount, zProject, zEnabledIn, zManual, zClient, zFirst, zChanged, zStatus>>

\* save_client_config writes the file as a whole, or not at all.
WizardSecret ==
  /\ zStage = "secret"
  /\ \/ zClient' = [of |-> zTyped, project |-> zProject] /\ WizardGoes("finish")
     \/ (BackTo("apis") \/ \E e \in {"validation", "config", "store"} : WizardEnds(e)) /\ UNCHANGED zClient
  /\ UNCHANGED <<zNote, zOpts, zGcloud, zAccount, zProject, zEnabledIn, zManual, zTyped, zFirst, zChanged, zStatus>>

\* The summary; a login that follows is a command of its own.
WizardFinish ==
  /\ zStage = "finish"
  /\ \/ /\ zStatus' = IF zOpts.dryRun THEN "dry_run" ELSE IF zManual THEN "action_required" ELSE "success"
        /\ WizardEnds("ok")
     \/ \E e \in {"validation", "other"} : WizardEnds(e) /\ UNCHANGED zStatus
  /\ UNCHANGED <<zNote, zOpts, zGcloud, zAccount, zProject, zEnabledIn, zManual, zTyped, zClient, zFirst, zChanged>>

WizardNext ==
  \/ /\ zStage = "off"
     /\ \E opts \in WizardOptions, config \in GcloudConfig, client \in SavedClient \cup {NoValue} :
          WizardBegin(opts, config, client)
  \/ WizardGcloud \/ WizardAccount \/ WizardProject \/ WizardCreate \/ WizardApis
  \/ WizardOauth \/ WizardClientId \/ WizardSecret \/ WizardFinish

-------------------------------------------------------------------------------
WizardTypeOK ==
  /\ zStage \in {"off", "gcloud", "account", "project", "create", "apis", "oauth", "id",
                 "secret", "finish", "over"}
  /\ zOpts \in WizardOptions \cup {NoValue} /\ zGcloud \in GcloudConfig \cup {NoValue}
  /\ zAccount \in CloudAccount \cup {NoValue}
  /\ {zProject, zEnabledIn, zTyped, zNote} \subseteq MaybeProject
  /\ zManual \in BOOLEAN /\ zClient \in SavedClient \cup {NoValue}
  /\ zChanged \in BOOLEAN
  /\ zStatus \in SetupStatus \cup {NoValue} /\ zEnd \in Ending \cup {NoValue}

\* The account and the project of the summary, whatever the way there, are gcloud's,
\* the APIs listed are that project's, and success means that requests will be
\* billed to it.  (The note on the consent screen is NoteOfItsProject's.)
OneProject ==
  zStatus \in {"success", "action_required"} =>
    /\ zGcloud.account = zAccount /\ zGcloud.project = zProject /\ zEnabledIn = zProject
    /\ zStatus = "success" => zClient # NoValue /\ zClient.project \in {zProject, NoValue}

\* The note on the consent screen, shown with the form for the client and in the
\* summary, is of the project worked on if the project cannot change on the way:
\* without a terminal or with --project.  It is not if the user has gone back and chosen
\* another: nothing takes the first one's note away (auth/setup/mod.rs:696-701, 795).
NoteOfItsProject ==
  zNote \notin {zProject, NoValue} => zOpts.interactive /\ zOpts.project = NoValue

\* A client is saved under the project it is of, unless the one filled in never said
\* whose it was; and it is replaced only by a setup that comes to its end.
ClientOfItsProject ==
  /\ zClient # NoValue /\ zClient.project # NoValue =>
       zClient.of = zClient.project \/ zFirst.client.project = NoValue
  /\ zStage # "off" /\ zClient # zFirst.client => zStage \in {"finish", "over"}

\* A dry run changes nothing, at Google or in gcloud's configuration.
DryRunKeeps ==
  zOpts # NoValue /\ zOpts.dryRun =>
    ~zChanged /\ zGcloud = zFirst.gcloud /\ zClient = zFirst.client

WizardCorrect == OneProject /\ NoteOfItsProject /\ ClientOfItsProject /\ DryRunKeeps
===============================================================================
