-------------------------------- MODULE Source ---------------------------------
(***************************************************************************)
(* Which credentials a command acts with (auth/credentials.rs): the first  *)
(* of the configured sources, by                                           *)
(*   GWSR_TOKEN | GWSR_TOKEN_FILE, GWSR_CREDENTIALS_FILE, the profile,     *)
(*   GOOGLE_APPLICATION_CREDENTIALS, gcloud's well-known file              *)
(* A source that is asked for and cannot be used is an error, never a      *)
(* reason to take the next one, which would be another identity.  The      *)
(* source is determined first and read afterwards; in between another      *)
(* process may write or remove a file.                                     *)
(***************************************************************************)
EXTENDS Outcome

VARIABLES
  oStep,     \* "off", source, load, over
  oAsked,    \* the environment and the flags
  oFile,     \* what each credentials file is at the moment
  oSource,   \* the source determined
  oUsed,     \* history: the kind of credential the command acts with
  oSawAbsent,  \* history: the files seen to be absent
  oEnd

sourceVars == <<oStep, oAsked, oFile, oSource, oUsed, oSawAbsent, oEnd>>

\* A credentials file: absent, not to be checked or read, invalid, or holding a
\* user's or a service account's credential.
FileState == {"missing", "unknown", "broken", "user", "service"}
CredentialFile == {"credentialsFile", "profile", "adcEnv", "adcWellKnown"}

\* ProfileSource
ProfileOrigin == {"flag", "envVar", "configFile", "default"}

Asked ==
  [token : BOOLEAN, tokenFile : BOOLEAN, credentialsFile : BOOLEAN, adcEnv : BOOLEAN,
   profile : ProfileOrigin, impersonate : BOOLEAN]

CredentialSource == {"tokenEnv", "tokenFile"} \cup CredentialFile

SourceInit ==
  /\ oStep = "off" /\ oAsked = NoValue
  /\ oFile = [f \in CredentialFile |-> "missing"]
  /\ oSource = NoValue /\ oUsed = NoValue /\ oSawAbsent = {} /\ oEnd = NoValue

\* A file that the environment would have to name is there only if it does.
SourceBegin(asked, files) ==
  /\ oStep = "off"
  /\ asked.credentialsFile \/ files.credentialsFile = "missing"
  /\ asked.adcEnv \/ files.adcEnv = "missing"
  /\ oStep' = "source" /\ oAsked' = asked /\ oFile' = files
  /\ UNCHANGED <<oSource, oUsed, oSawAbsent, oEnd>>

SourceEnds(ending) == oStep' = "over" /\ oEnd' = ending

\* The profile was selected for this command (--profile, GWSR_PROFILE).
PerCommandProfile == oAsked.profile \in {"flag", "envVar"}
ExplicitProfile == oAsked.profile # "default"

\* Mutant: what cannot be checked is taken for absent (Path::exists).
ThereUnchecked(f, kind, absent) ==
  CASE oFile[f] \in {"missing", "unknown"} -> absent
    [] OTHER -> f

\* path_exists: the file's name if it is there, an error of this kind if that
\* cannot be told, and "absent" otherwise.
There(f, kind, absent) ==
  CASE oFile[f] = "unknown" -> kind
    [] oFile[f] = "missing" -> absent
    [] OTHER -> f

\* GOOGLE_APPLICATION_CREDENTIALS, else gcloud's well-known file.
ApplicationDefault ==
  IF oAsked.adcEnv THEN There("adcEnv", "config", "config")
  ELSE There("adcWellKnown", "config", "auth")

\* The profile's credentials; only the default profile may do without.
ProfileSource ==
  There("profile", "store", IF ExplicitProfile THEN "auth" ELSE ApplicationDefault)

\* AuthEnv::source: a source, or the class of the error.
SourceOf ==
  IF oAsked.token /\ oAsked.tokenFile THEN "config"
  ELSE IF oAsked.token \/ oAsked.tokenFile THEN
    IF PerCommandProfile \/ oAsked.impersonate THEN "config"
    ELSE IF oAsked.token THEN "tokenEnv" ELSE "tokenFile"
  ELSE IF oAsked.credentialsFile THEN
    IF PerCommandProfile THEN "config" ELSE There("credentialsFile", "config", "config")
  ELSE ProfileSource

\* The files the decision found to be absent.
Absent(source) ==
  {f \in CredentialFile :
     /\ oFile[f] = "missing"
     /\ \/ f = "profile" /\ source \in {"adcEnv", "adcWellKnown"}
        \/ f = "adcEnv" /\ source = "adcWellKnown"}

FindSourceOf ==
  /\ oStep = "source"
  /\ LET source == SourceOf IN
       IF source \in CredentialSource THEN
         /\ oStep' = "load" /\ oSource' = source /\ UNCHANGED oEnd
         /\ oSawAbsent' = Absent(source)
       ELSE SourceEnds(source) /\ UNCHANGED <<oSource, oSawAbsent>>
  /\ UNCHANGED <<oAsked, oFile, oUsed>>

\* A pre-obtained token, or a token file with one.
LoadToken ==
  /\ oStep = "load" /\ oSource \in {"tokenEnv", "tokenFile"}
  /\ \/ oUsed' = "token" /\ SourceEnds("ok")
     \/ oSource = "tokenFile" /\ SourceEnds("config") /\ UNCHANGED oUsed
  /\ UNCHANGED <<oAsked, oFile, oSource, oSawAbsent>>

LoadError == IF oSource = "profile" THEN "store" ELSE "config"

\* The file as it is by now.  Impersonation takes a service account.
LoadCredential ==
  /\ oStep = "load" /\ oSource \in CredentialFile
  /\ LET holds == oFile[oSource] IN
       IF holds \notin {"user", "service"} THEN SourceEnds(LoadError) /\ UNCHANGED oUsed
       ELSE IF oAsked.impersonate /\ holds = "user" THEN SourceEnds("config") /\ UNCHANGED oUsed
       ELSE oUsed' = holds /\ SourceEnds("ok")
  /\ UNCHANGED <<oAsked, oFile, oSource, oSawAbsent>>

\* A login or logout of another process, or the user, between the two.
FileChanges(f, state) ==
  /\ oStep = "load" /\ oFile[f] # state
  /\ oFile' = [oFile EXCEPT ![f] = state]
  /\ UNCHANGED <<oStep, oAsked, oSource, oUsed, oSawAbsent, oEnd>>

SourceNext ==
  \/ oStep = "off" /\ \E asked \in Asked, files \in [CredentialFile -> FileState] : SourceBegin(asked, files)
  \/ FindSourceOf \/ LoadToken \/ LoadCredential
  \/ oStep = "load" /\ \E f \in CredentialFile : FileChanges(f, "missing") \/ FileChanges(f, "user")

SourceSpec == SourceInit /\ [][SourceNext]_sourceVars

SourceTypeOK ==
  /\ oStep \in {"off", "source", "load", "over"}
  /\ oAsked \in Asked \cup {NoValue}
  /\ oFile \in [CredentialFile -> FileState]
  /\ oSource \in CredentialSource \cup {NoValue}
  /\ oUsed \in {"token", "user", "service", NoValue}
  /\ oSawAbsent \subseteq CredentialFile
  /\ oEnd \in Ending \cup {NoValue}

\* No silent change of identity.  A command that goes on acts as what the user
\* asked for: a profile selected for it, or set in config.toml, is never replaced
\* by Application Default Credentials, the former not by the environment either;
\* a token or file in the environment comes before the profile; the default
\* credentials are taken only if the profile was seen to have none; and the
\* subject of an impersonation is never the user.
NeverAnotherIdentity ==
  oEnd = "ok" =>
    /\ PerCommandProfile => oSource = "profile"
    /\ oSource \in {"adcEnv", "adcWellKnown"} => ~ExplicitProfile /\ "profile" \in oSawAbsent
    /\ oSource = "adcWellKnown" => ~oAsked.adcEnv
    /\ oAsked.token \/ oAsked.tokenFile => oUsed = "token"
    /\ oAsked.credentialsFile /\ oUsed # "token" => oSource = "credentialsFile"
    /\ oAsked.impersonate => oUsed = "service"
===============================================================================
