-------------------------------- MODULE Scopes --------------------------------
(***************************************************************************)
(* Which OAuth scopes `auth login` asks for (auth/commands/login.rs and    *)
(* picker.rs, the multi-select of auth/setup/tui.rs), and which of those   *)
(* granted a method's token is for (auth/scopes.rs).                       *)
(*                                                                         *)
(* A scope is its short name, split at the dots.  The presets and the      *)
(* Discovery documents are cut down to a few scopes of each sort; the      *)
(* identity scopes, which every login asks for, are left out.              *)
(***************************************************************************)
EXTENDS Outcome, SequencesExt

VARIABLES
  yStep,      \* off, pick, preset, consent, granted, over
  yLogin,     \* [mode, services]; services is NoValue without --services
  yRows,      \* the scopes the picker lists; none when it is not shown
  yTicked,    \* the rows ticked
  yTemplates, \* the template rows ticked
  yAll,       \* history: "a" was pressed since the last template
  yRequest,   \* the scopes asked for
  yGranted,   \* the scopes Google has granted
  yMethod,    \* the method called, [get, scopes]
  yToken,     \* the scope its token is for
  yEnd

scopesVars == <<yStep, yLogin, yRows, yTicked, yTemplates, yAll, yRequest, yGranted, yMethod, yToken, yEnd>>

Platform == <<"cloud-platform">>
Preset ==
  [readonly |-> {<<"drive", "readonly">>, <<"gmail", "readonly">>},
   write    |-> {<<"drive">>, <<"gmail", "modify">>},
   full     |-> {<<"drive">>, <<"gmail", "modify">>, <<"gmail", "settings", "basic">>, <<"pubsub">>, Platform}]

\* The scopes of the services' Discovery documents.
DocumentScopes ==
  [drive |-> {<<"drive">>, <<"drive", "file">>, <<"drive", "readonly">>},
   gmail |-> {<<"gmail", "metadata">>, <<"gmail", "modify">>, <<"gmail", "readonly">>},
   chat  |-> {<<"chat", "bot">>, <<"chat", "messages">>, <<"chat", "messages", "readonly">>},
   admin |-> {<<"admin", "user">>},
   modelarmor |-> {Platform}]

\* fixed_service_scopes: events has no scopes of its own name.
EventsRead == {<<"chat", "messages", "readonly">>, <<"drive", "readonly">>}
EventsWrite == {<<"pubsub">>}

LoginService == DOMAIN DocumentScopes \cup {"events"}
LoginMode == {"default", "write", "full", "custom"}
KnownScope == UNION ({Preset[p] : p \in DOMAIN Preset} \cup {DocumentScopes[s] : s \in DOMAIN DocumentScopes})

AppOnly(scope) == scope = <<"chat", "bot">>
AdminOnly(scope) == Head(scope) = "admin"
ReadOnly(scope) == Last(scope) = "readonly"
Partial(scope) == scope \in {<<"gmail", "metadata">>, <<"drive", "file">>}

\* is_subsumed: a dotted child of another one.
Subsumed(scope, scopes) == \E s \in scopes : IsStrictPrefix(s, scope)

\* scope_matches_service
BelongsTo(scope, service) ==
  IF service = "events" THEN scope \in EventsRead \cup EventsWrite
  ELSE scope # Platform /\ Head(scope) = service

OfServices(scopes, services) ==
  IF services = NoValue THEN scopes ELSE {s \in scopes : \E v \in services : BelongsTo(s, v)}

\* find_unmatched_services
Unmatched(scopes, services) ==
  {v \in services : IF v = "events" THEN ~(EventsRead \subseteq scopes)
                    ELSE \A s \in scopes : ~BelongsTo(s, v)}

\* scopes_from_doc: what a user can be granted, by default only to read (readonly_only).
Grantable(service, mode) ==
  {s \in DocumentScopes[service] : ~AppOnly(s) /\ (mode = "default" => ReadOnly(s))}

ScopesInit ==
  /\ yStep = "off" /\ yLogin = NoValue /\ yRows = {} /\ yTicked = {} /\ yTemplates = {} /\ yAll = FALSE
  /\ yRequest = {} /\ yGranted = {} /\ yMethod = NoValue /\ yToken = NoValue /\ yEnd = NoValue

ScopesEnd(ending) == yStep' = "over" /\ yEnd' = ending

\* filter_redundant_restrictive_scopes: gmail.metadata disables searching.
WithoutRestrictive(scopes) ==
  IF {<<"gmail", "modify">>, <<"gmail", "readonly">>} \cap scopes = {} THEN scopes
  ELSE scopes \ {<<"gmail", "metadata">>}

\* finalize_scopes
AskFor(scopes) == yRequest' = WithoutRestrictive(scopes) /\ yStep' = "consent" /\ UNCHANGED yEnd

\* --scopes asks for these and nothing else; only the default has a picker.
ScopesBegin(mode, services, interactive, custom) ==
  /\ yStep = "off"
  /\ yLogin' = [mode |-> mode, services |-> services]
  /\ \/ mode = "custom" /\ AskFor(custom)
     \/ /\ mode # "custom" /\ UNCHANGED <<yRequest, yEnd>>
        /\ yStep' = IF mode = "default" /\ interactive THEN "pick" ELSE "preset"
  /\ UNCHANGED <<yRows, yTicked, yTemplates, yAll, yGranted, yMethod, yToken>>

-------------------------------------------------------------------------------
\* The scopes listed: those of the project's enabled APIs, or the basic list.
ListedScopes(enabled) ==
  IF enabled = {} THEN Preset.readonly \cup Preset.full
  ELSE UNION {DocumentScopes[v] : v \in enabled}

\* picker_entries
RowsOf(entries, services) == OfServices({s \in entries : ~AppOnly(s)}, services)
Pickable(rows, services) == rows # {} /\ (services # NoValue => Unmatched(rows, services) = {})

\* What each template ticks.
Selects(template) ==
  IF template = "full" THEN {s \in yRows : ~AdminOnly(s) /\ ~Subsumed(s, yRows)}
  ELSE yRows \cap Preset[template]

\* The picker opens, or there is nothing for it to list, or the terminal fails.
PickerOpens(enabled) ==
  /\ yStep = "pick" /\ yRows = {}
  /\ LET rows == RowsOf(ListedScopes(enabled), yLogin.services)
     IN  \/ /\ Pickable(rows, yLogin.services)
            /\ yRows' = rows /\ yTicked' = rows \cap Preset.readonly /\ yTemplates' = {"readonly"}
            /\ UNCHANGED yStep
         \/ yStep' = "preset" /\ UNCHANGED <<yRows, yTicked, yTemplates>>
  /\ UNCHANGED <<yLogin, yAll, yRequest, yGranted, yMethod, yToken, yEnd>>

\* The other one of a scope and its .readonly.
Counterpart(scope) == IF ReadOnly(scope) THEN Front(scope) ELSE Append(scope, "readonly")

\* Mutant: both of them can be ticked.
TickAlone(scope) == yTicked \cup {scope}

Tick(scope) == (yTicked \cup {scope}) \ {Counterpart(scope)}

\* toggle_current on a scope: it is the user's own choice from here on.
ToggleRow(scope) ==
  /\ yStep = "pick" /\ scope \in yRows
  /\ yTicked' = IF scope \in yTicked THEN yTicked \ {scope} ELSE Tick(scope)
  /\ yTemplates' = {}
  /\ UNCHANGED <<yStep, yLogin, yRows, yAll, yRequest, yGranted, yMethod, yToken, yEnd>>

\* toggle_current on a template
ToggleTemplate(template) ==
  /\ yStep = "pick" /\ yRows # {}
  /\ IF template \in yTemplates
       THEN yTemplates' = yTemplates \ {template} /\ UNCHANGED <<yTicked, yAll>>
       ELSE yTemplates' = {template} /\ yTicked' = Selects(template) /\ yAll' = FALSE
  /\ UNCHANGED <<yStep, yLogin, yRows, yRequest, yGranted, yMethod, yToken, yEnd>>

\* toggle_all ticks the templates too.
ToggleAll ==
  /\ yStep = "pick" /\ yRows # {}
  /\ LET all == yTicked = yRows /\ yTemplates = DOMAIN Preset
     IN  /\ yTicked' = IF all THEN {} ELSE yRows
         /\ yTemplates' = IF all THEN {} ELSE DOMAIN Preset
         /\ yAll' = ~all
  /\ UNCHANGED <<yStep, yLogin, yRows, yRequest, yGranted, yMethod, yToken, yEnd>>

\* Mutant: what any row listed covers is left out.
ChosenOfListed == {s \in yTicked : ~Subsumed(s, yRows)}

\* selected_from_items: what another ticked row covers is left out.
Chosen == {s \in yTicked : ~Subsumed(s, yTicked)}

ConfirmPick ==
  /\ yStep = "pick" /\ yRows # {}
  /\ IF Chosen = {} THEN ScopesEnd("validation") /\ UNCHANGED yRequest ELSE AskFor(Chosen)
  /\ UNCHANGED <<yLogin, yRows, yTicked, yTemplates, yAll, yGranted, yMethod, yToken>>

CancelPick ==
  /\ yStep = "pick" /\ yRows # {} /\ ScopesEnd("validation")
  /\ UNCHANGED <<yLogin, yRows, yTicked, yTemplates, yAll, yRequest, yGranted, yMethod, yToken>>

-------------------------------------------------------------------------------
PresetOf(mode) == IF mode = "default" THEN Preset.readonly ELSE Preset[mode]

\* append_fixed_service_scopes
FixedScopes(services, mode) ==
  IF "events" \notin services THEN {} ELSE EventsRead \cup (IF mode = "default" THEN {} ELSE EventsWrite)

PresetBase(mode, services) == OfServices(PresetOf(mode), services)

\* Mutant: the scopes of events make the services they belong to look covered.
LackingAfterFixed(mode, services) ==
  Unmatched(PresetBase(mode, services) \cup FixedScopes(services, mode), services) \ {"events"}

\* The services whose scopes are looked up.
Lacking(mode, services) == Unmatched(PresetBase(mode, services), services) \ {"events"}

\* augment_with
Augmented(mode, services) ==
  PresetBase(mode, services) \cup (UNION {Grantable(v, mode) : v \in Lacking(mode, services)})
    \cup FixedScopes(services, mode)

\* "failed" are the documents that cannot be had.
PresetScopes(failed) ==
  /\ yStep = "preset"
  /\ \/ yLogin.services = NoValue /\ failed = {} /\ AskFor(PresetOf(yLogin.mode))
     \/ /\ yLogin.services # NoValue /\ failed \subseteq Lacking(yLogin.mode, yLogin.services)
        /\ IF failed # {} \/ \E v \in Lacking(yLogin.mode, yLogin.services) : Grantable(v, yLogin.mode) = {}
             THEN ScopesEnd("validation") /\ UNCHANGED yRequest
             ELSE AskFor(Augmented(yLogin.mode, yLogin.services))
  /\ UNCHANGED <<yLogin, yRows, yTicked, yTemplates, yAll, yGranted, yMethod, yToken>>

\* The user grants what is asked for, or all but one of it; earlier grants of the
\* account stay.
Consent(refused, earlier) ==
  /\ yStep = "consent"
  /\ yGranted' = (yRequest \ refused) \cup earlier
  /\ yStep' = "granted"
  /\ yRows' = {} /\ yTicked' = {} /\ yTemplates' = {} /\ yAll' = FALSE
  /\ UNCHANGED <<yLogin, yRequest, yMethod, yToken, yEnd>>

-------------------------------------------------------------------------------
\* Methods, with the scopes of which any one will do, in the order of the document.
ScopedMethod ==
  {[get |-> TRUE, scopes |-> <<<<"drive">>, <<"drive", "file">>, <<"drive", "readonly">>>>],
   [get |-> FALSE, scopes |-> <<<<"drive", "file">>, <<"drive">>>>],
   [get |-> TRUE, scopes |-> <<<<"gmail", "metadata">>, <<"gmail", "modify">>, <<"gmail", "readonly">>>>],
   [get |-> TRUE, scopes |-> <<<<"gmail", "modify">>, <<"gmail", "readonly">>, <<"gmail", "settings", "basic">>>>],
   [get |-> FALSE, scopes |-> <<<<"chat", "bot">>, <<"chat", "messages">>>>]}

\* Mutant: the narrowest name comes first.
BetterNarrow(a, b, method) == Len(a) > Len(b)

\* Whether it reads, or writes, as the method does.
Suits(scope, method) == ReadOnly(scope) <=> method.get

\* The order of min_by_key: what suits the method, then the narrowest.  Equals are left
\* to the order of the document.
Better(a, b, method) ==
  \/ Suits(a, method) /\ ~Suits(b, method)
  \/ (Suits(a, method) <=> Suits(b, method)) /\ Len(a) > Len(b)

\* Mutant: every granted scope is as good.
PoolAll(scopes, usable) == usable

\* Scopes that hide data only when there is no other.
Pool(scopes, usable) ==
  LET whole == {i \in usable : ~Partial(scopes[i])} IN IF whole = {} THEN usable ELSE whole

\* select_for_method
TokenScope(method, granted) ==
  LET usable == {i \in DOMAIN method.scopes : method.scopes[i] \in granted}
      pool == Pool(method.scopes, usable)
      best == {i \in pool : \A j \in pool : ~Better(method.scopes[j], method.scopes[i], method)}
  IN  IF usable = {} THEN Head(method.scopes)
      ELSE method.scopes[CHOOSE i \in best : \A j \in best : i <= j]

\* scopes_for_method: a scope that was not granted is asked for with a warning.
UseMethod(method) ==
  /\ yStep = "granted"
  /\ yMethod' = method /\ yToken' = TokenScope(method, yGranted)
  /\ ScopesEnd("ok")
  /\ UNCHANGED <<yLogin, yRows, yTicked, yTemplates, yAll, yRequest, yGranted>>

ScopesNext ==
  \/ /\ yStep = "off"
     /\ \E mode \in LoginMode, services \in {NoValue} \cup ((SUBSET LoginService) \ {{}}), interactive \in BOOLEAN,
           custom \in SUBSET {<<"gmail", "metadata">>, <<"gmail", "readonly">>, Platform} \ {{}} :
          ScopesBegin(mode, services, interactive, custom)
  \/ \E enabled \in SUBSET {"drive", "chat", "admin"} : PickerOpens(enabled)
  \/ \E scope \in KnownScope : ToggleRow(scope)
  \/ (\E template \in DOMAIN Preset : ToggleTemplate(template)) \/ ToggleAll \/ ConfirmPick \/ CancelPick
  \/ \E failed \in SUBSET LoginService : PresetScopes(failed)
  \/ \E refused \in {{}} \cup {{s} : s \in yRequest}, earlier \in SUBSET {<<"gmail", "metadata">>} : Consent(refused, earlier)
  \/ \E method \in ScopedMethod : UseMethod(method)

-------------------------------------------------------------------------------
ScopesTypeOK ==
  /\ yStep \in {"off", "pick", "preset", "consent", "granted", "over"}
  /\ yLogin \in [mode : LoginMode, services : {NoValue} \cup SUBSET LoginService] \cup {NoValue}
  /\ yRows \subseteq KnownScope /\ yTicked \subseteq yRows /\ yTemplates \subseteq DOMAIN Preset
  /\ yAll \in BOOLEAN /\ yRequest \subseteq KnownScope /\ yGranted \subseteq KnownScope
  /\ yMethod \in ScopedMethod \cup {NoValue} /\ yToken \in KnownScope \cup {NoValue}
  /\ yEnd \in Ending \cup {NoValue}

\* What the picker shows is what it asks for.  A template that is ticked means that
\* exactly its scopes are, and a scope and its .readonly are not both (unless "a"
\* ticked everything); and the login asks for nothing that is not ticked, and leaves
\* out only what something else it asks for covers.
PickerHonest ==
  /\ ~yAll => /\ \A t \in yTemplates : yTicked = Selects(t)
              /\ \A s \in yTicked : ~(ReadOnly(s) /\ Front(s) \in yTicked)
  /\ yStep = "consent" /\ yRows # {} =>
       /\ yRequest \subseteq yTicked
       /\ \A s \in yTicked \ yRequest :
            Subsumed(s, yRequest) \/ s = <<"gmail", "metadata">>

\* A login for some services asks for something of each, nothing of any other, and
\* with --write or --full for more than reading wherever there is more; events makes
\* no other service look covered.  cloud-platform is asked for only where it is the
\* scope of a service's own document.
ServicesServed ==
  yStep = "consent" /\ yLogin.services # NoValue /\ yLogin.mode # "custom" =>
    /\ \A s \in yRequest \ {Platform} : \E v \in yLogin.services : BelongsTo(s, v)
    /\ Platform \in yRequest => "modelarmor" \in yLogin.services
    /\ yRows = {} =>
         /\ \A v \in yLogin.services \ {"events"} :
              \E s \in yRequest \cap DocumentScopes[v] : yLogin.mode = "default" <=> ReadOnly(s)
         /\ "events" \in yLogin.services =>
              /\ EventsRead \subseteq yRequest
              /\ EventsWrite \subseteq yRequest <=> yLogin.mode # "default"

\* Nothing is asked for that only an app can have, nor, without a picker or an option
\* that says so, anything but reading.
DefaultReadsOnly ==
  yStep = "consent" /\ yLogin.mode # "custom" =>
    /\ \A s \in yRequest : ~AppOnly(s)
    /\ yLogin.mode = "default" /\ yRows = {} => \A s \in yRequest : ReadOnly(s)

\* A method that a grant allows is called with that grant, one that shows all the data
\* where there is one, and that cannot write where the method only reads.
TokenFits ==
  yToken # NoValue =>
    LET usable == ToSet(yMethod.scopes) \cap yGranted
        whole == {s \in usable : ~Partial(s)}
    IN  /\ usable # {} => yToken \in usable
        /\ whole # {} => yToken \in whole
        /\ yMethod.get /\ (\E s \in whole : ReadOnly(s)) => ReadOnly(yToken)

ScopesCorrect == PickerHonest /\ ServicesServed /\ DefaultReadsOnly /\ TokenFits
===============================================================================
