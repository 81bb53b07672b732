-------------------------------- MODULE Renewal --------------------------------
(***************************************************************************)
(* events +renew: renews (or with --reactivate reactivates) one Workspace  *)
(* Events subscription, or with --all every one that needs it.  The        *)
(* command is run again and again, as by a timer, while the subscriptions  *)
(* grow older; one whose lifetime has run out is gone.                     *)
(*                                                                         *)
(* Time is counted in units of which a run takes none.  A request is one   *)
(* step with its retries.                                                  *)
(***************************************************************************)
EXTENDS Outcome, FiniteSets

CONSTANTS
  Subscription,
  Lifetime,     \* the maximum lifetime, which ttl=0s asks for
  Within,       \* --within
  Every,        \* the timer: at most this long between two runs
  ListTokens    \* bound: page tokens of subscriptions.list

ASSUME RenewalAssumption ==
  Lifetime \in Nat \ {0} /\ Within \in Nat /\ Every \in Nat \ {0} /\ ListTokens \in Nat

VARIABLES
  rStep,       \* "off" before the first run; list, renew; "over" between runs
  rMode,       \* what the timer runs: one named subscription or all, and --reactivate
  rClean,      \* whether Google answers every request of these runs well
  rLeft,       \* for each subscription, the time it has left; 0 is gone
  rSuspended,  \* the suspended subscriptions
  rAge,        \* time since the last run began
  rListed,     \* subscriptions on the pages read so far
  rFollowed,   \* page tokens followed (PageTokens)
  rToDo,       \* subscriptions still to renew
  rTotal,      \* all this run selected
  rRenewed,    \* subscriptions reported as renewed
  rFailed,     \* those reported as failed
  rErrors,     \* the classes of the failures
  rFresh,      \* history: subscriptions Google has renewed in this run
  rEnd

rList == <<rListed, rFollowed>>
rReport == <<rRenewed, rFailed, rErrors, rFresh>>
rGoogle == <<rLeft, rSuspended>>
rSetting == <<rMode, rClean>>
renewVars == <<rStep, rSetting, rGoogle, rAge, rList, rToDo, rTotal, rReport, rEnd>>

Alive == {s \in Subscription : rLeft[s] > 0}

RenewInit ==
  /\ rStep = "off" /\ rMode = NoValue /\ rClean = FALSE
  /\ rLeft = [s \in Subscription |-> Lifetime]
  /\ rSuspended = {}
  /\ rAge = 0
  /\ rListed = {} /\ rFollowed = {} /\ rToDo = {} /\ rTotal = {}
  /\ rRenewed = {} /\ rFailed = {} /\ rErrors = {} /\ rFresh = {}
  /\ rEnd = NoValue

\* A timer is set up for one kind of run.
RenewBegin(mode, clean) ==
  /\ rStep = "off"
  /\ rMode' = mode /\ rClean' = clean
  /\ rStep' = "over"
  /\ UNCHANGED <<rGoogle, rAge, rList, rToDo, rTotal, rReport, rEnd>>

\* Between the runs time passes, and Google suspends subscriptions.
TimePasses ==
  /\ rStep = "over" /\ rAge < Every
  /\ rAge' = rAge + 1
  /\ rLeft' = [s \in Subscription |-> IF s \in Alive THEN rLeft[s] - 1 ELSE 0]
  /\ UNCHANGED <<rStep, rSetting, rSuspended, rList, rToDo, rTotal, rReport, rEnd>>

Suspends(s) ==
  /\ rStep = "over" /\ s \in Alive /\ ~rClean
  /\ rSuspended' = rSuspended \cup {s}
  /\ UNCHANGED <<rStep, rSetting, rLeft, rAge, rList, rToDo, rTotal, rReport, rEnd>>

\* A run begins: with the one subscription named, or with the first page.
RenewRun(named) ==
  /\ rStep = "over" /\ rAge > 0
  /\ rAge' = 0
  /\ rListed' = {} /\ rFollowed' = {}
  /\ rRenewed' = {} /\ rFailed' = {} /\ rErrors' = {} /\ rFresh' = {}
  /\ rToDo' = (IF rMode.named THEN {named} ELSE {}) /\ rTotal' = rToDo'
  /\ rStep' = IF rMode.named THEN "renew" ELSE "list"
  /\ rEnd' = NoValue
  /\ UNCHANGED <<rSetting, rGoogle>>

RunEnds(ending) == rStep' = "over" /\ rEnd' = ending

\* Mutant: a subscription is renewed when half the window is left.
NeedsRenewalLate(s) == rLeft[s] * 2 < Within

\* filter_subscriptions_to_renew: less than --within is left.
NeedsRenewal(s) == rLeft[s] < Within

\* Mutant: those about to expire, also when reactivating.
SelectedByExpiry(listed) == {s \in listed : NeedsRenewal(s)}

\* Reactivation is for suspended subscriptions, whatever their lifetime.
Selected(listed) ==
  IF rMode.reactivate THEN listed \cap rSuspended ELSE {s \in listed : NeedsRenewal(s)}

\* A page of subscriptions.list; the last one has no token.  A token given out
\* twice is an error, before anything is renewed.
ListPage(page, token) ==
  /\ rStep = "list"
  /\ rListed' = rListed \cup page
  /\ IF token = 0 THEN
       /\ rTotal' = Selected(rListed') /\ rToDo' = rTotal'
       /\ rStep' = "renew"
       /\ UNCHANGED <<rFollowed, rEnd>>
     ELSE IF token \in rFollowed THEN
       RunEnds("other") /\ UNCHANGED <<rFollowed, rTotal, rToDo>>
     ELSE
       rFollowed' = rFollowed \cup {token} /\ UNCHANGED <<rTotal, rToDo, rStep, rEnd>>
  /\ UNCHANGED <<rSetting, rGoogle, rAge, rReport>>

RequestError == {"network", "retryable", "api", "auth", "other"}

ListFails ==
  /\ rStep = "list" /\ ~rClean
  /\ \E e \in RequestError : RunEnds(e)
  /\ UNCHANGED <<rSetting, rGoogle, rAge, rList, rToDo, rTotal, rReport>>

\* Google carries out a renewal or a reactivation of a subscription it still has.
Refresh(s) ==
  /\ IF rMode.reactivate THEN rSuspended' = rSuspended \ {s} /\ UNCHANGED rLeft
     ELSE rLeft' = [rLeft EXCEPT ![s] = Lifetime] /\ UNCHANGED rSuspended
  /\ rFresh' = rFresh \cup {s}

\* Mutant: an operation that finished with an error counts as a renewal.
RenewedAnyhow(s) ==
  /\ rRenewed' = rRenewed \cup {s}
  /\ IF s \in Alive THEN Refresh(s) ELSE UNCHANGED <<rGoogle, rFresh>>

\* The operation is returned without an error.
Renewed(s) ==
  /\ s \in Alive
  /\ rRenewed' = rRenewed \cup {s}
  /\ Refresh(s)

\* The request fails, or the operation finished with an error; a renewal whose
\* answer is lost was carried out all the same.
Fails(s, error) ==
  /\ rFailed' = rFailed \cup {s}
  /\ rErrors' = rErrors \cup {error}
  /\ \/ UNCHANGED <<rGoogle, rFresh>>
     \/ s \in Alive /\ Refresh(s)

\* One renewal of --all, which goes on after a failure, or the only one.
RenewOne(s) ==
  /\ rStep = "renew" /\ s \in rToDo
  /\ rToDo' = rToDo \ {s}
  /\ \/ Renewed(s) /\ UNCHANGED <<rFailed, rErrors>>
     \/ /\ ~rClean \/ s \notin Alive
        /\ \E error \in RequestError : Fails(s, error)
        /\ UNCHANGED rRenewed
  /\ UNCHANGED <<rStep, rSetting, rAge, rList, rTotal, rEnd>>

\* Only an error of the API can make the whole retryable (retry_code).
StatusOf(error) == IF error = "retryable" THEN "retry" ELSE "perm"

\* The command's outcome: with one subscription it is that failure itself.
RenewOutcome ==
  IF rMode.named /\ rErrors # {} THEN CHOOSE e \in rErrors : TRUE
  ELSE PartialFailure({StatusOf(e) : e \in rErrors})

RenewDone ==
  /\ rStep = "renew" /\ rToDo = {}
  /\ RunEnds(RenewOutcome)
  /\ UNCHANGED <<rSetting, rGoogle, rAge, rList, rToDo, rTotal, rReport>>

Timer ==
  /\ rStep = "off"
  /\ \E mode \in [named : BOOLEAN, reactivate : BOOLEAN], clean \in BOOLEAN : RenewBegin(mode, clean)

\* The last page completes the list of the subscriptions there are; a Google that
\* answers well gives no token twice.
Listing ==
  /\ rStep = "list"
  /\ \E page \in SUBSET (Alive \ rListed), token \in 0..ListTokens :
       /\ token = 0 => Alive = rListed \cup page
       /\ rClean => token \notin rFollowed
       /\ ListPage(page, token)

RenewNext ==
  \/ Timer \/ TimePasses
  \/ \E s \in Subscription : Suspends(s) \/ RenewRun(s) \/ RenewOne(s)
  \/ Listing \/ ListFails \/ RenewDone

RenewSpec == RenewInit /\ [][RenewNext]_renewVars

RenewTypeOK ==
  /\ rStep \in {"off", "list", "renew", "over"}
  /\ rMode \in [named : BOOLEAN, reactivate : BOOLEAN] \cup {NoValue} /\ rClean \in BOOLEAN
  /\ rLeft \in [Subscription -> 0..Lifetime] /\ rAge \in 0..Every
  /\ rSuspended \subseteq Subscription /\ rListed \subseteq Subscription
  /\ rFollowed \subseteq 1..ListTokens
  /\ rToDo \subseteq rTotal /\ rTotal \subseteq Subscription
  /\ rRenewed \subseteq Subscription /\ rFailed \subseteq Subscription /\ rFresh \subseteq Subscription
  /\ rErrors \subseteq RequestError
  /\ rEnd \in Ending \cup {NoValue}

\* The report is true: when the renewals are through, every subscription selected
\* is renewed or failed and none is both, what is reported as renewed Google has
\* renewed, exit 0 means that none failed and exit 6 that each failure may be
\* gone later.
RenewReport ==
  rStep = "renew" /\ rToDo = {} =>
    /\ rRenewed \cup rFailed = rTotal /\ rRenewed \cap rFailed = {}
    /\ rRenewed \subseteq rFresh
    /\ RenewOutcome = "ok" <=> rFailed = {}
    /\ RenewOutcome = "retryable" => rErrors = {"retryable"}

\* A timer that runs +renew --all more often than --within, and whose runs Google
\* answers, keeps every subscription alive.  (With Every = Within it may lapse:
\* a subscription with exactly --within left is passed over.)
NeverLapses ==
  rClean /\ rMode = [named |-> FALSE, reactivate |-> FALSE] /\ Every < Within /\ Every < Lifetime
    => Alive = Subscription

\* When +renew --all --reactivate is through, each subscription that was suspended
\* is active again or reported as failed.
Reactivated ==
  [][rStep = "renew" /\ rStep' = "over" /\ rMode = [named |-> FALSE, reactivate |-> TRUE] =>
       rSuspended \cap Alive \subseteq rFailed]_renewVars

\* Renewals on a timer keep alive what they can, and their report is true.
RenewalCorrect == [](RenewReport /\ NeverLapses) /\ Reactivated

===============================================================================
