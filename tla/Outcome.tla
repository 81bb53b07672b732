------------------------------- MODULE Outcome --------------------------------
(***************************************************************************)
(* What the commands of gwsr share.  How a command ends: the classes of    *)
(* GwsError with their exit codes, and the outcome of a command that       *)
(* carried out some of several calls (gwsr batch, events +renew --all).    *)
(* What it passes first: the confirmation gate (confirm.rs), which calls   *)
(* need a confirmation, and what the gate decides.  A call is seen as what *)
(* its Discovery method is (a delete, a sharing method, ...) and what its  *)
(* parameters and body ask for; a value the gate does not know counts as a *)
(* request for the dangerous thing.  The tables of method ids are one      *)
(* class each.                                                             *)
(***************************************************************************)
EXTENDS Naturals

CONSTANT NoValue

\* The verdict on one call: carried out, refused for now (408, 429, 5xx, a
\* rate-limit 403), refused for good.
CallStatus == {"ok", "retry", "perm"}

\* GwsError::exit_code; "retryable" is an Api error for which is_retryable.
ExitCode ==
  [ok |-> 0, api |-> 1, auth |-> 2, validation |-> 3, discovery |-> 4, other |-> 5,
   retryable |-> 6, unconfirmed |-> 7, config |-> 8, store |-> 9, network |-> 10,
   blocked |-> 11]

Ending == DOMAIN ExitCode

ASSUME OutcomeAssumption == NoValue \notin Ending /\ NoValue \notin CallStatus

\* Mutant: one retryable failure makes the whole outcome retryable.
PartialFailureAny(statuses) ==
  IF "retry" \in statuses THEN "retryable"
  ELSE IF "perm" \in statuses THEN "api" ELSE "ok"

\* Retryable only when every failure is; a permanent one is not mended by
\* running the command again.
PartialFailure(statuses) ==
  IF "perm" \in statuses THEN "api"
  ELSE IF "retry" \in statuses THEN "retryable" ELSE "ok"
------------------------------------------------------------------------------
Impact == {"destructive", "outbound"}

\* One class for each table of method ids; "plain" is a method of none.
MethodClass ==
  {"delete", "permanentDelete", "bodyDestructive", "permission", "userWrite",
   "outbound", "notifying", "autoReply", "groupSettings", "plain"}

\* The field a class looks at: absent (null or false), set to a value known to
\* be harmless, to the dangerous one, or to something unforeseen.
Ask == {"absent", "harmless", "dangerous", "unforeseen"}

\* The classes in which only the listed values are dangerous (a wipe command, a
\* setting that opens a group); in the others all but the harmless ones are.
ListsDangers == {"bodyDestructive", "groupSettings"}

\* body_requests_wipe, transfers_ownership_or_broad_edit, suspends_user,
\* notifies_attendees, enables_auto_reply, opens_group
AsksForIt(class, ask) ==
  ask = "dangerous" \/ (ask = "unforeseen" /\ class \notin ListsDangers)

\* The tables overlap: a permission method is an outbound method too.
InOutboundTable(class) == class \in {"outbound", "permission"}

\* method_impact
MethodImpact(class, ask) ==
  IF \/ class \in {"delete", "permanentDelete"}
     \/ class \in {"bodyDestructive", "permission", "userWrite"} /\ AsksForIt(class, ask)
    THEN {"destructive"}
  ELSE IF \/ InOutboundTable(class)
          \/ class \in {"notifying", "autoReply", "groupSettings"} /\ AsksForIt(class, ask)
    THEN {"outbound"}
  ELSE {}

\* may_be_gated: whether the command takes --yes.
MayBeGated(class) ==
  \/ class \in {"delete", "permanentDelete", "notifying", "autoReply",
                "groupSettings", "userWrite", "bodyDestructive"}
  \/ InOutboundTable(class)

\* What the gate knows of an invocation; require is GWSR_REQUIRE_CONFIRM.
Invocation == [yes : BOOLEAN, dryRun : BOOLEAN, interactive : BOOLEAN, require : BOOLEAN]

\* decide
Decide(impact, inv) ==
  LET gated == impact = "destructive" \/ inv.require
  IN  IF ~gated \/ inv.yes \/ inv.dryRun THEN "proceed"
      ELSE IF inv.interactive THEN "prompt" ELSE "refuse"
===============================================================================
