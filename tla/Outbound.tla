------------------------------- MODULE Outbound -------------------------------
(***************************************************************************)
(* The helpers that change or send one thing (mail, a filter, a task, a    *)
(* sheet, a user, ...).  Each is a row of steps; they differ in which they *)
(* have and in what order:                                                 *)
(*                                                                         *)
(*   confirm   the confirmation gate, asked about this action              *)
(*   plan      a dry run ends here; otherwise credentials are looked up    *)
(*   read      what the change needs to know is read                       *)
(*   screen    Model Armor sees what is about to leave (screen_outgoing)   *)
(*   write     the request (what a repeated one does is HttpClient's)      *)
(*   content   a second request, about what the first one made             *)
(*   withhold  Model Armor sees what is about to be printed                *)
(*   print     the result                                                  *)
(***************************************************************************)
EXTENDS Outcome, Sequences

VARIABLES
  wSetting,   \* [action, mode, inv]: what was asked for, the mode of --sanitize
  wAt,        \* the step; 0 before the first
  wVerdict,   \* what Model Armor said last: "unasked", "clean", "match", "skipped" (its filters), "failed"
  wConfirmed, \* history: somebody agreed at the prompt
  wAsked,     \* history: credentials were used
  wDone,      \* history: Google, or the sender's list server, has made the change
  wKnown,     \* history: gwsr has read the answer that says so
  wFlagged,   \* the result carries _sanitization
  wPrinted,   \* the result was printed
  wSaid,      \* what the error says: "nothing" or "applied"
  wEnd

outboundVars == <<wSetting, wAt, wVerdict, wConfirmed, wAsked, wDone, wKnown, wFlagged, wPrinted, wSaid, wEnd>>

\* Mutant: the answer is screened instead of what is sent.
SendMailScreenLate == <<"confirm", "plan", "read", "write", "screen", "print">>

\* gmail +send.  A reply and a forward are delivered the same way.
SendMail == <<"confirm", "plan", "read", "screen", "write", "print">>
\* A draft leaves nobody's hands: no confirmation.
SaveDraft == <<"plan", "read", "screen", "write", "print">>
\* Mutant: nobody is asked.
UnsubscribeUnasked == <<"plan", "read", "screen", "write", "print">>

\* gmail +unsubscribe: what is confirmed is the host found in the message.
Unsubscribe == <<"plan", "read", "confirm", "screen", "write", "print">>
\* gmail +filter create
CreateFilter == <<"plan", "read", "screen", "write", "print">>
ForwardFilter == <<"confirm">> \o CreateFilter
DeleteFilter == <<"confirm", "plan", "write", "withhold", "print">>
\* gmail +label, +archive, +trash: one request after the other (here two).
ChangeLabels == <<"plan", "read", "write", "write", "withhold", "print">>
\* workflows +email-to-task, +file-announce
EmailToTask == <<"plan", "read", "write", "withhold", "print">>
AnnounceFile == <<"confirm", "plan", "read", "write", "withhold", "print">>
\* chat +send
PostMessage == <<"confirm", "plan", "write", "withhold", "print">>
\* admin +user-create; +user-suspend and --unsuspend, +group-add-member
CreateUser == <<"plan", "write", "withhold", "print">>
ChangeUser == <<"confirm", "plan", "write", "withhold", "print">>
\* sheets +append, +write, +create; +clear
ChangeSheet == <<"plan", "write", "withhold", "print">>
ClearSheet == <<"confirm">> \o ChangeSheet
\* docs +create with content; +write of Markdown, which goes where the document ends
CreateDocument == <<"plan", "write", "content", "withhold", "print">>
AppendToDocument == <<"plan", "read", "write", "withhold", "print">>
\* tasks +add, meet +create, slides +create
AddTask == <<"plan", "write", "withhold", "print">>
CreateMeeting == <<"plan", "write", "withhold", "print">>
CreateSlides == <<"plan", "write", "withhold", "print">>
\* calendar +insert, which asks when it mails invitations; what is read is the time
\* zone; +delete
InsertEvent == <<"plan", "read", "write", "withhold", "print">>
InviteGuests == <<"confirm">> \o InsertEvent
DeleteEvent == <<"confirm", "plan", "write", "withhold", "print">>
\* drive +share
ShareFile == <<"confirm", "plan", "write", "withhold", "print">>

Steps ==
  [sendMail |-> SendMail, saveDraft |-> SaveDraft, unsubscribe |-> Unsubscribe,
   createFilter |-> CreateFilter, forwardFilter |-> ForwardFilter, deleteFilter |-> DeleteFilter,
   changeLabels |-> ChangeLabels, emailToTask |-> EmailToTask, announceFile |-> AnnounceFile,
   postMessage |-> PostMessage, createUser |-> CreateUser, suspendUser |-> ChangeUser,
   restoreUser |-> ChangeUser, addMember |-> ChangeUser, changeSheet |-> ChangeSheet,
   clearSheet |-> ClearSheet, createDocument |-> CreateDocument, appendToDocument |-> AppendToDocument,
   addTask |-> AddTask, createMeeting |-> CreateMeeting, createSlides |-> CreateSlides,
   insertEvent |-> InsertEvent, inviteGuests |-> InviteGuests, deleteEvent |-> DeleteEvent,
   shareFile |-> ShareFile, shareWidely |-> ShareFile]

Action == DOMAIN Steps
Mode == {"off", "warn", "block"}
Setting == [action : Action, mode : Mode, inv : Invocation]

ASSUME OutboundAssumption == NoValue \notin Setting

\* The impact each names to the gate.
\* "shareWidely" makes another the owner, or lets a domain or everybody edit.
Destroys == {"deleteFilter", "suspendUser", "clearSheet", "deleteEvent", "shareWidely"}
ImpactOf(action) == IF action \in Destroys THEN "destructive" ELSE "outbound"

Has(action, step) == \E i \in DOMAIN Steps[action] : Steps[action][i] = step

OutboundInit ==
  /\ wSetting = NoValue /\ wAt = 0 /\ wVerdict = "unasked"
  /\ wConfirmed = FALSE /\ wAsked = FALSE /\ wDone = FALSE /\ wKnown = FALSE
  /\ wFlagged = FALSE /\ wPrinted = FALSE /\ wSaid = "nothing" /\ wEnd = NoValue

\* --yes is an argument of the commands that ask only.
OutboundBegin(action, mode, inv) ==
  /\ wSetting = NoValue
  /\ inv.yes => Has(action, "confirm")
  /\ wSetting' = [action |-> action, mode |-> mode, inv |-> inv]
  /\ wAt' = 1
  /\ UNCHANGED <<wVerdict, wConfirmed, wAsked, wDone, wKnown, wFlagged, wPrinted, wSaid, wEnd>>

At(step) ==
  /\ wSetting # NoValue /\ wEnd = NoValue
  /\ wAt <= Len(Steps[wSetting.action]) /\ Steps[wSetting.action][wAt] = step

Proceed == wAt' = wAt + 1 /\ UNCHANGED <<wSaid, wEnd>>
Fail(ending, says) == wEnd' = ending /\ wSaid' = says /\ UNCHANGED wAt

OutboundConfirm ==
  /\ At("confirm")
  /\ LET decision == Decide(ImpactOf(wSetting.action), wSetting.inv)
     IN  \/ decision # "refuse" /\ wConfirmed' = (decision = "prompt") /\ Proceed
         \/ decision # "proceed" /\ Fail("unconfirmed", "nothing") /\ UNCHANGED wConfirmed
  /\ UNCHANGED <<wSetting, wVerdict, wAsked, wDone, wKnown, wFlagged, wPrinted>>

OutboundPlan ==
  /\ At("plan")
  /\ IF wSetting.inv.dryRun THEN Fail("ok", "nothing") /\ UNCHANGED wAsked
     ELSE wAsked' = TRUE /\ (Proceed \/ Fail("auth", "nothing"))
  /\ UNCHANGED <<wSetting, wVerdict, wConfirmed, wDone, wKnown, wFlagged, wPrinted>>

\* A sender, labels, a file, the end of a document; what is not there, or not what
\* it must be (no one-click link in a message Gmail has verified), ends the command.
OutboundRead ==
  /\ At("read")
  /\ Proceed \/ \E e \in {"auth", "api", "network", "other", "validation"} : Fail(e, "nothing")
  /\ UNCHANGED <<wSetting, wVerdict, wConfirmed, wAsked, wDone, wKnown, wFlagged, wPrinted>>

\* Mutant: an answer whose filters did not all run counts as clean.
PassesSkipped(answer) == answer \in {"clean", "skipped"}

\* ensure_screened: no match counts only when every filter ran; no answer is no verdict.
Passes(answer) == answer = "clean"

\* One screening: in block mode what is not clean ends the command, in warn mode the
\* result is marked.
Screening(says) ==
  IF wSetting.mode = "off" THEN Proceed /\ UNCHANGED <<wVerdict, wFlagged>>
  ELSE \E answer \in {"clean", "match", "skipped", "failed"} :
         /\ wVerdict' = answer
         /\ IF Passes(answer) THEN Proceed /\ UNCHANGED wFlagged
            ELSE IF wSetting.mode = "warn" THEN Proceed /\ wFlagged' = TRUE
            ELSE /\ UNCHANGED wFlagged
                 /\ IF answer = "match" THEN Fail("blocked", says)
                    ELSE \E e \in {"auth", "api", "network", "other"} : Fail(e, says)

OutboundScreen ==
  /\ At("screen") /\ Screening("nothing")
  /\ UNCHANGED <<wSetting, wConfirmed, wAsked, wDone, wKnown, wPrinted>>

\* The request: refused; lost, with or without its effect; answered with a success
\* whose body cannot be used (it breaks off, it is no JSON, it has no id); answered.
OutboundWrite ==
  /\ At("write")
  /\ \/ \E e \in {"auth", "api", "validation"} : Fail(e, "nothing") /\ UNCHANGED <<wDone, wKnown>>
     \/ Fail("network", "nothing") /\ wDone' \in {wDone, TRUE} /\ UNCHANGED wKnown
     \/ (Fail("network", "nothing") \/ Fail("other", "nothing")) /\ wDone' = TRUE /\ UNCHANGED wKnown
     \/ Proceed /\ wDone' = TRUE /\ wKnown' = TRUE
  /\ UNCHANGED <<wSetting, wVerdict, wConfirmed, wAsked, wFlagged, wPrinted>>

\* docs +create: the document is there, and the error says so (content_write_failed).
OutboundContent ==
  /\ At("content")
  /\ Proceed \/ \E e \in {"auth", "api", "network", "other", "validation"} : Fail(e, "applied")
  /\ UNCHANGED <<wSetting, wVerdict, wConfirmed, wAsked, wDone, wKnown, wFlagged, wPrinted>>

\* note_applied_write.  +unsubscribe does not say that the request was made.
Note == IF wSetting.action = "unsubscribe" THEN "nothing" ELSE "applied"

OutboundWithhold ==
  /\ At("withhold") /\ Screening(Note)
  /\ UNCHANGED <<wSetting, wConfirmed, wAsked, wDone, wKnown, wPrinted>>

\* Mutant: a --jq expression that fails is an error like any other.
OutboundPrintBare ==
  /\ At("print")
  /\ \/ wPrinted' = TRUE /\ Fail("ok", "nothing")
     \/ \E e \in {"validation", "other"} : Fail(e, "nothing") /\ UNCHANGED wPrinted
  /\ UNCHANGED <<wSetting, wVerdict, wConfirmed, wAsked, wDone, wKnown, wFlagged>>

\* --jq, --format and standard output can fail.  A draft without an id is an error
\* after it was printed.
OutboundPrint ==
  /\ At("print")
  /\ \/ wPrinted' = TRUE /\ Fail("ok", "nothing")
     \/ wPrinted' = TRUE /\ wSetting.action = "saveDraft" /\ Fail("other", "nothing")
     \/ \E e \in {"validation", "other"} : Fail(e, Note) /\ UNCHANGED wPrinted
  /\ UNCHANGED <<wSetting, wVerdict, wConfirmed, wAsked, wDone, wKnown, wFlagged>>

OutboundNext ==
  \/ \E action \in Action, mode \in Mode, inv \in Invocation : OutboundBegin(action, mode, inv)
  \/ OutboundConfirm \/ OutboundPlan \/ OutboundRead \/ OutboundScreen
  \/ OutboundWrite \/ OutboundContent \/ OutboundWithhold \/ OutboundPrint

-------------------------------------------------------------------------------
OutboundTypeOK ==
  /\ wSetting \in Setting \cup {NoValue}
  /\ wSetting # NoValue => wAt \in 1..Len(Steps[wSetting.action])
  /\ wVerdict \in {"unasked", "clean", "match", "skipped", "failed"}
  /\ {wConfirmed, wAsked, wDone, wKnown, wFlagged, wPrinted} \subseteq BOOLEAN
  /\ wSaid \in {"nothing", "applied"} /\ wEnd \in Ending \cup {NoValue}

Running(actions) == wSetting # NoValue /\ wSetting.action \in actions

\* In block mode nothing that Model Armor has not found clean leaves the account by
\* mail, as a filter or to a list server, and no unscreened result is printed; in
\* warn mode what was sent or printed all the same is marked.
ScreenedFirst ==
  wSetting # NoValue =>
    /\ wSetting.mode = "block" =>
         /\ wDone /\ Has(wSetting.action, "screen") => wVerdict = "clean"
         /\ wPrinted /\ Has(wSetting.action, "withhold") => wVerdict = "clean"
    /\ wEnd = "ok" /\ wVerdict \notin {"unasked", "clean"} => wFlagged

\* What reaches other people waits for a confirmation where GWSR_REQUIRE_CONFIRM is
\* set, and what destroys always does: --yes, or an answer at the prompt, comes
\* before the request.
ConfirmedFirst ==
  wDone /\ ~wSetting.inv.yes =>
    /\ Running(Destroys) => wConfirmed
    /\ /\ Running({"sendMail", "unsubscribe", "forwardFilter", "announceFile", "postMessage",
                   "restoreUser", "addMember", "inviteGuests", "shareFile"})
       /\ wSetting.inv.require
       => wConfirmed

\* A dry run uses no credentials and changes nothing, whatever the helper.
DryRunQuiet == wSetting # NoValue /\ wSetting.inv.dryRun => ~wAsked /\ ~wDone

\* Once gwsr has read that a change was made, an error says so, or the result was
\* printed: who reads it does not send the mail again.  Labels can be set again, and
\* +unsubscribe does not say it.  Neither does a success whose body breaks off or is no
\* JSON: its status was read (helpers/http.rs:359), but the error is that of any
\* answer that cannot be read (helpers/http.rs:388-404).
ChangeTold ==
  wKnown /\ wEnd \notin {NoValue, "ok"} /\ ~Running({"changeLabels", "unsubscribe"}) =>
    wSaid = "applied" \/ wPrinted

OutboundCorrect == ScreenedFirst /\ ConfirmedFirst /\ DryRunQuiet /\ ChangeTold

===============================================================================
