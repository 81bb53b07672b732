---------------------------- MODULE Commands_proofs ----------------------------
(***************************************************************************)
(* Proofs about the commands that run once and end.  A step of Commands is *)
(* a step of one of them and leaves the variables of the others alone, so  *)
(* an invariant of a command's own module is one of Commands.  The first   *)
(* part has the inductive invariants that Setups_proofs leaves: helpers    *)
(* that send, skills, files, calendars and lists; the next says what       *)
(* follows for all commands; the last has what the types of their          *)
(* variables rest on.                                                      *)
(***************************************************************************)
EXTENDS Commands, Setups_proofs

-----------------------------------------------------------------------------
\* The helpers that change or send one thing.

StepName == {"confirm", "plan", "read", "screen", "write", "content", "withhold", "print"}

\* The helpers whose request waits for a confirmation, if only where it is required.
MustConfirm ==
  Destroys \cup {"sendMail", "unsubscribe", "forwardFilter", "announceFile", "postMessage",
                 "restoreUser", "addMember", "inviteGuests", "shareFile"}

\* The order of the steps of a row, as far as the properties depend on it.
PlannedFirst(row) ==
  \A i \in DOMAIN row : row[i] = "write" => \E j \in DOMAIN row : j < i /\ row[j] = "plan"

AskedFirst(row) ==
  \A i \in DOMAIN row : row[i] = "write" => \E j \in DOMAIN row : j < i /\ row[j] = "confirm"

SeenFirst(row) ==
  \A i, j \in DOMAIN row :
    /\ row[i] = "write" /\ row[j] = "screen" => j < i
    /\ row[i] = "print" /\ row[j] \in {"screen", "withhold"} => j < i
    /\ row[i] = "screen" => row[j] # "withhold"

ToldAfter(row) ==
  \A i, j \in DOMAIN row : row[i] = "write" /\ i < j => row[j] \in {"content", "withhold", "print"}

InOrder(row) == row \in Seq(StepName) /\ PlannedFirst(row) /\ SeenFirst(row)

\* Asking first changes nothing about the rest of a row.
LEMMA AskingFirst ==
  ASSUME NEW row \in Seq(StepName), InOrder(row), ToldAfter(row)
  PROVE  /\ InOrder(<<"confirm">> \o row) /\ ToldAfter(<<"confirm">> \o row)
         /\ AskedFirst(<<"confirm">> \o row)
<1> DEFINE ask == <<"confirm">>
           asked == ask \o row
<1>1. ask \in Seq(StepName) /\ Len(ask) = 1 /\ ask[1] = "confirm"
  BY DEF StepName
<1> HIDE DEF ask
<1>2. /\ asked \in Seq(StepName) /\ Len(asked) = Len(ask) + Len(row)
      /\ \A i \in 1..(Len(ask) + Len(row)) : asked[i] = IF i <= Len(ask) THEN ask[i] ELSE row[i - Len(ask)]
  BY <1>1, ConcatProperties, Zenon
<1> HIDE DEF asked
<1>3. /\ Len(row) \in Nat /\ DOMAIN row = 1..Len(row) /\ DOMAIN asked = 1..(1 + Len(row))
      /\ asked[1] = "confirm"
      /\ \A i \in DOMAIN asked : i # 1 => i - 1 \in DOMAIN row /\ asked[i] = row[i - 1]
      /\ \A i \in DOMAIN row : i + 1 \in DOMAIN asked /\ asked[i + 1] = row[i]
  BY <1>1, <1>2
<1>4. PlannedFirst(asked)
  <2> SUFFICES ASSUME NEW i \in DOMAIN asked, asked[i] = "write"
               PROVE  \E j \in DOMAIN asked : j < i /\ asked[j] = "plan"
    BY DEF PlannedFirst
  <2>1. i - 1 \in DOMAIN row /\ row[i - 1] = "write"
    BY <1>3
  <2>2. PICK j \in DOMAIN row : j < i - 1 /\ row[j] = "plan"
    BY <2>1 DEF InOrder, PlannedFirst
  <2> QED
    BY <1>3, <2>2
<1>5. SeenFirst(asked)
  BY <1>3 DEF InOrder, SeenFirst
<1>6. ToldAfter(asked)
  BY <1>3 DEF ToldAfter
<1>7. AskedFirst(asked)
  BY <1>3 DEF AskedFirst
<1> QED
  BY <1>2, <1>4, <1>5, <1>6, <1>7 DEF InOrder, asked, ask

\* Each helper screens before its request leaves and sees to its result before it is
\* printed; the request follows the plan, and the confirmation where one is due.
RowFits(row, confirms, tells) ==
  InOrder(row) /\ (confirms => AskedFirst(row)) /\ (tells => ToldAfter(row))

LEMMA RowsFit ==
  \A action \in Action :
    RowFits(Steps[action], action \in MustConfirm, action \notin {"changeLabels", "unsubscribe"})
<1> USE DEF StepName, InOrder, PlannedFirst, SeenFirst, AskedFirst, ToldAfter
<1>1. RowFits(SendMail, TRUE, TRUE)
  BY SMTT(60) DEF RowFits, SendMail
<1>2. RowFits(DeleteFilter, TRUE, TRUE)
  BY SMTT(60) DEF RowFits, DeleteFilter
<1>3. RowFits(AnnounceFile, TRUE, TRUE)
  BY SMTT(60) DEF RowFits, AnnounceFile
<1>4. RowFits(PostMessage, TRUE, TRUE)
  BY SMTT(60) DEF RowFits, PostMessage
<1>5. RowFits(ChangeUser, TRUE, TRUE)
  BY SMTT(60) DEF RowFits, ChangeUser
<1>6. RowFits(DeleteEvent, TRUE, TRUE)
  BY SMTT(60) DEF RowFits, DeleteEvent
<1>7. RowFits(ShareFile, TRUE, TRUE)
  BY SMTT(60) DEF RowFits, ShareFile
<1>8. RowFits(SaveDraft, FALSE, TRUE)
  BY SMTT(60) DEF RowFits, SaveDraft
<1>9. RowFits(CreateFilter, FALSE, TRUE)
  BY SMTT(60) DEF RowFits, CreateFilter
<1>10. RowFits(EmailToTask, FALSE, TRUE)
  BY SMTT(60) DEF RowFits, EmailToTask
<1>11. RowFits(CreateUser, FALSE, TRUE)
  BY SMTT(60) DEF RowFits, CreateUser
<1>12. RowFits(ChangeSheet, FALSE, TRUE)
  BY SMTT(60) DEF RowFits, ChangeSheet
<1>13. RowFits(CreateDocument, FALSE, TRUE)
  BY SMTT(60) DEF RowFits, CreateDocument
<1>14. RowFits(AppendToDocument, FALSE, TRUE)
  BY SMTT(60) DEF RowFits, AppendToDocument
<1>15. RowFits(AddTask, FALSE, TRUE)
  BY SMTT(60) DEF RowFits, AddTask
<1>16. RowFits(CreateMeeting, FALSE, TRUE)
  BY SMTT(60) DEF RowFits, CreateMeeting
<1>17. RowFits(CreateSlides, FALSE, TRUE)
  BY SMTT(60) DEF RowFits, CreateSlides
<1>18. RowFits(InsertEvent, FALSE, TRUE)
  BY SMTT(60) DEF RowFits, InsertEvent
<1>19. RowFits(Unsubscribe, TRUE, FALSE)
  BY SMTT(60) DEF RowFits, Unsubscribe
<1>20. RowFits(ChangeLabels, FALSE, FALSE)
  BY SMTT(60) DEF RowFits, ChangeLabels
<1>21. RowFits(ForwardFilter, TRUE, TRUE)
  BY <1>9, AskingFirst DEF RowFits, ForwardFilter
<1>22. RowFits(ClearSheet, TRUE, TRUE)
  BY <1>12, AskingFirst DEF RowFits, ClearSheet
<1>23. RowFits(InviteGuests, TRUE, TRUE)
  BY <1>18, AskingFirst DEF RowFits, InviteGuests
<1> HIDE DEF StepName, InOrder, PlannedFirst, SeenFirst, AskedFirst, ToldAfter
<1> SUFFICES ASSUME NEW action \in Action
             PROVE  RowFits(Steps[action], action \in MustConfirm, action \notin {"changeLabels", "unsubscribe"})
  OBVIOUS
<1> QED
  BY <1>1, <1>2, <1>3, <1>4, <1>5, <1>6, <1>7, <1>8, <1>9, <1>10, <1>11, <1>12, <1>13, <1>14, <1>15, <1>16, <1>17, <1>18, <1>19, <1>20, <1>21, <1>22, <1>23 DEF Action, Steps, MustConfirm, Destroys, RowFits

-----------------------------------------------------------------------------

\* The row of the helper that runs, and the steps it has taken.
Row == Steps[wSetting.action]

Passed(task) == \E i \in DOMAIN Row : i < wAt /\ Row[i] = task

\* The request was made, and answered or not.
Tried == Passed("write") \/ (wEnd # NoValue /\ wAt \in DOMAIN Row /\ Row[wAt] = "write")

\* The gate has let the helper through.
LetThrough == wConfirmed \/ Decide(ImpactOf(wSetting.action), wSetting.inv) = "proceed"

OutboundGoing ==
  /\ wSetting \in Setting /\ wAt \in Nat \ {0}
  /\ wSetting.inv.dryRun => ~Passed("plan") /\ ~wAsked
  /\ Passed("confirm") => LetThrough
  /\ wSetting.mode = "block" /\ wEnd \in {NoValue, "ok"} /\ (Passed("screen") \/ Passed("withhold")) =>
       wVerdict = "clean"
  /\ wDone => Tried /\ ~wSetting.inv.dryRun
  /\ wDone /\ wSetting.action \in MustConfirm => LetThrough
  /\ wKnown => Passed("write")
  /\ wPrinted => wEnd # NoValue
  /\ wSetting.mode = "block" =>
       /\ wDone /\ Has(wSetting.action, "screen") => wVerdict = "clean"
       /\ wPrinted /\ Has(wSetting.action, "withhold") => wVerdict = "clean"
  /\ wEnd \in {NoValue, "ok"} /\ wVerdict \notin {"unasked", "clean"} => wFlagged
  /\ wKnown /\ wEnd \notin {NoValue, "ok"} /\ wSetting.action \notin {"changeLabels", "unsubscribe"} =>
       wSaid = "applied" \/ wPrinted

OutboundInv ==
  /\ {wDone, wKnown, wAsked, wPrinted, wFlagged, wConfirmed} \subseteq BOOLEAN
  /\ wSetting = NoValue =>
       /\ ~wDone /\ ~wKnown /\ ~wAsked /\ ~wPrinted /\ wEnd = NoValue /\ wVerdict = "unasked"
  /\ wSetting # NoValue => OutboundGoing

\* What a helper has done when it comes to a step.
LEMMA RowSoFar ==
  ASSUME OutboundInv, NEW task, At(task)
  PROVE  /\ wSetting # NoValue /\ OutboundGoing /\ wEnd = NoValue /\ wAt \in DOMAIN Row /\ Row[wAt] = task
         /\ task = "write" => /\ Passed("plan") /\ (wSetting.action \in MustConfirm => Passed("confirm"))
                              /\ Has(wSetting.action, "screen") => Passed("screen")
         /\ task = "print" /\ Has(wSetting.action, "withhold") => Passed("withhold")
         /\ task = "screen" => ~Passed("write") /\ ~Has(wSetting.action, "withhold")
         /\ task = "withhold" => ~Has(wSetting.action, "screen")
         /\ Passed("write") /\ wSetting.action \notin {"changeLabels", "unsubscribe"} =>
              task \in {"content", "withhold", "print"}
<1>1. wSetting # NoValue /\ OutboundGoing /\ wEnd = NoValue /\ wSetting.action \in Action
  BY DEF OutboundInv, At, OutboundGoing, Setting
<1>2. /\ Row \in Seq(StepName) /\ PlannedFirst(Row) /\ SeenFirst(Row)
      /\ wSetting.action \in MustConfirm => AskedFirst(Row)
      /\ wSetting.action \notin {"changeLabels", "unsubscribe"} => ToldAfter(Row)
  BY <1>1, RowsFit DEF RowFits, InOrder, Row
<1>3. wAt \in DOMAIN Row /\ Row[wAt] = task
  BY <1>1, <1>2 DEF At, Row, OutboundGoing
<1>4. Has(wSetting.action, "screen") <=> \E i \in DOMAIN Row : Row[i] = "screen"
  BY DEF Has, Row
<1>5. Has(wSetting.action, "withhold") <=> \E i \in DOMAIN Row : Row[i] = "withhold"
  BY DEF Has, Row
<1>6. DOMAIN Row \subseteq Nat
  BY <1>2
<1> HIDE DEF Row
<1>7. task = "write" => /\ Passed("plan") /\ (wSetting.action \in MustConfirm => Passed("confirm"))
                        /\ Has(wSetting.action, "screen") => Passed("screen")
  BY <1>2, <1>3, <1>4 DEF Passed, PlannedFirst, AskedFirst, SeenFirst
<1>8. task = "print" /\ Has(wSetting.action, "withhold") => Passed("withhold")
  BY <1>2, <1>3, <1>5 DEF Passed, SeenFirst
<1>9. /\ task = "screen" => ~Passed("write") /\ ~Has(wSetting.action, "withhold")
      /\ task = "withhold" => ~Has(wSetting.action, "screen")
  BY <1>2, <1>3, <1>4, <1>5, <1>6 DEF Passed, SeenFirst
<1>10. Passed("write") /\ wSetting.action \notin {"changeLabels", "unsubscribe"} =>
         task \in {"content", "withhold", "print"}
  BY <1>2, <1>3 DEF Passed, ToldAfter
<1> QED
  BY <1>1, <1>3, <1>7, <1>8, <1>9, <1>10

\* Going on adds the step to those taken; ending adds nothing.
LEMMA RowGoesOn ==
  ASSUME OutboundInv, NEW task, At(task), Proceed, UNCHANGED wSetting
  PROVE  /\ \A s : Passed(s)' <=> Passed(s) \/ s = task
         /\ wEnd' = NoValue /\ wAt' \in Nat \ {0}
         /\ task # "write" => (Tried' <=> Tried)
<1>1. wAt \in DOMAIN Row /\ Row[wAt] = task /\ wAt' = wAt + 1 /\ Row' = Row /\ wEnd' = NoValue /\ wEnd = NoValue
  BY RowSoFar DEF Proceed, Row
<1>2. DOMAIN Row \subseteq Nat \ {0}
  <2>1. wSetting.action \in Action
    BY RowSoFar DEF OutboundGoing, Setting
  <2> QED
    BY <2>1, RowsFit DEF RowFits, InOrder, Row
<1> HIDE DEF Row
<1>3. ASSUME NEW s PROVE Passed(s)' <=> Passed(s) \/ s = task
  <2>1. Passed(s)' <=> \E i \in DOMAIN Row : i < wAt + 1 /\ Row[i] = s
    BY <1>1 DEF Passed
  <2> QED
    BY <1>1, <1>2, <2>1 DEF Passed
<1> QED
  BY <1>1, <1>2, <1>3 DEF Tried

LEMMA RowEnds ==
  ASSUME UNCHANGED <<wSetting, wAt>>
  PROVE  /\ \A s : Passed(s)' <=> Passed(s)
         /\ Row' = Row
  BY DEF Passed, Row

\* Every step of a row leaves what is said of the rows before it true.
LEMMA OutboundInvStep == OutboundInv /\ [OutboundNext]_outboundVars => OutboundInv'
<1> SUFFICES ASSUME OutboundInv, [OutboundNext]_outboundVars PROVE OutboundInv'
  OBVIOUS
<1> USE OutboundAssumption
<1>0. ASSUME NEW s, UNCHANGED <<wSetting, wAt>> PROVE Passed(s)' <=> Passed(s)
  BY <1>0, RowEnds
<1>1. ASSUME NEW action \in Action, NEW mode \in Mode, NEW inv \in Invocation, OutboundBegin(action, mode, inv)
      PROVE  OutboundInv'
  <2>1. /\ wSetting = NoValue /\ wSetting' \in Setting /\ wSetting' # NoValue /\ wAt' = 1
        /\ UNCHANGED <<wVerdict, wConfirmed, wAsked, wDone, wKnown, wFlagged, wPrinted, wSaid, wEnd>>
    BY <1>1 DEF OutboundBegin, Setting
  <2>2. ASSUME NEW s PROVE ~Passed(s)'
    <3>1. DOMAIN Row' \subseteq Nat \ {0}
      BY <2>1, RowsFit DEF RowFits, InOrder, Row, Setting
    <3> QED
      BY <2>1, <3>1 DEF Passed
  <2> QED
    BY <2>1, <2>2 DEF OutboundInv, OutboundGoing
<1>2. CASE OutboundConfirm
  <2>1. /\ wSetting # NoValue /\ OutboundGoing /\ wEnd = NoValue /\ ~wPrinted
        /\ UNCHANGED <<wSetting, wVerdict, wAsked, wDone, wKnown, wFlagged, wPrinted>>
        /\ wConfirmed \in BOOLEAN /\ At("confirm")
    BY <1>2, RowSoFar DEF OutboundConfirm, OutboundGoing, OutboundInv
  <2> DEFINE decision == Decide(ImpactOf(wSetting.action), wSetting.inv)
  <2>2. decision \in {"proceed", "prompt", "refuse"}
    BY DEF Decide
  <2>3. ASSUME decision # "refuse", wConfirmed' = (decision = "prompt"), Proceed PROVE OutboundInv'
    <3>1. LetThrough' /\ wConfirmed' \in BOOLEAN
      BY <2>1, <2>2, <2>3 DEF LetThrough
    <3>2. /\ \A s : Passed(s)' <=> Passed(s) \/ s = "confirm"
          /\ wEnd' = NoValue /\ wAt' \in Nat \ {0} /\ (Tried' <=> Tried)
      BY <2>1, <2>3, RowGoesOn
    <3> QED
      BY <2>1, <3>1, <3>2 DEF OutboundInv, OutboundGoing
  <2>4. ASSUME Fail("unconfirmed", "nothing"), UNCHANGED wConfirmed PROVE OutboundInv'
    <3>1. /\ wEnd' = "unconfirmed" /\ wAt' = wAt
          /\ Passed("write") => wSetting.action \in {"changeLabels", "unsubscribe"}
      BY <2>1, <2>4, RowSoFar DEF Fail
    <3>2. /\ \A s : Passed(s)' <=> Passed(s)
          /\ Tried => Tried'
          /\ (LetThrough' <=> LetThrough)
      BY <2>1, <2>4, <3>1, RowEnds DEF Tried, LetThrough
    <3> QED
      BY <2>1, <2>4, <3>1, <3>2 DEF OutboundInv, OutboundGoing
  <2> QED
    BY <1>2, <2>3, <2>4 DEF OutboundConfirm
<1>3. ASSUME NEW task \in {"plan", "read", "content"}, At(task), Proceed,
             wAsked' \in {wAsked, TRUE}, wAsked' # wAsked \/ task = "plan" => ~wSetting.inv.dryRun,
             UNCHANGED <<wSetting, wVerdict, wConfirmed, wDone, wKnown, wFlagged, wPrinted>>
      PROVE  OutboundInv'
  <2>1. /\ wSetting # NoValue /\ OutboundGoing /\ wEnd = NoValue
    BY <1>3, RowSoFar
  <2>2. /\ \A s : Passed(s)' <=> Passed(s) \/ s = task
        /\ wEnd' = NoValue /\ wAt' \in Nat \ {0} /\ (Tried' <=> Tried) /\ (LetThrough' <=> LetThrough)
    BY <1>3, RowGoesOn DEF LetThrough
  <2> QED
    BY <1>3, <2>1, <2>2 DEF OutboundInv, OutboundGoing
<1>4. ASSUME NEW task, At(task), NEW ending, ending # NoValue, NEW says, Fail(ending, says),
             ending = "ok" => task = "plan" /\ says = "nothing",
             wAsked' \in BOOLEAN, ~wSetting.inv.dryRun \/ wAsked' = wAsked,
             task \in {"content", "withhold"} => says = "applied" \/ wSetting.action = "unsubscribe",
             task \notin {"screen", "withhold"} => wVerdict' = wVerdict,
             task = "withhold" => wSetting.mode # "off",
             task # "print",
             UNCHANGED <<wSetting, wConfirmed, wDone, wKnown, wFlagged, wPrinted>>
      PROVE  OutboundInv'
  <2>1. /\ wSetting # NoValue /\ OutboundGoing /\ wEnd = NoValue /\ ~wPrinted /\ wEnd' = ending
        /\ wAt' = wAt /\ wSaid' = says
    BY <1>4, RowSoFar DEF OutboundGoing, OutboundInv, Fail
  <2>2. /\ \A s : Passed(s)' <=> Passed(s)
        /\ (Tried => Tried') /\ (LetThrough' <=> LetThrough)
    BY <1>4, <2>1, RowEnds DEF Tried, LetThrough
  <2>3. task = "screen" => ~wDone
    BY <1>4, <2>1, RowSoFar DEF OutboundGoing, Tried
  <2>4. task = "withhold" => ~Has(wSetting.action, "screen")
    BY <1>4, RowSoFar
  <2>5. wKnown /\ wSetting.action \notin {"changeLabels", "unsubscribe"} => says = "applied"
    BY <1>4, <2>1, RowSoFar DEF OutboundGoing
  <2>6. wAsked' \in BOOLEAN /\ (wSetting.inv.dryRun => ~wAsked')
    BY <1>4, <2>1 DEF OutboundInv, OutboundGoing
  <2>7. /\ wSetting.mode = "block" /\ ending = "ok" => wVerdict' = wVerdict
        /\ wDone /\ Has(wSetting.action, "screen") => wVerdict' = wVerdict
        /\ ending = "ok" /\ wVerdict' \notin {"unasked", "clean"} => wFlagged
    BY <1>4, <2>1, <2>3, <2>4 DEF OutboundGoing
  <2>8. /\ wSetting'.inv.dryRun => ~Passed("plan")' /\ ~wAsked'
        /\ Passed("confirm")' => LetThrough'
        /\ wDone' => Tried' /\ ~wSetting'.inv.dryRun
        /\ wDone' /\ wSetting'.action \in MustConfirm => LetThrough'
        /\ wKnown' => Passed("write")'
    BY <1>4, <2>1, <2>2, <2>6 DEF OutboundGoing
  <2>9. OutboundGoing'
    BY <1>4, <2>1, <2>2, <2>5, <2>7, <2>8 DEF OutboundGoing
  <2> QED
    BY <1>4, <2>1, <2>6, <2>9 DEF OutboundInv
<1>5. CASE OutboundPlan
  <2>1. wAsked \in BOOLEAN
    BY DEF OutboundInv
  <2>2. "ok" # NoValue /\ "auth" # NoValue
    BY OutcomeAssumption DEF Ending, ExitCode
  <2>3. /\ At("plan") /\ UNCHANGED <<wSetting, wVerdict, wConfirmed, wDone, wKnown, wFlagged, wPrinted>>
    BY <1>5 DEF OutboundPlan
  <2>4. ASSUME Fail("ok", "nothing"), wAsked' = wAsked PROVE OutboundInv'
    BY <1>4, <2>1, <2>2, <2>3, <2>4
  <2>5. ASSUME Fail("auth", "nothing"), wAsked' \in BOOLEAN, ~wSetting.inv.dryRun PROVE OutboundInv'
    BY <1>4, <2>2, <2>3, <2>5
  <2>6. ASSUME Proceed, wAsked' = TRUE, ~wSetting.inv.dryRun PROVE OutboundInv'
    BY <1>3, <2>3, <2>6
  <2> QED
    BY <1>5, <2>4, <2>5, <2>6 DEF OutboundPlan
<1>b. wAsked \in BOOLEAN
  BY DEF OutboundInv
<1>6. CASE OutboundRead
  BY <1>b, <1>3, <1>4, <1>6, OutcomeAssumption DEF OutboundRead, Ending, ExitCode
<1>7. CASE OutboundContent
  BY <1>b, <1>3, <1>4, <1>7, OutcomeAssumption DEF OutboundContent, Ending, ExitCode
<1>8. ASSUME NEW task \in {"screen", "withhold"}, At(task), NEW says, Screening(says),
             task = "withhold" => says = "applied" \/ wSetting.action = "unsubscribe",
             UNCHANGED <<wSetting, wConfirmed, wAsked, wDone, wKnown, wPrinted>>
      PROVE  OutboundInv'
  <2>1. /\ wSetting # NoValue /\ OutboundGoing /\ wEnd = NoValue /\ ~wPrinted /\ wFlagged \in BOOLEAN
    BY <1>8, RowSoFar DEF OutboundGoing, OutboundInv
  <2>2. ASSUME Proceed, wFlagged' \in BOOLEAN, wSetting.mode = "block" => wVerdict' = "clean",
               wVerdict' \notin {"unasked", "clean"} => wFlagged'
        PROVE  OutboundInv'
    <3>1. /\ \A s : Passed(s)' <=> Passed(s) \/ s = task
          /\ wEnd' = NoValue /\ wAt' \in Nat \ {0} /\ (Tried' <=> Tried) /\ (LetThrough' <=> LetThrough)
      BY <1>8, <2>2, RowGoesOn DEF LetThrough
    <3> QED
      BY <1>8, <2>1, <2>2, <3>1 DEF OutboundInv, OutboundGoing
  <2>3. ASSUME NEW e \in {"blocked", "auth", "api", "network", "other"}, Fail(e, says), wFlagged' = wFlagged,
               wSetting.mode # "off"
        PROVE  OutboundInv'
    BY <1>b, <1>4, <1>8, <2>3, OutcomeAssumption DEF Ending, ExitCode
  <2>4. wVerdict \notin {"unasked", "clean"} => wFlagged
    BY <2>1 DEF OutboundGoing
  <2>5. CASE wSetting.mode = "off"
    BY <1>8, <2>1, <2>2, <2>4, <2>5 DEF Screening
  <2>6. CASE wSetting.mode # "off"
    <3>1. PICK answer \in {"clean", "match", "skipped", "failed"} :
            /\ wVerdict' = answer
            /\ IF Passes(answer) THEN Proceed /\ UNCHANGED wFlagged
               ELSE IF wSetting.mode = "warn" THEN Proceed /\ wFlagged' = TRUE
               ELSE /\ UNCHANGED wFlagged
                    /\ IF answer = "match" THEN Fail("blocked", says)
                       ELSE \E e \in {"auth", "api", "network", "other"} : Fail(e, says)
      BY <1>8, <2>6 DEF Screening
    <3> QED
      BY <2>1, <2>2, <2>3, <2>6, <3>1 DEF Passes
  <2> QED
    BY <2>5, <2>6
<1>9. CASE OutboundScreen
  BY <1>8, <1>9 DEF OutboundScreen
<1>10. CASE OutboundWithhold
  BY <1>8, <1>10 DEF OutboundWithhold, Note
<1>11. CASE OutboundWrite
  <2>1. /\ wSetting # NoValue /\ OutboundGoing /\ wEnd = NoValue /\ ~wPrinted /\ wAt \in DOMAIN Row /\ Row[wAt] = "write"
        /\ Passed("plan") /\ (wSetting.action \in MustConfirm => Passed("confirm"))
        /\ Has(wSetting.action, "screen") => Passed("screen")
        /\ UNCHANGED <<wSetting, wVerdict, wConfirmed, wAsked, wFlagged, wPrinted>> /\ At("write")
        /\ wDone \in BOOLEAN /\ wKnown \in BOOLEAN /\ (LetThrough' <=> LetThrough)
    BY <1>11, RowSoFar DEF OutboundWrite, OutboundGoing, OutboundInv, LetThrough
  <2>2. /\ ~wSetting.inv.dryRun
        /\ wSetting.action \in MustConfirm => LetThrough
        /\ wSetting.mode = "block" /\ Has(wSetting.action, "screen") => wVerdict = "clean"
    BY <2>1 DEF OutboundGoing
  <2>3. wKnown => wSetting.action \in {"changeLabels", "unsubscribe"}
    BY <2>1, RowSoFar DEF OutboundGoing
  <2>4. ASSUME NEW e \in {"auth", "api", "validation", "network", "other"}, Fail(e, "nothing"),
               wDone' \in {wDone, TRUE}, wKnown' = wKnown
        PROVE  OutboundInv'
    <3>1. wEnd' = e /\ e # NoValue /\ wAt' = wAt /\ e # "ok"
      BY <2>4, OutcomeAssumption DEF Fail, Ending, ExitCode
    <3>2. (\A s : Passed(s)' <=> Passed(s)) /\ Tried'
      BY <2>1, <3>1, RowEnds DEF Tried
    <3> QED
      BY <2>1, <2>2, <2>3, <2>4, <3>1, <3>2 DEF OutboundInv, OutboundGoing
  <2>5. ASSUME Proceed, wDone' = TRUE, wKnown' = TRUE PROVE OutboundInv'
    <3>1. /\ \A s : Passed(s)' <=> Passed(s) \/ s = "write"
          /\ wEnd' = NoValue /\ wAt' \in Nat \ {0}
      BY <2>1, <2>5, RowGoesOn
    <3>2. Tried'
      BY <3>1 DEF Tried
    <3> QED
      BY <2>1, <2>2, <2>5, <3>1, <3>2 DEF OutboundInv, OutboundGoing
  <2> QED
    BY <1>11, <2>4, <2>5 DEF OutboundWrite
<1>12. CASE OutboundPrint
  <2>1. /\ wSetting # NoValue /\ OutboundGoing /\ wEnd = NoValue /\ At("print") /\ wPrinted \in BOOLEAN
        /\ UNCHANGED <<wSetting, wVerdict, wConfirmed, wAsked, wDone, wKnown, wFlagged>>
        /\ Has(wSetting.action, "withhold") => Passed("withhold")
        /\ (LetThrough' <=> LetThrough)
    BY <1>12, RowSoFar DEF OutboundPrint, OutboundInv, LetThrough
  <2>2. PICK e \in {"ok", "other", "validation"} :
          /\ wEnd' = e /\ wAt' = wAt
          /\ \/ wPrinted' = TRUE
             \/ e # "ok" /\ wPrinted' = wPrinted
                  /\ (wSaid' = "applied" \/ wSetting.action = "unsubscribe")
    BY <1>12 DEF OutboundPrint, Fail, Note
  <2>3. e # NoValue
    BY OutcomeAssumption DEF Ending, ExitCode
  <2>4. (\A s : Passed(s)' <=> Passed(s)) /\ (Tried => Tried')
    BY <2>1, <2>2, RowEnds DEF Tried
  <2> QED
    BY <2>1, <2>2, <2>3, <2>4 DEF OutboundInv, OutboundGoing
<1>13. CASE UNCHANGED outboundVars
  BY <1>13, RowEnds DEF outboundVars, OutboundInv, OutboundGoing, Tried, LetThrough
<1> QED
  BY <1>1, <1>2, <1>5, <1>6, <1>7, <1>9, <1>10, <1>11, <1>12, <1>13 DEF OutboundNext

LEMMA OutboundBegins == OutboundInit => OutboundInv
  BY DEF OutboundInit, OutboundInv

LEMMA OutboundInvHolds == OutboundInv => OutboundCorrect
<1> SUFFICES ASSUME OutboundInv PROVE OutboundCorrect
  OBVIOUS
<1>1. wSetting # NoValue => wSetting.action \in Action /\ wSetting.inv \in Invocation
  BY DEF OutboundInv, OutboundGoing, Setting
<1>2. ScreenedFirst
  BY DEF OutboundInv, OutboundGoing, ScreenedFirst
<1>3. ConfirmedFirst
  <2>1. wSetting # NoValue /\ LetThrough /\ ~wSetting.inv.yes /\ ~wSetting.inv.dryRun =>
          (wSetting.action \in Destroys \/ wSetting.inv.require => wConfirmed)
    BY DEF LetThrough, Decide, ImpactOf
  <2> QED
    BY <2>1 DEF OutboundInv, OutboundGoing, ConfirmedFirst, Running, MustConfirm
<1>4. DryRunQuiet
  BY DEF OutboundInv, OutboundGoing, DryRunQuiet
<1>5. ChangeTold
  BY DEF OutboundInv, OutboundGoing, ChangeTold, Running
<1> QED
  BY <1>2, <1>3, <1>4, <1>5 DEF OutboundCorrect

-----------------------------------------------------------------------------
\* dev generate-skills.

\* A skill is there as it was when the run began.
Remains(name) == name \in DOMAIN fDisk /\ fDisk[name].skill = fBefore[name].skill

SkillThere(name) == name \in DOMAIN fDisk /\ fDisk[name].skill = "marked"

Mistaken == \E value \in fFilter : SkillsOf(value) = {}

SkillTypes ==
  /\ fStep \in {"off", "render", "write", "rename", "list", "prune", "remove", "over", "dead"}
  /\ fDry \in BOOLEAN /\ fProduct \subseteq Skills /\ fLeft \subseteq Skills
  /\ fDisk \in [DOMAIN fDisk -> Folders] /\ DOMAIN fDisk \subseteq Skills
  /\ fBefore \in [DOMAIN fBefore -> Folders] /\ DOMAIN fBefore \subseteq Skills
  /\ fStep \notin {"over"} => fEnd = NoValue

\* Before anything is written, and where nothing is to be.
StandAsTheyAre ==
  fStep \in {"off", "render"} \/ fDry \/ fEnd = "discovery" \/ Mistaken =>
    DOMAIN fDisk = DOMAIN fBefore /\ \A name \in DOMAIN fBefore : Remains(name)

SkillsWriting ==
  /\ fStep \in {"render", "write", "rename", "list"} => fPruned = {} /\ fUnmanaged = {}
  /\ fStep \in {"write", "rename"} => ~fDry /\ fLeft \subseteq Produced
  /\ fStep = "rename" => fLeft # {} /\ Min(fLeft) \in DOMAIN fDisk
  /\ fStep \in {"write", "rename", "list"} => ~Mistaken
  /\ fStep \in {"write", "rename", "list"} /\ ~fDry =>
       LET done == IF fStep = "list" THEN Produced ELSE Produced \ fLeft IN
         /\ \A name \in done : SkillThere(name)
         /\ \A name \in DOMAIN fBefore \ done : Remains(name)
         /\ DOMAIN fDisk \subseteq DOMAIN fBefore \cup Produced

SkillsPruning ==
  fStep \in {"prune", "remove"} =>
    /\ fFilter = {} /\ fLeft \subseteq DOMAIN fDisk \ fProduct /\ fLeft \cap fUnmanaged = {}
    /\ DOMAIN fBefore \ fProduct = fPruned \cup fUnmanaged \cup fLeft
    /\ \A name \in fPruned : fBefore[name].skill = "marked"
    /\ \A name \in fUnmanaged \cup fLeft : Remains(name) \/ (fStep = "remove" /\ name = Min(fLeft))
    /\ \A name \in fUnmanaged : fDisk[name].skill # "marked"
    /\ ~fDry => /\ DOMAIN fDisk \ fProduct = fUnmanaged \cup fLeft
                /\ \A name \in fProduct : SkillThere(name)
    /\ fStep = "remove" => ~fDry /\ fLeft # {} /\ fBefore[Min(fLeft)].skill = "marked"

SkillsInv == SkillTypes /\ StandAsTheyAre /\ SkillsWriting /\ SkillsPruning /\ SkillsCorrect

LEMMA ProducedFacts == Produced \subseteq fProduct /\ (fFilter = {} => Produced = fProduct)
  BY DEF Produced, SkillsOf

\* While nothing is written: the properties follow from what is there.
LEMMA SkillsUntouched ==
  ASSUME SkillTypes, DOMAIN fDisk = DOMAIN fBefore, \A name \in DOMAIN fBefore : Remains(name),
         \A name \in fUser : name \in DOMAIN fDisk /\ fDisk[name].notes, fDry \/ fFilter # {} \/ fEnd # "ok"
  PROVE  SkillsCorrect
  BY DEF SkillsCorrect, HandWorkKept, NothingStarted, CompleteRunExact, Remains

\* What the user does leaves the skills as they are.
LEMMA SkillsUserAdds ==
  ASSUME SkillsInv, NEW name \in DOMAIN fDisk, UserAdds(name) PROVE SkillsInv'
<1>1. /\ fDisk' = [fDisk EXCEPT ![name].notes = TRUE] /\ fUser' = fUser \cup {name} /\ fStep # "off"
      /\ UNCHANGED <<fStep, fProduct, fFilter, fDry, fLeft, fPruned, fUnmanaged, fBefore, fEnd>>
  BY DEF UserAdds
<1>2. /\ DOMAIN fDisk' = DOMAIN fDisk /\ fDisk' \in [DOMAIN fDisk -> Folders]
      /\ \A n \in DOMAIN fDisk : fDisk'[n].skill = fDisk[n].skill /\ (fDisk[n].notes => fDisk'[n].notes)
      /\ fDisk'[name].notes
  <2>1. fDisk \in [DOMAIN fDisk -> Folders]
    BY DEF SkillsInv, SkillTypes
  <2>2. /\ fDisk[name] \in Folders /\ [fDisk[name] EXCEPT !.notes = TRUE] \in Folders
        /\ [fDisk[name] EXCEPT !.notes = TRUE].notes
        /\ [fDisk[name] EXCEPT !.notes = TRUE].skill = fDisk[name].skill
    BY <2>1 DEF Folders
  <2> QED
    BY <1>1, <2>1, <2>2
<1>3. /\ \A n : Remains(n)' <=> Remains(n)
      /\ \A n : SkillThere(n)' <=> SkillThere(n)
      /\ Produced' = Produced /\ (Mistaken' <=> Mistaken)
  BY <1>1, <1>2 DEF Remains, SkillThere, Produced, Mistaken, SkillsOf
<1>4. SkillTypes' /\ StandAsTheyAre' /\ SkillsWriting'
  BY <1>1, <1>2, <1>3 DEF SkillsInv, SkillTypes, StandAsTheyAre, SkillsWriting
<1>5. SkillsPruning'
  BY <1>1, <1>2, <1>3 DEF SkillsInv, SkillsPruning
<1>6. HandWorkKept' /\ NothingStarted' /\ CompleteRunExact'
  <2>1. HandWorkKept'
    BY <1>1, <1>2, <1>3 DEF SkillsInv, SkillsCorrect, HandWorkKept
  <2>2. NothingStarted'
    BY <1>1, <1>2, <1>3 DEF SkillsInv, SkillsCorrect, NothingStarted, SkillsOf
  <2>3. CompleteRunExact'
    BY <1>1, <1>2, <1>3 DEF SkillsInv, SkillsCorrect, CompleteRunExact
  <2> QED
    BY <2>1, <2>2, <2>3
<1> QED
  BY <1>4, <1>5, <1>6 DEF SkillsInv, SkillsCorrect

LEMMA SkillsBegins == SkillsInit => SkillsInv
<1> SUFFICES ASSUME SkillsInit PROVE SkillsInv
  OBVIOUS
<1>1. PICK there \in SUBSET (Skills \ {1}) :
        fDisk \in [there -> {Holding("hand", FALSE), Holding("marked", FALSE)}]
  BY DEF SkillsInit
<1>2. /\ fStep = "off" /\ fProduct = {} /\ fFilter = {} /\ fDry = FALSE /\ fLeft = {} /\ fUser = {}
      /\ fBefore = fDisk /\ fEnd = NoValue /\ fPruned = {} /\ fUnmanaged = {}
  BY DEF SkillsInit
<1>3. SkillTypes
  <2>1. /\ Holding("hand", FALSE) \in Folders /\ Holding("marked", FALSE) \in Folders
    BY DEF Folders, Holding
  <2>2. DOMAIN fDisk = there /\ fDisk \in [there -> Folders] /\ there \subseteq Skills
    BY <1>1, <2>1
  <2> QED
    BY <1>2, <2>2 DEF SkillTypes
<1>4. DOMAIN fDisk = DOMAIN fBefore /\ \A name \in DOMAIN fBefore : Remains(name)
  BY <1>2 DEF Remains
<1>5. fEnd # "ok"
  BY <1>2, OutcomeAssumption DEF Ending, ExitCode
<1>6. SkillsCorrect
  BY <1>2, <1>3, <1>4, <1>5, SkillsUntouched
<1> QED
  BY <1>2, <1>3, <1>4, <1>6 DEF SkillsInv, StandAsTheyAre, SkillsWriting, SkillsPruning

LEMMA SkillsBeginKeeps ==
  ASSUME SkillsInv, NEW product \in {Skills, 1..2}, NEW filter \in {{}, {0, 2}, {1}, {2}}, NEW dry \in BOOLEAN,
         SkillsBegin(product, filter, dry)
  PROVE  SkillsInv'
<1>1. /\ fStep' = "render" /\ fProduct' = product /\ fFilter' = filter /\ fDry' = dry
      /\ fLeft' = {} /\ fPruned' = {} /\ fUnmanaged' = {} /\ fBefore' = fDisk /\ fEnd' = NoValue
      /\ UNCHANGED <<fDisk, fUser>>
  BY DEF SkillsBegin
<1>2. product \subseteq Skills
  BY SkillsAssumption DEF Skills
<1>3. SkillTypes'
  BY <1>1, <1>2 DEF SkillsInv, SkillTypes
<1>4. (DOMAIN fDisk = DOMAIN fBefore /\ \A name \in DOMAIN fBefore : Remains(name))'
  BY <1>1 DEF Remains
<1>5. (\A name \in fUser : name \in DOMAIN fDisk /\ fDisk[name].notes)' /\ fEnd' # "ok"
  BY <1>1, OutcomeAssumption DEF SkillsInv, SkillsCorrect, HandWorkKept, Ending, ExitCode
<1>6. SkillsCorrect'
  BY <1>3, <1>4, <1>5 DEF SkillsCorrect, HandWorkKept, NothingStarted, CompleteRunExact, Remains, SkillTypes
<1> QED
  BY <1>1, <1>3, <1>4, <1>6 DEF SkillsInv, StandAsTheyAre, SkillsWriting, SkillsPruning

\* A run that ends, or is killed, leaves things as they are.
LEMMA SkillsStop ==
  ASSUME SkillsInv, NEW ending, fStep \notin {"off", "over", "dead"}, fStep' \in {"over", "dead"}, fStep' = "dead" => ending = NoValue,
         fEnd' = ending, ending = "discovery" => fStep = "render",
         ending = "ok" => fFilter # {} \/ (fStep = "prune" /\ fLeft = {}),
         fLeft' \subseteq Skills,
         UNCHANGED <<fProduct, fFilter, fDry, fDisk, fPruned, fUnmanaged, fUser, fBefore>>
  PROVE  SkillsInv'
<1>1. /\ \A n : Remains(n)' <=> Remains(n)
      /\ Produced' = Produced /\ (Mistaken' <=> Mistaken)
  BY DEF Remains, Produced, Mistaken, SkillsOf
<1>2. SkillTypes' /\ SkillsWriting' /\ SkillsPruning'
  BY <1>1 DEF SkillsInv, SkillTypes, SkillsWriting, SkillsPruning
<1>3. StandAsTheyAre'
  BY <1>1 DEF SkillsInv, StandAsTheyAre
<1>4. HandWorkKept'
  BY <1>1 DEF SkillsInv, SkillsCorrect, HandWorkKept
<1>5. NothingStarted'
  <2>1. fFilter # {} \/ fDry =>
          \A name \in DOMAIN fBefore : name \in DOMAIN fDisk /\
            (fBefore[name].skill = "marked" => fDisk[name].skill = "marked")
    BY DEF SkillsInv, SkillsCorrect, NothingStarted
  <2>2. fDry \/ ending = "discovery" \/ Mistaken =>
          \A name \in Skills : (name \in DOMAIN fDisk) = (name \in DOMAIN fBefore) /\
            (name \in DOMAIN fDisk => fDisk[name].skill = fBefore[name].skill)
    BY DEF SkillsInv, StandAsTheyAre, Remains
  <2> QED
    BY <2>1, <2>2 DEF NothingStarted, Mistaken, SkillsOf
<1>6. CompleteRunExact'
  <2>1. ASSUME ending = "ok", fFilter = {}, ~fDry
        PROVE  /\ {name \in DOMAIN fDisk : fDisk[name].skill = "marked"} = fProduct
               /\ DOMAIN fDisk \ fProduct = fUnmanaged
               /\ DOMAIN fBefore \ fProduct = fPruned \cup fUnmanaged
    BY <2>1 DEF SkillsInv, SkillsPruning, SkillThere
  <2> QED
    BY <2>1 DEF CompleteRunExact
<1> QED
  BY <1>2, <1>3, <1>4, <1>5, <1>6 DEF SkillsInv, SkillsCorrect

\* While a run goes on the properties follow from what it has done so far.
LEMMA SkillsGoOn ==
  ASSUME SkillTypes', StandAsTheyAre', SkillsWriting', SkillsPruning',
         fStep' \in {"render", "write", "rename", "list", "prune", "remove"},
         (\A name \in fUser : name \in DOMAIN fDisk /\ fDisk[name].notes)'
  PROVE  SkillsInv'
<1>1. fEnd' = NoValue /\ fEnd' \notin {"ok", "discovery"}
  BY OutcomeAssumption DEF SkillTypes, Ending, ExitCode
<1>2. (Produced \subseteq fProduct /\ (fFilter = {} => Produced = fProduct))'
  BY DEF Produced, SkillsOf
<1>3. (\A name \in DOMAIN fBefore \ Produced : fBefore[name].skill = "hand" => Remains(name))'
  <2>1. CASE fStep' = "render" \/ fDry'
    BY <2>1 DEF StandAsTheyAre
  <2>2. CASE fStep' \in {"write", "rename", "list"} /\ ~fDry'
    BY <2>2 DEF SkillsWriting
  <2>3. CASE fStep' \in {"prune", "remove"}
    BY <1>2, <2>3 DEF SkillsPruning
  <2> QED
    BY <2>1, <2>2, <2>3
<1>4. (fFilter # {} \/ fDry =>
         \A name \in DOMAIN fBefore : name \in DOMAIN fDisk /\
           (fBefore[name].skill = "marked" => fDisk[name].skill = "marked"))'
  <2>1. CASE fStep' = "render" \/ fDry'
    BY <2>1 DEF StandAsTheyAre, Remains
  <2>2. CASE fStep' \in {"write", "rename", "list"} /\ ~fDry'
    BY <2>2 DEF SkillsWriting, Remains, SkillThere
  <2>3. CASE fStep' \in {"prune", "remove"} /\ ~fDry'
    BY <2>3 DEF SkillsPruning
  <2> QED
    BY <2>1, <2>2, <2>3
<1>5. NothingStarted'
  BY <1>1, <1>4 DEF StandAsTheyAre, SkillTypes, NothingStarted, Mistaken, Remains, SkillsOf
<1>6. HandWorkKept' /\ CompleteRunExact'
  BY <1>1, <1>3 DEF HandWorkKept, CompleteRunExact, Remains
<1> QED
  BY <1>5, <1>6 DEF SkillsInv, SkillsCorrect

LEMMA SkillsRenderKeeps == ASSUME SkillsInv, Render PROVE SkillsInv'
<1>1. /\ fStep = "render" /\ fEnd = NoValue
      /\ UNCHANGED <<fProduct, fFilter, fDry, fDisk, fPruned, fUnmanaged, fUser, fBefore>>
  BY DEF Render, SkillsInv, SkillTypes
<1>2. Produced \subseteq Skills
  BY ProducedFacts DEF SkillsInv, SkillTypes
<1>3. ASSUME NEW e \in {"discovery", "validation"}, SkillsEnd(e), fLeft' = fLeft PROVE SkillsInv'
  BY <1>1, <1>3, SkillsStop DEF SkillsEnd, SkillsInv, SkillTypes
<1>4. ASSUME ~Mistaken, fStep' = (IF fDry THEN "list" ELSE "write"), fLeft' = Produced, fEnd' = fEnd
      PROVE  SkillsInv'
  <2>1. /\ \A n : Remains(n)' <=> Remains(n)
        /\ Produced' = Produced /\ (Mistaken' <=> Mistaken)
    BY <1>1 DEF Remains, Produced, Mistaken, SkillsOf
  <2>2. SkillTypes' /\ StandAsTheyAre'
    BY <1>1, <1>2, <1>4, <2>1 DEF SkillsInv, SkillTypes, StandAsTheyAre
  <2>3. SkillsWriting' /\ SkillsPruning'
    BY <1>1, <1>4, <2>1 DEF SkillsInv, SkillTypes, StandAsTheyAre, SkillsWriting, SkillsPruning
  <2> QED
    BY <1>1, <1>4, <2>2, <2>3, SkillsGoOn DEF SkillsInv, SkillsCorrect, HandWorkKept
<1> QED
  BY <1>3, <1>4 DEF Render, Mistaken

LEMMA SkillsCreateKeeps == ASSUME SkillsInv, CreateSkill PROVE SkillsInv'
<1> DEFINE name == Min(fLeft)
           made == IF name \in DOMAIN fDisk THEN fDisk[name] ELSE Empty
<1>1. /\ fStep = "write" /\ fStep' = "rename" /\ fLeft # {} /\ fEnd = NoValue
      /\ fDisk' = [n \in DOMAIN fDisk \cup {name} |-> IF n = name THEN [made EXCEPT !.temp = TRUE] ELSE fDisk[n]]
      /\ UNCHANGED <<fProduct, fFilter, fDry, fLeft, fPruned, fUnmanaged, fUser, fBefore, fEnd>>
  BY DEF CreateSkill, SkillsInv, SkillTypes
<1>2. name \in fLeft /\ name \in Skills
  BY <1>1, LeastOf, SkillsAssumption DEF SkillsInv, SkillTypes, Skills
<1>3. /\ made \in Folders /\ [made EXCEPT !.temp = TRUE] \in Folders
      /\ [made EXCEPT !.temp = TRUE].skill = made.skill /\ [made EXCEPT !.temp = TRUE].notes = made.notes
  BY DEF SkillsInv, SkillTypes, Folders, Empty, Holding
<1>4. /\ DOMAIN fDisk' = DOMAIN fDisk \cup {name} /\ fDisk' \in [DOMAIN fDisk' -> Folders]
      /\ \A n \in DOMAIN fDisk : fDisk'[n].skill = fDisk[n].skill /\ (fDisk[n].notes => fDisk'[n].notes)
  BY <1>1, <1>3 DEF SkillsInv, SkillTypes
<1>5. /\ \A n : Remains(n) => Remains(n)'
      /\ \A n : SkillThere(n) => SkillThere(n)'
      /\ Produced' = Produced /\ (Mistaken' <=> Mistaken)
  BY <1>1, <1>4 DEF Remains, SkillThere, Produced, Mistaken, SkillsOf
<1> HIDE DEF name, made
<1>6. SkillTypes'
  BY <1>1, <1>2, <1>4 DEF SkillsInv, SkillTypes
<1>7. ~fDry /\ ~Mistaken
  BY <1>1 DEF SkillsInv, SkillsWriting
<1>8. StandAsTheyAre'
  BY <1>1, <1>5, <1>7, OutcomeAssumption DEF StandAsTheyAre, Ending, ExitCode
<1>9. SkillsWriting'
  <2>1. Min(fLeft') \in DOMAIN fDisk'
    BY <1>1, <1>4 DEF name
  <2> QED
    BY <1>1, <1>2, <1>4, <1>5, <1>7, <2>1 DEF SkillsInv, SkillsWriting
<1>10. SkillsPruning'
  BY <1>1 DEF SkillsPruning
<1>11. (\A n \in fUser : n \in DOMAIN fDisk /\ fDisk[n].notes)'
  BY <1>1, <1>4 DEF SkillsInv, SkillsCorrect, HandWorkKept
<1> QED
  BY <1>1, <1>6, <1>8, <1>9, <1>10, <1>11, SkillsGoOn

LEMMA SkillsRenameKeeps == ASSUME SkillsInv, RenameSkill PROVE SkillsInv'
<1>0. PICK name : name = Min(fLeft)
  OBVIOUS
<1>1. /\ fStep = "rename" /\ fLeft # {} /\ fEnd = NoValue /\ ~fDry /\ ~Mistaken
      /\ name \in DOMAIN fDisk
      /\ UNCHANGED <<fProduct, fFilter, fDry, fPruned, fUnmanaged, fUser, fBefore>>
  BY <1>0 DEF RenameSkill, SkillsInv, SkillTypes, SkillsWriting
<1>2. name \in fLeft /\ name \in Skills /\ fDisk \in [DOMAIN fDisk -> Folders]
  BY <1>0, <1>1, LeastOf, SkillsAssumption DEF SkillsInv, SkillTypes, Skills
<1>3. \/ /\ fDisk' = [fDisk EXCEPT ![name].temp = FALSE, ![name].skill = "marked"]
         /\ fLeft' = fLeft \ {name} /\ fStep' = "write" /\ fEnd' = fEnd
      \/ /\ fDisk' = [fDisk EXCEPT ![name].temp = FALSE] /\ fStep' = "over" /\ fEnd' = "other" /\ fLeft' = fLeft
  BY <1>0 DEF RenameSkill, SkillsEnd
<1>4. ASSUME fDisk' = [fDisk EXCEPT ![name].temp = FALSE, ![name].skill = "marked"],
             fLeft' = fLeft \ {name}, fStep' = "write", fEnd' = fEnd
      PROVE  SkillsInv'
  <2>1. /\ DOMAIN fDisk' = DOMAIN fDisk /\ fDisk' \in [DOMAIN fDisk' -> Folders]
        /\ fDisk'[name].skill = "marked" /\ (fDisk[name].notes => fDisk'[name].notes)
        /\ \A n \in DOMAIN fDisk \ {name} : fDisk'[n] = fDisk[n]
    BY <1>1, <1>2, <1>4 DEF Folders
  <2>2. /\ \A n : n # name => (Remains(n) => Remains(n)') /\ (SkillThere(n) => SkillThere(n)')
        /\ SkillThere(name)'
        /\ Produced' = Produced /\ (Mistaken' <=> Mistaken)
    <3>1. ASSUME NEW n, n # name PROVE (Remains(n) => Remains(n)') /\ (SkillThere(n) => SkillThere(n)')
      BY <1>1, <2>1, <3>1 DEF Remains, SkillThere
    <3>2. SkillThere(name)'
      BY <1>1, <2>1 DEF SkillThere
    <3>3. Produced' = Produced /\ (Mistaken' <=> Mistaken)
      BY <1>1 DEF Produced, Mistaken, SkillsOf
    <3> QED
      BY <3>1, <3>2, <3>3
  <2>3. SkillTypes'
    BY <1>1, <1>4, <2>1 DEF SkillsInv, SkillTypes
  <2>4. StandAsTheyAre'
    BY <1>1, <1>4, <2>2, OutcomeAssumption DEF StandAsTheyAre, Ending, ExitCode
  <2>5. SkillsWriting'
    <3>1. /\ fLeft \subseteq Produced
          /\ \A n \in Produced \ fLeft : SkillThere(n)
          /\ \A n \in DOMAIN fBefore \ (Produced \ fLeft) : Remains(n)
          /\ DOMAIN fDisk \subseteq DOMAIN fBefore \cup Produced
          /\ fPruned = {} /\ fUnmanaged = {}
      BY <1>1 DEF SkillsInv, SkillsWriting
    <3>2. /\ fLeft' \subseteq Produced
          /\ \A n \in Produced \ fLeft' : SkillThere(n)'
          /\ \A n \in DOMAIN fBefore \ (Produced \ fLeft') : Remains(n)'
      BY <1>2, <1>4, <2>2, <3>1
    <3> QED
      BY <1>1, <1>4, <2>1, <2>2, <3>1, <3>2 DEF SkillsWriting
  <2>6. SkillsPruning'
    BY <1>4 DEF SkillsPruning
  <2>7. (\A n \in fUser : n \in DOMAIN fDisk /\ fDisk[n].notes)'
    BY <1>1, <2>1 DEF SkillsInv, SkillsCorrect, HandWorkKept
  <2> QED
    BY <1>4, <2>3, <2>4, <2>5, <2>6, <2>7, SkillsGoOn
<1>5. ASSUME fDisk' = [fDisk EXCEPT ![name].temp = FALSE], fStep' = "over", fEnd' = "other", fLeft' = fLeft
      PROVE  SkillsInv'
  <2>1. /\ DOMAIN fDisk' = DOMAIN fDisk /\ fDisk' \in [DOMAIN fDisk' -> Folders]
        /\ \A n \in DOMAIN fDisk : fDisk'[n].skill = fDisk[n].skill /\ (fDisk[n].notes => fDisk'[n].notes)
    BY <1>1, <1>2, <1>5 DEF Folders
  <2>2. Produced' = Produced /\ (Mistaken' <=> Mistaken)
    BY <1>1 DEF Produced, Mistaken, SkillsOf
  <2>3. SkillTypes' /\ StandAsTheyAre' /\ SkillsWriting' /\ SkillsPruning'
    BY <1>1, <1>5, <2>1, <2>2 DEF SkillsInv, SkillTypes, StandAsTheyAre, SkillsWriting, SkillsPruning
  <2>4. HandWorkKept'
    BY <1>1, <2>1, <2>2 DEF SkillsInv, SkillsCorrect, HandWorkKept
  <2>5. NothingStarted'
    <3>1. fFilter # {} => \A n \in DOMAIN fBefore : n \in DOMAIN fDisk' /\
             (fBefore[n].skill = "marked" => fDisk'[n].skill = "marked")
      BY <1>1, <2>1 DEF SkillsInv, SkillsCorrect, NothingStarted
    <3> QED
      BY <1>1, <1>5, <2>2, <3>1 DEF NothingStarted, Mistaken, SkillsOf
  <2>6. CompleteRunExact'
    BY <1>5 DEF CompleteRunExact
  <2> QED
    BY <2>3, <2>4, <2>5, <2>6 DEF SkillsInv, SkillsCorrect
<1> QED
  BY <1>3, <1>4, <1>5

LEMMA SkillsListKeeps == ASSUME SkillsInv, SkillsWritten \/ ListStale PROVE SkillsInv'
<1>1. /\ fStep \in {"write", "list"} /\ fEnd = NoValue /\ ~Mistaken
      /\ UNCHANGED <<fProduct, fFilter, fDry, fDisk, fPruned, fUnmanaged, fUser, fBefore>>
  BY DEF SkillsWritten, ListStale, SkillsInv, SkillTypes, SkillsWriting
<1>2. /\ \A n : Remains(n)' <=> Remains(n)
      /\ \A n : SkillThere(n)' <=> SkillThere(n)
      /\ Produced' = Produced /\ (Mistaken' <=> Mistaken)
  BY <1>1 DEF Remains, SkillThere, Produced, Mistaken, SkillsOf
<1>3. (\A n \in fUser : n \in DOMAIN fDisk /\ fDisk[n].notes)'
  BY <1>1 DEF SkillsInv, SkillsCorrect, HandWorkKept
<1>4. CASE SkillsWritten
  <2>1. fStep = "write" /\ fLeft = {} /\ fStep' = "list" /\ fLeft' = fLeft /\ fEnd' = fEnd
    BY <1>4 DEF SkillsWritten
  <2>2. SkillTypes' /\ StandAsTheyAre' /\ SkillsPruning'
    BY <1>1, <1>2, <2>1 DEF SkillsInv, SkillTypes, StandAsTheyAre, SkillsPruning
  <2>3. SkillsWriting'
    BY <1>1, <1>2, <2>1 DEF SkillsInv, SkillsWriting
  <2> QED
    BY <1>3, <2>1, <2>2, <2>3, SkillsGoOn
<1>5. CASE ListStale /\ fFilter # {}
  <2>1. fStep = "list" /\ SkillsEnd("ok") /\ fLeft' = {}
    BY <1>5 DEF ListStale
  <2> QED
    BY <1>1, <1>5, <2>1, SkillsStop DEF SkillsEnd
<1>6. CASE ListStale /\ fFilter = {}
  <2>1. fStep = "list" /\ fLeft' = DOMAIN fDisk \ Produced /\ fStep' = "prune" /\ fEnd' = fEnd
        /\ fPruned' = fPruned /\ Produced = fProduct
    BY <1>1, <1>6, ProducedFacts DEF ListStale
  <2>2. SkillTypes' /\ StandAsTheyAre' /\ SkillsWriting'
    BY <1>1, <1>2, <2>1 DEF SkillsInv, SkillTypes, StandAsTheyAre, SkillsWriting
  <2>3. fPruned = {} /\ fUnmanaged = {}
    BY <1>6, <2>1 DEF SkillsInv, SkillsWriting
  <2>4. SkillsPruning'
    <3>1. CASE fDry
      BY <1>1, <1>2, <1>6, <2>1, <2>3, <3>1 DEF SkillsInv, StandAsTheyAre, SkillsPruning
    <3>2. CASE ~fDry
      <4>1. /\ \A name \in Produced : SkillThere(name)
            /\ \A name \in DOMAIN fBefore \ Produced : Remains(name)
            /\ DOMAIN fDisk \subseteq DOMAIN fBefore \cup Produced
        BY <2>1, <3>2 DEF SkillsInv, SkillsWriting
      <4>2. DOMAIN fBefore \ fProduct = fLeft'
        BY <2>1, <4>1 DEF Remains
      <4> QED
        BY <1>1, <1>2, <1>6, <2>1, <2>3, <3>2, <4>1, <4>2 DEF SkillsPruning
    <3> QED
      BY <3>1, <3>2
  <2> QED
    BY <1>3, <2>1, <2>2, <2>4, SkillsGoOn
<1> QED
  BY <1>4, <1>5, <1>6

LEMMA SkillsPruneKeeps == ASSUME SkillsInv, Prune PROVE SkillsInv'
<1>0. PICK name : name = Min(fLeft)
  OBVIOUS
<1>1. /\ fStep = "prune" /\ fLeft # {} /\ fEnd = NoValue /\ fFilter = {}
      /\ UNCHANGED <<fProduct, fFilter, fDry, fUser, fBefore>>
  BY DEF Prune, SkillsInv, SkillTypes, SkillsPruning
<1>2. name \in fLeft /\ name \in DOMAIN fDisk /\ fDisk \in [DOMAIN fDisk -> Folders]
  BY <1>0, <1>1, LeastOf, SkillsAssumption DEF SkillsInv, SkillTypes, SkillsPruning, Skills
<1>3. Produced' = Produced /\ (Mistaken' <=> Mistaken)
  BY <1>1 DEF Produced, Mistaken, SkillsOf
<1>4. /\ fLeft \subseteq DOMAIN fDisk \ fProduct /\ fLeft \cap fUnmanaged = {}
      /\ DOMAIN fBefore \ fProduct = fPruned \cup fUnmanaged \cup fLeft
      /\ \A n \in fPruned : fBefore[n].skill = "marked"
      /\ \A n \in fUnmanaged \cup fLeft : Remains(n)
      /\ \A n \in fUnmanaged : fDisk[n].skill # "marked"
      /\ ~fDry => /\ DOMAIN fDisk \ fProduct = fUnmanaged \cup fLeft
                  /\ \A n \in fProduct : SkillThere(n)
  BY <1>1 DEF SkillsInv, SkillsPruning
<1>5. ASSUME NEW e \in {"validation", "other"}, SkillsEnd(e),
             UNCHANGED <<fLeft, fDisk, fPruned, fUnmanaged>>
      PROVE  SkillsInv'
  BY <1>1, <1>5, SkillsStop DEF SkillsEnd, SkillsInv, SkillTypes
<1>6. ASSUME fDisk' = fDisk, fLeft' = fLeft \ {name}, fStep' = fStep, fEnd' = fEnd,
             \/ ~Owned(fDisk[name]) /\ fUnmanaged' = fUnmanaged \cup {name} /\ fPruned' = fPruned
             \/ Owned(fDisk[name]) /\ fDry /\ fPruned' = fPruned \cup {name} /\ fUnmanaged' = fUnmanaged
      PROVE  SkillsInv'
  <2>1. /\ \A n : Remains(n)' <=> Remains(n)
        /\ \A n : SkillThere(n)' <=> SkillThere(n)
    BY <1>1, <1>6 DEF Remains, SkillThere
  <2>2. SkillTypes' /\ StandAsTheyAre' /\ SkillsWriting'
    BY <1>1, <1>3, <1>6, <2>1 DEF SkillsInv, SkillTypes, StandAsTheyAre, SkillsWriting
  <2>3. SkillsPruning'
    BY <1>1, <1>2, <1>4, <1>6, <2>1 DEF SkillsPruning, Owned, Remains
  <2>4. (\A n \in fUser : n \in DOMAIN fDisk /\ fDisk[n].notes)'
    BY <1>1, <1>6 DEF SkillsInv, SkillsCorrect, HandWorkKept
  <2> QED
    BY <1>1, <1>6, <2>2, <2>3, <2>4, SkillsGoOn
<1>7. ASSUME fDisk' = [fDisk EXCEPT ![name].skill = "none"], fStep' = "remove", Owned(fDisk[name]), ~fDry,
             UNCHANGED <<fPruned, fLeft, fUnmanaged, fEnd>>
      PROVE  SkillsInv'
  <2>1. /\ DOMAIN fDisk' = DOMAIN fDisk /\ fDisk' \in [DOMAIN fDisk' -> Folders]
        /\ fDisk'[name].skill = "none" /\ (fDisk[name].notes => fDisk'[name].notes)
        /\ \A n \in DOMAIN fDisk \ {name} : fDisk'[n] = fDisk[n]
    BY <1>2, <1>7 DEF Folders
  <2>2. ASSUME NEW n, n # name PROVE (Remains(n) => Remains(n)') /\ (SkillThere(n) => SkillThere(n)')
    BY <1>1, <2>1, <2>2 DEF Remains, SkillThere
  <2>3. Min(fLeft') = name
    BY <1>0, <1>7
  <2>4. SkillTypes' /\ SkillsWriting'
    BY <1>1, <1>7, <2>1 DEF SkillsInv, SkillTypes, SkillsWriting
  <2>5. ~Mistaken /\ fEnd # "discovery"
    BY <1>1, OutcomeAssumption DEF Mistaken, Ending, ExitCode
  <2>6. StandAsTheyAre'
    BY <1>1, <1>3, <1>7, <2>5 DEF StandAsTheyAre
  <2>7. fBefore[name].skill = "marked"
    BY <1>2, <1>4, <1>7 DEF Remains, Owned
  <2>8. SkillsPruning'
    <3>1. \A n \in fUnmanaged \cup fLeft : Remains(n)' \/ n = name
      BY <1>4, <2>2
    <3>2. \A n \in fUnmanaged : fDisk'[n].skill # "marked"
      BY <1>2, <1>4, <2>1 DEF Remains
    <3>3. \A n \in fProduct : SkillThere(n)'
      BY <1>2, <1>4, <1>7, <2>2
    <3> QED
      BY <1>1, <1>2, <1>4, <1>7, <2>1, <2>3, <2>7, <3>1, <3>2, <3>3 DEF SkillsPruning
  <2>9. (\A n \in fUser : n \in DOMAIN fDisk /\ fDisk[n].notes)'
    BY <1>1, <2>1 DEF SkillsInv, SkillsCorrect, HandWorkKept
  <2> QED
    BY <1>7, <2>4, <2>6, <2>8, <2>9, SkillsGoOn
<1> QED
  BY <1>0, <1>1, <1>5, <1>6, <1>7 DEF Prune

LEMMA SkillsRemoveKeeps == ASSUME SkillsInv, RemoveFolder PROVE SkillsInv'
<1>0. PICK name : name = Min(fLeft)
  OBVIOUS
<1>1. /\ fStep = "remove" /\ fLeft # {} /\ fEnd = NoValue /\ fFilter = {} /\ ~fDry
      /\ UNCHANGED <<fProduct, fFilter, fDry, fUnmanaged, fUser, fBefore>>
  BY DEF RemoveFolder, SkillsInv, SkillTypes, SkillsPruning
<1>2. name \in fLeft /\ name \in DOMAIN fDisk /\ fDisk \in [DOMAIN fDisk -> Folders]
  BY <1>0, <1>1, LeastOf, SkillsAssumption DEF SkillsInv, SkillTypes, SkillsPruning, Skills
<1>3. Produced' = Produced /\ (Mistaken' <=> Mistaken) /\ ~Mistaken
  BY <1>1 DEF Produced, Mistaken, SkillsOf
<1>4. /\ fLeft \subseteq DOMAIN fDisk \ fProduct /\ fLeft \cap fUnmanaged = {}
      /\ DOMAIN fBefore \ fProduct = fPruned \cup fUnmanaged \cup fLeft
      /\ \A n \in fPruned \cup {name} : fBefore[n].skill = "marked"
      /\ \A n \in fUnmanaged \cup fLeft : Remains(n) \/ n = name
      /\ \A n \in fUnmanaged : fDisk[n].skill # "marked"
      /\ DOMAIN fDisk \ fProduct = fUnmanaged \cup fLeft
      /\ \A n \in fProduct : SkillThere(n)
  BY <1>0, <1>1 DEF SkillsInv, SkillsPruning
<1>5. ASSUME SkillsEnd("other"), UNCHANGED <<fLeft, fDisk, fPruned>> PROVE SkillsInv'
  BY <1>1, <1>5, SkillsStop DEF SkillsEnd, SkillsInv, SkillTypes
<1>6. ASSUME ~fDisk[name].notes, fDisk' = [n \in DOMAIN fDisk \ {name} |-> fDisk[n]],
             fPruned' = fPruned \cup {name}, fLeft' = fLeft \ {name}, fStep' = "prune", fEnd' = fEnd
      PROVE  SkillsInv'
  <2>1. /\ DOMAIN fDisk' = DOMAIN fDisk \ {name} /\ fDisk' \in [DOMAIN fDisk' -> Folders]
        /\ \A n \in DOMAIN fDisk \ {name} : fDisk'[n] = fDisk[n]
    BY <1>2, <1>6
  <2>2. ASSUME NEW n, n # name PROVE (Remains(n) => Remains(n)') /\ (SkillThere(n) => SkillThere(n)')
    BY <1>1, <2>1, <2>2 DEF Remains, SkillThere
  <2>3. SkillTypes' /\ SkillsWriting'
    BY <1>1, <1>3, <1>6, <2>1 DEF SkillsInv, SkillTypes, SkillsWriting
  <2>4. fEnd # "discovery"
    BY <1>1, OutcomeAssumption DEF Ending, ExitCode
  <2>5. StandAsTheyAre'
    BY <1>1, <1>3, <1>6, <2>4 DEF StandAsTheyAre
  <2>6. SkillsPruning'
    <3>1. \A n \in fUnmanaged \cup fLeft' : Remains(n)'
      BY <1>2, <1>4, <1>6, <2>2
    <3>2. \A n \in fUnmanaged : fDisk'[n].skill # "marked"
      BY <1>2, <1>4, <2>1
    <3>3. \A n \in fProduct : SkillThere(n)'
      BY <1>2, <1>4, <2>2
    <3> QED
      BY <1>1, <1>2, <1>4, <1>6, <2>1, <3>1, <3>2, <3>3 DEF SkillsPruning
  <2>7. (\A n \in fUser : n \in DOMAIN fDisk /\ fDisk[n].notes)'
    BY <1>1, <1>6, <2>1 DEF SkillsInv, SkillsCorrect, HandWorkKept
  <2> QED
    BY <1>6, <2>3, <2>5, <2>6, <2>7, SkillsGoOn
<1> QED
  BY <1>0, <1>1, <1>5, <1>6 DEF RemoveFolder

LEMMA SkillsInvStep == SkillsInv /\ [SkillsNext]_skillVars => SkillsInv'
<1> SUFFICES ASSUME SkillsInv, [SkillsNext]_skillVars PROVE SkillsInv'
  OBVIOUS
<1>1. CASE SkillsDone
  BY <1>1, SkillsStop DEF SkillsDone, SkillsEnd, SkillsInv, SkillTypes
<1>2. CASE SkillsKilled
  BY <1>2, SkillsStop, OutcomeAssumption DEF SkillsKilled, SkillsInv, SkillTypes, Ending, ExitCode
<1>3. CASE UNCHANGED skillVars
  BY <1>3 DEF skillVars, SkillsInv, SkillTypes, StandAsTheyAre, SkillsWriting, SkillsPruning, SkillsCorrect,
     HandWorkKept, NothingStarted, CompleteRunExact, Remains, SkillThere, Produced, Mistaken, SkillsOf
<1> QED
  BY <1>1, <1>2, <1>3, SkillsBeginKeeps, SkillsRenderKeeps, SkillsCreateKeeps, SkillsRenameKeeps,
     SkillsListKeeps, SkillsPruneKeeps, SkillsRemoveKeeps, SkillsUserAdds DEF SkillsNext

-----------------------------------------------------------------------------
\* gmail +attachments: the parts of a message, and the files of others.

\* A name: its spelling, and the numbers appended to it.
FileName == Seq(Spelling \cup Nat) \ {<< >>}

OwnNames == \A i, j \in 1..Len(pPlan) : i # j => CollisionKey(pPlan[i]) # CollisionKey(pPlan[j])

PartsShape ==
  /\ pStep \in {"off", "plan", "fetch", "create", "commit", "over", "dead"}
  /\ pPlan \in Seq(FileName) /\ pSaved \in Nat /\ pSaved <= Len(pPlan)
  /\ Len(pParts) \in Nat /\ \A i \in 1..Len(pParts) : pParts[i] \in PartName
  /\ pStep = "off" => pAlien = {} /\ DOMAIN pDisk = {} /\ Len(pPlan) = 0 /\ Len(pParts) = 0 /\ pEnd # "ok"
  /\ pStep \in {"off", "plan"} => pSaved = 0
  /\ pStep \in {"fetch", "create", "commit"} => Len(pPlan) = Len(pParts)
  /\ pStep \in {"create", "commit"} => pSaved < Len(pParts)
  /\ pStep \notin {"over", "dead"} => pEnd = NoValue
  /\ pAlien \subseteq DOMAIN pDisk

PartsInv == PartsShape /\ OwnNames /\ PartsStand /\ NothingClobbered

LEMMA NamesExtended ==
  ASSUME NEW name \in FileName, NEW n \in Nat
  PROVE  /\ name \o <<n>> \in FileName
         /\ CollisionKey(name \o <<n>>) = CollisionKey(name) \o <<n>>
<1>1. name \in Seq(Spelling \cup Nat) /\ <<n>> \in Seq(Spelling \cup Nat) /\ Len(name) > 0
  BY DEF FileName
<1>2. name \o <<n>> \in FileName
  BY <1>1 DEF FileName
<1>3. Tail(name \o <<n>>) = Tail(name) \o <<n>>
  BY <1>1
<1> QED
  BY <1>2, <1>3 DEF CollisionKey

LEMMA DedupeIsOwn ==
  ASSUME NEW name \in FileName, NEW taken, IsFiniteSet(taken)
  PROVE  /\ Dedupe(name, taken) \in FileName
         /\ \A t \in taken : CollisionKey(t) # CollisionKey(Dedupe(name, taken))
<1> DEFINE keys == {CollisionKey(t) : t \in taken}
           key(n) == CollisionKey(name \o <<n>>)
           free == {n \in 1..(Cardinality(keys) + 1) : key(n) \notin keys}
           first(n) == key(n) \notin keys /\ \A m \in 1..(n - 1) : key(m) \in keys
<1>1. IsFiniteSet(keys) /\ Cardinality(keys) \in Nat
  <2> DEFINE f == [t \in taken |-> CollisionKey(t)]
  <2>1. f \in Surjection(taken, keys)
    BY DEF Surjection
  <2> QED
    BY <2>1, FS_Surjection, FS_CardinalityType
<1>2. ASSUME NEW m \in Nat, NEW n \in Nat, key(m) = key(n) PROVE m = n
  <2>1. CollisionKey(name) \in Seq(Spelling \cup Nat)
    BY DEF CollisionKey, FileName
  <2>2. CollisionKey(name) \o <<m>> = CollisionKey(name) \o <<n>>
    BY <1>2, NamesExtended
  <2>3. (CollisionKey(name) \o <<m>>)[Len(CollisionKey(name)) + 1] = m
    BY <2>1
  <2>4. (CollisionKey(name) \o <<n>>)[Len(CollisionKey(name)) + 1] = n
    BY <2>1
  <2> QED
    BY <2>2, <2>3, <2>4
<1>3. free # {}
  <2> SUFFICES ASSUME free = {} PROVE FALSE
    OBVIOUS
  <2> DEFINE numbers == 1..(Cardinality(keys) + 1)
             g == [n \in numbers |-> key(n)]
  <2>1. g \in [numbers -> keys]
    OBVIOUS
  <2>2. IsFiniteSet(numbers) /\ Cardinality(numbers) = Cardinality(keys) + 1
    BY <1>1, FS_Interval
  <2>3. \E x, y \in numbers : x # y /\ g[x] = g[y]
    <3> HIDE DEF g, keys, numbers
    <3> QED
      BY <1>1, <2>1, <2>2, FS_PigeonHole
  <2> QED
    BY <2>3, <1>2
<1>4. \E n \in 1..(Cardinality(keys) + 1) : first(n)
  <2>1. Min(free) \in free /\ \A y \in free : Min(free) <= y
    <3>1. free \subseteq Nat
      OBVIOUS
    <3> HIDE DEF free
    <3> QED
      BY <1>3, <3>1, LeastOf
  <2> HIDE DEF key, keys
  <2> QED
    BY <2>1, <1>1
<1>5. CASE CollisionKey(name) \notin keys
  BY <1>5 DEF Dedupe
<1>6. CASE CollisionKey(name) \in keys
  <2> DEFINE n == CHOOSE n \in 1..(Cardinality(keys) + 1) : first(n)
  <2>1. n \in 1..(Cardinality(keys) + 1) /\ first(n)
    <3> HIDE DEF first, keys
    <3> QED
      BY <1>4
  <2>2. Dedupe(name, taken) = name \o <<n>>
    BY <1>6 DEF Dedupe
  <2> HIDE DEF n
  <2>3. n \in Nat /\ key(n) \notin keys
    BY <2>1, <1>1
  <2> QED
    BY <2>2, <2>3, NamesExtended
<1> QED
  BY <1>5, <1>6

LEMMA NothingIsNotOk == NoValue # "ok"
  BY EndKnown, OutcomeAssumption

\* One name, one file.
LEMMA FilesApart ==
  ASSUME NEW name, NEW other, CollisionKey(name) # CollisionKey(other)
  PROVE  FileAt(name) # FileAt(other)
  BY DEF FileAt

\* What is in nobody's hands stays: the disk, or what was saved.
LEMMA PartsGoOn ==
  ASSUME PartsInv, UNCHANGED <<pParts, pOverwrite, pFolding, pPlan, pSaved, pDisk, pAlien>>, PartsShape', pEnd' # "ok"
  PROVE  PartsInv'
  BY DEF PartsInv, OwnNames, PartsStand, NothingClobbered, Taken, FileAt, CollisionKey

LEMMA PlanStep ==
  ASSUME PartsInv, PlanPart
  PROVE  PartsInv'
<1> DEFINE name == pParts[Len(pPlan) + 1]
           path == Dedupe(name, ToSet(pPlan))
<1>1. /\ pStep = "plan" /\ Len(pPlan) \in Nat /\ Len(pPlan) < Len(pParts)
      /\ pPlan \in Seq(FileName) /\ pSaved = 0
  BY DEF PlanPart, PartsInv, PartsShape
<1>2. name \in FileName
  <2>1. name \in PartName
    BY <1>1 DEF PartsInv, PartsShape
  <2>2. \A s \in Spelling : <<s>> \in FileName /\ <<s, 1>> \in FileName
    BY DEF FileName
  <2> QED
    BY <2>1, <2>2 DEF PartName
<1>3. IsFiniteSet(ToSet(pPlan))
  <2>1. pPlan \in Surjection(1..Len(pPlan), ToSet(pPlan))
    BY <1>1 DEF Surjection, ToSet
  <2> QED
    BY <1>1, <2>1, FS_Interval, FS_Surjection
<1>4. path \in FileName /\ \A t \in ToSet(pPlan) : CollisionKey(t) # CollisionKey(path)
  BY <1>2, <1>3, DedupeIsOwn
<1>5. /\ pPlan' = Append(pPlan, path)
      /\ UNCHANGED <<pParts, pOverwrite, pFolding, pSaved, pDisk, pAlien>>
      /\ \/ pStep' = "over" /\ pEnd' = "validation"
         \/ pStep' = pStep /\ pEnd' = pEnd
  BY DEF PlanPart, PartsEnd
<1> HIDE DEF path
<1>6. /\ pPlan' \in Seq(FileName) /\ Len(pPlan') = Len(pPlan) + 1 /\ pPlan'[Len(pPlan) + 1] = path
      /\ \A i \in 1..Len(pPlan) : pPlan'[i] = pPlan[i]
  BY <1>1, <1>4, <1>5
<1>7. PartsShape'
  BY <1>1, <1>5, <1>6 DEF PartsInv, PartsShape
<1>8. OwnNames'
  <2>1. \A i \in 1..Len(pPlan) : CollisionKey(pPlan'[i]) # CollisionKey(path)
    BY <1>1, <1>4, <1>6 DEF ToSet
  <2>2. \A i, j \in 1..Len(pPlan) : i # j => CollisionKey(pPlan'[i]) # CollisionKey(pPlan'[j])
    BY <1>6 DEF PartsInv, OwnNames
  <2>3. \A i \in 1..(Len(pPlan) + 1) : i \in 1..Len(pPlan) \/ i = Len(pPlan) + 1
    BY <1>1
  <2>4. ASSUME NEW i \in 1..Len(pPlan'), NEW j \in 1..Len(pPlan'), i # j
        PROVE  CollisionKey(pPlan'[i]) # CollisionKey(pPlan'[j])
    BY <1>6, <2>1, <2>2, <2>3, <2>4
  <2> QED
    BY <2>4 DEF OwnNames
<1>9. PartsStand' /\ NothingClobbered'
  BY <1>1, <1>5 DEF PartsInv, PartsShape, PartsStand, NothingClobbered
<1> QED
  BY <1>7, <1>8, <1>9 DEF PartsInv

\* The disk with one thing more.
LEMMA DiskGrown ==
  ASSUME NEW name, NEW thing, pDisk' = DiskWith(name, thing)
  PROVE  /\ DOMAIN pDisk' = DOMAIN pDisk \cup {FileAt(name)} /\ pDisk'[FileAt(name)] = thing
         /\ \A e \in DOMAIN pDisk : e # FileAt(name) => pDisk'[e] = pDisk[e]
  BY DEF DiskWith

LEMMA CommitStep ==
  ASSUME PartsInv, CommitPart
  PROVE  PartsInv'
<1>1. /\ pStep = "commit" /\ pSaved \in Nat /\ pSaved < Len(pParts) /\ Len(pPlan) = Len(pParts)
      /\ Len(pParts) \in Nat
      /\ UNCHANGED <<pParts, pOverwrite, pFolding, pPlan, pAlien>>
  BY DEF CommitPart, PartsInv, PartsShape
<1>2. CASE (PartsEnd("validation") \/ PartsEnd("other")) /\ UNCHANGED <<pSaved, pDisk>>
  <2>1. PartsShape' /\ pEnd' # "ok"
    BY <1>1, <1>2 DEF PartsInv, PartsShape, PartsEnd
  <2> QED
    BY <1>1, <1>2, <2>1, PartsGoOn
<1>3. ASSUME NEW path, path = pPlan[pSaved + 1],
             pOverwrite \/ ~Taken(path), pDisk' = DiskWith(path, Thing("part", pSaved + 1)),
             pSaved' = pSaved + 1, pStep' = "fetch", UNCHANGED pEnd
      PROVE  PartsInv'
  <2>1. /\ DOMAIN pDisk' = DOMAIN pDisk \cup {FileAt(path)} /\ pDisk'[FileAt(path)] = Thing("part", pSaved + 1)
        /\ \A e \in DOMAIN pDisk : e # FileAt(path) => pDisk'[e] = pDisk[e]
    BY <1>3, DiskGrown
  <2>2. PartsShape'
    BY <1>1, <1>3, <2>1 DEF PartsInv, PartsShape
  <2>3. OwnNames'
    BY <1>1 DEF PartsInv, OwnNames, CollisionKey
  <2>4. PartsStand'
    <3>1. \A i \in 1..pSaved' : FileAt(pPlan[i])' = FileAt(pPlan[i])
      BY <1>1 DEF FileAt, CollisionKey
    <3>2. \A i \in 1..pSaved : FileAt(pPlan[i]) # FileAt(path)
      <4>1. \A i \in 1..pSaved : CollisionKey(pPlan[i]) # CollisionKey(pPlan[pSaved + 1])
        BY <1>1 DEF PartsInv, OwnNames
      <4> QED
        BY <1>3, <4>1, FilesApart
    <3>3. \A i \in 1..pSaved : FileAt(pPlan[i]) \in DOMAIN pDisk' /\ pDisk'[FileAt(pPlan[i])] = Thing("part", i)
      BY <2>1, <3>2 DEF PartsInv, PartsStand, Taken
    <3>4. \A i \in 1..(pSaved + 1) : i \in 1..pSaved \/ i = pSaved + 1
      BY <1>1
    <3>5. \A i \in 1..pSaved' : FileAt(pPlan[i]) \in DOMAIN pDisk' /\ pDisk'[FileAt(pPlan[i])] = Thing("part", i)
      BY <1>1, <1>3, <2>1, <3>3, <3>4
    <3>6. \A e \in DOMAIN pDisk' : pDisk'[e].what = "part" => pDisk'[e].part \in 1..pSaved'
      <4>1. Thing("part", pSaved + 1).part = pSaved + 1
        BY DEF Thing
      <4>2. pSaved + 1 \in 1..pSaved' /\ 1..pSaved \subseteq 1..pSaved'
        BY <1>1, <1>3
      <4> QED
        BY <2>1, <4>1, <4>2 DEF PartsInv, PartsStand
    <3>7. pEnd' # "ok"
      BY <1>1, <1>3, NothingIsNotOk DEF PartsInv, PartsShape
    <3> QED
      BY <3>1, <3>5, <3>6, <3>7 DEF PartsStand, Taken
  <2>5. NothingClobbered'
    BY <1>1, <1>3, <2>1 DEF PartsInv, PartsShape, NothingClobbered, Taken
  <2> QED
    BY <2>2, <2>3, <2>4, <2>5 DEF PartsInv
<1> QED
  BY <1>2, <1>3 DEF CommitPart

LEMMA IntrudeStep ==
  ASSUME PartsInv, NEW name \in PartName, Intrude(name)
  PROVE  PartsInv'
<1>1. PICK what \in {"user", "dir"} : pDisk' = DiskWith(name, Thing(what, 0))
  BY DEF Intrude
<1>2. /\ pAlien' = pAlien \cup {FileAt(name)} /\ pStep \notin {"off", "over", "dead"}
      /\ UNCHANGED <<pStep, pParts, pOverwrite, pFolding, pPlan, pConflict, pSaved, pEnd>>
      /\ FileAt(name) \notin DOMAIN pDisk
  BY DEF Intrude, Taken
<1>3. Thing(what, 0).what # "part"
  BY DEF Thing
<1>4. /\ DOMAIN pDisk' = DOMAIN pDisk \cup {FileAt(name)} /\ pDisk'[FileAt(name)] = Thing(what, 0)
      /\ \A e \in DOMAIN pDisk : e # FileAt(name) => pDisk'[e] = pDisk[e]
  <2> DEFINE thing == Thing(what, 0)
  <2>1. pDisk' = DiskWith(name, thing)
    BY <1>1
  <2> HIDE DEF thing
  <2>2. /\ DOMAIN pDisk' = DOMAIN pDisk \cup {FileAt(name)} /\ pDisk'[FileAt(name)] = thing
        /\ \A e \in DOMAIN pDisk : e # FileAt(name) => pDisk'[e] = pDisk[e]
    BY <2>1 DEF DiskWith
  <2> QED
    BY <2>2 DEF thing
<1>5. PartsShape'
  BY <1>2, <1>4 DEF PartsInv, PartsShape
<1>6. OwnNames'
  BY <1>2 DEF PartsInv, OwnNames, CollisionKey
<1>7. PartsStand'
  <2>1. \A n : FileAt(n)' = FileAt(n)
    BY <1>2 DEF FileAt, CollisionKey
  <2>2. \A i \in 1..pSaved : FileAt(pPlan[i]) \in DOMAIN pDisk' /\ pDisk'[FileAt(pPlan[i])] = Thing("part", i)
    BY <1>2, <1>4 DEF PartsInv, PartsStand, Taken
  <2>3. \A e \in DOMAIN pDisk' : pDisk'[e].what = "part" => pDisk'[e].part \in 1..pSaved
    BY <1>3, <1>4 DEF PartsInv, PartsStand
  <2> QED
    BY <1>2, <2>1, <2>2, <2>3 DEF PartsInv, PartsStand, Taken
<1>8. NothingClobbered'
  BY <1>2, <1>3, <1>4 DEF PartsInv, PartsShape, NothingClobbered
<1> QED
  BY <1>5, <1>6, <1>7, <1>8 DEF PartsInv

LEMMA PartsInvStep == PartsInv /\ [PartsNext]_partsVars => PartsInv'
<1> SUFFICES ASSUME PartsInv, [PartsNext]_partsVars PROVE PartsInv'
  OBVIOUS
<1>1. ASSUME NEW n \in 0..MaxParts, NEW parts \in [1..n -> PartName], NEW overwrite \in BOOLEAN, NEW folding \in BOOLEAN,
             PartsBegin(parts, overwrite, folding)
      PROVE  PartsInv'
  <2>1. /\ pStep = "off" /\ pStep' = "plan" /\ pParts' = parts
        /\ UNCHANGED <<pPlan, pConflict, pSaved, pDisk, pAlien, pEnd>>
        /\ pAlien = {} /\ DOMAIN pDisk = {} /\ Len(pPlan) = 0 /\ pSaved = 0 /\ pEnd = NoValue
    BY <1>1 DEF PartsBegin, PartsInv, PartsShape
  <2>2. Len(parts) = n /\ n \in Nat
    OBVIOUS
  <2>3. PartsShape'
    BY <2>1, <2>2 DEF PartsInv, PartsShape
  <2>4. PartsStand' /\ NothingClobbered'
    BY <2>1, <2>3, NothingIsNotOk DEF PartsShape, PartsStand, NothingClobbered
  <2>5. OwnNames'
    BY <2>1 DEF OwnNames
  <2> QED
    BY <2>3, <2>4, <2>5 DEF PartsInv
<1>2. CASE PlanPart
  BY <1>2, PlanStep
<1>3. CASE PlanDone \/ FetchPart \/ CreatePart \/ PartsKilled
  <2>1. UNCHANGED <<pParts, pOverwrite, pFolding, pPlan, pSaved, pDisk, pAlien>>
    BY <1>3 DEF PlanDone, FetchPart, CreatePart, PartsKilled
  <2>2. pEnd' # "ok"
    BY <1>3, NothingIsNotOk DEF PlanDone, FetchPart, CreatePart, PartsKilled, PartsEnd, PartsInv, PartsShape
  <2>3. PartsShape'
    BY <1>3, <2>1 DEF PlanDone, FetchPart, CreatePart, PartsKilled, PartsEnd, PartsInv, PartsShape
  <2> QED
    BY <2>1, <2>2, <2>3, PartsGoOn
<1>4. CASE CommitPart
  BY <1>4, CommitStep
<1>5. CASE PartsDone
  BY <1>5 DEF PartsDone, PartsEnd, PartsInv, PartsShape, OwnNames, PartsStand, NothingClobbered, Taken, FileAt, CollisionKey
<1>6. ASSUME NEW name \in PartName, Intrude(name) PROVE PartsInv'
  BY <1>6, IntrudeStep
<1>7. CASE UNCHANGED partsVars
  BY <1>7 DEF partsVars, PartsInv, PartsShape, OwnNames, PartsStand, NothingClobbered, Taken, FileAt, CollisionKey
<1> QED
  BY <1>1, <1>2, <1>3, <1>4, <1>5, <1>6, <1>7 DEF PartsNext

LEMMA PartsBegins == PartsInit => PartsInv
<1> SUFFICES ASSUME PartsInit PROVE PartsInv
  OBVIOUS
<1>1. PartsShape
  BY NothingIsNotOk DEF PartsInit, PartsShape
<1>2. PartsStand
  BY NothingIsNotOk DEF PartsInit, PartsStand
<1> QED
  BY <1>1, <1>2 DEF PartsInit, PartsInv, OwnNames, NothingClobbered

-----------------------------------------------------------------------------
\* drive +download and +export.

DownloadAsk ==
  [command : DownloadCommand, output : {"name", "path", "stdout"}, overwrite : BOOLEAN, sanitize : BOOLEAN,
   dryRun : BOOLEAN]

DownloadInv ==
  /\ hTurns \in Nat /\ hStep \in {"off", "check", "meta", "fetch", "emit", "over"}
  /\ hTurns = 0 => /\ hStep = "off" /\ hLocal = "none" /\ hOut = {} /\ hAdvice = {} /\ ~hSure
                   /\ ~hMistyped /\ ~hFollows
  /\ hTurns # 0 => hAsked \in DownloadAsk
  /\ hSure \in BOOLEAN
  /\ hAdvice \subseteq DownloadCommand
  /\ hSure => \A a \in hAdvice : Fits(a)
  /\ hFollows => Fits(hAsked.command)
  /\ hStep # "over" => ~hMistyped
  /\ hStep \in {"check", "meta", "fetch"} => hOut = {}
  /\ hStep \in {"meta", "fetch", "emit"} => ~hAsked.dryRun /\ ~RefusesStdout
  /\ hStep = "emit" => hOut = IF hAsked.output = "stdout" THEN {"raw"} ELSE {}
  /\ DownloadsCorrect

LEMMA FilesAndFormats ==
  /\ \A type \in {"doc", "sheet", "drawing"} : FormatsOf(type) # {}
  /\ \A type : FormatsOf(type) \subseteq Format
  /\ \A file \in DriveFile : /\ Direct(file) \in DriveFile /\ ~Direct(file).shortcut
                             /\ Direct(file).type = file.type
                             /\ file.type \in FileType /\ file.shortcut \in BOOLEAN /\ file.told \in BOOLEAN
<1>1. ASSUME NEW type \in {"doc", "sheet", "drawing"} PROVE FormatsOf(type) # {}
  <2>1. "pdf" \in Format /\ type \in Sources["pdf"]
    BY DEF Format, Sources
  <2> QED
    BY <2>1 DEF FormatsOf
<1>2. \A type : FormatsOf(type) \subseteq Format
  BY DEF FormatsOf
<1>3. ASSUME NEW file \in DriveFile
      PROVE  /\ Direct(file) \in DriveFile /\ ~Direct(file).shortcut /\ Direct(file).type = file.type
             /\ file.type \in FileType /\ file.shortcut \in BOOLEAN /\ file.told \in BOOLEAN
  BY DEF DriveFile, Direct
<1> QED
  BY <1>1, <1>2, <1>3

\* The commands there are, and what they consist of.
LEMMA CommandsThereAre ==
  /\ \A file \in DriveFile : Get(file) \in DownloadCommand
  /\ \A file \in DriveFile, formats \in SUBSET Format : ExportTo(file, formats) \subseteq DownloadCommand
  /\ \A request \in DownloadCommand : request.file \in DriveFile /\ request.what \in {"download", "export"}
<1>1. \A file \in DriveFile : Get(file) \in DownloadCommand
  BY DEF DownloadCommand
<1>2. ASSUME NEW file \in DriveFile, NEW formats \in SUBSET Format
      PROVE  ExportTo(file, formats) \subseteq DownloadCommand
  <2>1. ExportTo(file, formats) \subseteq ExportTo(file, Format)
    BY DEF ExportTo
  <2> QED
    BY <2>1 DEF DownloadCommand
<1>3. ASSUME NEW request \in DownloadCommand
      PROVE  request.file \in DriveFile /\ request.what \in {"download", "export"}
  <2>1. CASE request \in {Get(f) : f \in DriveFile}
    BY <2>1 DEF Get
  <2>2. CASE request \in UNION {ExportTo(f, Format) : f \in DriveFile}
    BY <2>2 DEF ExportTo
  <2> QED
    BY <2>1, <2>2 DEF DownloadCommand
<1> QED
  BY <1>1, <1>2, <1>3

\* Exports named for a file without a detour can work, and are about that file.
LEMMA ExportsFit ==
  ASSUME NEW file \in DriveFile, ~file.shortcut, NEW formats \in SUBSET FormatsOf(file.type)
  PROVE  /\ \A a \in ExportTo(file, formats) : Fits(a) /\ a.what = "export" /\ a.file = file
         /\ formats # {} => ExportTo(file, formats) # {}
<1>1. ASSUME NEW a \in ExportTo(file, formats) PROVE Fits(a) /\ a.what = "export" /\ a.file = file
  <2>1. PICK f \in formats : a = [what |-> "export", file |-> file, to |-> f]
    BY DEF ExportTo
  <2>2. a.what = "export" /\ a.file = file /\ a.to = f
    BY <2>1
  <2> QED
    BY <2>2 DEF Fits
<1>2. formats # {} => ExportTo(file, formats) # {}
  BY DEF ExportTo
<1> QED
  BY <1>1, <1>2

LEMMA AdviceFits ==
  ASSUME NEW request \in DownloadCommand, ~Fits(request)
  PROVE  /\ Advice(request) \subseteq DownloadCommand
         /\ Advice(request) # {} \/ request.file.type = "form"
         /\ ~request.file.shortcut \/ request.file.told =>
              /\ \A a \in Advice(request) : Fits(a)
              /\ \A a, b \in Advice(request) : a.what = b.what /\ a.file = b.file
<1>1. PICK file \in DriveFile : file = request.file
  BY CommandsThereAre
<1>2. PICK direct \in DriveFile : direct = Direct(file) /\ ~direct.shortcut /\ direct.type = file.type
  BY FilesAndFormats
<1>3. /\ file.type \in FileType /\ FormatsOf(file.type) \subseteq Format
      /\ file.type \in {"doc", "sheet", "drawing"} => FormatsOf(file.type) # {}
      /\ file.type \notin {"regular", "form"} => file.type \in {"doc", "sheet", "drawing"}
  BY FilesAndFormats DEF FileType
<1>4. Get(direct) \in DownloadCommand /\ Get(file) \in DownloadCommand
  BY CommandsThereAre
<1>5. ASSUME NEW f \in DriveFile, f.type = "regular", ~f.shortcut PROVE Fits(Get(f))
  BY <1>5 DEF Fits, Get
<1>6. CASE file.shortcut /\ ~file.told
  <2>1. Advice(request) = {Get(direct)} \cup ExportTo(direct, Format)
    BY <1>1, <1>2, <1>6 DEF Advice, ShortcutAdvice
  <2> QED
    BY <1>1, <1>4, <1>6, <2>1, CommandsThereAre
<1>7. CASE file.type = "regular" /\ ((file.shortcut /\ file.told) \/ (~file.shortcut /\ request.what = "export"))
  <2>1. PICK f \in {file, direct} : Advice(request) = {Get(f)} /\ ~f.shortcut
    BY <1>1, <1>2, <1>7 DEF Advice, ShortcutAdvice, ExportAdvice
  <2> QED
    BY <1>2, <1>4, <1>5, <1>7, <2>1
<1>8. CASE file.type # "regular" /\ (~file.shortcut \/ file.told)
  <2>1. PICK f \in {file, direct}, formats \in SUBSET FormatsOf(file.type) :
          /\ Advice(request) = ExportTo(f, formats) /\ ~f.shortcut
          /\ FormatsOf(file.type) # {} => formats # {}
    <3>1. CASE file.shortcut
      BY <1>1, <1>2, <1>8, <3>1 DEF Advice, ShortcutAdvice
    <3>2. CASE ~file.shortcut
      BY <1>1, <1>8, <3>2 DEF Advice, NativeAdvice, ExportAdvice
    <3> QED
      BY <3>1, <3>2
  <2>2. formats \in SUBSET FormatsOf(f.type) /\ f \in DriveFile
    BY <1>2, <2>1
  <2>3. /\ \A a \in ExportTo(f, formats) : Fits(a) /\ a.what = "export" /\ a.file = f
        /\ formats # {} => ExportTo(f, formats) # {}
    BY <2>1, <2>2, ExportsFit
  <2>4. ExportTo(f, formats) \subseteq DownloadCommand
    BY <1>3, <2>1, <2>2, CommandsThereAre
  <2> QED
    BY <1>1, <1>3, <1>8, <2>1, <2>3, <2>4
<1>9. file.type = "regular" /\ ~file.shortcut => request.what = "export"
  BY <1>1, CommandsThereAre DEF Fits
<1>10. file.shortcut \in BOOLEAN /\ file.told \in BOOLEAN
  BY FilesAndFormats
<1> QED
  BY <1>6, <1>7, <1>8, <1>9, <1>10

LEMMA DownloadInvStep == DownloadInv /\ [DownloadNext]_downloadVars => DownloadInv'
<1> SUFFICES ASSUME DownloadInv, [DownloadNext]_downloadVars PROVE DownloadInv'
  OBVIOUS
<1> USE DEF DownloadsCorrect
<1>1. ASSUME NEW asked \in DownloadAsk, DownloadBegin(asked), asked.command \in hAdvice \/ hTurns = 0,
             asked.overwrite \/ hLocal # "replaced"
      PROVE  DownloadInv'
  <2>1. /\ hStep' = "check" /\ hAsked' = asked /\ hTurns' = hTurns + 1
        /\ hFollows' = (hTurns > 0 /\ hSure)
        /\ hAdvice' = {} /\ hSure' = FALSE /\ hMistyped' = FALSE /\ hOut' = {} /\ hEnd' = NoValue
        /\ hLocal' = hLocal
    BY <1>1 DEF DownloadBegin
  <2>2. hFollows' => Fits(asked.command)
    BY <1>1, <2>1 DEF DownloadInv
  <2>3. hTurns' \in Nat /\ hTurns' # 0
    BY <2>1 DEF DownloadInv
  <2>4. Fits(hAsked'.command) <=> Fits(asked.command)
    BY <2>1
  <2>5. LocalKept'
    BY <1>1, <2>1 DEF LocalKept
  <2>6. AdviceWorks' /\ OutputClean'
    BY <2>1 DEF AdviceWorks, OutputClean
  <2> QED
    BY <1>1, <2>1, <2>2, <2>3, <2>5, <2>6 DEF DownloadInv, RefusesStdout, Fits
<1>2. ASSUME hTurns = 0, NEW request \in DownloadCommand, NEW output \in {"name", "path", "stdout"},
             NEW overwrite \in BOOLEAN, NEW sanitize \in BOOLEAN, NEW dryRun \in BOOLEAN,
             DownloadBegin(AskedOf(request, output, overwrite, sanitize, dryRun))
      PROVE  DownloadInv'
  <2>1. AskedOf(request, output, overwrite, sanitize, dryRun) \in DownloadAsk
    BY DEF AskedOf, DownloadAsk
  <2>2. hLocal # "replaced"
    BY <1>2 DEF DownloadInv
  <2> QED
    BY <1>1, <1>2, <2>1, <2>2
<1>3. ASSUME hTurns > 0, NEW request \in hAdvice, DownloadBegin([hAsked EXCEPT !.command = request])
      PROVE  DownloadInv'
  <2> DEFINE asked == [hAsked EXCEPT !.command = request]
  <2>1. hAsked \in DownloadAsk /\ request \in DownloadCommand
    BY <1>3 DEF DownloadInv
  <2>2. asked \in DownloadAsk /\ asked.command = request /\ asked.overwrite = hAsked.overwrite
    BY <2>1 DEF DownloadAsk
  <2>3. hLocal = "replaced" => asked.overwrite
    BY <2>2 DEF DownloadInv, LocalKept
  <2> HIDE DEF asked
  <2>4. DownloadBegin(asked)
    BY <1>3 DEF asked
  <2> QED
    BY <1>1, <2>2, <2>3, <2>4
<1>4. ASSUME hTurns # 0, UNCHANGED <<hAsked, hTurns, hFollows>>,
             UNCHANGED <<hAdvice, hSure, hMistyped>>, hStep' # "off", hStep' \in {"check", "meta", "fetch", "emit", "over"},
             ~hMistyped,
             hStep' \in {"check", "meta", "fetch"} => hOut' = {},
             hStep' \in {"meta", "fetch", "emit"} => ~hAsked.dryRun /\ ~RefusesStdout,
             hStep' = "emit" => hOut' = IF hAsked.output = "stdout" THEN {"raw"} ELSE {},
             OutputClean', LocalKept'
      PROVE  DownloadInv'
  <2>1. /\ Fits(hAsked.command)' <=> Fits(hAsked.command)
        /\ RefusesStdout' <=> RefusesStdout
    BY <1>4 DEF Fits, RefusesStdout
  <2>2. AdviceWorks'
    BY <1>4 DEF DownloadInv, AdviceWorks
  <2>3. hSure' => \A a \in hAdvice' : Fits(a)
    BY <1>4 DEF DownloadInv
  <2>4. hStep' # "over" => ~hMistyped'
    BY <1>4 DEF DownloadInv
  <2> QED
    BY <1>4, <2>1, <2>2, <2>3, <2>4 DEF DownloadInv
<1>5. CASE DownloadCheck
  <2>1. hTurns # 0 /\ hStep = "check" /\ hOut = {} /\ ~hMistyped /\ hAsked \in DownloadAsk
    BY <1>5 DEF DownloadCheck, DownloadInv
  <2>2. /\ UNCHANGED <<hAsked, hTurns, hAdvice, hSure, hFollows, hMistyped, hLocal>>
        /\ \/ hStep' = "over" /\ hOut' = {}
           \/ hStep' = "over" /\ hOut' = {"plan"}
           \/ hStep' = "meta" /\ hOut' = {} /\ ~hAsked.dryRun /\ ~RefusesStdout
    BY <1>5, <2>1 DEF DownloadCheck, DownloadEnds
  <2>3. OutputClean' /\ LocalKept'
    BY <2>2 DEF DownloadInv, OutputClean, LocalKept
  <2> QED
    BY <1>4, <2>1, <2>2, <2>3
<1>6. CASE DownloadMeta
  <2>1. hTurns # 0 /\ hStep = "meta" /\ hOut = {} /\ ~hMistyped /\ hAsked \in DownloadAsk
        /\ ~hAsked.dryRun /\ ~RefusesStdout
    BY <1>6 DEF DownloadMeta, DownloadInv
  <2>2. UNCHANGED <<hAsked, hTurns, hFollows, hLocal, hOut>>
    BY <1>6 DEF DownloadMeta
  <2>3. OutputClean' /\ LocalKept'
    BY <2>1, <2>2 DEF DownloadInv, OutputClean, LocalKept
  <2>4. ASSUME UNCHANGED <<hAdvice, hSure, hMistyped>>, hStep' \in {"fetch", "over"} PROVE DownloadInv'
    BY <1>4, <2>1, <2>2, <2>3, <2>4
  <2>5. ASSUME ~Fits(hAsked.command), hAdvice' = Advice(hAsked.command), hMistyped' = TRUE,
               hSure' = (~hAsked.command.file.shortcut \/ hAsked.command.file.told), hStep' = "over"
        PROVE  DownloadInv'
    <3>1. PICK request \in DownloadCommand : request = hAsked.command
      BY <2>1 DEF DownloadAsk
    <3>2. /\ hAdvice' \subseteq DownloadCommand
          /\ hAdvice' # {} \/ request.file.type = "form"
          /\ hSure' => /\ \A a \in hAdvice' : Fits(a)
                       /\ \A a, b \in hAdvice' : a.what = b.what /\ a.file = b.file
          /\ hSure' \in BOOLEAN
      BY <2>5, <3>1, AdviceFits
    <3>3. ~hFollows'
      BY <2>2, <2>5 DEF DownloadInv
    <3>4. AdviceWorks'
      BY <2>2, <3>1, <3>2, <3>3 DEF AdviceWorks
    <3> QED
      BY <2>1, <2>2, <2>3, <2>5, <3>2, <3>3, <3>4 DEF DownloadInv
  <2> QED
    BY <1>6, <2>4, <2>5 DEF DownloadMeta, DownloadEnds
<1>7. CASE DownloadFetch
  <2>1. hTurns # 0 /\ hStep = "fetch" /\ hOut = {} /\ ~hMistyped /\ hAsked \in DownloadAsk
        /\ ~hAsked.dryRun /\ ~RefusesStdout
    BY <1>7 DEF DownloadFetch, DownloadInv
  <2>2. /\ UNCHANGED <<hAsked, hTurns, hAdvice, hSure, hFollows, hMistyped>>
        /\ hStep' \in {"over", "emit"}
        /\ hOut' \in {{}, {"raw"}} /\ ("raw" \in hOut' => hAsked.output = "stdout")
        /\ hStep' = "emit" => hOut' = IF hAsked.output = "stdout" THEN {"raw"} ELSE {}
        /\ hLocal' = hLocal \/ (~InTheWay /\ hLocal' = IF hLocal = "none" THEN "whole" ELSE "replaced")
    BY <1>7, <2>1 DEF DownloadFetch, DownloadEnds
  <2>3. OutputClean'
    BY <2>1, <2>2 DEF OutputClean, RefusesStdout
  <2>4. LocalKept'
    BY <2>2 DEF DownloadInv, LocalKept, InTheWay
  <2> QED
    BY <1>4, <2>1, <2>2, <2>3, <2>4
<1>8. CASE DownloadEmit
  <2>1. hTurns # 0 /\ hStep = "emit" /\ ~hMistyped /\ hAsked \in DownloadAsk /\ ~hAsked.dryRun
        /\ hOut = IF hAsked.output = "stdout" THEN {"raw"} ELSE {}
    BY <1>8 DEF DownloadEmit, DownloadInv
  <2>2. /\ UNCHANGED <<hAsked, hTurns, hAdvice, hSure, hFollows, hMistyped, hLocal>>
        /\ hStep' = "over"
        /\ hOut' = hOut \/ (hAsked.output # "stdout" /\ hOut' = {"summary"})
    BY <1>8, <2>1 DEF DownloadEmit, DownloadEnds, PrintsSummary
  <2>3. OutputClean' /\ LocalKept'
    BY <2>1, <2>2 DEF DownloadInv, OutputClean, LocalKept
  <2> QED
    BY <1>4, <2>1, <2>2, <2>3
<1>9. CASE LocalAppears
  <2>1. /\ hTurns # 0 /\ hStep \in {"check", "meta", "fetch"} /\ ~hMistyped
        /\ UNCHANGED <<hStep, hAsked, hTurns, hAdvice, hSure, hFollows, hMistyped, hOut, hEnd>> /\ hLocal' = "other"
    BY <1>9 DEF LocalAppears, DownloadInv
  <2>2. OutputClean' /\ LocalKept'
    BY <2>1 DEF DownloadInv, OutputClean, LocalKept
  <2> QED
    BY <1>4, <2>1, <2>2 DEF DownloadInv
<1>10. CASE UNCHANGED downloadVars
  BY <1>10 DEF downloadVars, DownloadInv, AdviceWorks, OutputClean, LocalKept, RefusesStdout, Fits
<1> QED
  BY <1>2, <1>3, <1>5, <1>6, <1>7, <1>8, <1>9, <1>10 DEF DownloadNext

LEMMA DownloadBegins == DownloadInit => DownloadInv
<1> SUFFICES ASSUME DownloadInit PROVE DownloadInv
  OBVIOUS
<1>1. /\ hStep = "off" /\ hTurns = 0 /\ hAdvice = {} /\ ~hSure /\ hSure \in BOOLEAN
      /\ ~hFollows /\ ~hMistyped /\ hLocal = "none" /\ hOut = {} /\ hAsked = NoValue
  BY DEF DownloadInit
<1>2. DownloadsCorrect
  BY <1>1 DEF DownloadsCorrect, AdviceWorks, OutputClean, LocalKept
<1> QED
  BY <1>1, <1>2 DEF DownloadInv

-----------------------------------------------------------------------------
\* calendar +agenda and +freebusy.

BusyAnswers == [Calendar -> {"fine", "transient", "permanent"}]

CalendarInv ==
  /\ qStep \in {"off", "list", "read", "freebusy", "over"} /\ (qStep # "over" => qEnd = NoValue /\ qSlots = NoValue)
  /\ qStep \in {"off", "freebusy"} => qListed = NoValue
  /\ qStep \in {"off", "list", "read"} => qAnswers = NoValue
  /\ qStep = "freebusy" => qAnswers \in BusyAnswers
  /\ qStep \in {"off", "list"} => qWaiting = {} /\ qReading = {} /\ qEvents = {}
  /\ qStep \in {"list", "read"} =>
       qListed \in [Calendar -> ListedCalendar \cup {NoValue}] /\ qAsked \subseteq Calendar
  /\ qStep = "read" => /\ \A c \in qAsked : qListed[c] # NoValue
                       /\ Narrowed => Wanted # {}
                       /\ Wanted = qWaiting \cup qReading \cup qEvents
  /\ qStep = "freebusy" => qQuery \in SlotQuery
  /\ AgendaWhole /\ AllBusyKnown /\ SlotsRight

LEMMA QueriesFit ==
  ASSUME NEW query \in FreeBusyQuery \cup {[from |-> 0, to |-> 1, busy |-> {}, min |-> 1, working |-> NoValue]}
  PROVE  query \in SlotQuery
<1>1. /\ 0 \in Time /\ 1 \in Time /\ Horizon \in Time /\ (Horizon - 1) \in Time
      /\ 0 \in 0..Day /\ 1 \in 0..Day /\ Day \in 0..Day /\ (Day - 1) \in 0..Day
  BY CalendarAssumption DEF Time
<1> QED
  BY <1>1 DEF FreeBusyQuery, SlotQuery

LEMMA CalendarInvStep == CalendarInv /\ [CalendarNext]_calendarVars => CalendarInv'
<1> SUFFICES ASSUME CalendarInv, [CalendarNext]_calendarVars PROVE CalendarInv'
  OBVIOUS
<1>0. NoValue \notin Ending /\ {"ok", "validation", "retryable", "api", "network"} \subseteq Ending
  BY OutcomeAssumption DEF Ending, ExitCode
<1>1. ASSUME NEW listed \in [Calendar -> ListedCalendar \cup {NoValue}], NEW asked \in SUBSET Calendar,
             NEW named, AgendaBegin(listed, asked, named)
      PROVE  CalendarInv'
  BY <1>0, <1>1 DEF AgendaBegin, CalendarInv, AgendaWhole, AllBusyKnown, SlotsRight
<1>2. ASSUME NEW answers \in BusyAnswers, NEW query \in SlotQuery, FreeBusyBegin(answers, query) PROVE CalendarInv'
  BY <1>0, <1>2 DEF FreeBusyBegin, CalendarInv, AgendaWhole, AllBusyKnown, SlotsRight
<1>3. CASE AgendaList
  <2>1. /\ qStep = "list" /\ UNCHANGED <<qListed, qAsked, qNamed, qReading, qEvents, qAnswers, qQuery, qSlots>>
        /\ qWaiting = {} /\ qReading = {} /\ qEvents = {} /\ qEnd = NoValue /\ qAnswers = NoValue /\ qSlots = NoValue
    BY <1>3 DEF AgendaList, CalendarInv
  <2>2. Wanted' = Wanted /\ Narrowed' = Narrowed
    BY <2>1 DEF Wanted, NameFits, Narrowed
  <2>3. \/ qStep' = "over" /\ qEnd' = "validation"
        \/ /\ \A c \in qAsked : qListed[c] # NoValue
           /\ Narrowed => Wanted # {}
           /\ qWaiting' = Wanted /\ qStep' = "read" /\ qEnd' = qEnd
    BY <1>3 DEF AgendaList, CalendarEnds
  <2> QED
    BY <1>0, <2>1, <2>2, <2>3 DEF CalendarInv, AgendaWhole, AllBusyKnown, SlotsRight
<1>4. ASSUME NEW c \in Calendar, AgendaAsk(c) \/ AgendaAnswered(c) PROVE CalendarInv'
  <2>1. /\ qStep = "read" /\ UNCHANGED <<qStep, qListed, qAsked, qNamed, qAnswers, qSlots, qEnd>>
        /\ qWaiting' \cup qReading' \cup qEvents' = qWaiting \cup qReading \cup qEvents
    BY <1>4 DEF AgendaAsk, AgendaAnswered
  <2>2. Wanted' = Wanted /\ Narrowed' = Narrowed
    BY <2>1 DEF Wanted, NameFits, Narrowed
  <2> QED
    BY <1>0, <2>1, <2>2 DEF CalendarInv, AgendaWhole, AllBusyKnown, SlotsRight
<1>5. ASSUME NEW c \in Calendar, AgendaFailed(c) PROVE CalendarInv'
  <2>1. /\ qStep = "read" /\ qStep' = "over" /\ qEnd' \in {"api", "retryable", "network"}
        /\ UNCHANGED <<qListed, qAsked, qNamed, qEvents, qAnswers, qQuery, qSlots>>
    BY <1>5 DEF AgendaFailed, CalendarEnds
  <2> QED
    BY <1>0, <2>1 DEF CalendarInv, AgendaWhole, AllBusyKnown, SlotsRight
<1>6. CASE AgendaDone
  <2>1. /\ qStep = "read" /\ qStep' = "over" /\ qEnd' = "ok" /\ qWaiting = {} /\ qReading = {}
        /\ UNCHANGED <<qListed, qAsked, qNamed, qWaiting, qReading, qEvents, qAnswers, qQuery, qSlots>>
    BY <1>6 DEF AgendaDone, CalendarEnds
  <2>2. /\ qEvents = Wanted /\ \A c \in qAsked : qListed[c] # NoValue
        /\ Narrowed => Wanted # {}
        /\ qListed \in [Calendar -> ListedCalendar \cup {NoValue}] /\ qAnswers = NoValue /\ qSlots = NoValue
    BY <2>1 DEF CalendarInv
  <2>3. ASSUME NEW c \in Calendar
        PROVE  qListed[c] # NoValue /\ ~qListed[c].hidden <=> qListed[c] \in [hidden : {FALSE}]
    BY <2>2, CalendarAssumption DEF ListedCalendar
  <2>4. AgendaWhole'
    BY <2>1, <2>2, <2>3 DEF AgendaWhole, Wanted, NameFits, Narrowed
  <2> QED
    BY <1>0, <2>1, <2>2, <2>4 DEF CalendarInv, AllBusyKnown, SlotsRight
<1>7. CASE FreeBusyAnswered
  <2> DEFINE verdict == FreeBusyVerdict({qAnswers[c] : c \in Calendar})
  <2>1. /\ qStep = "freebusy" /\ qStep' = "over" /\ qEnd' = verdict
        /\ qSlots' = IF verdict = "ok" THEN FreeSlots(qQuery) ELSE NoValue
        /\ UNCHANGED <<qListed, qAsked, qNamed, qWaiting, qReading, qEvents, qAnswers, qQuery>>
        /\ qListed = NoValue /\ qAnswers \in BusyAnswers /\ qQuery \in SlotQuery
    BY <1>7 DEF FreeBusyAnswered, CalendarEnds, CalendarInv
  <2>2. /\ verdict = "retryable" => \A c \in Calendar : qAnswers[c] # "permanent"
        /\ verdict = "ok" => \A c \in Calendar : qAnswers[c] \notin {"permanent", "transient"}
    BY DEF FreeBusyVerdict
  <2>3. verdict = "ok" => \A c \in Calendar : qAnswers[c] = "fine"
    BY <2>1, <2>2 DEF BusyAnswers
  <2>4. SlotsRight'
    BY <2>1, SlotsAre DEF SlotsRight, Longest
  <2> HIDE DEF verdict
  <2> QED
    BY <1>0, <2>1, <2>2, <2>3, <2>4 DEF CalendarInv, AgendaWhole, AllBusyKnown, SlotsRight
<1>8. CASE UNCHANGED calendarVars
  BY <1>8 DEF calendarVars, CalendarInv, AgendaWhole, AllBusyKnown, SlotsRight, Wanted, NameFits, Narrowed
<1>9. [c \in Calendar |-> "fine"] \in BusyAnswers
  BY DEF BusyAnswers
<1> QED
  BY <1>1, <1>2, <1>3, <1>4, <1>5, <1>6, <1>7, <1>8, <1>9, QueriesFit DEF CalendarNext, BusyAnswers

LEMMA CalendarBegins == CalendarInit => CalendarInv
<1> SUFFICES ASSUME CalendarInit PROVE CalendarInv
  OBVIOUS
<1>1. NoValue \notin {"ok", "retryable"}
  BY OutcomeAssumption DEF Ending, ExitCode
<1> QED
  BY <1>1 DEF CalendarInit, CalendarInv, AgendaWhole, AllBusyKnown, SlotsRight

-----------------------------------------------------------------------------
\* Lists that come page by page.

ListGoing ==
  /\ nQuery \in ListQuery
  /\ nPlaces \in Seq(0..Entries) /\ nToken \in 0..Len(nPlaces) /\ nSeen \subseteq 1..Len(nPlaces)
  /\ nQuery.kind = "search" => nQuery.limit > 0

\* But for a search, every token there is has been followed, and the pages read are a
\* beginning of the list, which ends where the next page begins.
ListSoFar ==
  nStep = "list" /\ nQuery.kind # "search" =>
    /\ nSeen = 1..Len(nPlaces) /\ nToken = Len(nPlaces)
    /\ nQuery.kind = "limit" => nItems = From(0, Place) /\ nNext = 0
    /\ nQuery.kind = "whole" => nItems = From(0, Place)
    /\ nQuery.kind = "first" => nItems = <<>> /\ nQuery.meant \cap 1..Place = {}

ListCounted ==
  /\ IsFiniteSet(nSeen) /\ nRead \in Nat
  /\ nStep \in {"off", "list"} => nRead = Cardinality(nSeen)
  /\ nRead <= Cardinality(nSeen) + 1

ListInv ==
  /\ nStep \in {"off", "list", "fetch", "over"}
  /\ nStep = "off" => nPlaces = <<>> /\ nToken = 0 /\ nSeen = {} /\ nItems = <<>> /\ nNext = 0
  /\ nStep # "off" => ListGoing
  /\ nStep # "over" => nEnd = NoValue
  /\ nStep = "fetch" => nQuery.kind = "search"
  /\ ListSoFar /\ ListCounted
  /\ LimitAnnounced /\ ReportsWhole

LEMMA FromFacts ==
  ASSUME NEW m \in Nat
  PROVE  /\ From(0, m) \in Seq(Nat) /\ Len(From(0, m)) = m
         /\ \A i \in 1..m : From(0, m)[i] = i
         /\ From(0, 0) = <<>>
  BY DEF From

\* The entries of a page follow those before it.
LEMMA FromGoesOn ==
  ASSUME NEW from \in Nat, NEW to \in Nat, from <= to
  PROVE  From(0, from) \o [i \in 1..(to - from) |-> from + i] = From(0, to)
<1> DEFINE more == [i \in 1..(to - from) |-> from + i]
<1>1. more \in Seq(Nat) /\ Len(more) = to - from /\ \A i \in 1..(to - from) : more[i] = from + i
  OBVIOUS
<1>2. From(0, from) \in Seq(Nat) /\ Len(From(0, from)) = from /\ \A i \in 1..from : From(0, from)[i] = i
  BY FromFacts
<1>3. From(0, to) \in Seq(Nat) /\ Len(From(0, to)) = to /\ \A i \in 1..to : From(0, to)[i] = i
  BY FromFacts
<1> HIDE DEF more
<1> DEFINE upTo == From(0, from)
           all == upTo \o more
<1>4. /\ all \in Seq(Nat) /\ Len(all) = Len(upTo) + Len(more)
      /\ \A i \in 1..(Len(upTo) + Len(more)) : all[i] = IF i <= Len(upTo) THEN upTo[i] ELSE more[i - Len(upTo)]
  BY <1>1, <1>2, ConcatProperties, Zenon
<1> HIDE DEF all
<1>5. Len(all) = to /\ \A i \in 1..to : all[i] = i
  <2>a. Len(upTo) = from /\ Len(more) = to - from
    BY <1>1, <1>2
  <2> HIDE DEF upTo
  <2>b. from + (to - from) = to
    OBVIOUS
  <2>1. Len(all) = to /\ Len(upTo) = from /\ Len(upTo) + Len(more) = to
    BY <1>4, <2>a, <2>b
  <2> USE DEF upTo
  <2>2. ASSUME NEW i \in 1..to, i <= from PROVE all[i] = i
    <3>1. i \in 1..from /\ i \in 1..(Len(upTo) + Len(more)) /\ i <= Len(upTo)
      BY <2>1, <2>2
    <3> HIDE DEF upTo
    <3>2. all[i] = upTo[i]
      BY <1>4, <3>1
    <3> QED
      BY <1>2, <3>1, <3>2 DEF upTo
  <2>3. ASSUME NEW i \in 1..to, ~(i <= from) PROVE all[i] = i
    <3>1. i - from \in 1..(to - from) /\ from + (i - from) = i
      BY <2>3
    <3> QED
      BY <1>1, <1>4, <2>1, <2>3, <3>1
  <2> QED
    BY <2>1, <2>2, <2>3
<1>6. all = From(0, to)
  BY <1>3, <1>4, <1>5
<1> QED
  BY <1>6 DEF all, more

LEMMA FromCut ==
  ASSUME NEW to \in Nat, NEW limit \in Nat, limit <= to
  PROVE  SubSeq(From(0, to), 1, limit) = From(0, limit)
  BY DEF From

\* A page: where it begins and ends, and what its token may be.
LEMMA PageFacts ==
  ASSUME ListInv, NEW to \in 0..Entries, NEW next \in 0..ListTurns, Answered(to, next)
  PROVE  /\ nStep = "list" /\ ListGoing /\ nQuery' = nQuery /\ nEnd = NoValue
         /\ Place \in 0..Entries /\ Place <= to
         /\ next = 0 => to = Entries
         /\ nPlaces' \in Seq(0..Entries) /\ Len(nPlaces') \in Nat
         /\ next \in 0..Len(nPlaces') /\ Len(nPlaces) <= Len(nPlaces') /\ Len(nPlaces) \in Nat
         /\ next \notin 0..Len(nPlaces) => /\ next = Len(nPlaces) + 1 /\ Len(nPlaces') = next
                                           /\ nPlaces'[next] = to
         /\ next \in 0..Len(nPlaces) => nPlaces' = nPlaces
         /\ nRead' = nRead + 1
         /\ nFresh' => nFresh /\ next \notin 1..Len(nPlaces)
<1>1. /\ nStep = "list" /\ ListGoing /\ nQuery' = nQuery /\ nEnd = NoValue
      /\ to \in PageEnds /\ next \in TokensAfter(to)
      /\ nPlaces' = IF next > Len(nPlaces) THEN Append(nPlaces, to) ELSE nPlaces
      /\ nRead' = nRead + 1 /\ nFresh' = (nFresh /\ next \notin 1..Len(nPlaces))
  BY DEF Answered, ListInv
<1>2. nPlaces \in Seq(0..Entries) /\ Len(nPlaces) \in Nat /\ nToken \in 0..Len(nPlaces) /\ Entries \in Nat
  BY <1>1, ListingAssumption DEF ListGoing
<1>3. Place \in 0..Entries /\ Place <= to
  BY <1>1, <1>2 DEF Place, PageEnds
<1>4. (next = 0 => to = Entries) /\ next \in 0..(Len(nPlaces) + 1)
  BY <1>1, <1>2 DEF TokensAfter
<1>5. CASE next \in 0..Len(nPlaces)
  <2>1. nPlaces' = nPlaces
    BY <1>1, <1>2, <1>5
  <2>2. Len(nPlaces') = Len(nPlaces) /\ Len(nPlaces) <= Len(nPlaces') /\ next \in 0..Len(nPlaces')
    BY <1>2, <1>5, <2>1
  <2> QED
    BY <1>1, <1>2, <1>3, <1>4, <1>5, <2>1, <2>2
<1>6. CASE next = Len(nPlaces) + 1
  <2>1. nPlaces' = Append(nPlaces, to)
    BY <1>1, <1>2, <1>6
  <2>2. nPlaces' \in Seq(0..Entries) /\ Len(nPlaces') = Len(nPlaces) + 1 /\ nPlaces'[Len(nPlaces) + 1] = to
    BY <1>2, <2>1
  <2>3. /\ Len(nPlaces') \in Nat /\ Len(nPlaces) <= Len(nPlaces') /\ next \in 0..Len(nPlaces')
        /\ next \notin 0..Len(nPlaces) /\ Len(nPlaces') = next /\ nPlaces'[next] = to
    BY <1>2, <1>6, <2>2
  <2> QED
    BY <1>1, <1>2, <1>3, <1>4, <1>6, <2>2, <2>3
<1> QED
  BY <1>2, <1>4, <1>5, <1>6

\* What is counted, when a page ends the command or its token is followed.
LEMMA PageCounts ==
  ASSUME ListCounted, nStep = "list", nRead' = nRead + 1,
         \/ nSeen' = nSeen /\ nStep' \in {"over", "fetch"}
         \/ \E next : next \notin nSeen /\ nSeen' = nSeen \cup {next}
  PROVE  ListCounted'
<1>1. /\ IsFiniteSet(nSeen) /\ nRead \in Nat /\ nRead = Cardinality(nSeen)
  BY DEF ListCounted
<1>2. CASE nSeen' = nSeen /\ nStep' \in {"over", "fetch"}
  BY <1>1, <1>2 DEF ListCounted
<1>3. ASSUME NEW next, next \notin nSeen, nSeen' = nSeen \cup {next} PROVE ListCounted'
  <2>1. IsFiniteSet(nSeen') /\ Cardinality(nSeen') = Cardinality(nSeen) + 1
    BY <1>1, <1>3, FS_AddElement
  <2> QED
    BY <1>1, <2>1 DEF ListCounted
<1> QED
  BY <1>2, <1>3

\* A page that is not a search's: its token is new, or the command has failed.
LEMMA TurnFacts ==
  ASSUME ListInv, NEW to \in 0..Entries, NEW next \in 0..ListTurns, Answered(to, next), next # 0,
         nQuery.kind # "search", Turn(next)
  PROVE  \/ /\ nStep' = "over" /\ nEnd' = "other" /\ nToken' = nToken /\ nSeen' = nSeen
         \/ /\ nStep' = "list" /\ nEnd' = NoValue /\ nToken' = next /\ next \notin nSeen /\ nSeen' = nSeen \cup {next}
            /\ nSeen' = 1..Len(nPlaces') /\ next = Len(nPlaces') /\ Place' = to
<1>1. nSeen = 1..Len(nPlaces) /\ nStep = "list" /\ nEnd = NoValue
  BY PageFacts DEF ListInv, ListSoFar
<1>2. CASE next \in nSeen
  BY <1>2 DEF Turn, ListEnds
<1>3. CASE next \notin nSeen
  <2>1. next \notin 0..Len(nPlaces) /\ nStep' = "list" /\ nEnd' = NoValue /\ nToken' = next /\ nSeen' = nSeen \cup {next}
    BY <1>1, <1>3, PageFacts DEF Turn
  <2>2. /\ next = Len(nPlaces) + 1 /\ Len(nPlaces') = next /\ nPlaces'[next] = to /\ Len(nPlaces) \in Nat
    BY <2>1, PageFacts
  <2>3. Place' = to
    BY <2>1, <2>2 DEF Place
  <2>4. nSeen' = 1..Len(nPlaces')
    BY <1>1, <2>1, <2>2
  <2> QED
    BY <1>3, <2>1, <2>2, <2>3, <2>4
<1> QED
  BY <1>2, <1>3

LEMMA ListPages ==
  ASSUME ListInv, NEW to \in 0..Entries, NEW next \in 0..ListTurns,
         LimitPage(to, next) \/ SearchPage(to, next) \/ WholePage(to, next) \/ FirstPage(to, next)
  PROVE  ListInv'
<1>1. Answered(to, next)
  BY DEF LimitPage, SearchPage, WholePage, FirstPage
<1>2. /\ nStep = "list" /\ ListGoing /\ nQuery' = nQuery /\ nEnd = NoValue
      /\ Place \in 0..Entries /\ Place <= to
      /\ next = 0 => to = Entries
      /\ nPlaces' \in Seq(0..Entries) /\ Len(nPlaces') \in Nat
      /\ next \in 0..Len(nPlaces') /\ Len(nPlaces) <= Len(nPlaces') /\ Len(nPlaces) \in Nat
      /\ next \notin 0..Len(nPlaces) => /\ next = Len(nPlaces) + 1 /\ Len(nPlaces') = next
                                        /\ nPlaces'[next] = to
      /\ next \in 0..Len(nPlaces) => nPlaces' = nPlaces
      /\ nRead' = nRead + 1
      /\ nFresh' => nFresh /\ next \notin 1..Len(nPlaces)
  BY <1>1, PageFacts
<1>3. Entries \in Nat /\ to \in Nat /\ Place \in Nat /\ "other" # NoValue /\ "ok" # NoValue
  BY <1>2, ListingAssumption, OutcomeAssumption DEF Ending, ExitCode
<1>4. ASSUME nToken' \in 0..Len(nPlaces'), nSeen' \subseteq 1..Len(nPlaces') PROVE ListGoing'
  BY <1>2, <1>4 DEF ListGoing
<1>5. nSeen \subseteq 1..Len(nPlaces') /\ nToken \in 0..Len(nPlaces')
  BY <1>2 DEF ListGoing
<1>6. ListCounted /\ ListSoFar
  BY DEF ListInv
<1>7. ASSUME nStep' = "over", UNCHANGED <<nToken, nSeen>>, LimitAnnounced', ReportsWhole' PROVE ListInv'
  <2>1. ListCounted'
    BY <1>2, <1>6, <1>7, PageCounts
  <2>2. ListGoing'
    BY <1>4, <1>5, <1>7
  <2> QED
    BY <1>7, <2>1, <2>2 DEF ListInv, ListSoFar
<1>8. ASSUME nStep' = "list", nEnd' = NoValue, nToken' = next, next \notin nSeen, nSeen' = nSeen \cup {next},
             next # 0, ListSoFar'
      PROVE  ListInv'
  <2>1. ListCounted'
    BY <1>2, <1>6, <1>8, PageCounts
  <2>2. ListGoing'
    BY <1>2, <1>4, <1>5, <1>8
  <2> QED
    BY <1>8, <2>1, <2>2 DEF ListInv, LimitAnnounced, ReportsWhole, Listed
<1>9. /\ From(0, Place) \o EntriesTo(to) = From(0, to)
      /\ From(0, to) \in Seq(Nat) /\ Len(From(0, to)) = to
  BY <1>2, <1>3, FromGoesOn, FromFacts DEF EntriesTo
<1>10. CASE LimitPage(to, next)
  <2>1. nQuery.kind = "limit" /\ nItems = From(0, Place) /\ nQuery.limit \in Nat /\ nNext = 0
    BY <1>2, <1>6, <1>10 DEF LimitPage, ListSoFar, ListGoing, ListQuery
  <2>2. nItems \o EntriesTo(to) = From(0, to)
    BY <1>9, <2>1
  <2>3. CASE nQuery.limit # 0 /\ to >= nQuery.limit
    <3>1. /\ nItems' = SubSeq(From(0, to), 1, nQuery.limit)
          /\ nCut' = (to > nQuery.limit \/ next # 0)
          /\ nNext' = IF to > nQuery.limit THEN 0 ELSE next
          /\ nStep' = "over" /\ nEnd' = "ok" /\ UNCHANGED <<nToken, nSeen>>
      BY <1>9, <1>10, <2>2, <2>3 DEF LimitPage, ListEnds
    <3>2. nItems' = From(0, nQuery.limit) /\ Len(nItems') = nQuery.limit
      BY <1>3, <2>1, <2>3, <3>1, FromCut, FromFacts
    <3>3. LimitAnnounced'
      <4>1. nQuery.limit < Entries => nCut'
        BY <1>2, <1>3, <2>1, <2>3, <3>1
      <4>2. nFresh' /\ nNext' # 0 => nPlaces'[nNext'] = nQuery.limit
        BY <1>2, <1>3, <2>1, <2>3, <3>1
      <4> QED
        BY <3>2, <4>1, <4>2 DEF LimitAnnounced
    <3> QED
      BY <1>2, <1>7, <2>1, <3>1, <3>3 DEF ReportsWhole
  <2>4. CASE ~(nQuery.limit # 0 /\ to >= nQuery.limit)
    <3>1. /\ nItems' = From(0, to) /\ nNext' = nNext
          /\ IF next = 0 THEN nStep' = "over" /\ nEnd' = "ok" /\ UNCHANGED <<nToken, nSeen>> ELSE Turn(next)
      BY <1>9, <1>10, <2>2, <2>4 DEF LimitPage, ListEnds
    <3>2. CASE next = 0
      <4>1. LimitAnnounced' /\ ReportsWhole'
        BY <1>2, <1>9, <2>1, <3>1, <3>2 DEF LimitAnnounced, ReportsWhole
      <4> QED
        BY <1>7, <3>1, <3>2, <4>1
    <3>3. CASE next # 0
      <4>1. \/ /\ nStep' = "over" /\ nEnd' = "other" /\ nToken' = nToken /\ nSeen' = nSeen
            \/ /\ nStep' = "list" /\ nEnd' = NoValue /\ nToken' = next /\ next \notin nSeen
               /\ nSeen' = nSeen \cup {next} /\ nSeen' = 1..Len(nPlaces') /\ next = Len(nPlaces') /\ Place' = to
        BY <1>1, <2>1, <3>1, <3>3, TurnFacts
      <4>2. nStep' = "over" /\ nEnd' = "other" => LimitAnnounced' /\ ReportsWhole'
        BY DEF LimitAnnounced, ReportsWhole, Listed
      <4>3. nStep' = "list" => ListSoFar'
        BY <1>2, <2>1, <3>1, <4>1 DEF ListSoFar
      <4> QED
        BY <1>7, <1>8, <3>3, <4>1, <4>2, <4>3
    <3> QED
      BY <3>2, <3>3
  <2> QED
    BY <2>3, <2>4
<1>11. CASE WholePage(to, next)
  <2>1. nQuery.kind = "whole" /\ nItems = From(0, Place)
    BY <1>2, <1>6, <1>11 DEF WholePage, ListSoFar
  <2>2. /\ nItems' = From(0, to)
        /\ IF next = 0 THEN nStep' = "over" /\ nEnd' = "ok" /\ UNCHANGED <<nToken, nSeen>> ELSE Turn(next)
    BY <1>9, <1>11, <2>1 DEF WholePage, ListEnds
  <2>3. CASE next = 0
    <3>1. LimitAnnounced' /\ ReportsWhole'
      BY <1>2, <2>1, <2>2, <2>3 DEF LimitAnnounced, ReportsWhole
    <3> QED
      BY <1>7, <2>2, <2>3, <3>1
  <2>4. CASE next # 0
    <3>1. \/ /\ nStep' = "over" /\ nEnd' = "other" /\ nToken' = nToken /\ nSeen' = nSeen
          \/ /\ nStep' = "list" /\ nEnd' = NoValue /\ nToken' = next /\ next \notin nSeen
             /\ nSeen' = nSeen \cup {next} /\ nSeen' = 1..Len(nPlaces') /\ next = Len(nPlaces') /\ Place' = to
      BY <1>1, <2>1, <2>2, <2>4, TurnFacts
    <3>2. nStep' = "over" /\ nEnd' = "other" => LimitAnnounced' /\ ReportsWhole'
      BY DEF LimitAnnounced, ReportsWhole, Listed
    <3>3. nStep' = "list" => ListSoFar'
      BY <1>2, <2>1, <2>2, <3>1 DEF ListSoFar
    <3> QED
      BY <1>7, <1>8, <2>4, <3>1, <3>2, <3>3
  <2> QED
    BY <2>3, <2>4
<1>12. CASE FirstPage(to, next)
  <2>1. /\ nQuery.kind = "first" /\ nItems = <<>> /\ nQuery.meant \cap 1..Place = {}
        /\ nQuery.meant \subseteq 1..Entries
    BY <1>2, <1>6, <1>12 DEF FirstPage, ListSoFar, ListGoing, ListQuery, Slot
  <2> DEFINE found == nQuery.meant \cap (Place + 1)..to
  <2>2. \/ /\ found # {} /\ nItems' = <<Min(found)>> /\ nStep' = "over" /\ nEnd' = "ok" /\ UNCHANGED <<nToken, nSeen>>
        \/ /\ found = {} /\ nItems' = nItems
           /\ IF next = 0 THEN nStep' = "over" /\ nEnd' = "ok" /\ UNCHANGED <<nToken, nSeen>> ELSE Turn(next)
    BY <1>12 DEF FirstPage, ListEnds
  <2>3. CASE found # {}
    <3>1. Min(found) \in found /\ \A e \in found : Min(found) <= e
      BY <1>3, <2>3, LeastOf
    <3>2. PICK least \in found : least = Min(found)
      BY <3>1
    <3> HIDE DEF found
    <3>3. least \in nQuery.meant /\ \A d \in nQuery.meant : least <= d
      <4>1. ASSUME NEW d \in nQuery.meant PROVE least <= d
        <5>1. d \in Nat /\ d \notin 1..Place /\ d \in 1..Entries
          BY <1>3, <2>1
        <5>2. d > Place
          BY <1>3, <5>1
        <5>3. least \in Nat /\ least <= to
          BY <1>3 DEF found
        <5>4. d <= to => d \in found
          BY <1>3, <5>1, <5>2 DEF found
        <5> QED
          BY <1>3, <3>1, <3>2, <5>1, <5>3, <5>4
      <4>2. least \in nQuery.meant
        BY DEF found
      <4> QED
        BY <4>1, <4>2
    <3>4. (CHOOSE e \in nQuery.meant : \A d \in nQuery.meant : e <= d) = least
      <4>1. \A e \in nQuery.meant : e \in Nat
        BY <2>1, <1>3
      <4>2. \A e \in nQuery.meant : (\A d \in nQuery.meant : e <= d) => e = least
        BY <3>3, <4>1
      <4> QED
        BY <3>3, <4>2
    <3>5. LimitAnnounced' /\ ReportsWhole'
      BY <1>2, <2>1, <2>2, <2>3, <3>2, <3>3, <3>4 DEF LimitAnnounced, ReportsWhole
    <3> QED
      BY <1>7, <2>2, <2>3, <3>5
  <2>4. CASE found = {} /\ next = 0
    <3>1. nQuery.meant = {}
      BY <1>2, <1>3, <2>1, <2>4
    <3>2. LimitAnnounced' /\ ReportsWhole'
      BY <1>2, <2>1, <2>2, <2>4, <3>1 DEF LimitAnnounced, ReportsWhole
    <3> QED
      BY <1>7, <2>2, <2>4, <3>2
  <2>5. CASE found = {} /\ next # 0
    <3>1. \/ /\ nStep' = "over" /\ nEnd' = "other" /\ nToken' = nToken /\ nSeen' = nSeen
          \/ /\ nStep' = "list" /\ nEnd' = NoValue /\ nToken' = next /\ next \notin nSeen
             /\ nSeen' = nSeen \cup {next} /\ nSeen' = 1..Len(nPlaces') /\ next = Len(nPlaces') /\ Place' = to
      BY <1>1, <2>1, <2>2, <2>5, TurnFacts
    <3>2. nStep' = "over" /\ nEnd' = "other" => LimitAnnounced' /\ ReportsWhole'
      BY DEF LimitAnnounced, ReportsWhole, Listed
    <3>3. nQuery.meant \cap 1..to = {}
      BY <1>3, <2>1, <2>5
    <3>4. nStep' = "list" => ListSoFar'
      BY <1>2, <2>1, <2>2, <2>5, <3>1, <3>3 DEF ListSoFar
    <3> QED
      BY <1>7, <1>8, <2>5, <3>1, <3>2, <3>4
  <2> QED
    BY <2>3, <2>4, <2>5
<1>13. CASE SearchPage(to, next)
  <2>1. nQuery.kind = "search"
    BY <1>13 DEF SearchPage
  <2>2. LimitAnnounced' /\ ReportsWhole' /\ ListSoFar'
    BY <1>2, <2>1 DEF LimitAnnounced, ReportsWhole, ListSoFar
  <2>3. \/ nStep' = "over" /\ UNCHANGED <<nToken, nSeen>>
        \/ /\ next # 0 /\ next \notin nSeen /\ nSeen' = nSeen \cup {next} /\ nEnd' = nEnd
           /\ \/ nStep' = "fetch" /\ nToken' = nToken
              \/ nStep' = nStep /\ nToken' = next
        \/ nStep' = "fetch" /\ UNCHANGED <<nToken, nSeen, nEnd>>
    BY <1>13 DEF SearchPage, ListEnds
  <2>4. CASE nStep' = "over" /\ UNCHANGED <<nToken, nSeen>>
    BY <1>7, <2>2, <2>4
  <2>5. CASE /\ next # 0 /\ next \notin nSeen /\ nSeen' = nSeen \cup {next} /\ nEnd' = nEnd
             /\ \/ nStep' = "fetch" /\ nToken' = nToken
                \/ nStep' = nStep /\ nToken' = next
    <3>1. ListCounted'
      BY <1>2, <1>6, <2>5, PageCounts
    <3>2. ListGoing'
      BY <1>2, <1>4, <1>5, <2>5
    <3> QED
      BY <1>2, <2>1, <2>2, <2>5, <3>1, <3>2 DEF ListInv
  <2>6. CASE nStep' = "fetch" /\ UNCHANGED <<nToken, nSeen, nEnd>>
    <3>1. ListCounted'
      BY <1>2, <1>6, <2>6, PageCounts
    <3>2. ListGoing'
      BY <1>4, <1>5, <2>6
    <3> QED
      BY <1>2, <2>1, <2>2, <2>6, <3>1, <3>2 DEF ListInv
  <2> QED
    BY <2>3, <2>4, <2>5, <2>6
<1> QED
  BY <1>10, <1>11, <1>12, <1>13

LEMMA ListInvStep == ListInv /\ [ListNext]_listVars => ListInv'
<1> SUFFICES ASSUME ListInv, [ListNext]_listVars PROVE ListInv'
  OBVIOUS
<1>0. NoValue \notin {"ok", "api"}
  BY OutcomeAssumption DEF Ending, ExitCode
<1>1. ASSUME NEW query \in ListQuery, ListBegin(query) PROVE ListInv'
  <2>1. /\ nStep = "off" /\ nPlaces = <<>> /\ nSeen = {} /\ nItems = <<>> /\ nNext = 0 /\ nEnd = NoValue
        /\ nStep' = "list" /\ nQuery' = query
        /\ UNCHANGED <<nSeen, nRead, nItems, nNext, nCut, nFetched, nFresh, nEnd>>
        /\ nPlaces' = IF query.from = 0 THEN <<>> ELSE <<query.from>>
        /\ nToken' = Len(nPlaces')
        /\ query.kind = "search" => query.limit > 0
        /\ query.from # 0 => query.kind = "search"
        /\ query.kind # "first" => query.meant = {}
    BY <1>1 DEF ListBegin, ListInv
  <2>2. query.from \in 0..Entries /\ Entries \in Nat
    BY ListingAssumption DEF ListQuery
  <2>3. nPlaces' \in Seq(0..Entries) /\ Len(nPlaces') \in Nat
    <3>1. <<>> \in Seq(0..Entries) /\ <<query.from>> \in Seq(0..Entries)
      BY <2>2
    <3>2. nPlaces' \in Seq(0..Entries)
      BY <2>1, <3>1
    <3> QED
      BY <3>2
  <2>4. ListGoing'
    BY <2>1, <2>3 DEF ListGoing
  <2>5. ListCounted'
    BY <2>1 DEF ListInv, ListCounted
  <2>6. query.kind # "search" => nPlaces' = <<>> /\ nToken' = 0 /\ Place' = 0
    BY <2>1 DEF Place
  <2>7. From(0, 0) = <<>> /\ 1..0 = {}
    BY FromFacts
  <2>8. ListSoFar'
    BY <2>1, <2>6, <2>7 DEF ListSoFar
  <2> QED
    BY <2>1, <2>4, <2>5, <2>8 DEF ListInv, LimitAnnounced, ReportsWhole, Listed
<1>2. CASE PageFails
  BY <1>0, <1>2 DEF PageFails, ListEnds, ListInv, ListGoing, ListSoFar, ListCounted, LimitAnnounced,
     ReportsWhole, Listed
<1>3. ASSUME NEW i \in Slot, MessageFetched(i) PROVE ListInv'
  BY <1>3 DEF MessageFetched, ListInv, ListGoing, ListSoFar, ListCounted, LimitAnnounced, ReportsWhole, Listed
<1>4. CASE FetchFails
  BY <1>0, <1>4 DEF FetchFails, ListEnds, ListInv, ListGoing, ListSoFar, ListCounted, LimitAnnounced,
     ReportsWhole, Listed
<1>5. CASE SearchDone
  BY <1>0, <1>5 DEF SearchDone, ListEnds, ListInv, ListGoing, ListSoFar, ListCounted, LimitAnnounced,
     ReportsWhole, Listed
<1>6. CASE UNCHANGED listVars
  BY <1>6 DEF listVars, ListInv, ListGoing, ListSoFar, ListCounted, LimitAnnounced, ReportsWhole, Listed, Place
<1> QED
  BY <1>1, <1>2, <1>3, <1>4, <1>5, <1>6, ListPages DEF ListNext

LEMMA ListBegins == ListInit => ListInv
<1> SUFFICES ASSUME ListInit PROVE ListInv
  OBVIOUS
<1>1. IsFiniteSet(nSeen) /\ Cardinality(nSeen) = 0 /\ nRead = 0
  BY FS_EmptySet DEF ListInit
<1>2. ListCounted
  BY <1>1 DEF ListCounted
<1> QED
  BY <1>2 DEF ListInit, ListInv, ListSoFar, LimitAnnounced, ReportsWhole, Listed

\* No token is followed twice, so there are no more pages than tokens, and the first.
LEMMA ListEndsSometime == ListInv => PagesEnd
<1> SUFFICES ASSUME ListInv PROVE PagesEnd
  OBVIOUS
<1>1. nPlaces \in Seq(0..Entries) /\ nSeen \subseteq 1..Len(nPlaces) /\ Len(nPlaces) \in Nat
  <2>1. <<>> \in Seq(0..Entries) /\ Len(<<>>) = 0
    OBVIOUS
  <2>2. CASE nStep = "off"
    BY <2>1, <2>2 DEF ListInv
  <2>3. CASE nStep # "off"
    BY <2>3 DEF ListInv, ListGoing
  <2> QED
    BY <2>2, <2>3
<1>2. IsFiniteSet(1..Len(nPlaces)) /\ Cardinality(1..Len(nPlaces)) = Len(nPlaces)
  <2>1. Len(nPlaces) \in Int /\ 1 \in Int /\ Len(nPlaces) >= 0
    BY <1>1
  <2>2. /\ IsFiniteSet(1..Len(nPlaces))
        /\ Cardinality(1..Len(nPlaces)) = IF 1 > Len(nPlaces) THEN 0 ELSE Len(nPlaces) - 1 + 1
    BY <2>1, FS_Interval, Zenon
  <2> QED
    BY <2>1, <2>2
<1>3. Cardinality(nSeen) <= Len(nPlaces) /\ Cardinality(nSeen) \in Nat
  BY <1>1, <1>2, FS_Subset, FS_CardinalityType
<1> QED
  BY <1>1, <1>3 DEF ListInv, ListCounted, PagesEnd

-----------------------------------------------------------------------------
\* A search.

SearchFetching ==
  /\ nFetched \in [1..Len(nItems) -> {"wait", "got", "gone"}]
  /\ Len(nItems) \in Nat /\ nItems = From(nQuery.from, Len(nItems))
  /\ IF nNext = 0 THEN nQuery.from + Len(nItems) = Entries ELSE nPlaces[nNext] = nQuery.from + Len(nItems)

\* As long as no token comes twice, what was listed is a part of the list, and the token
\* that is left stands for the place after it.
SearchInv ==
  nStep # "off" /\ nQuery.kind = "search" /\ nFresh =>
    /\ nStep = "list" => /\ nToken = Len(nPlaces) /\ nQuery.from <= Place /\ nNext = 0
                         /\ nItems = From(nQuery.from, Place - nQuery.from)
    /\ nStep = "fetch" => SearchFetching
    /\ SearchContinues

LEMMA FromAt ==
  ASSUME NEW place \in Nat, NEW m \in Nat
  PROVE  /\ From(place, m) \in Seq(Nat) /\ Len(From(place, m)) = m
         /\ \A i \in 1..m : From(place, m)[i] = place + i
  BY DEF From

LEMMA FromContinues ==
  ASSUME NEW place \in Nat, NEW from \in Nat, NEW to \in Nat, place <= from, from <= to
  PROVE  From(place, from - place) \o [i \in 1..(to - from) |-> from + i] = From(place, to - place)
<1> DEFINE more == [i \in 1..(to - from) |-> from + i]
           upTo == From(place, from - place)
<1>0. from - place \in Nat /\ to - from \in Nat /\ to - place \in Nat /\ (from - place) + (to - from) = to - place
  OBVIOUS
<1>1. more \in Seq(Nat) /\ Len(more) = to - from /\ \A i \in 1..(to - from) : more[i] = from + i
  BY <1>0
<1>2. upTo \in Seq(Nat) /\ Len(upTo) = from - place /\ \A i \in 1..(from - place) : upTo[i] = place + i
  BY <1>0, FromAt
<1>3. /\ From(place, to - place) \in Seq(Nat) /\ Len(From(place, to - place)) = to - place
      /\ \A i \in 1..(to - place) : From(place, to - place)[i] = place + i
  BY <1>0, FromAt
<1> HIDE DEF more, upTo
<1> DEFINE all == upTo \o more
<1>4. /\ all \in Seq(Nat) /\ Len(all) = Len(upTo) + Len(more)
      /\ \A i \in 1..(Len(upTo) + Len(more)) : all[i] = IF i <= Len(upTo) THEN upTo[i] ELSE more[i - Len(upTo)]
  BY <1>1, <1>2, ConcatProperties, Zenon
<1> HIDE DEF all
<1>5. Len(all) = to - place
  BY <1>0, <1>1, <1>2, <1>4
<1>6. ASSUME NEW i \in 1..(to - place) PROVE all[i] = place + i
  <2>1. all[i] = IF i <= from - place THEN upTo[i] ELSE more[i - (from - place)]
    BY <1>0, <1>1, <1>2, <1>4
  <2>2. i <= from - place => i \in 1..(from - place)
    BY <1>0
  <2>3. ~(i <= from - place) => i - (from - place) \in 1..(to - from) /\ from + (i - (from - place)) = place + i
    BY <1>0
  <2> QED
    BY <2>1, <2>2, <2>3, <1>1, <1>2
<1>7. all = From(place, to - place)
  BY <1>3, <1>4, <1>5, <1>6
<1> QED
  BY <1>7 DEF all, more, upTo

\* The page of a search.
LEMMA SearchPages ==
  ASSUME ListInv, SearchInv, NEW to \in 0..Entries, NEW next \in 0..ListTurns, SearchPage(to, next)
  PROVE  SearchInv'
<1>1. Answered(to, next) /\ nQuery.kind = "search"
  BY DEF SearchPage
<1>2. /\ nStep = "list" /\ ListGoing /\ nQuery' = nQuery /\ nEnd = NoValue
      /\ Place \in 0..Entries /\ Place <= to
      /\ next = 0 => to = Entries
      /\ Len(nPlaces') \in Nat /\ Len(nPlaces) \in Nat
      /\ next \notin 0..Len(nPlaces) => /\ next = Len(nPlaces) + 1 /\ Len(nPlaces') = next
                                        /\ nPlaces'[next] = to
      /\ next \in 0..Len(nPlaces) => nPlaces' = nPlaces
      /\ nFresh' => nFresh /\ next \notin 1..Len(nPlaces)
  BY <1>1, PageFacts
<1>3. SUFFICES ASSUME nFresh' PROVE SearchInv'
  BY DEF SearchInv
<1>4. Entries \in Nat /\ to \in Nat /\ Place \in Nat /\ nQuery.from \in Nat /\ "other" # "ok" /\ NoValue # "ok"
  BY <1>2, ListingAssumption, OutcomeAssumption DEF ListGoing, ListQuery, Ending, ExitCode
<1>5. /\ nToken = Len(nPlaces) /\ nQuery.from <= Place /\ nNext = 0
      /\ nItems = From(nQuery.from, Place - nQuery.from)
  BY <1>1, <1>2, <1>3 DEF SearchInv
<1>6. /\ nItems' = From(nQuery.from, to - nQuery.from)
      /\ Len(nItems') = to - nQuery.from /\ to - nQuery.from \in Nat
  <2>1. nItems' = From(nQuery.from, Place - nQuery.from) \o [i \in 1..(to - Place) |-> Place + i]
    BY <1>5 DEF SearchPage, EntriesTo
  <2>2. nItems' = From(nQuery.from, to - nQuery.from)
    BY <1>2, <1>4, <1>5, <2>1, FromContinues
  <2>3. to - nQuery.from \in Nat
    BY <1>2, <1>4, <1>5
  <2> QED
    BY <1>4, <2>2, <2>3, FromAt
<1>7. /\ nFetched' = [i \in 1..Len(nItems') |-> "wait"]
      /\ \/ nStep' = "over" /\ nEnd' = "other"
         \/ /\ next # 0 /\ nEnd' = nEnd
            /\ \/ nNext' = next /\ nStep' = "fetch"
               \/ nToken' = next /\ nNext' = nNext /\ nStep' = nStep
         \/ next = 0 /\ nStep' = "fetch" /\ nNext' = nNext /\ nEnd' = nEnd
  BY DEF SearchPage, ListEnds
<1>8. next # 0 => next = Len(nPlaces) + 1 /\ Len(nPlaces') = next /\ nPlaces'[next] = to
  BY <1>2, <1>3
<1>9. nFetched' \in [1..Len(nItems') -> {"wait", "got", "gone"}]
  BY <1>7
<1>10. nQuery.from + Len(nItems') = to
  BY <1>4, <1>6
<1>11. CASE nStep' = "over" /\ nEnd' = "other"
  BY <1>4, <1>11 DEF SearchInv, SearchContinues, Listed
<1>12. CASE next # 0 /\ nNext' = next /\ nStep' = "fetch" /\ nEnd' = nEnd
  <2>1. SearchFetching'
    BY <1>2, <1>6, <1>8, <1>9, <1>10, <1>12 DEF SearchFetching
  <2> QED
    BY <1>12, <2>1 DEF SearchInv, SearchContinues, Listed
<1>13. CASE next # 0 /\ nToken' = next /\ nNext' = nNext /\ nStep' = nStep /\ nEnd' = nEnd
  <2>1. Place' = to
    BY <1>8, <1>13 DEF Place
  <2>2. nQuery.from <= to
    BY <1>2, <1>4, <1>5
  <2> QED
    BY <1>2, <1>5, <1>6, <1>8, <1>13, <2>1, <2>2 DEF SearchInv, SearchContinues, Listed
<1>14. CASE next = 0 /\ nStep' = "fetch" /\ nNext' = nNext /\ nEnd' = nEnd
  <2>1. SearchFetching'
    BY <1>2, <1>5, <1>6, <1>9, <1>10, <1>14 DEF SearchFetching
  <2> QED
    BY <1>14, <2>1 DEF SearchInv, SearchContinues, Listed
<1> QED
  BY <1>7, <1>11, <1>12, <1>13, <1>14

\* The recursion has a solution: for the first i, and so for all.
LEMMA LeftIs ==
  ASSUME nItems \in Seq(Nat)
  PROVE  LeftOf = [i \in 0..Len(nItems) |->
                     IF i = 0 THEN << >>
                     ELSE IF nFetched[i] = "got" THEN Append(LeftOf[i - 1], nItems[i]) ELSE LeftOf[i - 1]]
<1> DEFINE n == Len(nItems)
           next(g, i) == IF nFetched[i] = "got" THEN Append(g[i - 1], nItems[i]) ELSE g[i - 1]
           solves(g, k) == g[0] = << >> /\ \A i \in 1..k : g[i] = next(g, i)
           solved(k) == \E g \in [0..k -> Seq(Nat)] : solves(g, k)
           bad == {k \in 0..n : ~solved(k)}
<1>1. n \in Nat
  OBVIOUS
<1>2. bad = {}
  <2> SUFFICES ASSUME bad # {} PROVE FALSE
    OBVIOUS
  <2>1. bad \subseteq Nat
    BY <1>1
  <2>2. PICK k \in bad : \A y \in bad : k <= y
    <3> HIDE DEF bad
    <3> QED
      BY <2>1, LeastOf
  <2>3. k \in 0..n /\ ~solved(k)
    OBVIOUS
  <2>4. k # 0
    <3> DEFINE g == [i \in 0..0 |-> << >>]
    <3>1. g \in [0..0 -> Seq(Nat)] /\ g[0] = << >>
      OBVIOUS
    <3>2. solves(g, 0)
      BY <3>1
    <3> HIDE DEF g, solves
    <3> QED
      BY <2>3, <3>1, <3>2
  <2>5. k - 1 \in 0..n /\ k - 1 \notin bad /\ k \in 1..n
    <3>1. k \in 1..n /\ k - 1 \in 0..n
      BY <1>1, <2>3, <2>4
    <3> HIDE DEF bad
    <3> QED
      BY <1>1, <2>2, <3>1
  <2>6. PICK g \in [0..(k - 1) -> Seq(Nat)] : solves(g, k - 1)
    <3> HIDE DEF solves
    <3>1. solved(k - 1)
      <4> HIDE DEF solved
      <4> QED
        BY <2>5
    <3> QED
      BY <3>1
  <2> DEFINE h == [i \in 0..k |-> IF i = k THEN next(g, k) ELSE g[i]]
  <2>7. h \in [0..k -> Seq(Nat)]
    <3>1. \A i \in 0..k : i # k => i \in 0..(k - 1)
      BY <2>5
    <3>2. k - 1 \in 0..(k - 1) /\ nItems[k] \in Nat
      <4> HIDE DEF bad, solved
      <4> QED
        BY <2>5
    <3>3. next(g, k) \in Seq(Nat)
      BY <2>6, <3>2
    <3> QED
      BY <2>6, <3>1, <3>3
  <2>8. h[0] = << >>
    BY <2>5, <2>6
  <2>9. ASSUME NEW i \in 1..k PROVE h[i] = next(h, i)
    <3>1. i \in 0..k /\ i - 1 \in 0..k /\ i - 1 # k /\ i \in Nat
      BY <2>5
    <3>2. h[i - 1] = g[i - 1]
      BY <3>1
    <3>3. i # k => i \in 1..(k - 1)
      BY <2>5
    <3> QED
      BY <2>6, <3>1, <3>2, <3>3
  <2> QED
    BY <2>3, <2>7, <2>8, <2>9
<1>3. PICK g \in [0..n -> Seq(Nat)] : solves(g, n)
  <2>1. n \in 0..n
    BY <1>1
  <2> HIDE DEF solves
  <2> QED
    BY <1>2, <2>1
<1>4. g = [i \in 0..n |-> IF i = 0 THEN << >> ELSE next(g, i)]
  <2>1. \A i \in 0..n : i # 0 => i \in 1..n
    BY <1>1
  <2>2. \A i \in 0..n : g[i] = IF i = 0 THEN << >> ELSE next(g, i)
    BY <1>3, <2>1
  <2> HIDE DEF next
  <2> QED
    BY <2>2
<1>5. LeftOf = CHOOSE f : f = [i \in 0..n |-> IF i = 0 THEN << >> ELSE next(f, i)]
  BY DEF LeftOf
<1> QED
  BY <1>4, <1>5

\* What is left of the first i: increasing, and just those that were there.
Kept(i) ==
  /\ LeftOf[i] \in Seq(Nat)
  /\ \A e : e \in ToSet(LeftOf[i]) <=> \E k \in 1..i : nFetched[k] = "got" /\ e = nItems[k]
  /\ \A j, k \in 1..Len(LeftOf[i]) : j < k => LeftOf[i][j] < LeftOf[i][k]

LEMMA KeptNone == ASSUME nItems \in Seq(Nat) PROVE Kept(0)
<1>1. LeftOf[0] = << >>
  <2>1. 0 \in 0..Len(nItems)
    OBVIOUS
  <2> QED
    BY <2>1, LeftIs, Zenon
<1>2. << >> \in Seq(Nat) /\ Len(<< >>) = 0 /\ 1..0 = {} /\ ToSet(<< >>) = {}
  BY DEF ToSet
<1> QED
  BY <1>1, <1>2 DEF Kept

LEMMA KeptMore ==
  ASSUME nItems \in Seq(Nat), NEW i \in 1..Len(nItems), Kept(i - 1),
         \A j, k \in 1..Len(nItems) : j < k => nItems[j] < nItems[k]
  PROVE  Kept(i)
<1> DEFINE before == LeftOf[i - 1]
<1>1. /\ before \in Seq(Nat)
      /\ \A e : e \in ToSet(before) <=> \E k \in 1..(i - 1) : nFetched[k] = "got" /\ e = nItems[k]
      /\ \A j, k \in 1..Len(before) : j < k => before[j] < before[k]
  BY DEF Kept
<1>2. LeftOf[i] = IF nFetched[i] = "got" THEN Append(before, nItems[i]) ELSE before
  <2>1. i \in 0..Len(nItems) /\ i # 0
    OBVIOUS
  <2> QED
    BY <2>1, LeftIs, Zenon
<1>3. \A k \in 1..i : k \in 1..(i - 1) \/ k = i
  OBVIOUS
<1>4. i \in 1..i /\ 1..(i - 1) \subseteq 1..i
  OBVIOUS
<1> HIDE DEF before
<1>5. CASE nFetched[i] = "got"
  <2> DEFINE item == nItems[i]
             after == Append(before, item)
  <2>1. item \in Nat
    OBVIOUS
  <2>2. ASSUME NEW e \in ToSet(before) PROVE e < item
    <3>1. PICK k \in 1..(i - 1) : e = nItems[k]
      BY <1>1, <2>2
    <3>2. k \in 1..Len(nItems) /\ k < i
      OBVIOUS
    <3> QED
      BY <3>1, <3>2
  <2> HIDE DEF item
  <2>3. after \in Seq(Nat) /\ Len(after) = Len(before) + 1 /\ after[Len(before) + 1] = item
        /\ \A j \in 1..Len(before) : after[j] = before[j]
    BY <1>1, <2>1
  <2> HIDE DEF after
  <2>4. ToSet(after) = ToSet(before) \cup {item}
    <3>1. \A j \in 1..(Len(before) + 1) : j \in 1..Len(before) \/ j = Len(before) + 1
      BY <1>1
    <3>2. 1..Len(before) \subseteq 1..(Len(before) + 1) /\ Len(before) + 1 \in 1..(Len(before) + 1)
      BY <1>1
    <3>3. ToSet(after) = {after[j] : j \in 1..(Len(before) + 1)} /\ ToSet(before) = {before[j] : j \in 1..Len(before)}
      <4>1. DOMAIN after = 1..(Len(before) + 1) /\ DOMAIN before = 1..Len(before)
        BY <1>1, <2>3
      <4> QED
        BY <4>1 DEF ToSet
    <3> QED
      BY <2>3, <3>1, <3>2, <3>3
  <2>5. ASSUME NEW j \in 1..Len(after), NEW k \in 1..Len(after), j < k PROVE after[j] < after[k]
    <3> DEFINE m == Len(before)
    <3>1. m \in Nat /\ j \in 1..(m + 1) /\ k \in 1..(m + 1) /\ DOMAIN before = 1..m
      BY <1>1, <2>3
    <3> HIDE DEF m
    <3>2. j \in 1..m /\ (k \in 1..m \/ k = m + 1)
      BY <2>5, <3>1
    <3>3. after[j] = before[j] /\ before[j] \in ToSet(before)
      <4>1. before[j] \in {before[other] : other \in DOMAIN before}
        BY <3>1, <3>2
      <4> QED
        BY <2>3, <3>2, <4>1 DEF m, ToSet
    <3>4. CASE k \in 1..m
      BY <1>1, <2>3, <2>5, <3>2, <3>3, <3>4 DEF m
    <3>5. CASE k = m + 1
      BY <2>2, <2>3, <3>3, <3>5 DEF m
    <3> QED
      BY <3>2, <3>4, <3>5
  <2>6. LeftOf[i] = after
    BY <1>2, <1>5 DEF after, item
  <2>7. \A e : e \in ToSet(after) <=> \E k \in 1..i : nFetched[k] = "got" /\ e = nItems[k]
    BY <1>1, <1>3, <1>4, <1>5, <2>4 DEF item
  <2> QED
    BY <2>3, <2>5, <2>6, <2>7 DEF Kept
<1>6. CASE nFetched[i] # "got"
  <2>1. LeftOf[i] = before
    BY <1>2, <1>6
  <2>2. \A e : e \in ToSet(before) <=> \E k \in 1..i : nFetched[k] = "got" /\ e = nItems[k]
    BY <1>1, <1>3, <1>4, <1>6
  <2> QED
    BY <1>1, <2>1, <2>2 DEF Kept
<1> QED
  BY <1>5, <1>6

LEMMA KeptAll ==
  ASSUME nItems \in Seq(Nat), \A j, k \in 1..Len(nItems) : j < k => nItems[j] < nItems[k]
  PROVE  Kept(Len(nItems))
<1> DEFINE bad == {i \in 0..Len(nItems) : ~Kept(i)}
<1>1. Len(nItems) \in Nat
  OBVIOUS
<1>2. bad = {}
  <2> SUFFICES ASSUME bad # {} PROVE FALSE
    OBVIOUS
  <2>1. bad \subseteq Nat
    BY <1>1
  <2>2. PICK i \in bad : \A y \in bad : i <= y
    <3> HIDE DEF bad
    <3> QED
      BY <2>1, LeastOf
  <2>3. i \in 0..Len(nItems) /\ ~Kept(i)
    OBVIOUS
  <2>4. i # 0
    BY <2>3, KeptNone
  <2>5. i \in 1..Len(nItems) /\ i - 1 \in 0..Len(nItems)
    <3> HIDE DEF bad
    <3> QED
      BY <1>1, <2>3, <2>4
  <2>6. i - 1 \notin bad
    <3> HIDE DEF bad
    <3> QED
      BY <2>2, <2>5
  <2>7. Kept(i - 1)
    BY <2>5, <2>6
  <2> HIDE DEF bad
  <2> QED
    BY <2>3, <2>5, <2>7, KeptMore
<1> QED
  BY <1>1, <1>2

\* The answer of a search.
LEMMA SearchAnswers ==
  ASSUME ListInv, SearchInv, SearchDone, nFresh
  PROVE  SearchContinues'
<1> DEFINE from == nQuery.from
           n == Len(nItems)
<1>1. /\ nStep = "fetch" /\ nQuery.kind = "search" /\ nItems' = MessagesLeft /\ InFlight = {}
      /\ UNCHANGED <<nQuery, nPlaces, nNext, nFetched>>
      /\ SearchFetching
  BY DEF SearchDone, ListInv, SearchInv
<1>2. from \in Nat /\ Entries \in Nat /\ MaxFetches \in Nat /\ MaxFetches > 0
  BY <1>1, ListingAssumption DEF ListInv, ListGoing, ListQuery
<1>3. /\ n \in Nat /\ nFetched \in [1..n -> {"wait", "got", "gone"}] /\ nItems = From(from, n)
      /\ IF nNext = 0 THEN from + n = Entries ELSE nPlaces[nNext] = from + n
  BY <1>1 DEF SearchFetching
<1>4. nItems \in Seq(Nat) /\ \A i \in 1..n : nItems[i] = from + i
  <2> HIDE DEF n, from
  <2> QED
    BY <1>2, <1>3, FromAt
<1>5. Len(nFetched) = n
  BY <1>3
<1>6. \A i \in 1..n : nFetched[i] # "wait"
  <2> DEFINE waiting == {i \in 1..Len(nItems) : nFetched[i] = "wait"}
  <2> SUFFICES ASSUME waiting # {} PROVE FALSE
    OBVIOUS
  <2>1. waiting \subseteq Nat
    BY <1>3
  <2>2. PICK i \in waiting : \A y \in waiting : i <= y
    <3> HIDE DEF waiting
    <3> QED
      BY <2>1, LeastOf
  <2>3. \A j \in waiting : i < j + MaxFetches
    <3> HIDE DEF waiting
    <3> QED
      BY <1>2, <2>1, <2>2
  <2>4. InFlight = {k \in waiting : \A j \in waiting : k < j + MaxFetches}
    BY DEF InFlight
  <2> HIDE DEF waiting
  <2> QED
    BY <1>1, <2>2, <2>3, <2>4
<1>7. Kept(n)
  <2>1. \A j, k \in 1..Len(nItems) : j < k => nItems[j] < nItems[k]
    BY <1>2, <1>3, <1>4
  <2> QED
    BY <1>4, <2>1, KeptAll
<1>8. /\ nItems' \in Seq(Nat)
      /\ \A e : e \in ToSet(nItems') <=> \E k \in 1..n : nFetched[k] = "got" /\ e = nItems[k]
      /\ \A j, k \in 1..Len(nItems') : j < k => nItems'[j] < nItems'[k]
  BY <1>1, <1>7 DEF Kept, MessagesLeft
<1>9. ToSet(nItems') = {from + i : i \in {k \in 1..n : nFetched[k] = "got"}}
  <2>1. ASSUME NEW e
        PROVE  (\E k \in 1..n : nFetched[k] = "got" /\ e = nItems[k])
               <=> e \in {from + i : i \in {k \in 1..n : nFetched[k] = "got"}}
    <3> HIDE DEF n, from
    <3> QED
      BY <1>4
  <2> HIDE DEF n, from
  <2> QED
    BY <1>8, <2>1
<1> QED
  BY <1>1, <1>3, <1>5, <1>6, <1>8, <1>9 DEF SearchContinues

LEMMA SearchInvStep == ListInv /\ SearchInv /\ [ListNext]_listVars => SearchInv'
<1> SUFFICES ASSUME ListInv, SearchInv, [ListNext]_listVars PROVE SearchInv'
  OBVIOUS
<1>0. NoValue # "ok" /\ "api" # "ok"
  BY OutcomeAssumption DEF Ending, ExitCode
<1>1. ASSUME NEW query \in ListQuery, ListBegin(query) PROVE SearchInv'
  <2>1. /\ nPlaces = << >> /\ nItems = << >> /\ nNext = 0
        /\ nStep' = "list" /\ nQuery' = query
        /\ UNCHANGED <<nItems, nNext>>
        /\ nPlaces' = IF query.from = 0 THEN << >> ELSE <<query.from>>
        /\ nToken' = Len(nPlaces')
    BY <1>1 DEF ListBegin, ListInv
  <2>2. query.from \in Nat
    BY ListingAssumption DEF ListQuery
  <2>3. Place' = query.from
    BY <2>1, <2>2 DEF Place
  <2>4. From(query.from, Place' - query.from) = << >>
    BY <2>2, <2>3 DEF From
  <2> QED
    BY <2>1, <2>2, <2>3, <2>4 DEF SearchInv, SearchContinues, Listed
<1>2. ASSUME NEW to \in 0..Entries, NEW next \in 0..ListTurns,
             LimitPage(to, next) \/ WholePage(to, next) \/ FirstPage(to, next)
      PROVE  SearchInv'
  BY <1>2 DEF LimitPage, WholePage, FirstPage, Answered, SearchInv
<1>3. CASE PageFails \/ FetchFails
  BY <1>0, <1>3 DEF PageFails, FetchFails, ListEnds, SearchInv, SearchContinues, Listed
<1>4. ASSUME NEW i \in Slot, MessageFetched(i) PROVE SearchInv'
  <2>1. PICK r \in {"got", "gone"} : nFetched' = [nFetched EXCEPT ![i] = r]
    BY <1>4 DEF MessageFetched
  <2>2. /\ nStep = "fetch" /\ UNCHANGED <<nStep, nQuery, nPlaces, nItems, nNext, nFresh, nEnd>>
    BY <1>4 DEF MessageFetched
  <2>3. nQuery.kind = "search" /\ nFresh => SearchFetching'
    BY <2>1, <2>2 DEF SearchInv, SearchFetching, From
  <2> QED
    BY <2>2, <2>3 DEF SearchInv, SearchContinues, Listed
<1>5. CASE SearchDone
  <2>1. nStep' = "over" /\ UNCHANGED <<nQuery, nFresh>>
    BY <1>5 DEF SearchDone, ListEnds
  <2> QED
    BY <1>5, <2>1, SearchAnswers DEF SearchInv
<1>6. CASE UNCHANGED listVars
  BY <1>6 DEF listVars, SearchInv, SearchFetching, SearchContinues, Listed, Place, From
<1>7. ASSUME NEW to \in 0..Entries, NEW next \in 0..ListTurns, SearchPage(to, next) PROVE SearchInv'
  BY <1>7, SearchPages
<1> QED
  BY <1>1, <1>2, <1>3, <1>4, <1>5, <1>6, <1>7 DEF ListNext

LEMMA SearchBegins == ListInit => SearchInv
  BY DEF ListInit, SearchInv

\* What was listed is told only when there is an answer to a search.
LEMMA SearchHolds == ListInv /\ SearchInv => SearchContinues
<1> SUFFICES ASSUME ListInv, SearchInv PROVE SearchContinues
  OBVIOUS
<1>1. CASE nStep = "off"
  BY <1>1 DEF SearchContinues, Listed
<1>2. CASE nStep # "off"
  BY <1>2 DEF SearchInv, SearchContinues
<1> QED
  BY <1>1, <1>2

-----------------------------------------------------------------------------
\* What was proved of one command holds of them all: a step of Commands is one of it,
\* or leaves its variables as they are.

LEMMA SourceAlone == [CommandsNext]_commandsVars => [SourceNext]_sourceVars
  BY DEF CommandsNext, RunBatch, RunMethod, RunSetup, RunRenew, RunSource, RunSign,
     RunDiscovery, RunEdit, RunScript, RunCalendar, RunReply, RunAccounts, RunList, RunParts,
     RunOutbound, RunTable, RunWizard, RunScopes, RunSkills, RunDownload, RunDoc, RunEvent,
     commandsVars

LEMMA EditAlone == [CommandsNext]_commandsVars => [EditNext]_editVars
  BY DEF CommandsNext, RunBatch, RunMethod, RunSetup, RunRenew, RunSource, RunSign,
     RunDiscovery, RunEdit, RunScript, RunCalendar, RunReply, RunAccounts, RunList, RunParts,
     RunOutbound, RunTable, RunWizard, RunScopes, RunSkills, RunDownload, RunDoc, RunEvent,
     commandsVars

LEMMA ReplyAlone == [CommandsNext]_commandsVars => [ReplyNext]_replyVars
  BY DEF CommandsNext, RunBatch, RunMethod, RunSetup, RunRenew, RunSource, RunSign,
     RunDiscovery, RunEdit, RunScript, RunCalendar, RunReply, RunAccounts, RunList, RunParts,
     RunOutbound, RunTable, RunWizard, RunScopes, RunSkills, RunDownload, RunDoc, RunEvent,
     commandsVars

LEMMA BatchAlone == [CommandsNext]_commandsVars => [BatchNext]_batchVars
  BY DEF CommandsNext, RunBatch, RunMethod, RunSetup, RunRenew, RunSource, RunSign,
     RunDiscovery, RunEdit, RunScript, RunCalendar, RunReply, RunAccounts, RunList, RunParts,
     RunOutbound, RunTable, RunWizard, RunScopes, RunSkills, RunDownload, RunDoc, RunEvent,
     commandsVars

LEMMA RenewAlone == [CommandsNext]_commandsVars => [RenewNext]_renewVars
  BY DEF CommandsNext, RunBatch, RunMethod, RunSetup, RunRenew, RunSource, RunSign,
     RunDiscovery, RunEdit, RunScript, RunCalendar, RunReply, RunAccounts, RunList, RunParts,
     RunOutbound, RunTable, RunWizard, RunScopes, RunSkills, RunDownload, RunDoc, RunEvent,
     commandsVars

LEMMA DiscoveryAlone == [CommandsNext]_commandsVars => [DiscoveryNext]_discoveryVars
  BY DEF CommandsNext, RunBatch, RunMethod, RunSetup, RunRenew, RunSource, RunSign,
     RunDiscovery, RunEdit, RunScript, RunCalendar, RunReply, RunAccounts, RunList, RunParts,
     RunOutbound, RunTable, RunWizard, RunScopes, RunSkills, RunDownload, RunDoc, RunEvent,
     commandsVars

LEMMA ScriptAlone == [CommandsNext]_commandsVars => [ScriptNext]_scriptVars
  BY DEF CommandsNext, RunBatch, RunMethod, RunSetup, RunRenew, RunSource, RunSign,
     RunDiscovery, RunEdit, RunScript, RunCalendar, RunReply, RunAccounts, RunList, RunParts,
     RunOutbound, RunTable, RunWizard, RunScopes, RunSkills, RunDownload, RunDoc, RunEvent,
     commandsVars

LEMMA SignAlone == [CommandsNext]_commandsVars => [SignNext]_signVars
  BY DEF CommandsNext, RunBatch, RunMethod, RunSetup, RunRenew, RunSource, RunSign,
     RunDiscovery, RunEdit, RunScript, RunCalendar, RunReply, RunAccounts, RunList, RunParts,
     RunOutbound, RunTable, RunWizard, RunScopes, RunSkills, RunDownload, RunDoc, RunEvent,
     commandsVars

LEMMA MethodAlone == [CommandsNext]_commandsVars => [MethodNext]_methodVars
  BY DEF CommandsNext, RunBatch, RunMethod, RunSetup, RunRenew, RunSource, RunSign,
     RunDiscovery, RunEdit, RunScript, RunCalendar, RunReply, RunAccounts, RunList, RunParts,
     RunOutbound, RunTable, RunWizard, RunScopes, RunSkills, RunDownload, RunDoc, RunEvent,
     commandsVars

LEMMA SetupAlone == [CommandsNext]_commandsVars => [SetupNext]_setupVars
  BY DEF CommandsNext, RunBatch, RunMethod, RunSetup, RunRenew, RunSource, RunSign,
     RunDiscovery, RunEdit, RunScript, RunCalendar, RunReply, RunAccounts, RunList, RunParts,
     RunOutbound, RunTable, RunWizard, RunScopes, RunSkills, RunDownload, RunDoc, RunEvent,
     commandsVars

LEMMA WizardAlone == [CommandsNext]_commandsVars => [WizardNext]_wizardVars
  BY DEF CommandsNext, RunBatch, RunMethod, RunSetup, RunRenew, RunSource, RunSign,
     RunDiscovery, RunEdit, RunScript, RunCalendar, RunReply, RunAccounts, RunList, RunParts,
     RunOutbound, RunTable, RunWizard, RunScopes, RunSkills, RunDownload, RunDoc, RunEvent,
     commandsVars

LEMMA OutboundAlone == [CommandsNext]_commandsVars => [OutboundNext]_outboundVars
  BY DEF CommandsNext, RunBatch, RunMethod, RunSetup, RunRenew, RunSource, RunSign,
     RunDiscovery, RunEdit, RunScript, RunCalendar, RunReply, RunAccounts, RunList, RunParts,
     RunOutbound, RunTable, RunWizard, RunScopes, RunSkills, RunDownload, RunDoc, RunEvent,
     commandsVars

LEMMA SkillsAlone == [CommandsNext]_commandsVars => [SkillsNext]_skillVars
  BY DEF CommandsNext, RunBatch, RunMethod, RunSetup, RunRenew, RunSource, RunSign,
     RunDiscovery, RunEdit, RunScript, RunCalendar, RunReply, RunAccounts, RunList, RunParts,
     RunOutbound, RunTable, RunWizard, RunScopes, RunSkills, RunDownload, RunDoc, RunEvent,
     commandsVars

LEMMA PartsAlone == [CommandsNext]_commandsVars => [PartsNext]_partsVars
  BY DEF CommandsNext, RunBatch, RunMethod, RunSetup, RunRenew, RunSource, RunSign,
     RunDiscovery, RunEdit, RunScript, RunCalendar, RunReply, RunAccounts, RunList, RunParts,
     RunOutbound, RunTable, RunWizard, RunScopes, RunSkills, RunDownload, RunDoc, RunEvent,
     commandsVars

LEMMA DownloadAlone == [CommandsNext]_commandsVars => [DownloadNext]_downloadVars
  BY DEF CommandsNext, RunBatch, RunMethod, RunSetup, RunRenew, RunSource, RunSign,
     RunDiscovery, RunEdit, RunScript, RunCalendar, RunReply, RunAccounts, RunList, RunParts,
     RunOutbound, RunTable, RunWizard, RunScopes, RunSkills, RunDownload, RunDoc, RunEvent,
     commandsVars

LEMMA CalendarAlone == [CommandsNext]_commandsVars => [CalendarNext]_calendarVars
  BY DEF CommandsNext, RunBatch, RunMethod, RunSetup, RunRenew, RunSource, RunSign,
     RunDiscovery, RunEdit, RunScript, RunCalendar, RunReply, RunAccounts, RunList, RunParts,
     RunOutbound, RunTable, RunWizard, RunScopes, RunSkills, RunDownload, RunDoc, RunEvent,
     commandsVars

LEMMA ListAlone == [CommandsNext]_commandsVars => [ListNext]_listVars
  BY DEF CommandsNext, RunBatch, RunMethod, RunSetup, RunRenew, RunSource, RunSign,
     RunDiscovery, RunEdit, RunScript, RunCalendar, RunReply, RunAccounts, RunList, RunParts,
     RunOutbound, RunTable, RunWizard, RunScopes, RunSkills, RunDownload, RunDoc, RunEvent,
     commandsVars

LEMMA ScopesAlone == [CommandsNext]_commandsVars => [ScopesNext]_scopesVars
  BY DEF CommandsNext, RunBatch, RunMethod, RunSetup, RunRenew, RunSource, RunSign,
     RunDiscovery, RunEdit, RunScript, RunCalendar, RunReply, RunAccounts, RunList, RunParts,
     RunOutbound, RunTable, RunWizard, RunScopes, RunSkills, RunDownload, RunDoc, RunEvent,
     commandsVars

LEMMA TableAlone == [CommandsNext]_commandsVars => [TableNext]_tableVars
  BY DEF CommandsNext, RunBatch, RunMethod, RunSetup, RunRenew, RunSource, RunSign,
     RunDiscovery, RunEdit, RunScript, RunCalendar, RunReply, RunAccounts, RunList, RunParts,
     RunOutbound, RunTable, RunWizard, RunScopes, RunSkills, RunDownload, RunDoc, RunEvent,
     commandsVars

LEMMA EventAlone == [CommandsNext]_commandsVars => [EventNext]_eventVars
  BY DEF CommandsNext, RunBatch, RunMethod, RunSetup, RunRenew, RunSource, RunSign,
     RunDiscovery, RunEdit, RunScript, RunCalendar, RunReply, RunAccounts, RunList, RunParts,
     RunOutbound, RunTable, RunWizard, RunScopes, RunSkills, RunDownload, RunDoc, RunEvent,
     commandsVars

LEMMA AccountsAlone == [CommandsNext]_commandsVars => [AccountsNext]_accountVars
  BY DEF CommandsNext, RunBatch, RunMethod, RunSetup, RunRenew, RunSource, RunSign,
     RunDiscovery, RunEdit, RunScript, RunCalendar, RunReply, RunAccounts, RunList, RunParts,
     RunOutbound, RunTable, RunWizard, RunScopes, RunSkills, RunDownload, RunDoc, RunEvent,
     commandsVars

LEMMA DocAlone == [CommandsNext]_commandsVars => [DocNext]_docVars
  BY DEF CommandsNext, RunBatch, RunMethod, RunSetup, RunRenew, RunSource, RunSign,
     RunDiscovery, RunEdit, RunScript, RunCalendar, RunReply, RunAccounts, RunList, RunParts,
     RunOutbound, RunTable, RunWizard, RunScopes, RunSkills, RunDownload, RunDoc, RunEvent,
     commandsVars

\* However many logins, logouts and other commands overlap and are killed: everything
\* encrypted can be read with the key there is (keystore.rs), a cached time zone is that
\* of the account (timezone.rs), and nobody silently acts as another account (login.rs).
THEOREM AccountsHold == CommandsSpec => []AlwaysReadable /\ AccountsCorrect
<1>1. CommandsInit => AccountsInit
  BY DEF CommandsInit
<1>2. CommandsSpec => AccountsSpec
  BY <1>1, AccountsAlone, PTL DEF CommandsSpec, AccountsSpec
<1> QED
  BY <1>2, ReadableKept, AccountsKept

\* The command that goes on acts as what the user asked for, and never takes the next
\* credentials because those asked for cannot be used (auth/credentials.rs).
THEOREM IdentityKept == CommandsSpec => []NeverAnotherIdentity
<1>1. CommandsInit => IdentityInv
  BY OutcomeAssumption DEF CommandsInit, SourceInit, IdentityInv, Ending, ExitCode
<1>2. IdentityInv /\ [CommandsNext]_commandsVars => IdentityInv'
  BY IdentityStep, SourceAlone
<1>3. IdentityInv => NeverAnotherIdentity
  BY DEF IdentityInv, NeverAnotherIdentity, SourceChosen, ActsAs, CredentialSource
<1> QED
  BY <1>1, <1>2, <1>3, PTL DEF CommandsSpec

\* Whatever others do to the event or the file between the two requests, a guest the
\* command does not name keeps their place and their response, a file keeps a parent,
\* and a reply goes to everybody it is meant for and to nobody else.
THEOREM OthersUnaffected == CommandsSpec => []BystandersKept
<1>1. CommandsInit => EditInv /\ FolderInv /\ ReplyInv
  BY OutcomeAssumption DEF CommandsInit, EditInit, ReplyInit, EditInv, FolderInv, ReplyInv, Ending,
     ExitCode, OthersStayInvited, FileKeepsParent, NobodyElseReached, NobodyLeftOut, GuestList
<1>2. EditInv /\ FolderInv /\ ReplyInv /\ [CommandsNext]_commandsVars
        => (EditInv /\ FolderInv /\ ReplyInv)'
  BY EditStep, FolderStep, ReplyStep, EditAlone, ReplyAlone
<1>3. EditInv /\ FolderInv /\ ReplyInv => BystandersKept
  BY DEF EditInv, FolderInv, ReplyInv, BystandersKept
<1> QED
  BY <1>1, <1>2, <1>3, PTL DEF CommandsSpec

\* A batch asks for every confirmation its calls need before it sends one of them,
\* no call is carried out twice, and what it prints of each call and its exit code
\* are true, whichever replies are lost or come late (executor/batch.rs).
THEOREM BatchTold == CommandsSpec => []BatchCorrect
<1>1. CommandsInit => BatchInv
  BY BatchBeginsRight DEF CommandsInit
<1>2. BatchInv /\ [CommandsNext]_commandsVars => BatchInv'
  BY BatchStep, BatchAlone
<1> QED
  BY <1>1, <1>2, BatchHolds, PTL DEF CommandsSpec

\* Renewing on a timer keeps every subscription alive that it can keep, says of each
\* one it was to renew what became of it, and reactivates every suspended one or
\* reports it (helpers/events/renew.rs).
THEOREM RenewalHolds == CommandsSpec => RenewalCorrect
<1>1. CommandsInit => RenewInv
  BY RenewBegins DEF CommandsInit
<1>2. RenewInv /\ [CommandsNext]_commandsVars => RenewInv'
  BY RenewTypesStep, ReportedStep, LeftEnoughStep, SuspendedStep, RenewAlone DEF RenewInv
<1>3. RenewInv /\ [CommandsNext]_commandsVars =>
        [rStep = "renew" /\ rStep' = "over" /\ rMode = [named |-> FALSE, reactivate |-> TRUE] =>
           rSuspended \cap Alive \subseteq rFailed]_renewVars
  <2> SUFFICES ASSUME RenewInv, RenewNext, rStep = "renew", rStep' = "over",
                      rMode = [named |-> FALSE, reactivate |-> TRUE]
               PROVE  rSuspended \cap Alive \subseteq rFailed
    BY RenewAlone
  <2>1. rToDo = {}
    BY DEF RenewNext, Timer, RenewBegin, TimePasses, Suspends, RenewRun, RenewOne, Listing,
       ListFails, RenewDone
  <2> QED
    BY <2>1 DEF RenewInv, SuspendedTold
<1> QED
  BY <1>1, <1>2, <1>3, ReportHolds, PTL DEF CommandsSpec, RenewalCorrect, Reactivated

\* Loads that race with each other and with clears of the cache give each command the
\* document of its own API, an old one only when the network fails, and a clear that
\* succeeds leaves nothing behind (discovery/mod.rs, discovery/cache.rs).
THEOREM DiscoveryHolds == CommandsSpec => DiscoveryCorrect
<1>1. CommandsInit => CacheInv
  BY CacheBegins DEF CommandsInit
<1>2. CacheInv /\ [CommandsNext]_commandsVars => CacheInv'
  BY CacheStep, DiscoveryAlone
<1>3. CacheInv => DocumentServed
  BY DEF CacheInv, LoaderSound, DocumentServed
<1>4. CacheInv /\ [CommandsNext]_commandsVars =>
        [\A x \in Clearer : xStep[x] # "ok" /\ xStep'[x] = "ok" =>
           dDir' = "none" /\ Present' = {} /\ dTemp' = {}]_discoveryVars
  <2> SUFFICES ASSUME CacheInv, DiscoveryNext, NEW x \in Clearer, xStep[x] # "ok", xStep'[x] = "ok"
               PROVE  dDir' = "none" /\ Present' = {} /\ dTemp' = {}
    BY DiscoveryAlone
  <2> USE DEF CacheInv, CacheTypes
  <2>1. ASSUME NEW l \in Loader, LoaderStep(l) PROVE xStep' = xStep
    BY <2>1 DEF LoaderStep, LoadDir, LoadOwner, LoadEntry, LoadRead, LoadRemove, Fetch, StoreDir,
       StoreTemp, StorePersist, LoaderKilled, clearVars
  <2>2. ~DiscoveryStart
    BY DEF DiscoveryStart, DiscoveryBegin
  <2>3. PICK y \in Clearer : ClearPlan(y) \/ ClearDocument(y) \/ ClearTemp(y) \/ ClearDir(y)
    BY <2>1, <2>2 DEF DiscoveryNext, LoaderStep
  <2>4. CASE ClearPlan(y)
    BY <2>4 DEF ClearPlan, XGo, Disk, NothingInNothing, Present
  <2>5. CASE ClearDocument(y) \/ ClearTemp(y)
    BY <2>5 DEF ClearDocument, ClearTemp
  <2>6. CASE ClearDir(y)
    BY <2>6 DEF ClearDir, XGo, Present
  <2> QED
    BY <2>3, <2>4, <2>5, <2>6
<1> QED
  BY <1>1, <1>2, <1>3, <1>4, PTL DEF CommandsSpec, DiscoveryCorrect, ClearedForGood

\* A project pulled and pushed straight back is the project it was, a pull that is
\* refused has written nothing, and a push deletes no file the directory has.
THEOREM ScriptHolds == CommandsSpec => ScriptCorrect
<1>1. CommandsInit => ScriptInv
  BY DEF CommandsInit, ScriptInit, ScriptInv
<1>2. ScriptInv /\ [CommandsNext]_commandsVars => ScriptInv'
  BY ScriptStep, ScriptAlone
<1>3. ScriptInv /\ [CommandsNext]_commandsVars =>
        /\ [cStep = "push" /\ cMirror => cProject' \in {cProject, cFetched}]_scriptVars
        /\ [cStep = "plan" /\ cStep' = "ready" => cDisk' = cBefore]_scriptVars
        /\ [cProject' # cProject =>
              \A e \in cDisk : SkipName(e.name) \/ e.name \in NamesOf(cProject')]_scriptVars
  BY ScriptSteps, ScriptAlone
<1> QED
  BY <1>1, <1>2, <1>3, PTL DEF CommandsSpec, ScriptCorrect, RoundTrip, RefusedWritesNothing, PushKeepsLocal

\* Only the answer to this very sign-in decides it, whatever else connects to the port
\* and in whatever order (auth/flow.rs).
THEOREM OwnAnswerHolds == CommandsSpec => []OnlyOwnAnswer
<1>1. CommandsInit => SignInv
  BY OutcomeAssumption DEF CommandsInit, SignInit, SignInv, Connected, OnlyOwnAnswer, Ending, ExitCode
<1>2. SignInv /\ [CommandsNext]_commandsVars => SignInv'
  BY SignStep, SignAlone
<1> QED
  BY <1>1, <1>2, PTL DEF CommandsSpec, SignInv

\* A generated command asks before it does harm, prints each page once, all of them or
\* says that it does not, nothing that was not screened, and does not pass for a failure
\* once it has changed something (execute_to).
THEOREM MethodHolds == CommandsSpec => []MethodTold
<1>1. CommandsInit => MethodInv
  BY MethodBegins DEF CommandsInit
<1>2. MethodInv /\ [CommandsNext]_commandsVars => MethodInv'
  BY MethodInvStep, MethodAlone
<1>3. MethodInv => MethodTold
  BY DEF MethodInv, Gated, TokensOnce, MethodTold
<1> QED
  BY <1>1, <1>2, <1>3, PTL DEF CommandsSpec

\* A login asks for what was chosen and no more: the picker's rows are true to it, every
\* service has a scope or the login fails, a login to read cannot write; and a method is
\* called with a scope that was granted and suits it (auth/scopes.rs).
THEOREM ScopesHold == CommandsSpec => []ScopesCorrect
<1>1. CommandsInit => ScopesInv
  BY ScopesBegins DEF CommandsInit
<1>2. ScopesInv /\ [CommandsNext]_commandsVars => ScopesInv'
  BY ScopesInvStep, ScopesAlone
<1>3. ScopesInv => ScopesCorrect
  BY DEF ScopesInv
<1> QED
  BY <1>1, <1>2, <1>3, PTL DEF CommandsSpec

\* What a setup leaves behind belongs together, and what it could not delete it names: the
\* feed, subscription and topic of a stream (events.rs, gmail/watch.rs); the project, APIs
\* and OAuth client of auth setup (auth/setup/mod.rs).  And a login asks for what was chosen
\* and no more, with a scope for every service, and a method is called with a scope that
\* was granted and suits it (auth/scopes.rs).
THEOREM SetupsHold == CommandsSpec => []SetupsCorrect
<1> DEFINE Inv == SetupInv /\ WizardInv /\ NoteInv
<1>1. CommandsInit => Inv
  BY SetupBegins, WizardBegins, NoteBegins DEF CommandsInit
<1>2. Inv /\ [CommandsNext]_commandsVars => Inv'
  BY SetupInvStep, SetupAlone, WizardInvStep, NoteInvStep, WizardAlone
<1>3. ScopesCorrect /\ Inv => SetupsCorrect
  BY DEF SetupInv, WizardInv, NoteInv, SetupsCorrect, WizardCorrect
<1> QED
  BY <1>1, <1>2, <1>3, ScopesHold, PTL DEF CommandsSpec

\* The credentials a command acts with are those asked for, also if they cannot be used,
\* and the answer that decides a sign-in is that of its own browser page
\* (auth/credentials.rs, auth/flow.rs).
THEOREM IdentityRight == CommandsSpec => []RightIdentity
<1>1. NeverAnotherIdentity /\ OnlyOwnAnswer <=> RightIdentity
  BY DEF RightIdentity
<1> QED
  BY <1>1, IdentityKept, OwnAnswerHolds, PTL

\* What is read is whole or says what is missing: the pages of a method, the calendars
\* of an agenda and of free slots, lists with a limit or without, searches that go on where
\* the last one ended, files; and a table of several pages has one header, a record for
\* every row and no value left out in silence (executor/mod.rs, helpers/http.rs,
\* helpers/calendar.rs, helpers/workflows.rs, helpers/gmail/search.rs, helpers/drive.rs,
\* formatter.rs).
THEOREM ReadsHold == CommandsSpec => []ReadsCorrect
<1> DEFINE Inv == CalendarInv /\ ListInv /\ SearchInv /\ TableInv /\ DownloadInv
<1>1. CommandsInit => Inv
  BY CalendarBegins, ListBegins, SearchBegins, TableBegins, DownloadBegins DEF CommandsInit
<1>2. Inv /\ [CommandsNext]_commandsVars => Inv'
  <2>1. Inv /\ [CommandsNext]_commandsVars => ListInv' /\ SearchInv'
    BY ListInvStep, SearchInvStep, ListAlone
  <2>2. Inv /\ [CommandsNext]_commandsVars => CalendarInv' /\ TableInv' /\ DownloadInv'
    BY CalendarInvStep, CalendarAlone, TableInvStep, TableAlone, DownloadInvStep, DownloadAlone
  <2> QED
    BY <2>1, <2>2
<1>3. MethodTold /\ Inv => ReadsCorrect
  BY ListEndsSometime, SearchHolds
     DEF MethodTold, ReadsCorrect, CalendarInv, ListInv, TableInv, TableCorrect, DownloadInv
<1> QED
  BY <1>1, <1>2, <1>3, MethodHolds, PTL DEF CommandsSpec

\* A change is asked for and screened before it is made, and told when it was made, also
\* when what comes after it fails; each attachment saved gets a file of its own, whatever
\* the names in the message, no file that is not the command's is replaced, an event
\* starts and ends when the user said, whatever the clocks do and whoever moves it meanwhile,
\* and the paragraphs of a Markdown document cover its text (executor/batch.rs,
\* executor/mod.rs, confirm.rs, helpers/http.rs, generate_skills.rs, helpers/gmail/read.rs,
\* helpers/calendar/time.rs, helpers/docs/markdown.rs).
THEOREM WritesHold == CommandsSpec => []WritesCorrect
<1> DEFINE Inv == OutboundInv /\ SkillsInv /\ PartsInv /\ EventInv /\ DocInv
<1>1. CommandsInit => Inv
  BY OutboundBegins, SkillsBegins, PartsBegins, EventBegins, DocStarts DEF CommandsInit
<1>2. Inv /\ [CommandsNext]_commandsVars => Inv'
  <2>1. Inv /\ [CommandsNext]_commandsVars => OutboundInv' /\ SkillsInv'
    BY OutboundInvStep, OutboundAlone, SkillsInvStep, SkillsAlone
  <2>2. Inv /\ [CommandsNext]_commandsVars => PartsInv' /\ EventInv'
    BY PartsInvStep, PartsAlone, EventInvStep, EventAlone
  <2>3. Inv /\ [CommandsNext]_commandsVars => DocInv'
    BY DocKeeps, DocAlone
  <2> QED
    BY <2>1, <2>2, <2>3
<1>3. BatchCorrect /\ MethodTold /\ Inv => WritesCorrect
  BY OutboundInvHolds, DocCovers DEF MethodTold, WritesCorrect, SkillsInv, PartsInv, EventInv
<1> QED
  BY <1>1, <1>2, <1>3, BatchTold, MethodHolds, PTL DEF CommandsSpec

-----------------------------------------------------------------------------
\* The types of all commands.

LEMMA EndingIs ==
  Ending = {"ok", "api", "auth", "validation", "discovery", "other", "retryable", "unconfirmed",
            "config", "store", "network", "blocked"}
  BY DEF Ending, ExitCode

LEMMA ThereIs ==
  ASSUME NEW f, NEW kind, NEW absent PROVE There(f, kind, absent) \in {f, kind, absent}
  BY DEF There

LEMMA SourceOfIs ==
  SourceOf \in CredentialSource \cup {"config", "auth", "store"}
<1>2. ApplicationDefault \in CredentialSource \cup {"config", "auth"}
  BY ThereIs DEF ApplicationDefault, CredentialSource, CredentialFile
<1>3. ProfileSource \in CredentialSource \cup {"config", "auth", "store"}
  BY ThereIs, <1>2 DEF ProfileSource, CredentialSource, CredentialFile
<1> QED
  BY ThereIs, <1>3 DEF SourceOf, CredentialSource, CredentialFile

LEMMA SourceTyped == SourceTypeOK /\ [SourceNext]_sourceVars => SourceTypeOK'
<1> SUFFICES ASSUME SourceTypeOK, [SourceNext]_sourceVars PROVE SourceTypeOK'
  OBVIOUS
<1> USE EndingIs DEF SourceTypeOK
<1>1. ASSUME NEW asked \in Asked, NEW files \in [CredentialFile -> FileState], SourceBegin(asked, files)
      PROVE  SourceTypeOK'
  BY <1>1 DEF SourceBegin
<1>2. ASSUME FindSourceOf PROVE SourceTypeOK'
  BY <1>2, SourceOfIs DEF FindSourceOf, SourceEnds, Absent
<1>3. ASSUME LoadToken PROVE SourceTypeOK'
  BY <1>3 DEF LoadToken, SourceEnds
<1>4. ASSUME LoadCredential PROVE SourceTypeOK'
  BY <1>4 DEF LoadCredential, SourceEnds, LoadError
<1>5. ASSUME NEW f \in CredentialFile, NEW state \in {"missing", "user"}, FileChanges(f, state) PROVE SourceTypeOK'
  BY <1>5 DEF FileChanges, FileState
<1>6. ASSUME UNCHANGED sourceVars PROVE SourceTypeOK'
  BY <1>6 DEF sourceVars
<1> QED
  BY <1>1, <1>2, <1>3, <1>4, <1>5, <1>6 DEF SourceNext

LEMMA SignTyped == SignTypeOK /\ [SignNext]_signVars => SignTypeOK'
<1> SUFFICES ASSUME SignTypeOK, [SignNext]_signVars PROVE SignTypeOK'
  OBVIOUS
<1> USE EndingIs DEF SignTypeOK
<1>0. Cardinality({}) = 0 /\ MaxConnections \in Nat \ {0}
  BY FS_EmptySet, SignInAssumption
<1>e. ASSUME NEW e \in Ending, SignEnds(e), gPatient' = gPatient, gSends' = gSends,
             gCode' \in CodeOrigin \cup {NoValue}, gTokens' \in BOOLEAN
      PROVE  SignTypeOK'
  BY <1>0, <1>e DEF SignEnds
<1>d. ASSUME NEW c \in gServing, Drop(c) PROVE SignTypeOK'
  <2>1. IsFiniteSet(gServing)
    BY SignInAssumption, FS_Subset
  <2>2. Cardinality(gServing \ {c}) <= MaxConnections
    <3>1. Cardinality(gServing \ {c}) = Cardinality(gServing) - 1 /\ Cardinality(gServing) \in Nat
      BY <2>1, FS_RemoveElement, FS_CardinalityType
    <3> QED BY <1>0, <3>1
  <2> QED BY <1>d, <2>2 DEF Drop
<1>1. ASSUME NEW mode, NEW patient \in BOOLEAN, SignBegin(mode, patient) PROVE SignTypeOK'
  BY <1>1 DEF SignBegin
<1>2. ASSUME NEW c \in Connection, NEW sends \in Request \cup {Nothing}, Connects(c, sends) PROVE SignTypeOK'
  BY <1>2 DEF Connects
<1>3. ASSUME Accept PROVE SignTypeOK'
  <2>1. Head(gBacklog) \in Connection /\ Tail(gBacklog) \in Seq(Connection)
    BY <1>3 DEF Accept
  <2>2. IsFiniteSet(gServing)
    BY SignInAssumption, FS_Subset
  <2>3. Cardinality(gServing \cup {Head(gBacklog)}) <= MaxConnections
    <3>1. /\ Cardinality(gServing) \in Nat /\ Cardinality(gServing) < MaxConnections
          /\ Cardinality(gServing \cup {Head(gBacklog)}) \in {Cardinality(gServing), Cardinality(gServing) + 1}
      BY <1>3, <2>2, FS_AddElement, FS_CardinalityType DEF Accept
    <3> QED BY <1>0, <3>1
  <2> QED BY <1>3, <2>1, <2>3 DEF Accept
<1>4. ASSUME NEW c \in Connection, Answer(c) PROVE SignTypeOK'
  <2> DEFINE outcome == ParseCallback(gSends[c])
  <2>1. CASE outcome = "code" /\ gStep' = "exchange" /\ gCode' = CodeOf(gSends[c])
    <3>1. /\ gBacklog' = << >> /\ gServing' = {} /\ gStep' = "exchange"
          /\ UNCHANGED <<gPatient, gSends, gTokens, gEnd>>
      BY <1>4, <2>1 DEF Answer, SignEnds, Drop
    <3>2. gCode' \in CodeOrigin
      BY <2>1 DEF CodeOf, CodeOrigin
    <3> QED BY <1>0, <3>1, <3>2
  <2>2. CASE SignEnds("auth") /\ UNCHANGED <<gPatient, gSends, gCode, gTokens>>
    BY <2>2, <1>e
  <2>3. CASE Drop(c)
    BY <1>4, <2>3, <1>d DEF Answer
  <2> QED BY <1>4, <2>1, <2>2, <2>3 DEF Answer
<1>5. ASSUME NEW c \in Connection, IdleTimesOut(c) PROVE SignTypeOK'
  BY <1>5, <1>d DEF IdleTimesOut
<1>6. ASSUME SignTimesOut PROVE SignTypeOK'
  BY <1>6, <1>e DEF SignTimesOut
<1>7. ASSUME NEW r \in Request, Paste(r) PROVE SignTypeOK'
  BY <1>7, <1>e DEF Paste, Listener, CodeOf, CodeOrigin
<1>8. ASSUME Exchange PROVE SignTypeOK'
  BY <1>8, <1>e DEF Exchange
<1>9. ASSUME UNCHANGED signVars PROVE SignTypeOK'
  BY <1>9 DEF signVars
<1> QED
  BY <1>1, <1>2, <1>3, <1>4, <1>5, <1>6, <1>7, <1>8, <1>9 DEF SignNext, Serving

LEMMA DiscoveryTyped == CacheInv /\ DiscoveryTypeOK /\ [DiscoveryNext]_discoveryVars => DiscoveryTypeOK'
<1> SUFFICES ASSUME CacheInv, DiscoveryTypeOK, [DiscoveryNext]_discoveryVars PROVE DiscoveryTypeOK'
  OBVIOUS
<1>0. CacheInv'
  BY CacheStep
<1>1. /\ dTemp' \subseteq Loader /\ lStep' \in [Loader -> LoadStep] /\ lApi' \in [Loader -> Api \cup {NoValue}]
      /\ lFetched' \in [Loader -> Fetched \cup {NoValue}]
      /\ xStep' \in [Clearer -> {"off", "plan", "files", "ok", "failed"}]
      /\ (dDir' = "none" => Present' = {} /\ dTemp' = {})
  BY <1>0 DEF CacheInv, CacheTypes, NothingInNothing
<1>2. dTwins' \in BOOLEAN /\ dDir' \in {"none", "ok", "loose"} /\ xRounds' \in [Clearer -> 0..ClearMaxRounds]
  <2> DEFINE Right == dTwins' \in BOOLEAN /\ dDir' \in {"none", "ok", "loose"} /\ xRounds' \in [Clearer -> 0..ClearMaxRounds]
  <2> USE DEF DiscoveryTypeOK
  <2>1. CASE DiscoveryStart
    BY <2>1 DEF DiscoveryStart, DiscoveryBegin
  <2>2. ASSUME NEW l \in Loader, LoaderStep(l) PROVE Right
    BY <2>2 DEF LoaderStep, LoadDir, LoadOwner, LoadEntry, LoadRead, LoadRemove, Fetch, StoreDir,
       StoreTemp, StorePersist, LoaderKilled, clearVars, Disk
  <2>3. ASSUME NEW x \in Clearer, ClearPlan(x) \/ ClearDocument(x) \/ ClearTemp(x) PROVE Right
    BY <2>3 DEF ClearPlan, ClearDocument, ClearTemp, Disk
  <2>4. ASSUME NEW x \in Clearer, ClearDir(x) PROVE Right
    BY <2>4, DiscoveryAssumption DEF ClearDir
  <2>5. CASE UNCHANGED discoveryVars
    BY <2>5 DEF discoveryVars, clearVars
  <2> QED
    BY <2>1, <2>2, <2>3, <2>4, <2>5 DEF DiscoveryNext, LoaderStep
<1> QED
  BY <1>1, <1>2 DEF DiscoveryTypeOK, LoadStep

\* What was read, and what was asked.
EditMore ==
  /\ eStep \notin {"off", "over"} => eAsk \in EditAsk
  /\ eStep = "lookup" => eAsk.op = "move"

LEMMA EditTyped ==
  EditInv /\ FolderInv /\ EditTypeOK /\ EditMore /\ [EditNext]_editVars => EditTypeOK' /\ EditMore'
<1> SUFFICES ASSUME EditInv, FolderInv, EditTypeOK, EditMore, [EditNext]_editVars PROVE EditTypeOK' /\ EditMore'
  OBVIOUS
<1>0. EditInv' /\ FolderInv'
  BY EditStep, FolderStep
<1>1. eGuests' \in GuestList /\ eHides' \in BOOLEAN
  BY <1>0 DEF EditInv
<1> USE EndingIs DEF EditTypeOK, EditMore, EditEnds, remote
<1>2. ASSUME NEW ask \in EditAsk, NEW guests \in GuestList, NEW hides \in BOOLEAN,
             NEW parents \in (SUBSET Folder) \ {{}}, EditBegin(ask, guests, hides, parents)
      PROVE  EditTypeOK' /\ EditMore'
  BY <1>2 DEF EditBegin
<1>3. ASSUME EditRead PROVE EditTypeOK' /\ EditMore'
  BY <1>3 DEF EditRead
<1>4. ASSUME EditFails PROVE EditTypeOK' /\ EditMore'
  BY <1>4 DEF EditFails
<1>5. ASSUME UpdateGuests PROVE EditTypeOK' /\ EditMore'
  BY <1>1, <1>5 DEF UpdateGuests, Written
<1>6. ASSUME Rsvp PROVE EditTypeOK' /\ EditMore'
  BY <1>1, <1>6 DEF Rsvp, Written
<1>7. ASSUME LookUp PROVE EditTypeOK' /\ EditMore'
  <2>1. eDest' \in Folder
    BY <1>7, EditAssumption DEF LookUp, RealId, Resolved, FolderInv, EditAsk, EditInv
  <2> QED BY <1>7, <2>1 DEF LookUp
<1>8. ASSUME Move PROVE EditTypeOK' /\ EditMore'
  <2>1. Resolved(eDest) \in Folder
    BY <1>8, EditAssumption DEF Move, Resolved, FolderInv
  <2> QED BY <1>8, <2>1 DEF Move
<1>9. ASSUME NEW g \in Guest, NEW response \in Response \cup {NoValue}, OthersEdit(g, response)
      PROVE  EditTypeOK' /\ EditMore'
  BY <1>1, <1>9 DEF OthersEdit
<1>10. ASSUME NEW folder \in Folder, OthersMove(folder) PROVE EditTypeOK' /\ EditMore'
  BY <1>10 DEF OthersMove
<1>11. ASSUME UNCHANGED editVars PROVE EditTypeOK' /\ EditMore'
  BY <1>11 DEF editVars
<1> QED
  BY <1>2, <1>3, <1>4, <1>5, <1>6, <1>7, <1>8, <1>9, <1>10, <1>11 DEF EditNext

LEMMA KitIs == ASSUME NEW kit \in Kit PROVE kit \in Seq({"topic", "subscription"}) /\ kit \in Seq(Resource)
<1> DEFINE R == {"topic", "subscription"}
<1>1. "topic" \in R /\ "subscription" \in R
  OBVIOUS
<1> HIDE DEF R
<1>2. << >> \in Seq(R) /\ <<"topic">> \in Seq(R) /\ <<"topic", "subscription">> \in Seq(R)
      /\ <<"subscription">> \in Seq(R) /\ <<"subscription", "topic">> \in Seq(R)
  BY <1>1
<1>3. kit \in Seq(R)
  BY <1>2 DEF Kit
<1> QED
  BY <1>3 DEF R, Resource

LEMMA SetupTyped == SetupInv /\ SetupTypeOK /\ [SetupNext]_setupVars => SetupTypeOK'
<1> SUFFICES ASSUME SetupInv, SetupTypeOK, [SetupNext]_setupVars PROVE SetupTypeOK'
  OBVIOUS
<1>0. SetupTypes'
  BY SetupInvStep DEF SetupInv
<1>k. sCreated' \in Seq({"topic", "subscription"}) /\ sDelete' \in Seq(Resource)
  BY <1>0, KitIs DEF SetupTypes
<1>s. sStep' \in {"off", "topic", "policy", "subscription", "feed", "stream", "rollBack", "cleanUp", "over"}
  BY <1>0 DEF SetupTypes
<1>h. ASSUME sDelete # << >> PROVE Head(sDelete) \in Resource
  BY <1>h DEF SetupTypeOK
<1> USE EndingIs DEF SetupTypeOK, SetupFails, Resource
<1>1. ASSUME NEW s \in Setup, SetupStart(s) PROVE SetupTypeOK'
  BY <1>k, <1>s, <1>1 DEF SetupStart
<1>2. ASSUME SetupNoProfile PROVE SetupTypeOK'
  BY <1>k, <1>s, <1>2 DEF SetupNoProfile
<1>3. ASSUME NEW resource \in {"topic", "subscription"}, NEW next, SetupCreate(resource, next) PROVE SetupTypeOK'
  BY <1>k, <1>s, <1>3 DEF SetupCreate
<1>4. ASSUME SetupPolicy PROVE SetupTypeOK'
  BY <1>k, <1>s, <1>4 DEF SetupPolicy
<1>5. ASSUME NEW answer \in FeedAnswer, SetupFeed(answer) PROVE SetupTypeOK'
  BY <1>k, <1>s, <1>5 DEF SetupFeed
<1>6. ASSUME NEW e \in {NoValue, "network", "retryable", "api", "other"}, SetupStreamEnds(e) PROVE SetupTypeOK'
  BY <1>k, <1>s, <1>6 DEF SetupStreamEnds
<1>7. ASSUME SetupDelete PROVE SetupTypeOK'
  BY <1>h, <1>k, <1>s, <1>7 DEF SetupDelete
<1>8. ASSUME SetupDeleted PROVE SetupTypeOK'
  BY <1>k, <1>s, <1>8 DEF SetupDeleted
<1>9. ASSUME UNCHANGED setupVars PROVE SetupTypeOK'
  BY <1>9 DEF setupVars
<1> HIDE DEF SetupTypeOK
<1> QED
  BY <1>1, <1>2, <1>3, <1>4, <1>5, <1>6, <1>7, <1>8, <1>9 DEF SetupNext, SetupBegin, SetupStepTaken

LEMMA PartialIs == ASSUME NEW statuses PROVE PartialFailure(statuses) \in {"ok", "api", "retryable"}
  BY DEF PartialFailure

LEMMA OutcomeIs == RenewInv => RenewOutcome \in Ending
<1> SUFFICES ASSUME RenewInv PROVE RenewOutcome \in Ending
  OBVIOUS
<1>1. CASE rMode.named /\ rErrors # {}
  <2>1. RenewOutcome = CHOOSE e \in rErrors : TRUE
    BY <1>1 DEF RenewOutcome
  <2>2. (CHOOSE e \in rErrors : TRUE) \in rErrors
    BY <1>1
  <2>3. rErrors \subseteq RequestError
    BY DEF RenewInv, RenewTypes
  <2>4. RequestError \subseteq Ending
    BY EndingIs DEF RequestError
  <2> QED
    BY <2>1, <2>2, <2>3, <2>4
<1>2. CASE ~(rMode.named /\ rErrors # {})
  <2>1. RenewOutcome = PartialFailure({StatusOf(e) : e \in rErrors})
    BY <1>2 DEF RenewOutcome
  <2> QED
    BY <2>1, PartialIs, EndingIs
<1> QED
  BY <1>1, <1>2

LEMMA RenewTyped == RenewInv /\ RenewTypeOK /\ [RenewNext]_renewVars => RenewTypeOK'
<1> SUFFICES ASSUME RenewInv, RenewTypeOK, [RenewNext]_renewVars PROVE RenewTypeOK'
  OBVIOUS
<1> USE RenewalAssumption, EndingIs DEF RenewTypeOK, RunEnds, rList, rReport, rGoogle, rSetting
<1>0. RenewOutcome \in Ending
  BY OutcomeIs
<1>1. ASSUME NEW mode \in [named : BOOLEAN, reactivate : BOOLEAN], NEW clean \in BOOLEAN, RenewBegin(mode, clean)
      PROVE RenewTypeOK'
  BY <1>1 DEF RenewBegin
<1>2. ASSUME TimePasses PROVE RenewTypeOK'
  BY <1>2 DEF TimePasses, Alive
<1>3. ASSUME NEW s \in Subscription, Suspends(s) PROVE RenewTypeOK'
  BY <1>3 DEF Suspends
<1>4. ASSUME NEW s \in Subscription, RenewRun(s) PROVE RenewTypeOK'
  BY <1>4 DEF RenewRun
<1>5. ASSUME NEW s \in Subscription, RenewOne(s) PROVE RenewTypeOK'
  <2>1. /\ rLeft' \in [Subscription -> 0..Lifetime] /\ rSuspended' \subseteq Subscription /\ rFresh' \subseteq Subscription
        /\ rRenewed' \subseteq Subscription /\ rFailed' \subseteq Subscription /\ rErrors' \subseteq RequestError
    BY <1>5 DEF RenewOne, Renewed, Refresh, Fails
  <2> QED BY <1>5, <2>1 DEF RenewOne
<1>6. ASSUME NEW page \in SUBSET (Alive \ rListed), NEW token \in 0..ListTokens, ListPage(page, token) PROVE RenewTypeOK'
  <2>1. rListed' \subseteq Subscription
    BY <1>6 DEF ListPage, Alive
  <2>2. Selected(rListed') \subseteq Subscription
    BY <2>1 DEF Selected
  <2>3. CASE token = 0
    BY <1>6, <2>1, <2>2, <2>3 DEF ListPage
  <2>4. CASE token # 0 /\ token \in rFollowed
    BY <1>6, <2>1, <2>4 DEF ListPage
  <2>5. CASE token # 0 /\ token \notin rFollowed
    <3>1. token \in 1..ListTokens
      BY <2>5
    <3> QED
      BY <1>6, <2>1, <2>5, <3>1 DEF ListPage
  <2> QED BY <2>3, <2>4, <2>5
<1>7. ASSUME ListFails PROVE RenewTypeOK'
  BY <1>7 DEF ListFails, RequestError
<1>8. ASSUME RenewDone PROVE RenewTypeOK'
  BY <1>0, <1>8 DEF RenewDone
<1>9. ASSUME UNCHANGED renewVars PROVE RenewTypeOK'
  BY <1>9 DEF renewVars
<1> HIDE DEF RenewTypeOK
<1> QED
  BY <1>1, <1>2, <1>3, <1>4, <1>5, <1>6, <1>7, <1>8, <1>9 DEF RenewNext, Timer, Listing

\* The attempts left, and the matched parts.
BatchRest ==
  /\ bGate \in Gate \cup {NoValue} /\ bSafe \subseteq BatchCall /\ bScreen \in BOOLEAN
  /\ bAttempt \in 0..BatchTries /\ (bStep = "ready" => bAttempt < BatchTries) /\ (bStep \in Unsent => bAttempt = 0)
  /\ bParts \in Seq(Part) /\ bAt \in 0..Len(bParts)
  /\ bEnd \in Ending \cup {NoValue}

LEMMA BatchTyped == BatchInv /\ BatchRest => BatchTypeOK
  BY DEF BatchInv, BatchTypes, BatchRest, BatchTypeOK, Unsent, BatchFate, CallStatus

LEMMA BatchRestStep == BatchInv /\ BatchRest /\ [BatchNext]_batchVars => BatchRest'
<1> SUFFICES ASSUME BatchInv, BatchRest, [BatchNext]_batchVars PROVE BatchRest'
  OBVIOUS
<1>0. BatchTypes'
  BY BatchTypesStep
<1> USE BatchAssumption, EndingIs DEF BatchRest, Unsent
<1>1. ASSUME NEW impacts \in SUBSET Impact, NEW inv \in Invocation, NEW safe \in SUBSET BatchCall,
             NEW screen \in BOOLEAN, BatchStart(impacts, inv, safe, screen)
      PROVE  BatchRest'
  BY <1>1 DEF BatchStart, Gate
<1>2. ASSUME NEW impact \in {"destructive", "outbound"}, NEW next \in {"outbound", "credentials"}, BatchGate(impact, next)
      PROVE  BatchRest'
  <2>1. bGate' \in Gate \cup {NoValue}
    BY <1>0, <1>2 DEF BatchTypes, BatchGate, BatchRefused
  <2> QED
    BY <1>2, <2>1 DEF BatchGate, BatchRefused, bSetting
<1>3. CASE BatchCredentials
  BY <1>3 DEF BatchCredentials, BatchRefused, bSetting
<1>4. CASE BatchSend
  BY <1>4 DEF BatchSend, bSetting, bResult
<1>5. CASE BatchUnreachable
  BY <1>5 DEF BatchUnreachable, BatchLost, BatchStop, bSetting, bResult
<1>6. ASSUME NEW ending \in {"network", "retryable"}, BatchNoAnswer(ending) PROVE BatchRest'
  BY <1>6 DEF BatchNoAnswer, BatchLost, BatchStop, BatchMayResend, bSetting, bResult
<1>7. CASE BatchRejected
  BY <1>7 DEF BatchRejected, BatchLost, BatchStop, bSetting
<1>8. ASSUME NEW parts \in BatchAnswers, BatchAnswer(parts) PROVE BatchRest'
  <2>1. CASE bParts' \in InCallOrder(parts) /\ bStep' = "results" /\ bEnd' = bEnd
    <3>1. BatchTypes /\ bAt = 0 /\ \A c \in Group : bVerdict[c] # NoValue
      BY <1>8 DEF BatchInv, FateInv, BatchAnswer
    <3>2. DOMAIN bParts' = 1..Cardinality(Group) /\ Cardinality(Group) \in Nat
      <4>1. Cardinality(Group) \in Nat
        BY <3>1, GroupIs DEF BatchTypes
      <4> QED
        BY <2>1, <4>1 DEF InCallOrder
    <3>3. bParts' \in [1..Cardinality(Group) -> Part]
      <4>1. Len(bParts') = Cardinality(Group) /\ \A k \in 1..Len(bParts') : bParts'[k] \in Part
        BY <1>8, <2>1, <3>1, Matched
      <4>2. bParts' = [k \in DOMAIN bParts' |-> bParts'[k]]
        BY <2>1 DEF InCallOrder
      <4> QED
        BY <3>2, <4>1, <4>2
    <3>4. bParts' \in Seq(Part)
      BY <3>2, <3>3, SequenceIs
    <3> QED
      BY <1>8, <2>1, <3>1, <3>4 DEF BatchAnswer, bSetting
  <2>2. CASE BatchLost("other") /\ UNCHANGED bParts
    BY <1>8, <2>2 DEF BatchAnswer, BatchLost, BatchStop, bSetting
  <2> QED
    BY <1>8, <2>1, <2>2 DEF BatchAnswer
<1>9. CASE BatchPrint
  BY <1>9 DEF BatchPrint, BatchStop, bSetting
<1>10. CASE BatchWithhold
  BY <1>10 DEF BatchWithhold, bSetting
<1>11. CASE BatchGroupDone
  <2>1. bEnd' \in Ending \cup {NoValue}
    BY <1>11, PartialIs DEF BatchGroupDone, BatchStop
  <2> QED
    BY <1>11, <2>1 DEF BatchGroupDone, BatchStop, bSetting
<1>12. CASE BatchServing
  BY <1>12 DEF BatchServing, BatchServe, BatchServeLate, bSetting
<1>13. CASE UNCHANGED batchVars
  BY <1>13 DEF batchVars, bSetting
<1> HIDE BatchAssumption, EndingIs DEF BatchRest, Unsent
<1>14. CASE BatchBegin
  BY <1>1, <1>14 DEF BatchBegin
<1>15. CASE BatchClient
  BY <1>2, <1>3, <1>4, <1>5, <1>6, <1>7, <1>8, <1>9, <1>10, <1>11, <1>15 DEF BatchClient
<1> QED
  BY <1>12, <1>13, <1>14, <1>15 DEF BatchNext

MethodRest == mPolls \in 0..MaxPolls /\ mSaid \in {"nothing", "applied", "operation"} /\ mEnd \in Ending \cup {NoValue}

LEMMA MethodTyped == MethodInv /\ MethodRest => MethodTypeOK
  BY DEF MethodInv, MethodTypes, MethodRest, MethodTypeOK

LEMMA MethodRestStep == MethodRest /\ [MethodNext]_methodVars => MethodRest'
<1> SUFFICES ASSUME MethodRest, [MethodNext]_methodVars PROVE MethodRest'
  OBVIOUS
<1> USE MethodAssumption, EndingIs DEF MethodRest
<1>e. ASSUME NEW ending \in Ending, NEW says \in {"nothing", "applied", "operation"}, End(ending, says),
             mPolls' = mPolls
      PROVE  MethodRest'
  BY <1>e DEF End
<1>d. ASSUME NEW kind, Deliver(kind), mPolls' = mPolls PROVE MethodRest'
  BY <1>d DEF Deliver, Blocking, End
<1>0. Applied \in {"nothing", "applied", "operation"}
  BY DEF Applied
<1>1. ASSUME NEW s, NEW class, NEW ask, NEW inv, MethodStart(s, class, ask, inv) PROVE MethodRest'
  BY <1>1 DEF MethodStart, End
<1>2. CASE MethodGate
  BY <1>2, <1>e DEF MethodGate
<1>3. CASE MethodCredentials
  BY <1>3, <1>e DEF MethodCredentials
<1>4. ASSUME NEW ending \in {"network", "retryable", "api", "other"}, NEW done, MethodFails(ending, done) PROVE MethodRest'
  BY <1>4, <1>e DEF MethodFails
<1>5. ASSUME NEW kind, MethodOtherAnswer(kind) PROVE MethodRest'
  BY <1>5, <1>d, <1>e DEF MethodOtherAnswer
<1>6. CASE MethodMedia
  BY <1>6, <1>d DEF MethodMedia
<1>7. ASSUME NEW value, NEW next, MethodAnswer(value, next) PROVE MethodRest'
  BY <1>7 DEF MethodAnswer
<1>8. CASE MethodPoll
  BY <1>8, <1>e DEF MethodPoll
<1>9. CASE MethodFetchResult
  BY <1>9, <1>d, <1>e DEF MethodFetchResult
<1>10. CASE MethodScreen
  BY <1>0, <1>10, <1>e DEF MethodScreen
<1>11. CASE MethodOutput
  BY <1>0, <1>11, <1>e DEF MethodOutput
<1>12. CASE MethodPage
  BY <1>12, <1>e DEF MethodPage
<1>13. CASE UNCHANGED methodVars
  BY <1>13 DEF methodVars
<1> QED
  BY <1>1, <1>2, <1>3, <1>4, <1>5, <1>6, <1>7, <1>8, <1>9, <1>10, <1>11, <1>12, <1>13
     DEF MethodNext, MethodBegin, MethodStep

LEMMA ScriptTyped ==
  ScriptTypeOK /\ (cStep = "plan" => cFetched \subseteq ScriptFile) /\ [ScriptNext]_scriptVars
    => ScriptTypeOK' /\ (cStep' = "plan" => cFetched' \subseteq ScriptFile)
<1> DEFINE Pulled == cStep = "plan" => cFetched \subseteq ScriptFile
<1> SUFFICES ASSUME ScriptTypeOK, Pulled, [ScriptNext]_scriptVars PROVE ScriptTypeOK' /\ Pulled'
  OBVIOUS
<1> USE ScriptAssumption, EndingIs DEF ScriptTypeOK, ScriptEnds
<1>f. ScriptFile \subseteq DiskEntry
  BY DEF ScriptFile, DiskEntry
<1>1. ASSUME NEW folds \in BOOLEAN, NEW names \in SUBSET ScriptName, NEW disk \in SUBSET DiskEntry, LegalFiles(disk, folds),
             NEW project, project = {[name |-> n, content |-> "project"] : n \in names \cup {Manifest}},
             ScriptBegin(folds, project, disk)
      PROVE  ScriptTypeOK' /\ Pulled'
  <2>1. project \subseteq ScriptFile
    BY <1>1 DEF ScriptFile, ScriptName, Content
  <2> QED
    BY <1>1, <2>1 DEF ScriptBegin
<1>2. CASE UserEdits
  <2>1. PICK e \in cDisk : cDisk' = (cDisk \ {e}) \cup {[e EXCEPT !.content = "edited"]}
    BY <1>2 DEF UserEdits
  <2> DEFINE u == [e EXCEPT !.content = "edited"]
  <2>2. u \in DiskEntry /\ u.name = e.name
    BY <2>1 DEF DiskEntry, Content
  <2> HIDE DEF u
  <2>3. cDisk' \subseteq DiskEntry /\ LegalFiles(cDisk', cFolds)
    BY <2>1, <2>2 DEF LegalFiles, u
  <2>4. /\ cStep' = "ready" /\ cMirror' = FALSE
        /\ UNCHANGED <<cFolds, cProject, cOverwrite, cFetched, cPlanned, cBefore, cPushed, cEnd>>
    BY <1>2 DEF UserEdits
  <2>5. cEdits' \in 0..Edits
    BY <1>2 DEF UserEdits
  <2> QED
    BY <2>3, <2>4, <2>5
<1>3. ASSUME NEW overwrite \in BOOLEAN, Pull(overwrite) PROVE ScriptTypeOK' /\ Pulled'
  BY <1>3 DEF Pull
<1>4. CASE PlanPull
  BY <1>4 DEF PlanPull
<1>5. ASSUME NEW f \in ScriptFile, WriteFile(f) PROVE ScriptTypeOK' /\ Pulled'
  <2>1. cDisk' \subseteq DiskEntry /\ LegalFiles(cDisk', cFolds)
    BY <1>f, <1>5 DEF WriteFile, LegalFiles, SameFile
  <2> QED
    BY <1>5, <2>1 DEF WriteFile
<1>6. CASE WriteFails
  BY <1>6 DEF WriteFails
<1>7. CASE PullDone
  <2>1. cMirror' \in BOOLEAN
    BY <1>7 DEF PullDone
  <2> QED
    BY <1>7, <2>1 DEF PullDone
<1>8. CASE Collect
  <2>1. \A e \in DiskEntry : e.content # Link => e \in ScriptFile
    BY DEF DiskEntry, ScriptFile
  <2>2. cPushed' \subseteq ScriptFile
    BY <1>8, <2>1 DEF Collect
  <2> QED
    BY <1>8, <2>2 DEF Collect
<1>9. CASE Push
  BY <1>9 DEF Push
<1>10. CASE UNCHANGED scriptVars
  BY <1>10 DEF scriptVars
<1> HIDE DEF ScriptTypeOK, Pulled
<1> QED
  BY <1>1, <1>2, <1>3, <1>4, <1>5, <1>6, <1>7, <1>8, <1>9, <1>10 DEF ScriptNext

\* No calendar is both read and still to be read.
ReadsApart == IsFiniteSet(qReading) /\ qWaiting \cap qEvents = {}

LEMMA CalendarTyped ==
  CalendarInv /\ CalendarTypeOK /\ ReadsApart /\ [CalendarNext]_calendarVars => CalendarTypeOK' /\ ReadsApart'
<1> SUFFICES ASSUME CalendarInv, CalendarTypeOK, ReadsApart, [CalendarNext]_calendarVars
             PROVE  CalendarTypeOK' /\ ReadsApart'
  OBVIOUS
<1>0. IsFiniteSet({}) /\ Cardinality({}) = 0 /\ MaxReads \in Nat
  BY CalendarAssumption, FS_EmptySet
<1>s. qSlots' # NoValue => qSlots' \subseteq Interval
  BY CalendarInvStep DEF CalendarInv, SlotsRight
<1> USE EndingIs DEF CalendarTypeOK, ReadsApart, CalendarEnds
<1>1. ASSUME NEW listed, NEW asked \in SUBSET Calendar, NEW named \in (SUBSET Calendar) \cup {NoValue},
             AgendaBegin(listed, asked, named)
      PROVE  CalendarTypeOK' /\ ReadsApart'
  BY <1>s, <1>1 DEF AgendaBegin
<1>2. ASSUME NEW answers, NEW query, FreeBusyBegin(answers, query) PROVE CalendarTypeOK' /\ ReadsApart'
  BY <1>s, <1>2 DEF FreeBusyBegin
<1>3. CASE AgendaList
  BY <1>0, <1>s, <1>3 DEF AgendaList, Wanted, CalendarInv
<1>4. ASSUME NEW c \in Calendar, AgendaAsk(c) PROVE CalendarTypeOK' /\ ReadsApart'
  <2>1. /\ IsFiniteSet(qReading \cup {c}) /\ Cardinality(qReading) \in Nat
        /\ Cardinality(qReading \cup {c}) \in {Cardinality(qReading), Cardinality(qReading) + 1}
    BY FS_AddElement, FS_CardinalityType
  <2>2. Cardinality(qReading') <= MaxReads
    BY <1>0, <1>4, <2>1 DEF AgendaAsk
  <2>3. qWaiting' \subseteq Calendar /\ qReading' \subseteq Calendar \ (qWaiting' \cup qEvents)
    BY <1>4 DEF AgendaAsk
  <2> QED
    BY <1>s, <1>4, <2>1, <2>2, <2>3 DEF AgendaAsk
<1>5. ASSUME NEW c \in Calendar, AgendaAnswered(c) PROVE CalendarTypeOK' /\ ReadsApart'
  <2>1. /\ IsFiniteSet(qReading \ {c}) /\ Cardinality(qReading) \in Nat
        /\ Cardinality(qReading \ {c}) = Cardinality(qReading) - 1
    BY <1>5, FS_RemoveElement, FS_CardinalityType DEF AgendaAnswered
  <2>2. Cardinality(qReading') <= MaxReads
    BY <1>0, <1>5, <2>1 DEF AgendaAnswered
  <2> QED
    BY <1>s, <1>5, <2>1, <2>2 DEF AgendaAnswered
<1>6. ASSUME NEW c \in Calendar, AgendaFailed(c) PROVE CalendarTypeOK' /\ ReadsApart'
  BY <1>0, <1>s, <1>6 DEF AgendaFailed
<1>7. CASE AgendaDone
  BY <1>s, <1>7 DEF AgendaDone
<1>8. CASE FreeBusyAnswered
  <2>1. qEnd' \in Ending
    BY <1>8 DEF FreeBusyAnswered, FreeBusyVerdict
  <2> QED
    BY <1>s, <1>8, <2>1 DEF FreeBusyAnswered
<1>9. CASE UNCHANGED calendarVars
  BY <1>9 DEF calendarVars
<1> HIDE DEF CalendarTypeOK, ReadsApart
<1> QED
  BY <1>1, <1>2, <1>3, <1>4, <1>5, <1>6, <1>7, <1>8, <1>9 DEF CalendarNext

LEMMA ReplyTyped ==
  ReplyTypeOK /\ (aStep = "fetch" => aFlags \in ReplyFlags) /\ [ReplyNext]_replyVars
    => ReplyTypeOK' /\ (aStep' = "fetch" => aFlags' \in ReplyFlags)
<1> SUFFICES ASSUME ReplyTypeOK, aStep = "fetch" => aFlags \in ReplyFlags, [ReplyNext]_replyVars
             PROVE  ReplyTypeOK' /\ (aStep' = "fetch" => aFlags' \in ReplyFlags)
  OBVIOUS
<1>1. CASE ReplyBegin
  BY <1>1 DEF ReplyBegin, ReplyTypeOK
<1>2. CASE ReplyDeliver
  <2> DEFINE o == aOriginal'
             sent == Recipients(o, aFlags)
  <2>1. /\ o \in Originals /\ aFlags \in ReplyFlags /\ aStep' = "over" /\ aFlags' = aFlags
        /\ \/ aEnd' = "validation" /\ aSent' = NoValue
           \/ aEnd' = "ok" /\ aSent' = sent /\ sent.to # {}
    BY <1>2 DEF ReplyDeliver
  <2>2. /\ o.from \in Address /\ o.replyTo \subseteq Address /\ o.to \subseteq Address /\ o.cc \subseteq Address
        /\ aFlags.to \subseteq Address /\ aFlags.cc \subseteq Address /\ aFlags.bcc \subseteq Address
    BY <2>1 DEF Originals, ReplyFlags
  <2> HIDE DEF o
  <2>3. /\ sent = [to |-> sent.to, cc |-> sent.cc, bcc |-> sent.bcc]
        /\ sent.to \subseteq Address /\ sent.cc \subseteq Address /\ sent.bcc \subseteq Address
    <3>1. AllCandidates(o) \subseteq Address /\ PlainTo(o) \subseteq Address /\ AllCc(o, aFlags) \subseteq Address
      BY <2>2 DEF AllCandidates, PlainTo, AllCc, ReplyAddress
    <3>2. AllTo(o, aFlags) \subseteq Address
      BY <3>1 DEF AllTo
    <3> QED
      BY <2>2, <3>1, <3>2 DEF Recipients, Dedup
  <2> QED
    BY <2>1, <2>3, EndingIs DEF ReplyTypeOK, o
<1>3. CASE UNCHANGED replyVars
  BY <1>3 DEF replyVars, ReplyTypeOK
<1> QED
  BY <1>1, <1>2, <1>3 DEF ReplyNext

ListRest ==
  /\ nQuery \in ListQuery \cup {NoValue} /\ Len(nPlaces) <= ListTurns /\ nNext \in 0..Len(nPlaces)
  /\ nCut \in BOOLEAN /\ nEnd \in Ending \cup {NoValue}

LEMMA ListTyped == ListInv /\ ListRest => ListTypeOK
  BY DEF ListInv, ListRest, ListGoing, ListCounted, ListTypeOK

LEMMA ListRestStep == ListInv /\ ListRest /\ [ListNext]_listVars => ListRest'
<1> SUFFICES ASSUME ListInv, ListRest, [ListNext]_listVars PROVE ListRest'
  OBVIOUS
<1> USE ListingAssumption, EndingIs DEF ListRest, ListEnds
<1>1. ASSUME NEW query \in ListQuery, ListBegin(query) PROVE ListRest'
  <2>1. Len(nPlaces') \in {0, 1} /\ nNext = 0
    BY <1>1 DEF ListBegin, ListInv
  <2> QED
    BY <1>1, <2>1 DEF ListBegin
<1>2. ASSUME NEW to \in 0..Entries, NEW next \in 0..ListTurns, Answered(to, next)
      PROVE  /\ nQuery' \in ListQuery \cup {NoValue} /\ Len(nPlaces') <= ListTurns
             /\ next \in 0..Len(nPlaces') /\ nNext \in 0..Len(nPlaces')
  <2>1. nPlaces \in Seq(0..Entries) /\ next \in 0..(Len(nPlaces) + 1)
    BY <1>2 DEF Answered, TokensAfter, ListInv, ListGoing
  <2>2. CASE next > Len(nPlaces)
    <3>1. nPlaces' = Append(nPlaces, to) /\ next = Len(nPlaces) + 1 /\ UNCHANGED nQuery
      BY <1>2, <2>1, <2>2 DEF Answered
    <3>2. Len(nPlaces') = Len(nPlaces) + 1 /\ Len(nPlaces) \in Nat
      BY <2>1, <3>1
    <3> QED BY <3>1, <3>2
  <2>3. CASE next <= Len(nPlaces)
    BY <1>2, <2>1, <2>3 DEF Answered
  <2> QED BY <2>1, <2>2, <2>3
<1>t. ASSUME NEW next, Turn(next) PROVE nEnd' \in Ending \cup {NoValue}
  BY <1>t DEF Turn
<1>3. ASSUME NEW to \in 0..Entries, NEW next \in 0..ListTurns, LimitPage(to, next) PROVE ListRest'
  <2>1. Answered(to, next)
    BY <1>3 DEF LimitPage
  <2>2. nNext' \in {nNext, 0, next} /\ nCut' \in BOOLEAN /\ nEnd' \in Ending \cup {NoValue}
    BY <1>3, <1>t DEF LimitPage
  <2>3. Len(nPlaces') \in Nat
    BY <1>2, <2>1, <2>2
  <2> QED BY <1>2, <2>1, <2>2, <2>3
<1>4. ASSUME NEW to \in 0..Entries, NEW next \in 0..ListTurns, SearchPage(to, next) PROVE ListRest'
  <2>1. Answered(to, next)
    BY <1>4 DEF SearchPage
  <2>2. nNext' \in {nNext, next} /\ nCut' = nCut /\ nEnd' \in Ending \cup {NoValue}
    BY <1>4 DEF SearchPage
  <2> QED BY <1>2, <2>1, <2>2
<1>5. ASSUME NEW to \in 0..Entries, NEW next \in 0..ListTurns, WholePage(to, next) \/ FirstPage(to, next) PROVE ListRest'
  <2>1. Answered(to, next)
    BY <1>5 DEF WholePage, FirstPage
  <2>2. nNext' = nNext /\ nCut' = nCut /\ nEnd' \in Ending \cup {NoValue}
    BY <1>5, <1>t DEF WholePage, FirstPage
  <2> QED BY <1>2, <2>1, <2>2
<1>6. CASE PageFails \/ FetchFails \/ SearchDone \/ \E i \in Slot : MessageFetched(i)
  BY <1>6 DEF PageFails, FetchFails, SearchDone, MessageFetched
<1>7. CASE UNCHANGED listVars
  BY <1>7 DEF listVars
<1> QED
  BY <1>1, <1>3, <1>4, <1>5, <1>6, <1>7 DEF ListNext

PartsRest ==
  /\ DOMAIN pParts = 1..Len(pParts) /\ Len(pParts) <= MaxParts /\ pOverwrite \in BOOLEAN /\ pFolding \in BOOLEAN /\ pConflict \in BOOLEAN
  /\ Len(pPlan) <= Len(pParts)
  /\ \A e \in DOMAIN pDisk : pDisk[e] \in [what : {"part", "user", "dir"}, part : 0..pSaved]
  /\ pEnd \in Ending \cup {NoValue}

LEMMA PartsTyped == PartsInv /\ PartsRest => PartsTypeOK
<1> SUFFICES ASSUME PartsInv, PartsRest PROVE PartsTypeOK
  OBVIOUS
<1>1. /\ \A i \in DOMAIN pParts : pParts[i] \in PartName
      /\ Len(pPlan) \in Nat /\ pSaved \in 0..Len(pPlan)
  BY DEF PartsInv, PartsShape, PartsRest
<1> QED
  BY <1>1 DEF PartsInv, PartsShape, PartsRest, PartsTypeOK

LEMMA PartsRestStep == PartsInv /\ PartsRest /\ [PartsNext]_partsVars => PartsRest'
<1> SUFFICES ASSUME PartsInv, PartsRest, [PartsNext]_partsVars PROVE PartsRest'
  OBVIOUS
<1>0. Len(pParts) \in Nat /\ Len(pPlan) \in Nat /\ pSaved \in Nat
  BY DEF PartsInv, PartsShape
<1> USE SavePartsAssumption, EndingIs DEF PartsRest, PartsEnd
<1>1. ASSUME NEW n \in 0..MaxParts, NEW parts \in [1..n -> PartName], NEW overwrite \in BOOLEAN, NEW folding \in BOOLEAN,
             PartsBegin(parts, overwrite, folding)
      PROVE  PartsRest'
  <2>1. Len(parts) = n /\ DOMAIN parts = 1..n /\ n \in Nat /\ Len(pPlan) = 0
    BY <1>1 DEF PartsBegin, PartsInv, PartsShape
  <2> QED
    BY <1>1, <2>1 DEF PartsBegin
<1>2. CASE PlanPart
  <2>1. Len(pPlan) < Len(pParts) /\ Len(pPlan') = Len(pPlan) + 1 /\ UNCHANGED <<pParts, pOverwrite, pFolding, pSaved, pDisk, pAlien>>
    BY <1>2 DEF PlanPart, PartsInv, PartsShape
  <2>2. pConflict' \in BOOLEAN /\ pEnd' \in Ending \cup {NoValue}
    BY <1>2 DEF PlanPart
  <2> QED
    BY <1>0, <2>1, <2>2
<1>3. CASE PlanDone \/ FetchPart \/ CreatePart \/ PartsDone \/ PartsKilled
  <2>1. UNCHANGED <<pParts, pOverwrite, pFolding, pPlan, pConflict, pSaved, pDisk, pAlien>>
    BY <1>3 DEF PlanDone, FetchPart, CreatePart, PartsDone, PartsKilled
  <2>2. pEnd' \in Ending \cup {NoValue}
    BY <1>3 DEF PlanDone, FetchPart, CreatePart, PartsDone, PartsKilled
  <2> QED BY <2>1, <2>2
<1>d. ASSUME NEW name, NEW thing, NEW saved \in Nat, saved >= pSaved,
             thing \in [what : {"part", "user", "dir"}, part : 0..saved], pDisk' = DiskWith(name, thing)
      PROVE  \A e \in DOMAIN pDisk' : pDisk'[e] \in [what : {"part", "user", "dir"}, part : 0..saved]
  <2>1. [what : {"part", "user", "dir"}, part : 0..pSaved] \subseteq [what : {"part", "user", "dir"}, part : 0..saved]
    BY <1>0, <1>d
  <2> HIDE DEF PartsRest
  <2>2. \A e \in DOMAIN pDisk : pDisk[e] \in [what : {"part", "user", "dir"}, part : 0..saved]
    BY <2>1 DEF PartsRest
  <2> QED BY <1>d, <2>2 DEF DiskWith
<1>4. CASE CommitPart
  <2>1. UNCHANGED <<pParts, pOverwrite, pFolding, pPlan, pConflict, pAlien>> /\ pEnd' \in Ending \cup {NoValue}
    BY <1>4 DEF CommitPart
  <2>2. CASE UNCHANGED <<pSaved, pDisk>>
    BY <2>1, <2>2
  <2>3. CASE pDisk' = DiskWith(pPlan[pSaved + 1], Thing("part", pSaved + 1)) /\ pSaved' = pSaved + 1
    <3>1. Thing("part", pSaved + 1) \in [what : {"part", "user", "dir"}, part : 0..(pSaved + 1)]
      BY <1>0 DEF Thing
    <3>2. \A e \in DOMAIN pDisk' : pDisk'[e] \in [what : {"part", "user", "dir"}, part : 0..(pSaved + 1)]
      BY <1>0, <1>d, <2>3, <3>1
    <3> QED BY <2>1, <2>3, <3>2
  <2> QED
    BY <1>4, <2>2, <2>3 DEF CommitPart
<1>5. ASSUME NEW name \in PartName, Intrude(name) PROVE PartsRest'
  <2>1. PICK what \in {"user", "dir"} : pDisk' = DiskWith(name, Thing(what, 0))
    BY <1>5 DEF Intrude
  <2>2. Thing(what, 0) \in [what : {"part", "user", "dir"}, part : 0..pSaved]
    BY <1>0 DEF Thing
  <2>3. \A e \in DOMAIN pDisk' : pDisk'[e] \in [what : {"part", "user", "dir"}, part : 0..pSaved]
    BY <1>0, <1>d, <2>1, <2>2
  <2> QED
    BY <1>5, <2>3 DEF Intrude
<1>6. CASE UNCHANGED partsVars
  BY <1>6 DEF partsVars
<1> QED
  BY <1>1, <1>2, <1>3, <1>4, <1>5, <1>6 DEF PartsNext

\* The last step of every helper is to print.
EndsInPrint(row) == row \in Seq(StepName) /\ Len(row) > 0 /\ row[Len(row)] = "print"

LEMMA AskingEnds == ASSUME NEW row, EndsInPrint(row) PROVE EndsInPrint(<<"confirm">> \o row)
<1> DEFINE ask == <<"confirm">>
<1>1. ask \in Seq(StepName) /\ Len(ask) = 1 /\ row \in Seq(StepName) /\ Len(row) \in Nat
  BY DEF StepName, EndsInPrint
<1> HIDE DEF ask
<1>2. /\ ask \o row \in Seq(StepName) /\ Len(ask \o row) = Len(ask) + Len(row)
      /\ \A i \in 1..(Len(ask) + Len(row)) : (ask \o row)[i] = IF i <= Len(ask) THEN ask[i] ELSE row[i - Len(ask)]
  BY <1>1, ConcatProperties, Zenon
<1>3. EndsInPrint(ask \o row)
  BY <1>1, <1>2 DEF EndsInPrint
<1> QED
  BY <1>3 DEF ask

LEMMA RowsEnd == \A action \in Action : EndsInPrint(Steps[action])
<1>1. /\ EndsInPrint(SendMail) /\ EndsInPrint(SaveDraft) /\ EndsInPrint(Unsubscribe) /\ EndsInPrint(CreateFilter)
  BY DEF EndsInPrint, StepName, SendMail, SaveDraft, Unsubscribe, CreateFilter
<1>2. /\ EndsInPrint(DeleteFilter) /\ EndsInPrint(ChangeLabels) /\ EndsInPrint(EmailToTask) /\ EndsInPrint(AnnounceFile)
  BY DEF EndsInPrint, StepName, DeleteFilter, ChangeLabels, EmailToTask, AnnounceFile
<1>3. /\ EndsInPrint(PostMessage) /\ EndsInPrint(CreateUser) /\ EndsInPrint(ChangeUser) /\ EndsInPrint(ChangeSheet)
  BY DEF EndsInPrint, StepName, PostMessage, CreateUser, ChangeUser, ChangeSheet
<1>4. /\ EndsInPrint(CreateDocument) /\ EndsInPrint(AppendToDocument) /\ EndsInPrint(AddTask)
      /\ EndsInPrint(CreateMeeting) /\ EndsInPrint(CreateSlides)
  BY DEF EndsInPrint, StepName, CreateDocument, AppendToDocument, AddTask, CreateMeeting, CreateSlides
<1>5. EndsInPrint(InsertEvent) /\ EndsInPrint(DeleteEvent) /\ EndsInPrint(ShareFile)
  BY DEF EndsInPrint, StepName, InsertEvent, DeleteEvent, ShareFile
<1>6. EndsInPrint(ForwardFilter) /\ EndsInPrint(ClearSheet) /\ EndsInPrint(InviteGuests)
  BY <1>1, <1>3, <1>5, AskingEnds DEF ForwardFilter, ClearSheet, InviteGuests
<1> QED
  BY <1>1, <1>2, <1>3, <1>4, <1>5, <1>6 DEF Action, Steps

LEMMA OutboundTyped ==
  OutboundTypeOK /\ OutboundInv /\ [OutboundNext]_outboundVars => OutboundTypeOK'
<1> SUFFICES ASSUME OutboundTypeOK, OutboundInv, [OutboundNext]_outboundVars PROVE OutboundTypeOK'
  OBVIOUS
<1>0. {wDone, wKnown, wAsked, wPrinted, wFlagged, wConfirmed}' \subseteq BOOLEAN
  BY OutboundInvStep DEF OutboundInv
<1> DEFINE Same == wSetting # NoValue /\ UNCHANGED wSetting
           Says == wVerdict' \in {"unasked", "clean", "match", "skipped", "failed"}
                     /\ wSaid' \in {"nothing", "applied"} /\ wEnd' \in Ending \cup {NoValue}
           Moves == wAt' \in 1..Len(Steps[wSetting.action])
<1>e. ASSUME Same, Says, Moves PROVE OutboundTypeOK'
  BY <1>0, <1>e DEF OutboundTypeOK
<1>p. ASSUME NEW task \in StepName \ {"print"}, At(task), wAt' \in {wAt, wAt + 1} PROVE Moves
  <2>1. wSetting \in Setting /\ wAt \in 1..Len(Steps[wSetting.action]) /\ Steps[wSetting.action][wAt] = task
    BY <1>p DEF At, OutboundTypeOK
  <2>2. EndsInPrint(Steps[wSetting.action])
    BY <2>1, RowsEnd DEF Setting
  <2> DEFINE row == Steps[wSetting.action]
  <2>3. Len(row) \in Nat /\ row[Len(row)] = "print" /\ wAt \in 1..Len(row) /\ row[wAt] = task
    BY <2>1, <2>2 DEF EndsInPrint
  <2> HIDE DEF row
  <2>4. wAt # Len(row)
    BY <1>p, <2>3
  <2>5. wAt' \in 1..Len(row)
    BY <1>p, <2>3, <2>4
  <2> QED BY <2>5 DEF row
<1>n. Note \in {"nothing", "applied"}
  BY DEF Note
<1>s. ASSUME NEW says \in {"nothing", "applied"}, wSetting # NoValue, Screening(says) PROVE Says /\ wAt' \in {wAt, wAt + 1}
  BY <1>s, EndingIs DEF Screening, Proceed, Fail, OutboundTypeOK
<1>1. ASSUME NEW action \in Action, NEW mode \in Mode, NEW inv \in Invocation, OutboundBegin(action, mode, inv)
      PROVE  OutboundTypeOK'
  <2>1. wSetting' \in Setting /\ wSetting'.action = action /\ wAt' = 1
        /\ UNCHANGED <<wVerdict, wSaid, wEnd>>
    BY <1>1 DEF OutboundBegin, Setting
  <2>2. 1 \in 1..Len(Steps[action])
    BY RowsEnd DEF EndsInPrint
  <2>3. wAt' \in 1..Len(Steps[wSetting'.action])
    BY <2>1, <2>2
  <2> QED BY <1>0, <2>1, <2>3 DEF OutboundTypeOK
<1>2. CASE OutboundConfirm
  <2>1. Same /\ At("confirm") /\ wAt' \in {wAt, wAt + 1}
    BY <1>2 DEF OutboundConfirm, At, Proceed, Fail
  <2>2. Says
    BY <1>2, EndingIs DEF OutboundConfirm, Proceed, Fail, OutboundTypeOK
  <2> QED BY <1>e, <1>p, <2>1, <2>2 DEF StepName
<1>3. CASE OutboundPlan
  <2>1. Same /\ At("plan") /\ wAt' \in {wAt, wAt + 1}
    BY <1>3 DEF OutboundPlan, At, Proceed, Fail
  <2>2. Says
    BY <1>3, EndingIs DEF OutboundPlan, Proceed, Fail, OutboundTypeOK
  <2> QED BY <1>e, <1>p, <2>1, <2>2 DEF StepName
<1>4. CASE OutboundRead
  <2>1. Same /\ At("read") /\ wAt' \in {wAt, wAt + 1}
    BY <1>4 DEF OutboundRead, At, Proceed, Fail
  <2>2. Says
    BY <1>4, EndingIs DEF OutboundRead, Proceed, Fail, OutboundTypeOK
  <2> QED BY <1>e, <1>p, <2>1, <2>2 DEF StepName
<1>5. CASE OutboundScreen
  <2>1. Same /\ At("screen") /\ Screening("nothing")
    BY <1>5 DEF OutboundScreen, At
  <2> QED BY <1>e, <1>p, <1>s, <2>1 DEF StepName
<1>6. CASE OutboundWrite
  <2>1. Same /\ At("write") /\ wAt' \in {wAt, wAt + 1}
    BY <1>6 DEF OutboundWrite, At, Proceed, Fail
  <2>2. Says
    BY <1>6, EndingIs DEF OutboundWrite, Proceed, Fail, OutboundTypeOK
  <2> QED BY <1>e, <1>p, <2>1, <2>2 DEF StepName
<1>7. CASE OutboundContent
  <2>1. Same /\ At("content") /\ wAt' \in {wAt, wAt + 1}
    BY <1>7 DEF OutboundContent, At, Proceed, Fail
  <2>2. Says
    BY <1>7, EndingIs DEF OutboundContent, Proceed, Fail, OutboundTypeOK
  <2> QED BY <1>e, <1>p, <2>1, <2>2 DEF StepName
<1>8. CASE OutboundWithhold
  <2>1. Same /\ At("withhold") /\ Screening(Note)
    BY <1>8 DEF OutboundWithhold, At
  <2> QED BY <1>e, <1>n, <1>p, <1>s, <2>1 DEF StepName
<1>9. CASE OutboundPrint
  <2>1. Same /\ wAt' = wAt
    BY <1>9 DEF OutboundPrint, At, Fail
  <2>2. Says
    BY <1>9, <1>n, EndingIs DEF OutboundPrint, Fail, OutboundTypeOK
  <2>3. Moves
    BY <2>1 DEF OutboundTypeOK
  <2> QED BY <1>e, <2>1, <2>2, <2>3
<1>10. CASE UNCHANGED outboundVars
  BY <1>10 DEF outboundVars, OutboundTypeOK
<1> QED
  BY <1>1, <1>2, <1>3, <1>4, <1>5, <1>6, <1>7, <1>8, <1>9, <1>10 DEF OutboundNext

LEMMA TableTyped == TableInv => TableTypeOK
<1> SUFFICES ASSUME TableInv PROVE TableTypeOK
  OBVIOUS
<1>1. ASSUME NEW s \in Seq(ColumnKey) PROVE ToSet(s) \subseteq ColumnKey
  BY DEF ToSet
<1> QED
  BY <1>1 DEF TableInv, TableShape, TableTypeOK

WizardRest ==
  /\ zGcloud \in GcloudConfig \cup {NoValue} /\ zAccount \in CloudAccount \cup {NoValue}
  /\ {zProject, zEnabledIn, zTyped, zNote} \subseteq MaybeProject
  /\ zManual \in BOOLEAN /\ zChanged \in BOOLEAN
  /\ zStatus \in SetupStatus \cup {NoValue} /\ zEnd \in Ending \cup {NoValue}

LEMMA WizardTyped == WizardInv /\ WizardRest => WizardTypeOK
  BY DEF WizardInv, WizardTypes, WizardRest, WizardTypeOK

LEMMA WizardRestStep == WizardInv /\ WizardRest /\ [WizardNext]_wizardVars => WizardRest'
<1> SUFFICES ASSUME WizardInv, WizardRest, [WizardNext]_wizardVars PROVE WizardRest'
  OBVIOUS
<1>0. zStage # "off" => zOpts.project \in MaybeProject /\ zGcloud \in GcloudConfig /\ zClient \in SavedClient \cup {NoValue}
  BY DEF WizardInv, WizardTypes
<1>a. \A local \in GcloudConfig : local.account \in CloudAccount \cup {NoValue} /\ local.project \in MaybeProject
  BY DEF GcloudConfig
<1>u. ASSUME NEW project \in CloudProject, UseProject(project), zStage # "off"
      PROVE  zProject' \in MaybeProject /\ zGcloud' \in GcloudConfig
  BY <1>0, <1>u DEF UseProject, GcloudConfig, MaybeProject
<1> USE EndingIs DEF WizardRest, WizardEnds, WizardGoes, BackTo, Cancels, GcloudFails, MaybeProject
<1>1. ASSUME NEW opts, NEW local \in GcloudConfig, NEW client, WizardBegin(opts, local, client) PROVE WizardRest'
  BY <1>1 DEF WizardBegin
<1>2. CASE WizardGcloud
  BY <1>2 DEF WizardGcloud
<1>3. CASE WizardAccount
  <2>1. zGcloud \in GcloudConfig
    BY <1>0, <1>3 DEF WizardAccount
  <2>2. \A account \in CloudAccount : [zGcloud EXCEPT !.account = account] \in GcloudConfig
    BY <2>1 DEF GcloudConfig
  <2> HIDE DEF MaybeProject
  <2>3. zGcloud' \in GcloudConfig \cup {NoValue} /\ zAccount' \in CloudAccount \cup {NoValue} /\ zEnd' \in Ending \cup {NoValue}
    BY <1>3, <1>a, <2>1, <2>2 DEF WizardAccount
  <2> QED BY <1>3, <2>3 DEF WizardAccount
<1>4. CASE WizardProject
  <2>1. zOpts.project \in MaybeProject /\ zGcloud \in GcloudConfig /\ zStage # "off"
    BY <1>0, <1>4 DEF WizardProject
  <2>2. zProject' \in MaybeProject /\ zGcloud' \in GcloudConfig /\ zEnd' \in Ending \cup {NoValue}
    BY <1>4, <1>a, <1>u, <2>1 DEF WizardProject, UseProject
  <2> QED BY <1>4, <2>2 DEF WizardProject
<1>5. CASE WizardCreate
  <2>1. zGcloud \in GcloudConfig /\ zStage # "off"
    BY <1>0, <1>5 DEF WizardCreate
  <2>2. zProject' \in MaybeProject /\ zGcloud' \in GcloudConfig /\ zEnd' \in Ending \cup {NoValue}
        /\ zChanged' \in BOOLEAN
    BY <1>5, <1>u, <2>1 DEF WizardCreate, UseProject
  <2> QED BY <1>5, <2>2 DEF WizardCreate
<1>6. CASE WizardApis
  BY <1>6 DEF WizardApis
<1>7. CASE WizardOauth
  <2>m. zManual' = zManual \/ zManual' = ClientStepsNeeded
    BY <1>7, Zenon DEF WizardOauth
  <2>n. ClientStepsNeeded \in BOOLEAN
    BY Zenon DEF ClientStepsNeeded
  <2>1. zManual' \in BOOLEAN
    BY <2>m, <2>n, Zenon
  <2> QED BY <1>7, <2>1 DEF WizardOauth
<1>8. CASE WizardClientId
  <2>1. Prefill \in MaybeProject
    BY <1>0, <1>8 DEF WizardClientId, Prefill, SavedClient
  <2> QED BY <1>8, <2>1 DEF WizardClientId
<1>9. CASE WizardSecret
  BY <1>9 DEF WizardSecret
<1>10. CASE WizardFinish
  BY <1>10 DEF WizardFinish, SetupStatus
<1>11. CASE UNCHANGED wizardVars
  BY <1>11 DEF wizardVars
<1> QED
  BY <1>1, <1>2, <1>3, <1>4, <1>5, <1>6, <1>7, <1>8, <1>9, <1>10, <1>11 DEF WizardNext

SkillsRest ==
  /\ fFilter \subseteq 0..MaxSkills /\ fPruned \subseteq Skills /\ fUnmanaged \subseteq Skills
  /\ fRuns \in 0..SkillRuns /\ fUser \subseteq Skills /\ fEnd \in Ending \cup {NoValue}

LEMMA SkillsTyped == SkillsInv /\ SkillsRest => SkillsTypeOK
  BY DEF SkillsInv, SkillTypes, SkillsRest, SkillsTypeOK

LEMMA SkillsRestStep == SkillsInv /\ SkillsRest /\ [SkillsNext]_skillVars => SkillsRest'
<1> SUFFICES ASSUME SkillsInv, SkillsRest, [SkillsNext]_skillVars PROVE SkillsRest'
  OBVIOUS
<1>0. fLeft \subseteq Skills /\ DOMAIN fDisk \subseteq Skills
  BY DEF SkillsInv, SkillTypes
<1>l. fLeft # {} => Min(fLeft) \in Skills
  <2>1. fLeft \subseteq Nat
    BY <1>0 DEF Skills
  <2> QED BY <1>0, <2>1, LeastOf
<1> USE EndingIs DEF SkillsRest, SkillsEnd
<1>1. ASSUME NEW product, NEW filter \in {{}, {0, 2}, {1}, {2}}, NEW dry, SkillsBegin(product, filter, dry)
      PROVE  SkillsRest'
  <2>1. filter \subseteq 0..MaxSkills
    <3>1. {0, 1, 2} \subseteq 0..MaxSkills
      BY SkillsAssumption
    <3>2. filter \subseteq {0, 1, 2}
      OBVIOUS
    <3> QED BY <3>1, <3>2
  <2>2. fRuns' \in 0..SkillRuns
    BY <1>1, SkillsAssumption DEF SkillsBegin
  <2>3. /\ fFilter' = filter /\ fPruned' = {} /\ fUnmanaged' = {} /\ fUser' = fUser /\ fEnd' = NoValue
    BY <1>1 DEF SkillsBegin
  <2> QED BY <2>1, <2>2, <2>3
<1>2. CASE Render
  BY <1>2 DEF Render
<1>3. CASE CreateSkill
  BY <1>3 DEF CreateSkill
<1>4. CASE RenameSkill
  BY <1>4 DEF RenameSkill
<1>5. CASE SkillsWritten
  BY <1>5 DEF SkillsWritten
<1>6. CASE ListStale
  BY <1>6 DEF ListStale
<1>7. CASE Prune
  <2>1. /\ UNCHANGED <<fFilter, fRuns, fUser>> /\ Min(fLeft) \in Skills
        /\ fUnmanaged' \subseteq fUnmanaged \cup {Min(fLeft)} /\ fPruned' \subseteq fPruned \cup {Min(fLeft)}
        /\ fEnd' \in {fEnd, "validation", "other"}
    BY <1>7, <1>l DEF Prune
  <2> QED BY <2>1
<1>8. CASE RemoveFolder
  <2>1. /\ UNCHANGED <<fFilter, fRuns, fUser, fUnmanaged>> /\ Min(fLeft) \in Skills
        /\ fPruned' \subseteq fPruned \cup {Min(fLeft)} /\ fEnd' \in {fEnd, "other"}
    <3>1. fLeft # {}
      BY <1>8 DEF RemoveFolder, SkillsInv, SkillsPruning
    <3> QED BY <1>8, <1>l, <3>1 DEF RemoveFolder
  <2> QED BY <2>1
<1>9. CASE SkillsDone
  BY <1>9 DEF SkillsDone
<1>10. ASSUME NEW name \in DOMAIN fDisk, UserAdds(name) PROVE SkillsRest'
  BY <1>0, <1>10 DEF UserAdds
<1>11. CASE SkillsKilled
  BY <1>11 DEF SkillsKilled
<1>12. CASE UNCHANGED skillVars
  BY <1>12 DEF skillVars
<1> QED
  BY <1>1, <1>2, <1>3, <1>4, <1>5, <1>6, <1>7, <1>8, <1>9, <1>10, <1>11, <1>12 DEF SkillsNext

DownloadRest ==
  /\ hTurns <= DownloadTurns /\ hMistyped \in BOOLEAN /\ hFollows \in BOOLEAN
  /\ hLocal \in {"none", "other", "whole", "replaced"} /\ hOut \subseteq {"plan", "raw", "summary"}
  /\ hEnd \in Ending \cup {NoValue} /\ (hTurns = 0 => hAsked = NoValue)

LEMMA DownloadTyped == DownloadInv /\ DownloadRest => DownloadTypeOK
<1> SUFFICES ASSUME DownloadInv, DownloadRest PROVE DownloadTypeOK
  OBVIOUS
<1>1. hAsked # NoValue => hAsked.command \in DownloadCommand
  BY DEF DownloadInv, DownloadRest, DownloadAsk
<1>2. hTurns \in 0..DownloadTurns
  BY DownloadsAssumption DEF DownloadInv, DownloadRest
<1>3. /\ hStep \in {"off", "check", "meta", "fetch", "emit", "over"} /\ hAdvice \subseteq DownloadCommand
      /\ hSure \in BOOLEAN /\ hMistyped \in BOOLEAN /\ hFollows \in BOOLEAN
      /\ hLocal \in {"none", "other", "whole", "replaced"} /\ hOut \subseteq {"plan", "raw", "summary"}
      /\ hEnd \in Ending \cup {NoValue}
  BY Zenon DEF DownloadInv, DownloadRest
<1> QED
  BY <1>1, <1>2, <1>3, Zenon DEF DownloadTypeOK

LEMMA DownloadRestStep == DownloadInv /\ DownloadRest /\ [DownloadNext]_downloadVars => DownloadRest'
<1> SUFFICES ASSUME DownloadInv, DownloadRest, [DownloadNext]_downloadVars PROVE DownloadRest'
  OBVIOUS
<1>0. hTurns \in Nat /\ hSure \in BOOLEAN /\ (hStep # "off" => hTurns # 0)
  <2>1. hStep # "off" => hTurns # 0
    BY DEF DownloadInv
  <2> QED BY <2>1, Zenon DEF DownloadInv
<1> USE EndingIs DEF DownloadRest, DownloadEnds
<1>1. ASSUME NEW asked, DownloadBegin(asked) PROVE DownloadRest'
  <2>1. hFollows' \in BOOLEAN
    BY <1>1, Zenon DEF DownloadBegin
  <2>2. hTurns' <= DownloadTurns /\ hTurns' # 0
    BY <1>0, <1>1, DownloadsAssumption DEF DownloadBegin
  <2>3. hMistyped' = FALSE /\ hLocal' = hLocal /\ hOut' = {} /\ hEnd' = NoValue
    BY <1>1 DEF DownloadBegin
  <2> QED BY <2>1, <2>2, <2>3
<1>2. CASE DownloadCheck
  BY <1>2 DEF DownloadCheck
<1>3. CASE DownloadMeta
  BY <1>3 DEF DownloadMeta
<1>4. CASE DownloadFetch
  BY <1>4 DEF DownloadFetch
<1>5. CASE DownloadEmit
  BY <1>5 DEF DownloadEmit
<1>6. CASE LocalAppears
  BY <1>6 DEF LocalAppears
<1>7. CASE UNCHANGED downloadVars
  BY <1>7 DEF downloadVars
<1> QED
  BY <1>1, <1>2, <1>3, <1>4, <1>5, <1>6, <1>7 DEF DownloadNext

\* What the clock shows of the epoch and after is not before it, and nothing said is.
LEMMA NotBeforeEpoch ==
  ASSUME NEW tz \in Zone, NEW n \in Nat
  PROVE  Instants(tz, n) \subseteq Nat
  BY TimesAssumption DEF Zone, Instants, Clock

LEMMA SaidInNat ==
  ASSUME NEW when \in When
  PROVE  when \in Moment /\ when.at \in Nat
  BY TimesAssumption DEF When, Moment, Date, Instant, Local

LEMMA CurrentInNat ==
  ASSUME NEW event \in EventOnServer
  PROVE  CurrentWhen(event.start) \in Moment /\ CurrentWhen(event.start).at \in Nat
<1>1. event.start \in EventTime /\ (event.start.date = NoValue <=> event.start.dateTime # NoValue)
  BY ServedEvent
<1>2. /\ event.start.date = NoValue \/ event.start.date \in Nat
      /\ event.start.dateTime = NoValue \/ event.start.dateTime \in Nat
  BY <1>1 DEF EventTime, Opt
<1> QED
  BY <1>1, <1>2 DEF CurrentWhen, Instant, Date, Moment

\* The start of the range is what was said, or read.
LEMMA StartInNat ==
  ASSUME vAsk \in EventAsk, vSaw = NoValue \/ vSaw \in EventOnServer, NEW start, NEW end,
         EventRange = <<start, end>>, EventRange # NoValue
  PROVE  start.at \in Nat
<1> DEFINE first == IF vAsk.start # NoValue THEN vAsk.start
                    ELSE IF vSaw # NoValue THEN CurrentWhen(vSaw.start) ELSE NoValue
<1>0. vAsk.start = NoValue \/ vAsk.start \in When
  BY DEF EventAsk, Opt
<1>1. first # NoValue => first.at \in Nat /\ first \in Moment
  BY <1>0, SaidInNat, CurrentInNat
<1>2. /\ first = NoValue => EventRange = NoValue
      /\ first # NoValue => EventRange = IF vAsk.op = "update" /\ vAsk.end = NoValue /\ vAsk.duration = NoValue
                                           THEN KeepLength(first)
                                         ELSE ResolveRange(first, vAsk.end, vAsk.duration, vZone)
  BY DEF EventRange
<1> HIDE DEF first
<1>3. ASSUME first # NoValue PROVE EventRange # NoValue => EventRange[1] = first
  <2>1. ASSUME NEW last PROVE Checked(first, last, vZone) # NoValue => Checked(first, last, vZone)[1] = first
    BY CheckedIs
  <2> QED
    BY <1>2, <1>3, <2>1 DEF KeepLength, ResolveRange
<1> QED
  BY <1>1, <1>2, <1>3

\* So are the times the event stands at once it is written.
LEMMA ReadInNat ==
  ASSUME vAsk \in EventAsk, vZone \in Zone, NEW start \in Moment, NEW end \in Moment, RangeSaid(start, end),
         start.at \in Nat, vAsk.end = NoValue => SaidLength \in Int,
         NEW event, Stands(event.start, start), Stands(event.end, end)
  PROVE  /\ event.start.date \in Opt(Nat) /\ event.start.dateTime \in Opt(Nat)
         /\ event.end.date \in Opt(Nat) /\ event.end.dateTime \in Opt(Nat)
<1>1. /\ end.at \in Int /\ start.kind \in {"date", "instant", "local"} /\ end.kind \in {"date", "instant", "local"}
      /\ start.kind = "date" <=> end.kind = "date"
  BY DEF Moment, RangeSaid, CheckRange
<1>2. \A when \in Moment : when.at \in Nat => Readings(when, vZone) \subseteq Nat
  BY NotBeforeEpoch DEF Readings
<1>3. CASE start.kind = "date"
  <2>1. end.at \in Nat
    BY <1>1, <1>3 DEF RangeSaid, CheckRange
  <2> QED
    BY <1>1, <1>3, <2>1 DEF Stands, Opt
<1>4. CASE start.kind # "date"
  <2>1. /\ event.start.date = NoValue /\ event.start.dateTime \in Readings(start, vZone)
        /\ event.end.date = NoValue /\ event.end.dateTime \in Readings(end, vZone)
    BY <1>1, <1>4 DEF Stands
  <2>2. CASE vAsk.end # NoValue
    <3>1. end \in When
      BY <2>2 DEF RangeSaid, EventAsk, Opt
    <3> QED
      BY <1>2, <2>1, <3>1, SaidInNat DEF Opt
  <2>3. CASE vAsk.end = NoValue
    <3>1. ToUtc(start, vZone) # NoValue /\ end = Plus(start, SaidLength, vZone)
      BY <1>4, <2>3 DEF RangeSaid
    <3>2. ToUtc(start, vZone) \in Nat /\ ToUtc(end, vZone) \in Int
      BY <1>2, <3>1, UtcIs, PlusIs, <1>4, <2>3
    <3>3. ToUtc(start, vZone) < ToUtc(end, vZone)
      BY <1>1, <1>4 DEF RangeSaid, CheckRange
    <3>4. event.end.dateTime = ToUtc(end, vZone)
      BY <1>4, <2>1, <2>3, <3>1, PlusIs
    <3> QED
      BY <1>2, <2>1, <3>2, <3>3, <3>4 DEF Opt
  <2> QED
    BY <2>2, <2>3
<1> QED
  BY <1>3, <1>4

TypedEvent(event) == event = NoValue \/ {event.start, event.end} \subseteq EventTime

TimesRest ==
  /\ vAsk \in EventAsk \cup {NoValue} /\ vZone \in Zone \cup {NoValue} /\ vEarly \in BOOLEAN
  /\ vEnd \in Ending \cup {NoValue}
  /\ TypedEvent(vEvent) /\ TypedEvent(vSaw) /\ TypedEvent(vBefore)
  /\ vStep \in {"read", "send"} /\ vZone = "utc" => vAsk.zone = NoValue /\ (vAsk.dryRun \/ ~SaysLocal(vAsk))

LEMMA TimesTyped == EventInv /\ TimesRest => EventTypeOK
<1> SUFFICES ASSUME EventInv, TimesRest PROVE EventTypeOK
  OBVIOUS
<1>1. vStep \in {"off", "checked", "read", "send", "over"}
  BY DEF EventInv, EventFrame
<1>2. vAsk = NoValue \/ (vAsk.op \in {"insert", "update"} /\ vAsk.dryRun \in BOOLEAN)
  BY SaidIs DEF TimesRest
<1>3. vZone \in Opt(LocalZone \cup {"utc"}) /\ vEnd \in Opt(Ending)
  BY DEF TimesRest, Opt, LocalZone, Zone
<1>4. \A event \in {vEvent, vSaw, vBefore} : event = NoValue \/ {event.start, event.end} \subseteq EventTime
  BY DEF TimesRest, TypedEvent
<1>5. vEarly \in BOOLEAN
  BY Zenon DEF TimesRest
<1> QED
  BY <1>1, <1>2, <1>3, <1>4, <1>5, Zenon DEF EventTypeOK

LEMMA ServedTyped == (\A event \in EventOnServer : TypedEvent(event)) /\ TypedEvent(NoValue)
  BY ServedEvent DEF TypedEvent

\* What is written has the type of what the server has.
LEMMA WrittenTyped ==
  ASSUME EventInv, TimesRest, EventSend, EventRange # NoValue, ~vAsk.dryRun
  PROVE  TypedEvent(vEvent')
<1>0. /\ vAsk \in EventAsk /\ vZone \in Zone /\ (vSaw = NoValue \/ vSaw \in EventOnServer) /\ vStep = "send"
      /\ vAsk.zone = NoValue /\ ~SaysLocal(vAsk) => vZone = "utc"
  BY SaidIs DEF EventInv, EventFrame, EventSend
<1>1. PICK start \in Moment, end \in Moment :
           /\ EventRange = <<start, end>> /\ RangeSaid(start, end)
           /\ Stands(vEvent'.start, start) /\ Stands(vEvent'.end, end)
           /\ Formed(vEvent'.start, SaidZone(start, end)) /\ Formed(vEvent'.end, SaidZone(start, end))
  BY SentIs
<1>2. start.at \in Nat
  BY <1>0, <1>1, StartInNat
<1>3. vAsk.end = NoValue => SaidLength \in Int
  BY LengthSaid
<1> DEFINE event == vEvent'
<1> HIDE DEF event
<1>4. /\ event.start.date \in Opt(Nat) /\ event.start.dateTime \in Opt(Nat)
      /\ event.end.date \in Opt(Nat) /\ event.end.dateTime \in Opt(Nat)
  BY <1>0, <1>1, <1>2, <1>3, ReadInNat DEF event
<1>5. SaidZone(start, end) \subseteq StatedZone
  <2>1. CASE vZone # "utc"
    BY <1>0, <2>1 DEF SaidZone, StatedZone, Opt, Zone, LocalZone
  <2>2. CASE vZone = "utc"
    <3>1. vAsk.zone = NoValue /\ ~SaysLocal(vAsk)
      BY <1>0, <2>2 DEF TimesRest
    <3>2. start.kind # "local" /\ end.kind # "local"
      BY <1>1, <3>1, NoneLocal
    <3> QED
      BY <3>1, <3>2 DEF SaidZone, IsLocal
  <2> QED
    BY <2>1, <2>2
<1>6. \A time \in {event.start, event.end} :
        time = [date |-> time.date, dateTime |-> time.dateTime, zone |-> time.zone] /\ time.zone \in StatedZone
  BY <1>1, <1>5 DEF Formed, event
<1>7. event.start \in EventTime /\ event.end \in EventTime
  BY <1>4, <1>6 DEF EventTime, StatedZone
<1> QED
  BY <1>7 DEF TypedEvent, event

LEMMA TimesRestStep == EventInv /\ TimesRest /\ [EventNext]_eventVars => TimesRest'
<1> SUFFICES ASSUME EventInv, TimesRest, [EventNext]_eventVars PROVE TimesRest'
  OBVIOUS
<1>e. {"validation", "unconfirmed", "api", "ok"} \subseteq Ending
  BY EndingIs
<1>u. ASSUME UNCHANGED <<vAsk, vZone>> PROVE SaysLocal(vAsk)' <=> SaysLocal(vAsk)
  BY <1>u DEF SaysLocal
<1> USE DEF TimesRest, EventEnds
<1>1. ASSUME NEW ask \in EventAsk, NEW event \in EventOnServer,
             EventBegin(ask, IF ask.op = "insert" THEN NoValue ELSE event)
      PROVE  TimesRest'
  <2>1. /\ vAsk' = ask /\ UNCHANGED <<vZone, vSaw>> /\ vStep' \in {"checked", "over"}
        /\ vEvent' \in {NoValue, event} /\ vBefore' \in {NoValue, event} /\ vEnd' \in {vEnd, "validation"}
    BY <1>1 DEF EventBegin
  <2>2. vEarly' \in BOOLEAN
    <3>1. vEarly' = ~Precheck(ask)
      BY <1>1 DEF EventBegin
    <3> QED BY <3>1, Zenon
  <2>3. TypedEvent(vEvent)' /\ TypedEvent(vSaw)' /\ TypedEvent(vBefore)'
    BY <2>1, ServedTyped DEF TypedEvent
  <2>4. vEnd' \in Ending \cup {NoValue}
    BY <1>e, <2>1
  <2> QED BY <2>1, <2>2, <2>3, <2>4
<1>2. ASSUME UNCHANGED <<vAsk, vZone, vEarly, vBefore>>,
             vStep' \in {"read", "send"} => vStep \in {"read", "send"},
             TypedEvent(vEvent'), TypedEvent(vSaw'), vEnd' \in {vEnd, "validation", "unconfirmed", "api", "ok"}
      PROVE  TimesRest'
  <2>1. TypedEvent(vEvent)' /\ TypedEvent(vSaw)' /\ TypedEvent(vBefore)'
    BY <1>2 DEF TypedEvent
  <2> QED BY <1>2, <1>e, <1>u, <2>1
<1>3. CASE EventDeclined \/ EventZoneFails \/ EventFails
  BY <1>2, <1>3 DEF EventDeclined, EventZoneFails, EventFails, TypedEvent
<1>4. CASE EventRead
  <2>1. /\ UNCHANGED <<vAsk, vZone, vEarly, vBefore, vEvent, vEnd>> /\ vSaw' \in {NoValue, vEvent}
        /\ vStep = "read" /\ vStep' = "send"
    BY <1>4 DEF EventRead
  <2>2. TypedEvent(vEvent') /\ TypedEvent(vSaw')
    BY <2>1 DEF TypedEvent
  <2> QED BY <1>2, <2>1, <2>2
<1>5. CASE EventSend
  <2>1. UNCHANGED <<vAsk, vZone, vSaw, vBefore, vEarly>> /\ vStep' = "over" /\ vEnd' \in {"validation", "ok"}
    BY <1>5 DEF EventSend
  <2>2. TypedEvent(vEvent')
    <3>1. CASE EventRange # NoValue /\ ~vAsk.dryRun
      BY <1>5, <3>1, WrittenTyped
    <3>2. CASE EventRange = NoValue \/ vAsk.dryRun
      <4>1. vEvent' = vEvent
        BY <1>5, <3>2 DEF EventSend
      <4> QED BY <4>1 DEF TypedEvent
    <3> QED BY <3>1, <3>2
  <2>3. TypedEvent(vSaw')
    BY <2>1 DEF TypedEvent
  <2> QED BY <1>2, <2>1, <2>2, <2>3
<1>6. ASSUME NEW tz \in LocalZone, EventZone(tz) PROVE TimesRest'
  <2>1. /\ vStep = "checked" /\ UNCHANGED <<vAsk, vEvent, vSaw, vBefore, vEarly, vEnd>>
        /\ vZone' = IF vAsk.zone # NoValue THEN vAsk.zone
                    ELSE IF SaysLocal(vAsk) /\ ~vAsk.dryRun THEN tz ELSE "utc"
    BY <1>6 DEF EventZone
  <2>2. vAsk \in EventAsk /\ (vAsk.zone = NoValue \/ vAsk.zone \in LocalZone)
    BY <2>1, SaidIs DEF EventInv, EventFrame
  <2>3. vZone' \in Zone
    BY <2>1, <2>2 DEF Zone, LocalZone
  <2>4. vZone' = "utc" => vAsk.zone = NoValue /\ (vAsk.dryRun \/ ~SaysLocal(vAsk))
    BY <2>1, <2>2 DEF LocalZone
  <2>5. TypedEvent(vEvent)' /\ TypedEvent(vSaw)' /\ TypedEvent(vBefore)'
    BY <2>1 DEF TypedEvent
  <2>6. SaysLocal(vAsk)' <=> SaysLocal(vAsk)
    BY <2>1 DEF SaysLocal
  <2> QED BY <2>1, <2>3, <2>4, <2>5, <2>6
<1>7. ASSUME NEW event \in EventOnServer, EventMoved(event) PROVE TimesRest'
  <2>1. UNCHANGED <<vStep, vAsk, vZone, vSaw, vBefore, vEarly, vEnd>> /\ vEvent' = event
    BY <1>7 DEF EventMoved
  <2>2. TypedEvent(vEvent') /\ TypedEvent(vSaw')
    BY <2>1, ServedTyped DEF TypedEvent
  <2> QED BY <1>2, <2>1, <2>2
<1>8. CASE UNCHANGED eventVars
  BY <1>2, <1>8 DEF eventVars, TypedEvent
<1> QED
  BY <1>1, <1>3, <1>4, <1>5, <1>6, <1>7, <1>8 DEF EventNext

-----------------------------------------------------------------------------
\* What the types of the commands rest on.
SimpleTypes ==
  /\ SourceTypeOK /\ SignTypeOK /\ DiscoveryTypeOK /\ SetupTypeOK /\ RenewTypeOK /\ OutboundTypeOK
  /\ EditTypeOK /\ EditMore /\ CalendarTypeOK /\ ReadsApart
  /\ ScriptTypeOK /\ (cStep = "plan" => cFetched \subseteq ScriptFile)
  /\ ReplyTypeOK /\ (aStep = "fetch" => aFlags \in ReplyFlags)

RestTypes ==
  /\ BatchRest /\ MethodRest /\ ListRest /\ PartsRest /\ WizardRest /\ SkillsRest /\ DownloadRest
  /\ TimesRest

LEMMA SimpleTypesBegin == CommandsInit => SimpleTypes
<1>0. IsFiniteSet({}) /\ Cardinality({}) = 0 /\ {} \subseteq Nat
  BY FS_EmptySet, Zenon
<1>1. SourceInit => SourceTypeOK
  BY DEF SourceInit, SourceTypeOK, FileState
<1>2. SignInit => SignTypeOK
  <2> SUFFICES ASSUME SignInit PROVE SignTypeOK
    OBVIOUS
  <2>1. gBacklog \in Seq(Connection) /\ gSends \in [Connection -> Request \cup {Nothing, NoValue}]
    BY DEF SignInit
  <2>2. gServing \subseteq Connection /\ Cardinality(gServing) <= MaxConnections
    BY <1>0, SignInAssumption DEF SignInit
  <2> QED BY <2>1, <2>2 DEF SignInit, SignTypeOK
<1>3. DiscoveryInit => DiscoveryTypeOK
  <2> SUFFICES ASSUME DiscoveryInit PROVE DiscoveryTypeOK
    OBVIOUS
  <2>1. Present = {}
    BY DEF DiscoveryInit, Present
  <2>2. xRounds \in [Clearer -> 0..ClearMaxRounds]
    BY DiscoveryAssumption DEF DiscoveryInit
  <2> QED BY <2>1, <2>2 DEF DiscoveryInit, DiscoveryTypeOK
<1>4. SetupInit => SetupTypeOK
  BY DEF SetupInit, SetupTypeOK, Resource
<1>5. RenewInit => RenewTypeOK
  <2> SUFFICES ASSUME RenewInit PROVE RenewTypeOK
    OBVIOUS
  <2>1. rLeft \in [Subscription -> 0..Lifetime] /\ rAge \in 0..Every
    BY RenewalAssumption DEF RenewInit
  <2> QED BY <2>1 DEF RenewInit, RenewTypeOK
<1>6. OutboundInit => OutboundTypeOK
  BY DEF OutboundInit, OutboundTypeOK
<1>7. EditInit => EditTypeOK /\ EditMore
  <2> SUFFICES ASSUME EditInit PROVE EditTypeOK /\ EditMore
    OBVIOUS
  <2>1. eGuests \in GuestList /\ eParents \subseteq Folder
    BY EditAssumption DEF EditInit, GuestList
  <2> QED BY <2>1 DEF EditInit, EditTypeOK, EditMore
<1>8. CalendarInit => CalendarTypeOK /\ ReadsApart
  <2> SUFFICES ASSUME CalendarInit PROVE CalendarTypeOK /\ ReadsApart
    OBVIOUS
  <2>1. Cardinality(qReading) <= MaxReads
    BY <1>0, CalendarAssumption DEF CalendarInit
  <2>2. qNamed \in (SUBSET Calendar) \cup {NoValue}
    BY DEF CalendarInit
  <2> QED BY <1>0, <2>1, <2>2 DEF CalendarInit, CalendarTypeOK, ReadsApart
<1>9. ScriptInit => ScriptTypeOK /\ (cStep = "plan" => cFetched \subseteq ScriptFile)
  <2> SUFFICES ASSUME ScriptInit PROVE ScriptTypeOK /\ (cStep = "plan" => cFetched \subseteq ScriptFile)
    OBVIOUS
  <2>1. LegalFiles(cDisk, cFolds)
    BY DEF ScriptInit, LegalFiles
  <2>2. cEdits \in 0..Edits
    BY ScriptAssumption DEF ScriptInit
  <2> QED BY <2>1, <2>2 DEF ScriptInit, ScriptTypeOK
<1>10. ReplyInit => ReplyTypeOK /\ (aStep = "fetch" => aFlags \in ReplyFlags)
  BY DEF ReplyInit, ReplyTypeOK
<1> QED
  BY <1>1, <1>2, <1>3, <1>4, <1>5, <1>6, <1>7, <1>8, <1>9, <1>10 DEF SimpleTypes, CommandsInit

LEMMA RestTypesBegin == CommandsInit => RestTypes
<1>1. BatchInit => BatchRest
  <2> SUFFICES ASSUME BatchInit PROVE BatchRest
    OBVIOUS
  <2>1. bParts \in Seq(Part) /\ Len(bParts) = 0 /\ bAt = 0
    BY DEF BatchInit
  <2>2. bAttempt = 0 /\ 0 \in 0..BatchTries /\ 0 < BatchTries
    BY BatchAssumption DEF BatchInit
  <2>3. bGate = NoValue /\ bSafe = {} /\ bScreen = FALSE /\ bEnd = NoValue
    BY DEF BatchInit
  <2>4. bAttempt \in 0..BatchTries /\ (bStep = "ready" => bAttempt < BatchTries) /\ bAt \in 0..Len(bParts)
    BY <2>1, <2>2
  <2> QED BY <2>1, <2>2, <2>3, <2>4, Zenon DEF BatchRest
<1>2. MethodInit => MethodRest
  BY MethodAssumption DEF MethodInit, MethodRest
<1>3. ListInit => ListRest
  <2> SUFFICES ASSUME ListInit PROVE ListRest
    OBVIOUS
  <2>1. Len(nPlaces) = 0
    BY DEF ListInit
  <2>2. Len(nPlaces) <= ListTurns /\ nNext \in 0..Len(nPlaces)
    BY <2>1, ListingAssumption DEF ListInit
  <2> QED BY <2>2, Zenon DEF ListInit, ListRest
<1>4. PartsInit => PartsRest
  <2> SUFFICES ASSUME PartsInit PROVE PartsRest
    OBVIOUS
  <2>1. Len(pParts) = 0 /\ DOMAIN pParts = 1..Len(pParts) /\ Len(pPlan) = 0 /\ DOMAIN pDisk = {}
    BY DEF PartsInit
  <2>2. Len(pParts) <= MaxParts /\ Len(pPlan) <= Len(pParts)
    BY <2>1, SavePartsAssumption
  <2> QED BY <2>1, <2>2, Zenon DEF PartsInit, PartsRest
<1>5. WizardInit => WizardRest
  BY DEF WizardInit, WizardRest, MaybeProject
<1>6. SkillsInit => SkillsRest
  BY SkillsAssumption DEF SkillsInit, SkillsRest
<1>7. DownloadInit => DownloadRest
  <2> SUFFICES ASSUME DownloadInit PROVE DownloadRest
    OBVIOUS
  <2>1. hTurns <= DownloadTurns
    BY DownloadsAssumption DEF DownloadInit
  <2> QED BY <2>1, Zenon DEF DownloadInit, DownloadRest
<1>8. EventInit => TimesRest
  BY DEF EventInit, TimesRest, TypedEvent
<1> QED
  BY <1>1, <1>2, <1>3, <1>4, <1>5, <1>6, <1>7, <1>8 DEF RestTypes, CommandsInit

\* Every variable of every command keeps its type, however the commands go on: the values
\* each action leaves are again values the next one is defined for.
THEOREM CommandsTyped == CommandsSpec => []CommandsTypeOK
<1> DEFINE First == SetupInv /\ RenewInv /\ CacheInv /\ EditInv /\ FolderInv /\ CalendarInv /\ OutboundInv
           Second == BatchInv /\ ListInv /\ PartsInv /\ WizardInv /\ SkillsInv /\ DownloadInv /\ EventInv
           Third == MethodInv /\ TableInv /\ ScopesInv /\ DocInv
           Inv == command \in Command /\ First /\ Second /\ Third /\ SimpleTypes /\ RestTypes
<1>1. CommandsInit => Inv
  <2> SUFFICES ASSUME CommandsInit PROVE Inv
    OBVIOUS
  <2>1. EditInv /\ FolderInv
    BY OutcomeAssumption DEF CommandsInit, EditInit, EditInv, FolderInv, Ending, ExitCode, OthersStayInvited,
       FileKeepsParent, GuestList
  <2>2. First
    BY <2>1, SetupBegins, RenewBegins, CacheBegins, CalendarBegins, OutboundBegins, Zenon DEF CommandsInit
  <2>3. Second
    BY BatchBeginsRight, ListBegins, PartsBegins, WizardBegins, SkillsBegins, DownloadBegins, EventBegins, Zenon
       DEF CommandsInit
  <2>4. Third
    BY MethodBegins, TableBegins, ScopesBegins, DocStarts, Zenon DEF CommandsInit
  <2>5. command \in Command
    BY Zenon DEF CommandsInit
  <2> QED
    BY <2>2, <2>3, <2>4, <2>5, SimpleTypesBegin, RestTypesBegin, Zenon
<1>2. Inv /\ [CommandsNext]_commandsVars => Inv'
  <2> SUFFICES ASSUME Inv, [CommandsNext]_commandsVars PROVE Inv'
    OBVIOUS
  <2> USE DEF SimpleTypes, RestTypes
  <2>1. command' = command
    BY DEF CommandsNext, RunBatch, RunMethod, RunSetup, RunRenew, RunSource, RunSign,
       RunDiscovery, RunEdit, RunScript, RunCalendar, RunReply, RunAccounts, RunList, RunParts,
       RunOutbound, RunTable, RunWizard, RunScopes, RunSkills, RunDownload, RunDoc, RunEvent,
       commandsVars
  <2>2. SetupInv' /\ SetupTypeOK'
    BY SetupInvStep, SetupTyped, SetupAlone, Zenon
  <2>3. RenewInv' /\ RenewTypeOK'
    <3>1. RenewInv'
      BY RenewTypesStep, ReportedStep, LeftEnoughStep, SuspendedStep, RenewAlone DEF RenewInv
    <3> QED BY <3>1, RenewTyped, RenewAlone, Zenon
  <2>4. CacheInv' /\ DiscoveryTypeOK'
    BY CacheStep, DiscoveryTyped, DiscoveryAlone, Zenon
  <2>5. EditInv' /\ FolderInv' /\ EditTypeOK' /\ EditMore'
    BY EditStep, FolderStep, EditTyped, EditAlone, Zenon
  <2>6. CalendarInv' /\ CalendarTypeOK' /\ ReadsApart'
    BY CalendarInvStep, CalendarTyped, CalendarAlone, Zenon
  <2>7. OutboundInv' /\ OutboundTypeOK'
    BY OutboundInvStep, OutboundTyped, OutboundAlone, Zenon
  <2>8. BatchInv' /\ BatchRest'
    BY BatchStep, BatchRestStep, BatchAlone, Zenon
  <2>9. ListInv' /\ ListRest'
    BY ListInvStep, ListRestStep, ListAlone, Zenon
  <2>10. PartsInv' /\ PartsRest'
    BY PartsInvStep, PartsRestStep, PartsAlone, Zenon
  <2>11. WizardInv' /\ WizardRest'
    BY WizardInvStep, WizardRestStep, WizardAlone, Zenon
  <2>12. SkillsInv' /\ SkillsRest'
    BY SkillsInvStep, SkillsRestStep, SkillsAlone, Zenon
  <2>13. DownloadInv' /\ DownloadRest'
    BY DownloadInvStep, DownloadRestStep, DownloadAlone, Zenon
  <2>14. EventInv' /\ TimesRest'
    BY EventInvStep, TimesRestStep, EventAlone, Zenon
  <2>15. MethodInv' /\ MethodRest'
    BY MethodInvStep, MethodRestStep, MethodAlone, Zenon
  <2>16. TableInv' /\ ScopesInv' /\ DocInv'
    BY TableInvStep, TableAlone, ScopesInvStep, ScopesAlone, DocKeeps, DocAlone, Zenon
  <2>17. SourceTypeOK' /\ SignTypeOK'
    BY SourceTyped, SourceAlone, SignTyped, SignAlone, Zenon
  <2>18. ScriptTypeOK' /\ (cStep' = "plan" => cFetched' \subseteq ScriptFile)
    BY ScriptTyped, ScriptAlone
  <2>19. ReplyTypeOK' /\ (aStep' = "fetch" => aFlags' \in ReplyFlags)
    BY ReplyTyped, ReplyAlone
  <2> QED
    BY <2>1, <2>2, <2>3, <2>4, <2>5, <2>6, <2>7, <2>8, <2>9, <2>10, <2>11, <2>12, <2>13, <2>14, <2>15,
       <2>16, <2>17, <2>18, <2>19
<1>3. Inv /\ AccountsTypeOK => CommandsTypeOK
  BY BatchTyped, MethodTyped, ListTyped, PartsTyped, WizardTyped, SkillsTyped, DownloadTyped, TimesTyped,
     TableTyped, DocTyped DEF CommandsTypeOK, SimpleTypes, RestTypes, ScopesInv
<1>4. CommandsInit => AccountsInit
  BY DEF CommandsInit
<1>5. CommandsSpec => []AccountsTypeOK
  <2>1. CommandsSpec => AccountsSpec
    BY <1>4, AccountsAlone, PTL DEF CommandsSpec, AccountsSpec
  <2> QED BY <2>1, AccountsTyped
<1> QED
  BY <1>1, <1>2, <1>3, <1>5, PTL DEF CommandsSpec

===============================================================================
