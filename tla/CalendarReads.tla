----------------------------- MODULE CalendarReads -----------------------------
(***************************************************************************)
(* calendar +agenda and +freebusy (helpers/calendar.rs): the answer is     *)
(* about several calendars, each of which may fail, and would look         *)
(* complete without the one that did.                                      *)
(*                                                                         *)
(* Time is counted in units, Day of which are a day (calendar/time.rs).    *)
(***************************************************************************)
EXTENDS Outcome, FiniteSetsExt

CONSTANTS
  Calendar,
  MaxReads,   \* calendars read at once
  Horizon,    \* bound: the times there are
  Day         \* units in a day

ListedCalendar == [hidden : BOOLEAN]

ASSUME CalendarAssumption ==
  MaxReads \in Nat \ {0} /\ Horizon \in Nat \ {0, 1} /\ Day \in Nat \ {0} /\ NoValue \notin ListedCalendar

VARIABLES
  qStep,     \* "off", list, read, freebusy, over
  qListed,   \* the user's calendars, as [hidden |-> ...], or NoValue
  qAsked,    \* calendars asked for; none is all that are not hidden
  qNamed,    \* calendars whose name has --calendar-name in it; NoValue without one
  qWaiting,  \* calendars still to be read
  qReading,  \* requests in flight
  qEvents,   \* calendars whose events are there
  qAnswers,  \* what freeBusy says of each calendar or group asked for
  qQuery,    \* the times asked for, [from, to, busy, min, working]
  qSlots,    \* the free slots reported
  qEnd

calendarVars == <<qStep, qListed, qAsked, qNamed, qWaiting, qReading, qEvents, qAnswers, qQuery, qSlots, qEnd>>

Time == 0..Horizon
Interval == {i \in Time \X Time : i[1] < i[2]}

CalendarInit ==
  /\ qStep = "off" /\ qListed = NoValue /\ qAsked = {} /\ qNamed = NoValue
  /\ qWaiting = {} /\ qReading = {}
  /\ qEvents = {} /\ qAnswers = NoValue /\ qQuery = NoValue /\ qSlots = NoValue /\ qEnd = NoValue

CalendarEnds(ending) == qStep' = "over" /\ qEnd' = ending

AgendaBegin(listed, asked, named) ==
  /\ qStep = "off"
  /\ qStep' = "list" /\ qListed' = listed /\ qAsked' = asked /\ qNamed' = named
  /\ UNCHANGED <<qWaiting, qReading, qEvents, qAnswers, qQuery, qSlots, qEnd>>

NameFits(c) == qNamed = NoValue \/ c \in qNamed

\* The calendars an agenda is of: those asked for, or all that are not hidden, as far
\* as their name fits.
Wanted ==
  {c \in IF qAsked = {} THEN {l \in Calendar : qListed[l] # NoValue /\ ~qListed[l].hidden}
         ELSE {l \in qAsked : qListed[l] # NoValue} : NameFits(c)}

\* Whether the agenda is of some calendars in particular.
Narrowed == qAsked # {} \/ qNamed # NoValue

\* calendarList: each calendar asked for must be in it, and one of them must fit.
AgendaList ==
  /\ qStep = "list"
  /\ IF (\E c \in qAsked : qListed[c] = NoValue) \/ (Wanted = {} /\ Narrowed)
     THEN CalendarEnds("validation") /\ UNCHANGED qWaiting
     ELSE qWaiting' = Wanted /\ qStep' = "read" /\ UNCHANGED qEnd
  /\ UNCHANGED <<qListed, qAsked, qNamed, qReading, qEvents, qAnswers, qQuery, qSlots>>

\* buffer_unordered: a bounded number of calendars is read at once.
AgendaAsk(c) ==
  /\ qStep = "read" /\ c \in qWaiting /\ Cardinality(qReading) < MaxReads
  /\ qWaiting' = qWaiting \ {c}
  /\ qReading' = qReading \cup {c}
  /\ UNCHANGED <<qStep, qListed, qAsked, qNamed, qEvents, qAnswers, qQuery, qSlots, qEnd>>

\* All its pages are there.
AgendaAnswered(c) ==
  /\ qStep = "read" /\ c \in qReading
  /\ qReading' = qReading \ {c}
  /\ qEvents' = qEvents \cup {c}
  /\ UNCHANGED <<qStep, qListed, qAsked, qNamed, qWaiting, qAnswers, qQuery, qSlots, qEnd>>

\* Mutant: a calendar that cannot be read is skipped.
AgendaFailedSkips(c) ==
  /\ qStep = "read" /\ c \in qReading
  /\ qReading' = qReading \ {c}
  /\ UNCHANGED <<qStep, qListed, qAsked, qNamed, qWaiting, qEvents, qAnswers, qQuery, qSlots, qEnd>>

\* The first that fails ends the command, with the class of that error; the
\* requests in flight are dropped.
AgendaFailed(c) ==
  /\ qStep = "read" /\ c \in qReading
  /\ \E e \in {"api", "retryable", "network"} : CalendarEnds(e)
  /\ qReading' = {} /\ qWaiting' = {}
  /\ UNCHANGED <<qListed, qAsked, qNamed, qEvents, qAnswers, qQuery, qSlots>>

AgendaDone ==
  /\ qStep = "read" /\ qWaiting = {} /\ qReading = {}
  /\ CalendarEnds("ok")
  /\ UNCHANGED <<qListed, qAsked, qNamed, qWaiting, qReading, qEvents, qAnswers, qQuery, qSlots>>

-------------------------------------------------------------------------------
\* +freebusy.  A calendar is free or busy, or has errors; the members of a group
\* that could not be expanded are not among the calendars.
FreeBusyBegin(answers, query) ==
  /\ qStep = "off"
  /\ qStep' = "freebusy" /\ qAnswers' = answers /\ qQuery' = query
  /\ UNCHANGED <<qListed, qAsked, qNamed, qWaiting, qReading, qEvents, qSlots, qEnd>>

Later(s, t) == IF s > t THEN s ELSE t
Earlier(s, t) == IF s < t THEN s ELSE t

\* The order in which the busy intervals are sorted.
Sooner(i, j) == i[1] < j[1] \/ (i[1] = j[1] /\ i[2] < j[2])

\* Mutant: the cursor goes back to the end of a shorter interval.
CursorBack(query, done) ==
  IF done = {} THEN query.from ELSE (CHOOSE i \in done : \A j \in done : ~Sooner(i, j))[2]

\* Where the cursor stands when the intervals `done` have been passed.
Cursor(query, done) == Max({query.from} \cup {i[2] : i \in done})

\* free_slots: the gap before each busy interval, in their order, and the one after the
\* last, up to the cursor that reaches the end.
Gaps(query) ==
  LET cursor(b) == Cursor(query, {i \in query.busy : Sooner(i, b)})
      last == Cursor(query, query.busy)
  IN  {<<cursor(b), Earlier(b[1], query.to)>> :
         b \in {i \in query.busy : cursor(i) < i[1] /\ cursor(i) < query.to}}
        \cup {g \in {<<last, query.to>>} : last < query.to}

\* The part of each gap in the working hours of each of its days.
Windows(query) ==
  IF query.working = NoValue THEN Gaps(query)
  ELSE UNION {{<<Later(g[1], day * Day + query.working[1]), Earlier(g[2], day * Day + query.working[2])>> :
                 day \in (g[1] \div Day)..(g[2] \div Day)} : g \in Gaps(query)}

FreeSlots(query) == {w \in Windows(query) : w[1] < w[2] /\ w[2] - w[1] >= query.min}

\* Mutant: one calendar's transient error makes the whole retryable.
FreeBusyVerdictAny(answers) ==
  IF "transient" \in answers THEN "retryable" ELSE IF "permanent" \in answers THEN "validation" ELSE "ok"

\* A permanent error outranks the transient ones.
FreeBusyVerdict(answers) ==
  IF "permanent" \in answers THEN "validation" ELSE IF "transient" \in answers THEN "retryable" ELSE "ok"

\* The answer to the one request.
FreeBusyAnswered ==
  /\ qStep = "freebusy"
  /\ LET verdict == FreeBusyVerdict({qAnswers[c] : c \in Calendar}) IN
       /\ CalendarEnds(verdict)
       /\ qSlots' = IF verdict = "ok" THEN FreeSlots(qQuery) ELSE NoValue
  /\ UNCHANGED <<qListed, qAsked, qNamed, qWaiting, qReading, qEvents, qAnswers, qQuery>>

FreeBusyQuery ==
  [from : 0..1, to : {Horizon - 1, Horizon}, busy : {b \in SUBSET Interval : Cardinality(b) <= 2},
   min : 1..2, working : {<<0, Day - 1>>, <<1, Day>>, NoValue}]

CalendarNext ==
  \/ /\ qStep = "off"
     /\ \/ \E listed \in [Calendar -> ListedCalendar \cup {NoValue}], asked \in SUBSET Calendar,
              named \in (SUBSET Calendar) \cup {NoValue} : AgendaBegin(listed, asked, named)
        \/ \E query \in FreeBusyQuery : FreeBusyBegin([c \in Calendar |-> "fine"], query)
        \/ \E answers \in [Calendar -> {"fine", "transient", "permanent"}] :
             FreeBusyBegin(answers, [from |-> 0, to |-> 1, busy |-> {}, min |-> 1, working |-> NoValue])
  \/ AgendaList \/ AgendaDone \/ FreeBusyAnswered
  \/ \E c \in Calendar : AgendaAsk(c) \/ AgendaAnswered(c) \/ AgendaFailed(c)

CalendarSpec == CalendarInit /\ [][CalendarNext]_calendarVars

CalendarTypeOK ==
  /\ qStep \in {"off", "list", "read", "freebusy", "over"}
  /\ qAsked \subseteq Calendar /\ qNamed \in (SUBSET Calendar) \cup {NoValue}
  /\ qWaiting \subseteq Calendar /\ qEvents \subseteq Calendar
  /\ qReading \subseteq Calendar \ (qWaiting \cup qEvents)
  /\ Cardinality(qReading) <= MaxReads
  /\ qSlots # NoValue => qSlots \subseteq Interval
  /\ qEnd \in Ending \cup {NoValue}

\* An agenda without an error has the events of every calendar asked for, or of all
\* that are shown, whose name fits, in whatever order they answer; and it is never an
\* empty one because nothing fits what was asked for.
AgendaWhole ==
  qEnd = "ok" /\ qListed # NoValue =>
    /\ qEvents = {c \in IF qAsked # {} THEN qAsked ELSE {l \in Calendar : qListed[l] \in [hidden : {FALSE}]} :
                    NameFits(c)}
    /\ Narrowed => qEvents # {}

\* Free slots are reported only if the busy times of all are known, and trying again
\* is advised only if that may help.
AllBusyKnown ==
  /\ qSlots # NoValue => \A c \in Calendar : qAnswers[c] = "fine"
  /\ qEnd = "retryable" /\ qAnswers # NoValue => \A c \in Calendar : qAnswers[c] # "permanent"

\* Reference: a unit of time is free if it is asked for, in no busy interval and in
\* the working hours of its day; a slot is a run of free units that cannot be made
\* longer (within a day, with working hours) and is long enough.
FreeUnit(query, t) ==
  /\ query.from <= t /\ t < query.to
  /\ \A b \in query.busy : t < b[1] \/ t >= b[2]
  /\ query.working # NoValue => query.working[1] <= t % Day /\ t % Day < query.working[2]
FreeRun(query, i) ==
  /\ \A t \in i[1]..(i[2] - 1) : FreeUnit(query, t)
  /\ query.working # NoValue => i[1] \div Day = (i[2] - 1) \div Day
SlotsRight ==
  qSlots # NoValue =>
    qSlots = {i \in Interval :
                /\ FreeRun(qQuery, i) /\ i[2] - i[1] >= qQuery.min
                /\ \A j \in Interval : FreeRun(qQuery, j) /\ j[1] <= i[1] /\ i[2] <= j[2] => j = i}

===============================================================================
