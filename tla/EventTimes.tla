------------------------------ MODULE EventTimes -------------------------------
(***************************************************************************)
(* The times of calendar +insert and +update (helpers/calendar.rs,         *)
(* calendar/time.rs).  A time is a date, an instant (RFC 3339, with its    *)
(* offset) or a local time, which means nothing without a time zone; an    *)
(* end may be left to be worked out from a length; and a PATCH is merged   *)
(* into an event somebody else may have moved since it was read.           *)
(*                                                                         *)
(* Times are counted in hours and dates in days.  Clocks change once, at   *)
(* the instant Change: forward in the zone "gap", which skips a local      *)
(* time, and back in "fold", which repeats one.                            *)
(***************************************************************************)
EXTENDS Outcome, FiniteSetsExt

CONSTANTS Change, LastTime, LastDate   \* the bounds of the times said

ASSUME TimesAssumption == Change \in Nat \ {0} /\ LastTime \in Nat /\ LastDate \in Nat

VARIABLES
  vStep,     \* "off", checked, zone, read, send, over
  vAsk,      \* the command, of EventAsk
  vZone,     \* the zone local times are read in
  vEvent,    \* the event on the server, or NoValue
  vSaw,      \* the event as it was read, or NoValue
  vSent,     \* start and end as they were written, each with the fields it sets
  vBefore,   \* history: the event when the command began
  vEarly,    \* history: refused from the command line alone
  vEnd

eventVars == <<vStep, vAsk, vZone, vEvent, vSaw, vSent, vBefore, vEarly, vEnd>>

LocalZone == {"gap", "fold"}
Date(d) == [kind |-> "date", at |-> d]
Instant(u) == [kind |-> "instant", at |-> u]
Local(n) == [kind |-> "local", at |-> n]
When == {Date(d) : d \in 1..LastDate} \cup {Instant(u) : u \in 1..LastTime}
          \cup {Local(n) : n \in 1..LastTime}

\* What the clock shows at the instant u, and the instants at which it shows n.
Clock(zone, u) ==
  IF u < Change \/ zone = "utc" THEN u ELSE IF zone = "gap" THEN u + 1 ELSE u - 1
Instants(zone, n) == {u \in {n - 1, n, n + 1} : Clock(zone, u) = n}

Opt(S) == S \cup {NoValue}
EventAsk ==
  {a \in [op : {"insert", "update"}, start : Opt(When), end : Opt(When), duration : Opt(1..2),
          zone : Opt(LocalZone), dryRun : BOOLEAN] :
     /\ a.end = NoValue \/ a.duration = NoValue
     /\ IF a.op = "insert" THEN a.start # NoValue
        ELSE <<a.start, a.end, a.duration>> # <<NoValue, NoValue, NoValue>>}

\* An end of an event as the server has it: a dateTime is an instant.
EventTime == [date : Opt(Nat), dateTime : Opt(Nat), zone : Opt({"home", "away"} \cup LocalZone)]
Unset == [date |-> NoValue, dateTime |-> NoValue, zone |-> NoValue]
Dated(d) == [date |-> d, dateTime |-> NoValue, zone |-> NoValue]
Stamped(u, zone) == [date |-> NoValue, dateTime |-> u, zone |-> zone]
AllDay(from, to) == [start |-> Dated(from), end |-> Dated(to)]
Timed(from, to, z1, z2) == [start |-> Stamped(from, z1), end |-> Stamped(to, z2)]
EventOnServer == {AllDay(1, 3), Timed(1, 3, NoValue, NoValue), Timed(2, 3, "home", "away")}

\* No time, range, zone or event is NoValue.
Moment == [kind : {"date", "instant", "local"}, at : Int]
ASSUME NothingAssumption ==
  NoValue \notin Int \cup Moment \cup (Moment \X Moment) \cup [start : EventTime, end : EventTime]
                   \cup LocalZone \cup {"utc", "home", "away"}

EventInit ==
  /\ vStep = "off" /\ vAsk = NoValue /\ vZone = NoValue /\ vEvent = NoValue /\ vSaw = NoValue
  /\ vSent = NoValue /\ vBefore = NoValue /\ vEarly = FALSE /\ vEnd = NoValue

EventEnds(ending) == vStep' = "over" /\ vEnd' = ending

\* When::to_utc: the first of two instants, and none for a time that is skipped.
ToUtc(when, zone) ==
  IF when.kind = "instant" THEN when.at
  ELSE IF Instants(zone, when.at) = {} THEN NoValue ELSE Min(Instants(zone, when.at))

\* Mutant: the end keeps the form of the start, be it ambiguous.
PlusUnpinned(when, d, zone) ==
  IF when.kind = "date" \/ ToUtc(when, zone) = NoValue THEN NoValue
  ELSE IF when.kind = "instant" THEN Instant(when.at + d)
  ELSE Local(Clock(zone, ToUtc(when, zone) + d))

\* When::plus: a local time is advanced in its zone, by real time, and stays
\* local unless that would be ambiguous.
Plus(when, d, zone) ==
  IF when.kind = "date" \/ ToUtc(when, zone) = NoValue THEN NoValue
  ELSE LET end == ToUtc(when, zone) + d
           local == Clock(zone, end)
       IN  IF when.kind = "local" /\ Cardinality(Instants(zone, local)) = 1
             THEN Local(local) ELSE Instant(end)

\* check_range: both of a kind, and the end after the start.
CheckRange(start, end, zone) ==
  IF "date" \in {start.kind, end.kind} THEN start.kind = end.kind /\ start.at < end.at
  ELSE /\ NoValue \notin {ToUtc(start, zone), ToUtc(end, zone)}
       /\ ToUtc(start, zone) < ToUtc(end, zone)

Checked(start, end, zone) ==
  IF end # NoValue /\ CheckRange(start, end, zone) THEN <<start, end>> ELSE NoValue

\* resolve_range: the range, or NoValue for one that is refused.
ResolveRange(start, end, duration, zone) ==
  LET resolved == IF end # NoValue THEN end
                  ELSE IF duration # NoValue THEN Plus(start, duration, zone)
                  ELSE IF start.kind = "date" THEN Date(start.at + 1) ELSE NoValue
  IN  Checked(start, resolved, zone)

\* Mutant: a local time and an instant are compared as if in UTC.
PrecheckEager(ask) ==
  \/ ask.start = NoValue
  \/ ask.op = "update" /\ ask.end = NoValue /\ ask.duration = NoValue
  \/ ResolveRange(ask.start, ask.end, ask.duration,
                  IF ask.zone = NoValue THEN "utc" ELSE ask.zone) # NoValue

\* precheck_range: what can be told from the command line alone.
Precheck(ask) ==
  \/ ask.start = NoValue
  \/ ask.op = "update" /\ ask.end = NoValue /\ ask.duration = NoValue
  \/ /\ ask.zone = NoValue /\ ask.end # NoValue
     /\ {ask.start.kind, ask.end.kind} = {"local", "instant"}
  \/ ResolveRange(ask.start, ask.end, ask.duration,
                  IF ask.zone = NoValue THEN "utc" ELSE ask.zone) # NoValue

EventBegin(ask, event) ==
  /\ vStep = "off"
  /\ vAsk' = ask /\ vEvent' = event /\ vBefore' = event
  /\ vEarly' = ~Precheck(ask)
  /\ IF Precheck(ask) THEN vStep' = "checked" /\ UNCHANGED vEnd ELSE EventEnds("validation")
  /\ UNCHANGED <<vZone, vSaw, vSent>>

\* Whether the user agrees to it is asked only now.
EventDeclined ==
  /\ vStep = "checked" /\ ~vAsk.dryRun
  /\ EventEnds("unconfirmed")
  /\ UNCHANGED <<vAsk, vZone, vEvent, vSaw, vSent, vBefore, vEarly>>

IsLocal(when) == when # NoValue /\ when.kind = "local"
SaysLocal(ask) == IsLocal(ask.start) \/ IsLocal(ask.end)

\* An update without --timezone and without a local time leaves the zones alone.
KeepsEventZone == vAsk.zone = NoValue /\ ~SaysLocal(vAsk)

\* Mutant: only what the range is worked out from is read.
NeedsCurrentForRange(ask) ==
  /\ ask.op = "update"
  /\ \/ ask.start # NoValue /\ ask.end = NoValue /\ ask.duration = NoValue
     \/ ask.start = NoValue

\* update, needs_current
NeedsCurrent(ask) ==
  /\ ask.op = "update"
  /\ \/ KeepsEventZone /\ \E w \in {ask.start, ask.end} : w # NoValue /\ w.kind = "instant"
     \/ ask.start # NoValue /\ ask.end = NoValue /\ ask.duration = NoValue
     \/ ask.start = NoValue

\* TzInfo::resolve_for_times: the zone of the account is looked up only for a
\* local time, and not in a dry run.
EventZone(account) ==
  /\ vStep = "checked"
  /\ vZone' = IF vAsk.zone # NoValue THEN vAsk.zone
              ELSE IF SaysLocal(vAsk) /\ ~vAsk.dryRun THEN account ELSE "utc"
  /\ vStep' = IF NeedsCurrent(vAsk) THEN "read" ELSE "send"
  /\ UNCHANGED <<vAsk, vEvent, vSaw, vSent, vBefore, vEarly, vEnd>>

\* The lookup of the zone fails.
EventZoneFails ==
  /\ vStep = "checked" /\ vAsk.zone = NoValue /\ SaysLocal(vAsk) /\ ~vAsk.dryRun
  /\ EventEnds("api")
  /\ UNCHANGED <<vAsk, vZone, vEvent, vSaw, vSent, vBefore, vEarly>>

\* A dry run only plans the request.
EventRead ==
  /\ vStep = "read"
  /\ vSaw' = IF vAsk.dryRun THEN NoValue ELSE vEvent
  /\ vStep' = "send"
  /\ UNCHANGED <<vAsk, vZone, vEvent, vSent, vBefore, vEarly, vEnd>>

EventFails ==
  /\ vStep \in {"read", "send"} /\ ~vAsk.dryRun
  /\ EventEnds("api")
  /\ UNCHANGED <<vAsk, vZone, vEvent, vSaw, vSent, vBefore, vEarly>>

\* Somebody else moves the event before the command writes it.
EventMoved(event) ==
  /\ vStep = "send" /\ vAsk.op = "update" /\ vEvent = vBefore
  /\ vEvent' = event
  /\ UNCHANGED <<vStep, vAsk, vZone, vSaw, vSent, vBefore, vEarly, vEnd>>

\* A current end, as it is parsed back from the answer.
CurrentWhen(time) == IF time.dateTime # NoValue THEN Instant(time.dateTime) ELSE Date(time.date)

\* update with --start alone: the length of the event as it was read.
KeepLength(start) ==
  IF vSaw = NoValue THEN NoValue
  ELSE LET from == CurrentWhen(vSaw.start)
           to == CurrentWhen(vSaw.end)
       IN  IF "date" \notin {from.kind, start.kind}
             THEN Checked(start, Plus(start, to.at - from.at, vZone), vZone)
           ELSE IF from.kind = start.kind
             THEN Checked(start, Date(start.at + (to.at - from.at)), vZone)
           ELSE NoValue

\* The range to write, or NoValue if it is refused.
EventRange ==
  LET start == IF vAsk.start # NoValue THEN vAsk.start
               ELSE IF vSaw # NoValue THEN CurrentWhen(vSaw.start) ELSE NoValue
  IN  IF start = NoValue THEN NoValue
      ELSE IF vAsk.op = "update" /\ vAsk.end = NoValue /\ vAsk.duration = NoValue
        THEN KeepLength(start)
      ELSE ResolveRange(start, vAsk.end, vAsk.duration, vZone)

\* TzInfo::for_event: both ends state the zone one of them was read in.
ForEvent(range) ==
  IF vAsk.zone # NoValue \/ IsLocal(range[1]) \/ IsLocal(range[2]) THEN vZone ELSE NoValue

\* The zone an end keeps: that of the event as it was read.
CurrentZone(end) == IF KeepsEventZone /\ vSaw # NoValue THEN vSaw[end].zone ELSE NoValue

\* When::to_event_time
ToEventTime(when, zone) ==
  IF when.kind = "date" THEN [date |-> when.at]
  ELSE IF zone = NoValue THEN [dateTime |-> when] ELSE [dateTime |-> when, zone |-> zone]

\* Mutant: the field of the other kind is left as it is.
PatchEventTimeMerged(when, zone) == ToEventTime(when, zone)

Clearing(time, field) == [f \in DOMAIN time \cup {field} |-> IF f = field THEN NoValue ELSE time[f]]

\* patch_event_time: the field of the other kind is cleared.
PatchEventTime(when, zone) ==
  Clearing(ToEventTime(when, zone), IF when.kind = "date" THEN "dateTime" ELSE "date")

\* The start and end of the request.
Body(range) ==
  LET zone(end) == IF ForEvent(range) # NoValue THEN ForEvent(range) ELSE CurrentZone(end)
  IN  IF vAsk.op = "insert"
        THEN [start |-> ToEventTime(range[1], ForEvent(range)),
              end |-> ToEventTime(range[2], ForEvent(range))]
      ELSE [start |-> PatchEventTime(range[1], zone("start")),
            end |-> PatchEventTime(range[2], zone("end"))]

\* The server merges what is written into what it has; a local time that is
\* ambiguous it may read either way.
Merged(current, written) ==
  LET time == [f \in DOMAIN current |-> IF f \in DOMAIN written THEN written[f] ELSE current[f]]
      said == time.dateTime
  IN  IF said = NoValue \/ "dateTime" \notin DOMAIN written THEN {time}
      ELSE {[time EXCEPT !.dateTime = u] :
              u \in IF said.kind = "instant" THEN {said.at} ELSE Instants(time.zone, said.at)}

EventSend ==
  /\ vStep = "send"
  /\ IF EventRange = NoValue THEN EventEnds("validation") /\ UNCHANGED <<vEvent, vSent>>
     ELSE /\ vSent' = Body(EventRange)
          /\ EventEnds("ok")
          /\ LET old == IF vEvent = NoValue THEN [start |-> Unset, end |-> Unset] ELSE vEvent
             IN  IF vAsk.dryRun THEN UNCHANGED vEvent
                 ELSE \E s \in Merged(old.start, vSent'.start), e \in Merged(old.end, vSent'.end) :
                        vEvent' = [start |-> s, end |-> e]
  /\ UNCHANGED <<vAsk, vZone, vSaw, vBefore, vEarly>>

EventNext ==
  \/ /\ vStep = "off"
     /\ \E ask \in EventAsk, event \in EventOnServer :
          EventBegin(ask, IF ask.op = "insert" THEN NoValue ELSE event)
  \/ EventDeclined \/ EventZoneFails \/ EventRead \/ EventFails \/ EventSend
  \/ \E z \in LocalZone : EventZone(z)
  \/ \E event \in EventOnServer : EventMoved(event)

EventTypeOK ==
  /\ vStep \in {"off", "checked", "read", "send", "over"}
  /\ vAsk = NoValue \/ (vAsk.op \in {"insert", "update"} /\ vAsk.dryRun \in BOOLEAN)
  /\ vZone \in Opt(LocalZone \cup {"utc"})
  /\ \A event \in {vEvent, vSaw, vBefore} :
       event = NoValue \/ {event.start, event.end} \subseteq EventTime
  /\ vEarly \in BOOLEAN /\ vEnd \in Opt(Ending)

------------------------------------------------------------------------------
EventWritten == vEnd = "ok" /\ ~vAsk.dryRun
Ambiguous(when) ==
  IsLocal(when) /\ Cardinality(Instants(vZone, when.at)) > 1
Length(event) ==
  IF event.end.date # NoValue THEN event.end.date - event.start.date
  ELSE event.end.dateTime - event.start.dateTime
SameTime(time, when) ==
  IF when.kind = "date" THEN time.date = when.at
  ELSE time.dateTime \in IF when.kind = "instant" THEN {when.at} ELSE Instants(vZone, when.at)

\* Whoever moved it meanwhile, the event that was written has two ends of one kind,
\* the second after the first (unless the user names an hour that comes twice).
EventIsARange ==
  EventWritten =>
    /\ \A time \in {vEvent.start, vEvent.end} : time.date = NoValue <=> time.dateTime # NoValue
    /\ vEvent.start.date = NoValue <=> vEvent.end.date = NoValue
    /\ Ambiguous(vAsk.start) \/ Ambiguous(vAsk.end) \/ Length(vEvent) > 0

\* It starts and ends when the user said; a length that was said, or that of the event
\* as it was read, is kept in real time across a change of the clocks.
TimesAsSaid ==
  EventWritten =>
    /\ vAsk.start # NoValue => SameTime(vEvent.start, vAsk.start)
    /\ vAsk.end # NoValue => SameTime(vEvent.end, vAsk.end)
    /\ vAsk.end = NoValue /\ ~Ambiguous(vAsk.start) =>
         Length(vEvent) = IF vAsk.duration # NoValue THEN vAsk.duration
                          ELSE IF vAsk.op = "update" THEN Length(vSaw) ELSE 1

\* An end whose zone nobody asked to change states the zone it had.
ZonesKept ==
  EventWritten /\ vAsk.op = "update" /\ KeepsEventZone =>
    \A end \in {"start", "end"} :
      vSent[end].date = NoValue /\ vBefore[end].zone # NoValue =>
        "zone" \in DOMAIN vSent[end] /\ vSent[end].zone = vBefore[end].zone

\* Only what no zone would make right is refused from the command line alone; and with
\* all there is to know on the command line, the user is not asked about a range that
\* is then refused.
PrecheckRight ==
  /\ vEarly => \A z \in IF vAsk.zone # NoValue THEN {vAsk.zone} ELSE LocalZone :
       ResolveRange(vAsk.start, vAsk.end, vAsk.duration, z) = NoValue
  /\ /\ vEnd = "validation" /\ ~vEarly /\ vAsk.start # NoValue
     /\ vAsk.op = "insert" \/ vAsk.end # NoValue \/ vAsk.duration # NoValue
     => vAsk.zone = NoValue /\ SaysLocal(vAsk)

\* calendar +insert and +update write the times that were asked for.
EventTimesCorrect == EventIsARange /\ TimesAsSaid /\ ZonesKept /\ PrecheckRight
===============================================================================
