------------------------------- MODULE RemoteEdit ------------------------------
(***************************************************************************)
(* Commands that read an object, and write back what they make of it:      *)
(*   calendar +update, +rsvp   the guest list of an event, which a PATCH   *)
(*                             replaces as a whole                         *)
(*   drive +move               the parents of a file                       *)
(* Nothing keeps others from changing the object between the two requests. *)
(***************************************************************************)
EXTENDS Outcome, FiniteSets

CONSTANTS
  Guest,
  Me,       \* the user, one of the guests an event may have
  Folder,
  Root      \* My Drive, which "root" is an alias for

Response == {"needsAction", "accepted"}

ASSUME EditAssumption ==
  Me \in Guest /\ Root \in Folder /\ "root" \notin Folder /\ NoValue \notin Response

VARIABLES
  eStep,       \* "off", read, lookup, patch, over
  eAsk,        \* the command: [op, add, remove, dest]
  eGuests,     \* for each guest, their response to the event, or NoValue
  eHides,      \* whether the user is shown only their own entry (attendeesOmitted)
  eParents,    \* the parents of the file
  eSaw,        \* what was read
  eDest,       \* the destination's real ID
  eBefore,     \* history: guests and parents as they were when they were read
  eMeanwhile,  \* history: guests others have changed since
  eEnd

editVars == <<eStep, eAsk, eGuests, eHides, eParents, eSaw, eDest, eBefore, eMeanwhile, eEnd>>
remote == <<eGuests, eHides, eParents>>

GuestList == [Guest -> Response \cup {NoValue}]

EditAsk ==
  [op : {"update"}, add : SUBSET Guest, remove : SUBSET Guest, dest : {NoValue}]
    \cup [op : {"rsvp"}, add : {{}}, remove : {{}}, dest : {NoValue}]
    \cup [op : {"move"}, add : {{}}, remove : {{}}, dest : Folder \cup {"root"}]

EditInit ==
  /\ eStep = "off" /\ eAsk = NoValue
  /\ eGuests = [g \in Guest |-> NoValue] /\ eHides = FALSE /\ eParents = {Root}
  /\ eSaw = NoValue /\ eDest = NoValue /\ eBefore = NoValue /\ eMeanwhile = {}
  /\ eEnd = NoValue

\* The guest list is read only if it is to be changed.
EditBegin(ask, guests, hides, parents) ==
  /\ eStep = "off"
  /\ eAsk' = ask /\ eGuests' = guests /\ eHides' = hides /\ eParents' = parents
  /\ eStep' = IF ask.op = "update" /\ ask.add = {} /\ ask.remove = {} THEN "patch" ELSE "read"
  /\ UNCHANGED <<eSaw, eDest, eBefore, eMeanwhile, eEnd>>

EditEnds(ending) == eStep' = "over" /\ eEnd' = ending

\* What the user is shown of the guests.
Shown == IF eHides THEN [g \in Guest |-> IF g = Me THEN eGuests[g] ELSE NoValue] ELSE eGuests

EditRead ==
  /\ eStep = "read"
  /\ eSaw' = [guests |-> Shown, omitted |-> eHides, parents |-> eParents]
  /\ eBefore' = eGuests
  /\ eStep' = IF eAsk.op = "move" THEN "lookup" ELSE "patch"
  /\ UNCHANGED <<eAsk, remote, eDest, eMeanwhile, eEnd>>

\* Somebody responds, is invited or is removed by another; the file is moved.
OthersEdit(g, response) ==
  /\ eStep \in {"read", "lookup", "patch"} /\ eAsk.op # "move"
  /\ eGuests' = [eGuests EXCEPT ![g] = response]
  /\ eMeanwhile' = IF eStep = "read" THEN {} ELSE eMeanwhile \cup {g}
  /\ UNCHANGED <<eStep, eAsk, eHides, eParents, eSaw, eDest, eBefore, eEnd>>

OthersMove(folder) ==
  /\ eStep \in {"read", "lookup", "patch"} /\ eAsk.op = "move" /\ eParents # {folder}
  /\ eParents' = {folder}
  /\ UNCHANGED <<eStep, eAsk, eGuests, eHides, eSaw, eDest, eBefore, eMeanwhile, eEnd>>

EditFails ==
  /\ eStep \in {"read", "lookup", "patch"}
  /\ \E e \in {"api", "network", "retryable"} : EditEnds(e)
  /\ UNCHANGED <<eAsk, remote, eSaw, eDest, eBefore, eMeanwhile>>

\* A PATCH of the guests: the entries sent are all there are from now on, or, with
\* attendeesOmitted, only they change.
Patched(body) ==
  IF body.omitted THEN [g \in Guest |-> IF body.guests[g] = NoValue THEN eGuests[g] ELSE body.guests[g]]
  ELSE body.guests

Written(body) ==
  /\ eGuests' = Patched(body)
  /\ EditEnds("ok")
  /\ UNCHANGED <<eHides, eParents>>

\* A partial list is not written back; who is removed must be on it.
Updatable == ~eSaw.omitted /\ \A g \in eAsk.remove : eSaw.guests[g] # NoValue

\* The list read, without those removed, with those added who are not on it.
NewList ==
  [g \in Guest |->
     LET kept == IF g \in eAsk.remove THEN NoValue ELSE eSaw.guests[g] IN
       IF kept = NoValue /\ g \in eAsk.add THEN "needsAction" ELSE kept]

\* calendar +update.
UpdateGuests ==
  /\ eStep = "patch" /\ eAsk.op = "update"
  /\ \/ eAsk.add \cup eAsk.remove = {} /\ EditEnds("ok") /\ UNCHANGED remote
     \/ /\ eAsk.add \cup eAsk.remove # {}
        /\ IF Updatable THEN Written([guests |-> NewList, omitted |-> FALSE])
           ELSE EditEnds("validation") /\ UNCHANGED remote
  /\ UNCHANGED <<eAsk, eSaw, eDest, eBefore, eMeanwhile>>

Responded == [eSaw.guests EXCEPT ![Me] = "accepted"]

\* Mutant: the list as it was shown is sent.
RsvpBodyAsShown == [guests |-> Responded, omitted |-> FALSE]

\* With a partial list only the user's own entry is sent, marked as such.
RsvpBody == [guests |-> Responded, omitted |-> eSaw.omitted]

\* calendar +rsvp.
Rsvp ==
  /\ eStep = "patch" /\ eAsk.op = "rsvp"
  /\ IF eSaw.guests[Me] # NoValue THEN Written(RsvpBody) ELSE EditEnds("validation") /\ UNCHANGED remote
  /\ UNCHANGED <<eAsk, eSaw, eDest, eBefore, eMeanwhile>>

\* The folder Drive takes a name for.
Resolved(name) == IF name = "root" THEN Root ELSE name

\* Mutant: the name given for the folder is compared with the parents.
RealIdAsGiven(dest) == dest

\* folder_real_id: parents are real IDs, never an alias.
RealId(dest) == Resolved(dest)

LookUp ==
  /\ eStep = "lookup"
  /\ eDest' = RealId(eAsk.dest)
  /\ IF eSaw.parents = {eDest'} THEN EditEnds("validation") ELSE eStep' = "patch" /\ UNCHANGED eEnd
  /\ UNCHANGED <<eAsk, remote, eSaw, eBefore, eMeanwhile>>

\* drive +move: addParents and removeParents, the parents read.
Move ==
  /\ eStep = "patch" /\ eAsk.op = "move"
  /\ eParents' = (eParents \cup {Resolved(eDest)}) \ (eSaw.parents \ {eDest})
  /\ EditEnds("ok")
  /\ UNCHANGED <<eAsk, eGuests, eHides, eSaw, eDest, eBefore, eMeanwhile>>

EditNext ==
  \/ /\ eStep = "off"
     /\ \E ask \in EditAsk, guests \in GuestList, hides \in BOOLEAN, parents \in (SUBSET Folder) \ {{}} :
          /\ IF ask.op = "move" THEN guests = [g \in Guest |-> NoValue] /\ ~hides ELSE parents = {Root}
          /\ EditBegin(ask, guests, hides, parents)
  \/ EditRead \/ EditFails \/ UpdateGuests \/ Rsvp \/ LookUp \/ Move
  \/ \E g \in Guest, response \in Response \cup {NoValue} : eStep # "off" /\ OthersEdit(g, response)
  \/ \E folder \in Folder : eStep # "off" /\ OthersMove(folder)

EditSpec == EditInit /\ [][EditNext]_editVars

EditTypeOK ==
  /\ eStep \in {"off", "read", "lookup", "patch", "over"}
  /\ eAsk \in EditAsk \cup {NoValue}
  /\ eGuests \in GuestList /\ eHides \in BOOLEAN /\ eParents \subseteq Folder
  /\ eDest \in Folder \cup {NoValue}
  /\ eBefore \in GuestList \cup {NoValue} /\ eMeanwhile \subseteq Guest
  /\ eEnd \in Ending \cup {NoValue}

\* What the command is to make of a guest.
Intended(g) ==
  IF eEnd # "ok" \/ eAsk.op = "move" THEN eBefore[g]
  ELSE IF eAsk.op = "rsvp" THEN IF g = Me THEN "accepted" ELSE eBefore[g]
  ELSE IF g \in eAsk.remove \ eAsk.add THEN NoValue
  ELSE IF g \in eAsk.add /\ (eBefore[g] = NoValue \/ g \in eAsk.remove) THEN "needsAction"
  ELSE eBefore[g]

\* Nobody is uninvited, and nobody's response lost, whom the command does not name:
\* not the guests that are hidden from the user, and not those a list shows only a
\* part of.  (Excepted are the guests whom others change after the list was read.)
OthersStayInvited ==
  eStep = "over" /\ eBefore # NoValue =>
    \A g \in Guest \ eMeanwhile : eGuests[g] = Intended(g)

\* A file is never left without a parent, whatever name its folder is given, and
\* after a move it is in the folder it was moved to.
FileKeepsParent ==
  /\ eParents # {}
  /\ eEnd = "ok" /\ eAsk.op = "move" => Resolved(eAsk.dest) \in eParents
===============================================================================
