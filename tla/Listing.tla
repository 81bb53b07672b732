-------------------------------- MODULE Listing --------------------------------
(***************************************************************************)
(* Lists that come page by page, read by the helpers' own loops:           *)
(*   "limit"   Api::paginate (helpers/http.rs): stops at a limit           *)
(*   "search"  gmail +search and +triage: up to a maximum, from a token if *)
(*             one is given, then the listed messages are fetched          *)
(*   "whole"   the workflows' get_all_items: everything                    *)
(*   "first"   workflows +meeting-prep: the first entry that is meant      *)
(*                                                                         *)
(* The list of the service does not change; its messages may be deleted    *)
(* after they were listed.  A page token stands for a place in the list.   *)
(* The service is free to repeat a token, which would make the loop run    *)
(* for ever.                                                               *)
(***************************************************************************)
EXTENDS Outcome, SequencesExt

CONSTANTS
  Entries,      \* entries of the list
  ListTurns,    \* bound: tokens the service gives
  MaxFetches    \* messages fetched at once

ASSUME ListingAssumption == Entries \in Nat /\ ListTurns \in Nat \ {0} /\ MaxFetches \in Nat \ {0}

VARIABLES
  nStep,      \* "off", list, fetch, over
  nQuery,     \* what was asked for, [kind, limit, from, meant]
  nPlaces,    \* the place each token stands for
  nToken,     \* the token of the page to read next; 0 is the first page
  nSeen,      \* the tokens followed, or about to be (PageTokens::seen)
  nRead,      \* pages read
  nItems,     \* the entries listed
  nNext,      \* the token returned to the user; 0 is none
  nCut,       \* "truncated" in the answer
  nFetched,   \* for each entry listed, whether it was fetched: wait, got, gone
  nFresh,     \* history: no token was repeated
  nEnd

listVars == <<nStep, nQuery, nPlaces, nToken, nSeen, nRead, nItems, nNext, nCut, nFetched, nFresh, nEnd>>

Slot == 1..Entries
ListQuery ==
  [kind : {"limit", "search", "whole", "first"}, limit : 0..Entries, from : 0..(Entries - 1), meant : SUBSET Slot]

ListInit ==
  /\ nStep = "off" /\ nQuery = NoValue /\ nPlaces = << >> /\ nToken = 0 /\ nSeen = {}
  /\ nRead = 0 /\ nItems = << >> /\ nNext = 0 /\ nCut = FALSE /\ nFetched = << >> /\ nFresh = TRUE /\ nEnd = NoValue

ListEnds(ending) == nStep' = "over" /\ nEnd' = ending

\* A search may begin with the token of an earlier one.  A limit of 0 is none;
\* a search has a maximum.
ListBegin(query) ==
  /\ nStep = "off"
  /\ query.kind = "search" => query.limit > 0
  /\ query.kind \in {"whole", "first"} => query.limit = 0
  /\ query.kind # "first" => query.meant = {}
  /\ query.from # 0 => query.kind = "search"
  /\ nStep' = "list" /\ nQuery' = query
  /\ nPlaces' = IF query.from = 0 THEN << >> ELSE <<query.from>>
  /\ nToken' = Len(nPlaces')
  /\ UNCHANGED <<nSeen, nRead, nItems, nNext, nCut, nFetched, nFresh, nEnd>>

Place == IF nToken = 0 THEN 0 ELSE nPlaces[nToken]

\* Pages: the entries from the place of the page up to a later one.  A search
\* asks for no more than it still wants.
PageEnds ==
  {to \in Place..Entries : nQuery.kind = "search" => to - Place <= nQuery.limit - Len(nItems)}

EntriesTo(to) == [i \in 1..(to - Place) |-> Place + i]

\* The tokens a page may come with: none after the last entry, a new one for the
\* place that follows (also where nothing does), or, which it should not be, one
\* that was given before.
TokensAfter(to) == (IF to = Entries THEN {0} ELSE {}) \cup 1..(Len(nPlaces) + 1)

\* The page is there; "next" is its token.
Answered(to, next) ==
  /\ nStep = "list"
  /\ to \in PageEnds /\ next \in TokensAfter(to) /\ next <= ListTurns
  /\ nPlaces' = IF next > Len(nPlaces) THEN Append(nPlaces, to) ELSE nPlaces
  /\ nRead' = nRead + 1
  /\ nFresh' = (nFresh /\ next \notin 1..Len(nPlaces))
  /\ UNCHANGED nQuery

\* PageTokens::next, and paginate's own: a token followed before is an error.
Turn(next) ==
  \/ next \in nSeen /\ ListEnds("other") /\ UNCHANGED <<nToken, nSeen>>
  \/ next \notin nSeen /\ nToken' = next /\ nSeen' = nSeen \cup {next} /\ UNCHANGED <<nStep, nEnd>>

\* Mutant: the token of a page cut in the middle is returned.
LimitPageToken(to, next) ==
  /\ Answered(to, next) /\ nQuery.kind = "limit"
  /\ LET items == nItems \o EntriesTo(to)
         limit == nQuery.limit
     IN  \/ /\ limit # 0 /\ Len(items) >= limit
            /\ nItems' = SubSeq(items, 1, limit)
            /\ nCut' = (Len(items) > limit \/ next # 0)
            /\ nNext' = next
            /\ ListEnds("ok") /\ UNCHANGED <<nToken, nSeen>>
         \/ /\ ~(limit # 0 /\ Len(items) >= limit)
            /\ nItems' = items
            /\ IF next = 0 THEN ListEnds("ok") /\ UNCHANGED <<nToken, nSeen>> ELSE Turn(next)
            /\ UNCHANGED <<nNext, nCut>>
  /\ UNCHANGED nFetched

\* paginate.  At the limit the rest of the page is dropped; only a cut between
\* two pages can be resumed with a token.
LimitPage(to, next) ==
  /\ Answered(to, next) /\ nQuery.kind = "limit"
  /\ LET items == nItems \o EntriesTo(to)
         limit == nQuery.limit
     IN  \/ /\ limit # 0 /\ Len(items) >= limit
            /\ nItems' = SubSeq(items, 1, limit)
            /\ nCut' = (Len(items) > limit \/ next # 0)
            /\ nNext' = IF Len(items) > limit THEN 0 ELSE next
            /\ ListEnds("ok") /\ UNCHANGED <<nToken, nSeen>>
         \/ /\ ~(limit # 0 /\ Len(items) >= limit)
            /\ nItems' = items
            /\ IF next = 0 THEN ListEnds("ok") /\ UNCHANGED <<nToken, nSeen>> ELSE Turn(next)
            /\ UNCHANGED <<nNext, nCut>>
  /\ UNCHANGED nFetched

\* search: the listing stops at the maximum, and returns the token of the rest.
SearchPage(to, next) ==
  /\ Answered(to, next) /\ nQuery.kind = "search"
  /\ nItems' = nItems \o EntriesTo(to)
  /\ nFetched' = [i \in 1..Len(nItems') |-> "wait"]
  /\ \/ next # 0 /\ next \in nSeen /\ ListEnds("other") /\ UNCHANGED <<nToken, nSeen, nNext>>
     \/ /\ next # 0 /\ next \notin nSeen
        /\ nSeen' = nSeen \cup {next}
        /\ IF Len(nItems') >= nQuery.limit
             THEN nNext' = next /\ nStep' = "fetch" /\ UNCHANGED nToken
             ELSE nToken' = next /\ UNCHANGED <<nNext, nStep>>
        /\ UNCHANGED nEnd
     \/ next = 0 /\ nStep' = "fetch" /\ UNCHANGED <<nToken, nSeen, nNext, nEnd>>
  /\ UNCHANGED nCut

\* Mutant: a repeated token is followed again.
WholePageAgain(to, next) ==
  /\ Answered(to, next) /\ nQuery.kind = "whole"
  /\ nItems' = nItems \o EntriesTo(to)
  /\ IF next = 0 THEN ListEnds("ok") /\ UNCHANGED <<nToken, nSeen>>
     ELSE nToken' = next /\ nSeen' = nSeen \cup {next} /\ UNCHANGED <<nStep, nEnd>>
  /\ UNCHANGED <<nNext, nCut, nFetched>>

\* get_all_items
WholePage(to, next) ==
  /\ Answered(to, next) /\ nQuery.kind = "whole"
  /\ nItems' = nItems \o EntriesTo(to)
  /\ IF next = 0 THEN ListEnds("ok") /\ UNCHANGED <<nToken, nSeen>> ELSE Turn(next)
  /\ UNCHANGED <<nNext, nCut, nFetched>>

\* meeting_prep: the first entry that is meant, on whatever page it is.
FirstPage(to, next) ==
  /\ Answered(to, next) /\ nQuery.kind = "first"
  /\ LET found == nQuery.meant \cap (Place + 1)..to
     IN  \/ /\ found # {}
            /\ nItems' = <<Min(found)>> /\ ListEnds("ok") /\ UNCHANGED <<nToken, nSeen>>
         \/ /\ found = {}
            /\ IF next = 0 THEN ListEnds("ok") /\ UNCHANGED <<nToken, nSeen>> ELSE Turn(next)
            /\ UNCHANGED nItems
  /\ UNCHANGED <<nNext, nCut, nFetched>>

\* A page cannot be had.
PageFails ==
  /\ nStep = "list" /\ ListEnds("api")
  /\ UNCHANGED <<nQuery, nPlaces, nToken, nSeen, nRead, nItems, nNext, nCut, nFetched, nFresh>>

-------------------------------------------------------------------------------
\* The fetches of a search: the oldest that is not back and those after it.
InFlight ==
  LET waiting == {i \in 1..Len(nItems) : nFetched[i] = "wait"}
  IN  {i \in waiting : \A j \in waiting : i < j + MaxFetches}

\* The messages that were there, in the order of the list: of the first i, of all.
LeftOf[i \in 0..Len(nItems)] ==
  IF i = 0 THEN << >>
  ELSE IF nFetched[i] = "got" THEN Append(LeftOf[i - 1], nItems[i]) ELSE LeftOf[i - 1]

MessagesLeft == LeftOf[Len(nItems)]

\* Back, or deleted since it was listed.
MessageFetched(i) ==
  /\ nStep = "fetch" /\ i \in InFlight
  /\ \E r \in {"got", "gone"} : nFetched' = [nFetched EXCEPT ![i] = r]
  /\ UNCHANGED <<nStep, nQuery, nPlaces, nToken, nSeen, nRead, nItems, nNext, nCut, nFresh, nEnd>>

\* Any other failure is that of the search.
FetchFails ==
  /\ nStep = "fetch" /\ InFlight # {} /\ ListEnds("api")
  /\ UNCHANGED <<nQuery, nPlaces, nToken, nSeen, nRead, nItems, nNext, nCut, nFetched, nFresh>>

\* Mutant: the search ends with the first message that is gone.
SearchDoneShort ==
  /\ nStep = "fetch"
  /\ InFlight = {} \/ \E i \in 1..Len(nItems) : nFetched[i] = "gone"
  /\ nItems' = MessagesLeft
  /\ ListEnds("ok")
  /\ UNCHANGED <<nQuery, nPlaces, nToken, nSeen, nRead, nNext, nCut, nFetched, nFresh>>

\* All are back.
SearchDone ==
  /\ nStep = "fetch" /\ InFlight = {}
  /\ nItems' = MessagesLeft
  /\ ListEnds("ok")
  /\ UNCHANGED <<nQuery, nPlaces, nToken, nSeen, nRead, nNext, nCut, nFetched, nFresh>>

ListNext ==
  \/ \E query \in ListQuery : ListBegin(query)
  \/ \E to \in 0..Entries, next \in 0..ListTurns :
       LimitPage(to, next) \/ SearchPage(to, next) \/ WholePage(to, next) \/ FirstPage(to, next)
  \/ PageFails
  \/ (\E i \in Slot : MessageFetched(i)) \/ FetchFails \/ SearchDone

-------------------------------------------------------------------------------
ListTypeOK ==
  /\ nStep \in {"off", "list", "fetch", "over"}
  /\ nQuery \in ListQuery \cup {NoValue}
  /\ Len(nPlaces) <= ListTurns /\ nToken \in 0..Len(nPlaces) /\ nNext \in 0..Len(nPlaces)
  /\ nSeen \subseteq 1..Len(nPlaces)
  /\ nRead \in Nat /\ nCut \in BOOLEAN
  /\ nEnd \in Ending \cup {NoValue}

Listed == nStep = "over" /\ nEnd = "ok"

\* The entries from a place on, as many as "many".
From(place, many) == [i \in 1..many |-> place + i]

\* What is left out of an answer is announced: an answer with no mark is the whole
\* list, and a token continues exactly where the answer ends, with nothing lost and
\* nothing twice.
LimitAnnounced ==
  Listed /\ nQuery.kind = "limit" =>
    /\ nItems = From(0, Len(nItems))
    /\ Len(nItems) < Entries => nCut
    /\ nFresh /\ nNext # 0 => nPlaces[nNext] = Len(nItems)

\* A search answers with every message it listed that is still there, in the order
\* of the list, and its token continues after the last one listed.
SearchContinues ==
  Listed /\ nQuery.kind = "search" /\ nFresh =>
    LET listed == Len(nFetched)
    IN  /\ \A i \in 1..listed : nFetched[i] # "wait"
        /\ ToSet(nItems) = {nQuery.from + i : i \in {k \in 1..listed : nFetched[k] = "got"}}
        /\ \A i, j \in 1..Len(nItems) : i < j => nItems[i] < nItems[j]
        /\ IF nNext = 0 THEN nQuery.from + listed = Entries ELSE nPlaces[nNext] = nQuery.from + listed

\* A report over a list is over all of it, and the next meeting is the first there
\* is, whatever page it is on, also if earlier pages are empty.
ReportsWhole ==
  /\ Listed /\ nQuery.kind = "whole" => nItems = From(0, Entries)
  /\ Listed /\ nQuery.kind = "first" =>
       nItems = IF nQuery.meant = {} THEN << >>
                ELSE <<CHOOSE e \in nQuery.meant : \A d \in nQuery.meant : e <= d>>

\* A service that repeats its tokens does not keep a command busy for ever: no token
\* is used for more than one page, but for the one a search was given.
PagesEnd == nRead <= Len(nPlaces) + 1

===============================================================================
