------------------------------- MODULE PageTable -------------------------------
(***************************************************************************)
(* Tables and CSV of a stream (PageStream of formatter.rs): the pages of   *)
(* --page-all, or the single items of --page-items and of a batch, one     *)
(* rendering after the other, under one header.                            *)
(*                                                                         *)
(* A row is the set of its (flattened) keys.  What stands in its cells is  *)
(* the number of the row, 0 for an empty cell.  CSV of rows that are no    *)
(* objects has no header and is not modelled.                              *)
(***************************************************************************)
EXTENDS Outcome, SequencesExt

CONSTANTS
  ColumnKey,  \* keys of rows
  MaxRows,   \* bound: rows of the stream
  MaxPages   \* bound: pages of the stream

ASSUME PageTableAssumption ==
  MaxRows \in Nat /\ MaxPages \in Nat /\ IsFiniteSet(ColumnKey)
  /\ NoValue \notin Seq(ColumnKey) /\ \A keys \in SUBSET ColumnKey : NoValue # keys

VARIABLES
  tAsked,     \* [table, items, selected]: not CSV; a stream of items; --columns
  tPages,     \* renderings so far
  tGiven,     \* history: the rows of the pages so far
  tStarted,   \* PageStream::started
  tColumns,   \* the columns of PageStream::layout, NoValue before there is one
  tOmitted,   \* PageStream::omitted: the keys warned of
  tUnseen,    \* PageStream::unseen, NoValue before the first row
  tOut,       \* the lines printed, [header, cells]
  tEnd

tableVars == <<tAsked, tPages, tGiven, tStarted, tColumns, tOmitted, tUnseen, tOut, tEnd>>

\* --columns: distinct names, or none.
Selections == {NoValue} \cup {s \in UNION {[1..n -> ColumnKey] : n \in 1..2} : IsInjective(s)}

TableAsked == [table : BOOLEAN, items : BOOLEAN, selected : Selections]

ASSUME AskedAssumption == NoValue \notin TableAsked

TableInit ==
  /\ tAsked = NoValue /\ tPages = 0 /\ tGiven = << >> /\ tStarted = FALSE
  /\ tColumns = NoValue /\ tOmitted = {} /\ tUnseen = NoValue /\ tOut = << >> /\ tEnd = NoValue

TableBegin(table, items, selected) ==
  /\ tAsked = NoValue
  /\ tAsked' = [table |-> table, items |-> items, selected |-> selected]
  /\ UNCHANGED <<tPages, tGiven, tStarted, tColumns, tOmitted, tUnseen, tOut, tEnd>>

\* tabulate: the keys in the order they are first seen.
KeysInOrder(rows) ==
  LET keys[i \in 0..Len(rows)] ==
        IF i = 0 THEN << >> ELSE keys[i - 1] \o SetToSeq(rows[i] \ ToSet(keys[i - 1]))
  IN  keys[Len(rows)]

\* Mutant: every page lays out its own columns.
PageColumnsFresh(rows) ==
  IF tAsked.selected # NoValue THEN tAsked.selected ELSE KeysInOrder(rows)

\* The columns of the page: those of the header that was printed, those asked for,
\* or those there are.
PageColumns(rows) ==
  IF tColumns # NoValue THEN tColumns
  ELSE IF tAsked.selected # NoValue THEN tAsked.selected
  ELSE KeysInOrder(rows)

\* A column asked for that the first page does not have; an item may lack it.
MissingColumns(rows) ==
  IF tColumns # NoValue \/ tAsked.selected = NoValue \/ tAsked.items THEN {}
  ELSE ToSet(tAsked.selected) \ ToSet(KeysInOrder(rows))

\* Mutant: a key no column is there for is dropped.
LateNone(rows) == {}

\* Keys that come too late for the header.
Late(rows) ==
  IF tColumns = NoValue \/ tAsked.selected # NoValue THEN {}
  ELSE ToSet(KeysInOrder(rows)) \ ToSet(tColumns)

Emptiness == [header |-> FALSE, cells |-> << >>]
Header(columns) == [header |-> TRUE, cells |-> columns]
Record(columns, row, number) ==
  [header |-> FALSE, cells |-> [c \in DOMAIN columns |-> IF columns[c] \in row THEN number ELSE 0]]

Lines(columns, rows) ==
  (IF tColumns = NoValue THEN <<Header(columns)>> ELSE << >>)
    \o [r \in DOMAIN rows |-> Record(columns, rows[r], Len(tGiven) + r)]

\* Mutant: the columns seen are those of the last item.
StillUnseenLast(rows) == ToSet(tAsked.selected) \ ToSet(KeysInOrder(rows))

\* saw_columns
StillUnseen(rows) ==
  (IF tUnseen = NoValue THEN ToSet(tAsked.selected) ELSE tUnseen) \ ToSet(KeysInOrder(rows))

\* A page with rows, or an item.
TablePage(rows) ==
  /\ tAsked # NoValue /\ tEnd = NoValue /\ tPages < MaxPages
  /\ rows # << >> /\ Len(tGiven) + Len(rows) <= MaxRows
  /\ tAsked.items => Len(rows) = 1
  /\ IF MissingColumns(rows) # {}
       THEN tEnd' = "validation" /\ UNCHANGED <<tGiven, tStarted, tColumns, tOmitted, tUnseen, tOut>>
       ELSE /\ tOut' = tOut \o Lines(PageColumns(rows), rows)
            /\ tColumns' = PageColumns(rows)
            /\ tOmitted' = tOmitted \cup Late(rows)
            /\ tUnseen' = IF tAsked.items /\ tAsked.selected # NoValue THEN StillUnseen(rows) ELSE tUnseen
            /\ tGiven' = tGiven \o rows
            /\ tStarted' = TRUE
            /\ UNCHANGED tEnd
  /\ tPages' = tPages + 1
  /\ UNCHANGED tAsked

\* A page without rows: a table that begins with one says "(empty)".
TableEmptyPage ==
  /\ tAsked # NoValue /\ tEnd = NoValue /\ tPages < MaxPages /\ ~tAsked.items
  /\ tOut' = IF tAsked.table /\ ~tStarted THEN Append(tOut, Emptiness) ELSE tOut
  /\ tStarted' = TRUE
  /\ tPages' = tPages + 1
  /\ UNCHANGED <<tAsked, tGiven, tColumns, tOmitted, tUnseen, tEnd>>

\* finish: a column no item had is an error.
TableFinish ==
  /\ tAsked # NoValue /\ tEnd = NoValue
  /\ tEnd' = IF tUnseen \in {NoValue, {}} THEN "ok" ELSE "validation"
  /\ UNCHANGED <<tAsked, tPages, tGiven, tStarted, tColumns, tOmitted, tUnseen, tOut>>

TableNext ==
  \/ \E table, items \in BOOLEAN, selected \in Selections : TableBegin(table, items, selected)
  \/ \E n \in 1..MaxRows : \E rows \in [1..n -> SUBSET ColumnKey] : TablePage(rows)
  \/ TableEmptyPage \/ TableFinish

-------------------------------------------------------------------------------
TableTypeOK ==
  /\ tAsked \in TableAsked \cup {NoValue}
  /\ tPages \in 0..MaxPages /\ Len(tGiven) <= MaxRows /\ tStarted \in BOOLEAN
  /\ tColumns # NoValue => ToSet(tColumns) \subseteq ColumnKey
  /\ tOmitted \subseteq ColumnKey
  /\ tUnseen \in {NoValue} \cup SUBSET ColumnKey
  /\ tEnd \in {"ok", "validation", NoValue}

\* However many pages there are, one header is printed, before the first record, and
\* each row is a record under it, in order: a value stands in the column of its key,
\* and a key the row lacks is an empty cell.  Before it stands one "(empty)" at most.
RowsAligned ==
  \E before \in 0..1 :
    /\ \A i \in 1..before : tOut[i] = Emptiness
    /\ IF tColumns = NoValue THEN Len(tOut) = before /\ Len(tGiven) = 0
       ELSE /\ Len(tOut) = before + 1 + Len(tGiven)
            /\ tOut[before + 1] = Header(tColumns)
            /\ \A r \in DOMAIN tGiven : tOut[before + 1 + r] = Record(tColumns, tGiven[r], r)

\* No value is left out in silence: its key is a column, or was warned of, or other
\* columns were asked for.  Nor is a name in --columns that no item has: a stream of
\* items ends with an error if and only if there is one, whichever item comes first.
NothingSilent ==
  tAsked # NoValue =>
    /\ tAsked.selected = NoValue /\ tColumns # NoValue =>
         \A r \in DOMAIN tGiven : tGiven[r] \subseteq ToSet(tColumns) \cup tOmitted
    /\ tAsked.selected # NoValue /\ tEnd = "ok" /\ tGiven # << >> =>
         \A c \in ToSet(tAsked.selected) : \E r \in DOMAIN tGiven : c \in tGiven[r]
    /\ tAsked.items /\ tEnd = "validation" =>
         \E c \in ToSet(tAsked.selected) : \A r \in DOMAIN tGiven : c \notin tGiven[r]

TableCorrect == RowsAligned /\ NothingSilent

===============================================================================
