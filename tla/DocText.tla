-------------------------------- MODULE DocText --------------------------------
(***************************************************************************)
(* docs +write and +create with --markdown (helpers/docs/markdown.rs): the *)
(* events of a Markdown parser are flattened into text, paragraphs and     *)
(* spans of it, and these into one batchUpdate of a document.  A request   *)
(* names its place by an index, and the last ones remove tabs, so every    *)
(* range must be right at the moment its request is carried out.           *)
(*                                                                         *)
(* A text is one unit, or a tab and one, or, being a control character,    *)
(* none.  A unit carries where it comes from (at), which no code reads.    *)
(***************************************************************************)
EXTENDS Outcome, SequencesExt

CONSTANT MarkdownEvents   \* bound: events of a document, but the first item or text of a construct

ASSUME DocTextAssumption == MarkdownEvents \in Nat

\* A paragraph before its end is known.  None is NoValue.
OpenPara == [start : Nat, kind : {"normal", "quote", "heading", "bullet", "code", "rule"}, list : Nat, ordered : BOOLEAN]
ASSUME OpenParaAssumption == NoValue \notin OpenPara

VARIABLES
  tStep,      \* "off", parse, requests, over
  tOld,       \* the document before: [text, bullet, styled]
  tTags,      \* the parser's open constructs, outermost first
  tCount,     \* events so far
  tSpent,     \* those that count for the bound
  tLine,      \* lines of the source so far
  tCuts,      \* headings, rules, and texts of an item right after a block of it, so far
  tText,      \* the flattened text
  tParas,     \* its paragraphs, [start, end, kind, list, ordered]
  tSpans,     \* its spans, [start, end, style]
  tPara,      \* the open paragraph, [start, kind, list, ordered], or NoValue
  tOpen,      \* where the open spans start
  tLists,     \* the open lists, [ordered, id]
  tListIds,   \* lists so far
  tLineStart, \* the next code text begins a line
  tItemBody,  \* where the content of the current item starts
  tDoc        \* the document after

docVars == <<tStep, tOld, tTags, tCount, tSpent, tLine, tCuts, tText, tParas, tSpans, tPara, tOpen,
             tLists, tListIds, tLineStart, tItemBody, tDoc>>
builderVars == <<tText, tParas, tSpans, tPara, tOpen, tLists, tListIds, tLineStart, tItemBody>>

DocInit ==
  /\ tStep = "off" /\ tOld = NoValue /\ tTags = << >> /\ tCount = 0 /\ tSpent = 0 /\ tLine = 0 /\ tCuts = 0
  /\ tText = << >> /\ tParas = << >> /\ tSpans = << >> /\ tPara = NoValue /\ tOpen = << >>
  /\ tLists = << >> /\ tListIds = 0 /\ tLineStart = FALSE /\ tItemBody = 0 /\ tDoc = NoValue

-------------------------------------------------------------------------------
\* The builder as a record, so that the steps of one event follow each other.
Built == [text |-> tText, paras |-> tParas, spans |-> tSpans, para |-> tPara, open |-> tOpen,
          lists |-> tLists, ids |-> tListIds, lineStart |-> tLineStart, itemBody |-> tItemBody]

Build(b) ==
  /\ tText' = b.text /\ tParas' = b.paras /\ tSpans' = b.spans /\ tPara' = b.para
  /\ tOpen' = b.open /\ tLists' = b.lists /\ tListIds' = b.ids
  /\ tLineStart' = b.lineStart /\ tItemBody' = b.itemBody

Unit(c, at) == [c |-> c, at |-> at]

\* Mutant: characters that Docs drops are counted.
PushTextAll(b, units) == [b EXCEPT !.text = @ \o units]

\* push: without the characters that Docs drops; a text that is one is nothing else.
PushText(b, units) ==
  IF \E i \in DOMAIN units : units[i].c = "control" THEN b ELSE [b EXCEPT !.text = @ \o units]

DocLen(b) == Len(b.text)
InQuote == \E i \in DOMAIN tTags : tTags[i].tag = "quote"
ParaOf(kind, list) == [kind |-> kind, list |-> list.id, ordered |-> list.ordered]
NoList == [id |-> 0, ordered |-> FALSE]

\* begin_para; a normal paragraph of a quote is a quote.
BeginPara(b, para) ==
  IF b.para # NoValue THEN b
  ELSE LET kind == IF para.kind = "normal" /\ InQuote THEN "quote" ELSE para.kind
       IN  [b EXCEPT !.para = [start |-> DocLen(b), kind |-> kind, list |-> para.list, ordered |-> para.ordered]]

EndPara(b) ==
  IF b.para = NoValue THEN b
  ELSE LET closed == PushText(b, <<Unit("nl", NoValue)>>)
           para == [start |-> b.para.start, end |-> DocLen(closed),
                    kind |-> b.para.kind, list |-> b.para.list, ordered |-> b.para.ordered]
       IN  [closed EXCEPT !.paras = Append(@, para), !.para = NoValue]

ListItemKind(b) ==
  IF b.lists = << >> THEN ParaOf("normal", NoList) ELSE ParaOf("bullet", Last(b.lists))

\* Mutant: the tabs of a nested item count as its first line.
BreakLineTabs(b, start) == IF DocLen(b) > start THEN PushText(b, <<Unit("vt", NoValue)>>) ELSE b

\* A line break, unless the item has no content yet: its tabs are none.
BreakLine(b, start) ==
  IF DocLen(b) > start /\ DocLen(b) > b.itemBody THEN PushText(b, <<Unit("vt", NoValue)>>) ELSE b

\* Mutant: a block in an item whose paragraph is closed begins another.
ContinueItemAnew(b) ==
  IF b.para # NoValue THEN BreakLine(b, b.para.start) ELSE BeginPara(b, ListItemKind(b))

\* continue_item: in the open paragraph, or in the last one if that is an item's.
ContinueItem(b) ==
  LET last == Last(b.paras)
      reopened == [b EXCEPT !.text = Front(@), !.paras = Front(@)]
  IN  IF b.para # NoValue THEN BreakLine(b, b.para.start)
      ELSE IF b.paras # << >> /\ last.end = DocLen(b) /\ last.kind = "bullet"
           THEN [BreakLine(reopened, last.start) EXCEPT
                   !.para = [start |-> last.start, kind |-> "bullet", list |-> last.list, ordered |-> last.ordered]]
      ELSE BeginPara(b, ListItemKind(b))

\* text
PutText(b, units) == PushText(IF b.para = NoValue THEN BeginPara(b, ListItemKind(b)) ELSE b, units)

SpanFrom(b, start, style) ==
  IF DocLen(b) > start
  THEN [b EXCEPT !.spans = Append(@, [start |-> start, end |-> DocLen(b), style |-> style])] ELSE b

-------------------------------------------------------------------------------
\* The parser (pulldown-cmark): well-nested constructs.  The items of a tight list hold
\* text, those of a loose one paragraphs; both hold blocks.
Innermost == IF tTags = << >> THEN [tag |-> "document", tight |-> FALSE, n |-> 0, after |-> "start", id |-> 0] ELSE Last(tTags)
Inside(tag) == \E i \in DOMAIN tTags : tTags[i].tag = tag
HoldsBlocks == Innermost.tag \in {"document", "quote", "item"}
HoldsText == Innermost.tag \in {"para", "heading", "strong"} \/ (Innermost.tag = "item" /\ Innermost.tight)

Around(tag) == LET all == SelectSeq(tTags, LAMBDA t : t.tag = tag) IN [i \in DOMAIN all |-> all[i].id]

\* Where a text stands: the lists and items around it and the latest item
\* before it, what it is part of, its line, how often an item was cut in two before it,
\* and whether its own one begins with it.
Origin(code, line, cuts) ==
  [lists |-> Around("list"), items |-> Around("item"), latest |-> tItemBody, code |-> code,
   strong |-> Inside("strong"), heading |-> Inside("heading"), quote |-> InQuote,
   line |-> line, cuts |-> cuts,
   begins |-> \E i \in DOMAIN tTags :
                /\ tTags[i].tag = "item" /\ tTags[i].id = Last(Around("item"))
                /\ \A k \in i..Len(tTags) : tTags[k].tag \in {"item", "quote"} => tTags[k].n <= 1]

\* An event inside the innermost construct; what it follows there is remembered.
Follows(what) ==
  IF tTags = << >> THEN << >> ELSE [tTags EXCEPT ![Len(tTags)].after = what, ![Len(tTags)].n = @ + 1]
Event(cost) ==
  /\ tStep = "parse" /\ tSpent + cost <= MarkdownEvents
  /\ tCount' = tCount + 1 /\ tSpent' = tSpent + cost
  /\ UNCHANGED <<tStep, tOld, tDoc>>
Spends == Event(1)
SpendsUnlessFirst == Event(IF Innermost.n = 0 THEN 0 ELSE 1)
Opens(tag, tight, what) ==
  tTags' = Append(Follows(what), [tag |-> tag, tight |-> tight, n |-> 0, after |-> "start", id |-> tCount])

Line == tLine' = tLine + 1
Cut == tCuts' = tCuts + 1
\* Inline content of a tight item after a block in it.
Trails ==
  IF Innermost.tag = "item" /\ Innermost.after \in {"block", "code"} THEN Line /\ Cut ELSE UNCHANGED <<tLine, tCuts>>

\* docs +write --markdown, +create --markdown.
MarkdownBegin ==
  /\ tStep = "off" /\ tStep' = "parse"
  /\ UNCHANGED <<tOld, tTags, tCount, tSpent, tLine, tCuts, builderVars, tDoc>>

\* Start(Paragraph): a later one of an item continues it.
StartParagraph ==
  /\ Spends /\ HoldsBlocks /\ ~(Innermost.tag = "item" /\ Innermost.tight)
  /\ Opens("para", FALSE, "block")
  /\ Build(IF Built.lists # << >> /\ Built.para = NoValue THEN ContinueItem(Built)
           ELSE BeginPara(Built, ListItemKind(Built)))
  /\ Line /\ IF Built.lists # << >> /\ Innermost.after = "code" THEN Cut ELSE UNCHANGED tCuts

StartHeading ==
  /\ Spends /\ HoldsBlocks
  /\ Opens("heading", FALSE, "block")
  /\ Build(BeginPara(EndPara(Built), ParaOf("heading", NoList)))
  /\ Line /\ Cut

StartQuote ==
  /\ Spends /\ HoldsBlocks /\ ~InQuote
  /\ Opens("quote", FALSE, "block")
  /\ Build(EndPara(Built))
  /\ Line /\ UNCHANGED tCuts

StartCode ==
  /\ Spends /\ HoldsBlocks
  /\ Opens("code", FALSE, "code")
  /\ Build([(IF Built.lists # << >> THEN Built ELSE EndPara(Built)) EXCEPT !.lineStart = TRUE])
  /\ Line /\ UNCHANGED tCuts

\* Mutant: a nested list is a list of its own.
OpenListOwn(b, ordered) ==
  [b EXCEPT !.ids = @ + 1, !.lists = Append(@, [ordered |-> ordered, id |-> b.ids + 1])]

\* A nested list is of the outermost one, so that Docs nests it.
OpenList(b, ordered) ==
  IF b.lists # << >> THEN [b EXCEPT !.lists = Append(@, [ordered |-> b.lists[1].ordered, id |-> b.lists[1].id])]
  ELSE [b EXCEPT !.ids = @ + 1, !.lists = <<[ordered |-> ordered, id |-> b.ids + 1]>>]

StartList(ordered, tight) ==
  /\ Spends /\ HoldsBlocks
  /\ Opens("list", tight, "block")
  /\ Build(OpenList(EndPara(Built), ordered))
  /\ Line /\ UNCHANGED tCuts

\* Start(Item): one tab for each list around its own.
StartItem ==
  /\ SpendsUnlessFirst /\ Innermost.tag = "list"
  /\ Opens("item", Innermost.tight, "block")
  /\ LET begun == EndPara(Built)
         tabbed == PushText(BeginPara(begun, ListItemKind(begun)), [i \in 1..Len(begun.lists) - 1 |-> Unit("tab", NoValue)])
     IN  Build([tabbed EXCEPT !.itemBody = DocLen(tabbed)])
  /\ Line /\ UNCHANGED tCuts

StartStrong ==
  /\ Spends /\ HoldsText /\ Innermost.tag # "strong"
  /\ Trails
  /\ Opens("strong", FALSE, "strong")
  /\ Build([Built EXCEPT !.open = Append(@, DocLen(Built))])

\* End of what is innermost; nothing but an item, a heading or a quote may be empty.
EndTag ==
  /\ tStep = "parse" /\ tTags # << >>
  /\ Innermost.tag \in {"para", "list", "strong", "code"} => Innermost.n > 0
  /\ Innermost.tag = "code" => Innermost.after = "line"
  /\ Innermost.after # "break"
  /\ tTags' = Front(tTags)
  /\ Build(CASE Innermost.tag = "strong" ->
                  [SpanFrom(Built, Last(Built.open), "bold") EXCEPT !.open = Front(@)]
             [] Innermost.tag = "list" -> LET b == EndPara(Built) IN [b EXCEPT !.lists = Front(@)]
             [] Innermost.tag = "code" -> Built
             [] OTHER -> EndPara(Built))
  /\ UNCHANGED <<tStep, tOld, tCount, tSpent, tLine, tCuts, tDoc>>

\* Text outside code.
TextEvent(form) ==
  /\ SpendsUnlessFirst /\ HoldsText /\ Innermost.after # "text"
  /\ form # "plain" => \A k \in DOMAIN tText : tText[k].c # "x"   \* bound: nothing but the first text
  /\ form = "tabbed" => Innermost.n = 0
  /\ Trails
  /\ tTags' = Follows("text")
  /\ LET at == Origin(FALSE, tLine', tCuts')
     IN  Build(PutText(Built, CASE form = "plain" -> <<Unit("x", at)>>
                                [] form = "tabbed" -> <<Unit("tab", at), Unit("x", at)>>
                                [] form = "control" -> <<Unit("control", at)>>))

\* A code text of an item begins a line only where one really starts: the parser may
\* split a line over several events.
LineBegun(b) == IF b.lineStart THEN [ContinueItem(b) EXCEPT !.lineStart = FALSE] ELSE b

\* Text of a code block: a piece of a line, its end, or both.
CodeEvent(piece, ends) ==
  /\ SpendsUnlessFirst /\ Innermost.tag = "code" /\ (piece \/ ends)
  /\ Innermost.after = "text" => ends /\ ~piece
  /\ tTags' = Follows(IF ends THEN "line" ELSE "text")
  /\ LET inItem == Built.lists # << >>
         begun == IF inItem THEN LineBegun(Built) ELSE BeginPara(Built, ParaOf("code", NoList))
         put == SpanFrom(IF piece THEN PushText(begun, <<Unit("x", Origin(TRUE, tLine, tCuts))>>) ELSE begun, DocLen(begun), "code")
     IN  Build(IF inItem THEN [put EXCEPT !.lineStart = ends] ELSE IF ends THEN EndPara(put) ELSE put)
  /\ tLine' = (IF ends THEN tLine + 1 ELSE tLine) /\ UNCHANGED tCuts

\* HardBreak between two texts: in an item a line break, elsewhere another paragraph
\* of the same kind.
HardBreak ==
  /\ Spends /\ Innermost.tag \in {"para", "heading", "item"} /\ Innermost.after \in {"text", "strong"}
  /\ tTags' = Follows("break")
  /\ LET kind == IF Built.para = NoValue THEN ParaOf("normal", NoList)
                 ELSE [kind |-> Built.para.kind, list |-> Built.para.list, ordered |-> Built.para.ordered]
     IN  Build(IF kind.kind = "bullet" THEN ContinueItem(Built) ELSE BeginPara(EndPara(Built), kind))
  /\ Line /\ UNCHANGED tCuts

Rule ==
  /\ Spends /\ HoldsBlocks
  /\ tTags' = Follows("block")
  /\ Build(EndPara(BeginPara(EndPara(Built), ParaOf("rule", NoList))))
  /\ Line /\ Cut

\* The document has been read; one without any text is refused.
Parsed ==
  /\ tStep = "parse" /\ tTags = << >>
  /\ LET b == EndPara(Built) IN Build(b) /\ tStep' = (IF b.text = << >> THEN "over" ELSE "requests")
  /\ UNCHANGED <<tOld, tTags, tCount, tSpent, tLine, tCuts, tDoc>>

-------------------------------------------------------------------------------
\* append_point: before the last line end, after a break if the last paragraph has text.
AppendBase(old) == IF old.text THEN 3 ELSE 1

\* The runs of paragraphs of one list, from the first one of each to its last.
BulletRuns ==
  LET continues(i) == i > 1 /\ tParas[i].kind = "bullet" /\ tParas[i - 1].kind = "bullet"
                        /\ tParas[i].list = tParas[i - 1].list /\ tParas[i].start = tParas[i - 1].end
      firsts == {i \in DOMAIN tParas : tParas[i].kind = "bullet" /\ ~continues(i)}
      lastOf(i) == CHOOSE j \in i..Len(tParas) :
                     (\A k \in i + 1..j : continues(k)) /\ (j = Len(tParas) \/ ~continues(j + 1))
  IN  [i \in firsts |-> lastOf(i)]

\* Mutant: bullets are created in the order of the document.
BulletOrderForward(runs) == SelectSeq([i \in DOMAIN tParas |-> i], LAMBDA i : i \in DOMAIN runs)

\* The last first: creating bullets removes tabs, and so moves what is after them.
BulletOrder(runs) == Reverse(SelectSeq([i \in DOMAIN tParas |-> i], LAMBDA i : i \in DOMAIN runs))

InRange(op, from, to) == [op |-> op, from |-> from, to |-> to, style |-> NoValue, ordered |-> FALSE]

\* to_requests after insertText: undo what is inherited, then paragraphs, spans, bullets.
DocRequests(old) ==
  LET base == AppendBase(old)
      whole(op) == InRange(op, base, base + Len(tText))
      para(p) == [InRange("paragraph", base + p.start, base + p.end) EXCEPT !.style = p.kind]
      span(t) == [InRange("text", base + t.start, base + t.end) EXCEPT !.style = t.style]
      runs == BulletRuns
      bullets(i) == [InRange("bullets", base + tParas[i].start, base + tParas[runs[i]].end) EXCEPT
                       !.ordered = tParas[i].ordered]
      order == BulletOrder(runs)
  IN  <<whole("noBullets"), whole("plainText"), whole("plainParagraph")>>
        \o [i \in DOMAIN tParas |-> para(tParas[i])]
        \o [i \in DOMAIN tSpans |-> span(tSpans[i])]
        \o [i \in DOMAIN order |-> bullets(order[i])]

\* A document (Google Docs): units with the style of text, and at the end of each
\* paragraph the style of it.
DocUnit(c, at, look) ==
  [c |-> c, at |-> at, bold |-> look.bold, mono |-> look.mono, named |-> "NORMAL_TEXT",
   layout |-> look.layout, bullet |-> look.bullet]
OldLook(old) ==
  [bold |-> old.styled, mono |-> FALSE, layout |-> IF old.styled THEN "old" ELSE "none",
   bullet |-> IF old.bullet THEN [list |-> 0, level |-> 0, ordered |-> FALSE] ELSE NoValue]
OldDoc(old) ==
  (IF old.text THEN <<DocUnit("old", NoValue, OldLook(old))>> ELSE << >>) \o <<DocUnit("nl", NoValue, OldLook(old))>>

\* insertText before the last line end: what is inserted looks like what is there.
\* Control characters are dropped, and the paragraph break, if any, comes first.
Inserted(old) ==
  LET kept == SelectSeq((IF old.text THEN <<Unit("nl", NoValue)>> ELSE << >>) \o Front(tText),
                        LAMBDA u : u.c # "control")
  IN  Front(OldDoc(old)) \o [i \in DOMAIN kept |-> DocUnit(kept[i].c, kept[i].at, OldLook(old))] \o <<Last(OldDoc(old))>>

ParagraphEnd(doc, i) == CHOOSE j \in i..Len(doc) : doc[j].c = "nl" /\ \A k \in i..j - 1 : doc[k].c # "nl"
ParagraphEnds(doc, r) == {ParagraphEnd(doc, i) : i \in r.from..(IF r.to - 1 < Len(doc) THEN r.to - 1 ELSE Len(doc))}
ParagraphStart(doc, e) == CHOOSE j \in 1..e : (j = 1 \/ doc[j - 1].c = "nl") /\ \A k \in j..e - 1 : doc[k].c # "nl"
LeadingTabs(doc, e) ==
  LET s == ParagraphStart(doc, e) IN {i \in s..e - 1 : \A k \in s..i : doc[k].c = "tab"}

\* createParagraphBullets: the leading tabs of a paragraph are its level and go away;
\* the list is that of the paragraph before if it looks the same.
MakeBullets(doc, r) ==
  LET ends == ParagraphEnds(doc, r)
      before == ParagraphStart(doc, Min(ends)) - 1
      list == IF before > 0 /\ doc[before].bullet # NoValue /\ doc[before].bullet.ordered = r.ordered
              THEN doc[before].bullet.list ELSE r.from
      tabs == UNION {LeadingTabs(doc, e) : e \in ends}
      marked == [i \in DOMAIN doc |->
                   IF i \notin ends THEN doc[i]
                   ELSE [doc[i] EXCEPT !.bullet = [list |-> list, level |-> Cardinality(LeadingTabs(doc, i)),
                                                   ordered |-> r.ordered]]]
      kept == SelectSeq([i \in DOMAIN doc |-> i], LAMBDA i : i \notin tabs)
  IN  [i \in DOMAIN kept |-> marked[kept[i]]]

\* One request of the batch.
Carried(doc, r) ==
  CASE r.op = "bullets" -> MakeBullets(doc, r)
    [] r.op = "plainText" ->
         [i \in DOMAIN doc |-> IF i \in r.from..r.to - 1 THEN [doc[i] EXCEPT !.bold = FALSE, !.mono = FALSE] ELSE doc[i]]
    [] r.op = "text" ->
         [i \in DOMAIN doc |->
            IF i \notin r.from..r.to - 1 THEN doc[i]
            ELSE IF r.style = "bold" THEN [doc[i] EXCEPT !.bold = TRUE] ELSE [doc[i] EXCEPT !.mono = TRUE]]
    [] OTHER ->
         LET ends == ParagraphEnds(doc, r)
         IN  [i \in DOMAIN doc |->
                IF i \notin ends THEN doc[i]
                ELSE CASE r.op = "noBullets" -> [doc[i] EXCEPT !.bullet = NoValue]
                       [] r.op = "plainParagraph" -> [doc[i] EXCEPT !.layout = "none"]
                       [] r.op = "paragraph" ->
                            [doc[i] EXCEPT !.named = IF r.style = "heading" THEN "HEADING" ELSE "NORMAL_TEXT",
                                           !.layout = IF r.style \in {"quote", "rule"} THEN r.style ELSE @]]

\* write_markdown: the document is read, and one batch carried out in its order.
WriteMarkdown(old) ==
  /\ tStep = "requests"
  /\ tOld' = old /\ tDoc' = FoldLeft(Carried, Inserted(old), DocRequests(old)) /\ tStep' = "over"
  /\ UNCHANGED <<tTags, tCount, tSpent, tLine, tCuts, builderVars>>

DocNext ==
  \/ MarkdownBegin \/ StartParagraph \/ StartHeading \/ StartQuote \/ StartCode \/ StartItem \/ StartStrong
  \/ \E ordered, tight \in BOOLEAN : StartList(ordered, tight)
  \/ \E form \in {"plain", "tabbed", "control"} : TextEvent(form)
  \/ \E piece, ends \in BOOLEAN : CodeEvent(piece, ends)
  \/ HardBreak \/ Rule \/ EndTag \/ Parsed
  \/ \E text, look \in BOOLEAN : WriteMarkdown([text |-> text, bullet |-> look, styled |-> look])

-------------------------------------------------------------------------------
DocTypeOK ==
  /\ tStep \in {"off", "parse", "requests", "over"}
  /\ tOld \in [text : BOOLEAN, bullet : BOOLEAN, styled : BOOLEAN] \cup {NoValue}
  /\ tSpent \in 0..MarkdownEvents /\ tCount \in Nat /\ tLine \in Nat /\ tCuts \in Nat /\ tListIds \in Nat
  /\ tItemBody \in 0..Len(tText) /\ tLineStart \in BOOLEAN
  /\ \A i \in DOMAIN tSpans : tSpans[i].start < tSpans[i].end /\ tSpans[i].style \in {"bold", "code"}

\* The texts of the document, by where they are.
DocTexts == {i \in DOMAIN tDoc : tDoc[i].c = "x"}
LooksOf(i) == tDoc[ParagraphEnd(tDoc, i)]

\* The paragraphs cover the text, one after the other.
ParagraphsCover ==
  tStep = "requests" =>
    /\ tParas # << >> /\ tParas[1].start = 0 /\ Last(tParas).end = Len(tText)
    /\ \A i \in 2..Len(tParas) : tParas[i].start = tParas[i - 1].end

\* Every text looks as it was written, whatever the place it was inserted at looks like;
\* and what was there keeps its look.
TextLooksWritten ==
  tDoc # NoValue =>
    /\ \A i \in DocTexts :
         LET at == tDoc[i].at
             look == LooksOf(i)
         IN  /\ tDoc[i].bold = at.strong /\ tDoc[i].mono = at.code
             /\ look.named = (IF at.heading THEN "HEADING" ELSE "NORMAL_TEXT")
             /\ look.bullet # NoValue <=> at.items # << >> /\ ~at.heading
             /\ look.layout = (IF at.quote /\ at.items = << >> /\ ~at.code /\ ~at.heading THEN "quote" ELSE "none")
    /\ tOld.text =>
         /\ tDoc[1] = OldDoc(tOld)[1]
         /\ tDoc[2] = OldDoc(tOld)[2]

\* The lines of the source are the lines of the document, but for white space, and none
\* begins with a break.  A text right after a code block of its item is an exception: it
\* is put on the last line of the code.
LinesKept ==
  tDoc # NoValue =>
    /\ \A i, j \in DocTexts :
         i < j /\ (\A k \in i + 1..j - 1 : k \notin DocTexts) /\ tDoc[i].at.cuts = tDoc[j].at.cuts =>
           (tDoc[i].at.line # tDoc[j].at.line <=> \E k \in i..j : tDoc[k].c \in {"nl", "vt"})
    /\ \A k \in DOMAIN tDoc : tDoc[k].c = "vt" => tDoc[k - 1].c # "nl"

\* An item is one paragraph: what follows in it, after an item nested in it too, goes on
\* in the paragraph that is there, and two items are never one.  Headings and rules cut
\* an item; so does the text of a tight one after a block in it.
ItemsKept ==
  tDoc # NoValue =>
    \A i, j \in {t \in DocTexts : tDoc[t].at.items # << >> /\ ~tDoc[t].at.heading} :
      LET a == tDoc[i].at
          b == tDoc[j].at
          same == ParagraphEnd(tDoc, i) = ParagraphEnd(tDoc, j)
      IN  i < j =>
            /\ same => IsPrefix(b.items, a.items)
            /\ a.cuts = b.cuts /\ a.latest = b.latest => same

\* A list is one list, at the right levels, numbered if its outermost one is; two lists
\* one after the other are two.  (Docs takes a tab of the text itself for a level.)
ListsKept ==
  tDoc # NoValue =>
    \A i, j \in {t \in DocTexts : tDoc[t].at.items # << >> /\ ~tDoc[t].at.heading} :
      LET a == tDoc[i].at
          b == tDoc[j].at
      IN  /\ a.cuts = b.cuts /\ a.lists[1] = b.lists[1] => LooksOf(i).bullet.list = LooksOf(j).bullet.list
          /\ a.lists[1] # b.lists[1] => LooksOf(i).bullet.list # LooksOf(j).bullet.list
          /\ a.cuts = 0 /\ a.begins /\ (\A k \in DOMAIN tText : tText[k].c = "tab" /\ tText[k].at # NoValue => tText[k].at.items # a.items) =>
               LooksOf(i).bullet.level = Len(a.items) - 1

\* A Markdown document becomes the document it says, on whatever is there.
DocumentCorrect == TextLooksWritten /\ LinesKept /\ ItemsKept /\ ListsKept
===============================================================================
