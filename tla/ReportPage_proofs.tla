-------------------------- MODULE ReportPage_proofs --------------------------
(***************************************************************************)
(* Proofs about the report page composed with its JsonParser.  Every step  *)
(* of the page is a step of the parser or leaves the parser's variables    *)
(* alone: the page's handlers (updateTable, __ctrlSubcaseTable, the detail *)
(* dialogs) only read the parser.  So the page implements the parser's     *)
(* specification, and what JsonParser_proofs proves of the parser holds of *)
(* the parser inside the running page.  The second part is about the      *)
(* page's own handlers: a click on the case table, handled once per        *)
(* connection, never aborts the program while the parser holds the report *)
(* the table was filled from (ClickSafeOnShownReport).                     *)
(***************************************************************************)
EXTENDS ReportPage, JsonParser_proofs, ReportFormat_proofs, TLAPS

(* A step that leaves the page's parser variables alone is a stutter of the
   parser. *)
LEMMA ParserUnchanged ==
    UNCHANGED pvars => UNCHANGED vars
BY DEF pvars, vars, fs, parser

LEMMA PageNextIsParserStep == [PageNext]_pageVars => [Next]_vars
<1> SUFFICES ASSUME [PageNext]_pageVars PROVE [Next]_vars
  OBVIOUS
<1>1. CASE \E f \in Files : Request(f)
  BY <1>1 DEF Request, Next
<1>2. CASE Finish
  BY <1>2 DEF Finish, Next
<1>3. CASE \E r \in 0 .. caseRows - 1 : ClickScore(r)
  BY <1>3, ParserUnchanged DEF ClickScore
<1>4. CASE \E r \in 0 .. caseRows - 1 : DoubleClickCase(r)
  BY <1>4, ParserUnchanged DEF DoubleClickCase
<1>5. CASE \E r \in DOMAIN subCells : DoubleClickSubcase(r)
  BY <1>5, ParserUnchanged DEF DoubleClickSubcase
<1>6. CASE \E f \in RegularFiles, d \in Docs, dt \in WriteTicks : Write(f, d, dt)
  BY <1>6 DEF Write, Next
<1>7. CASE PageRestart
  BY <1>7 DEF PageRestart, Next
<1>8. CASE UNCHANGED pageVars
  BY <1>8, ParserUnchanged DEF pageVars
<1>9. QED
  BY <1>1, <1>2, <1>3, <1>4, <1>5, <1>6, <1>7, <1>8 DEF PageNext

(* The page implements the parser: every behaviour of AppReportPage with
   its JsonParser, restarts and the test runner's writes included, is,
   on the parser's and the files' variables, a behaviour of JsonParser. *)
THEOREM PageRefinesParser == PageSpec => Spec
BY PageNextIsParserStep, PTL DEF PageSpec, PageInit, Spec

(* Inside the page, the parser keeps its types (the first conjunct of
   PageTypeOK) for every value of the constants. *)
THEOREM PageParserTypeCorrect == PageSpec => []TypeOK
BY PageRefinesParser, TypeCorrect, PTL

(* Inside the page, a request for an unchanged JSON file that parses is
   answered by that file's report, and a skip of __checkFile leaves that
   report in place, as long as every write moves the modification time:
   the clicks and double-clicks of the page never disturb the memo. *)
THEOREM PageRequestServed ==
    ASSUME StrictClock
    PROVE  PageSpec => []RequestServesCurrentFile /\ SkippedRequestIsCurrent
BY PageRefinesParser, RequestServed, SkipServed, PTL

(* The parser inside the page implements the abstract report service. *)
THEOREM PageImplementsService == PageSpec => ImplementsService
BY PageRefinesParser, Refinement, PTL
-----------------------------------------------------------------------------
(* The calls of __ctrlSubcaseTable that one click makes.  Clicks is a      *)
(* recursive function over 0 .. n, which the provers see as the CHOOSE of  *)
(* a solution of its defining equation; the equation has a solution,      *)
(* built one call at a time, and every solution keeps the page up.        *)

(* The defining equation of the calls function of Clicks(st, d, row, n). *)
CallsFcn(f, st, d, row, n) ==
    [i \in 0 .. n |-> IF i = 0 THEN st ELSE CtrlSubcaseTable(f[i - 1], d, row)]

(* The calls function exists: a solution for n - 1 extended by one more
   call is a solution for n (the least n without one cannot exist). *)
LEMMA CallsExist ==
    ASSUME NEW st, NEW d, NEW row, NEW n \in Nat
    PROVE  \E f : f = CallsFcn(f, st, d, row, n)
<1> SUFFICES ASSUME \E m \in Nat : ~\E f : f = CallsFcn(f, st, d, row, m)
             PROVE  FALSE
  OBVIOUS
<1> DEFINE T == {m \in Nat : ~\E f : f = CallsFcn(f, st, d, row, m)}
<1>1. T \subseteq Nat /\ T # {}
  OBVIOUS
<1>2. PICK x \in T : \A y \in T : ~(<<y, x>> \in OpToRel(<, Nat))
  BY <1>1, NatLessThanWellFounded, WFMin
<1>3. x # 0
  <2>1. [i \in 0 .. 0 |-> st] = CallsFcn([i \in 0 .. 0 |-> st], st, d, row, 0)
    BY DEF CallsFcn
  <2>2. QED
    BY <2>1
<1>4. x - 1 \notin T
  <2>1. x - 1 \in Nat /\ <<x - 1, x>> \in OpToRel(<, Nat)
    BY <1>3 DEF OpToRel
  <2>2. QED
    BY <2>1, <1>2
<1>5. PICK g : g = CallsFcn(g, st, d, row, x - 1)
  BY <1>3, <1>4
<1> DEFINE h == [i \in 0 .. x |-> IF i < x THEN g[i]
                                 ELSE CtrlSubcaseTable(g[x - 1], d, row)]
<1>6. h = CallsFcn(h, st, d, row, x)
  BY <1>3, <1>5 DEF CallsFcn
<1>7. QED
  BY <1>6

(* A read of the parser's data by row that cannot fail: the row is a case
   of the report, and a case with a score has subcases. *)
RowSafe(d, row) ==
    /\ CaseDataOK(d, row)
    /\ CaseData(d, row).score # None => CaseData(d, row).sub # None

(* One call of __ctrlSubcaseTable(row) on a page that is up, reading a
   row that is safe to read, leaves the page up. *)
LEMMA CtrlKeepsUp ==
    ASSUME NEW st, NEW d, NEW row, "crash" \in DOMAIN st, st.crash = FALSE,
           RowSafe(d, row)
    PROVE  /\ "crash" \in DOMAIN CtrlSubcaseTable(st, d, row)
           /\ CtrlSubcaseTable(st, d, row).crash = FALSE
BY DEF CtrlSubcaseTable, UpdateSubcaseTable, RowSafe

(* Every call of one click leaves the page up: the first call that would
   abort it follows one that did not. *)
LEMMA ClicksKeepUp ==
    ASSUME NEW st, NEW d, NEW row, NEW n \in Nat,
           "crash" \in DOMAIN st, st.crash = FALSE,
           n = 0 \/ RowSafe(d, row)
    PROVE  Clicks(st, d, row, n).crash = FALSE
<1> DEFINE c == CHOOSE f : f = CallsFcn(f, st, d, row, n)
           Up(s) == "crash" \in DOMAIN s /\ s.crash = FALSE
<1>1. Clicks(st, d, row, n) = c[n]
  BY DEF Clicks, CallsFcn
<1>2. c = CallsFcn(c, st, d, row, n)
  BY CallsExist
<1>3. \A i \in 0 .. n : Up(c[i])
  <2> SUFFICES ASSUME NEW j \in 0 .. n, ~Up(c[j]) PROVE FALSE
    OBVIOUS
  <2> DEFINE T == {i \in 0 .. n : ~Up(c[i])}
  <2>1. T \subseteq Nat /\ j \in T
    OBVIOUS
  <2>2. PICK x \in T : \A y \in T : ~(<<y, x>> \in OpToRel(<, Nat))
    BY <2>1, NatLessThanWellFounded, WFMin
  <2>3. x # 0
    BY <1>2 DEF CallsFcn
  <2>4. Up(c[x - 1])
    <3>1. x - 1 \in 0 .. n /\ <<x - 1, x>> \in OpToRel(<, Nat)
      BY <2>3 DEF OpToRel
    <3>2. QED
      BY <3>1, <2>2
  <2>5. c[x] = CtrlSubcaseTable(c[x - 1], d, row)
    BY <1>2, <2>3 DEF CallsFcn
  <2>6. RowSafe(d, row)
    BY <2>3
  <2>7. Up(c[x])
    <3>1. "crash" \in DOMAIN c[x - 1] /\ c[x - 1].crash = FALSE
      BY <2>4
    <3>2. /\ "crash" \in DOMAIN CtrlSubcaseTable(c[x - 1], d, row)
          /\ CtrlSubcaseTable(c[x - 1], d, row).crash = FALSE
      BY ONLY <3>1, <2>6, CtrlKeepsUp
    <3>3. QED
      BY <3>2, <2>5
  <2>8. QED
    BY <2>7
<1>4. QED
  BY <1>1, <1>3
-----------------------------------------------------------------------------
(* The reports parsingFinished can hand to the page: the data of a parse
   that returned True. *)
OkData == {ParseFile(doc).data : doc \in {x \in Docs : ParseFile(x).ret = "ok"}}

(* The case table was filled from the report last emitted: nothing is
   connected to its clicks before a report was emitted, and while the page
   is up its row count is that report's case count. *)
ClickInv ==
    /\ clickConns \in Nat
    /\ emitted \in {NoData} \cup OkData
    /\ emitted = NoData => clickConns = 0
    /\ ~uiCrashed /\ emitted # NoData =>
          /\ emitted.case # None
          /\ caseRows = (CHOOSE c \in emitted.case : TRUE).num

PInv == TypeInv /\ ClickInv

(* What a parse that returned True hands on is a report, not NoData. *)
LEMMA OkDataIsReport ==
    ASSUME NEW raw, ParseFile(raw).ret = "ok"
    PROVE  ParseFile(raw).data # NoData
BY DEF ParseFile, NoData

LEMMA InitClickInv == PageInit => ClickInv
BY DEF PageInit, Init, ParserInit, UIInit, ClickInv

(* The parse slot on the page: the emitted report changes only on a parse
   that returned True, and then updateTable either aborts the page or
   sizes the table to the report's case count. *)
LEMMA FinishClickInv ==
    ASSUME TypeInv, ClickInv, Finish
    PROVE  ClickInv'
<1> DEFINE raw == content[filePath]
           d == ParseFile(raw).data
<1>1. ~uiCrashed /\ pc = "reading"
  BY DEF Finish, ReadFile
<1>2. raw \in Docs
  BY <1>1 DEF TypeInv, TypeOK, MemoSound
<1>3. CASE ParseFile(raw).ret = "ok"
  <2>1. emitted' = d /\ d \in OkData /\ d # NoData
    BY <1>2, <1>3, OkDataIsReport DEF Finish, ReadFile, OkData
  <2>2. UpdateCaseTable(d)
    BY <1>3 DEF Finish
  <2>3. CASE d.case = None \/ d.date = None
             \/ (CHOOSE c \in d.case : TRUE).num = 0
    <3>1. uiCrashed' /\ clickConns' = clickConns
      BY <2>2, <2>3 DEF UpdateCaseTable
    <3>2. QED
      BY <2>1, <3>1 DEF ClickInv
  <2>4. CASE ~(d.case = None \/ d.date = None
               \/ (CHOOSE c \in d.case : TRUE).num = 0)
    <3>1. /\ caseRows' = (CHOOSE c \in d.case : TRUE).num /\ d.case # None
          /\ clickConns' = clickConns + 1 /\ uiCrashed' = uiCrashed
      BY <2>2, <2>4 DEF UpdateCaseTable
    <3>2. QED
      BY <1>1, <2>1, <3>1 DEF ClickInv
  <2>5. QED
    BY <2>3, <2>4
<1>4. CASE ParseFile(raw).ret # "ok"
  <2>1. emitted' = emitted /\ UNCHANGED ui
    BY <1>4 DEF Finish, ReadFile
  <2>2. QED
    BY <2>1 DEF ClickInv, ui
<1>5. QED
  BY <1>3, <1>4

(* ClickInv is inductive, given the parser's own invariant. *)
LEMMA NextClickInv ==
    ASSUME TypeInv, ClickInv, [PageNext]_pageVars
    PROVE  ClickInv'
<1>1. CASE \E f \in Files : Request(f)
  BY <1>1 DEF Request, CheckFile, ClickInv, ui
<1>2. CASE Finish
  BY <1>2, FinishClickInv
<1>3. CASE \E r \in 0 .. caseRows - 1 : ClickScore(r)
  BY <1>3 DEF ClickScore, ClickInv, pvars
<1>4. CASE \E r \in 0 .. caseRows - 1 : DoubleClickCase(r)
  BY <1>4 DEF DoubleClickCase, ClickInv, pvars
<1>5. CASE \E r \in DOMAIN subCells : DoubleClickSubcase(r)
  BY <1>5 DEF DoubleClickSubcase, ClickInv, pvars
<1>6. CASE \E f \in RegularFiles, d \in Docs, dt \in WriteTicks : Write(f, d, dt)
  BY <1>6 DEF Write, WriteFile, ClickInv, ui, parser
<1>7. CASE PageRestart
  BY <1>7 DEF PageRestart, Restart, ClickInv
<1>8. CASE UNCHANGED pageVars
  BY <1>8 DEF pageVars, pvars, ui, ClickInv
<1>9. QED
  BY <1>1, <1>2, <1>3, <1>4, <1>5, <1>6, <1>7, <1>8 DEF PageNext

LEMMA NextPInv == PInv /\ [PageNext]_pageVars => PInv'
<1> SUFFICES ASSUME PInv, [PageNext]_pageVars PROVE PInv'
  OBVIOUS
<1>1. TypeInv'
  BY PageNextIsParserStep, NextTypeInv DEF PInv
<1>2. ClickInv'
  BY NextClickInv DEF PInv
<1>3. QED
  BY <1>1, <1>2 DEF PInv

LEMMA PageSpecPInv == PageSpec => []PInv
<1>1. PageInit => PInv
  BY InitClickInv, InitIInv DEF PageInit, PInv, IInv
<1>2. QED
  BY <1>1, NextPInv, PTL DEF PageSpec
-----------------------------------------------------------------------------
(* Every report file holds what json.load returns: its dicts, at each of
   the three levels the parser reads, are finite sequences of entries. *)
DocsDecoded == \A doc \in Docs : \E E : Decoded(doc, E)

(* A click on a Score cell or a double-click on a Case cell, while the
   parser holds the emitted report, reads only rows that are safe: the
   table has one row per case of that report, and a case with a score has
   subcases (ParseComplete). *)
LEMMA ClickStepSafe ==
    ASSUME DocsDecoded, PInv, NEW r \in 0 .. caseRows - 1,
           ClickScore(r) \/ DoubleClickCase(r), dataParsed = emitted
    PROVE  ~uiCrashed'
<1>1. ~uiCrashed
  BY DEF ClickScore, DoubleClickCase
<1>2. clickConns \in Nat /\ "crash" \in DOMAIN PageState /\ PageState.crash = FALSE
  BY <1>1 DEF PInv, ClickInv, PageState
<1>3. CASE emitted = NoData
  <2>1. clickConns = 0
    BY <1>3 DEF PInv, ClickInv
  <2>2. ~DoubleClickCase(r)
    BY <2>1 DEF DoubleClickCase
  <2>3. Clicks(PageState, dataParsed, r, clickConns).crash = FALSE
    BY <1>2, <2>1, ClicksKeepUp
  <2>4. QED
    BY <2>2, <2>3 DEF ClickScore
<1>4. CASE emitted # NoData
  <2> DEFINE cs == CHOOSE c \in emitted.case : TRUE
  <2>1. PICK doc \in Docs : ParseFile(doc).ret = "ok" /\ emitted = ParseFile(doc).data
    BY <1>4 DEF PInv, ClickInv, OkData
  <2>2. emitted.case # None /\ caseRows = cs.num
    BY <1>1, <1>4 DEF PInv, ClickInv
  <2>3. cs \in ParseFile(doc).data.case
    BY <2>1, <2>2 DEF None
  <2>4. PICK E : Decoded(doc, E)
    BY DEF DocsDecoded
  <2>5. /\ cs.num \in Nat
        /\ DOMAIN cs.data = 1 .. cs.num
        /\ cs.num = Len(cs.data)
        /\ \A i \in DOMAIN cs.data : CaseComplete(cs.data[i])
    BY <2>1, <2>3, <2>4, OkCaseRows
  <2>6. RowSafe(emitted, r)
    BY <1>4, <2>2, <2>5 DEF RowSafe, CaseDataOK, CaseData, CaseComplete
  <2>7. CASE ClickScore(r)
    <3>1. Clicks(PageState, dataParsed, r, clickConns).crash = FALSE
      BY <1>2, <2>6, ClicksKeepUp
    <3>2. QED
      BY <2>7, <3>1 DEF ClickScore
  <2>8. CASE DoubleClickCase(r)
    BY <2>6, <2>8 DEF DoubleClickCase, RowSafe
  <2>9. QED
    BY <2>7, <2>8
<1>5. QED
  BY <1>3, <1>4

(* A click on a Score cell or a double-click on a Case cell never aborts
   the program while the parser holds the report the table was filled
   from, however many handlers updateTable connected and for every value
   of the constants, provided the report files hold decoded JSON
   (ClickSafeOnShownReport). *)
THEOREM ClickSafe ==
    ASSUME DocsDecoded
    PROVE  PageSpec => ClickSafeOnShownReport
<1>1. PInv => [ /\ \E r \in 0 .. caseRows - 1 : ClickScore(r) \/ DoubleClickCase(r)
                /\ dataParsed = emitted
                => ~uiCrashed' ]_pageVars
  BY ClickStepSafe
<1>2. QED
  BY <1>1, PageSpecPInv, PTL DEF ClickSafeOnShownReport
-----------------------------------------------------------------------------
(* The page's own state keeps its type (PageTypeOK), for report files that
   hold what json.load returns. *)

(* Every report file is decoded JSON whose keys are strings and whose
   numbers are integers. *)
DocsTyped == \A doc \in Docs : \E E : Decoded(doc, E) /\ TypedEntries(E)

(* A cell of the case table, a row of the subcase table, and the state one
   call of __ctrlSubcaseTable works on. *)
CaseCell == [time: SUBSET Int, name: SUBSET STRING, result: SUBSET Results,
             score: SUBSET [pass: Nat, fail: Nat, skip: Nat]]
SubRow == [name: SUBSET STRING, result: SUBSET Results]
PanelFields == {"show", "visible", "case", "title", "cells", "crash"}
PanelTyped(st) ==
    /\ DOMAIN st = PanelFields
    /\ st.show \in SUBSET Nat
    /\ st.visible \in BOOLEAN
    /\ st.case \in SUBSET Nat
    /\ st.title \in SUBSET STRING
    /\ \E k \in Nat : st.cells \in [0 .. k - 1 -> SubRow]
    /\ st.crash \in BOOLEAN

(* What the parser holds, as the page's handlers read it by row. *)
DataTyped(d) == d # NoData => \A c \in d.case : CaseListTyped(c)

(* A row that caseData reads without error is a typed case. *)
LEMMA CaseDataTyped ==
    ASSUME NEW d, NEW row \in Nat, DataTyped(d), CaseDataOK(d, row)
    PROVE  CaseTyped(CaseData(d, row))
<1> DEFINE cs == CHOOSE c \in d.case : TRUE
<1>1. cs \in d.case
  BY DEF CaseDataOK, None
<1>2. CaseListTyped(cs)
  BY <1>1 DEF DataTyped, CaseDataOK
<1>3. row + 1 \in DOMAIN cs.data
  BY <1>2 DEF CaseListTyped, CaseDataOK
<1>4. QED
  BY <1>2, <1>3 DEF CaseListTyped, CaseData

(* AppSubcaseTable.updateTable fills the panel with a case name and one
   typed row per subcase. *)
LEMMA UpdateTyped ==
    ASSUME NEW st, NEW d, NEW row \in Nat, PanelTyped(st), DataTyped(d),
           CaseDataOK(d, row)
    PROVE  PanelTyped(UpdateSubcaseTable(st, d, row))
<1> DEFINE k == CaseData(d, row)
           sb == CHOOSE s \in k.sub : TRUE
<1>1. CaseTyped(k)
  BY CaseDataTyped
<1>2. CASE st.case = Some(row)
  BY <1>2 DEF UpdateSubcaseTable
<1>3. CASE st.case # Some(row) /\ k.sub = None
  BY <1>3 DEF UpdateSubcaseTable, PanelTyped, PanelFields
<1>4. CASE st.case # Some(row) /\ k.sub # None
  <2>1. sb \in k.sub /\ SubListTyped(sb)
    BY <1>1, <1>4 DEF None, CaseTyped
  <2> DEFINE cells == [r \in 0 .. sb.num - 1 |->
                         [name |-> Some(sb.data[r + 1].name),
                          result |-> Some(sb.data[r + 1].result)]]
  <2>2. cells \in [0 .. sb.num - 1 -> SubRow]
    <3>1. \A r \in 0 .. sb.num - 1 : r + 1 \in DOMAIN sb.data
      BY <2>1 DEF SubListTyped
    <3>2. \A r \in 0 .. sb.num - 1 : /\ sb.data[r + 1].name \in STRING
                                     /\ sb.data[r + 1].result \in Results
      BY <2>1, <3>1 DEF SubListTyped
    <3>3. QED
      BY <3>2 DEF SubRow, Some
  <2>3. k.name \in STRING
    BY <1>1 DEF CaseTyped
  <2>4. UpdateSubcaseTable(st, d, row) =
          [st EXCEPT !.case = Some(row), !.title = Some(k.name), !.cells = cells]
    BY <1>4 DEF UpdateSubcaseTable
  <2>5. \E j \in Nat : cells \in [0 .. j - 1 -> SubRow]
    BY <2>1, <2>2 DEF SubListTyped
  <2>6. Some(row) \in SUBSET Nat /\ Some(k.name) \in SUBSET STRING
    BY <2>3 DEF Some
  <2>7. QED
    BY <2>4, <2>5, <2>6 DEF PanelTyped, PanelFields
<1>5. QED
  BY <1>2, <1>3, <1>4

(* One call of __ctrlSubcaseTable keeps the panel typed. *)
LEMMA CtrlTyped ==
    ASSUME NEW st, NEW d, NEW row \in Nat, PanelTyped(st), DataTyped(d)
    PROVE  PanelTyped(CtrlSubcaseTable(st, d, row))
<1>1. CASE st.crash
  BY <1>1 DEF CtrlSubcaseTable
<1>2. CASE ~st.crash /\ ~CaseDataOK(d, row)
  BY <1>2 DEF CtrlSubcaseTable, PanelTyped, PanelFields
<1>3. CASE ~st.crash /\ CaseDataOK(d, row) /\ CaseData(d, row).score = None
  BY <1>3 DEF CtrlSubcaseTable
<1>4. CASE ~st.crash /\ CaseDataOK(d, row) /\ CaseData(d, row).score # None
           /\ st.show # Some(row)
  <2>1. PanelTyped(UpdateSubcaseTable(st, d, row))
    BY <1>4, UpdateTyped
  <2>2. CtrlSubcaseTable(st, d, row) =
          [UpdateSubcaseTable(st, d, row) EXCEPT !.show = Some(row), !.visible = TRUE]
    BY <1>4 DEF CtrlSubcaseTable
  <2>3. QED
    BY <2>1, <2>2 DEF PanelTyped, PanelFields, Some
<1>5. CASE ~st.crash /\ CaseDataOK(d, row) /\ CaseData(d, row).score # None
           /\ st.show = Some(row)
  BY <1>5 DEF CtrlSubcaseTable, PanelTyped, PanelFields, None
<1>6. QED
  BY <1>1, <1>2, <1>3, <1>4, <1>5

(* Every call of one click keeps the panel typed. *)
LEMMA ClicksTyped ==
    ASSUME NEW st, NEW d, NEW row \in Nat, NEW n \in Nat,
           PanelTyped(st), DataTyped(d)
    PROVE  PanelTyped(Clicks(st, d, row, n))
<1> DEFINE c == CHOOSE f : f = CallsFcn(f, st, d, row, n)
<1>1. Clicks(st, d, row, n) = c[n]
  BY DEF Clicks, CallsFcn
<1>2. c = CallsFcn(c, st, d, row, n)
  BY CallsExist
<1>3. \A i \in 0 .. n : PanelTyped(c[i])
  <2> SUFFICES ASSUME NEW j \in 0 .. n, ~PanelTyped(c[j]) PROVE FALSE
    OBVIOUS
  <2> DEFINE T == {i \in 0 .. n : ~PanelTyped(c[i])}
  <2>1. T \subseteq Nat /\ j \in T
    OBVIOUS
  <2>2. PICK x \in T : \A y \in T : ~(<<y, x>> \in OpToRel(<, Nat))
    BY <2>1, NatLessThanWellFounded, WFMin
  <2>3. x # 0
    BY <1>2 DEF CallsFcn
  <2>4. PanelTyped(c[x - 1])
    <3>1. x - 1 \in 0 .. n /\ <<x - 1, x>> \in OpToRel(<, Nat)
      BY <2>3 DEF OpToRel
    <3>2. QED
      BY <3>1, <2>2
  <2>5. c[x] = CtrlSubcaseTable(c[x - 1], d, row)
    BY <1>2, <2>3 DEF CallsFcn
  <2>6. PanelTyped(c[x])
    BY <2>4, <2>5, CtrlTyped
  <2>7. QED
    BY <2>6
<1>4. QED
  BY <1>1, <1>3
(* The page's part of PageTypeOK, with the panel read as PageState, and
   the bound on the handlers connected: a parse under way has room for the
   one its success connects. *)
UITypeOK ==
    /\ caseRows \in Nat \ {0}
    /\ caseCells \in [0 .. caseRows - 1 -> CaseCell]
    /\ clickConns \in 0 .. MaxConns
    /\ pc = "reading" => clickConns < MaxConns
    /\ PanelTyped(PageState)

(* The report the parser holds is typed. *)
LEMMA ParsedDataTyped ==
    ASSUME DocsTyped, NEW d \in {NoData} \cup {ParseFile(doc).data : doc \in Docs}
    PROVE  DataTyped(d)
<1> SUFFICES ASSUME d # NoData PROVE \A c \in d.case : CaseListTyped(c)
  BY DEF DataTyped
<1>1. PICK doc \in Docs : d = ParseFile(doc).data
  OBVIOUS
<1>2. PICK E : Decoded(doc, E) /\ TypedEntries(E)
  BY DEF DocsTyped
<1>3. QED
  BY <1>1, <1>2, ParseCasesTyped

(* The loop of AppCaseTable.updateTable writes a typed row. *)
LEMMA RowTextTyped ==
    ASSUME NEW old \in CaseCell, NEW c, CaseTyped(c)
    PROVE  CaseRowText(old, c) \in CaseCell
BY DEF CaseRowText, Over, CaseCell, CaseTyped, Some, None

(* A blank row is typed. *)
LEMMA BlankTyped == BlankCase \in CaseCell /\ BlankSub \in SubRow
BY DEF BlankCase, BlankSub, CaseCell, SubRow, None

(* Setting the crash flag keeps the panel typed. *)
LEMMA PanelCrashTyped ==
    ASSUME NEW st, PanelTyped(st), NEW b \in BOOLEAN
    PROVE  PanelTyped([st EXCEPT !.crash = b])
BY DEF PanelTyped, PanelFields

(* The rest of the parse slot keeps the page typed. *)
LEMMA FinishUIType ==
    ASSUME DocsTyped, TypeInv, UITypeOK, Finish
    PROVE  UITypeOK'
<1> DEFINE raw == content[filePath]
           d == ParseFile(raw).data
           cs == CHOOSE c \in d.case : TRUE
<1>1. ~uiCrashed /\ pc = "reading" /\ pc' = "idle" /\ uiCrashed \in BOOLEAN
  <2>1. uiCrashed \in BOOLEAN
    BY DEF UITypeOK, PanelTyped, PageState
  <2>2. QED
    BY <2>1 DEF Finish, ReadFile
<1>2. raw \in Docs
  BY <1>1 DEF TypeInv, TypeOK, MemoSound
<1>3. clickConns + 1 \in 0 .. MaxConns /\ clickConns \in 0 .. MaxConns
  BY <1>1, ConnsAssumption DEF UITypeOK
<1>4. UNCHANGED <<showSubcase, subVisible, subCase, subTitle, subCells>>
  BY DEF Finish, UpdateCaseTable, ui
<1>5. PanelTyped(PageState')
  <2>1. PanelTyped(PageState)
    BY DEF UITypeOK
  <2>2. uiCrashed' \in BOOLEAN
    <3>1. CASE ParseFile(raw).ret = "ok" /\ (d.case = None \/ d.date = None \/ cs.num = 0)
      BY <3>1 DEF Finish, UpdateCaseTable
    <3>2. CASE ParseFile(raw).ret = "ok" /\ ~(d.case = None \/ d.date = None \/ cs.num = 0)
      <4>1. uiCrashed' = uiCrashed
        BY <3>2 DEF Finish, UpdateCaseTable
      <4>2. QED
        BY <1>1, <4>1
    <3>3. CASE ParseFile(raw).ret # "ok"
      <4>1. UNCHANGED ui
        BY <3>3 DEF Finish
      <4>2. uiCrashed' = uiCrashed
        BY <4>1 DEF ui
      <4>3. QED
        BY <1>1, <4>2
    <3>4. QED
      BY <3>1, <3>2, <3>3
  <2>3. PageState' = [PageState EXCEPT !.crash = uiCrashed']
    BY <1>4 DEF PageState
  <2>4. QED
    BY <2>1, <2>2, <2>3, PanelCrashTyped
<1>6. CASE ParseFile(raw).ret = "ok" /\ ~(d.case = None \/ d.date = None \/ cs.num = 0)
  <2>1. PICK E : Decoded(raw, E) /\ TypedEntries(E)
    BY <1>2 DEF DocsTyped
  <2>2. d # NoData /\ cs \in d.case
    BY <1>2, <1>6, OkDataIsReport DEF None
  <2>3. CaseListTyped(cs)
    BY <2>1, <2>2, ParseCasesTyped
  <2>4. cs.num \in Nat /\ DOMAIN cs.data = 1 .. cs.num
    BY <2>1, <1>6, <2>2, OkCaseRows
  <2>5. /\ caseRows' = cs.num
        /\ caseCells' = [r \in 0 .. cs.num - 1 |->
                           CaseRowText(Resized(caseCells, caseRows, cs.num, BlankCase)[r],
                                       cs.data[r + 1])]
        /\ clickConns' = clickConns + 1
    BY <1>6 DEF Finish, UpdateCaseTable
  <2>6. Resized(caseCells, caseRows, cs.num, BlankCase) \in [0 .. cs.num - 1 -> CaseCell]
    BY BlankTyped DEF Resized, UITypeOK
  <2>7. \A r \in 0 .. cs.num - 1 : CaseTyped(cs.data[r + 1])
    BY <2>3, <2>4 DEF CaseListTyped
  <2>8. caseCells' \in [0 .. caseRows' - 1 -> CaseCell]
    BY <2>5, <2>6, <2>7, RowTextTyped
  <2>9. QED
    BY <1>1, <1>3, <1>5, <1>6, <2>4, <2>5, <2>8 DEF UITypeOK
<1>7. CASE ParseFile(raw).ret = "ok" /\ (d.case = None \/ d.date = None \/ cs.num = 0)
  <2>1. UNCHANGED <<caseRows, caseCells, clickConns>>
    BY <1>7 DEF Finish, UpdateCaseTable
  <2>2. QED
    BY <1>1, <1>5, <2>1 DEF UITypeOK
<1>8. CASE ParseFile(raw).ret # "ok"
  <2>1. UNCHANGED <<caseRows, caseCells, clickConns>>
    BY <1>8 DEF Finish, ui
  <2>2. QED
    BY <1>1, <1>5, <2>1 DEF UITypeOK
<1>9. QED
  BY <1>6, <1>7, <1>8
(* The panel rebuilt field by field from a typed one is typed. *)
LEMMA PanelRebuildTyped ==
    ASSUME NEW st, PanelTyped(st)
    PROVE  PanelTyped([show |-> st.show, visible |-> st.visible, case |-> st.case,
                       title |-> st.title, cells |-> st.cells, crash |-> st.crash])
BY DEF PanelTyped, PanelFields

(* A click on a Score cell keeps the panel typed, whatever the number of
   handlers it runs. *)
LEMMA ClickScoreUIType ==
    ASSUME DocsTyped, TypeInv, UITypeOK, NEW r \in 0 .. caseRows - 1, ClickScore(r)
    PROVE  UITypeOK'
<1> DEFINE st == Clicks(PageState, dataParsed, r, clickConns)
<1>1. DataTyped(dataParsed)
  BY ParsedDataTyped DEF TypeInv, TypeOK
<1>2. r \in Nat /\ clickConns \in Nat /\ PanelTyped(PageState)
  BY DEF UITypeOK
<1>3. PanelTyped(st)
  BY <1>1, <1>2, ClicksTyped
<1>4. PageState' = [show |-> st.show, visible |-> st.visible, case |-> st.case,
                    title |-> st.title, cells |-> st.cells, crash |-> st.crash]
  BY DEF ClickScore, PageState
<1>5. UNCHANGED <<pc, caseRows, caseCells, clickConns>>
  BY DEF ClickScore, pvars
<1>6. QED
  BY <1>3, <1>4, <1>5, PanelRebuildTyped DEF UITypeOK

(* UITypeOK is inductive, for typed report files. *)
LEMMA NextUIType ==
    ASSUME DocsTyped, TypeInv, UITypeOK, [PageNext]_pageVars
    PROVE  UITypeOK'
<1>1. CASE \E f \in Files : Request(f)
  BY <1>1 DEF Request, CheckFile, UITypeOK, ui, PageState
<1>2. CASE Finish
  BY <1>2, FinishUIType
<1>3. CASE \E r \in 0 .. caseRows - 1 : ClickScore(r)
  BY <1>3, ClickScoreUIType
<1>4. CASE \E r \in 0 .. caseRows - 1 : DoubleClickCase(r)
  <2>1. PICK r \in 0 .. caseRows - 1 : DoubleClickCase(r)
    BY <1>4
  <2>2. PageState' = [PageState EXCEPT !.crash = uiCrashed'] /\ uiCrashed' \in BOOLEAN
    BY <2>1 DEF DoubleClickCase, PageState
  <2>3. QED
    BY <2>1, <2>2, PanelCrashTyped DEF DoubleClickCase, UITypeOK, pvars
<1>5. CASE \E r \in DOMAIN subCells : DoubleClickSubcase(r)
  <2>1. PICK r \in DOMAIN subCells : DoubleClickSubcase(r)
    BY <1>5
  <2>2. PageState' = [PageState EXCEPT !.crash = uiCrashed']
    <3>1. UNCHANGED <<showSubcase, subVisible, subCase, subTitle, subCells>>
      BY <2>1, Zenon DEF DoubleClickSubcase
    <3>2. QED
      BY <3>1 DEF PageState
  <2>3. uiCrashed' \in BOOLEAN
    <3>1. uiCrashed' = \E c \in subCase : ~SubcaseDataOK(dataParsed, c, r)
      BY <2>1 DEF DoubleClickSubcase
    <3>2. QED
      BY <3>1, Zenon
  <2>4. QED
    BY <2>1, <2>2, <2>3, PanelCrashTyped DEF DoubleClickSubcase, UITypeOK, pvars
<1>6. CASE \E f \in RegularFiles, d \in Docs, dt \in WriteTicks : Write(f, d, dt)
  BY <1>6 DEF Write, WriteFile, UITypeOK, ui, parser, PageState
<1>7. CASE PageRestart
  <2>1. PanelTyped(PageState')
    <3>1. [r \in 0 .. 0 |-> BlankSub] \in [0 .. 1 - 1 -> SubRow]
      BY BlankTyped
    <3>2. QED
      BY <1>7, <3>1 DEF PageRestart, PanelTyped, PanelFields, PageState, None
  <2>2. QED
    BY <1>7, <2>1, BlankTyped, ConnsAssumption DEF PageRestart, Restart, UITypeOK
<1>8. CASE UNCHANGED pageVars
  BY <1>8 DEF pageVars, pvars, ui, UITypeOK, PageState
<1>9. QED
  BY <1>1, <1>2, <1>3, <1>4, <1>5, <1>6, <1>7, <1>8 DEF PageNext

(* The page starts typed. *)
LEMMA InitUIType == PageInit => UITypeOK
<1> SUFFICES ASSUME PageInit PROVE UITypeOK
  OBVIOUS
<1>1. [r \in 0 .. 0 |-> BlankSub] \in [0 .. 1 - 1 -> SubRow]
  BY BlankTyped
<1>2. PanelTyped(PageState)
  BY <1>1 DEF PageInit, UIInit, PanelTyped, PanelFields, PageState, None
<1>3. QED
  BY <1>2, BlankTyped, ConnsAssumption DEF PageInit, UIInit, Init, ParserInit, UITypeOK

(* The parser's invariant with the page's typing. *)
TInv == TypeInv /\ UITypeOK

LEMMA PageSpecTInv ==
    ASSUME DocsTyped
    PROVE  PageSpec => []TInv
<1>1. PageInit => TInv
  BY InitUIType, InitIInv DEF PageInit, TInv, IInv
<1>2. TInv /\ [PageNext]_pageVars => TInv'
  BY NextUIType, PageNextIsParserStep, NextTypeInv DEF TInv
<1>3. QED
  BY <1>1, <1>2, PTL DEF PageSpec

(* The typing implies PageTypeOK: a subcase table of k rows has the
   domain 0 .. k - 1, whose cardinality is k. *)
LEMMA TInvPageTypeOK == TInv => PageTypeOK
<1> SUFFICES ASSUME TInv PROVE PageTypeOK
  OBVIOUS
<1>1. PICK k \in Nat : subCells \in [0 .. k - 1 -> SubRow]
  BY DEF TInv, UITypeOK, PanelTyped, PageState
<1>2. Cardinality(DOMAIN subCells) = k
  <2>1. Cardinality(0 .. k - 1) = IF 0 > k - 1 THEN 0 ELSE k - 1 - 0 + 1
    BY FS_Interval
  <2>2. QED
    BY <1>1, <2>1
<1>3. DOMAIN subCells = 0 .. Cardinality(DOMAIN subCells) - 1
  BY <1>1, <1>2
<1>4. \A r \in DOMAIN subCells :
        subCells[r] \in [name: SUBSET STRING, result: SUBSET {PASS, FAIL, SKIP}]
  BY <1>1 DEF SubRow, Results
<1>5. QED
  BY <1>3, <1>4 DEF TInv, TypeInv, UITypeOK, PanelTyped, PageState, PageTypeOK,
                    CaseCell, Results

(* Every state of the report page is well typed, for every value of the
   constants, provided the report files hold what json.load returns with
   string keys and integer numbers (PageTypeOK): the case table has at
   least one row and typed cells, at most MaxConns handlers are connected,
   and the subcase panel holds typed rows numbered from 0 -- across any
   number of __ctrlSubcaseTable calls per click. *)
THEOREM PageTypeCorrect ==
    ASSUME DocsTyped
    PROVE  PageSpec => []PageTypeOK
BY PageSpecTInv, TInvPageTypeOK, PTL
=============================================================================
