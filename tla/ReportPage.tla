----------------------------- MODULE ReportPage -----------------------------
(***************************************************************************)
(* The report page of scripts/python/nvmetool.py (AppReportPage with its   *)
(* AppCaseTable and AppSubcaseTable) composed with the JsonParser it owns. *)
(*                                                                         *)
(* The page connects AppInputFile's path to JsonParser.parse and           *)
(* parsingFinished to AppCaseTable.updateTable; the emit is a direct Qt    *)
(* connection, so the table is filled inside the parse slot, in the same   *)
(* step as ReadFile.  A click on a case row's Score cell reaches           *)
(* __ctrlSubcaseTable once per connection made by updateTable, and that    *)
(* handler reads the parser's current data, not what the table shows.  An  *)
(* exception in any of these slots aborts the program (uiCrashed).         *)
(* Rows are numbered from 0 as in the tables; case i is data[i + 1].       *)
(* The module extends JsonParser: the parser's variables and actions are  *)
(* the page's, and the page's own are named Page*.                        *)
(***************************************************************************)
EXTENDS JsonParser

CONSTANT MaxConns  \* bound on the handlers connected to the case table

ASSUME ConnsAssumption == MaxConns \in Nat \ {0}


VARIABLES
    caseRows,    \* AppCaseTable._table row count
    caseCells,   \* displayed text of each case row: time, name, result, score
    clickConns,  \* connections of itemClicked made by updateTable
    showSubcase, \* AppReportPage._show_subcase (None or Some(row))
    subVisible,  \* the subcase title and table are shown
    subCase,     \* AppSubcaseTable._case (None before its first update)
    subTitle,    \* the subcase title: a case name, or None
    subCells,    \* displayed rows of the subcase table: name, result
    uiCrashed    \* an exception escaped a slot of the page


ui == <<caseRows, caseCells, clickConns, showSubcase, subVisible, subCase,
        subTitle, subCells, uiCrashed>>
pvars == <<content, mtime, hasRecord, filePath, fileMtime, dataParsed, pc,
           crashed, emitted, reqFile, reqMtime>>
pageVars == <<pvars, ui>>

(* A row of empty QTableWidgetItems, as __createCellItem makes them. *)
BlankCase == [time |-> None, name |-> None, result |-> None, score |-> None]
BlankSub == [name |-> None, result |-> None]

PageTypeOK ==
    /\ TypeOK
    /\ caseRows \in Nat \ {0}
    /\ caseCells \in [0 .. caseRows - 1 ->
                        [time: SUBSET Int, name: SUBSET STRING,
                         result: SUBSET {PASS, FAIL, SKIP},
                         score: SUBSET [pass: Nat, fail: Nat, skip: Nat]]]
    /\ clickConns \in 0 .. MaxConns
    /\ showSubcase \in SUBSET Nat
    /\ subVisible \in BOOLEAN
    /\ subCase \in SUBSET Nat
    /\ subTitle \in SUBSET STRING
    /\ DOMAIN subCells = 0 .. Cardinality(DOMAIN subCells) - 1
    /\ \A r \in DOMAIN subCells :
         subCells[r] \in [name: SUBSET STRING, result: SUBSET {PASS, FAIL, SKIP}]
    /\ uiCrashed \in BOOLEAN

(* AppReportPage.__init__: both tables one blank row, the subcase widgets
   hidden, nothing connected to the case table's clicks yet. *)
UIInit ==
    /\ caseRows = 1
    /\ caseCells = [r \in 0 .. 0 |-> BlankCase]
    /\ clickConns = 0
    /\ showSubcase = None
    /\ subVisible = FALSE
    /\ subCase = None
    /\ subTitle = None
    /\ subCells = [r \in 0 .. 0 |-> BlankSub]
    /\ uiCrashed = FALSE

PageInit == Init /\ UIInit

-----------------------------------------------------------------------------
(* Table.setSize for a new row count n: a different size clears every cell
   (clearContents, __createCellItem); the same size keeps the cells. *)
Resized(cells, rows, n, blank) ==
    IF rows = n THEN cells ELSE [r \in 0 .. n - 1 |-> blank]

(* The text the loop of AppCaseTable.updateTable leaves in row r: a column
   is written only when the parser's value is not None. *)
Over(old, new) == IF new = None THEN old ELSE new
CaseRowText(old, c) ==
    [time   |-> Over(old.time, c.time),
     name   |-> Some(c.name),
     result |-> Over(old.result, c.result),
     score  |-> Over(old.score, c.score)]

(* Mutant: Table.__checkSize tests row < 0, so setSize accepts zero rows. *)
UpdateCaseTableZeroRows(d) ==
    IF d.case = None \/ d.date = None
    THEN /\ uiCrashed' = TRUE
         /\ UNCHANGED <<caseRows, caseCells, clickConns, showSubcase,
                        subVisible, subCase, subTitle, subCells>>
    ELSE LET cs == CHOOSE c \in d.case : TRUE
             n == cs.num
             base == Resized(caseCells, caseRows, n, BlankCase)
         IN /\ caseRows' = n
            /\ caseCells' = [r \in 0 .. n - 1 |-> CaseRowText(base[r], cs.data[r + 1])]
            /\ clickConns' = clickConns + 1
            /\ UNCHANGED <<showSubcase, subVisible, subCase, subTitle,
                           subCells, uiCrashed>>

(* AppCaseTable.updateTable(parser), run by parsingFinished.emit with the
   parser's data d: caseCount() raises KeyError without 'case', the title
   concatenates topDate() and raises TypeError when it is None, setSize
   raises ValueError for zero rows; otherwise the cells are written and one
   more click handler is connected. *)
UpdateCaseTable(d) ==
    IF d.case = None \/ d.date = None
       \/ (CHOOSE c \in d.case : TRUE).num = 0
    THEN /\ uiCrashed' = TRUE
         /\ UNCHANGED <<caseRows, caseCells, clickConns, showSubcase,
                        subVisible, subCase, subTitle, subCells>>
    ELSE LET cs == CHOOSE c \in d.case : TRUE
             n == cs.num
             base == Resized(caseCells, caseRows, n, BlankCase)
         IN /\ caseRows' = n
            /\ caseCells' = [r \in 0 .. n - 1 |-> CaseRowText(base[r], cs.data[r + 1])]
            /\ clickConns' = clickConns + 1
            /\ UNCHANGED <<showSubcase, subVisible, subCase, subTitle,
                           subCells, uiCrashed>>

(* The user enters a path: JsonParser.parse, up to __checkFile. *)
Request(f) ==
    /\ ~uiCrashed
    /\ clickConns < MaxConns
    /\ CheckFile(f)
    /\ UNCHANGED ui

(* The rest of the parse slot, with the case table filled on success. *)
Finish ==
    /\ ~uiCrashed
    /\ ReadFile
    /\ IF ParseFile(content[filePath]).ret = "ok"
       THEN UpdateCaseTable(ParseFile(content[filePath]).data)
       ELSE UNCHANGED ui

-----------------------------------------------------------------------------
(* The page state one call of __ctrlSubcaseTable(row) works on. *)
PageState == [show |-> showSubcase, visible |-> subVisible, case |-> subCase,
              title |-> subTitle, cells |-> subCells, crash |-> uiCrashed]

(* parser.caseData(row) on the parser's current data: AttributeError when
   _data_parsed does not exist, KeyError without 'case', IndexError past
   the cases appended. *)
CaseDataOK(d, row) ==
    /\ d # NoData
    /\ d.case # None
    /\ row < Len((CHOOSE c \in d.case : TRUE).data)
CaseData(d, row) == (CHOOSE c \in d.case : TRUE).data[row + 1]

(* AppSubcaseTable.updateTable(parser, case): nothing when it already shows
   that row number; subcaseCount raises KeyError for a case without
   'subcase'; otherwise title, size and every cell from the parser. *)
UpdateSubcaseTable(st, d, row) ==
    IF st.case = Some(row) THEN st
    ELSE IF CaseData(d, row).sub = None THEN [st EXCEPT !.crash = TRUE]
    ELSE LET sb == CHOOSE s \in CaseData(d, row).sub : TRUE
         IN [st EXCEPT !.case  = Some(row),
                       !.title = Some(CaseData(d, row).name),
                       !.cells = [r \in 0 .. sb.num - 1 |->
                                    [name |-> Some(sb.data[r + 1].name),
                                     result |-> Some(sb.data[r + 1].result)]]]

(* Mutant: the early return for a case without a score is missing. *)
CtrlSubcaseTableNoScoreCheck(st, d, row) ==
    IF st.crash THEN st
    ELSE IF ~CaseDataOK(d, row) THEN [st EXCEPT !.crash = TRUE]
    ELSE IF st.show # Some(row)
         THEN [UpdateSubcaseTable(st, d, row) EXCEPT !.show = Some(row), !.visible = TRUE]
         ELSE [st EXCEPT !.show = None, !.visible = FALSE]

(* AppReportPage.__ctrlSubcaseTable(row): nothing for a case without a
   score; show the subcase table for a row not shown, hide it otherwise. *)
CtrlSubcaseTable(st, d, row) ==
    IF st.crash THEN st
    ELSE IF ~CaseDataOK(d, row) THEN [st EXCEPT !.crash = TRUE]
    ELSE IF CaseData(d, row).score = None THEN st
    ELSE IF st.show # Some(row)
         THEN [UpdateSubcaseTable(st, d, row) EXCEPT !.show = Some(row), !.visible = TRUE]
         ELSE [st EXCEPT !.show = None, !.visible = FALSE]

(* The page state after n calls of __ctrlSubcaseTable(row) from st, each
   one working on what the previous one left. *)
Clicks(st, d, row, n) ==
    LET calls[i \in 0 .. n] ==
            IF i = 0 THEN st ELSE CtrlSubcaseTable(calls[i - 1], d, row)
    IN calls[n]

(* A click on the Score cell of row r: itemClicked runs every connected
   lambda, each emitting ctrlSubcaseTable(r) once. *)
ClickScore(r) ==
    /\ ~crashed /\ ~uiCrashed
    /\ pc = "idle"
    /\ r \in 0 .. caseRows - 1
    /\ LET st == Clicks(PageState, dataParsed, r, clickConns)
       IN /\ showSubcase' = st.show
          /\ subVisible' = st.visible
          /\ subCase' = st.case
          /\ subTitle' = st.title
          /\ subCells' = st.cells
          /\ uiCrashed' = st.crash
    /\ UNCHANGED <<pvars, caseRows, caseCells, clickConns>>

(* parser.subcaseData(case, sub) (through subcaseStep) on the parser's
   current data: caseData's errors, KeyError for a case without 'subcase',
   IndexError past its subcases. *)
SubcaseDataOK(d, case, sub) ==
    /\ CaseDataOK(d, case)
    /\ CaseData(d, case).sub # None
    /\ sub < Len((CHOOSE s \in CaseData(d, case).sub : TRUE).data)

(* A double-click on the Case cell of row r: AppCaseTable.__itemDoubleClicked
   runs once per connection, and each __showCaseDetails reads caseStep(r)
   from the parser's current data, then opens a modal AppReportDetail when
   the case has steps.  exec_ returns only when the user closes it, so the
   only lasting effect is the exception of a read out of range.  Nothing is
   connected before the first updateTable. *)
DoubleClickCase(r) ==
    /\ ~crashed /\ ~uiCrashed
    /\ pc = "idle"
    /\ clickConns > 0
    /\ r \in 0 .. caseRows - 1
    /\ uiCrashed' = ~CaseDataOK(dataParsed, r)
    /\ UNCHANGED <<pvars, caseRows, caseCells, clickConns, showSubcase,
                   subVisible, subCase, subTitle, subCells>>

(* A double-click on the SubCase cell of row r of the visible subcase table:
   __showSubcaseDetails reads subcaseStep(self._case, r), with the case
   index cached by AppSubcaseTable.updateTable, from the parser's current
   data.  The table is visible only after an updateTable, which made the
   connection. *)
DoubleClickSubcase(r) ==
    /\ ~crashed /\ ~uiCrashed
    /\ pc = "idle"
    /\ subVisible
    /\ r \in DOMAIN subCells
    /\ uiCrashed' = \E c \in subCase : ~SubcaseDataOK(dataParsed, c, r)
    /\ UNCHANGED <<pvars, caseRows, caseCells, clickConns, showSubcase,
                   subVisible, subCase, subTitle, subCells>>

(* The test runner rewrites a report file. *)
Write(f, d, dt) ==
    /\ WriteFile(f, d, dt)
    /\ UNCHANGED ui

(* The program is started again: a new page and a new parser. *)
PageRestart ==
    /\ Restart
    /\ caseRows' = 1
    /\ caseCells' = [r \in 0 .. 0 |-> BlankCase]
    /\ clickConns' = 0
    /\ showSubcase' = None
    /\ subVisible' = FALSE
    /\ subCase' = None
    /\ subTitle' = None
    /\ subCells' = [r \in 0 .. 0 |-> BlankSub]
    /\ uiCrashed' = FALSE

PageNext ==
    \/ \E f \in Files : Request(f)
    \/ Finish
    \/ \E r \in 0 .. caseRows - 1 : ClickScore(r)
    \/ \E r \in 0 .. caseRows - 1 : DoubleClickCase(r)
    \/ \E r \in DOMAIN subCells : DoubleClickSubcase(r)
    \/ \E f \in RegularFiles, d \in Docs, dt \in WriteTicks : Write(f, d, dt)
    \/ PageRestart

PageSpec == PageInit /\ [][PageNext]_pageVars
-----------------------------------------------------------------------------
(* A click on a Score cell or a double-click on a Case cell of the case
   table cannot abort the program while the parser still holds the report
   the table was filled from: __ctrlSubcaseTable, AppSubcaseTable.updateTable
   and __showCaseDetails read parser data by row index, and each read
   (caseData, caseScore, subcaseCount, subcaseName, caseStep) must stay in
   range and find the keys it indexes. *)
ClickSafeOnShownReport ==
    [][ /\ \E r \in 0 .. caseRows - 1 : ClickScore(r) \/ DoubleClickCase(r)
        /\ dataParsed = emitted
        => ~uiCrashed' ]_pageVars

(* Spec section 7: after a failed parse the report rendered before "remains
   displayed unchanged" and stays valid. So a click on a Score cell or a
   double-click on a Case cell of the table on screen cannot abort the
   program, whatever the last parse left. __parseFile deletes _data_parsed
   (__clearData) before the parse that may then return False, and the
   click handlers read the parser's data. *)
ClickNeverAborts ==
    [][ \E r \in 0 .. caseRows - 1 : ClickScore(r) \/ DoubleClickCase(r)
        => ~uiCrashed' ]_pageVars

(* A double-click on a row of the subcase table cannot abort the program
   while the parser holds the report last handed to the page (spec section
   7: the page shows that report): __showSubcaseDetails reads
   subcaseStep(self._case, row) with the case index and the rows of the
   last AppSubcaseTable.updateTable. *)
SubcaseDetailSafe ==
    [][ /\ \E r \in DOMAIN subCells : DoubleClickSubcase(r)
        /\ dataParsed = emitted
        => ~uiCrashed' ]_pageVars

(* The subcase panel belongs to the case row it was opened for (spec
   section 7: the page shows one report): while it is visible, the row
   _show_subcase is a row of the case table, that row's name is the panel's
   title and that row's Score cell counts the results the panel lists. *)
Tally(cells, sym) == Cardinality({r \in DOMAIN cells : cells[r].result = Some(sym)})
SubcasePanelMatchesRow ==
    subVisible =>
      \A r \in showSubcase :
        /\ r < caseRows
        /\ caseCells[r].name = subTitle
        /\ caseCells[r].score =
             Some([pass |-> Tally(subCells, PASS), fail |-> Tally(subCells, FAIL),
                   skip |-> Tally(subCells, SKIP)])

(* Each click on the Score cell of a case that has subcases toggles the
   subcase panel (AppReportPage.__ctrlSubcaseTable shows a hidden panel and
   hides a shown one). *)
ScoreClickToggles ==
    [][ \A r \in 0 .. caseRows - 1 :
          ( /\ ClickScore(r)
            /\ ~uiCrashed'
            /\ caseCells[r].score # None
            /\ dataParsed = emitted )
          => subVisible' # subVisible ]_pageVars

(* The case table shows the last report handed to it (spec section 7): as
   long as the page is up and a report was emitted, each row shows exactly
   the fields of the corresponding case, blank where the case has none. *)
CaseTableShowsEmitted ==
    ~uiCrashed /\ emitted # NoData /\ emitted.case # None =>
      LET cs == CHOOSE c \in emitted.case : TRUE IN
      /\ caseRows = Len(cs.data)
      /\ \A r \in 0 .. caseRows - 1 :
           caseCells[r] = [time |-> cs.data[r + 1].time, name |-> Some(cs.data[r + 1].name),
                           result |-> cs.data[r + 1].result, score |-> cs.data[r + 1].score]

(* A report that parses is displayed (spec sections 3 and 6: 'date' is
   optional): handing a successfully parsed report to the page never
   aborts the program. *)
ParsedReportDisplayed ==
    [][ Finish /\ ParseFile(content[filePath]).ret = "ok" => ~uiCrashed' ]_pageVars
=============================================================================
