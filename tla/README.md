# TLA+ models of the NVMe test-report viewer (`scripts/python/nvmetool.py`)

This directory holds the verification project for the report viewer of this
repository. It contains TLA+ modules that model the report parser and the
report page. It also holds TLC configurations that model-check them on small
instances, and TLAPS proofs of the parser's main properties.

## 1. The system

`nvmetool.py` is a PyQt5 program with a single GUI thread. The part with real
logic is the `JsonParser` class (lines 180-481). The UI pieces below are the
part of the GUI that it drives.

| part | code | state | operations |
|---|---|---|---|
| ResultClassifier | `__parseCommonResult`, `_ERR_OPNOTSUPP` | none | code → Pass / Fail / Skip |
| ScoreAggregator | score updates in `__parseCaseSubcase` | `parsed['score']` | one increment per subcase |
| Schema dispatch and traversal | `_key_top/_key_case/_key_subcase`, `__parseFirstLayer`, `__parseTopCase`, `__parseCaseSubcase`, handlers | `_data_raw`, `_data_parsed` | three nested loops with early `return False` |
| Type checker | `packages/wrap.py` `check` | none | raises a plain `Exception` when an argument does not match its annotation |
| ChangeDetector | `__checkFile`, `__recordFile` | `_file_path`, `_file_mtime` (a single-slot memo) | refuse / skip / record |
| Parse slot | `parse` = `__checkFile` then `__parseFile` then `parsingFinished.emit` | the above | one Qt slot, run on the GUI thread |
| Case table | `AppCaseTable.updateTable`, `Table.setSize` | rows, cells, number of `itemClicked` connections | render on `parsingFinished` |
| Subcase panel | `AppReportPage.__ctrlSubcaseTable`, `AppSubcaseTable.updateTable` | `_show_subcase`, `_case`, title, cells, visibility | toggled by a Score click |
| Detail windows | `__showCaseDetails`, `__showSubcaseDetails`, `AppReportDetail` | none that outlives the modal dialog | a double-click reads the steps by index |
| Not modelled | window, sidebar, home page, cell colours, logger (`log.py`), `requirements.py`, `docs/rst/conf.py` | | layout, I/O and formatting only |

**How the parts interact.**

1. The path field's `editingFinished` signal calls `JsonParser.parse`.
2. `parse` runs `__checkFile`. That method refuses a path that is missing or not `.json`. It skips a path whose `(path, mtime)` equals the memo. Otherwise it records the path and mtime in the memo, before parsing.
3. `__parseFile` deletes `_data_parsed`, calls `json.load`, and rebuilds the report entry by entry.
4. On `True`, `parse` emits `parsingFinished`. That is a direct connection, so `AppCaseTable.updateTable` runs inside the same slot.
5. A click on a Score cell runs every lambda connected to `itemClicked`. Each lambda emits `ctrlSubcaseTable(row)`. `__ctrlSubcaseTable` reads the parser's *current* data by row index.
6. A double-click on a Case cell runs `__showCaseDetails(row)`, which reads `caseStep(row)` from the current data. A double-click on a SubCase cell runs `__showSubcaseDetails(row)`, which reads `subcaseStep(self._case, row)`. That call uses the case index cached by the last subcase update. Either handler opens a modal `AppReportDetail`, and `exec_` returns only when the user closes it.

An exception that escapes a slot aborts the program. This covers a `KeyError`, an `Exception` from `@check`, a `JSONDecodeError`, and a `ValueError` from `setSize`.

Only one actor runs concurrently with the program: the external test runner, which may rewrite the report file at any moment.

**Hard behaviours** (listed as hazards in `PROJECT.json`):
- the runner writing the file between `__checkFile` and `__readFile`;
- a partial or deleted `_data_parsed` after a failed parse, read by a click on the report still on screen;
- an abort and restart;
- click connections that accumulate;
- cached `_case` and cached cells that go stale;
- row 0 and out-of-range rows;
- `bool` results that `@check` accepts as `int`;
- mtime granularity.

## 2. Modules

| module | models | main definitions |
|---|---|---|
| `ReportFormat` | the traversal, as pure operators (no RECURSIVE) | `ParseCommonResult`, `SubcaseEntryOutcome`, `ScoreOf`, `ParseCaseSubcase`, `CaseFieldOutcome`, `CaseRecord`, `ParseTopCase`, `TopField`, `ParseFile` |
| `JsonParser` | the parser object, the file system and the runner | variables `content`, `mtime`, `hasRecord`, `filePath`, `fileMtime`, `dataParsed`, `pc`, `crashed`, `emitted`, and the history `reqFile`/`reqMtime`; actions `CheckFile`, `ReadFile`, `WriteFile`, `Restart` |
| `ReportService` | the abstract contract of the parser: an atomic service, with no memo, that serves a JSON file from its current content | `Serve`, `Write`, `Restart`; the parse `Parse(_)` and the empty report `NoReport` are constant parameters |
| `ReportPage` | the page: it EXTENDS `JsonParser`, so the parser's variables and actions are the page's, and adds the case table and the subcase panel | `Request`, `Finish` (`ReadFile` followed by `UpdateCaseTable`), `ClickScore`, `DoubleClickCase`, `DoubleClickSubcase`, `Write`, `PageRestart`; `PageInit`, `PageNext`, `PageSpec` |
| `ReportFormat_proofs` | TLAPS proof that a successful parse is complete, and that any parse leaves typed case lists, for every report | `LoopOk`, `SubcaseComplete`, `CaseRecordComplete`, `CaseListComplete`, `ParseComplete`, `ParseCasesTyped` |
| `JsonParser_proofs` | TLAPS proofs about `JsonParser` | `TypeInv`, `IInv`, `TypeCorrect`, `RequestServed`, `SkipServed`, `Refinement` |
| `ReportPage_proofs` | TLAPS proof that the page implements the parser, the parser's theorems carried over to the page, and the page's own click safety and typing | `PageNextIsParserStep`, `PageRefinesParser`, `PageParserTypeCorrect`, `PageRequestServed`, `PageImplementsService`, `CallsExist`, `ClickSafe`, `PageTypeCorrect` |
| `MCReportFormat_proofs` | TLAPS proof of the `report_format` run's invariant for every report it enumerates | `ReportsDecoded`, `DocParseComplete` |
| `UnknownKeys_proofs` | TLAPS proofs that an unknown key inserted in the top dict, a case dict or a subcase dict leaves `ParseFile` unchanged, for every decoded report | `InsertAt`, `UniqueKeys`, `StopAtInsert`, `KeyIndexInsert`, `TopReplace`, `SetVal`, `CaseDictReplaced`, `UnknownTopKeyIgnored`, `UnknownCaseKeyIgnored`, `UnknownSubcaseKeyIgnored` |
| `MCUnknownKeys_proofs` | TLAPS proof of the `report_format` run's second invariant for every report it enumerates | `InsIs`, `ExceptVal`, `WFReports`, `GoodAllVals`, `WithUnknownKeyIs`, `DocUnknownKeysIgnored` |
| `MCReports` | concrete decoded reports for the runs | `GoodA`, `GoodB`, `GoodC`, `NoDate`, `NoCases`, `BadEntry`, `NoResult` |
| `MCReportFormat`, `MCJsonParser`, `MCReportPage` | TLC instances | |

**Abstraction.**
- A decoded JSON value is a record tagged by its Python type, and a dict is a sequence of `<<key, value>>` pairs in key order.
- A step of the traversal ends in `"ok"`, `"false"` (the loop returns `False`) or `"raise"`.
- `ParseFile` returns both the outcome and the `_data_parsed` that the code leaves behind. This includes the partial report a failing loop leaves, and the absent one (`NoData`) left by a non-dict root or an undecodable file.
- Absent optional fields are `None == {}`; present ones are `Some(x) == {x}`.
- Of the case scalars, only `time` is carried into the parsed record. `speed` and `width` behave the same way in the code (written when not None). All three keep their `@check` types.

**The runner's writes.** `WriteFile(f, d, dt)` replaces the file's content and adds `dt \in WriteTicks` to its mtime. `dt = 0` is a rewrite within the filesystem's timestamp granularity, which `os.path.getmtime` cannot tell from no write. The runs use `WriteTicks = {1}`, except `parser_coarse`, which uses `{0, 1}`.

**The detail windows.** A double-click has no lasting effect on the modelled state unless it raises. The modal dialog is opened and closed inside the step. Every read that can raise (`caseData`, `subcaseData`) comes before the test for steps, so whether a case has steps does not matter to any property. The model therefore carries no steps.

**The parse slot.** The slot is one atomic step of the GUI thread. It is split into `CheckFile` and `ReadFile` only so that the runner's `WriteFile` can fall between them; no other action of the program may run in between. `Restart` is a new program: it has a fresh parser and a fresh page, and the files are unchanged.

## 3. Runs

| run | cfg | checks | result |
|---|---|---|---|
| parser_memo | `MCJsonParser.cfg` | `TypeOK`, `RequestServesCurrentFile`, `ImplementsService` | pass, 13032 states |
| parser_coarse | `MCJsonParser_coarse.cfg` | `SkippedRequestIsCurrent` | violated: a file holding an array is parsed (False, memo recorded); a same-tick rewrite to a good report is then skipped and nothing is shown |
| report_format | `MCReportFormat.cfg` | `SuccessfulParseComplete`, `UnknownKeysIgnored` over 3111 generated reports | pass |
| report_wellformed | `MCReportFormat_wellformed.cfg` | `WellFormedAccepted` | violated: a subcase without `result` raises `KeyError` (line 436) |
| report_types | `MCReportFormat_types.cfg` | `MistypedValueRefused` | violated: `{"case":{"c1":{"result":false}}}` parses, and the case is Pass |
| report_page | `MCReportPage.cfg` | `PageTypeOK`, `ClickSafeOnShownReport` | pass, 1349 states |
| page_subcase_detail | `MCReportPage_detail.cfg` | `SubcaseDetailSafe` | violated: the panel of GoodA (two subcases) stays open under GoodC (one subcase); a double-click on row 1 raises `IndexError` |
| page_subcase_panel | `MCReportPage_panel.cfg` | `SubcasePanelMatchesRow` | violated: the panel shows the previous report |
| page_click_toggle | `MCReportPage_toggle.cfg` | `ScoreClickToggles` | violated: two connections, so one click shows and then hides |
| page_stale_cells | `MCReportPage_cells.cfg` | `CaseTableShowsEmitted` | violated: the same row count keeps old cells |
| page_render_crash | `MCReportPage_render.cfg` | `ParsedReportDisplayed` | violated: a report with no date, or with no cases, aborts |
| page_click_after_fail | `MCReportPage_afterfail.cfg` | `ClickNeverAborts` | violated: GoodA is rendered, the runner rewrites the file to a JSON array, and the reload returns False after `__clearData` deleted `_data_parsed`; a Score click on GoodA, still on screen, raises `AttributeError` in `caseScore` |

**What the passing properties say.**
- `RequestServesCurrentFile`: after `parse(f)` returns for a JSON file unchanged since it was checked, the last report emitted is that file's report. This must survive the memo's skip and the runner's write in the middle of the slot.
- `SuccessfulParseComplete`: a parse returning `True` yields every case and subcase, a score exactly where there are subcases, and scores that count each subcase once.
- `UnknownKeysIgnored`: spec §8.
- `ClickSafeOnShownReport`: while the parser holds the report that the table was built from, no Score click and no double-click on a case row aborts the program. Its condition excludes the states a failed or partial reload leaves; `ClickNeverAborts`, without that condition, is what `page_click_after_fail` shows violated.
- `ImplementsService`: the parser refines `ReportService` under `INSTANCE ReportService WITH shown <- emitted, aborted <- crashed, Parse <- ParseFile, NoReport <- NoData`. `CheckFile` maps to a stutter, which is a dropped request when the memo skips. `ReadFile` maps to `Serve(filePath)`, and `WriteFile` and `Restart` map to their namesakes. The memo, the parse slot and `dataParsed` are hidden. This holds for any write granularity: a skipped request is still a legal behaviour of the service, because it may drop requests. The memo's promise that a skip loses nothing is the separate, stronger `RequestServesCurrentFile`.
- Each violation run states a promise of the spec: typed fields (§3, §6), a skip only when the old report is still valid (§4.4), a well-formed report accepted (§4.2), and the page showing the last report, still usable, after a failed reload (§7).

**Mutants.** Each passing property has a mutant of the code that TLC catches:

| mutant | property it breaks |
|---|---|
| the memo compares the path only | `RequestServesCurrentFile` |
| `parse` emits even when `__parseFile` returns False | `ImplementsService` |
| `_data_parsed` holds the raw JSON | `TypeOK` |
| the score misses one subcase | `SuccessfulParseComplete` |
| no `continue` for unknown case keys | `UnknownKeysIgnored` |
| `__checkSize` accepts 0 rows | `PageTypeOK` |
| no early return for a case without a score | `ClickSafeOnShownReport` |

**Bounds.**
- *Files.* Two JSON paths and one non-JSON path reach every branch of `__checkFile`. The two JSON paths are one regular file and one missing file. In `MCReportPage` there is one file.
- *`MaxMtime = 2`.* This allows a write inside the slot and a later one. With `WriteTicks = {0, 1}` it also allows a same-tick rewrite followed by a moving one.
- *`MaxConns = 3` renders per run of the program.* Two renders already give the double toggle.
- *Report contents.* They cover success, success without subcases, a failing subcase, no date, no cases, a `return False` entry, a `KeyError`, a non-dict root and undecodable garbage.
- *`MCReportFormat`.* It enumerates every report with up to two cases and up to two subcases. Codes are drawn from {0, -1, -95}, and some fields are badly typed.

**Liveness.** No liveness property is checked, so no fairness is assumed. The program is driven by the user, who may stop at any time. The only thing that must eventually happen, the render after a successful parse, happens inside the same atomic step.

## 4. Proofs (checked by `tlapm`)

**The parser (`JsonParser_proofs`).**

- `TypeCorrect == Spec => []TypeOK`
- `RequestServed == ASSUME StrictClock PROVE Spec => []RequestServesCurrentFile`, where `StrictClock == 0 \notin WriteTicks`
- `SkipServed == ASSUME StrictClock PROVE Spec => SkippedRequestIsCurrent` (an action property)
- `Refinement == Spec => ImplementsService`

All four hold for every value of the constants, under `FilesAssumption`. That assumption says: the regular and the JSON files are subsets of `Files`, `MaxMtime \in Nat`, `WriteTicks \subseteq Nat`, and `NoFile \notin Files`. `RequestServed` and `SkipServed` need `StrictClock` as well. Without it `SkippedRequestIsCurrent` is false, and the `parser_coarse` run shows the counterexample. So `SkipServed` and that run together say that the stale skip comes exactly from a write that does not move the mtime.

`TypeOK` is not inductive by itself. `ReadFile` parses `content[filePath]`, which is typed only when `filePath` is a regular file. `TypeInv == TypeOK /\ MemoSound` is inductive for any clock. `TypeCorrect` and `Refinement` rest on it. `RequestServesCurrentFile` is not inductive either. The inductive invariant `IInv` adds two more conjuncts to `TypeInv`:

- `MemoSound`: in the slot the memo is set and the program has not aborted. A set memo names a regular JSON file, recorded no later than its current mtime. The refinement needs this, because `Serve` is enabled only for a JSON file and only while not aborted.
- `RequestRecorded`: the last request for a JSON file left exactly that file and its checked mtime in the memo. This holds both when the request was skipped and when it recorded the file.
- `MemoCurrent`: outside the slot, a memo whose mtime still matches the file holds that file's report in `emitted`, when that report parses.

Under `StrictClock`, `WriteFile` preserves `MemoCurrent` because it moves the mtime strictly past the memo. That is why `MemoSound` needs `fileMtime <= mtime[filePath]`.

For the refinement, `NextRefines` shows `TypeInv /\ [Next]_vars => [Service!Next]_svars` one case per action, and `PTL` lifts it with `InitRefines`. The service takes the parse as a constant operator, so `Service!Serve` is stated with the same `ParseFile` as `ReadFile`, and neither side is expanded.

`SkipServed` follows from the same `IInv`. A step of `CheckFile(f)` that stays idle for a regular JSON file is a skip, so `IsRecorded(f)` held before it. `MemoCurrent` then gives `emitted` as the file's report (lemma `SkipStepCurrent`). `PTL` lifts the step fact from `[]IInv` to `[][...]_vars`.

`IInv` was model-checked as an invariant of the `parser_memo` instance before it was proved. The proof has one lemma per action. Each lemma has one step per conjunct, and the flags part of `TypeOK` is handled by Zenon. `ParseFile` is never expanded: the argument needs only that what is stored is the parse of the file read.

**The traversal (`ReportFormat_proofs`).** `ParseComplete` proves `ParsedReportComplete(raw)`, the body of `SuccessfulParseComplete`, for every `raw` that satisfies `Decoded(raw, E)`. That hypothesis says the top dict, the case dict, each case entry's dict and the dicts its keys hold are sequences over some set `E`. Every report `json.load` returns satisfies it. The model's operators have three fixed levels and no recursion, so no induction over data is needed. The argument follows the levels:

- `LoopOk`: a loop whose outcome is `"ok"` ran over every entry. If some entry were not `"ok"`, the set of such indices would have a least element (`WFMin` on `OpToRel(<, Nat)` from `WellFoundedInduction`). `StopAt` would choose it and the loop would not return `"ok"`.
- `SubcaseComplete`: a subcase loop that returns True keeps all `Len(raw.es)` entries. `ScoreOf` counts exactly the set of indices whose `SubcaseRecord` carries each symbol.
- `CaseRecordComplete`: every handler of the case succeeded. The `subcase` handler therefore ran its loop to the end, and `score` and `subcase` are both present or both absent.
- `CaseListComplete`, then `ParseComplete`: the same argument for the case loop and the top loop. `TopField` for `"case"` is then the `ParseTopCase` of the value under that key.

**The run's invariant (`MCReportFormat_proofs`).** `DocParseComplete == Init /\ [][Next]_doc => []SuccessfulParseComplete` states the `report_format` run's invariant for every report that run enumerates. `ReportsDecoded` shows each such report is `Decoded(doc, Ent)`, where `Ent` is the set of entries the reports use, at any depth. It works level by level: subcase dicts (`SubObjsDict`), case entries (`CaseEntriesDecoded`), case dicts (`TopValDecoded`) and reports. It uses only sequence facts: a literal of one or two entries, an optional field, a concatenation. `ParseComplete` then applies. Three limits of the provers shaped this module:
- they do not know that a string literal is in `STRING`, so `Ent` ranges over the finite set `Keys` of keys the reports use;
- a union of three set comprehensions defeats both backends, so `SubObjs` and `Reports` are split into named parts;
- a hypothesis that is a comprehension over `\o` makes every later step of the same proof fail, so those sets are named (`DatedSet`, `CaseFirstSet`, `CaselessSet`) and expanded only where a witness is picked.

**Unknown keys (`UnknownKeys_proofs`).** Spec §8 says that keys no handler knows are ignored. Each `__parse*` loop dispatches on the key, and for an unknown key the handler does nothing and returns `"ok"`. Three theorems state this for every decoded report. An entry `x` whose key no handler of that level reads (`x[1] \notin TopKeys`, `CaseKeys` or `SubcaseKeys`) is inserted at any position `p` of a dict, written `InsertAt(es, p, x)`. `__parseFile` then returns the same and leaves the same `_data_parsed` (`SameParse(raw2, raw)`, which is `ParseFile(raw2) = ParseFile(raw)`):
- `UnknownTopKeyIgnored`: the entry goes into the top dict;
- `UnknownCaseKeyIgnored`: it goes into a case entry's dict;
- `UnknownSubcaseKeyIgnored`: it goes into a subcase entry's dict.

The reports differ only along the path to the changed dict. Each level above it is rebuilt with `SetVal`, which replaces one entry's value and keeps its key.

The one hypothesis beyond `Decoded` is `UniqueKeys` of the dict that receives the entry. `json.load` guarantees it, since a Python dict has no repeated keys. It is needed because `HasKey` and `Val` read the entry a key names, and with a repeated key the inserted entry could change which entry that is. The argument:
- on a loop's outcomes, the insertion puts one `"ok"` into the sequence, so the stopping index moves by one exactly when it lies after `p` (`StopAtInsert`);
- the entry a key names moves the same way, `Shift(KeyAt(es, k), p)` (`KeyIndexInsert`);
- so every field read before the stop is read alike, and `TopField` compares alike through `TopFieldOf`.

On the way up, `CaseEntryReplace` and `TopReplace` show that a value replaced by one the level's reader sees alike changes nothing (`SubcaseAlike`, `TopAlike`). `CaseDictReplaced` and `CaseAlikeReplaced` chain these through the case list. tlapm instantiates a lemma with many hypotheses only when its conclusion is a single atom, so the lemmas cited across levels conclude `SameParse`, `SameCases`, `SameSub` or `SameCaseEntry`.

**The run's second invariant (`MCUnknownKeys_proofs`).** `DocUnknownKeysIgnored == Init /\ [][Next]_doc => []UnknownKeysIgnored` connects the theorems above to the run. It takes four steps:
- `InsIs` shows the run's `Ins(es, i)` is `InsertAt(es, i, <<"foo", JInt(1)>>)`.
- `ExceptVal` shows a nested `[d EXCEPT !.es[j][2]... = Ins(@, i)]` is the `SetVal` chain, one level at a time (`InsLIs`, `InsDIs`, `InsSLIs`, `InsSDIs`).
- `WFReports` and `GoodAllVals` show that every dict the reports hold, at any depth, is built by `JObj`, is a sequence over `Ent` and has distinct keys. Concatenated optional fields keep distinct keys (`UniqueConcat`, `OptUK`).
- `WithUnknownKeyIs` splits `WithUnknownKey` into its three parts. Each part is discharged by `TopInsIgnored`, `CaseInsIgnored` or `SubInsIgnored`.

**The page (`ReportPage_proofs`).** `ReportPage` EXTENDS `JsonParser`, so the page and the parser share one set of definitions. `PageNextIsParserStep` shows that every page step is a parser step or leaves the parser's variables alone, one case per action:
- `Request` is `CheckFile`, `Finish` contains `ReadFile`, `Write` is `WriteFile` and `PageRestart` contains `Restart`;
- the clicks and double-clicks leave `pvars` unchanged.

From it, `PageRefinesParser == PageSpec => Spec` follows. By `PTL`, `TypeCorrect`, `RequestServed`, `SkipServed` and `Refinement` then hold inside the page: `PageParserTypeCorrect`, `PageRequestServed` and `PageImplementsService`. (An `INSTANCE` of the parser would not do: tlapm does not identify the instance's `ParseFile` with the one `ReportPage` extends, and unfolding both copies is beyond it.)

**The page's own properties (`ReportPage_proofs`).** A Score click runs `__ctrlSubcaseTable` once per connected handler. The model writes this as `Clicks(st, d, row, n)`, a recursive function `calls` over `0 .. n`. tlapm reads such a definition as `CHOOSE f : f = [i \in 0 .. n |-> ...]`, so the defining equation can be used only once that function is shown to exist. `NaturalsInduction`'s `RecursiveFcnOfNat` would show this, but it takes an operator parameter, which the installed provers cannot instantiate. `CallsExist` proves it directly instead. Take the least `n` for which no solution exists (`WFMin` on `OpToRel(<, Nat)`). It is not 0, and the solution for `n - 1`, extended by one more call, is a solution for `n`. Facts about every call are proved the same way, over the least index where the fact fails: `ClicksKeepUp` for "no call crashes", and `ClicksTyped` for "the panel stays typed".

- `ClickSafe == ASSUME DocsDecoded PROVE PageSpec => ClickSafeOnShownReport`. `DocsDecoded` says every report file is `Decoded(doc, E)` for some `E`, which is what `json.load` returns. The inductive invariant `PInv == TypeInv /\ ClickInv` carries these facts, and TLC checked it on `MCReportPage` first:
  - `emitted` is `NoData` or the data of a successful parse;
  - nothing is connected before the first render;
  - the page has not aborted;
  - when a report was emitted, it has a case list and the table has one row per case.

  Under `dataParsed = emitted`, each clicked row is then `RowSafe`: `caseData(row)` is in range, and a case with a score has subcases (`OkCaseRows`, from `ParseComplete`). No call of `CtrlSubcaseTable` on a safe row crashes.
- `PageTypeCorrect == ASSUME DocsTyped PROVE PageSpec => []PageTypeOK`. `DocsTyped` strengthens `DocsDecoded`: keys are strings and numbers are integers (`TypedEntries`), again what `json.load` yields. The parse-side lemma `ParseCasesTyped` (in `ReportFormat_proofs`) shows that every case list a parse leaves is typed. This holds whatever the parse returned, because the loop keeps the entries before its stopping index (`StopAtPrefix`). The inductive invariant is `TInv == TypeInv /\ UITypeOK`, and TLC checked it first. `UITypeOK` gives the page its types and views the subcase panel as the record `PageState` (`PanelTyped`). It also needs the conjunct `pc = "reading" => clickConns < MaxConns`. `PageTypeOK` alone is not inductive: `Request`'s guard bounds the connections only when the parse slot opens, and `Finish` adds one. `TInvPageTypeOK` then turns "the panel has `k` rows numbered from 0" into `PageTypeOK`'s cardinality form with `FS_Interval`.

**Only model-checked.**
- The violation runs. They are counterexamples, and TLC's traces are their evidence.
- Liveness. None is stated (see Liveness), and `ENABLED` and fairness are beyond the provers in any case.

**A divergence without a run.** Spec §8 has a scenario with `"subcase": {}` that expects an empty subcase list and no score. `__parseCaseSubcase` returns before it creates `parsed['subcase']` (lines 411-412), so the case has neither key. The spec's own open question (§9) notes this asymmetry. The page treats both forms alike, since neither has a score.

## 5. Not modelled

- **Window, sidebar, home page** (`AppWindow`, `AppSidebar`, `AppHomePage`, `PushButton`). These are layout and page switching. `show`/`hide` of the report page changes no state that the report path reads.
- **Cell colours** (`__setResultBackground`). Their only effect on control is an exception. It could come from `isCaseResultPass` indexing `['result']`, but that call is reached only when `caseResult` is not None, so it cannot raise.
- **The detail window's text** (`recvCaseStepData`). This is formatting of the step list.
- **The file dialog button** (`AppInputFile.__buttonClickedHandler`). It sets the path field and emits `editingFinished` itself, so it is the same `Request`. A cancelled dialog gives the empty path, which `__checkFile` refuses like any missing file. The dialog itself is I/O.
- **`check_type` on typing generics.** The model tags values only by their top-level type. A `step` array is either accepted or refused as a whole.
- **`log.py`, `requirements.py`, `docs/rst/conf.py`.** These are diagnostic output, a one-shot `pip` call and documentation settings.

## 6. Further work

1. Extend the unknown-key theorems to several inserted entries at once, by induction on their number over the least failing count (`WFMin`), as `CallsExist` does.
