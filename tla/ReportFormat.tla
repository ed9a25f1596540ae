---------------------------- MODULE ReportFormat ----------------------------
(***************************************************************************)
(* The report-file traversal of JsonParser (scripts/python/nvmetool.py),   *)
(* as pure operators: what __parseFile / __parseFirstLayer and the         *)
(* handlers of the three dispatch tables compute from the decoded JSON.    *)
(*                                                                         *)
(* A decoded JSON value is a record tagged by its Python type:             *)
(*   [t |-> "obj", es |-> <<<<key, value>>, ...>>]  a dict, keys in order  *)
(*   [t |-> "int", n |-> n]      [t |-> "str", s |-> s]   [t |-> "arr"]    *)
(*   [t |-> "bool", n |-> 0 or 1]  a JSON false/true, an int to Python     *)
(* and a file that json.load cannot decode is [t |-> "garbage"].  Every    *)
(* handler is wrapped in @check (scripts/python/packages/wrap.py), which   *)
(* raises when an argument does not have its annotated type; a handler     *)
(* body can return False.  A step of the traversal therefore ends in one   *)
(* of three outcomes, "ok", "false" (the loop returns False) or "raise".   *)
(*                                                                         *)
(* No RECURSIVE operator: the three nesting levels are fixed, and "the     *)
(* first entry of a loop that stops" is a CHOOSE over the indices.         *)
(***************************************************************************)
EXTENDS Integers, Sequences, FiniteSets

(* The platform "operation not supported" code, _ERR_OPNOTSUPP. *)
ERR_OPNOTSUPP == -95

(* Result symbols _PASS, _FAIL, _SKIP. *)
PASS == "pass"
FAIL == "fail"
SKIP == "skip"

(* An optional field of a parsed dict: None when the key is absent, Some(x)
   when it holds x. *)
None == {}
Some(x) == {x}

(* The parsed data when _data_parsed does not exist (deleted by __clearData
   and not rebuilt). *)
NoData == [absent |-> TRUE]

Outcomes == {"ok", "false", "raise"}

-----------------------------------------------------------------------------
(* Access to the entries of a decoded dict. *)
HasKey(es, k) == \E i \in DOMAIN es : es[i][1] = k
Val(es, k) == es[CHOOSE i \in DOMAIN es : es[i][1] = k][2]

(* The index at which a loop over a sequence of per-entry outcomes stops:
   the first entry whose outcome is not "ok", or Len(outs) + 1. *)
StopAt(outs) ==
    IF \A i \in DOMAIN outs : outs[i] = "ok"
    THEN Len(outs) + 1
    ELSE CHOOSE i \in DOMAIN outs :
            /\ outs[i] # "ok"
            /\ \A j \in 1 .. i - 1 : outs[j] = "ok"

(* What the loop returns: the outcome of the entry it stopped at. *)
LoopOutcome(outs) ==
    IF StopAt(outs) > Len(outs) THEN "ok" ELSE outs[StopAt(outs)]

(* The type annotations @check enforces on the value argument of the
   handlers of _key_top, _key_case and _key_subcase.  check_type tests a
   plain class with isinstance, and a JSON true/false decodes to a bool,
   which is an int: an annotation int (and int or float) accepts it. *)
TopKeys == {"case", "date", "version"}
CaseKeys == {"result", "speed", "step", "subcase", "time", "width"}
SubcaseKeys == {"result", "step"}
ArgTypes(k) ==
    CASE k \in {"date", "version"}         -> {"str"}
      [] k \in {"case", "subcase"}         -> {"obj"}
      [] k \in {"result", "time", "width"} -> {"int", "bool"}
      [] k = "speed"                       -> {"int", "float", "bool"}
      [] k = "step"                        -> {"arr"}

-----------------------------------------------------------------------------
(* __parseCommonResult: classification of a result code. *)
ParseCommonResult(result) ==
    IF result < 0
    THEN IF result = ERR_OPNOTSUPP THEN SKIP ELSE FAIL
    ELSE PASS

(* One entry of the subcase loop of __parseCaseSubcase: a non-dict entry
   makes the loop return False; a badly typed 'result' or 'step' raises in
   @check; the score update reads _subcase['result'], a KeyError when the
   entry has no 'result'. *)
SubcaseEntryOutcome(v) ==
    IF v.t # "obj" THEN "false"
    ELSE IF \E i \in DOMAIN v.es :
                /\ v.es[i][1] \in SubcaseKeys
                /\ v.es[i][2].t \notin ArgTypes(v.es[i][1])
         THEN "raise"
         ELSE IF ~HasKey(v.es, "result") THEN "raise" ELSE "ok"

SubcaseOutcomes(raw) == [i \in DOMAIN raw.es |-> SubcaseEntryOutcome(raw.es[i][2])]

(* The parsed subcase dict: its name and its classified result. *)
SubcaseRecord(e) ==
    [name |-> e[1], result |-> ParseCommonResult(Val(e[2].es, "result").n)]

(* Mutant: the score misses the last subcase handled. *)
ScoreOfOffByOne(raw, n) ==
    LET cls(r) == Cardinality({i \in 1 .. n - 1 :
                     ParseCommonResult(Val(raw.es[i][2].es, "result").n) = r})
    IN [pass |-> cls(PASS), fail |-> cls(FAIL), skip |-> cls(SKIP)]

(* parsed['score'] after the loop has handled the first n entries. *)
ScoreOf(raw, n) ==
    LET cls(r) == Cardinality({i \in 1 .. n :
                     ParseCommonResult(Val(raw.es[i][2].es, "result").n) = r})
    IN [pass |-> cls(PASS), fail |-> cls(FAIL), skip |-> cls(SKIP)]

(* __parseCaseSubcase: an empty dict adds nothing; otherwise 'score' and
   'subcase' are added to the case before the loop, 'num' counts every
   entry and 'data' holds the entries handled before the loop stopped. *)
ParseCaseSubcase(raw) ==
    LET n == StopAt(SubcaseOutcomes(raw)) - 1
    IN [ret   |-> LoopOutcome(SubcaseOutcomes(raw)),
        score |-> IF raw.es = <<>> THEN None ELSE Some(ScoreOf(raw, n)),
        sub   |-> IF raw.es = <<>> THEN None
                  ELSE Some([num  |-> Len(raw.es),
                             data |-> [i \in 1 .. n |-> SubcaseRecord(raw.es[i])]])]

(* Mutant: no 'continue' for keys missing from _key_case, so looking the
   handler up raises KeyError. *)
CaseFieldOutcomeNoSkip(k, v) ==
    IF k \notin CaseKeys THEN "raise"
    ELSE IF v.t \notin ArgTypes(k) THEN "raise"
    ELSE IF k = "subcase" THEN ParseCaseSubcase(v).ret
    ELSE "ok"

(* One key of a case dict: unknown keys are skipped, a value that does not
   have the handler's type raises, and the subcase handler runs its loop. *)
CaseFieldOutcome(k, v) ==
    IF k \notin CaseKeys THEN "ok"
    ELSE IF v.t \notin ArgTypes(k) THEN "raise"
    ELSE IF k = "subcase" THEN ParseCaseSubcase(v).ret
    ELSE "ok"

(* One entry of the case loop of __parseTopCase. *)
CaseEntryOutcome(v) ==
    IF v.t # "obj" THEN "false"
    ELSE LoopOutcome([i \in DOMAIN v.es |-> CaseFieldOutcome(v.es[i][1], v.es[i][2])])

CaseOutcomes(raw) == [i \in DOMAIN raw.es |-> CaseEntryOutcome(raw.es[i][2])]

(* The parsed case dict of an entry whose handlers all succeeded: 'name',
   the scalar fields (time standing for time, speed and width), 'result'
   through __parseCommonResult, and what __parseCaseSubcase added. *)
CaseRecord(e) ==
    LET es == e[2].es
        sc == IF HasKey(es, "subcase") THEN ParseCaseSubcase(Val(es, "subcase"))
              ELSE [score |-> None, sub |-> None]
    IN [name   |-> e[1],
        result |-> IF HasKey(es, "result")
                   THEN Some(ParseCommonResult(Val(es, "result").n)) ELSE None,
        time   |-> IF HasKey(es, "time") THEN Some(Val(es, "time").n) ELSE None,
        score  |-> sc.score,
        sub    |-> sc.sub]

(* __parseTopCase: parsed['case'] = {num: all entries, data: the cases
   appended before the loop stopped}. *)
ParseTopCase(raw) ==
    LET n == StopAt(CaseOutcomes(raw)) - 1
    IN [num  |-> Len(raw.es),
        data |-> [i \in 1 .. n |-> CaseRecord(raw.es[i])]]

(* One key of the top-level dict. *)
TopEntryOutcome(k, v) ==
    IF k \notin TopKeys THEN "ok"
    ELSE IF v.t \notin ArgTypes(k) THEN "raise"
    ELSE IF k = "case" THEN LoopOutcome(CaseOutcomes(v))
    ELSE "ok"

TopOutcomes(raw) == [i \in DOMAIN raw.es |-> TopEntryOutcome(raw.es[i][1], raw.es[i][2])]

(* The value a top-level key holds in _data_parsed once the loop stopped at
   index stop: set when its handler ran to the end, or when the case
   handler's body began (it assigns parsed['case'] before its loop), but
   not when @check refused the value's type. *)
TopField(raw, k, stop) ==
    LET i == CHOOSE j \in DOMAIN raw.es : raw.es[j][1] = k
        v == raw.es[i][2]
    IN IF ~HasKey(raw.es, k) \/ i > stop THEN None
       ELSE IF i = stop /\ v.t \notin ArgTypes(k) THEN None
       ELSE IF k = "case" THEN Some(ParseTopCase(v))
       ELSE Some(v.s)

(* __parseFile: __clearData, __readFile (json.load), __parseFirstLayer.
   Returns what __parseFile returns (or that it raised) and the resulting
   _data_parsed. *)
ParseFile(raw) ==
    IF raw.t = "garbage" THEN [ret |-> "raise", data |-> NoData]
    ELSE IF raw.t # "obj" THEN [ret |-> "false", data |-> NoData]
    ELSE LET stop == StopAt(TopOutcomes(raw))
         IN [ret  |-> LoopOutcome(TopOutcomes(raw)),
             data |-> [date    |-> TopField(raw, "date", stop),
                       version |-> TopField(raw, "version", stop),
                       case    |-> TopField(raw, "case", stop)]]
-----------------------------------------------------------------------------
(* Properties of the traversal, for a decoded report raw. *)

(* A successful parse yields a complete report (spec section 3): the case
   list holds every case entry, each subcase list every subcase entry, a
   case has a score exactly when it has subcases, and the score counts each
   subcase once, under the symbol its result was classified as. *)
ParsedReportComplete(raw) ==
    LET r == ParseFile(raw)
    IN  r.ret = "ok" =>
          \A c \in r.data.case : 
            /\ c.num = Len(c.data)
            /\ \A i \in DOMAIN c.data :
                 LET k == c.data[i] IN
                 /\ (k.score = None) = (k.sub = None)
                 /\ \A sc \in k.score, sb \in k.sub :
                      /\ sb.num = Len(sb.data)
                      /\ \A sym \in {PASS, FAIL, SKIP} :
                           LET n == IF sym = PASS THEN sc.pass
                                    ELSE IF sym = FAIL THEN sc.fail ELSE sc.skip
                           IN n = Cardinality({j \in DOMAIN sb.data : sb.data[j].result = sym})

(* The value types of the input format (spec section 6): JSON numbers and
   strings, arrays and objects; a JSON true/false is none of them. *)
SpecTypes(k) == ArgTypes(k) \ {"bool"}

(* Well-formed input is accepted (spec sections 4.2 and 4.3): a report whose
   recognised keys all hold values of the documented shape, every case and
   subcase entry being an object, parses without failing, subcases without
   a 'result' simply not counting towards the score. *)
WellShaped(v, keys) ==
    \A i \in DOMAIN v.es : v.es[i][1] \in keys => v.es[i][2].t \in SpecTypes(v.es[i][1])
WellFormedReport(raw) ==
    /\ raw.t = "obj"
    /\ WellShaped(raw, TopKeys)
    /\ \A i \in DOMAIN raw.es : raw.es[i][1] = "case" /\ raw.es[i][2].t = "obj" =>
         \A j \in DOMAIN raw.es[i][2].es :
           LET ce == raw.es[i][2].es[j][2] IN
           /\ ce.t = "obj"
           /\ WellShaped(ce, CaseKeys)
           /\ \A m \in DOMAIN ce.es : ce.es[m][1] = "subcase" /\ ce.es[m][2].t = "obj" =>
                \A q \in DOMAIN ce.es[m][2].es :
                  /\ ce.es[m][2].es[q][2].t = "obj"
                  /\ WellShaped(ce.es[m][2].es[q][2], SubcaseKeys)
WellFormedReportParses(raw) ==
    WellFormedReport(raw) => ParseFile(raw).ret = "ok"

(* A value of the wrong type is a schema violation (spec sections 4.3 and
   7): a report that is not well formed only because of a value's type at
   a recognised key, every entry being an object, is never reported as
   parsed; @check is the code's only type test. *)
EntriesAreObjects(raw) ==
    /\ raw.t = "obj"
    /\ \A i \in DOMAIN raw.es : raw.es[i][1] = "case" /\ raw.es[i][2].t = "obj" =>
         \A j \in DOMAIN raw.es[i][2].es :
           LET ce == raw.es[i][2].es[j][2] IN
           /\ ce.t = "obj"
           /\ \A m \in DOMAIN ce.es : ce.es[m][1] = "subcase" /\ ce.es[m][2].t = "obj" =>
                \A q \in DOMAIN ce.es[m][2].es : ce.es[m][2].es[q][2].t = "obj"
MistypedReportRefused(raw) ==
    EntriesAreObjects(raw) /\ ~WellFormedReport(raw) => ParseFile(raw).ret # "ok"

=============================================================================
