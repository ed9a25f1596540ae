--------------------------- MODULE MCReportFormat ---------------------------
(* The traversal of ReportFormat checked on every decoded report of a
   bounded shape: up to two cases, up to two subcases per case, result
   codes on both sides of zero and the skip sentinel, badly typed values
   and non-object entries at each level, keys in more than one order. *)
EXTENDS ReportFormat

VARIABLE doc

JObj(es) == [t |-> "obj", es |-> es]
JInt(n) == [t |-> "int", n |-> n]
JStr(s) == [t |-> "str", s |-> s]
JArr == [t |-> "arr"]
JBool(b) == [t |-> "bool", n |-> IF b THEN 1 ELSE 0]

Codes == {0, 1, -1, ERR_OPNOTSUPP}

(* Subcase entries: not an object, no result, a result of each kind, a
   badly typed result, a JSON true as result, a step list before the
   result. *)
ResultEntries ==
    {JObj(<< <<"result", JInt(c)>> >>) : c \in Codes} \cup
    {JObj(<< <<"result", JBool(TRUE)>> >>)}
SubEntries ==
    ResultEntries \cup
    {JArr, JObj(<< >>), JObj(<< <<"result", JStr("x")>> >>),
     JObj(<< <<"step", JArr>>, <<"result", JInt(-1)>> >>)}
SubObjs ==
    {JObj(<< >>)} \cup
    {JObj(<< <<"s1", v>> >>) : v \in SubEntries} \cup
    {JObj(<< <<"s1", v>>, <<"s2", w>> >>) : v \in ResultEntries \cup {JArr}, w \in SubEntries}

(* Optional case fields, as sequences of zero or one entry. *)
Opt(k, S) == {<< >>} \cup {<< <<k, v>> >> : v \in S}
ResultFields == Opt("result", {JInt(0), JInt(-1), JInt(ERR_OPNOTSUPP), JStr("x"), JBool(FALSE)})
SubcaseFields == Opt("subcase", SubObjs \cup {JArr})
TimeFields == Opt("time", {JInt(3), JStr("x")})

CaseEntries ==
    {JArr} \cup
    {JObj(r \o s \o t) : r \in ResultFields, s \in SubcaseFields, t \in TimeFields} \cup
    {JObj(s \o r) : r \in ResultFields, s \in SubcaseFields}
SmallCaseEntries ==
    {JArr, JObj(<< >>), JObj(<< <<"result", JInt(-1)>>, <<"time", JStr("x")>> >>),
     JObj(<< <<"subcase", JObj(<< <<"s1", JObj(<< >>)>> >>)>> >>)}

CaseObjs ==
    {JObj(<< >>)} \cup
    {JObj(<< <<"c1", v>> >>) : v \in CaseEntries} \cup
    {JObj(<< <<"c1", v>>, <<"c2", w>> >>) : v \in SmallCaseEntries \cup ResultEntries,
                                            w \in SmallCaseEntries \cup ResultEntries}
DateFields == Opt("date", {JStr("d"), JInt(1)})

Reports ==
    {JArr, [t |-> "garbage"]} \cup
    {JObj(d \o << <<"case", c>> >>) : d \in DateFields, c \in CaseObjs \cup {JArr}} \cup
    {JObj(<< <<"case", c>> >> \o d) : d \in DateFields, c \in SmallCaseEntries} \cup
    {JObj(d) : d \in DateFields}

Init == doc \in Reports
Next == UNCHANGED doc

-----------------------------------------------------------------------------
(* An unknown key "foo" inserted at position i of the dict at es. *)
Ins(es, i) == SubSeq(es, 1, i - 1) \o << <<"foo", JInt(1)>> >> \o SubSeq(es, i, Len(es))

(* doc with "foo" inserted in the top-level dict, in a case dict or in a
   subcase dict. *)
WithUnknownKey(d) ==
    IF d.t # "obj" THEN {} ELSE
    {JObj(Ins(d.es, i)) : i \in 1 .. Len(d.es) + 1} \cup
    UNION {UNION {
        {[d EXCEPT !.es[j][2].es[k][2].es = Ins(@, i)] : i \in 1 .. Len(d.es[j][2].es[k][2].es) + 1}
        \cup UNION {UNION {
            {[d EXCEPT !.es[j][2].es[k][2].es[m][2].es[q][2].es = Ins(@, i)]
               : i \in 1 .. Len(d.es[j][2].es[k][2].es[m][2].es[q][2].es) + 1}
            : q \in {q \in DOMAIN d.es[j][2].es[k][2].es[m][2].es :
                        d.es[j][2].es[k][2].es[m][2].es[q][2].t = "obj"}}
          : m \in {m \in DOMAIN d.es[j][2].es[k][2].es :
                      d.es[j][2].es[k][2].es[m][1] = "subcase" /\ d.es[j][2].es[k][2].es[m][2].t = "obj"}}
        : k \in {k \in DOMAIN d.es[j][2].es : d.es[j][2].es[k][2].t = "obj"}}
      : j \in {j \in DOMAIN d.es : d.es[j][1] = "case" /\ d.es[j][2].t = "obj"}}

(* Unknown keys are dropped (spec section 8): inserting "foo" anywhere in a
   report changes neither the outcome of __parseFile nor _data_parsed. *)
UnknownKeysIgnored ==
    \A d2 \in WithUnknownKey(doc) : ParseFile(d2) = ParseFile(doc)

(* A successful parse yields a complete, consistently scored report. *)
SuccessfulParseComplete == ParsedReportComplete(doc)

(* A report whose only defect is a value of the wrong type is refused. *)
MistypedValueRefused == MistypedReportRefused(doc)

(* Well-formed reports are accepted. *)
WellFormedAccepted == WellFormedReportParses(doc)
=============================================================================
