----------------------------- MODULE MCReports -----------------------------
(* Decoded report contents for the model-checking runs of JsonParser and
   ReportPage, chosen so that each way a parse and a render can end
   happens. *)
EXTENDS ReportFormat

JObj(es) == [t |-> "obj", es |-> es]
JInt(n) == [t |-> "int", n |-> n]
JStr(s) == [t |-> "str", s |-> s]
JArr == [t |-> "arr"]
Garbage == [t |-> "garbage"]

Sub(name, code) == <<name, JObj(<< <<"result", JInt(code)>> >>)>>

(* Three good reports with one case "boot": with two subcases (Pass, Skip),
   without subcases, and with one failing subcase. *)
GoodA == JObj(<< <<"date", JStr("d1")>>,
                 <<"case", JObj(<< <<"boot", JObj(<< <<"result", JInt(0)>>,
                    <<"subcase", JObj(<< Sub("s1", 0), Sub("s2", ERR_OPNOTSUPP) >>)>>
                    >>)>> >>)>> >>)
GoodB == JObj(<< <<"case", JObj(<< <<"boot", JObj(<< <<"result", JInt(-1)>>,
                                                     <<"time", JInt(3)>> >>)>> >>)>>,
                 <<"date", JStr("d2")>> >>)
GoodC == JObj(<< <<"date", JStr("d3")>>,
                 <<"case", JObj(<< <<"boot", JObj(<<
                    <<"subcase", JObj(<< Sub("s1", -5) >>)>> >>)>> >>)>> >>)
(* A good report without "date". *)
NoDate == JObj(<< <<"case", JObj(<< <<"boot", JObj(<< <<"result", JInt(0)>> >>)>> >>)>> >>)
(* A dated report with an empty "case" object: caseCount() is 0. *)
NoCases == JObj(<< <<"date", JStr("d4")>>, <<"case", JObj(<< >>)>> >>)
(* A case entry that is not an object: the case loop returns False after
   appending "boot". *)
BadEntry == JObj(<< <<"case", JObj(<< <<"boot", JObj(<< <<"result", JInt(0)>> >>)>>,
                                      <<"link", JArr>> >>)>> >>)
(* A subcase with no "result": _subcase['result'] raises KeyError. *)
NoResult == JObj(<< <<"case", JObj(<< <<"boot", JObj(<<
                <<"subcase", JObj(<< <<"s1", JObj(<< >>)>> >>)>> >>)>> >>)>> >>)
=============================================================================
