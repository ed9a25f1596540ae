------------------------ MODULE MCReportFormat_proofs ------------------------
(***************************************************************************)
(* The invariant SuccessfulParseComplete of the bounded traversal run,     *)
(* proved for every report the run enumerates: each of them is a decoded  *)
(* JSON document (its dicts, down to the subcase dicts, are sequences of  *)
(* entries), so ParseComplete of ReportFormat_proofs applies to it.        *)
(***************************************************************************)
EXTENDS MCReportFormat, ReportFormat_proofs, TLAPS

(* Every value the enumerated reports hold, at any depth, and the entries
   of their dicts. *)
AtomVals ==
    {JArr, JStr("d"), JStr("x"), JInt(0), JInt(1), JInt(3), JInt(-1),
     JInt(ERR_OPNOTSUPP), JBool(TRUE), JBool(FALSE)} \cup {JInt(c) : c \in Codes}
AllVals ==
    AtomVals \cup SubEntries \cup SubObjs \cup CaseEntries \cup SmallCaseEntries
    \cup CaseObjs
Keys == {"case", "date", "c1", "c2", "result", "subcase", "time", "step",
         "s1", "s2"}
Ent == Keys \X AllVals

(* An atom is no dict. *)
LEMMA AtomNoDict == \A v \in AtomVals : v.t # "obj"
BY DEF AtomVals, JArr, JStr, JInt, JBool, Codes

(* A concatenation of sequences of entries is one. *)
LEMMA ConcatEnt ==
    ASSUME NEW A, NEW B, NEW r \in Seq(A), NEW s \in Seq(B)
    PROVE  r \o s \in Seq(A \cup B)
<1>1. r \in Seq(A \cup B) /\ s \in Seq(A \cup B)
  OBVIOUS
<1>2. QED
  BY <1>1

(* Literal dicts of one and two entries are sequences. *)
LEMMA Seq1 ==
    ASSUME NEW S, NEW x \in S
    PROVE  << x >> \in Seq(S)
BY SMT

LEMMA Seq2 ==
    ASSUME NEW S, NEW x \in S, NEW y \in S
    PROVE  << x, y >> \in Seq(S)
BY SMT

(* An optional field is a sequence of entries. *)
LEMMA OptSeq ==
    ASSUME NEW k, NEW S
    PROVE  Opt(k, S) \subseteq Seq({k} \X S)
<1> SUFFICES ASSUME NEW r \in Opt(k, S) PROVE r \in Seq({k} \X S)
  OBVIOUS
<1>1. CASE r = << >>
  BY <1>1
<1>2. CASE \E v \in S : r = << <<k, v>> >>
  <2>1. PICK v \in S : r = << <<k, v>> >>
    BY <1>2
  <2>2. <<k, v>> \in {k} \X S
    OBVIOUS
  <2>3. QED
    BY <2>1, <2>2, Seq1
<1>3. QED
  BY <1>1, <1>2 DEF Opt

(* An entry of a literal dict of the reports. *)
LEMMA EntryEnt ==
    ASSUME NEW k \in Keys, NEW v \in AllVals
    PROVE  <<k, v>> \in Ent
BY DEF Ent

(* The three forms of subcase dict the reports hold.  (The set is split in
   two: the provers lose their way in a union of three comprehensions.) *)
SubObjsOne == {JObj(<< >>)} \cup {JObj(<< <<"s1", v>> >>) : v \in SubEntries}
SubObjsTwo == {JObj(<< <<"s1", v>>, <<"s2", w>> >>) :
                 v \in ResultEntries \cup {JArr}, w \in SubEntries}

LEMMA SubObjsCases ==
    ASSUME NEW o \in SubObjs
    PROVE  \/ o = JObj(<< >>)
           \/ \E w \in SubEntries : o = JObj(<< <<"s1", w>> >>)
           \/ \E u \in ResultEntries \cup {JArr}, w \in SubEntries :
                 o = JObj(<< <<"s1", u>>, <<"s2", w>> >>)
<1>0. SubObjs = SubObjsOne \cup SubObjsTwo
  BY DEF SubObjs, SubObjsOne, SubObjsTwo
<1>1. o \in SubObjsOne \/ o \in SubObjsTwo
  BY <1>0
<1>2. CASE o \in SubObjsOne
  BY <1>2 DEF SubObjsOne
<1>3. CASE o \in SubObjsTwo
  <2>1. \E u \in ResultEntries \cup {JArr}, w \in SubEntries :
          o = JObj(<< <<"s1", u>>, <<"s2", w>> >>)
    BY <1>3 DEF SubObjsTwo
  <2>2. QED
    BY <2>1
<1>4. QED
  BY <1>1, <1>2, <1>3

(* Level 4: every subcase dict the reports hold is a sequence of entries. *)
LEMMA SubObjsDict == \A v \in SubObjs \cup {JArr} : DictOf(v, Ent)
<1> TAKE v \in SubObjs \cup {JArr}
<1>1. CASE v = JArr
  BY <1>1 DEF DictOf, JArr
<1>2. CASE v = JObj(<< >>)
  BY <1>2 DEF DictOf, JObj
<1>3. CASE \E w \in SubEntries : v = JObj(<< <<"s1", w>> >>)
  <2>1. PICK w \in SubEntries : v = JObj(<< <<"s1", w>> >>)
    BY <1>3
  <2>2. <<"s1", w>> \in Ent
    <3>1. w \in AllVals
      BY DEF AllVals
    <3>2. "s1" \in Keys
      BY DEF Keys
    <3>3. QED
      BY <3>1, <3>2 DEF Ent
  <2>3. QED
    BY <2>1, <2>2, Seq1 DEF DictOf, JObj
<1>4. CASE \E u \in ResultEntries \cup {JArr}, w \in SubEntries :
             v = JObj(<< <<"s1", u>>, <<"s2", w>> >>)
  <2>1. PICK u \in ResultEntries \cup {JArr}, w \in SubEntries :
             v = JObj(<< <<"s1", u>>, <<"s2", w>> >>)
    BY <1>4
  <2>2. <<"s1", u>> \in Ent /\ <<"s2", w>> \in Ent
    <3>1. u \in AllVals /\ w \in AllVals
      BY DEF AllVals, AtomVals, SubEntries
    <3>2. QED
      BY <3>1, EntryEnt DEF Keys
  <2>3. QED
    BY <2>1, <2>2, Seq2 DEF DictOf, JObj
<1>5. QED
  BY <1>1, <1>2, <1>3, <1>4, SubObjsCases

(* Level 3: a case dict whose entries hold atoms and subcase dicts. *)
FieldEnt == Keys \X (AtomVals \cup SubObjs)

LEMMA FieldEntSub == Seq(FieldEnt) \subseteq Seq(Ent)
<1>1. FieldEnt \subseteq Ent
  BY DEF FieldEnt, Ent, AllVals
<1>2. QED
  BY <1>1

LEMMA CaseEntryOfSeq ==
    ASSUME NEW es \in Seq(FieldEnt)
    PROVE  CaseEntryDecoded(JObj(es), Ent)
<1>1. es \in Seq(Ent)
  BY FieldEntSub
<1>2. ASSUME NEW m \in DOMAIN es PROVE DictOf(es[m][2], Ent)
  <2>1. es[m][2] \in AtomVals \cup SubObjs
    BY DEF FieldEnt
  <2>2. QED
    BY <2>1, AtomNoDict, SubObjsDict DEF DictOf
<1>3. QED
  BY <1>1, <1>2 DEF CaseEntryDecoded, DictOf, JObj

LEMMA OptIn ==
    ASSUME NEW k, NEW S, {k} \X S \subseteq FieldEnt
    PROVE  Opt(k, S) \subseteq Seq(FieldEnt)
<1>1. Seq({k} \X S) \subseteq Seq(FieldEnt)
  OBVIOUS
<1>2. QED
  BY <1>1, OptSeq

(* The optional fields of a case entry are sequences of such entries. *)
LEMMA CaseFieldsSeq ==
    /\ ResultFields \subseteq Seq(FieldEnt)
    /\ SubcaseFields \subseteq Seq(FieldEnt)
    /\ TimeFields \subseteq Seq(FieldEnt)
<1>1. ResultFields \subseteq Seq(FieldEnt)
  <2>1. {"result"} \X {JInt(0), JInt(-1), JInt(ERR_OPNOTSUPP), JStr("x"), JBool(FALSE)}
          \subseteq FieldEnt
    BY DEF FieldEnt, Keys, AtomVals
  <2>2. QED
    BY <2>1, OptIn DEF ResultFields
<1>2. SubcaseFields \subseteq Seq(FieldEnt)
  <2>1. {"subcase"} \X (SubObjs \cup {JArr}) \subseteq FieldEnt
    BY DEF FieldEnt, Keys, AtomVals
  <2>2. QED
    BY <2>1, OptIn DEF SubcaseFields
<1>3. TimeFields \subseteq Seq(FieldEnt)
  <2>1. {"time"} \X {JInt(3), JStr("x")} \subseteq FieldEnt
    BY DEF FieldEnt, Keys, AtomVals
  <2>2. QED
    BY <2>1, OptIn DEF TimeFields
<1>4. QED
  BY <1>1, <1>2, <1>3

LEMMA CaseEntriesDecoded ==
    \A v \in CaseEntries \cup SmallCaseEntries \cup ResultEntries :
       CaseEntryDecoded(v, Ent)
<1> TAKE v \in CaseEntries \cup SmallCaseEntries \cup ResultEntries
<1>1. CASE v \in AtomVals
  BY <1>1, AtomNoDict DEF CaseEntryDecoded, DictOf
<1>2. CASE \E es \in Seq(FieldEnt) : v = JObj(es)
  BY <1>2, CaseEntryOfSeq
<1>3. CASE \E r \in ResultFields, sf \in SubcaseFields, t \in TimeFields :
             v = JObj(r \o sf \o t)
  <2>1. PICK r \in ResultFields, sf \in SubcaseFields, t \in TimeFields :
             v = JObj(r \o sf \o t)
    BY <1>3
  <2>2. r \o sf \o t \in Seq(FieldEnt)
    BY CaseFieldsSeq, ConcatEnt
  <2>3. QED
    BY <2>1, <2>2, CaseEntryOfSeq
<1>4. CASE \E r \in ResultFields, sf \in SubcaseFields : v = JObj(sf \o r)
  <2>1. PICK r \in ResultFields, sf \in SubcaseFields : v = JObj(sf \o r)
    BY <1>4
  <2>2. sf \o r \in Seq(FieldEnt)
    BY CaseFieldsSeq, ConcatEnt
  <2>3. QED
    BY <2>1, <2>2, CaseEntryOfSeq
<1>5. CASE v \in SmallCaseEntries \cup ResultEntries /\ v \notin AtomVals
  <2>1. PICK es \in Seq(FieldEnt) : v = JObj(es)
    <3>1. << >> \in Seq(FieldEnt)
      OBVIOUS
    <3>2. <<"result", JInt(-1)>> \in FieldEnt /\ <<"time", JStr("x")>> \in FieldEnt
      BY DEF FieldEnt, Keys, AtomVals
    <3>3. JObj(<< <<"s1", JObj(<< >>)>> >>) \in SubObjs
      <4>1. JObj(<< >>) \in SubEntries
        BY DEF SubEntries
      <4>2. QED
        BY <4>1 DEF SubObjs
    <3>4. <<"subcase", JObj(<< <<"s1", JObj(<< >>)>> >>)>> \in FieldEnt
      BY <3>3 DEF FieldEnt, Keys
    <3>5. \A c \in Codes : <<"result", JInt(c)>> \in FieldEnt
      BY DEF FieldEnt, Keys, AtomVals
    <3>6. <<"result", JBool(TRUE)>> \in FieldEnt
      BY DEF FieldEnt, Keys, AtomVals
    <3>7. QED
      BY <1>5, <3>1, <3>2, <3>4, <3>5, <3>6, Seq1, Seq2
         DEF SmallCaseEntries, ResultEntries, AtomVals
  <2>2. QED
    BY <2>1, CaseEntryOfSeq
<1>6. JArr \in AtomVals
  BY DEF AtomVals
<1>7. QED
  BY <1>1, <1>3, <1>4, <1>5, <1>6 DEF CaseEntries

(* The subcase entries, and so the subcase dicts seen as case fields. *)
LEMMA SubEntriesDict == \A x \in SubEntries : DictOf(x, Ent)
<1> TAKE x \in SubEntries
<1>1. \A c \in Codes : <<"result", JInt(c)>> \in Ent
  BY DEF Ent, Keys, AllVals, AtomVals
<1>2. /\ <<"result", JBool(TRUE)>> \in Ent
      /\ <<"result", JStr("x")>> \in Ent
      /\ <<"step", JArr>> \in Ent
      /\ <<"result", JInt(-1)>> \in Ent
  BY DEF Ent, Keys, AllVals, AtomVals
<1>3. << >> \in Seq(Ent)
  OBVIOUS
<1>4. CASE \E c \in Codes : x = JObj(<< <<"result", JInt(c)>> >>)
  BY <1>1, <1>4, Seq1 DEF DictOf, JObj
<1>5. CASE x = JObj(<< <<"result", JBool(TRUE)>> >>)
  BY <1>2, <1>5, Seq1 DEF DictOf, JObj
<1>6. CASE x = JArr
  BY <1>6 DEF DictOf, JArr
<1>7. CASE x = JObj(<< >>)
  BY <1>3, <1>7 DEF DictOf, JObj
<1>8. CASE x = JObj(<< <<"result", JStr("x")>> >>)
  BY <1>2, <1>8, Seq1 DEF DictOf, JObj
<1>9. CASE x = JObj(<< <<"step", JArr>>, <<"result", JInt(-1)>> >>)
  BY <1>2, <1>9, Seq2 DEF DictOf, JObj
<1>10. QED
  BY <1>4, <1>5, <1>6, <1>7, <1>8, <1>9, Zenon DEF SubEntries, ResultEntries

LEMMA SubObjsEntry == \A o \in SubObjs : CaseEntryDecoded(o, Ent)
<1> TAKE o \in SubObjs
<1>1. DictOf(o, Ent)
  BY SubObjsDict
<1>2. \A y \in SubEntries \cup {JArr} : DictOf(y, Ent)
  BY SubEntriesDict DEF DictOf, JArr
<1>3. CASE o = JObj(<< >>)
  BY <1>1, <1>3 DEF CaseEntryDecoded, JObj
<1>4. CASE \E w \in SubEntries : o = JObj(<< <<"s1", w>> >>)
  BY <1>1, <1>2, <1>4 DEF CaseEntryDecoded, JObj
<1>5. CASE \E u \in ResultEntries \cup {JArr}, w \in SubEntries :
             o = JObj(<< <<"s1", u>>, <<"s2", w>> >>)
  <2>1. PICK u \in ResultEntries \cup {JArr}, w \in SubEntries :
             o = JObj(<< <<"s1", u>>, <<"s2", w>> >>)
    BY <1>5
  <2>2. u \in SubEntries \cup {JArr}
    BY DEF SubEntries
  <2>3. QED
    BY <1>1, <1>2, <2>1, <2>2 DEF CaseEntryDecoded, JObj
<1>6. QED
  BY <1>3, <1>4, <1>5, SubObjsCases

(* Level 2: a dict of case entries. *)
CaseVal == AtomVals \cup SubObjs \cup CaseEntries \cup SmallCaseEntries \cup ResultEntries
CaseObjEnt == Keys \X CaseVal

LEMMA CaseValDecoded == \A x \in CaseVal : CaseEntryDecoded(x, Ent)
BY AtomNoDict, SubObjsEntry, CaseEntriesDecoded DEF CaseVal, CaseEntryDecoded, DictOf

LEMMA CaseObjOfSeq ==
    ASSUME NEW es \in Seq(CaseObjEnt)
    PROVE  CaseObjDecoded(JObj(es), Ent)
<1>1. CaseObjEnt \subseteq Ent
  BY DEF CaseObjEnt, CaseVal, Ent, AllVals, SubEntries
<1>2. es \in Seq(Ent)
  BY <1>1
<1>3. \A j \in DOMAIN es : es[j][2] \in CaseVal
  BY DEF CaseObjEnt
<1>4. QED
  BY <1>2, <1>3, CaseValDecoded DEF CaseObjDecoded, DictOf, JObj

LEMMA SmallCaseObjs ==
    \A c \in SmallCaseEntries \ {JArr} : \E es \in Seq(CaseObjEnt) : c = JObj(es)
<1>1. << >> \in Seq(CaseObjEnt)
  OBVIOUS
<1>2. <<"result", JInt(-1)>> \in CaseObjEnt /\ <<"time", JStr("x")>> \in CaseObjEnt
  BY DEF CaseObjEnt, CaseVal, Keys, AtomVals
<1>3. JObj(<< <<"s1", JObj(<< >>)>> >>) \in SubObjs
  <2>1. JObj(<< >>) \in SubEntries
    BY DEF SubEntries
  <2>2. QED
    BY <2>1 DEF SubObjs
<1>4. <<"subcase", JObj(<< <<"s1", JObj(<< >>)>> >>)>> \in CaseObjEnt
  BY <1>3 DEF CaseObjEnt, CaseVal, Keys
<1>5. QED
  BY <1>1, <1>2, <1>4, Seq1, Seq2 DEF SmallCaseEntries

(* Level 2: every value of a top-level key of the reports. *)
TopVal == {JStr("d"), JInt(1), JArr} \cup CaseObjs \cup SmallCaseEntries
TopEnt == Keys \X TopVal

LEMMA TopValDecoded == \A c \in TopVal : CaseObjDecoded(c, Ent)
<1> TAKE c \in TopVal
<1>1. CASE c \in AtomVals
  BY <1>1, AtomNoDict DEF CaseObjDecoded, DictOf
<1>2. CASE \E es \in Seq(CaseObjEnt) : c = JObj(es)
  BY <1>2, CaseObjOfSeq
<1>3. CASE c \in SmallCaseEntries \ {JArr}
  BY <1>3, SmallCaseObjs, CaseObjOfSeq
<1>4. CASE c \in CaseObjs
  <2>1. << >> \in Seq(CaseObjEnt)
    OBVIOUS
  <2>2. \A v \in CaseEntries : <<"c1", v>> \in CaseObjEnt
    BY DEF CaseObjEnt, CaseVal, Keys
  <2>3. \A v, w \in SmallCaseEntries \cup ResultEntries :
          <<"c1", v>> \in CaseObjEnt /\ <<"c2", w>> \in CaseObjEnt
    BY DEF CaseObjEnt, CaseVal, Keys
  <2>4. CaseObjs = {JObj(<< >>)} \cup {JObj(<< <<"c1", v>> >>) : v \in CaseEntries}
                   \cup {JObj(<< <<"c1", v>>, <<"c2", w>> >>) :
                          v \in SmallCaseEntries \cup ResultEntries,
                          w \in SmallCaseEntries \cup ResultEntries}
    BY DEF CaseObjs
  <2>5. CASE c \in {JObj(<< >>)} \cup {JObj(<< <<"c1", v>> >>) : v \in CaseEntries}
    BY <2>1, <2>2, <2>5, Seq1, <1>2
  <2>6. CASE c \in {JObj(<< <<"c1", v>>, <<"c2", w>> >>) :
                     v \in SmallCaseEntries \cup ResultEntries,
                     w \in SmallCaseEntries \cup ResultEntries}
    <3> DEFINE X == SmallCaseEntries \cup ResultEntries
    <3> HIDE DEF X
    <3>1. \E v \in X : \E w \in X : c = JObj(<< <<"c1", v>>, <<"c2", w>> >>)
      BY <2>6, SMTT(60) DEF X
    <3>2. PICK v \in X : \E w \in X : c = JObj(<< <<"c1", v>>, <<"c2", w>> >>)
      BY <3>1
    <3>3. PICK w \in X : c = JObj(<< <<"c1", v>>, <<"c2", w>> >>)
      BY <3>2
    <3>4. QED
      BY <3>3, <2>3, Seq2, <1>2 DEF X
  <2>7. QED
    BY <1>4, <2>4, <2>5, <2>6
<1>5. QED
  <2>1. {JStr("d"), JInt(1), JArr} \subseteq AtomVals
    BY DEF AtomVals
  <2>2. QED
    BY <2>1, <1>1, <1>3, <1>4 DEF TopVal

(* Level 1: a report is a dict of such values. *)
LEMMA ReportOfSeq ==
    ASSUME NEW es \in Seq(TopEnt)
    PROVE  Decoded(JObj(es), Ent)
<1>1. TopEnt \subseteq Ent
  BY DEF TopEnt, TopVal, Ent, AllVals, AtomVals
<1>2. es \in Seq(Ent)
  BY <1>1
<1>3. \A i \in DOMAIN es : es[i][2] \in TopVal
  BY DEF TopEnt
<1>4. QED
  BY <1>2, <1>3, TopValDecoded DEF Decoded, DictOf, JObj

LEMMA DateFieldsSeq == DateFields \subseteq Seq(TopEnt)
<1>1. {"date"} \X {JStr("d"), JInt(1)} \subseteq TopEnt
  BY DEF TopEnt, TopVal, Keys
<1>2. Seq({"date"} \X {JStr("d"), JInt(1)}) \subseteq Seq(TopEnt)
  BY <1>1
<1>3. QED
  BY <1>2, OptSeq DEF DateFields

LEMMA CaseEntrySeq ==
    \A c \in CaseObjs \cup {JArr} \cup SmallCaseEntries : << <<"case", c>> >> \in Seq(TopEnt)
<1>1. \A c \in CaseObjs \cup {JArr} \cup SmallCaseEntries : <<"case", c>> \in TopEnt
  BY DEF TopEnt, TopVal, Keys
<1>2. QED
  BY <1>1, Seq1

(* The three shapes of report dict: an optional date before the case dict,
   after it, and no case dict.  (Named, so that the comprehensions stay out
   of the steps that do not need them.) *)
DatedSet == {JObj(f \o << <<"case", c>> >>) : f \in DateFields, c \in CaseObjs \cup {JArr}}
CaseFirstSet == {JObj(<< <<"case", c>> >> \o f) : f \in DateFields, c \in SmallCaseEntries}
CaselessSet == {JObj(f) : f \in DateFields}

LEMMA DatedDecoded == \A rep \in DatedSet : Decoded(rep, Ent)
<1> TAKE rep \in DatedSet
<1>1. PICK df \in DateFields, cv \in CaseObjs \cup {JArr} :
         rep = JObj(df \o << <<"case", cv>> >>)
  BY DEF DatedSet
<1>2. df \o << <<"case", cv>> >> \in Seq(TopEnt)
  BY CaseEntrySeq, DateFieldsSeq, ConcatEnt
<1>3. Decoded(JObj(df \o << <<"case", cv>> >>), Ent)
  BY <1>2, ReportOfSeq
<1>4. QED
  BY <1>1, <1>3

LEMMA CaseFirstDecoded == \A rep \in CaseFirstSet : Decoded(rep, Ent)
<1> TAKE rep \in CaseFirstSet
<1>1. PICK df \in DateFields, cv \in SmallCaseEntries :
         rep = JObj(<< <<"case", cv>> >> \o df)
  BY DEF CaseFirstSet
<1>2. << <<"case", cv>> >> \o df \in Seq(TopEnt)
  BY CaseEntrySeq, DateFieldsSeq, ConcatEnt
<1>3. Decoded(JObj(<< <<"case", cv>> >> \o df), Ent)
  BY <1>2, ReportOfSeq
<1>4. QED
  BY <1>1, <1>3

LEMMA CaselessDecoded == \A rep \in CaselessSet : Decoded(rep, Ent)
BY DateFieldsSeq, ReportOfSeq DEF CaselessSet

(* Every report the run enumerates is a decoded document. *)
LEMMA ReportsDecoded == \A rep \in Reports : Decoded(rep, Ent)
<1>1. Reports = {JArr, [t |-> "garbage"]} \cup DatedSet \cup CaseFirstSet \cup CaselessSet
  BY DEF Reports, DatedSet, CaseFirstSet, CaselessSet
<1>2. \A rep \in {JArr, [t |-> "garbage"]} : Decoded(rep, Ent)
  BY DEF Decoded, DictOf, JArr
<1>3. QED
  BY <1>1, <1>2, DatedDecoded, CaseFirstDecoded, CaselessDecoded

(* The run's invariant, for every report it enumerates: whenever
   __parseFile returns True on one of them, the case list holds every case
   entry and each subcase list every subcase entry, with a score that
   counts each result class exactly (ParseComplete). *)
THEOREM DocParseComplete == Init /\ [][Next]_doc => []SuccessfulParseComplete
<1>1. Init /\ [][Next]_doc => []Init
  <2>1. Init /\ [Next]_doc => Init'
    BY DEF Init, Next
  <2>2. QED
    BY <2>1, PTL
<1>2. Init => SuccessfulParseComplete
  BY ReportsDecoded, ParseComplete DEF Init, SuccessfulParseComplete
<1>3. QED
  BY <1>1, <1>2, PTL
=============================================================================
