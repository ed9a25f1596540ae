------------------------ MODULE MCUnknownKeys_proofs ------------------------
(***************************************************************************)
(* The invariant UnknownKeysIgnored of the bounded traversal run, proved   *)
(* for every report the run enumerates: each report is decoded with        *)
(* distinct keys in each dict, the reports WithUnknownKey builds are the   *)
(* insertions UnknownKeys_proofs is about, so its three theorems apply.    *)
(***************************************************************************)
EXTENDS MCReportFormat_proofs, UnknownKeys_proofs, SequenceTheorems, TLAPS

(* The entry the run inserts. *)
Foo == <<"foo", JInt(1)>>

(* Ins is InsertAt. *)
LEMMA InsIs ==
    ASSUME NEW S, NEW es \in Seq(S), NEW i \in 1 .. Len(es) + 1
    PROVE  Ins(es, i) = InsertAt(es, i, Foo)
<1> DEFINE a == SubSeq(es, 1, i - 1)
           b == SubSeq(es, i, Len(es))
           c == a \o <<Foo>>
           r == c \o b
           T == S \cup {Foo}
<1>0. Len(es) \in Nat /\ i \in Nat /\ es \in Seq(T)
  OBVIOUS
<1>1. a \in Seq(T) /\ Len(a) = i - 1 /\ \A j \in 1 .. i - 1 : a[j] = es[j]
  <2>1. \A j \in 1 .. i - 1 : es[j] \in T
    BY <1>0
  <2>2. QED
    BY <1>0, <2>1, SubSeqProperties
<1>2. b \in Seq(T) /\ Len(b) = Len(es) - i + 1 /\ \A j \in 1 .. Len(es) - i + 1 : b[j] = es[i + j - 1]
  <2>1. \A j \in i .. Len(es) : es[j] \in T
    BY <1>0
  <2>2. QED
    BY <1>0, <2>1, SubSeqProperties
<1>3. <<Foo>> \in Seq(T) /\ Len(<<Foo>>) = 1 /\ <<Foo>>[1] = Foo
  OBVIOUS
<1>4. c \in Seq(T) /\ Len(c) = i /\ \A j \in 1 .. i : c[j] = IF j < i THEN es[j] ELSE Foo
  <2>1. c \in Seq(T) /\ Len(c) = Len(a) + 1
        /\ \A j \in 1 .. Len(a) + 1 : c[j] = IF j <= Len(a) THEN a[j] ELSE <<Foo>>[j - Len(a)]
    <3>1. a \in Seq(T) /\ <<Foo>> \in Seq(T)
      BY <1>1, <1>3
    <3>2. /\ c \in Seq(T) /\ Len(c) = Len(a) + Len(<<Foo>>)
          /\ \A j \in 1 .. Len(a) + Len(<<Foo>>) :
                c[j] = IF j <= Len(a) THEN a[j] ELSE <<Foo>>[j - Len(a)]
      BY ONLY <3>1, ConcatProperties, ZenonT(60)
    <3>3. QED
      BY <3>2, <1>3
  <2>2. QED
    BY <1>0, <1>1, <2>1
<1>5. /\ Len(r) = Len(es) + 1
      /\ \A j \in 1 .. Len(es) + 1 : (r)[j] = IF j <= i THEN c[j] ELSE b[j - i]
  <2>1. /\ Len(r) = Len(c) + Len(b)
        /\ \A j \in 1 .. Len(c) + Len(b) : (r)[j] = IF j <= Len(c) THEN c[j] ELSE b[j - Len(c)]
    <3>1. c \in Seq(T) /\ b \in Seq(T)
      BY <1>2, <1>4
    <3>2. QED
      BY ONLY <3>1, ConcatProperties, ZenonT(60)
  <2>2. Len(c) + Len(b) = Len(es) + 1 /\ Len(c) = i
    BY <1>0, <1>2, <1>4
  <2>3. QED
    BY <2>1, <2>2
<1>6. r \in Seq(T)
  <2>1. c \in Seq(T) /\ b \in Seq(T)
    BY <1>2, <1>4
  <2>2. QED
    BY ONLY <2>1, ConcatProperties, ZenonT(60)
<1>8. Ins(es, i) = r
  BY Zenon DEF Ins, Foo
<1> HIDE DEF r, a, b, c
<1>7. ASSUME NEW j \in 1 .. Len(es) + 1
      PROVE  (r)[j] = IF j < i THEN es[j] ELSE IF j = i THEN Foo ELSE es[j - 1]
  <2>1. CASE j <= i
    <3>1. (r)[j] = c[j] /\ j \in 1 .. i
      BY <1>0, <1>5, <2>1
    <3>2. QED
      BY <1>4, <2>1, <3>1
  <2>2. CASE j > i
    <3>1. (r)[j] = b[j - i]
      BY <1>5, <2>2
    <3>2. j - i \in 1 .. Len(es) - i + 1 /\ i + (j - i) - 1 = j - 1
      BY <1>0, <2>2
    <3>3. QED
      BY <1>2, <2>2, <3>1, <3>2
  <2>3. QED
    BY <1>0, <2>1, <2>2
<1>9. DOMAIN (r) = 1 .. Len(es) + 1
  BY <1>5, <1>6
<1>10. r = [j \in 1 .. Len(es) + 1 |-> r[j]]
  BY <1>6, <1>9
<1>11. QED
  BY <1>7, <1>8, <1>10 DEF InsertAt
(* The reports WithUnknownKey builds, one level at a time. *)
InsC(c, i) == [c EXCEPT !.es = Ins(@, i)]
InsL(cl, k, i) == [cl EXCEPT !.es[k][2].es = Ins(@, i)]
InsD(d, j, k, i) == [d EXCEPT !.es[j][2].es[k][2].es = Ins(@, i)]
InsSL(cl, k, m, q, i) == [cl EXCEPT !.es[k][2].es[m][2].es[q][2].es = Ins(@, i)]
InsSD(d, j, k, m, q, i) == [d EXCEPT !.es[j][2].es[k][2].es[m][2].es[q][2].es = Ins(@, i)]

(* Replacing the value of the j-th entry of a dict is SetVal. *)
ExceptIsSetVal(o, j, X) ==
    [o EXCEPT !.es = [o.es EXCEPT ![j] = [o.es[j] EXCEPT ![2] = X]]] = JObj(SetVal(o.es, j, X))

LEMMA ExceptVal ==
    ASSUME NEW K, NEW V, NEW o, o = JObj(o.es), o.es \in Seq(K \X V),
           NEW j \in DOMAIN o.es, NEW X
    PROVE  ExceptIsSetVal(o, j, X)
<1> DEFINE Y == <<o.es[j][1], X>>
<1>1. [o.es[j] EXCEPT ![2] = X] = Y
  <2>1. o.es[j] \in K \X V
    OBVIOUS
  <2> HIDE DEF Y
  <2>2. QED
    BY <2>1 DEF Y
<1>2. [o.es EXCEPT ![j] = Y] = SetVal(o.es, j, X)
  <2>0. o.es = [m \in DOMAIN o.es |-> o.es[m]]
    OBVIOUS
  <2>1. [o.es EXCEPT ![j] = Y] = [m \in DOMAIN o.es |-> IF m = j THEN Y ELSE o.es[m]]
    <3> DEFINE f == o.es
    <3>1. f = [m \in DOMAIN f |-> f[m]] /\ j \in DOMAIN f
      BY <2>0
    <3> HIDE DEF f
    <3>2. [f EXCEPT ![j] = Y] = [m \in DOMAIN f |-> IF m = j THEN Y ELSE f[m]]
      BY <3>1
    <3>3. QED
      BY <3>2 DEF f
  <2>2. SetVal(o.es, j, X) = [m \in DOMAIN o.es |-> IF m = j THEN Y ELSE o.es[m]]
    BY DEF SetVal
  <2>3. QED
    BY <2>1, <2>2
<1>3. o.t = "obj" /\ DOMAIN o = {"t", "es"}
  <2>1. JObj(o.es).t = "obj" /\ DOMAIN JObj(o.es) = {"t", "es"}
    BY DEF JObj
  <2>2. QED
    BY <2>1
<1>4. [o EXCEPT !.es = SetVal(o.es, j, X)] = JObj(SetVal(o.es, j, X))
  BY <1>3 DEF JObj
<1>5. QED
  BY <1>1, <1>2, <1>4 DEF ExceptIsSetVal

LEMMA InsCIs ==
    ASSUME NEW c, c = JObj(c.es), NEW i
    PROVE  InsC(c, i).t = "obj" /\ InsC(c, i).es = Ins(c.es, i)
BY DEF InsC, JObj

(* o2 is o with the value of its j-th entry replaced by X. *)
SetIs(o2, o, j, X) == o2 = JObj(SetVal(o.es, j, X))

LEMMA InsLIs ==
    ASSUME NEW K, NEW V, NEW cl, cl = JObj(cl.es), cl.es \in Seq(K \X V),
           NEW k \in DOMAIN cl.es, NEW i
    PROVE  SetIs(InsL(cl, k, i), cl, k, InsC(cl.es[k][2], i))
<1> DEFINE X == InsC(cl.es[k][2], i)
<1>1. InsL(cl, k, i) = [cl EXCEPT !.es = [cl.es EXCEPT ![k] = [cl.es[k] EXCEPT ![2] = X]]]
  BY DEF InsL, InsC
<1>2. ExceptIsSetVal(cl, k, X)
  <2> HIDE DEF X
  <2>1. QED
    BY ExceptVal, Zenon
<1>3. QED
  BY <1>1, <1>2 DEF ExceptIsSetVal, SetIs

LEMMA InsDIs ==
    ASSUME NEW K, NEW V, NEW d, d = JObj(d.es), d.es \in Seq(K \X V),
           NEW j \in DOMAIN d.es, NEW k, NEW i
    PROVE  SetIs(InsD(d, j, k, i), d, j, InsL(d.es[j][2], k, i))
<1> DEFINE e == d.es[j][2]
           X == InsL(e, k, i)
<1>1. InsD(d, j, k, i) = [d EXCEPT !.es = [d.es EXCEPT ![j] = [d.es[j] EXCEPT ![2] =
         [e EXCEPT !.es[k][2].es = Ins(@, i)]]]]
  BY DEF InsD
<1>2. [e EXCEPT !.es[k][2].es = Ins(@, i)] = X
  BY DEF InsL
<1>3. ExceptIsSetVal(d, j, X)
  <2> HIDE DEF X, e
  <2>1. QED
    BY ExceptVal, Zenon
<1>4. QED
  BY <1>1, <1>2, <1>3 DEF ExceptIsSetVal, SetIs

LEMMA InsSLIs ==
    ASSUME NEW K, NEW V, NEW cl, cl = JObj(cl.es), cl.es \in Seq(K \X V),
           NEW k \in DOMAIN cl.es, NEW m, NEW q, NEW i
    PROVE  SetIs(InsSL(cl, k, m, q, i), cl, k, InsD(cl.es[k][2], m, q, i))
<1> DEFINE e == cl.es[k][2]
<1>1. InsSL(cl, k, m, q, i) = [cl EXCEPT !.es = [cl.es EXCEPT ![k] = [cl.es[k] EXCEPT ![2] =
         [e EXCEPT !.es[m][2].es[q][2].es = Ins(@, i)]]]]
  BY DEF InsSL
<1>2. [e EXCEPT !.es[m][2].es[q][2].es = Ins(@, i)] = InsD(e, m, q, i)
  BY DEF InsD
<1> DEFINE X == InsD(e, m, q, i)
<1>3. [cl EXCEPT !.es = [cl.es EXCEPT ![k] = [cl.es[k] EXCEPT ![2] = X]]] = JObj(SetVal(cl.es, k, X))
  <2> HIDE DEF X, e
  <2>1. ExceptIsSetVal(cl, k, X)
    BY ExceptVal, Zenon
  <2>2. QED
    BY <2>1 DEF ExceptIsSetVal
<1>4. QED
  BY <1>1, <1>2, <1>3 DEF SetIs

LEMMA InsSDIs ==
    ASSUME NEW K, NEW V, NEW d, d = JObj(d.es), d.es \in Seq(K \X V),
           NEW j \in DOMAIN d.es, NEW k, NEW m, NEW q, NEW i
    PROVE  SetIs(InsSD(d, j, k, m, q, i), d, j, InsSL(d.es[j][2], k, m, q, i))
<1> DEFINE e == d.es[j][2]
           X == InsSL(e, k, m, q, i)
<1>1. InsSD(d, j, k, m, q, i) = [d EXCEPT !.es = [d.es EXCEPT ![j] = [d.es[j] EXCEPT ![2] =
         [e EXCEPT !.es[k][2].es[m][2].es[q][2].es = Ins(@, i)]]]]
  BY DEF InsSD
<1>2. [e EXCEPT !.es[k][2].es[m][2].es[q][2].es = Ins(@, i)] = X
  BY DEF InsSL
<1>3. [d EXCEPT !.es = [d.es EXCEPT ![j] = [d.es[j] EXCEPT ![2] = X]]] = JObj(SetVal(d.es, j, X))
  <2> HIDE DEF X, e
  <2>1. ExceptIsSetVal(d, j, X)
    BY ExceptVal, Zenon
  <2>2. QED
    BY <2>1 DEF ExceptIsSetVal
<1>4. QED
  BY <1>1, <1>2, <1>3 DEF SetIs

-----------------------------------------------------------------------------
(* Every dict the reports hold is built by JObj and has distinct keys. *)
WF(v) == v.t = "obj" => v = JObj(v.es) /\ UniqueKeys(v.es)
KeysIn(es, K) == \A n \in DOMAIN es : es[n][1] \in K

LEMMA UK0 == UniqueKeys(<< >>)
BY DEF UniqueKeys

LEMMA UK1 ==
    ASSUME NEW x
    PROVE  UniqueKeys(<< x >>) /\ KeysIn(<< x >>, {x[1]})
BY DEF UniqueKeys, KeysIn

LEMMA UK2 ==
    ASSUME NEW x, NEW y, x[1] # y[1]
    PROVE  UniqueKeys(<< x, y >>)
BY DEF UniqueKeys

LEMMA WFObj ==
    ASSUME NEW es, UniqueKeys(es)
    PROVE  WF(JObj(es))
BY DEF WF, JObj

LEMMA OptUK ==
    ASSUME NEW k, NEW S, NEW r \in Opt(k, S)
    PROVE  r \in Seq({k} \X S) /\ UniqueKeys(r) /\ KeysIn(r, {k})
<1>1. r \in Seq({k} \X S)
  BY OptSeq
<1>2. CASE r = << >>
  BY <1>2, UK0 DEF KeysIn
<1>3. CASE \E v \in S : r = << <<k, v>> >>
  <2>1. PICK v \in S : r = << <<k, v>> >>
    BY <1>3
  <2>2. QED
    BY <2>1, UK1
<1>4. QED
  BY <1>1, <1>2, <1>3 DEF Opt

LEMMA UniqueConcat ==
    ASSUME NEW A, NEW B, NEW r \in Seq(A), NEW s \in Seq(B),
           UniqueKeys(r), UniqueKeys(s), NEW K1, NEW K2, KeysIn(r, K1), KeysIn(s, K2),
           K1 \cap K2 = {}
    PROVE  UniqueKeys(r \o s) /\ KeysIn(r \o s, K1 \cup K2)
<1>1. /\ DOMAIN (r \o s) = 1 .. Len(r) + Len(s)
      /\ \A n \in 1 .. Len(r) : (r \o s)[n] = r[n]
      /\ \A n \in Len(r) + 1 .. Len(r) + Len(s) : (r \o s)[n] = s[n - Len(r)]
  OBVIOUS
<1>2. KeysIn(r \o s, K1 \cup K2)
  BY <1>1 DEF KeysIn
<1>3. UniqueKeys(r \o s)
  <2> SUFFICES ASSUME NEW a \in DOMAIN (r \o s), NEW b \in DOMAIN (r \o s),
                      (r \o s)[a][1] = (r \o s)[b][1]
               PROVE  a = b
    BY DEF UniqueKeys
  <2>1. CASE a <= Len(r) /\ b <= Len(r)
    BY <1>1, <2>1 DEF UniqueKeys
  <2>2. CASE a > Len(r) /\ b > Len(r)
    BY <1>1, <2>2 DEF UniqueKeys
  <2>3. CASE a <= Len(r) /\ b > Len(r)
    BY <1>1, <2>3 DEF KeysIn
  <2>4. CASE a > Len(r) /\ b <= Len(r)
    BY <1>1, <2>4 DEF KeysIn
  <2>5. QED
    BY <1>1, <2>1, <2>2, <2>3, <2>4
<1>4. QED
  BY <1>2, <1>3

LEMMA WFAtoms == \A v \in AtomVals : WF(v)
BY AtomNoDict DEF WF

LEMMA WFResultEntries == \A v \in ResultEntries \cup {JArr} : WF(v)
BY UK1, WFObj, WFAtoms DEF ResultEntries, AtomVals

LEMMA WFSubEntries == \A v \in SubEntries : WF(v)
<1>1. <<"step", JArr>>[1] # <<"result", JInt(-1)>>[1]
  OBVIOUS
<1>2. QED
  BY <1>1, UK0, UK1, UK2, WFObj, WFResultEntries DEF SubEntries

LEMMA WFSubObjs == \A v \in SubObjs \cup {JArr} : WF(v)
<1> TAKE v \in SubObjs \cup {JArr}
<1>1. CASE v = JArr
  BY <1>1, WFResultEntries
<1>2. CASE v \in SubObjs
  <2>1. CASE v = JObj(<< >>)
    BY <2>1, UK0, WFObj
  <2>2. CASE \E w \in SubEntries : v = JObj(<< <<"s1", w>> >>)
    BY <2>2, UK1, WFObj
  <2>3. CASE \E u \in ResultEntries \cup {JArr}, w \in SubEntries :
                 v = JObj(<< <<"s1", u>>, <<"s2", w>> >>)
    <3>1. PICK u \in ResultEntries \cup {JArr}, w \in SubEntries :
                 v = JObj(<< <<"s1", u>>, <<"s2", w>> >>)
      BY <2>3
    <3>2. UniqueKeys(<< <<"s1", u>>, <<"s2", w>> >>)
      BY UK2
    <3>3. QED
      BY <3>1, <3>2, WFObj
  <2>4. QED
    BY <1>2, <2>1, <2>2, <2>3, SubObjsCases
<1>3. QED
  BY <1>1, <1>2

LEMMA WFCaseEntries == \A v \in CaseEntries : WF(v)
<1> TAKE v \in CaseEntries
<1>1. CASE v = JArr
  BY <1>1, WFResultEntries
<1>2. CASE \E r \in ResultFields, sf \in SubcaseFields, t \in TimeFields :
             v = JObj(r \o sf \o t)
  <2>1. PICK r \in ResultFields, sf \in SubcaseFields, t \in TimeFields :
             v = JObj(r \o sf \o t)
    BY <1>2
  <2>2. /\ r \in Seq(Ent) /\ UniqueKeys(r) /\ KeysIn(r, {"result"})
        /\ sf \in Seq(Ent) /\ UniqueKeys(sf) /\ KeysIn(sf, {"subcase"})
        /\ t \in Seq(Ent) /\ UniqueKeys(t) /\ KeysIn(t, {"time"})
    BY OptUK, CaseFieldsSeq, FieldEntSub DEF ResultFields, SubcaseFields, TimeFields
  <2>3. r \o sf \in Seq(Ent) /\ UniqueKeys(r \o sf) /\ KeysIn(r \o sf, {"result"} \cup {"subcase"})
    BY <2>2, UniqueConcat, ConcatEnt
  <2>4. UniqueKeys(r \o sf \o t)
    <3>1. ({"result"} \cup {"subcase"}) \cap {"time"} = {}
      OBVIOUS
    <3>2. QED
      BY <2>2, <2>3, <3>1, UniqueConcat
  <2>5. QED
    BY <2>1, <2>4, WFObj
<1>3. CASE \E r \in ResultFields, sf \in SubcaseFields : v = JObj(sf \o r)
  <2>1. PICK r \in ResultFields, sf \in SubcaseFields : v = JObj(sf \o r)
    BY <1>3
  <2>2. /\ r \in Seq(Ent) /\ UniqueKeys(r) /\ KeysIn(r, {"result"})
        /\ sf \in Seq(Ent) /\ UniqueKeys(sf) /\ KeysIn(sf, {"subcase"})
    BY OptUK, CaseFieldsSeq, FieldEntSub DEF ResultFields, SubcaseFields
  <2>3. UniqueKeys(sf \o r)
    BY <2>2, UniqueConcat
  <2>4. QED
    BY <2>1, <2>3, WFObj
<1>4. QED
  BY <1>1, <1>2, <1>3 DEF CaseEntries

LEMMA WFSmall == \A v \in SmallCaseEntries : WF(v)
<1>1. <<"result", JInt(-1)>>[1] # <<"time", JStr("x")>>[1]
  OBVIOUS
<1>2. QED
  BY <1>1, UK0, UK1, UK2, WFObj, WFResultEntries DEF SmallCaseEntries

CaseObjsOne == {JObj(<< >>)} \cup {JObj(<< <<"c1", v>> >>) : v \in CaseEntries}
CaseObjsTwo == {JObj(<< <<"c1", v>>, <<"c2", w>> >>) :
                  v \in SmallCaseEntries \cup ResultEntries,
                  w \in SmallCaseEntries \cup ResultEntries}

LEMMA WFCaseObjs == \A c \in CaseObjs : WF(c)
<1> TAKE c \in CaseObjs
<1>1. c \in CaseObjsOne \/ c \in CaseObjsTwo
  <2>1. CaseObjs = CaseObjsOne \cup CaseObjsTwo
    BY DEF CaseObjs, CaseObjsOne, CaseObjsTwo
  <2>2. QED
    BY <2>1
<1>2. CASE c \in CaseObjsOne
  BY <1>2, UK0, UK1, WFObj DEF CaseObjsOne
<1>3. CASE c \in CaseObjsTwo
  <2>1. PICK v \in SmallCaseEntries \cup ResultEntries,
             w \in SmallCaseEntries \cup ResultEntries :
           c = JObj(<< <<"c1", v>>, <<"c2", w>> >>)
    BY <1>3 DEF CaseObjsTwo
  <2>2. UniqueKeys(<< <<"c1", v>>, <<"c2", w>> >>)
    BY UK2
  <2>3. QED
    BY <2>1, <2>2, WFObj
<1>4. QED
  BY <1>1, <1>2, <1>3

LEMMA WFAllVals == \A v \in AllVals : WF(v)
BY WFAtoms, WFSubEntries, WFSubObjs, WFCaseEntries, WFSmall, WFCaseObjs DEF AllVals

LEMMA WFReports == \A rep \in Reports : WF(rep)
<1>1. Reports = {JArr, [t |-> "garbage"]} \cup DatedSet \cup CaseFirstSet \cup CaselessSet
  BY DEF Reports, DatedSet, CaseFirstSet, CaselessSet
<1>2. \A rep \in {JArr, [t |-> "garbage"]} : WF(rep)
  BY DEF WF, JArr
<1>3. \A df \in DateFields : df \in Seq(TopEnt) /\ UniqueKeys(df) /\ KeysIn(df, {"date"})
  BY OptUK, DateFieldsSeq DEF DateFields
<1>4. \A c : UniqueKeys(<< <<"case", c>> >>) /\ KeysIn(<< <<"case", c>> >>, {"case"})
  BY UK1
<1>5. \A rep \in DatedSet : WF(rep)
  <2> TAKE rep \in DatedSet
  <2>1. PICK df \in DateFields, cv \in CaseObjs \cup {JArr} :
           rep = JObj(df \o << <<"case", cv>> >>)
    BY DEF DatedSet
  <2>2. UniqueKeys(df \o << <<"case", cv>> >>)
    <3>1. << <<"case", cv>> >> \in Seq(TopEnt) /\ df \in Seq(TopEnt)
      BY <1>3, CaseEntrySeq
    <3>2. UniqueKeys(<< <<"case", cv>> >>) /\ KeysIn(<< <<"case", cv>> >>, {"case"})
      BY <1>4
    <3>3. UniqueKeys(df) /\ KeysIn(df, {"date"}) /\ {"date"} \cap {"case"} = {}
      BY <1>3
    <3>4. QED
      BY ONLY <3>1, <3>2, <3>3, UniqueConcat, ZenonT(60)
  <2>3. QED
    BY <2>1, <2>2, WFObj
<1>6. \A rep \in CaseFirstSet : WF(rep)
  <2> TAKE rep \in CaseFirstSet
  <2>1. PICK df \in DateFields, cv \in SmallCaseEntries :
           rep = JObj(<< <<"case", cv>> >> \o df)
    BY DEF CaseFirstSet
  <2>2. UniqueKeys(<< <<"case", cv>> >> \o df)
    <3>1. << <<"case", cv>> >> \in Seq(TopEnt) /\ df \in Seq(TopEnt)
      BY <1>3, CaseEntrySeq
    <3>2. UniqueKeys(<< <<"case", cv>> >>) /\ KeysIn(<< <<"case", cv>> >>, {"case"})
      BY <1>4
    <3>3. UniqueKeys(df) /\ KeysIn(df, {"date"}) /\ {"case"} \cap {"date"} = {}
      BY <1>3
    <3>4. QED
      BY ONLY <3>1, <3>2, <3>3, UniqueConcat, ZenonT(60)
  <2>3. QED
    BY <2>1, <2>2, WFObj
<1>7. \A rep \in CaselessSet : WF(rep)
  BY <1>3, WFObj DEF CaselessSet
<1>8. QED
  BY <1>1, <1>2, <1>5, <1>6, <1>7

(* A dict of the reports: built by JObj, keys distinct, entries in Ent. *)
Good(v) == WF(v) /\ DictOf(v, Ent)

LEMMA GoodAllVals == \A v \in AllVals : Good(v)
<1>1. \A v \in AllVals : DictOf(v, Ent)
  BY CaseValDecoded, SubEntriesDict, TopValDecoded
     DEF AllVals, CaseVal, TopVal, CaseEntryDecoded, CaseObjDecoded
<1>2. QED
  BY <1>1, WFAllVals DEF Good

LEMMA GoodReports == \A rep \in Reports : Good(rep)
BY ReportsDecoded, WFReports DEF Good, Decoded

(* The value of an entry of such a dict is again one. *)
LEMMA GoodDown ==
    ASSUME NEW v, Good(v), v.t = "obj", NEW n \in DOMAIN v.es
    PROVE  Good(v.es[n][2])
<1>1. v.es \in Seq(Ent)
  BY DEF Good, DictOf
<1>2. v.es[n][2] \in AllVals
  BY <1>1 DEF Ent
<1>3. QED
  BY <1>2, GoodAllVals

LEMMA GoodObj ==
    ASSUME NEW v, Good(v), v.t = "obj"
    PROVE  v = JObj(v.es) /\ v.es \in Seq(Keys \X AllVals) /\ UniqueKeys(v.es)
BY DEF Good, WF, DictOf, Ent

LEMMA FooUnknown == Foo[1] \notin TopKeys \cup CaseKeys \cup SubcaseKeys
BY DEF Foo, TopKeys, CaseKeys, SubcaseKeys

(* "foo" in a case dict of a report leaves __parseFile's result alone. *)
LEMMA CaseInsIgnored ==
    ASSUME NEW r, Good(r), r.t = "obj",
           NEW j \in DOMAIN r.es, r.es[j][1] = "case", r.es[j][2].t = "obj",
           NEW k \in DOMAIN r.es[j][2].es, r.es[j][2].es[k][2].t = "obj",
           NEW i \in 1 .. Len(r.es[j][2].es[k][2].es) + 1
    PROVE  SameParse(InsD(r, j, k, i), r)
<1>1. PICK cl : cl = r.es[j][2]
  OBVIOUS
<1>2. Good(cl)
  BY <1>1, GoodDown
<1>3. PICK c : c = cl.es[k][2]
  OBVIOUS
<1>4. Good(c)
  BY <1>1, <1>2, <1>3, GoodDown
<1>5. /\ r = JObj(r.es) /\ r.es \in Seq(Keys \X AllVals)
      /\ cl = JObj(cl.es) /\ cl.es \in Seq(Keys \X AllVals)
      /\ c = JObj(c.es) /\ c.es \in Seq(Keys \X AllVals) /\ UniqueKeys(c.es)
  BY <1>1, <1>2, <1>3, <1>4, GoodObj
<1>6. PICK c2 : c2 = InsC(c, i)
  OBVIOUS
<1>7. c2.t = "obj" /\ c2.es = InsertAt(c.es, i, Foo)
  <2>1. c2.t = "obj" /\ c2.es = Ins(c.es, i)
    BY <1>5, <1>6, InsCIs
  <2>2. i \in 1 .. Len(c.es) + 1
    BY <1>1, <1>3
  <2>3. Ins(c.es, i) = InsertAt(c.es, i, Foo)
    BY <1>5, <2>2, InsIs, Zenon
  <2>4. QED
    BY <2>1, <2>3
<1>8. PICK r2 : r2 = InsL(cl, k, i)
  OBVIOUS
<1>9. r2.t = "obj" /\ r2.es = SetVal(cl.es, k, c2)
  <2>1. k \in DOMAIN cl.es
    BY <1>1
  <2>2. SetIs(InsL(cl, k, i), cl, k, InsC(cl.es[k][2], i))
    BY <1>5, <2>1, InsLIs, Zenon
  <2>3. QED
    BY <2>2, <1>3, <1>6, <1>8 DEF SetIs, JObj
<1>10. PICK d2 : d2 = InsD(r, j, k, i)
  OBVIOUS
<1>11. d2.t = "obj" /\ d2.es = SetVal(r.es, j, r2)
  <2>1. SetIs(InsD(r, j, k, i), r, j, InsL(r.es[j][2], k, i))
    BY <1>5, InsDIs, Zenon
  <2>2. QED
    BY <2>1, <1>1, <1>8, <1>10 DEF SetIs, JObj
<1>12. ParseFile(d2) = ParseFile(r)
  <2>1. Foo[1] \notin CaseKeys
    BY FooUnknown
  <2>2. k \in DOMAIN cl.es /\ cl.es[k][2] = c /\ r.es[j][2] = cl /\ i \in 1 .. Len(c.es) + 1
    BY <1>1, <1>3
  <2>3. cl.t = "obj" /\ c.t = "obj"
    BY <1>1, <1>3
  <2> DEFINE S == Keys \X AllVals
  <2>4. /\ r.t = "obj" /\ j \in DOMAIN r.es /\ r.es[j][1] = "case" /\ r.es[j][2] = cl
        /\ cl.t = "obj" /\ cl.es \in Seq(S) /\ k \in DOMAIN cl.es /\ cl.es[k][2] = c
        /\ c.t = "obj" /\ c.es \in Seq(S) /\ UniqueKeys(c.es)
        /\ i \in 1 .. Len(c.es) + 1 /\ Foo[1] \notin CaseKeys
        /\ c2.t = "obj" /\ c2.es = InsertAt(c.es, i, Foo)
        /\ r2.t = "obj" /\ r2.es = SetVal(cl.es, k, c2)
        /\ d2.t = "obj" /\ d2.es = SetVal(r.es, j, r2)
    BY <1>5, <1>7, <1>9, <1>11, <2>1, <2>2, <2>3
  <2> HIDE DEF S
  <2>5. SameParse(d2, r)
    BY ONLY <2>4, UnknownCaseKeyIgnored, Zenon
  <2>6. QED
    BY <2>5 DEF SameParse
<1>13. QED
  BY <1>10, <1>12 DEF SameParse
(* "foo" in the top-level dict of a report leaves __parseFile's result alone. *)
LEMMA TopInsIgnored ==
    ASSUME NEW r, Good(r), r.t = "obj", NEW i \in 1 .. Len(r.es) + 1
    PROVE  SameParse(JObj(Ins(r.es, i)), r)
<1>1. r.es \in Seq(Keys \X AllVals) /\ UniqueKeys(r.es)
  BY GoodObj
<1>2. PICK d2 : d2 = JObj(Ins(r.es, i))
  OBVIOUS
<1>3. d2.t = "obj" /\ d2.es = InsertAt(r.es, i, Foo)
  <2>1. Ins(r.es, i) = InsertAt(r.es, i, Foo)
    BY <1>1, InsIs, Zenon
  <2>2. QED
    BY <1>2, <2>1 DEF JObj
<1>4. Foo[1] \notin TopKeys
  BY FooUnknown
<1>5. SameParse(d2, r)
  BY <1>1, <1>3, <1>4, UnknownTopKeyIgnored, Zenon
<1>6. QED
  BY <1>2, <1>5

(* "foo" in a subcase dict of a case entry c of a report leaves every
   subcase list of c parsed alike. *)
LEMMA SubInsAlike ==
    ASSUME NEW c, Good(c), c.t = "obj",
           NEW m \in DOMAIN c.es, c.es[m][1] = "subcase", NEW sl, c.es[m][2] = sl, sl.t = "obj",
           NEW q \in DOMAIN sl.es, NEW w, sl.es[q][2] = w, w.t = "obj",
           NEW i \in 1 .. Len(w.es) + 1
    PROVE  SubcaseAlike(InsD(c, m, q, i).es, c.es)
<1> DEFINE S == Keys \X AllVals
<1>1. Good(sl) /\ Good(w)
  BY GoodDown
<1>2. /\ c = JObj(c.es) /\ c.es \in Seq(S)
      /\ sl = JObj(sl.es) /\ sl.es \in Seq(S)
      /\ w = JObj(w.es) /\ w.es \in Seq(S) /\ UniqueKeys(w.es)
  BY <1>1, GoodObj
<1>3. PICK w2 : w2 = InsC(w, i)
  OBVIOUS
<1>4. w2.t = "obj" /\ w2.es = InsertAt(w.es, i, Foo)
  <2>1. w2.t = "obj" /\ w2.es = Ins(w.es, i)
    BY <1>2, <1>3, InsCIs
  <2>2. Ins(w.es, i) = InsertAt(w.es, i, Foo)
    BY <1>2, InsIs, Zenon
  <2>3. QED
    BY <2>1, <2>2
<1>5. PICK sl2 : sl2 = InsL(sl, q, i)
  OBVIOUS
<1>6. sl2.t = "obj" /\ sl2.es = SetVal(sl.es, q, w2)
  <2>1. SetIs(InsL(sl, q, i), sl, q, InsC(sl.es[q][2], i))
    BY <1>2, InsLIs, Zenon
  <2>2. QED
    BY <2>1, <1>3, <1>5 DEF SetIs, JObj
<1>7. PICK c2 : c2 = InsD(c, m, q, i)
  OBVIOUS
<1>8. c2.t = "obj" /\ c2.es = SetVal(c.es, m, sl2)
  <2>1. SetIs(InsD(c, m, q, i), c, m, InsL(c.es[m][2], q, i))
    BY <1>2, InsDIs, Zenon
  <2>2. QED
    BY <2>1, <1>5, <1>7 DEF SetIs, JObj
<1>9. Foo[1] \notin SubcaseKeys
  BY FooUnknown
<1>10. SubcaseAlike(c2.es, c.es)
  <2>1. /\ sl.es \in Seq(S) /\ w.es \in Seq(S) /\ UniqueKeys(w.es)
        /\ w2.t = "obj" /\ w2.es = InsertAt(w.es, i, Foo)
        /\ sl2.t = "obj" /\ sl2.es = SetVal(sl.es, q, w2)
        /\ c2.t = "obj" /\ c2.es = SetVal(c.es, m, sl2)
    BY <1>2, <1>4, <1>6, <1>8
  <2> HIDE DEF S
  <2>2. QED
    BY <1>9, <2>1, SubcaseInsertAlike, ZenonT(90)
<1>11. QED
  BY <1>7, <1>10

(* "foo" in a subcase dict of a report leaves __parseFile's result alone. *)
LEMMA SubInsIgnored ==
    ASSUME NEW r, Good(r), r.t = "obj",
           NEW j \in DOMAIN r.es, r.es[j][1] = "case", NEW cl, r.es[j][2] = cl, cl.t = "obj",
           NEW k \in DOMAIN cl.es, NEW c, cl.es[k][2] = c, c.t = "obj",
           NEW m \in DOMAIN c.es, c.es[m][1] = "subcase", NEW sl, c.es[m][2] = sl, sl.t = "obj",
           NEW q \in DOMAIN sl.es, NEW w, sl.es[q][2] = w, w.t = "obj",
           NEW i \in 1 .. Len(w.es) + 1
    PROVE  SameParse(InsSD(r, j, k, m, q, i), r)
<1> DEFINE S == Keys \X AllVals
<1>1. Good(cl) /\ Good(c)
  BY GoodDown
<1>2. /\ r = JObj(r.es) /\ r.es \in Seq(S)
      /\ cl = JObj(cl.es) /\ cl.es \in Seq(S)
  BY <1>1, GoodObj
<1>3. PICK c2 : c2 = InsD(c, m, q, i)
  OBVIOUS
<1>4. c2.t = "obj" /\ SubcaseAlike(c2.es, c.es)
  <2>1. c = JObj(c.es) /\ c.es \in Seq(S)
    BY <1>1, GoodObj
  <2>2. SetIs(InsD(c, m, q, i), c, m, InsL(c.es[m][2], q, i))
    BY <2>1, InsDIs, Zenon
  <2>3. QED
    BY <1>1, <1>3, <2>2, SubInsAlike DEF SetIs, JObj
<1>5. PICK r2 : r2 = InsSL(cl, k, m, q, i)
  OBVIOUS
<1>6. r2.t = "obj" /\ r2.es = SetVal(cl.es, k, c2)
  <2>1. SetIs(InsSL(cl, k, m, q, i), cl, k, InsD(cl.es[k][2], m, q, i))
    BY <1>2, InsSLIs, Zenon
  <2>2. QED
    BY <2>1, <1>3, <1>5 DEF SetIs, JObj
<1>7. PICK d2 : d2 = InsSD(r, j, k, m, q, i)
  OBVIOUS
<1>8. d2.t = "obj" /\ d2.es = SetVal(r.es, j, r2)
  <2>1. SetIs(InsSD(r, j, k, m, q, i), r, j, InsSL(r.es[j][2], k, m, q, i))
    BY <1>2, InsSDIs, Zenon
  <2>2. QED
    BY <2>1, <1>5, <1>7 DEF SetIs, JObj
<1>9. SameParse(d2, r)
  <2>1. /\ cl.es \in Seq(S) /\ c2.t = "obj" /\ SubcaseAlike(c2.es, c.es)
        /\ r2.t = "obj" /\ r2.es = SetVal(cl.es, k, c2)
        /\ d2.t = "obj" /\ d2.es = SetVal(r.es, j, r2)
    BY <1>2, <1>4, <1>6, <1>8
  <2> HIDE DEF S
  <2>2. QED
    BY <2>1, CaseAlikeReplaced, ZenonT(90)
<1>10. QED
  BY <1>7, <1>9

(* The parts WithUnknownKey is the union of. *)
CaseJs(d) == {j \in DOMAIN d.es : d.es[j][1] = "case" /\ d.es[j][2].t = "obj"}
CaseKs(d, j) == {k \in DOMAIN d.es[j][2].es : d.es[j][2].es[k][2].t = "obj"}
SubMs(d, j, k) == {m \in DOMAIN d.es[j][2].es[k][2].es :
                     d.es[j][2].es[k][2].es[m][1] = "subcase" /\ d.es[j][2].es[k][2].es[m][2].t = "obj"}
SubQs(d, j, k, m) == {q \in DOMAIN d.es[j][2].es[k][2].es[m][2].es :
                        d.es[j][2].es[k][2].es[m][2].es[q][2].t = "obj"}
TopIns(d) == {JObj(Ins(d.es, i)) : i \in 1 .. Len(d.es) + 1}
CaseIns(d, j, k) == {InsD(d, j, k, i) : i \in 1 .. Len(d.es[j][2].es[k][2].es) + 1}
SubIns(d, j, k, m, q) ==
    {InsSD(d, j, k, m, q, i) : i \in 1 .. Len(d.es[j][2].es[k][2].es[m][2].es[q][2].es) + 1}

LEMMA WithUnknownKeyIs ==
    ASSUME NEW d, d.t = "obj"
    PROVE  WithUnknownKey(d) =
             TopIns(d) \cup
             UNION {UNION {CaseIns(d, j, k) \cup
                           UNION {UNION {SubIns(d, j, k, m, q) : q \in SubQs(d, j, k, m)}
                                  : m \in SubMs(d, j, k)}
                           : k \in CaseKs(d, j)}
                    : j \in CaseJs(d)}
BY DEF WithUnknownKey, TopIns, CaseIns, SubIns, CaseJs, CaseKs, SubMs, SubQs, InsD, InsSD

(* For every report of the run, inserting "foo" in any dict leaves
   __parseFile's result and _data_parsed alone. *)
LEMMA ReportUnknownKeysIgnored ==
    ASSUME NEW r \in Reports
    PROVE  \A d2 \in WithUnknownKey(r) : ParseFile(d2) = ParseFile(r)
<1>1. Good(r)
  BY GoodReports
<1> SUFFICES ASSUME NEW d2 \in WithUnknownKey(r) PROVE SameParse(d2, r)
  BY DEF SameParse
<1>2. r.t = "obj"
  BY DEF WithUnknownKey
<1>3. CASE d2 \in TopIns(r)
  <2>1. PICK i \in 1 .. Len(r.es) + 1 : d2 = JObj(Ins(r.es, i))
    BY <1>3 DEF TopIns
  <2>2. QED
    BY <1>1, <1>2, <2>1, TopInsIgnored
<1>4. CASE d2 \notin TopIns(r)
  <2>1. PICK j \in CaseJs(r) :
          d2 \in UNION {CaseIns(r, j, k) \cup
                        UNION {UNION {SubIns(r, j, k, m, q) : q \in SubQs(r, j, k, m)}
                               : m \in SubMs(r, j, k)}
                        : k \in CaseKs(r, j)}
    BY <1>2, <1>4, WithUnknownKeyIs
  <2>2. PICK k \in CaseKs(r, j) :
          d2 \in CaseIns(r, j, k) \cup
                UNION {UNION {SubIns(r, j, k, m, q) : q \in SubQs(r, j, k, m)} : m \in SubMs(r, j, k)}
    BY <2>1
  <2>3. PICK cl : cl = r.es[j][2]
    OBVIOUS
  <2>4. PICK c : c = cl.es[k][2]
    OBVIOUS
  <2>5. /\ j \in DOMAIN r.es /\ r.es[j][1] = "case" /\ cl.t = "obj"
        /\ k \in DOMAIN cl.es /\ c.t = "obj"
    BY <2>3, <2>4 DEF CaseJs, CaseKs
  <2>6. CASE d2 \in CaseIns(r, j, k)
    <3>1. PICK i \in 1 .. Len(c.es) + 1 : d2 = InsD(r, j, k, i)
      BY <2>3, <2>4, <2>6 DEF CaseIns
    <3>2. QED
      BY <1>1, <1>2, <2>3, <2>4, <2>5, <3>1, CaseInsIgnored
  <2>7. CASE d2 \notin CaseIns(r, j, k)
    <3>1. PICK m \in SubMs(r, j, k) :
            d2 \in UNION {SubIns(r, j, k, m, q) : q \in SubQs(r, j, k, m)}
      BY <2>2, <2>7
    <3>2. PICK q \in SubQs(r, j, k, m) : d2 \in SubIns(r, j, k, m, q)
      BY <3>1
    <3>3. PICK sl : sl = c.es[m][2]
      OBVIOUS
    <3>4. PICK w : w = sl.es[q][2]
      OBVIOUS
    <3>5. /\ m \in DOMAIN c.es /\ c.es[m][1] = "subcase" /\ sl.t = "obj"
          /\ q \in DOMAIN sl.es /\ w.t = "obj"
      BY <2>3, <2>4, <3>3, <3>4 DEF SubMs, SubQs
    <3>6. PICK i \in 1 .. Len(w.es) + 1 : d2 = InsSD(r, j, k, m, q, i)
      BY <2>3, <2>4, <3>2, <3>3, <3>4 DEF SubIns
    <3>7. QED
      BY <1>1, <1>2, <2>3, <2>4, <2>5, <3>3, <3>4, <3>5, <3>6, SubInsIgnored, Zenon
  <2>8. QED
    BY <2>6, <2>7
<1>5. QED
  BY <1>3, <1>4

(* The invariant UnknownKeysIgnored of the run, from the reports it
   enumerates: every report into which "foo" is inserted, at the top level,
   in a case dict or in a subcase dict, is parsed by __parseFile like the
   report itself. *)
THEOREM DocUnknownKeysIgnored == Init /\ [][Next]_doc => []UnknownKeysIgnored
<1>1. Init /\ [][Next]_doc => []Init
  <2>1. Init /\ [Next]_doc => Init'
    BY DEF Init, Next
  <2>2. QED
    BY <2>1, PTL
<1>2. Init => UnknownKeysIgnored
  BY ReportUnknownKeysIgnored DEF Init, UnknownKeysIgnored
<1>3. QED
  BY <1>1, <1>2, PTL
=============================================================================
