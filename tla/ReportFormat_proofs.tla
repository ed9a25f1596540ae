------------------------- MODULE ReportFormat_proofs -------------------------
(***************************************************************************)
(* Proofs about the traversal of JsonParser (ReportFormat), for every      *)
(* decoded report: the operators have three fixed nesting levels and no    *)
(* recursion, so a property of a parse follows from the definitions at     *)
(* each level and one fact about loops, that a loop returning "ok" ran     *)
(* over every entry.                                                       *)
(***************************************************************************)
EXTENDS ReportFormat, WellFoundedInduction, FiniteSetTheorems, TLAPS

(* A loop that returns "ok" stopped after its last entry, and every entry's
   outcome was "ok": the first entry that is not "ok", which StopAt
   chooses, exists as soon as one entry is not "ok" (the least element of
   a non-empty set of naturals). *)
LEMMA LoopOk ==
    ASSUME NEW n \in Nat, NEW outs, DOMAIN outs = 1 .. n, Len(outs) = n,
           LoopOutcome(outs) = "ok"
    PROVE  /\ StopAt(outs) = n + 1
           /\ \A i \in 1 .. n : outs[i] = "ok"
<1>1. CASE \A i \in 1 .. n : outs[i] = "ok"
  BY <1>1 DEF StopAt
<1>2. CASE \E i \in 1 .. n : outs[i] # "ok"
  <2> DEFINE T == {i \in 1 .. n : outs[i] # "ok"}
  <2>1. T \subseteq Nat /\ T # {}
    BY <1>2
  <2>2. PICK x \in T : \A y \in T : ~(<<y, x>> \in OpToRel(<, Nat))
    BY <2>1, NatLessThanWellFounded, WFMin
  <2>3. \A j \in 1 .. x - 1 : outs[j] = "ok"
    <3> SUFFICES ASSUME NEW j \in 1 .. x - 1, outs[j] # "ok" PROVE FALSE
      OBVIOUS
    <3>1. j \in T /\ <<j, x>> \in Nat \X Nat /\ j < x
      OBVIOUS
    <3>2. <<j, x>> \in OpToRel(<, Nat)
      BY <3>1 DEF OpToRel
    <3>3. QED
      BY <3>1, <3>2, <2>2
  <2> DEFINE First(i) == /\ outs[i] # "ok"
                         /\ \A j \in 1 .. i - 1 : outs[j] = "ok"
  <2>4. x \in DOMAIN outs /\ First(x)
    BY <2>3
  <2>5. StopAt(outs) = CHOOSE i \in DOMAIN outs : First(i)
    BY <1>2 DEF StopAt
  <2>6. /\ StopAt(outs) \in 1 .. n
        /\ outs[StopAt(outs)] # "ok"
    BY <2>4, <2>5, Zenon
  <2>7. FALSE
    BY <2>6 DEF LoopOutcome
  <2>8. QED
    BY <2>7
<1>3. QED
  BY <1>1, <1>2
(* Any loop, whatever it returned, stopped at an index from 1 to one past
   its last entry, and every entry before that index was "ok". *)
LEMMA StopAtPrefix ==
    ASSUME NEW n \in Nat, NEW outs, DOMAIN outs = 1 .. n, Len(outs) = n
    PROVE  /\ StopAt(outs) \in 1 .. n + 1
           /\ \A i \in 1 .. StopAt(outs) - 1 : outs[i] = "ok"
<1>1. CASE \A i \in 1 .. n : outs[i] = "ok"
  BY <1>1 DEF StopAt
<1>2. CASE \E i \in 1 .. n : outs[i] # "ok"
  <2> DEFINE T == {i \in 1 .. n : outs[i] # "ok"}
             First(i) == /\ outs[i] # "ok"
                         /\ \A j \in 1 .. i - 1 : outs[j] = "ok"
  <2>1. T \subseteq Nat /\ T # {}
    BY <1>2
  <2>2. PICK x \in T : \A y \in T : ~(<<y, x>> \in OpToRel(<, Nat))
    BY <2>1, NatLessThanWellFounded, WFMin
  <2>3. \A j \in 1 .. x - 1 : outs[j] = "ok"
    <3> SUFFICES ASSUME NEW j \in 1 .. x - 1, outs[j] # "ok" PROVE FALSE
      OBVIOUS
    <3>1. j \in T /\ <<j, x>> \in OpToRel(<, Nat)
      BY DEF OpToRel
    <3>2. QED
      BY <3>1, <2>2
  <2>4. x \in DOMAIN outs /\ First(x)
    BY <2>3
  <2>5. StopAt(outs) = CHOOSE i \in DOMAIN outs : First(i)
    BY <1>2 DEF StopAt
  <2>6. StopAt(outs) \in 1 .. n /\ First(StopAt(outs))
    BY <2>4, <2>5, Zenon
  <2>7. QED
    BY <2>6
<1>3. QED
  BY <1>1, <1>2

-----------------------------------------------------------------------------
(* What ParsedReportComplete asks of one subcase list sb and its score sc,
   and of one parsed case record k. *)
ScoredList(sc, sb) ==
    /\ sb.num = Len(sb.data)
    /\ \A sym \in {PASS, FAIL, SKIP} :
         LET n == IF sym = PASS THEN sc.pass
                  ELSE IF sym = FAIL THEN sc.fail ELSE sc.skip
         IN n = Cardinality({j \in DOMAIN sb.data : sb.data[j].result = sym})
CaseComplete(k) ==
    /\ (k.score = None) = (k.sub = None)
    /\ \A sc \in k.score, sb \in k.sub : ScoredList(sc, sb)

(* A subcase loop of __parseCaseSubcase that returned True handled every
   entry: 'num' is the number of entries kept in 'data', and each counter
   of 'score' counts the entries classified under its symbol. *)
LEMMA SubcaseComplete ==
    ASSUME NEW E, NEW raw, raw.es \in Seq(E), ParseCaseSubcase(raw).ret = "ok"
    PROVE  \A sc \in ParseCaseSubcase(raw).score, sb \in ParseCaseSubcase(raw).sub :
             ScoredList(sc, sb)
<1> DEFINE outs == SubcaseOutcomes(raw)
           m == Len(raw.es)
           r == ParseCaseSubcase(raw)
           res(i) == ParseCommonResult(Val(raw.es[i][2].es, "result").n)
<1>1. m \in Nat /\ DOMAIN outs = 1 .. m /\ Len(outs) = m
  BY DEF SubcaseOutcomes
<1>2. StopAt(outs) = m + 1
  BY <1>1, LoopOk DEF ParseCaseSubcase
<1>3. CASE raw.es = << >>
  BY <1>3 DEF ParseCaseSubcase, None
<1>4. CASE raw.es # << >>
  <2>1. r.score = {ScoreOf(raw, m)}
    BY <1>2, <1>4 DEF ParseCaseSubcase, Some
  <2>2. r.sub = {[num  |-> m,
                  data |-> [i \in 1 .. m |-> SubcaseRecord(raw.es[i])]]}
    BY <1>2, <1>4 DEF ParseCaseSubcase, Some
  <2>3. \A sym \in {PASS, FAIL, SKIP} :
           {j \in DOMAIN [i \in 1 .. m |-> SubcaseRecord(raw.es[i])] :
              [i \in 1 .. m |-> SubcaseRecord(raw.es[i])][j].result = sym}
           = {i \in 1 .. m : res(i) = sym}
    BY DEF SubcaseRecord
  <2>4. SUFFICES ASSUME NEW sc \in r.score, NEW sb \in r.sub
                 PROVE  ScoredList(sc, sb)
    OBVIOUS
  <2>5. /\ sc = ScoreOf(raw, m)
        /\ sb = [num  |-> m,
                 data |-> [i \in 1 .. m |-> SubcaseRecord(raw.es[i])]]
    BY <2>1, <2>2
  <2>6. sb.num = Len(sb.data)
    BY <1>1, <2>5
  <2>7. ASSUME NEW sym \in {PASS, FAIL, SKIP}
        PROVE  (IF sym = PASS THEN sc.pass ELSE IF sym = FAIL THEN sc.fail ELSE sc.skip)
               = Cardinality({j \in DOMAIN sb.data : sb.data[j].result = sym})
    <3>1. (IF sym = PASS THEN sc.pass ELSE IF sym = FAIL THEN sc.fail ELSE sc.skip)
          = Cardinality({i \in 1 .. m : res(i) = sym})
      BY <2>5 DEF ScoreOf, PASS, FAIL, SKIP
    <3>2. {j \in DOMAIN sb.data : sb.data[j].result = sym} = {i \in 1 .. m : res(i) = sym}
      BY <2>3, <2>5
    <3>3. QED
      BY <3>1, <3>2
  <2>8. QED
    BY <2>6, <2>7 DEF ScoredList
<1>5. QED
  BY <1>3, <1>4

(* The dicts of a decoded report are finite sequences of entries: a case
   entry's own dict, and the dicts its keys hold. *)
DictOf(v, E) == v.t = "obj" => v.es \in Seq(E)
CaseEntryDecoded(ce, E) ==
    /\ DictOf(ce, E)
    /\ ce.t = "obj" => \A m \in DOMAIN ce.es : DictOf(ce.es[m][2], E)

(* A case entry whose handlers all succeeded becomes a case record with a
   score exactly when it has a subcase list, and that list is complete. *)
LEMMA CaseRecordComplete ==
    ASSUME NEW E, NEW e, CaseEntryDecoded(e[2], E), CaseEntryOutcome(e[2]) = "ok"
    PROVE  CaseComplete(CaseRecord(e))
<1> DEFINE es == e[2].es
           fo == [i \in DOMAIN es |-> CaseFieldOutcome(es[i][1], es[i][2])]
<1>1. e[2].t = "obj"
  BY DEF CaseEntryOutcome
<1>2. es \in Seq(E)
  BY <1>1 DEF CaseEntryDecoded, DictOf
<1>3. \A i \in DOMAIN es : fo[i] = "ok"
  <2>1. Len(es) \in Nat /\ DOMAIN fo = 1 .. Len(es) /\ Len(fo) = Len(es)
    BY <1>2
  <2>2. LoopOutcome(fo) = "ok"
    BY <1>1 DEF CaseEntryOutcome
  <2>3. QED
    BY <2>1, <2>2, <1>2, LoopOk
<1>4. CASE HasKey(es, "subcase")
  <2> DEFINE j == CHOOSE i \in DOMAIN es : es[i][1] = "subcase"
             sv == es[j][2]
  <2>1. j \in DOMAIN es /\ es[j][1] = "subcase"
    BY <1>4 DEF HasKey
  <2>2. CaseFieldOutcome("subcase", sv) = "ok"
    BY <1>3, <2>1
  <2>3. sv.t = "obj" /\ ParseCaseSubcase(sv).ret = "ok"
    <3>1. "subcase" \in CaseKeys /\ ArgTypes("subcase") = {"obj"}
      BY DEF CaseKeys, ArgTypes
    <3>2. QED
      BY <2>2, <3>1 DEF CaseFieldOutcome
  <2>4. sv.es \in Seq(E)
    BY <1>1, <2>1, <2>3 DEF CaseEntryDecoded, DictOf
  <2>5. CaseRecord(e).score = ParseCaseSubcase(sv).score
        /\ CaseRecord(e).sub = ParseCaseSubcase(sv).sub
    BY <1>4 DEF CaseRecord, Val
  <2>6. (ParseCaseSubcase(sv).score = None) = (ParseCaseSubcase(sv).sub = None)
    BY DEF ParseCaseSubcase, None, Some
  <2>7. \A sc \in ParseCaseSubcase(sv).score, sb \in ParseCaseSubcase(sv).sub :
          ScoredList(sc, sb)
    BY <2>3, <2>4, SubcaseComplete
  <2>8. QED
    BY <2>5, <2>6, <2>7 DEF CaseComplete
<1>5. CASE ~HasKey(es, "subcase")
  BY <1>5 DEF CaseRecord, CaseComplete, None
<1>6. QED
  BY <1>4, <1>5

(* The case dict's entries, and the top-level dict's case dicts. *)
CaseObjDecoded(v, E) ==
    /\ DictOf(v, E)
    /\ v.t = "obj" => \A j \in DOMAIN v.es : CaseEntryDecoded(v.es[j][2], E)
Decoded(raw, E) ==
    /\ DictOf(raw, E)
    /\ raw.t = "obj" => \A i \in DOMAIN raw.es : CaseObjDecoded(raw.es[i][2], E)

(* A case loop of __parseTopCase that returned True appended every case:
   'num' counts the entries of 'data', which is the sequence of rows 1 to
   'num', and every case record is complete. *)
LEMMA CaseListComplete ==
    ASSUME NEW E, NEW v, CaseObjDecoded(v, E), v.t = "obj",
           LoopOutcome(CaseOutcomes(v)) = "ok"
    PROVE  /\ ParseTopCase(v).num \in Nat
           /\ DOMAIN ParseTopCase(v).data = 1 .. ParseTopCase(v).num
           /\ ParseTopCase(v).num = Len(ParseTopCase(v).data)
           /\ \A i \in DOMAIN ParseTopCase(v).data :
                CaseComplete(ParseTopCase(v).data[i])
<1> DEFINE outs == CaseOutcomes(v)
           m == Len(v.es)
<1>1. v.es \in Seq(E) /\ m \in Nat /\ DOMAIN outs = 1 .. m /\ Len(outs) = m
  BY DEF CaseObjDecoded, DictOf, CaseOutcomes
<1>2. StopAt(outs) = m + 1 /\ \A i \in 1 .. m : outs[i] = "ok"
  BY <1>1, LoopOk
<1>3. ParseTopCase(v) = [num |-> m, data |-> [i \in 1 .. m |-> CaseRecord(v.es[i])]]
  BY <1>2 DEF ParseTopCase
<1>4. \A i \in 1 .. m : CaseComplete(CaseRecord(v.es[i]))
  <2> SUFFICES ASSUME NEW i \in 1 .. m PROVE CaseComplete(CaseRecord(v.es[i]))
    OBVIOUS
  <2>1. CaseEntryOutcome(v.es[i][2]) = "ok"
    BY <1>1, <1>2 DEF CaseOutcomes
  <2>2. CaseEntryDecoded(v.es[i][2], E)
    BY <1>1 DEF CaseObjDecoded
  <2>3. QED
    BY <2>1, <2>2, CaseRecordComplete
<1>5. QED
  BY <1>1, <1>3, <1>4

(* The case list of a successful parse of a decoded report is what
   __parseTopCase made of the 'case' dict, and that dict is decoded and
   its loop returned True. *)
LEMMA OkCaseList ==
    ASSUME NEW E, NEW raw, Decoded(raw, E), ParseFile(raw).ret = "ok",
           NEW c \in ParseFile(raw).data.case
    PROVE  \E v : /\ CaseObjDecoded(v, E)
                  /\ v.t = "obj"
                  /\ LoopOutcome(CaseOutcomes(v)) = "ok"
                  /\ c = ParseTopCase(v)
<1> DEFINE r == ParseFile(raw)
           outs == TopOutcomes(raw)
           m == Len(raw.es)
<1>1. raw.t = "obj"
  BY DEF ParseFile
<1>2. raw.es \in Seq(E) /\ m \in Nat /\ DOMAIN outs = 1 .. m /\ Len(outs) = m
  BY <1>1 DEF Decoded, DictOf, TopOutcomes
<1>3. StopAt(outs) = m + 1 /\ \A i \in 1 .. m : outs[i] = "ok"
  <2>1. LoopOutcome(outs) = "ok"
    BY <1>1 DEF ParseFile
  <2>2. QED
    BY <1>2, <2>1, LoopOk
<1>4. c \in TopField(raw, "case", m + 1)
  BY <1>1, <1>3 DEF ParseFile
<1> DEFINE j == CHOOSE k \in DOMAIN raw.es : raw.es[k][1] = "case"
           v == raw.es[j][2]
<1>5. HasKey(raw.es, "case")
  BY <1>4 DEF TopField, None
<1>6. j \in 1 .. m /\ raw.es[j][1] = "case"
  BY <1>2, <1>5 DEF HasKey
<1>7. c = ParseTopCase(v)
  BY <1>2, <1>4, <1>5, <1>6 DEF TopField, Some, None
<1>8. v.t = "obj" /\ LoopOutcome(CaseOutcomes(v)) = "ok"
  <2>1. TopEntryOutcome("case", v) = "ok"
    BY <1>2, <1>3, <1>6 DEF TopOutcomes
  <2>2. QED
    BY <2>1 DEF TopEntryOutcome, TopKeys, ArgTypes
<1>9. CaseObjDecoded(v, E)
  <2>1. j \in DOMAIN raw.es
    BY <1>2, <1>6
  <2>2. QED
    BY <1>1, <2>1, Zenon DEF Decoded
<1>10. QED
  BY <1>7, <1>8, <1>9

(* A successful parse yields a complete report, for every decoded report:
   __parseFile returning True means every case and subcase entry was
   handled, so the case list holds them all, a case has a score exactly
   when it has a subcase list, and the score counts each subcase once under
   the symbol __parseCommonResult gave it (SuccessfulParseComplete). *)
THEOREM ParseComplete ==
    ASSUME NEW E, NEW raw, Decoded(raw, E)
    PROVE  ParsedReportComplete(raw)
<1> SUFFICES ASSUME ParseFile(raw).ret = "ok", NEW c \in ParseFile(raw).data.case
             PROVE  /\ c.num = Len(c.data)
                    /\ \A i \in DOMAIN c.data : CaseComplete(c.data[i])
  BY Zenon DEF ParsedReportComplete, CaseComplete, ScoredList
<1>1. PICK v : /\ CaseObjDecoded(v, E)
               /\ v.t = "obj"
               /\ LoopOutcome(CaseOutcomes(v)) = "ok"
               /\ c = ParseTopCase(v)
  BY OkCaseList
<1>2. QED
  BY <1>1, CaseListComplete

(* The case list of a successful parse, as the page reads it by row: rows
   1 to 'num' of 'data', each a complete case record. *)
LEMMA OkCaseRows ==
    ASSUME NEW E, NEW raw, Decoded(raw, E), ParseFile(raw).ret = "ok",
           NEW c \in ParseFile(raw).data.case
    PROVE  /\ c.num \in Nat
           /\ DOMAIN c.data = 1 .. c.num
           /\ c.num = Len(c.data)
           /\ \A i \in DOMAIN c.data : CaseComplete(c.data[i])
<1>1. PICK v : /\ CaseObjDecoded(v, E)
               /\ v.t = "obj"
               /\ LoopOutcome(CaseOutcomes(v)) = "ok"
               /\ c = ParseTopCase(v)
  BY OkCaseList
<1>2. QED
  BY <1>1, CaseListComplete
-----------------------------------------------------------------------------
(* The types of what the parser stores, for every report json.load can
   return, whether the parse returned True or stopped early: the keys of
   its dicts are strings and its numbers (and booleans) are integers. *)
Results == {PASS, FAIL, SKIP}
TypedEntries(E) ==
    \A e \in E : /\ e[1] \in STRING
                 /\ e[2].t \in {"int", "bool"} => e[2].n \in Int

(* A parsed subcase list, a parsed case and a parsed case list, as
   AppCaseTable and AppSubcaseTable read them. *)
SubListTyped(sb) ==
    /\ sb.num \in Nat
    /\ DOMAIN sb.data = 1 .. sb.num
    /\ \A j \in DOMAIN sb.data : /\ sb.data[j].name \in STRING
                                 /\ sb.data[j].result \in Results
CaseTyped(k) ==
    /\ k.name \in STRING
    /\ k.time \in SUBSET Int
    /\ k.result \in SUBSET Results
    /\ k.score \in SUBSET [pass: Nat, fail: Nat, skip: Nat]
    /\ \A sb \in k.sub : SubListTyped(sb)
CaseListTyped(c) ==
    /\ c.num \in Nat
    /\ Len(c.data) \in Nat
    /\ DOMAIN c.data = 1 .. Len(c.data)
    /\ \A i \in DOMAIN c.data : CaseTyped(c.data[i])

(* A count of the subcases under one symbol is a natural number. *)
LEMMA CountNat ==
    ASSUME NEW m \in Nat, NEW S \in SUBSET (1 .. m)
    PROVE  Cardinality(S) \in Nat
<1>1. IsFiniteSet(1 .. m)
  BY FS_Interval
<1>2. IsFiniteSet(S)
  BY <1>1, FS_Subset
<1>3. QED
  BY <1>2, FS_CardinalityType

(* A subcase loop that returned True: natural counters, and one named,
   classified entry per subcase. *)
LEMMA SubcaseTyped ==
    ASSUME NEW E, TypedEntries(E), NEW raw, raw.es \in Seq(E),
           ParseCaseSubcase(raw).ret = "ok"
    PROVE  /\ ParseCaseSubcase(raw).score \in SUBSET [pass: Nat, fail: Nat, skip: Nat]
           /\ \A sb \in ParseCaseSubcase(raw).sub : SubListTyped(sb)
<1> DEFINE outs == SubcaseOutcomes(raw)
           m == Len(raw.es)
           res(i) == ParseCommonResult(Val(raw.es[i][2].es, "result").n)
<1>1. m \in Nat /\ DOMAIN outs = 1 .. m /\ Len(outs) = m
  BY DEF SubcaseOutcomes
<1>2. StopAt(outs) = m + 1
  BY <1>1, LoopOk DEF ParseCaseSubcase
<1>3. CASE raw.es = << >>
  BY <1>3 DEF ParseCaseSubcase, None
<1>4. CASE raw.es # << >>
  <2>1. ParseCaseSubcase(raw).score = {ScoreOf(raw, m)}
    BY <1>2, <1>4 DEF ParseCaseSubcase, Some
  <2>2. ParseCaseSubcase(raw).sub =
          {[num |-> m, data |-> [i \in 1 .. m |-> SubcaseRecord(raw.es[i])]]}
    BY <1>2, <1>4 DEF ParseCaseSubcase, Some
  <2>3. \A sym \in Results : Cardinality({i \in 1 .. m : res(i) = sym}) \in Nat
    BY <1>1, CountNat
  <2>4. ScoreOf(raw, m) \in [pass: Nat, fail: Nat, skip: Nat]
    BY <2>3 DEF ScoreOf, Results
  <2>5. \A i \in 1 .. m : /\ SubcaseRecord(raw.es[i]).name \in STRING
                          /\ SubcaseRecord(raw.es[i]).result \in Results
    <3> SUFFICES ASSUME NEW k \in 1 .. m
                 PROVE  /\ SubcaseRecord(raw.es[k]).name \in STRING
                        /\ SubcaseRecord(raw.es[k]).result \in Results
      OBVIOUS
    <3>1. raw.es[k] \in E
      OBVIOUS
    <3>2. raw.es[k][1] \in STRING
      BY <3>1 DEF TypedEntries
    <3>3. \A x : ParseCommonResult(x) \in Results
      BY DEF ParseCommonResult, Results
    <3>4. QED
      BY <3>2, <3>3 DEF SubcaseRecord
  <2>6. QED
    BY <1>1, <2>1, <2>2, <2>4, <2>5 DEF SubListTyped
<1>5. QED
  BY <1>3, <1>4

(* A case entry whose handlers all succeeded becomes a typed case record:
   its name is the entry's key, 'time' an integer (the @check on the time
   handler admits int and bool), and its score and subcases those of a
   subcase loop that returned True. *)
LEMMA CaseRecordTyped ==
    ASSUME NEW E, TypedEntries(E), NEW e \in E, CaseEntryDecoded(e[2], E),
           CaseEntryOutcome(e[2]) = "ok"
    PROVE  CaseTyped(CaseRecord(e))
<1> DEFINE es == e[2].es
           fo == [i \in DOMAIN es |-> CaseFieldOutcome(es[i][1], es[i][2])]
<1>1. e[2].t = "obj"
  BY DEF CaseEntryOutcome
<1>2. es \in Seq(E)
  BY <1>1 DEF CaseEntryDecoded, DictOf
<1>3. \A i \in DOMAIN es : fo[i] = "ok"
  <2>1. Len(es) \in Nat /\ DOMAIN fo = 1 .. Len(es) /\ Len(fo) = Len(es)
    BY <1>2
  <2>2. LoopOutcome(fo) = "ok"
    BY <1>1 DEF CaseEntryOutcome
  <2>3. QED
    BY <2>1, <2>2, <1>2, LoopOk
<1>4. CaseRecord(e).name \in STRING
  BY DEF CaseRecord, TypedEntries
<1>5. CaseRecord(e).time \in SUBSET Int
  <2>1. CASE HasKey(es, "time")
    <3> DEFINE j == CHOOSE i \in DOMAIN es : es[i][1] = "time"
    <3>1. j \in DOMAIN es /\ es[j][1] = "time"
      BY <2>1 DEF HasKey
    <3>2. CaseFieldOutcome("time", es[j][2]) = "ok"
      BY <1>3, <3>1
    <3>3. "time" \in CaseKeys /\ ArgTypes("time") = {"int", "bool"}
      BY DEF CaseKeys, ArgTypes
    <3>4. es[j][2].t \in {"int", "bool"}
      BY <3>2, <3>3 DEF CaseFieldOutcome
    <3>5. es[j] \in E
      <4>1. \A x \in DOMAIN es : es[x] \in E
        BY <1>2
      <4>2. QED
        BY <3>1, <4>1
    <3>6. es[j][2].n \in Int
      BY <3>4, <3>5 DEF TypedEntries
    <3>7. QED
      BY <2>1, <3>6 DEF CaseRecord, Val, Some
  <2>2. CASE ~HasKey(es, "time")
    BY <2>2 DEF CaseRecord, None
  <2>3. QED
    BY <2>1, <2>2
<1>6. CaseRecord(e).result \in SUBSET Results
  <2>1. \A x : ParseCommonResult(x) \in Results
    BY DEF ParseCommonResult, Results
  <2>2. QED
    BY <2>1 DEF CaseRecord, Some, None
<1>7. /\ CaseRecord(e).score \in SUBSET [pass: Nat, fail: Nat, skip: Nat]
      /\ \A sb \in CaseRecord(e).sub : SubListTyped(sb)
  <2>1. CASE HasKey(es, "subcase")
    <3> DEFINE j == CHOOSE i \in DOMAIN es : es[i][1] = "subcase"
               sv == es[j][2]
    <3>1. j \in DOMAIN es /\ es[j][1] = "subcase"
      BY <2>1 DEF HasKey
    <3>2. CaseFieldOutcome("subcase", sv) = "ok"
      BY <1>3, <3>1
    <3>3. "subcase" \in CaseKeys /\ ArgTypes("subcase") = {"obj"}
      BY DEF CaseKeys, ArgTypes
    <3>4. sv.t = "obj" /\ ParseCaseSubcase(sv).ret = "ok"
      BY <3>2, <3>3 DEF CaseFieldOutcome
    <3>5. sv.es \in Seq(E)
      BY <1>1, <3>1, <3>4 DEF CaseEntryDecoded, DictOf
    <3>6. CaseRecord(e).score = ParseCaseSubcase(sv).score
          /\ CaseRecord(e).sub = ParseCaseSubcase(sv).sub
      BY <2>1 DEF CaseRecord, Val
    <3>7. QED
      BY <3>4, <3>5, <3>6, SubcaseTyped
  <2>2. CASE ~HasKey(es, "subcase")
    BY <2>2 DEF CaseRecord, None
  <2>3. QED
    BY <2>1, <2>2
<1>8. QED
  BY <1>4, <1>5, <1>6, <1>7 DEF CaseTyped

(* Whatever the case loop of __parseTopCase returned, the cases it
   appended are the entries before the one it stopped at, each handled to
   the end: a sequence of typed case records. *)
LEMMA CaseListIsTyped ==
    ASSUME NEW E, TypedEntries(E), NEW v, CaseObjDecoded(v, E), v.t = "obj"
    PROVE  CaseListTyped(ParseTopCase(v))
<1> DEFINE outs == CaseOutcomes(v)
           m == Len(v.es)
           n == StopAt(outs) - 1
<1>1. v.es \in Seq(E) /\ m \in Nat /\ DOMAIN outs = 1 .. m /\ Len(outs) = m
  BY DEF CaseObjDecoded, DictOf, CaseOutcomes
<1>2. n \in 0 .. m /\ \A i \in 1 .. n : outs[i] = "ok"
  BY <1>1, StopAtPrefix
<1>3. ParseTopCase(v) = [num |-> m, data |-> [i \in 1 .. n |-> CaseRecord(v.es[i])]]
  BY DEF ParseTopCase
<1>4. \A i \in 1 .. n : CaseTyped(CaseRecord(v.es[i]))
  <2> SUFFICES ASSUME NEW i \in 1 .. n PROVE CaseTyped(CaseRecord(v.es[i]))
    OBVIOUS
  <2>1. v.es[i] \in E /\ CaseEntryOutcome(v.es[i][2]) = "ok"
    BY <1>1, <1>2 DEF CaseOutcomes
  <2>2. CaseEntryDecoded(v.es[i][2], E)
    BY <1>1, <1>2 DEF CaseObjDecoded
  <2>3. QED
    BY <2>1, <2>2, CaseRecordTyped
<1>5. QED
  BY <1>1, <1>2, <1>3, <1>4 DEF CaseListTyped

(* Whatever __parseFile returned, the case list it left in _data_parsed
   is typed: 'case' is set only when the @check of its handler admitted a
   dict, and its loop appended only entries it handled to the end. *)
LEMMA ParseCasesTyped ==
    ASSUME NEW E, TypedEntries(E), NEW raw, Decoded(raw, E),
           ParseFile(raw).data # NoData
    PROVE  \A c \in ParseFile(raw).data.case : CaseListTyped(c)
<1> DEFINE outs == TopOutcomes(raw)
           m == Len(raw.es)
           stop == StopAt(outs)
<1>1. raw.t = "obj"
  BY DEF ParseFile
<1>2. raw.es \in Seq(E) /\ m \in Nat /\ DOMAIN outs = 1 .. m /\ Len(outs) = m
  BY <1>1 DEF Decoded, DictOf, TopOutcomes
<1>3. stop \in 1 .. m + 1 /\ \A i \in 1 .. stop - 1 : outs[i] = "ok"
  BY <1>2, StopAtPrefix
<1>4. ParseFile(raw).data.case = TopField(raw, "case", stop)
  BY <1>1 DEF ParseFile
<1> SUFFICES ASSUME NEW c \in TopField(raw, "case", stop)
             PROVE  CaseListTyped(c)
  BY <1>4
<1> DEFINE j == CHOOSE k \in DOMAIN raw.es : raw.es[k][1] = "case"
           v == raw.es[j][2]
<1>5. /\ HasKey(raw.es, "case")
      /\ ~(j > stop)
      /\ ~(j = stop /\ v.t \notin ArgTypes("case"))
      /\ c = ParseTopCase(v)
  BY DEF TopField, None, Some
<1>6. j \in 1 .. m /\ raw.es[j][1] = "case"
  BY <1>2, <1>5 DEF HasKey
<1>7. v.t = "obj"
  <2>1. ArgTypes("case") = {"obj"} /\ "case" \in TopKeys
    BY DEF ArgTypes, TopKeys
  <2>2. CASE j < stop
    <3>1. j \in 1 .. stop - 1
      BY <1>3, <1>6, <2>2
    <3>2. outs[j] = "ok"
      BY <1>3, <3>1
    <3>3. TopEntryOutcome("case", v) = "ok"
      BY <1>2, <1>6, <3>2 DEF TopOutcomes
    <3>4. QED
      BY <3>3, <2>1 DEF TopEntryOutcome
  <2>3. CASE j = stop
    <3>1. v.t \in ArgTypes("case")
      BY <1>5, <2>3
    <3>2. QED
      BY <3>1, <2>1
  <2>4. j < stop \/ j = stop
    <3>1. j \in Nat /\ stop \in Nat /\ ~(j > stop)
      BY <1>3, <1>5, <1>6
    <3>2. QED
      BY <3>1, SMTT(30)
  <2>5. QED
    BY <2>2, <2>3, <2>4
<1>8. CaseObjDecoded(v, E)
  <2>1. j \in DOMAIN raw.es
    BY <1>2, <1>6
  <2>2. QED
    BY <1>1, <2>1, Zenon DEF Decoded
<1>9. QED
  BY <1>5, <1>7, <1>8, CaseListIsTyped
=============================================================================
