------------------------- MODULE UnknownKeys_proofs -------------------------
(***************************************************************************)
(* Unknown keys are dropped (spec section 8), for every decoded report: a  *)
(* key that no handler of _key_top, _key_case or _key_subcase reads,       *)
(* inserted anywhere in the top-level dict, in a case dict or in a subcase *)
(* dict, changes neither what __parseFile returns nor _data_parsed.        *)
(*                                                                         *)
(* json.load builds a Python dict, so the keys of each dict are distinct   *)
(* (UniqueKeys); the model reads a key with Val, which picks one entry     *)
(* with that key, and only distinct keys make that entry the same before   *)
(* and after the insertion.                                                *)
(***************************************************************************)
EXTENDS ReportFormat_proofs, TLAPS

(* The sequence s with x inserted at position p. *)
InsertAt(s, p, x) ==
    [j \in 1 .. Len(s) + 1 |-> IF j < p THEN s[j] ELSE IF j = p THEN x ELSE s[j - 1]]

(* The keys of a decoded dict are distinct. *)
UniqueKeys(es) == \A i, j \in DOMAIN es : es[i][1] = es[j][1] => i = j

-----------------------------------------------------------------------------
(* The loops: where a loop stops, and what it returns, when an entry whose
   handler succeeds is inserted. *)

(* StopAt is the first entry that is not "ok", or one past the last. *)
LEMMA StopAtSpec ==
    ASSUME NEW n \in Nat, NEW outs, DOMAIN outs = 1 .. n, Len(outs) = n
    PROVE  /\ StopAt(outs) \in 1 .. n + 1
           /\ \A i \in 1 .. StopAt(outs) - 1 : outs[i] = "ok"
           /\ StopAt(outs) <= n => outs[StopAt(outs)] # "ok"
<1>1. CASE \A i \in 1 .. n : outs[i] = "ok"
  BY <1>1 DEF StopAt
<1>2. CASE \E i \in 1 .. n : outs[i] # "ok"
  <2> DEFINE T == {i \in 1 .. n : outs[i] # "ok"}
             First(i) == /\ outs[i] # "ok"
                         /\ \A j \in 1 .. i - 1 : outs[j] = "ok"
  <2>1. T \subseteq Nat /\ T # {}
    BY <1>2
  <2>2. PICK x \in T : \A y \in T : ~(<<y, x>> \in OpToRel(<, Nat))
    BY <2>1, NatLessThanWellFounded, WFMin
  <2>3. \A j \in 1 .. x - 1 : outs[j] = "ok"
    <3> SUFFICES ASSUME NEW j \in 1 .. x - 1, outs[j] # "ok" PROVE FALSE
      OBVIOUS
    <3>1. j \in T /\ <<j, x>> \in OpToRel(<, Nat)
      BY DEF OpToRel
    <3>2. QED
      BY <3>1, <2>2
  <2>4. x \in DOMAIN outs /\ First(x)
    BY <2>3
  <2>5. StopAt(outs) = CHOOSE i \in DOMAIN outs : First(i)
    BY <1>2 DEF StopAt
  <2>6. StopAt(outs) \in DOMAIN outs /\ First(StopAt(outs))
    BY <2>4, <2>5, Zenon
  <2>7. QED
    BY <2>6
<1>3. QED
  BY <1>1, <1>2

(* Any index with the properties of StopAt is StopAt. *)
LEMMA StopAtIs ==
    ASSUME NEW n \in Nat, NEW outs, DOMAIN outs = 1 .. n, Len(outs) = n,
           NEW s \in 1 .. n + 1,
           \A j \in 1 .. s - 1 : outs[j] = "ok",
           s <= n => outs[s] # "ok"
    PROVE  StopAt(outs) = s
<1> DEFINE t == StopAt(outs)
<1>1. /\ t \in 1 .. n + 1
      /\ \A i \in 1 .. t - 1 : outs[i] = "ok"
      /\ t <= n => outs[t] # "ok"
  BY StopAtSpec
<1>2. ~(t < s)
  <2> SUFFICES ASSUME t < s PROVE FALSE
    OBVIOUS
  <2>1. t \in 1 .. s - 1 /\ t <= n
    BY <1>1
  <2>2. outs[t] = "ok"
    BY <2>1
  <2>3. QED
    BY <1>1, <2>1, <2>2
<1>3. ~(s < t)
  <2> SUFFICES ASSUME s < t PROVE FALSE
    OBVIOUS
  <2>1. s \in 1 .. t - 1 /\ s <= n
    BY <1>1
  <2>2. outs[s] = "ok"
    BY <1>1, <2>1
  <2>3. QED
    BY <2>1, <2>2
<1>4. QED
  BY <1>1, <1>2, <1>3

(* Inserting an "ok" outcome at p moves the stop by one when it is at or
   after p, and leaves the loop's result alone. *)
LEMMA StopAtInsert ==
    ASSUME NEW n \in Nat, NEW outs, DOMAIN outs = 1 .. n, Len(outs) = n,
           NEW p \in 1 .. n + 1
    PROVE  /\ StopAt(InsertAt(outs, p, "ok")) =
                IF StopAt(outs) < p THEN StopAt(outs) ELSE StopAt(outs) + 1
           /\ LoopOutcome(InsertAt(outs, p, "ok")) = LoopOutcome(outs)
<1> DEFINE o2 == InsertAt(outs, p, "ok")
           s == StopAt(outs)
           s2 == IF s < p THEN s ELSE s + 1
<1>1. /\ s \in 1 .. n + 1
      /\ \A i \in 1 .. s - 1 : outs[i] = "ok"
      /\ s <= n => outs[s] # "ok"
  BY StopAtSpec
<1>2. DOMAIN o2 = 1 .. n + 1 /\ Len(o2) = n + 1
  BY DEF InsertAt
<1>3. s2 \in 1 .. (n + 1) + 1
  BY <1>1
<1>4. \A j \in 1 .. s2 - 1 : o2[j] = "ok"
  <2> SUFFICES ASSUME NEW j \in 1 .. s2 - 1 PROVE o2[j] = "ok"
    OBVIOUS
  <2>1. CASE j < p
    <3>1. j \in 1 .. s - 1
      BY <2>1, <1>1
    <3>2. QED
      BY <1>1, <2>1, <3>1 DEF InsertAt
  <2>2. CASE j = p
    BY <2>2, <1>1 DEF InsertAt
  <2>3. CASE j > p
    <3>1. j - 1 \in 1 .. s - 1 /\ j \in 1 .. n + 1
      BY <2>3, <1>1
    <3>2. QED
      BY <1>1, <2>3, <3>1 DEF InsertAt
  <2>4. QED
    BY <2>1, <2>2, <2>3
<1>5. s2 <= n + 1 => o2[s2] # "ok"
  <2> SUFFICES ASSUME s2 <= n + 1 PROVE o2[s2] # "ok"
    OBVIOUS
  <2>1. CASE s < p
    BY <1>1, <2>1 DEF InsertAt
  <2>2. CASE s >= p
    <3>1. s <= n /\ s2 = s + 1 /\ s + 1 > p
      BY <1>1, <2>2
    <3>2. o2[s + 1] = outs[s]
      BY <1>1, <3>1 DEF InsertAt
    <3>3. QED
      BY <1>1, <3>1, <3>2
  <2>3. QED
    BY <1>1, <2>1, <2>2
<1>6. StopAt(o2) = s2
  BY <1>2, <1>3, <1>4, <1>5, StopAtIs
<1>7. LoopOutcome(o2) = LoopOutcome(outs)
  <2>1. CASE s > n
    BY <1>1, <1>2, <1>6, <2>1 DEF LoopOutcome
  <2>2. CASE s <= n
    <3>1. s2 <= n + 1 /\ o2[s2] = outs[s]
      <4>1. CASE s < p
        BY <1>1, <2>2, <4>1 DEF InsertAt
      <4>2. CASE s >= p
        BY <1>1, <2>2, <4>2 DEF InsertAt
      <4>3. QED
        BY <1>1, <4>1, <4>2
    <3>2. QED
      BY <1>1, <1>2, <1>6, <2>2, <3>1 DEF LoopOutcome
  <2>3. QED
    BY <1>1, <2>1, <2>2
<1>8. QED
  BY <1>6, <1>7
-----------------------------------------------------------------------------
(* Key lookup: an inserted entry with another key does not change whether
   a key is present, nor, the keys being distinct, its value. *)

(* Where entry i of a dict is after an insertion at p. *)
Shift(i, p) == IF i < p THEN i ELSE i + 1

LEMMA HasKeyInsert ==
    ASSUME NEW S, NEW es \in Seq(S), NEW p \in 1 .. Len(es) + 1, NEW x, NEW k,
           x[1] # k
    PROVE  HasKey(InsertAt(es, p, x), k) = HasKey(es, k)
<1> DEFINE es2 == InsertAt(es, p, x)
<1>1. ASSUME NEW i \in DOMAIN es, es[i][1] = k PROVE HasKey(es2, k)
  <2>1. Shift(i, p) \in DOMAIN es2 /\ es2[Shift(i, p)] = es[i]
    BY DEF InsertAt, Shift
  <2>2. QED
    BY <1>1, <2>1 DEF HasKey
<1>2. ASSUME NEW j \in DOMAIN es2, es2[j][1] = k PROVE HasKey(es, k)
  <2>1. j # p
    BY <1>2 DEF InsertAt
  <2>2. CASE j < p
    BY <1>2, <2>2 DEF InsertAt, HasKey
  <2>3. CASE j > p
    <3>1. j - 1 \in DOMAIN es /\ es2[j] = es[j - 1]
      BY <2>3 DEF InsertAt
    <3>2. QED
      BY <1>2, <3>1 DEF HasKey
  <2>4. QED
    BY <2>1, <2>2, <2>3
<1>3. QED
  BY <1>1, <1>2 DEF HasKey

(* The entry Val reads for key k. *)
KeyAt(es, k) == CHOOSE j \in DOMAIN es : es[j][1] = k

(* The entry a present key names moves with the insertion. *)
LEMMA KeyIndexInsert ==
    ASSUME NEW S, NEW es \in Seq(S), UniqueKeys(es),
           NEW p \in 1 .. Len(es) + 1, NEW x, NEW k, x[1] # k, HasKey(es, k)
    PROVE  /\ KeyAt(es, k) \in DOMAIN es
           /\ es[KeyAt(es, k)][1] = k
           /\ KeyAt(InsertAt(es, p, x), k) = Shift(KeyAt(es, k), p)
           /\ InsertAt(es, p, x)[Shift(KeyAt(es, k), p)] = es[KeyAt(es, k)]
<1> DEFINE es2 == InsertAt(es, p, x)
           i == KeyAt(es, k)
<1>1. i \in DOMAIN es /\ es[i][1] = k
  BY DEF HasKey, KeyAt
<1>2. Shift(i, p) \in DOMAIN es2 /\ es2[Shift(i, p)] = es[i]
  BY <1>1 DEF InsertAt, Shift
<1>3. \A j \in DOMAIN es2 : es2[j][1] = k => j = Shift(i, p)
  <2> SUFFICES ASSUME NEW j \in DOMAIN es2, es2[j][1] = k PROVE j = Shift(i, p)
    OBVIOUS
  <2>0. j \in 1 .. Len(es) + 1 /\ i \in 1 .. Len(es)
    BY <1>1 DEF InsertAt
  <2>1. j # p
    BY DEF InsertAt
  <2>2. CASE j < p
    <3>1. j \in DOMAIN es /\ es[j][1] = k
      BY <2>2 DEF InsertAt
    <3>2. j = i
      BY <1>1, <3>1 DEF UniqueKeys
    <3>3. QED
      BY <2>0, <2>2, <3>2 DEF Shift
  <2>3. CASE j > p
    <3>1. j - 1 \in DOMAIN es /\ es[j - 1][1] = k
      BY <2>3 DEF InsertAt
    <3>2. j - 1 = i
      BY <1>1, <3>1 DEF UniqueKeys
    <3>3. Shift(j - 1, p) = j
      BY <2>0, <2>3 DEF Shift
    <3>4. QED
      BY <3>2, <3>3
  <2>4. QED
    BY <2>0, <2>1, <2>2, <2>3
<1>4. KeyAt(es2, k) = Shift(i, p)
  BY <1>1, <1>2, <1>3 DEF KeyAt
<1>5. QED
  BY <1>1, <1>2, <1>4

(* The same, one conjunct at a time. *)
LEMMA KeyShift ==
    ASSUME NEW S, NEW es \in Seq(S), UniqueKeys(es),
           NEW p \in 1 .. Len(es) + 1, NEW x, NEW k, x[1] # k, HasKey(es, k)
    PROVE  KeyAt(InsertAt(es, p, x), k) = Shift(KeyAt(es, k), p)
BY KeyIndexInsert

LEMMA KeyAtIn ==
    ASSUME NEW S, NEW es \in Seq(S), NEW k, HasKey(es, k)
    PROVE  KeyAt(es, k) \in 1 .. Len(es)
BY DEF HasKey, KeyAt

LEMMA KeyShiftVal ==
    ASSUME NEW S, NEW es \in Seq(S), NEW p \in 1 .. Len(es) + 1, NEW x,
           NEW k, HasKey(es, k)
    PROVE  InsertAt(es, p, x)[Shift(KeyAt(es, k), p)] = es[KeyAt(es, k)]
<1>1. KeyAt(es, k) \in 1 .. Len(es)
  BY KeyAtIn
<1>2. QED
  BY <1>1 DEF InsertAt, Shift

(* So the value of a present key is the same. *)
LEMMA ValInsert ==
    ASSUME NEW S, NEW es \in Seq(S), UniqueKeys(es),
           NEW p \in 1 .. Len(es) + 1, NEW x, NEW k, x[1] # k, HasKey(es, k)
    PROVE  Val(InsertAt(es, p, x), k) = Val(es, k)
<1>1. KeyAt(InsertAt(es, p, x), k) = Shift(KeyAt(es, k), p)
      /\ InsertAt(es, p, x)[Shift(KeyAt(es, k), p)] = es[KeyAt(es, k)]
  BY KeyIndexInsert
<1>2. QED
  BY <1>1 DEF Val, KeyAt

-----------------------------------------------------------------------------
(* The subcase level: __parseCaseSubcase reads of each subcase dict only
   its outcome and, when that is "ok", the value of 'result'. *)
SubEquiv(w2, w) ==
    /\ SubcaseEntryOutcome(w2) = SubcaseEntryOutcome(w)
    /\ SubcaseEntryOutcome(w) = "ok" => Val(w2.es, "result") = Val(w.es, "result")

(* A badly typed value of a handled key is found in a subcase dict. *)
SubMistyped(es) ==
    \E i \in DOMAIN es : /\ es[i][1] \in SubcaseKeys
                         /\ es[i][2].t \notin ArgTypes(es[i][1])

LEMMA SubMistypedInsert ==
    ASSUME NEW S, NEW es \in Seq(S), NEW p \in 1 .. Len(es) + 1, NEW x,
           x[1] \notin SubcaseKeys
    PROVE  SubMistyped(InsertAt(es, p, x)) = SubMistyped(es)
<1> DEFINE es2 == InsertAt(es, p, x)
<1>1. ASSUME NEW i \in DOMAIN es, es[i][1] \in SubcaseKeys,
             es[i][2].t \notin ArgTypes(es[i][1])
      PROVE  SubMistyped(es2)
  <2>1. Shift(i, p) \in DOMAIN es2 /\ es2[Shift(i, p)] = es[i]
    BY DEF InsertAt, Shift
  <2>2. QED
    BY <1>1, <2>1 DEF SubMistyped
<1>2. ASSUME NEW j \in DOMAIN es2, es2[j][1] \in SubcaseKeys,
             es2[j][2].t \notin ArgTypes(es2[j][1])
      PROVE  SubMistyped(es)
  <2>0. j \in 1 .. Len(es) + 1
    BY DEF InsertAt
  <2>1. j # p
    BY <1>2 DEF InsertAt
  <2>2. CASE j < p
    BY <1>2, <2>0, <2>2 DEF InsertAt, SubMistyped
  <2>3. CASE j > p
    <3>1. j - 1 \in DOMAIN es /\ es2[j] = es[j - 1]
      BY <2>0, <2>3 DEF InsertAt
    <3>2. QED
      BY <1>2, <3>1 DEF SubMistyped
  <2>4. QED
    BY <2>0, <2>1, <2>2, <2>3
<1>3. QED
  BY <1>1, <1>2 DEF SubMistyped

(* An unknown key inserted in a subcase dict leaves what the subcase loop
   reads of it alone. *)
LEMMA SubcaseEntryInsert ==
    ASSUME NEW S, NEW w, w.t = "obj", w.es \in Seq(S), UniqueKeys(w.es),
           NEW p \in 1 .. Len(w.es) + 1, NEW x, x[1] \notin SubcaseKeys,
           NEW w2, w2.t = "obj", w2.es = InsertAt(w.es, p, x)
    PROVE  SubEquiv(w2, w)
<1>1. SubMistyped(w2.es) = SubMistyped(w.es)
  BY SubMistypedInsert
<1>2. HasKey(w2.es, "result") = HasKey(w.es, "result")
  BY HasKeyInsert DEF SubcaseKeys
<1>3. SubcaseEntryOutcome(w2) = SubcaseEntryOutcome(w)
  BY <1>1, <1>2 DEF SubcaseEntryOutcome, SubMistyped
<1>4. SubcaseEntryOutcome(w) = "ok" => Val(w2.es, "result") = Val(w.es, "result")
  <2> SUFFICES ASSUME SubcaseEntryOutcome(w) = "ok"
               PROVE  Val(w2.es, "result") = Val(w.es, "result")
    OBVIOUS
  <2>1. HasKey(w.es, "result")
    BY DEF SubcaseEntryOutcome
  <2>2. QED
    BY <2>1, ValInsert DEF SubcaseKeys
<1>5. QED
  BY <1>3, <1>4 DEF SubEquiv

(* Two subcase lists with the same names whose dicts are read alike. *)
SubListEquiv(r2, r) ==
    /\ DOMAIN r2.es = DOMAIN r.es
    /\ \A i \in DOMAIN r.es : /\ r2.es[i][1] = r.es[i][1]
                              /\ SubEquiv(r2.es[i][2], r.es[i][2])

(* __parseCaseSubcase adds the same score and subcase list for both. *)
SameSub(r2, r) == ParseCaseSubcase(r2) = ParseCaseSubcase(r)

LEMMA SubListSame ==
    ASSUME NEW S, NEW S2, NEW r, NEW r2, r.es \in Seq(S), r2.es \in Seq(S2),
           SubListEquiv(r2, r)
    PROVE  SameSub(r2, r)
<1> DEFINE m == Len(r.es)
           outs == SubcaseOutcomes(r)
           n == StopAt(outs) - 1
<1>1. Len(r2.es) = m /\ DOMAIN r2.es = 1 .. m /\ m \in Nat
  BY DEF SubListEquiv
<1>2. SubcaseOutcomes(r2) = outs
  BY <1>1 DEF SubcaseOutcomes, SubListEquiv, SubEquiv
<1>3. DOMAIN outs = 1 .. m /\ Len(outs) = m
  BY DEF SubcaseOutcomes
<1>4. n \in 0 .. m /\ \A i \in 1 .. n : outs[i] = "ok"
  BY <1>3, StopAtPrefix
<1>5. \A i \in 1 .. n : /\ r2.es[i][1] = r.es[i][1]
                        /\ Val(r2.es[i][2].es, "result") = Val(r.es[i][2].es, "result")
  <2> SUFFICES ASSUME NEW i \in 1 .. n
               PROVE  /\ r2.es[i][1] = r.es[i][1]
                      /\ Val(r2.es[i][2].es, "result") = Val(r.es[i][2].es, "result")
    OBVIOUS
  <2>1. i \in DOMAIN r.es /\ SubcaseEntryOutcome(r.es[i][2]) = "ok"
    <3>1. i \in 1 .. m /\ outs[i] = "ok"
      BY <1>4
    <3>2. QED
      BY <3>1 DEF SubcaseOutcomes
  <2>2. r2.es[i][1] = r.es[i][1] /\ SubEquiv(r2.es[i][2], r.es[i][2])
    BY <2>1 DEF SubListEquiv
  <2>3. QED
    BY <2>1, <2>2 DEF SubEquiv
<1>6. ScoreOf(r2, n) = ScoreOf(r, n)
  BY <1>5 DEF ScoreOf
<1>7. [i \in 1 .. n |-> SubcaseRecord(r2.es[i])] = [i \in 1 .. n |-> SubcaseRecord(r.es[i])]
  BY <1>5 DEF SubcaseRecord
<1>8. (r2.es = << >>) = (r.es = << >>)
  BY <1>1
<1>9. QED
  BY <1>1, <1>2, <1>6, <1>7, <1>8 DEF ParseCaseSubcase, SameSub

-----------------------------------------------------------------------------
(* The case level: __parseTopCase reads of each case dict the outcome of
   its handlers and, when that is "ok", the case record. *)
CaseFieldOutcomes(v) == [i \in DOMAIN v.es |-> CaseFieldOutcome(v.es[i][1], v.es[i][2])]

LEMMA CaseEntryOutcomeIs ==
    ASSUME NEW v, v.t = "obj"
    PROVE  CaseEntryOutcome(v) = LoopOutcome(CaseFieldOutcomes(v))
BY DEF CaseEntryOutcome, CaseFieldOutcomes

(* The keys of the case record, all handled by _key_case. *)
RecordKeys == {"subcase", "result", "time"}

(* The case record depends on the case dict only through which of its keys
   are present and the values __parseCaseSubcase, __parseCommonResult and
   the scalar fields read of them. *)
LEMMA CaseRecordSame ==
    ASSUME NEW e, NEW e2, e2[1] = e[1],
           \A k \in RecordKeys : HasKey(e2[2].es, k) = HasKey(e[2].es, k),
           HasKey(e[2].es, "result") => Val(e2[2].es, "result") = Val(e[2].es, "result"),
           HasKey(e[2].es, "time") => Val(e2[2].es, "time") = Val(e[2].es, "time"),
           HasKey(e[2].es, "subcase") =>
             ParseCaseSubcase(Val(e2[2].es, "subcase")) = ParseCaseSubcase(Val(e[2].es, "subcase"))
    PROVE  CaseRecord(e2) = CaseRecord(e)
<1>1. /\ HasKey(e2[2].es, "subcase") = HasKey(e[2].es, "subcase")
      /\ HasKey(e2[2].es, "result") = HasKey(e[2].es, "result")
      /\ HasKey(e2[2].es, "time") = HasKey(e[2].es, "time")
  BY DEF RecordKeys
<1>2. QED
  BY <1>1 DEF CaseRecord

(* An unknown key inserted in a case dict changes neither the outcome of
   its handlers nor the case record. *)
LEMMA CaseEntryInsert ==
    ASSUME NEW S, NEW e, NEW e2, e[2].t = "obj", e[2].es \in Seq(S), UniqueKeys(e[2].es),
           NEW p \in 1 .. Len(e[2].es) + 1, NEW x, x[1] \notin CaseKeys,
           e2[1] = e[1], e2[2].t = "obj", e2[2].es = InsertAt(e[2].es, p, x)
    PROVE  /\ CaseEntryOutcome(e2[2]) = CaseEntryOutcome(e[2])
           /\ CaseRecord(e2) = CaseRecord(e)
<1> DEFINE v == e[2]
           v2 == e2[2]
           es == v.es
           fo == CaseFieldOutcomes(v)
<1>1. DOMAIN fo = 1 .. Len(es) /\ Len(fo) = Len(es)
  BY DEF CaseFieldOutcomes
<1>2. CaseFieldOutcomes(v2) = InsertAt(fo, p, "ok")
  <2>1. DOMAIN CaseFieldOutcomes(v2) = 1 .. Len(es) + 1
    BY DEF CaseFieldOutcomes, InsertAt
  <2>2. ASSUME NEW j \in 1 .. Len(es) + 1
        PROVE  CaseFieldOutcomes(v2)[j] = InsertAt(fo, p, "ok")[j]
    <3>1. CASE j < p
      <4>1. j \in 1 .. Len(es) /\ j \in DOMAIN v2.es /\ v2.es[j] = es[j]
        BY <2>2, <3>1 DEF InsertAt
      <4>2. CaseFieldOutcomes(v2)[j] = CaseFieldOutcome(es[j][1], es[j][2])
        BY <4>1 DEF CaseFieldOutcomes
      <4>3. InsertAt(fo, p, "ok")[j] = fo[j]
        BY <1>1, <4>1, <3>1 DEF InsertAt
      <4>4. fo[j] = CaseFieldOutcome(es[j][1], es[j][2])
        BY <4>1 DEF CaseFieldOutcomes
      <4>5. QED
        BY <4>2, <4>3, <4>4
    <3>2. CASE j = p
      <4>1. CaseFieldOutcome(x[1], x[2]) = "ok"
        BY DEF CaseFieldOutcome
      <4>2. QED
        BY <1>1, <2>2, <3>2, <4>1 DEF CaseFieldOutcomes, InsertAt
    <3>3. CASE j > p
      <4>1. j - 1 \in 1 .. Len(es) /\ j \in DOMAIN v2.es /\ v2.es[j] = es[j - 1]
        BY <2>2, <3>3 DEF InsertAt
      <4>2. CaseFieldOutcomes(v2)[j] = CaseFieldOutcome(es[j - 1][1], es[j - 1][2])
        BY <4>1 DEF CaseFieldOutcomes
      <4>3. InsertAt(fo, p, "ok")[j] = fo[j - 1]
        BY <1>1, <4>1, <2>2, <3>3 DEF InsertAt
      <4>4. fo[j - 1] = CaseFieldOutcome(es[j - 1][1], es[j - 1][2])
        BY <4>1 DEF CaseFieldOutcomes
      <4>5. QED
        BY <4>2, <4>3, <4>4
    <3>4. QED
      BY <3>1, <3>2, <3>3
  <2>3. DOMAIN InsertAt(fo, p, "ok") = 1 .. Len(es) + 1
    BY <1>1 DEF InsertAt
  <2>4. QED
    <3>1. CaseFieldOutcomes(v2) = [j \in 1 .. Len(es) + 1 |-> CaseFieldOutcomes(v2)[j]]
      BY <2>1 DEF CaseFieldOutcomes
    <3>2. InsertAt(fo, p, "ok") = [j \in 1 .. Len(es) + 1 |-> InsertAt(fo, p, "ok")[j]]
      BY <2>3 DEF InsertAt
    <3> HIDE DEF CaseFieldOutcomes, InsertAt
    <3>3. [j \in 1 .. Len(es) + 1 |-> CaseFieldOutcomes(v2)[j]]
          = [j \in 1 .. Len(es) + 1 |-> InsertAt(fo, p, "ok")[j]]
      BY <2>2
    <3>4. QED
      BY <3>1, <3>2, <3>3
<1>3. LoopOutcome(CaseFieldOutcomes(v2)) = LoopOutcome(fo)
  BY <1>1, <1>2, StopAtInsert
<1>4. CaseEntryOutcome(v2) = CaseEntryOutcome(v)
  BY <1>3, CaseEntryOutcomeIs
<1>5. \A k \in RecordKeys : /\ HasKey(v2.es, k) = HasKey(es, k)
                            /\ HasKey(es, k) => Val(v2.es, k) = Val(es, k)
  <2> SUFFICES ASSUME NEW k \in RecordKeys
               PROVE  /\ HasKey(v2.es, k) = HasKey(es, k)
                      /\ HasKey(es, k) => Val(v2.es, k) = Val(es, k)
    OBVIOUS
  <2>1. x[1] # k
    BY DEF RecordKeys, CaseKeys
  <2>2. QED
    BY <2>1, HasKeyInsert, ValInsert
<1>6. CaseRecord(e2) = CaseRecord(e)
  <2>1. "subcase" \in RecordKeys /\ "result" \in RecordKeys /\ "time" \in RecordKeys
    BY DEF RecordKeys
  <2>2. HasKey(es, "subcase") => Val(v2.es, "subcase") = Val(es, "subcase")
    BY <1>5, <2>1
  <2>3. HasKey(es, "result") => Val(v2.es, "result") = Val(es, "result")
    BY <1>5, <2>1
  <2>4. HasKey(es, "time") => Val(v2.es, "time") = Val(es, "time")
    BY <1>5, <2>1
  <2>5. \A k \in RecordKeys : HasKey(v2.es, k) = HasKey(es, k)
    BY <1>5
  <2>6. QED
    BY <2>2, <2>3, <2>4, <2>5, CaseRecordSame
<1>7. QED
  BY <1>4, <1>6
(* Two dicts with the same keys in the same order, whose values are equal
   except that a value under key k may be replaced by one of the same JSON
   type that the handler of k reads alike (Alike). *)
SameKeys(es2, es) ==
    /\ DOMAIN es2 = DOMAIN es
    /\ \A i \in DOMAIN es : es2[i][1] = es[i][1]

(* The entry a key names is the same in dicts with the same keys. *)
LEMMA KeyIndexSame ==
    ASSUME NEW es, NEW es2, SameKeys(es2, es), NEW k
    PROVE  /\ HasKey(es2, k) = HasKey(es, k)
           /\ (CHOOSE j \in DOMAIN es2 : es2[j][1] = k) = (CHOOSE j \in DOMAIN es : es[j][1] = k)
<1>1. \A j : (j \in DOMAIN es2 /\ es2[j][1] = k) <=> (j \in DOMAIN es /\ es[j][1] = k)
  BY DEF SameKeys
<1>2. HasKey(es2, k) = HasKey(es, k)
  BY <1>1 DEF HasKey
<1>3. QED
  BY <1>1, <1>2, Zenon

(* A case dict whose subcase list was replaced by one __parseCaseSubcase
   reads alike: the same outcome and the same case record. *)
SubcaseAlike(es2, es) ==
    /\ SameKeys(es2, es)
    /\ \A i \in DOMAIN es :
         \/ es2[i][2] = es[i][2]
         \/ /\ es[i][1] = "subcase"
            /\ es2[i][2].t = es[i][2].t
            /\ ParseCaseSubcase(es2[i][2]) = ParseCaseSubcase(es[i][2])

LEMMA CaseEntryReplace ==
    ASSUME NEW e, NEW e2, e[2].t = "obj", e2[2].t = "obj", e2[1] = e[1],
           SubcaseAlike(e2[2].es, e[2].es)
    PROVE  /\ CaseEntryOutcome(e2[2]) = CaseEntryOutcome(e[2])
           /\ CaseRecord(e2) = CaseRecord(e)
<1> DEFINE es == e[2].es
           es2 == e2[2].es
<1>1. SameKeys(es2, es)
  BY DEF SubcaseAlike
<1>2. CaseFieldOutcomes(e2[2]) = CaseFieldOutcomes(e[2])
  <2>1. ASSUME NEW i \in DOMAIN es
        PROVE  CaseFieldOutcome(es2[i][1], es2[i][2]) = CaseFieldOutcome(es[i][1], es[i][2])
    BY <1>1 DEF SubcaseAlike, SameKeys, CaseFieldOutcome
  <2>2. QED
    BY <1>1, <2>1 DEF SameKeys, CaseFieldOutcomes
<1>3. CaseEntryOutcome(e2[2]) = CaseEntryOutcome(e[2])
  BY <1>2, CaseEntryOutcomeIs
<1>4. ASSUME NEW k, k # "subcase", HasKey(es, k) PROVE Val(es2, k) = Val(es, k)
  <2> DEFINE i == CHOOSE j \in DOMAIN es : es[j][1] = k
  <2>1. i \in DOMAIN es /\ es[i][1] = k
    BY <1>4 DEF HasKey
  <2>2. (CHOOSE j \in DOMAIN es2 : es2[j][1] = k) = i
    BY <1>1, KeyIndexSame
  <2>3. es2[i][2] = es[i][2]
    BY <1>4, <2>1 DEF SubcaseAlike
  <2>4. QED
    BY <2>2, <2>3 DEF Val
<1>5. HasKey(es, "subcase") =>
        ParseCaseSubcase(Val(es2, "subcase")) = ParseCaseSubcase(Val(es, "subcase"))
  <2> SUFFICES ASSUME HasKey(es, "subcase")
               PROVE  ParseCaseSubcase(Val(es2, "subcase")) = ParseCaseSubcase(Val(es, "subcase"))
    OBVIOUS
  <2> DEFINE i == CHOOSE j \in DOMAIN es : es[j][1] = "subcase"
  <2>1. i \in DOMAIN es
    BY DEF HasKey
  <2>2. (CHOOSE j \in DOMAIN es2 : es2[j][1] = "subcase") = i
    BY <1>1, KeyIndexSame
  <2>3. ParseCaseSubcase(es2[i][2]) = ParseCaseSubcase(es[i][2])
    BY <2>1 DEF SubcaseAlike
  <2>4. QED
    BY <2>2, <2>3 DEF Val
<1>6. \A k \in RecordKeys : HasKey(es2, k) = HasKey(es, k)
  BY <1>1, KeyIndexSame
<1>7. CaseRecord(e2) = CaseRecord(e)
  BY <1>4, <1>5, <1>6, CaseRecordSame
<1>8. QED
  BY <1>3, <1>7

(* The same, stated as one atom. *)
SameCaseEntry(e2, e) ==
    CaseEntryOutcome(e2[2]) = CaseEntryOutcome(e[2]) /\ CaseRecord(e2) = CaseRecord(e)

LEMMA CaseEntryReplaceAtom ==
    ASSUME NEW e, NEW e2, e[2].t = "obj", e2[2].t = "obj", e2[1] = e[1],
           SubcaseAlike(e2[2].es, e[2].es)
    PROVE  SameCaseEntry(e2, e)
BY CaseEntryReplace DEF SameCaseEntry

LEMMA CaseEntryInsertAtom ==
    ASSUME NEW S, NEW e, NEW e2, e[2].t = "obj", e[2].es \in Seq(S), UniqueKeys(e[2].es),
           NEW p \in 1 .. Len(e[2].es) + 1, NEW x, x[1] \notin CaseKeys,
           e2[1] = e[1], e2[2].t = "obj", e2[2].es = InsertAt(e[2].es, p, x)
    PROVE  SameCaseEntry(e2, e)
BY CaseEntryInsert DEF SameCaseEntry

(* Two case lists whose dicts __parseTopCase reads alike. *)
CaseListEquiv(r2, r) ==
    /\ DOMAIN r2.es = DOMAIN r.es
    /\ \A i \in DOMAIN r.es :
         /\ CaseEntryOutcome(r2.es[i][2]) = CaseEntryOutcome(r.es[i][2])
         /\ CaseEntryOutcome(r.es[i][2]) = "ok" => CaseRecord(r2.es[i]) = CaseRecord(r.es[i])

(* __parseTopCase returns the same and leaves the same case list. *)
SameCases(r2, r) ==
    CaseOutcomes(r2) = CaseOutcomes(r) /\ ParseTopCase(r2) = ParseTopCase(r)

LEMMA CaseListSame ==
    ASSUME NEW S, NEW S2, NEW r, NEW r2, r.es \in Seq(S), r2.es \in Seq(S2),
           CaseListEquiv(r2, r)
    PROVE  SameCases(r2, r)
<1> DEFINE m == Len(r.es)
           outs == CaseOutcomes(r)
           n == StopAt(outs) - 1
<1>1. Len(r2.es) = m /\ DOMAIN r2.es = 1 .. m /\ m \in Nat
  BY DEF CaseListEquiv
<1>2. CaseOutcomes(r2) = outs
  BY <1>1 DEF CaseOutcomes, CaseListEquiv
<1>3. DOMAIN outs = 1 .. m /\ Len(outs) = m
  BY DEF CaseOutcomes
<1>4. n \in 0 .. m /\ \A i \in 1 .. n : outs[i] = "ok"
  BY <1>3, StopAtPrefix
<1>5. \A i \in 1 .. n : CaseRecord(r2.es[i]) = CaseRecord(r.es[i])
  <2> SUFFICES ASSUME NEW i \in 1 .. n PROVE CaseRecord(r2.es[i]) = CaseRecord(r.es[i])
    OBVIOUS
  <2>1. i \in 1 .. m /\ outs[i] = "ok"
    BY <1>4
  <2>2. i \in DOMAIN r.es /\ CaseEntryOutcome(r.es[i][2]) = "ok"
    BY <2>1 DEF CaseOutcomes
  <2>3. QED
    BY <2>2 DEF CaseListEquiv
<1>6. ParseTopCase(r2) = ParseTopCase(r)
  BY <1>1, <1>2, <1>5 DEF ParseTopCase
<1>7. QED
  BY <1>2, <1>6 DEF SameCases
-----------------------------------------------------------------------------
(* The top level: __parseFirstLayer and what _data_parsed keeps. *)

(* TopField as a function of whether the key is present, where and with
   which value. *)
TopFieldOf(has, i, v, k, stop) ==
    IF ~has \/ i > stop THEN None
    ELSE IF i = stop /\ v.t \notin ArgTypes(k) THEN None
    ELSE IF k = "case" THEN Some(ParseTopCase(v))
    ELSE Some(v.s)

LEMMA TopFieldIs ==
    ASSUME NEW raw, NEW k, NEW stp
    PROVE  TopField(raw, k, stp) =
             TopFieldOf(HasKey(raw.es, k), KeyAt(raw.es, k), raw.es[KeyAt(raw.es, k)][2], k, stp)
BY DEF TopField, TopFieldOf, KeyAt

(* Two reports __parseFile reads alike: on both it returns the same and
   leaves the same _data_parsed. *)
SameParse(raw2, raw) == ParseFile(raw2) = ParseFile(raw)

(* An unknown key inserted in the top-level dict, [raw EXCEPT !.es =
   InsertAt(@, p, x)]: __parseFirstLayer's handler for it does nothing, and
   __parseFile returns the same and leaves the same _data_parsed. *)
THEOREM UnknownTopKeyIgnored ==
    ASSUME NEW S, NEW raw, NEW raw2, raw.t = "obj", raw.es \in Seq(S), UniqueKeys(raw.es),
           NEW p \in 1 .. Len(raw.es) + 1, NEW x, x[1] \notin TopKeys,
           raw2.t = "obj", raw2.es = InsertAt(raw.es, p, x)
    PROVE  SameParse(raw2, raw)
<1> DEFINE outs == TopOutcomes(raw)
           top == StopAt(outs)
<1>1. DOMAIN outs = 1 .. Len(raw.es) /\ Len(outs) = Len(raw.es)
  BY DEF TopOutcomes
<1>2. TopOutcomes(raw2) = InsertAt(outs, p, "ok")
  <2>1. ASSUME NEW j \in 1 .. Len(raw.es) + 1
        PROVE  TopOutcomes(raw2)[j] = InsertAt(outs, p, "ok")[j]
    <3>1. CASE j < p
      BY <2>1, <3>1 DEF TopOutcomes, InsertAt
    <3>2. CASE j = p
      <4>1. TopEntryOutcome(x[1], x[2]) = "ok"
        BY DEF TopEntryOutcome
      <4>2. QED
        BY <1>1, <2>1, <3>2, <4>1 DEF TopOutcomes, InsertAt
    <3>3. CASE j > p
      BY <1>1, <2>1, <3>3 DEF TopOutcomes, InsertAt
    <3>4. QED
      BY <3>1, <3>2, <3>3
  <2>2. DOMAIN TopOutcomes(raw2) = 1 .. Len(raw.es) + 1
    BY DEF TopOutcomes, InsertAt
  <2>3. DOMAIN InsertAt(outs, p, "ok") = 1 .. Len(raw.es) + 1
    BY <1>1 DEF InsertAt
  <2>4. TopOutcomes(raw2) = [j \in 1 .. Len(raw.es) + 1 |-> TopOutcomes(raw2)[j]]
    BY <2>2 DEF TopOutcomes
  <2>5. InsertAt(outs, p, "ok") = [j \in 1 .. Len(raw.es) + 1 |-> InsertAt(outs, p, "ok")[j]]
    BY <2>3 DEF InsertAt
  <2>6. QED
    BY <2>1, <2>4, <2>5
<1>3. /\ StopAt(TopOutcomes(raw2)) = IF top < p THEN top ELSE top + 1
      /\ LoopOutcome(TopOutcomes(raw2)) = LoopOutcome(outs)
  BY <1>1, <1>2, StopAtInsert
<1>4. top \in Nat
  BY <1>1, StopAtSpec
<1>5. \A k \in TopKeys : TopField(raw2, k, StopAt(TopOutcomes(raw2))) = TopField(raw, k, top)
  <2> SUFFICES ASSUME NEW k \in TopKeys
               PROVE  TopField(raw2, k, StopAt(TopOutcomes(raw2))) = TopField(raw, k, top)
    OBVIOUS
  <2>1. TopField(raw2, k, IF top < p THEN top ELSE top + 1) = TopField(raw, k, top)
    <3>1. x[1] # k
      OBVIOUS
    <3>2. HasKey(raw2.es, k) = HasKey(raw.es, k)
      BY <3>1, HasKeyInsert
    <3>3. CASE ~HasKey(raw.es, k)
      BY <3>2, <3>3 DEF TopField
    <3>4. CASE HasKey(raw.es, k)
      <4>a. /\ raw.es \in Seq(S)
            /\ UniqueKeys(raw.es)
            /\ p \in 1 .. Len(raw.es) + 1
            /\ x[1] # k
            /\ HasKey(raw.es, k)
        BY <3>1, <3>4
      <4>b1. KeyAt(raw.es, k) \in 1 .. Len(raw.es)
        BY <4>a, KeyAtIn, Zenon
      <4>b2. KeyAt(InsertAt(raw.es, p, x), k) = Shift(KeyAt(raw.es, k), p)
        BY <4>a, KeyShift, Zenon
      <4>b3. InsertAt(raw.es, p, x)[Shift(KeyAt(raw.es, k), p)] = raw.es[KeyAt(raw.es, k)]
        BY <4>a, <4>b1 DEF InsertAt, Shift
      <4>1. /\ KeyAt(raw.es, k) \in 1 .. Len(raw.es)
            /\ KeyAt(raw2.es, k) = Shift(KeyAt(raw.es, k), p)
            /\ raw2.es[KeyAt(raw2.es, k)] = raw.es[KeyAt(raw.es, k)]
        BY <4>b1, <4>b2, <4>b3
      <4>2. /\ (KeyAt(raw2.es, k) > (IF top < p THEN top ELSE top + 1)) = (KeyAt(raw.es, k) > top)
            /\ (KeyAt(raw2.es, k) = (IF top < p THEN top ELSE top + 1)) = (KeyAt(raw.es, k) = top)
        BY <1>4, <4>1 DEF Shift
      <4>a1. TopField(raw2, k, IF top < p THEN top ELSE top + 1) =
               TopFieldOf(HasKey(raw2.es, k), KeyAt(raw2.es, k), raw2.es[KeyAt(raw2.es, k)][2],
                          k, IF top < p THEN top ELSE top + 1)
        BY TopFieldIs
      <4>a2. TopField(raw, k, top) =
               TopFieldOf(HasKey(raw.es, k), KeyAt(raw.es, k), raw.es[KeyAt(raw.es, k)][2], k, top)
        BY TopFieldIs
      <4>3. QED
        BY <3>2, <3>4, <4>2, <4>1, <4>a1, <4>a2 DEF TopFieldOf
    <3>5. QED
      BY <3>3, <3>4
  <2>2. QED
    BY <1>3, <2>1
<1>6. "date" \in TopKeys /\ "version" \in TopKeys /\ "case" \in TopKeys
  BY DEF TopKeys
<1>7. QED
  BY <1>3, <1>5, <1>6 DEF ParseFile, SameParse
(* A top-level dict whose "case" value was replaced by one of the same JSON
   type that __parseTopCase reads alike. *)
TopAlike(es2, es) ==
    /\ SameKeys(es2, es)
    /\ \A i \in DOMAIN es :
         \/ es2[i][2] = es[i][2]
         \/ /\ es[i][1] = "case"
            /\ es2[i][2].t = es[i][2].t
            /\ CaseOutcomes(es2[i][2]) = CaseOutcomes(es[i][2])
            /\ ParseTopCase(es2[i][2]) = ParseTopCase(es[i][2])

(* Then __parseFile returns the same and leaves the same _data_parsed. *)
LEMMA TopReplace ==
    ASSUME NEW raw, NEW raw2, raw.t = "obj", raw2.t = "obj", TopAlike(raw2.es, raw.es)
    PROVE  ParseFile(raw2) = ParseFile(raw)
<1>0. SameKeys(raw2.es, raw.es)
  BY DEF TopAlike
<1>1. TopOutcomes(raw2) = TopOutcomes(raw)
  <2>1. ASSUME NEW i \in DOMAIN raw.es
        PROVE  TopEntryOutcome(raw2.es[i][1], raw2.es[i][2])
                 = TopEntryOutcome(raw.es[i][1], raw.es[i][2])
    BY <1>0 DEF TopAlike, SameKeys, TopEntryOutcome
  <2>2. QED
    BY <1>0, <2>1 DEF SameKeys, TopOutcomes
<1>2. ASSUME NEW k \in TopKeys, NEW stp
      PROVE  TopField(raw2, k, stp) = TopField(raw, k, stp)
  <2>1. /\ HasKey(raw2.es, k) = HasKey(raw.es, k)
        /\ (CHOOSE j \in DOMAIN raw2.es : raw2.es[j][1] = k)
             = (CHOOSE j \in DOMAIN raw.es : raw.es[j][1] = k)
    BY <1>0, KeyIndexSame
  <2>2. CASE ~HasKey(raw.es, k)
    BY <2>1, <2>2 DEF TopField
  <2>3. CASE HasKey(raw.es, k)
    <3>1. KeyAt(raw.es, k) \in DOMAIN raw.es /\ raw.es[KeyAt(raw.es, k)][1] = k
      BY <2>3 DEF HasKey, KeyAt
    <3>2. \/ raw2.es[KeyAt(raw.es, k)][2] = raw.es[KeyAt(raw.es, k)][2]
          \/ /\ raw.es[KeyAt(raw.es, k)][1] = "case"
             /\ raw2.es[KeyAt(raw.es, k)][2].t = raw.es[KeyAt(raw.es, k)][2].t
             /\ ParseTopCase(raw2.es[KeyAt(raw.es, k)][2]) = ParseTopCase(raw.es[KeyAt(raw.es, k)][2])
      BY <3>1, Zenon DEF TopAlike
    <3>3. CASE raw2.es[KeyAt(raw.es, k)][2] = raw.es[KeyAt(raw.es, k)][2]
      <4>1. KeyAt(raw2.es, k) = KeyAt(raw.es, k)
        BY <2>1 DEF KeyAt
      <4>2. raw2.es[KeyAt(raw2.es, k)][2] = raw.es[KeyAt(raw.es, k)][2]
        BY <3>3, <4>1
      <4>a. TopField(raw2, k, stp) =
              TopFieldOf(HasKey(raw2.es, k), KeyAt(raw2.es, k), raw2.es[KeyAt(raw2.es, k)][2], k, stp)
        BY TopFieldIs
      <4>b. TopField(raw, k, stp) =
              TopFieldOf(HasKey(raw.es, k), KeyAt(raw.es, k), raw.es[KeyAt(raw.es, k)][2], k, stp)
        BY TopFieldIs
      <4>3. QED
        BY <2>1, <4>1, <4>2, <4>a, <4>b DEF TopFieldOf
    <3>4. CASE /\ raw.es[KeyAt(raw.es, k)][1] = "case"
               /\ raw2.es[KeyAt(raw.es, k)][2].t = raw.es[KeyAt(raw.es, k)][2].t
               /\ ParseTopCase(raw2.es[KeyAt(raw.es, k)][2]) = ParseTopCase(raw.es[KeyAt(raw.es, k)][2])
      <4>1. KeyAt(raw2.es, k) = KeyAt(raw.es, k)
        BY <2>1 DEF KeyAt
      <4>2. /\ raw2.es[KeyAt(raw2.es, k)][2].t = raw.es[KeyAt(raw.es, k)][2].t
            /\ ParseTopCase(raw2.es[KeyAt(raw2.es, k)][2]) = ParseTopCase(raw.es[KeyAt(raw.es, k)][2])
            /\ k = "case"
        BY <3>1, <3>4, <4>1
      <4>a. TopField(raw2, k, stp) =
              TopFieldOf(HasKey(raw2.es, k), KeyAt(raw2.es, k), raw2.es[KeyAt(raw2.es, k)][2], k, stp)
        BY TopFieldIs
      <4>b. TopField(raw, k, stp) =
              TopFieldOf(HasKey(raw.es, k), KeyAt(raw.es, k), raw.es[KeyAt(raw.es, k)][2], k, stp)
        BY TopFieldIs
      <4>3. QED
        BY <2>1, <4>1, <4>2, <4>a, <4>b DEF TopFieldOf
    <3>5. QED
      BY <3>2, <3>3, <3>4
  <2>4. QED
    BY <2>2, <2>3
<1>3. QED
  BY <1>1, <1>2 DEF ParseFile, TopKeys
-----------------------------------------------------------------------------
(* Down the tree: a value replaced inside a value, as [d EXCEPT !.es[j][2]
   = v] does it. *)
SetVal(es, j, v) == [i \in DOMAIN es |-> IF i = j THEN <<es[j][1], v>> ELSE es[i]]

(* Replacing a value keeps a sequence of entries a sequence. *)
LEMMA SetValSeq ==
    ASSUME NEW S, NEW es \in Seq(S), NEW j \in DOMAIN es, NEW v
    PROVE  SetVal(es, j, v) \in Seq(S \cup {<<es[j][1], v>>})
<1>1. DOMAIN es = 1 .. Len(es) /\ Len(es) \in Nat
  OBVIOUS
<1>2. SetVal(es, j, v) \in [1 .. Len(es) -> S \cup {<<es[j][1], v>>}]
  BY <1>1 DEF SetVal
<1>3. QED
  BY <1>1, <1>2

(* A case dict replaced by one with the same handler outcome and the same
   case record leaves __parseFile's result and _data_parsed alone. *)
LEMMA CaseDictReplaced ==
    ASSUME NEW S, NEW raw, raw.t = "obj",
           NEW jt \in DOMAIN raw.es, raw.es[jt][1] = "case",
           NEW cl, raw.es[jt][2] = cl, cl.t = "obj", cl.es \in Seq(S),
           NEW jc \in DOMAIN cl.es, NEW c2,
           CaseEntryOutcome(c2) = CaseEntryOutcome(cl.es[jc][2]),
           CaseRecord(<<cl.es[jc][1], c2>>) = CaseRecord(cl.es[jc]),
           NEW r2, r2.t = "obj", r2.es = SetVal(cl.es, jc, c2),
           NEW raw2, raw2.t = "obj", raw2.es = SetVal(raw.es, jt, r2)
    PROVE  SameParse(raw2, raw)
<1>1. CaseListEquiv(r2, cl)
  <2>1. DOMAIN r2.es = DOMAIN cl.es
    BY DEF SetVal
  <2>2. ASSUME NEW i \in DOMAIN cl.es
        PROVE  /\ CaseEntryOutcome(r2.es[i][2]) = CaseEntryOutcome(cl.es[i][2])
               /\ CaseRecord(r2.es[i]) = CaseRecord(cl.es[i])
    <3>1. CASE i = jc
      <4>1. r2.es[i] = <<cl.es[jc][1], c2>>
        BY <3>1 DEF SetVal
      <4>2. QED
        BY <3>1, <4>1
    <3>2. CASE i # jc
      BY <3>2 DEF SetVal
    <3>3. QED
      BY <3>1, <3>2
  <2>3. QED
    BY <2>1, <2>2 DEF CaseListEquiv
<1>2. r2.es \in Seq(S \cup {<<cl.es[jc][1], c2>>})
  <2>1. DOMAIN cl.es = 1 .. Len(cl.es) /\ Len(cl.es) \in Nat
    OBVIOUS
  <2>2. r2.es \in [1 .. Len(cl.es) -> S \cup {<<cl.es[jc][1], c2>>}]
    BY <2>1 DEF SetVal
  <2>3. QED
    BY <2>1, <2>2
<1>3. PICK S2 : r2.es \in Seq(S2)
  BY <1>2
<1>4. CaseOutcomes(r2) = CaseOutcomes(cl) /\ ParseTopCase(r2) = ParseTopCase(cl)
  <2>1. SameCases(r2, cl)
    BY <1>1, <1>3, CaseListSame, Zenon
  <2>2. QED
    BY <2>1 DEF SameCases
<1>5. TopAlike(raw2.es, raw.es)
  <2>1. SameKeys(raw2.es, raw.es)
    BY DEF SetVal, SameKeys
  <2>2. raw2.es[jt][2] = r2 /\ raw2.es[jt][1] = "case"
    BY DEF SetVal
  <2>3. \A i \in DOMAIN raw.es \ {jt} : raw2.es[i][2] = raw.es[i][2]
    BY DEF SetVal
  <2>4. QED
    BY <1>4, <2>1, <2>2, <2>3 DEF TopAlike
<1>6. QED
  BY <1>5, TopReplace DEF SameParse
(* An unknown key inserted in a case dict, [raw EXCEPT !.es[jt][2].es[jc][2].es
   = InsertAt(@, p, x)]: __parseCaseBody never reads it, and __parseFile
   returns the same and leaves the same _data_parsed. *)
THEOREM UnknownCaseKeyIgnored ==
    ASSUME NEW S, NEW raw, raw.t = "obj",
           NEW jt \in DOMAIN raw.es, raw.es[jt][1] = "case",
           NEW cl, raw.es[jt][2] = cl, cl.t = "obj", cl.es \in Seq(S),
           NEW jc \in DOMAIN cl.es, NEW c, cl.es[jc][2] = c,
           c.t = "obj", c.es \in Seq(S), UniqueKeys(c.es),
           NEW p \in 1 .. Len(c.es) + 1, NEW x, x[1] \notin CaseKeys,
           NEW c2, c2.t = "obj", c2.es = InsertAt(c.es, p, x),
           NEW r2, r2.t = "obj", r2.es = SetVal(cl.es, jc, c2),
           NEW raw2, raw2.t = "obj", raw2.es = SetVal(raw.es, jt, r2)
    PROVE  SameParse(raw2, raw)
<1> DEFINE e == cl.es[jc]
           e2 == <<cl.es[jc][1], c2>>
<1>1. e2[1] = e[1] /\ e2[2] = c2 /\ e[2] = c
  OBVIOUS
<1>2. /\ e[2].t = "obj" /\ e[2].es \in Seq(S) /\ UniqueKeys(e[2].es)
      /\ p \in 1 .. Len(e[2].es) + 1 /\ x[1] \notin CaseKeys
      /\ e2[1] = e[1] /\ e2[2].t = "obj" /\ e2[2].es = InsertAt(e[2].es, p, x)
  BY <1>1
<1>3. CaseEntryOutcome(e2[2]) = CaseEntryOutcome(e[2]) /\ CaseRecord(e2) = CaseRecord(e)
  <2>1. SameCaseEntry(e2, e)
    BY ONLY <1>2, CaseEntryInsertAtom, Zenon
  <2>2. QED
    BY <2>1 DEF SameCaseEntry
<1>4. CaseEntryOutcome(c2) = CaseEntryOutcome(cl.es[jc][2])
  BY <1>1, <1>3
<1>5. CaseRecord(<<cl.es[jc][1], c2>>) = CaseRecord(cl.es[jc])
  BY <1>3
<1>6. SameParse(raw2, raw)
  BY <1>4, <1>5, CaseDictReplaced, Zenon
<1>7. QED
  BY <1>6
(* An unknown key inserted in a subcase dict of a case entry c leaves every
   subcase list of c parsed alike by __parseCaseSubcase. *)
LEMMA SubcaseInsertAlike ==
    ASSUME NEW S, NEW c, c.t = "obj",
           NEW js \in DOMAIN c.es, c.es[js][1] = "subcase",
           NEW sl, c.es[js][2] = sl, sl.t = "obj", sl.es \in Seq(S),
           NEW q \in DOMAIN sl.es, NEW w, sl.es[q][2] = w,
           w.t = "obj", w.es \in Seq(S), UniqueKeys(w.es),
           NEW p \in 1 .. Len(w.es) + 1, NEW x, x[1] \notin SubcaseKeys,
           NEW w2, w2.t = "obj", w2.es = InsertAt(w.es, p, x),
           NEW sl2, sl2.t = "obj", sl2.es = SetVal(sl.es, q, w2),
           NEW c2, c2.t = "obj", c2.es = SetVal(c.es, js, sl2)
    PROVE  SubcaseAlike(c2.es, c.es)
<1>1. SubEquiv(w2, w)
  BY SubcaseEntryInsert, Zenon
<1>2. SubListEquiv(sl2, sl)
  <2>1. DOMAIN sl2.es = DOMAIN sl.es
    BY DEF SetVal
  <2>2. ASSUME NEW i \in DOMAIN sl.es
        PROVE  sl2.es[i][1] = sl.es[i][1] /\ SubEquiv(sl2.es[i][2], sl.es[i][2])
    <3>1. CASE i = q
      BY <1>1, <3>1 DEF SetVal
    <3>2. CASE i # q
      BY <3>2 DEF SetVal, SubEquiv
    <3>3. QED
      BY <3>1, <3>2
  <2>3. QED
    BY <2>1, <2>2 DEF SubListEquiv
<1>3. PICK S2 : sl2.es \in Seq(S2)
  <2>1. SetVal(sl.es, q, w2) \in Seq(S \cup {<<sl.es[q][1], w2>>})
    BY SetValSeq, Zenon
  <2>2. QED
    BY <2>1
<1>4. ParseCaseSubcase(sl2) = ParseCaseSubcase(sl)
  <2>1. SameSub(sl2, sl)
    BY <1>2, <1>3, SubListSame, Zenon
  <2>2. QED
    BY <2>1 DEF SameSub
<1>5. SubcaseAlike(c2.es, c.es)
  <2>1. SameKeys(c2.es, c.es)
    BY DEF SetVal, SameKeys
  <2>2. c2.es[js][2] = sl2 /\ c2.es[js][1] = "subcase"
    BY DEF SetVal
  <2>3. \A i \in DOMAIN c.es \ {js} : c2.es[i][2] = c.es[i][2]
    BY DEF SetVal
  <2>4. QED
    BY <1>4, <2>1, <2>2, <2>3 DEF SubcaseAlike
<1>6. QED
  BY <1>5

(* A case entry replaced by one whose subcase lists parse alike leaves
   __parseFile's result alone. *)
LEMMA CaseAlikeReplaced ==
    ASSUME NEW S, NEW raw, raw.t = "obj",
           NEW jt \in DOMAIN raw.es, raw.es[jt][1] = "case",
           NEW cl, raw.es[jt][2] = cl, cl.t = "obj", cl.es \in Seq(S),
           NEW jc \in DOMAIN cl.es, NEW c, cl.es[jc][2] = c, c.t = "obj",
           NEW c2, c2.t = "obj", SubcaseAlike(c2.es, c.es),
           NEW r2, r2.t = "obj", r2.es = SetVal(cl.es, jc, c2),
           NEW raw2, raw2.t = "obj", raw2.es = SetVal(raw.es, jt, r2)
    PROVE  SameParse(raw2, raw)
<1> DEFINE e == cl.es[jc]
           e2 == <<cl.es[jc][1], c2>>
<1>6. e2[1] = e[1] /\ e2[2] = c2 /\ e[2] = c
  OBVIOUS
<1>7. CaseEntryOutcome(e2[2]) = CaseEntryOutcome(e[2]) /\ CaseRecord(e2) = CaseRecord(e)
  <2>1. e[2].t = "obj" /\ e2[2].t = "obj" /\ SubcaseAlike(e2[2].es, e[2].es)
    BY <1>6
  <2>2. SameCaseEntry(e2, e)
    BY <1>6, <2>1, CaseEntryReplaceAtom, Zenon
  <2>3. QED
    BY <2>2 DEF SameCaseEntry
<1>8. SameParse(raw2, raw)
  <2>1. CaseEntryOutcome(c2) = CaseEntryOutcome(cl.es[jc][2])
    BY <1>6, <1>7
  <2>2. CaseRecord(<<cl.es[jc][1], c2>>) = CaseRecord(cl.es[jc])
    BY <1>7
  <2>3. QED
    BY <2>1, <2>2, CaseDictReplaced, Zenon
<1>9. QED
  BY <1>8

(* An unknown key inserted in a subcase dict, [raw EXCEPT !.es[jt][2].es[jc][2]
   .es[js][2].es[q][2].es = InsertAt(@, p, x)]: __parseCaseSubcase never
   reads it, and __parseFile returns the same and leaves the same
   _data_parsed. *)
THEOREM UnknownSubcaseKeyIgnored ==
    ASSUME NEW S, NEW raw, raw.t = "obj",
           NEW jt \in DOMAIN raw.es, raw.es[jt][1] = "case",
           NEW cl, raw.es[jt][2] = cl, cl.t = "obj", cl.es \in Seq(S),
           NEW jc \in DOMAIN cl.es, NEW c, cl.es[jc][2] = c, c.t = "obj",
           NEW js \in DOMAIN c.es, c.es[js][1] = "subcase",
           NEW sl, c.es[js][2] = sl, sl.t = "obj", sl.es \in Seq(S),
           NEW q \in DOMAIN sl.es, NEW w, sl.es[q][2] = w,
           w.t = "obj", w.es \in Seq(S), UniqueKeys(w.es),
           NEW p \in 1 .. Len(w.es) + 1, NEW x, x[1] \notin SubcaseKeys,
           NEW w2, w2.t = "obj", w2.es = InsertAt(w.es, p, x),
           NEW sl2, sl2.t = "obj", sl2.es = SetVal(sl.es, q, w2),
           NEW c2, c2.t = "obj", c2.es = SetVal(c.es, js, sl2),
           NEW r2, r2.t = "obj", r2.es = SetVal(cl.es, jc, c2),
           NEW raw2, raw2.t = "obj", raw2.es = SetVal(raw.es, jt, r2)
    PROVE  SameParse(raw2, raw)
<1>1. SubcaseAlike(c2.es, c.es)
  <2>1. /\ c.t = "obj" /\ js \in DOMAIN c.es /\ c.es[js][1] = "subcase"
        /\ c.es[js][2] = sl /\ sl.t = "obj" /\ sl.es \in Seq(S)
        /\ q \in DOMAIN sl.es /\ sl.es[q][2] = w
        /\ w.t = "obj" /\ w.es \in Seq(S) /\ UniqueKeys(w.es)
        /\ p \in 1 .. Len(w.es) + 1 /\ x[1] \notin SubcaseKeys
        /\ w2.t = "obj" /\ w2.es = InsertAt(w.es, p, x)
        /\ sl2.t = "obj" /\ sl2.es = SetVal(sl.es, q, w2)
        /\ c2.t = "obj" /\ c2.es = SetVal(c.es, js, sl2)
    OBVIOUS
  <2>2. QED
    BY ONLY <2>1, SubcaseInsertAlike, ZenonT(90)
<1>2. /\ raw.t = "obj" /\ jt \in DOMAIN raw.es /\ raw.es[jt][1] = "case" /\ raw.es[jt][2] = cl
      /\ cl.t = "obj" /\ cl.es \in Seq(S) /\ jc \in DOMAIN cl.es /\ cl.es[jc][2] = c
      /\ c.t = "obj" /\ c2.t = "obj"
      /\ r2.t = "obj" /\ r2.es = SetVal(cl.es, jc, c2)
      /\ raw2.t = "obj" /\ raw2.es = SetVal(raw.es, jt, r2)
  OBVIOUS
<1>3. QED
  BY ONLY <1>1, <1>2, CaseAlikeReplaced, ZenonT(90)
=============================================================================
