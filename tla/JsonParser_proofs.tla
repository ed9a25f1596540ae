-------------------------- MODULE JsonParser_proofs --------------------------
(***************************************************************************)
(* Proofs about the JsonParser model: its type invariant, that it          *)
(* implements the abstract ReportService, and that the memo of __checkFile *)
(* never makes parse() skip a file whose current report differs from the   *)
(* one last emitted (RequestServesCurrentFile), provided every write moves *)
(* the modification time.  The parse itself (ParseFile) is never expanded: *)
(* the arguments only need that what is stored is the parse of the file    *)
(* read.                                                                   *)
(***************************************************************************)
EXTENDS JsonParser, TLAPS

(* The memo is a file that __checkFile accepted, recorded no later than its
   present modification time; the parse slot is only entered by a program
   that has not aborted. *)
MemoSound ==
    /\ pc = "reading" => hasRecord /\ ~crashed
    /\ hasRecord => /\ filePath \in RegularFiles \cap JsonFiles
                    /\ fileMtime <= mtime[filePath]

(* The last request for a JSON file left that file in the memo, with the
   modification time it had when it was checked. *)
RequestRecorded ==
    reqFile \in RegularFiles \cap JsonFiles =>
        /\ hasRecord
        /\ filePath = reqFile
        /\ fileMtime = reqMtime

(* Outside the parse slot, a memo that still matches its file holds the
   report that file gives, whenever that report parses. *)
MemoCurrent ==
    LET r == ParseFile(content[filePath])
    IN  /\ pc = "idle"
        /\ ~crashed
        /\ hasRecord
        /\ fileMtime = mtime[filePath]
        /\ r.ret = "ok"
        => emitted = r.data

TypeInv == TypeOK /\ MemoSound
IInv == TypeInv /\ RequestRecorded /\ MemoCurrent

(* Every write of the test runner changes the mtime that getmtime reads. *)
StrictClock == 0 \notin WriteTicks

(* TypeOK in two parts: the flags, which Zenon handles, and the data. *)
FlagsTypeOK == hasRecord \in BOOLEAN /\ crashed \in BOOLEAN
DataTypeOK ==
    /\ content \in [RegularFiles -> Docs]
    /\ mtime \in [RegularFiles -> 0 .. MaxMtime]
    /\ filePath \in Files \cup {NoFile}
    /\ fileMtime \in 0 .. MaxMtime
    /\ dataParsed \in {NoData} \cup {ParseFile(d).data : d \in Docs}
    /\ pc \in {"idle", "reading"}
    /\ emitted \in {NoData} \cup {ParseFile(d).data : d \in Docs}
    /\ reqFile \in Files \cup {NoFile}
    /\ reqMtime \in 0 .. MaxMtime

LEMMA TypeOKParts == TypeOK <=> FlagsTypeOK /\ DataTypeOK
BY Zenon DEF TypeOK, FlagsTypeOK, DataTypeOK

-----------------------------------------------------------------------------
(* The initial state: nothing recorded, nothing requested. *)
LEMMA InitIInv == Init => IInv
<1> SUFFICES ASSUME Init PROVE IInv
  OBVIOUS
<1>1. FlagsTypeOK
  BY Zenon DEF Init, ParserInit, FlagsTypeOK
<1>2. DataTypeOK
  BY FilesAssumption DEF Init, ParserInit, DataTypeOK
<1>3. MemoSound /\ MemoCurrent
  BY Zenon DEF Init, ParserInit, MemoSound, MemoCurrent
<1>4. RequestRecorded
  BY FilesAssumption DEF Init, ParserInit, RequestRecorded
<1>5. QED
  BY <1>1, <1>2, <1>3, <1>4, TypeOKParts DEF IInv, TypeInv

(* CheckFile(f): a refusal or a skip leaves the memo as it is and can only
   request a file the memo matches; a new record enters the parse slot. *)
LEMMA CheckFileTypeInv ==
    ASSUME TypeInv, NEW f \in Files, CheckFile(f)
    PROVE  TypeInv'
<1> USE FilesAssumption
<1>0. FlagsTypeOK /\ DataTypeOK
  BY TypeOKParts DEF TypeInv
<1>1. FlagsTypeOK'
  <2>1. hasRecord' \in {TRUE, hasRecord} /\ crashed' = crashed
    BY DEF CheckFile, RecordFile
  <2>2. QED
    BY <1>0, <2>1, Zenon DEF FlagsTypeOK
<1>2. DataTypeOK'
  BY <1>0 DEF DataTypeOK, CheckFile, RecordFile, fs
<1>3. MemoSound'
  BY <1>0 DEF TypeInv, DataTypeOK, MemoSound, CheckFile, RecordFile, fs
<1>4. QED
  BY <1>1, <1>2, <1>3, Zenon DEF TypeInv, TypeOK, FlagsTypeOK, DataTypeOK

LEMMA CheckFileIInv ==
    ASSUME IInv, NEW f \in Files, CheckFile(f)
    PROVE  (RequestRecorded /\ MemoCurrent)'
<1> USE FilesAssumption
<1>0. DataTypeOK
  BY TypeOKParts DEF IInv, TypeInv
<1>1. RequestRecorded'
  BY <1>0 DEF IInv, DataTypeOK, RequestRecorded, CheckFile, RecordFile,
              IsRecorded
<1>2. MemoCurrent'
  BY DEF IInv, MemoCurrent, CheckFile, RecordFile, fs
<1>3. QED
  BY <1>1, <1>2

(* ReadFile stores and, on success, emits the parse of the recorded file
   as it is now. *)
LEMMA ReadFileTypeInv ==
    ASSUME TypeInv, ReadFile
    PROVE  TypeInv'
<1> USE FilesAssumption
<1>0. FlagsTypeOK /\ DataTypeOK
  BY TypeOKParts DEF TypeInv
<1>1. filePath \in RegularFiles /\ content[filePath] \in Docs
  BY <1>0 DEF TypeInv, DataTypeOK, MemoSound, ReadFile
<1>2. FlagsTypeOK'
  BY <1>0, Zenon DEF FlagsTypeOK, ReadFile
<1>3. DataTypeOK'
  BY <1>0, <1>1 DEF DataTypeOK, ReadFile, fs
<1>4. MemoSound'
  BY DEF TypeInv, MemoSound, ReadFile, fs
<1>5. QED
  BY <1>2, <1>3, <1>4, Zenon DEF TypeInv, TypeOK, FlagsTypeOK, DataTypeOK

(* When the file is unchanged since the record, the report ReadFile emits
   is the one MemoCurrent asks for. *)
LEMMA ReadFileIInv ==
    ASSUME IInv, ReadFile
    PROVE  (RequestRecorded /\ MemoCurrent)'
<1>1. RequestRecorded'
  BY DEF IInv, RequestRecorded, ReadFile
<1>2. MemoCurrent'
  BY DEF IInv, MemoCurrent, ReadFile, fs
<1>3. QED
  BY <1>1, <1>2

(* WriteFile(f, d, dt) keeps every type and never moves an mtime back. *)
LEMMA WriteFileTypeInv ==
    ASSUME TypeInv, NEW f \in RegularFiles, NEW d \in Docs,
           NEW dt \in WriteTicks, WriteFile(f, d, dt)
    PROVE  TypeInv'
<1> USE FilesAssumption
<1>0. FlagsTypeOK /\ DataTypeOK
  BY TypeOKParts DEF TypeInv
<1>1. FlagsTypeOK'
  BY <1>0, Zenon DEF FlagsTypeOK, WriteFile, parser
<1>2. DataTypeOK'
  BY <1>0 DEF DataTypeOK, WriteFile, parser
<1>3. MemoSound'
  BY <1>0 DEF TypeInv, DataTypeOK, MemoSound, WriteFile, parser
<1>4. QED
  BY <1>1, <1>2, <1>3, Zenon DEF TypeInv, TypeOK, FlagsTypeOK, DataTypeOK

(* With a clock that moves on every write, the mtime of the written file
   passes any record of it, so a memo of it no longer matches. *)
LEMMA WriteFileIInv ==
    ASSUME IInv, StrictClock, NEW f \in RegularFiles, NEW d \in Docs,
           NEW dt \in WriteTicks, WriteFile(f, d, dt)
    PROVE  (RequestRecorded /\ MemoCurrent)'
<1> USE FilesAssumption
<1>0. DataTypeOK /\ dt > 0
  BY TypeOKParts DEF IInv, TypeInv, StrictClock
<1>1. RequestRecorded'
  BY DEF IInv, RequestRecorded, WriteFile, parser
<1>2. MemoCurrent'
  <2>1. CASE f = filePath
    BY <1>0, <2>1 DEF IInv, TypeInv, DataTypeOK, MemoSound, MemoCurrent,
                      WriteFile, parser
  <2>2. CASE f # filePath
    BY <1>0, <2>2 DEF IInv, DataTypeOK, MemoCurrent, WriteFile, parser
  <2>3. QED
    BY <2>1, <2>2
<1>3. QED
  BY <1>1, <1>2

(* Restart: a new parser, nothing recorded or requested. *)
LEMMA RestartTypeInv ==
    ASSUME TypeInv, Restart
    PROVE  TypeInv'
<1>0. DataTypeOK
  BY TypeOKParts DEF TypeInv
<1>1. FlagsTypeOK'
  BY Zenon DEF FlagsTypeOK, Restart
<1>2. DataTypeOK'
  BY <1>0, FilesAssumption DEF DataTypeOK, Restart, fs
<1>3. MemoSound'
  BY Zenon DEF Restart, MemoSound
<1>4. QED
  BY <1>1, <1>2, <1>3, Zenon DEF TypeInv, TypeOK, FlagsTypeOK, DataTypeOK

LEMMA RestartIInv ==
    ASSUME IInv, Restart
    PROVE  (RequestRecorded /\ MemoCurrent)'
<1>1. MemoCurrent'
  BY Zenon DEF Restart, MemoCurrent
<1>2. RequestRecorded'
  BY FilesAssumption DEF Restart, RequestRecorded
<1>3. QED
  BY <1>1, <1>2

(* A stuttering step changes none of the variables. *)
LEMMA StutterIInv ==
    ASSUME UNCHANGED vars
    PROVE  (TypeInv => TypeInv') /\ (IInv => IInv')
BY DEF vars, fs, parser, IInv, TypeInv, TypeOK, MemoSound, RequestRecorded,
       MemoCurrent

-----------------------------------------------------------------------------
(* TypeInv is inductive, whatever the clock does. *)
LEMMA NextTypeInv == TypeInv /\ [Next]_vars => TypeInv'
<1> SUFFICES ASSUME TypeInv, [Next]_vars PROVE TypeInv'
  OBVIOUS
<1>1. CASE \E f \in Files : CheckFile(f)
  BY <1>1, CheckFileTypeInv
<1>2. CASE ReadFile
  BY <1>2, ReadFileTypeInv
<1>3. CASE \E f \in RegularFiles, d \in Docs, dt \in WriteTicks :
             WriteFile(f, d, dt)
  BY <1>3, WriteFileTypeInv
<1>4. CASE Restart
  BY <1>4, RestartTypeInv
<1>5. CASE UNCHANGED vars
  BY <1>5, StutterIInv
<1>6. QED
  BY <1>1, <1>2, <1>3, <1>4, <1>5 DEF Next

(* IInv is inductive when every write moves the mtime. *)
LEMMA NextIInv ==
    ASSUME StrictClock
    PROVE  IInv /\ [Next]_vars => IInv'
<1> SUFFICES ASSUME IInv, [Next]_vars PROVE IInv'
  OBVIOUS
<1>0. TypeInv'
  BY NextTypeInv DEF IInv
<1>1. CASE \E f \in Files : CheckFile(f)
  BY <1>0, <1>1, CheckFileIInv DEF IInv
<1>2. CASE ReadFile
  BY <1>0, <1>2, ReadFileIInv DEF IInv
<1>3. CASE \E f \in RegularFiles, d \in Docs, dt \in WriteTicks :
             WriteFile(f, d, dt)
  BY <1>0, <1>3, WriteFileIInv, StrictClock DEF IInv
<1>4. CASE Restart
  BY <1>0, <1>4, RestartIInv DEF IInv
<1>5. CASE UNCHANGED vars
  BY <1>5, StutterIInv
<1>6. QED
  BY <1>1, <1>2, <1>3, <1>4, <1>5 DEF Next

LEMMA SpecTypeInv == Spec => []TypeInv
BY InitIInv, NextTypeInv, PTL DEF Spec, IInv

(* Type correctness: every variable of the parser and of the file system
   keeps its type, whatever files, contents, bounds and clock are chosen. *)
THEOREM TypeCorrect == Spec => []TypeOK
BY SpecTypeInv, PTL DEF TypeInv

(* The memo of __checkFile (path and modification time, recorded before
   the parse) never makes parse(f) skip a JSON file whose report is not
   the one last emitted: for every set of files, contents and bound on the
   modification time, RequestServesCurrentFile always holds, as long as
   every write of the report file changes its modification time. *)
THEOREM RequestServed ==
    ASSUME StrictClock
    PROVE  Spec => []RequestServesCurrentFile
<1>1. IInv => RequestServesCurrentFile
  BY TypeOKParts DEF IInv, TypeInv, DataTypeOK, RequestRecorded, MemoCurrent,
                     RequestServesCurrentFile
<1>2. Spec => []IInv
  BY InitIInv, NextIInv, PTL DEF Spec
<1>3. QED
  BY <1>1, <1>2, PTL

(* A skip of __checkFile is a step from an IInv state: the file is the
   recorded one with its recorded mtime, so MemoCurrent applies to it. *)
LEMMA SkipStepCurrent ==
    ASSUME IInv, NEW f \in RegularFiles \cap JsonFiles, CheckFile(f),
           pc' = "idle", ParseFile(content[f]).ret = "ok"
    PROVE  emitted = ParseFile(content[f]).data
<1>1. IsRecorded(f)
  BY DEF CheckFile
<1>2. pc = "idle" /\ ~crashed
  BY DEF CheckFile
<1>3. QED
  BY <1>1, <1>2 DEF IInv, MemoCurrent, IsRecorded

(* The skip in __checkFile is harmless: for every set of files, contents
   and bound on the modification time, each time parse(f) skips a JSON
   file whose content parses, the report last handed to parsingFinished is
   that content's report - as long as every write of the report file
   changes its modification time.  The parser_coarse run shows the action
   property failing when a write may leave the mtime as it was. *)
THEOREM SkipServed ==
    ASSUME StrictClock
    PROVE  Spec => SkippedRequestIsCurrent
<1>1. Spec => []IInv
  BY InitIInv, NextIInv, PTL DEF Spec
<1>2. IInv => [\A f \in RegularFiles \cap JsonFiles :
                   /\ CheckFile(f)
                   /\ pc' = "idle"
                   /\ ParseFile(content[f]).ret = "ok"
                   => emitted = ParseFile(content[f]).data]_vars
  BY SkipStepCurrent
<1>3. QED
  BY <1>1, <1>2, PTL DEF SkippedRequestIsCurrent

-----------------------------------------------------------------------------
(* The refinement: a ReadFile step is Service!Serve(filePath), which needs
   the memo to name a regular JSON file and the program not to have
   aborted inside the slot; CheckFile is a stutter of the service. *)
LEMMA InitRefines == Init => Service!Init
BY DEF Init, ParserInit, Service!Init

LEMMA ReadFileRefines ==
    ASSUME TypeInv, ReadFile
    PROVE  Service!Serve(filePath)
<1>1. filePath \in RegularFiles \cap JsonFiles /\ ~crashed
  BY DEF TypeInv, MemoSound, ReadFile
<1>2. QED
  BY <1>1 DEF ReadFile, Service!Serve, fs

LEMMA NextRefines ==
    TypeInv /\ [Next]_vars => [Service!Next]_(Service!svars)
<1> SUFFICES ASSUME TypeInv, [Next]_vars
             PROVE  [Service!Next]_(Service!svars)
  OBVIOUS
<1>1. CASE \E f \in Files : CheckFile(f)
  BY <1>1 DEF CheckFile, Service!svars, fs
<1>2. CASE ReadFile
  <2>1. filePath \in RegularFiles
    BY <1>2 DEF TypeInv, MemoSound, ReadFile
  <2>2. QED
    BY <1>2, <2>1, ReadFileRefines DEF Service!Next
<1>3. CASE \E f \in RegularFiles, d \in Docs, dt \in WriteTicks :
             WriteFile(f, d, dt)
  BY <1>3 DEF WriteFile, Service!Next, Service!Write, parser
<1>4. CASE Restart
  BY <1>4 DEF Restart, Service!Next, Service!Restart, fs
<1>5. CASE UNCHANGED vars
  BY <1>5 DEF vars, fs, parser, Service!svars
<1>6. QED
  BY <1>1, <1>2, <1>3, <1>4, <1>5 DEF Next

(* The parser, with its mtime memo and its parse slot split around a
   concurrent writer, implements the abstract report service: everything
   it shows, and every abort, is what an atomic service answering requests
   from the files' current contents could produce. *)
THEOREM Refinement == Spec => ImplementsService
<1>1. Spec => []TypeInv
  BY SpecTypeInv
<1>2. QED
  BY <1>1, InitRefines, NextRefines, PTL DEF Spec, ImplementsService,
                                             Service!Spec
=============================================================================
