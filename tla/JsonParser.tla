----------------------------- MODULE JsonParser -----------------------------
(***************************************************************************)
(* The JsonParser object of scripts/python/nvmetool.py and the report files *)
(* it reads.                                                               *)
(*                                                                         *)
(* parse(file) runs on the GUI thread: __checkFile decides, from the       *)
(* single-slot memo (_file_path, _file_mtime), whether to parse; if so     *)
(* __parseFile clears _data_parsed, reads and traverses the file, and on   *)
(* success emits parsingFinished.  Nothing else of the program runs        *)
(* between the two, but the report file belongs to the external test      *)
(* runner, which may rewrite it at any moment: the slot is split into      *)
(* CheckFile and ReadFile so that a write can fall between them.  An       *)
(* exception escaping the slot (json.load, @check, a KeyError) reaches     *)
(* PyQt5, which aborts the program; the user may then start it again.      *)
(***************************************************************************)
EXTENDS ReportFormat

CONSTANTS
    Files,        \* paths the user may type
    RegularFiles, \* those that exist as regular files (os.path.isfile)
    JsonFiles,    \* those whose extension is '.json'
    Docs,         \* the contents a report file may hold
    MaxMtime,     \* bound on the modification time of a file
    WriteTicks,   \* how far a write moves the mtime os.path.getmtime reads
    NoFile        \* no path recorded or requested yet

ASSUME FilesAssumption ==
    /\ RegularFiles \subseteq Files
    /\ JsonFiles \subseteq Files
    /\ MaxMtime \in Nat
    /\ WriteTicks \subseteq Nat
    /\ NoFile \notin Files

VARIABLES
    content,    \* the file system: what each file holds ...
    mtime,      \* ... and its modification time (os.path.getmtime)
    hasRecord,  \* '_file_path' in vars(self)
    filePath,   \* self._file_path
    fileMtime,  \* self._file_mtime
    dataParsed, \* self._data_parsed (NoData when it does not exist)
    pc,         \* "idle", or "reading" between __checkFile and __parseFile
    crashed,    \* an exception escaped the slot: the program has aborted
    emitted,    \* the report handed to parsingFinished most recently
    reqFile,    \* history: the file of the last parse request ...
    reqMtime    \* ... and its modification time when it was checked

fs == <<content, mtime>>
parser == <<hasRecord, filePath, fileMtime, dataParsed, pc, crashed, emitted>>
vars == <<fs, parser, reqFile, reqMtime>>

TypeOK ==
    /\ content \in [RegularFiles -> Docs]
    /\ mtime \in [RegularFiles -> 0 .. MaxMtime]
    /\ hasRecord \in BOOLEAN
    /\ filePath \in Files \cup {NoFile}
    /\ fileMtime \in 0 .. MaxMtime
    /\ dataParsed \in {NoData} \cup {ParseFile(d).data : d \in Docs}
    /\ pc \in {"idle", "reading"}
    /\ crashed \in BOOLEAN
    /\ emitted \in {NoData} \cup {ParseFile(d).data : d \in Docs}
    /\ reqFile \in Files \cup {NoFile}
    /\ reqMtime \in 0 .. MaxMtime

(* The program starts: JsonParser() is built with no file, so nothing is
   recorded or parsed.  Files already hold some content. *)
ParserInit ==
    /\ hasRecord = FALSE
    /\ filePath = NoFile
    /\ fileMtime = 0
    /\ dataParsed = NoData
    /\ pc = "idle"
    /\ crashed = FALSE
    /\ emitted = NoData
    /\ reqFile = NoFile
    /\ reqMtime = 0

Init ==
    /\ content \in [RegularFiles -> Docs]
    /\ mtime = [f \in RegularFiles |-> 0]
    /\ ParserInit

-----------------------------------------------------------------------------
(* __recordFile: remember the path and its current modification time. *)
RecordFile(f) ==
    /\ hasRecord' = TRUE
    /\ filePath' = f
    /\ fileMtime' = mtime[f]

(* Mutant: the memo compares the path only, not the modification time. *)
IsRecordedPathOnly(f) == hasRecord /\ filePath = f

(* The memo matches: the path is the recorded one and its modification
   time has not changed since it was recorded. *)
IsRecorded(f) == hasRecord /\ filePath = f /\ fileMtime = mtime[f]

(* parse(file), first half: __checkFile.  A missing or non-JSON file is
   refused; a file equal in path and mtime to the memo is skipped; any
   other is recorded and goes on to __parseFile. *)
CheckFile(f) ==
    /\ pc = "idle"
    /\ ~crashed
    /\ reqFile' = f
    /\ reqMtime' = IF f \in RegularFiles THEN mtime[f] ELSE 0
    /\ IF /\ f \in RegularFiles
          /\ f \in JsonFiles
          /\ ~IsRecorded(f)
       THEN /\ RecordFile(f)
            /\ pc' = "reading"
       ELSE UNCHANGED <<hasRecord, filePath, fileMtime, pc>>
    /\ UNCHANGED <<fs, dataParsed, crashed, emitted>>

(* Mutant: the decoded JSON is kept as _data_parsed, untraversed. *)
ReadFileUnparsed ==
    /\ pc = "reading"
    /\ LET r == ParseFile(content[filePath])
       IN /\ dataParsed' = content[filePath]
          /\ crashed' = (r.ret = "raise")
          /\ emitted' = IF r.ret = "ok" THEN r.data ELSE emitted
    /\ pc' = "idle"
    /\ UNCHANGED <<fs, hasRecord, filePath, fileMtime, reqFile, reqMtime>>

(* Mutant: parsingFinished is emitted whatever __parseFile returned. *)
ReadFileEmitAlways ==
    /\ pc = "reading"
    /\ LET r == ParseFile(content[filePath])
       IN /\ dataParsed' = r.data
          /\ crashed' = (r.ret = "raise")
          /\ emitted' = IF r.ret = "raise" THEN emitted ELSE r.data
    /\ pc' = "idle"
    /\ UNCHANGED <<fs, hasRecord, filePath, fileMtime, reqFile, reqMtime>>

(* parse(file), second half: __parseFile reads self._file_path as it is
   now; an exception aborts the program, True emits parsingFinished. *)
ReadFile ==
    /\ pc = "reading"
    /\ LET r == ParseFile(content[filePath])
       IN /\ dataParsed' = r.data
          /\ crashed' = (r.ret = "raise")
          /\ emitted' = IF r.ret = "ok" THEN r.data ELSE emitted
    /\ pc' = "idle"
    /\ UNCHANGED <<fs, hasRecord, filePath, fileMtime, reqFile, reqMtime>>

(* The test runner rewrites an existing report file; its modification time
   moves on by dt, which is 0 when the write falls within the same
   timestamp granule of the file system as the previous one. *)
WriteFile(f, d, dt) ==
    /\ mtime[f] + dt <= MaxMtime
    /\ content' = [content EXCEPT ![f] = d]
    /\ mtime' = [mtime EXCEPT ![f] = @ + dt]
    /\ UNCHANGED <<parser, reqFile, reqMtime>>

(* The program is started again, after an abort or after the user closed
   it (never inside the parse slot): a new JsonParser with nothing
   recorded; the files are as they were. *)
Restart ==
    /\ pc = "idle"
    /\ hasRecord' = FALSE
    /\ filePath' = NoFile
    /\ fileMtime' = 0
    /\ dataParsed' = NoData
    /\ pc' = "idle"
    /\ crashed' = FALSE
    /\ emitted' = NoData
    /\ reqFile' = NoFile
    /\ reqMtime' = 0
    /\ UNCHANGED fs

Next ==
    \/ \E f \in Files : CheckFile(f)
    \/ ReadFile
    \/ \E f \in RegularFiles, d \in Docs, dt \in WriteTicks : WriteFile(f, d, dt)
    \/ Restart

Spec == Init /\ [][Next]_vars

-----------------------------------------------------------------------------
(* A request served: once parse(f) has returned for a JSON file that has
   not changed since it was checked and that parses successfully, the last
   report handed to parsingFinished is that file's report.  This is what
   the skip in __checkFile must preserve: a skip may only happen when the
   report already emitted is the one the file would give now. *)
RequestServesCurrentFile ==
    LET r == ParseFile(content[reqFile])
    IN  /\ pc = "idle"
        /\ ~crashed
        /\ reqFile \in RegularFiles \cap JsonFiles
        /\ mtime[reqFile] = reqMtime
        /\ r.ret = "ok"
        => emitted = r.data

(* The parser implements the service the page relies on: with the memo
   and the parse split around a concurrent writer, what is shown and when
   the program aborts is what an atomic, memo-less service could produce.
   CheckFile is a stutter of the service (or a dropped request), ReadFile
   serves filePath, and the report shown is the one last emitted. *)
Service == INSTANCE ReportService
    WITH shown <- emitted, aborted <- crashed, Parse <- ParseFile, NoReport <- NoData
ImplementsService == Service!Spec

(* A skip is harmless (spec section 4.4: on an unchanged path and
   modification time "the previously produced ParsedReport remains valid"):
   whenever __checkFile skips a JSON file whose content parses, the report
   last handed to parsingFinished is that content's report. *)
SkippedRequestIsCurrent ==
    [][ \A f \in RegularFiles \cap JsonFiles :
          /\ CheckFile(f)
          /\ pc' = "idle"
          /\ ParseFile(content[f]).ret = "ok"
          => emitted = ParseFile(content[f]).data ]_vars
=============================================================================
