---------------------------- MODULE ReportService ----------------------------
(***************************************************************************)
(* What the parser promises the report page (spec sections 2, 4.4 and 7),  *)
(* with no memo and no parse slot: at any moment a JSON report file may be *)
(* served atomically.  Serving replaces the shown report by the file's     *)
(* current report when it parses, keeps it when the parse fails, and       *)
(* aborts the program when the parse raises.  A request may also be        *)
(* dropped, which is a step that changes nothing.  The parse itself is a  *)
(* parameter: Parse(d) is the outcome and the data of parsing document d,  *)
(* and NoReport the data of no report at all.                              *)
(***************************************************************************)
EXTENDS Naturals

CONSTANTS RegularFiles, JsonFiles, Docs, MaxMtime, WriteTicks,
          Parse(_), NoReport

VARIABLES
    content, \* what each report file holds
    mtime,   \* and its modification time
    shown,   \* the report last handed to the page
    aborted  \* the program has aborted

svars == <<content, mtime, shown, aborted>>

Init ==
    /\ content \in [RegularFiles -> Docs]
    /\ mtime = [f \in RegularFiles |-> 0]
    /\ shown = NoReport
    /\ aborted = FALSE

(* One request for file f, answered from its content now. *)
Serve(f) ==
    /\ ~aborted
    /\ f \in RegularFiles \cap JsonFiles
    /\ LET r == Parse(content[f])
       IN /\ shown' = IF r.ret = "ok" THEN r.data ELSE shown
          /\ aborted' = (r.ret = "raise")
    /\ UNCHANGED <<content, mtime>>

(* The test runner rewrites a report file. *)
Write(f, d, dt) ==
    /\ mtime[f] + dt <= MaxMtime
    /\ content' = [content EXCEPT ![f] = d]
    /\ mtime' = [mtime EXCEPT ![f] = @ + dt]
    /\ UNCHANGED <<shown, aborted>>

(* The program starts again with nothing shown. *)
Restart ==
    /\ shown' = NoReport
    /\ aborted' = FALSE
    /\ UNCHANGED <<content, mtime>>

Next ==
    \/ \E f \in RegularFiles : Serve(f)
    \/ \E f \in RegularFiles, d \in Docs, dt \in WriteTicks : Write(f, d, dt)
    \/ Restart

Spec == Init /\ [][Next]_svars
=============================================================================
