---------------------------- MODULE MCReportPage ----------------------------
(* The report page on one report file, whose content the test runner may
   replace twice, with up to three reports rendered between restarts. *)
EXTENDS ReportPage, MCReports

MCFiles == {"r.json"}
MCDocs == {GoodA, GoodB, GoodC, NoDate, NoCases, BadEntry, NoResult}
(* A good report and a file the runner leaves holding a JSON array. *)
MCDocsArray == {GoodA, JArr}
=============================================================================
