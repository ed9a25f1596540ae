---------------------------- MODULE MCJsonParser ----------------------------
(* JsonParser on three paths and six report contents, chosen so that each
   way a parse can end happens: success, return False with a partial
   _data_parsed, and an exception. *)
EXTENDS JsonParser, MCReports

MCFiles == {"r.json", "s.json", "r.txt"}
MCRegularFiles == {"r.json", "r.txt"}
MCJsonFiles == {"r.json", "s.json"}
MCDocs == {GoodA, GoodB, BadEntry, JArr, NoResult, Garbage}
=============================================================================
