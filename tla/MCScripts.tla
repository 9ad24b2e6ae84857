----------------------------- MODULE MCScripts -----------------------------
(***************************************************************************)
(* The scripts that work on results of the binaries: merge_runs.py and      *)
(* compare_runs.py on documents, bench_pr.py and insert_map.py on a work    *)
(* directory.  The two pairs share no state, so that a behaviour of both is *)
(* one of each, and it is enough to let one pair move while the other has   *)
(* not begun.                                                              *)
(***************************************************************************)
EXTENDS PrWorkdir, MCReports

\* No document has been written; no script been called and nothing pushed.
NoDocument == merging = "measure" /\ docs = <<>>
NoCall     == calls = 0 /\ upstream.develop = 0 /\ upstream.pull[2] = 1

\* Both have the directory and the documents before them.
ScriptsInit == Init /\ ReportsInit

\* Either pair goes through all of its behaviours.
ScriptsNext ==
  \/ NoDocument /\ Next /\ UNCHANGED reportsVars
  \/ NoCall /\ ReportsNext /\ UNCHANGED vars

ScriptsSpec == ScriptsInit /\ [][ScriptsNext]_<<vars, reportsVars>>
=============================================================================
