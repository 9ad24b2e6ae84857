------------------------------- MODULE Reports -------------------------------
(***************************************************************************)
(* The scripts that work on results, one after the other: binaries write    *)
(* documents, merge_runs.py makes one of them, and compare_runs.py compares *)
(* it with the document of another run.                                    *)
(***************************************************************************)
EXTENDS Runs, FiniteSets

CONSTANTS
  Names,     (* the run_names, in the order a binary runs them             *)
  Times(_),  (* the times the d-th binary may measure, 0 for the base      *)
  MaxDocs    (* bound on the files to merge                                *)

ASSUME NamesAssumption == Names \in Seq(STRING)
ASSUME DocsAssumption  == MaxDocs \in Nat \ {0}
ASSUME TimesAssumption == \A d \in 0..MaxDocs : Times(d) \subseteq Nat \ {0}

VARIABLES
  merging, docs, next, rows,
  comparing, files, base, cont, todo, base_times, new_times, overall

mergeVars   == <<merging, docs, next, rows>>
compareVars == <<comparing, files, base, cont, todo, base_times, new_times, overall>>
reportsVars == <<mergeVars, compareVars>>

M == INSTANCE MergeRuns WITH pc <- merging
C == INSTANCE CompareRuns WITH pc <- comparing

ReportsInit == M!Init /\ C!Init

Measure == M!Measure /\ UNCHANGED compareVars
Merge   == (M!Start \/ M!Merge) /\ UNCHANGED compareVars

BaseDocuments == Documents(Names, Times(0), 0)

\* compare_runs.py on the document of some run and the one just merged.
StartCompare ==
  /\ merging = "written"
  /\ \E b \in BaseDocuments : C!Start(b, rows)
  /\ UNCHANGED mergeVars

Compare == (C!Load \/ C!Compare \/ C!Overall) /\ UNCHANGED mergeVars

ReportsNext == Measure \/ Merge \/ StartCompare \/ Compare

ReportsSpec == ReportsInit /\ [][ReportsNext]_reportsVars

----------------------------------------------------------------------------
(* One row for every benchmark and aggregate of the files merged so far, and *)
(* none that no file has: nothing is lost, doubled or made up, whatever mix  *)
(* of repetitions and aggregates the files hold.                            *)
RowsPartition ==
  comparing = "off" =>
  /\ \A i, j \in DOMAIN rows : M!Key(rows[i]) = M!Key(rows[j]) => i = j
  /\ {<<rows[i].run_name, rows[i].aggregate_name>> : i \in DOMAIN rows}
       = UNION {{<<m[i].run_name, m[i].aggregate_name>> : i \in DOMAIN m} : m \in ToSet(M!Merged)}

(* A segment that was run again with the same options replaces the older     *)
(* result in what the comparison reads, and does so whole.  What it reads is *)
(* the median where there is one ("for aggregated runs the median row is     *)
(* used for each benchmark", compare_runs.py:12), whatever rows come before  *)
(* it and from whichever file.                                              *)
RerunWins ==
  merging = "written" /\ comparing = "off" =>
  LET result == load(rows) IN
  /\ DOMAIN result = NamesOf(rows)
  /\ \A name \in DOMAIN result : M!SameKinds(name) => result[name].doc = M!LastWith(name)
  /\ \A i \in DOMAIN rows :
       rows[i].aggregate_name = "median" => result[rows[i].run_name] = rows[i]

(* When no benchmark the two runs share failed in either, the last line is   *)
(* the geometric mean of the time ratios: no benchmark is in one mean only   *)
(* or counted twice, however often it was repeated and merged.               *)
OverallOfGoodRuns ==
  comparing = "done" /\ ToSet(C!Common) = C!Good => C!MeanOfRatios(C!Good)

(* "Geometric mean of time ratios" (compare_runs.py:154), over the           *)
(* benchmarks that have one.                                                *)
OverallIsMeanOfRatios ==
  comparing = "done" /\ C!Good # {} => C!MeanOfRatios(C!Good)

=============================================================================
