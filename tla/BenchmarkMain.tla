---------------------------- MODULE BenchmarkMain ----------------------------
(***************************************************************************)
(* A codecbench binary from static initialisation to its last report: what  *)
(* Registration leaves in registered is what RunSpecifiedBenchmarks filters *)
(* and runs, reporting to the CooldownReporter main has set up; the scripts *)
(* then tell the results apart by the parts of their names.                 *)
(***************************************************************************)
EXTENDS Registration

CONSTANTS
  Patterns,  (* what --benchmark_filter may match: sets of names             *)
  MaxReps    (* bound on --benchmark_repetitions                             *)

ASSUME RepsAssumption == MaxReps \in Nat \ {0}

VARIABLES
  running, matched, cooldown, reps, aggOnly, b, rep, ok, queue, first_report_,
  shown, slept                                            (* as in Cooldown *)

runVars == <<running, matched, cooldown, reps, aggOnly, b, rep, ok, queue,
             first_report_, shown, slept>>

C    == INSTANCE Cooldown WITH pc <- running
Rows == INSTANCE ResultRows

MainInit == Init /\ C!Init

\* The last step of main: external, but for the reporter.
RunSpecifiedBenchmarks ==
  /\ pc = "run"
  /\ \E pattern \in Patterns :
       C!Start(Select(registered, pattern))
  /\ UNCHANGED vars

MainNext ==
  \/ Next /\ UNCHANGED runVars
  \/ RunSpecifiedBenchmarks
  \/ C!Next /\ UNCHANGED vars

MainSpec == MainInit /\ [][MainNext]_<<vars, runVars>>

----------------------------------------------------------------------------
\* Where the charts put a result: group, key and label.
PlaceOf(n) == LET g == Rows!Group(n, {n.label}) IN <<g, Rows!Key(n, g), n.label>>

(* No two benchmarks of a binary end up in one place of a chart, over all    *)
(* its tables, ladders and corpora, so no two have one name either (by which *)
(* alone run_clean.py and merge_runs.py know a result), as long as no corpus *)
(* is called "data".                                                        *)
OnePlaceEach ==
  pc = "run" /\ running = "off" /\ NoDataCorpus =>
    Cardinality({PlaceOf(n) : n \in ToSet(registered)}) = Len(registered)

(* Whatever fails and however results are aggregated, every benchmark the    *)
(* filter lets through gets to the wrapped reporter, once, in the order of   *)
(* registration, runs before aggregates.                                    *)
EveryBenchmarkShown == C!EveryBenchmarkShown

(* From the third benchmark on the machine has rested since the one before.  *)
LaterBenchmarksRested == C!LaterBenchmarksRested

(* "Inserts a cooldown sleep between different benchmark families"           *)
(* (benchmark_main.cc:25): before every benchmark but the first.             *)
EveryBenchmarkRested == C!EveryBenchmarkRested
=============================================================================
