------------------------------ MODULE Cooldown ------------------------------
(***************************************************************************)
(* CooldownReporter of src/benchmark_main.cc, and the loop of Google        *)
(* Benchmark that calls it: the benchmarks run one after the other, and     *)
(* the results of one are handed to the display reporter when all its       *)
(* repetitions are over.                                                   *)
(***************************************************************************)
EXTENDS Integers, Sequences

CONSTANTS
  MaxReps    (* bound on --benchmark_repetitions                           *)

VARIABLES
  matched,       (* the registered benchmarks that match the filter         *)
  cooldown,      (* --benchmark_cooldown is not zero                       *)
  reps, aggOnly, (* --benchmark_repetitions, ..._report_aggregates_only    *)
  pc,            (* "off", "run", "report" or "done"                       *)
  b, rep, ok,    (* the benchmark, its repetitions so far, those without   *)
                 (* an error                                               *)
  queue,         (* calls of ReportRuns still to make for b                *)
  first_report_,
  shown,         (* what the wrapped reporter was given                    *)
  slept          (* history: sleeps since b, or the one before, ended      *)

options == <<matched, cooldown, reps, aggOnly>>
vars == <<options, pc, b, rep, ok, queue, first_report_, shown, slept>>

----------------------------------------------------------------------------
(* Google Benchmark: external. *)

\* Aggregates need two repetitions without an error.  Where only these are to
\* be shown the repetitions still are if there are none.
Reports(good) ==
  (IF aggOnly /\ good >= 2 THEN <<>> ELSE <<"runs">>)
    \o (IF good >= 2 THEN <<"aggregates">> ELSE <<>>)

Init ==
  /\ matched = <<>> /\ cooldown = FALSE /\ reps = 1 /\ aggOnly = FALSE
  /\ pc = "off" /\ b = 1 /\ rep = 0 /\ ok = 0 /\ queue = <<>>
  /\ first_report_ = TRUE /\ shown = <<>> /\ slept = 0

\* RunSpecifiedBenchmarks.  If nothing matches it is over.
Start(names) ==
  /\ pc = "off" /\ matched' = names
  /\ cooldown' \in BOOLEAN /\ reps' \in 1..MaxReps /\ aggOnly' \in BOOLEAN
  /\ pc' = IF names = <<>> THEN "done" ELSE "run"
  /\ UNCHANGED <<b, rep, ok, queue, first_report_, shown, slept>>

Repetition ==
  /\ pc = "run" /\ rep < reps
  /\ rep' = rep + 1
  /\ ok' \in {ok, ok + 1}
  /\ UNCHANGED <<options, pc, b, queue, first_report_, shown, slept>>

EndBenchmark ==
  /\ pc = "run" /\ rep = reps
  /\ pc' = "report"
  /\ queue' = Reports(ok)
  /\ slept' = 0
  /\ UNCHANGED <<options, b, rep, ok, first_report_, shown>>

NextBenchmark ==
  /\ pc = "report" /\ queue = <<>>
  /\ IF b < Len(matched)
     THEN pc' = "run" /\ b' = b + 1 /\ rep' = 0 /\ ok' = 0
     ELSE pc' = "done" /\ UNCHANGED <<b, rep, ok>>
  /\ UNCHANGED <<options, queue, first_report_, shown, slept>>

----------------------------------------------------------------------------
\* Mutant: the first report is only noted.
ReportRunsSkipsFirst ==
  /\ pc = "report" /\ queue # <<>>
  /\ slept' = IF cooldown /\ ~first_report_ THEN slept + 1 ELSE slept
  /\ first_report_' = FALSE
  /\ shown' = IF first_report_ THEN shown ELSE Append(shown, <<b, Head(queue)>>)
  /\ queue' = Tail(queue)
  /\ UNCHANGED <<options, pc, b, rep, ok>>

\* Mutant: the flag is cleared where the sleep is.
ReportRunsNeverFirst ==
  /\ pc = "report" /\ queue # <<>>
  /\ slept' = IF cooldown /\ ~first_report_ THEN slept + 1 ELSE slept
  /\ first_report_' = (cooldown /\ first_report_)
  /\ shown' = Append(shown, <<b, Head(queue)>>)
  /\ queue' = Tail(queue)
  /\ UNCHANGED <<options, pc, b, rep, ok>>

\* ReportRuns: the sleep comes before the report, and not before the first.
\* Without a cooldown the display reporter is not wrapped at all.
ReportRuns ==
  /\ pc = "report" /\ queue # <<>>
  /\ slept' = IF cooldown /\ ~first_report_ THEN slept + 1 ELSE slept
  /\ first_report_' = FALSE
  /\ shown' = Append(shown, <<b, Head(queue)>>)
  /\ queue' = Tail(queue)
  /\ UNCHANGED <<options, pc, b, rep, ok>>

Next == Repetition \/ EndBenchmark \/ NextBenchmark \/ ReportRuns

----------------------------------------------------------------------------
(* Whatever fails and however results are aggregated, every benchmark gets   *)
(* through to the wrapped reporter, once, in order, runs before aggregates.  *)
EveryBenchmarkShown ==
  /\ pc = "done" => \A i \in DOMAIN matched : \E k \in DOMAIN shown : shown[k][1] = i
  /\ \A j, k \in DOMAIN shown :
       j < k => \/ shown[j][1] < shown[k][1]
                \/ shown[j][1] = shown[k][1] /\ shown[j][2] = "runs" /\ shown[k][2] = "aggregates"

(* From the third benchmark on the machine has rested since the one before.  *)
LaterBenchmarksRested ==
  pc = "run" /\ rep = 0 /\ b >= 3 /\ cooldown => slept >= 1

(* "Inserts a cooldown sleep between different benchmark families"           *)
(* (benchmark_main.cc:25): before every benchmark but the first.             *)
EveryBenchmarkRested ==
  pc = "run" /\ rep = 0 /\ b >= 2 /\ cooldown => slept >= 1
=============================================================================
