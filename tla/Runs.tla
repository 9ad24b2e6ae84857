-------------------------------- MODULE Runs --------------------------------
(***************************************************************************)
(* A benchmark JSON document as the scripts read it: the rows Google        *)
(* Benchmark writes for a benchmark, and load of src/scripts/compare_runs.py*)
(* Times are 0 for a row with an error, and positive otherwise.             *)
(***************************************************************************)
EXTENDS Integers, SequencesExt

Row(type, agg, time) == [run_type |-> type, aggregate_name |-> agg, real_time |-> time]

Iteration(t)  == Row("iteration", "none", t)
Aggregates(t) == <<Row("aggregate", "mean", t), Row("aggregate", "median", t)>>

(* External: what one benchmark leaves in a document, run once or twice,     *)
(* with or without its repetitions.  Aggregates take two good repetitions.  *)
Outcomes(times) ==
  {<<Iteration(t)>> : t \in times \cup {0}}
    \cup {<<Iteration(0), Iteration(t)>> : t \in times \cup {0}}
    \cup {Aggregates(t) : t \in times}
    \cup {<<Iteration(t), Iteration(t)>> \o Aggregates(t) : t \in times}

\* These rows under the name of the benchmark, in the doc-th file.
Stamped(outcome, name, doc) ==
  [i \in DOMAIN outcome |->
     [run_name |-> name, doc |-> doc, run_type |-> outcome[i].run_type,
      aggregate_name |-> outcome[i].aggregate_name, real_time |-> outcome[i].real_time]]

(* The documents of binaries that run some of the benchmarks in this order.  *)
Documents(names, times, doc) ==
  {FlattenSeq([i \in DOMAIN names |-> Stamped(f[i], names[i], doc)])
     : f \in [DOMAIN names -> {<<>>} \cup Outcomes(times)]}

NamesOf(rows) == {rows[i].run_name : i \in DOMAIN rows}

\* One row of load's loop: a median always goes in, an iteration when there is
\* nothing yet.
Loaded(out, r) ==
  IF r.aggregate_name = "median"
       \/ (r.run_type = "iteration" /\ r.run_name \notin DOMAIN out)
  THEN [n \in DOMAIN out \cup {r.run_name} |-> IF n = r.run_name THEN r ELSE out[n]]
  ELSE out

load(rows) == FoldLeft(Loaded, <<>>, rows)
=============================================================================
