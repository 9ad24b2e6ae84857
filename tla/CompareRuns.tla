----------------------------- MODULE CompareRuns -----------------------------
(***************************************************************************)
(* main of src/scripts/compare_runs.py: two documents are loaded, the       *)
(* benchmarks they share are compared one by one, and a last line gives the *)
(* change of the geometric mean.                                            *)
(*                                                                         *)
(* Times are powers of two, given by their exponent, so that a geometric    *)
(* mean is the mean of exponents: a pair <<sum, how many>>.  0 is the time  *)
(* of a row with an error, whose exponent there is none.                    *)
(***************************************************************************)
EXTENDS Runs, FiniteSets

VARIABLES
  pc,           (* "off", "load", "loop", "done", or "exit" with an error   *)
  files,        (* the documents of the command line                       *)
  base, cont,   (* the same loaded: the row of every run_name               *)
  todo,         (* common, the names still to come                         *)
  base_times, new_times, (* the exponents collected, 0 for none            *)
  overall       (* gm_delta: the means of either side                      *)

vars == <<pc, files, base, cont, todo, base_times, new_times, overall>>

Init ==
  /\ pc = "off" /\ files = <<>> /\ base = <<>> /\ cont = <<>>
  /\ todo = <<>> /\ base_times = <<>> /\ new_times = <<>>
  /\ overall = <<<<0, 0>>, <<0, 0>>>>

Start(b, c) ==
  /\ pc = "off" /\ pc' = "load"
  /\ files' = <<b, c>>
  /\ UNCHANGED <<base, cont, todo, base_times, new_times, overall>>

\* The names of both, each once.  They are sorted, which nothing here tells.
Common == SetToSeq(DOMAIN base \cap DOMAIN cont)

Load ==
  /\ pc = "load"
  /\ base' = load(files[1]) /\ cont' = load(files[2])
  /\ todo' = Common'
  /\ pc' = IF todo' = <<>> THEN "exit" ELSE "loop"
  /\ UNCHANGED <<files, base_times, new_times, overall>>

Compare ==
  /\ pc = "loop" /\ todo # <<>>
  /\ base_times' = Append(base_times, base[Head(todo)].real_time)
  /\ new_times' = Append(new_times, cont[Head(todo)].real_time)
  /\ todo' = Tail(todo)
  /\ UNCHANGED <<pc, files, base, cont, overall>>

\* The values geomean does not leave out, by their places.
Positive(values) == {i \in DOMAIN values : values[i] > 0}

\* Mutant: the first value starts the sum and is added again.
geomeanTwice(values) ==
  LET filtered == Positive(values)
  IN <<(IF 1 \in filtered THEN values[1] ELSE 0) + SumFunctionOnSet(values, filtered),
       Cardinality(filtered)>>

\* geomean: the sum of the exponents, and how many there are.
geomean(values) ==
  LET filtered == Positive(values)
  IN <<SumFunctionOnSet(values, filtered), Cardinality(filtered)>>

Overall ==
  /\ pc = "loop" /\ todo = <<>>
  /\ pc' = "done"
  /\ overall' = <<geomean(base_times), geomean(new_times)>>
  /\ UNCHANGED <<files, base, cont, todo, base_times, new_times>>

Next == Load \/ Compare \/ Overall

----------------------------------------------------------------------------
\* The names measured without an error in both, as the rows to compare stand.
Good == {n \in DOMAIN base \cap DOMAIN cont :
           base[n].real_time > 0 /\ cont[n].real_time > 0}

\* Whether the quotient of the two means is the mean of the quotients of ns:
\* the exponents subtracted, and no fractions.
MeanOfRatios(ns) ==
  LET b == overall[1]
      n == overall[2]
      sum == SumFunction([x \in ns |-> cont[x].real_time - base[x].real_time])
  IN (n[1] * b[2] - b[1] * n[2]) * Cardinality(ns) = sum * b[2] * n[2]
=============================================================================
