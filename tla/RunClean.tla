------------------------------ MODULE RunClean ------------------------------
(***************************************************************************)
(* src/scripts/run_clean.py: wait for an idle machine, run the benchmark    *)
(* binary into the output file, then rerun the contaminated rows into a     *)
(* second file and splice them in, up to --max-retries times.               *)
(*                                                                         *)
(* The script shares nothing with the binary but the two files.  The binary *)
(* may finish, die half way through its output or exit before it opens it;  *)
(* the machine is busy or idle as it likes; the script itself may be   *)
(* killed and started again over the files it left.                         *)
(*                                                                         *)
(* A row is one JSON entry of "benchmarks": the aggregates "mean" and "cv"  *)
(* of a benchmark whose repetitions worked, or the plain iteration rows of  *)
(* one that was skipped with an error, for which no aggregate exists.       *)
(***************************************************************************)
EXTENDS Integers, FiniteSets

CONSTANTS
  Names,       (* run_names the binary registers                           *)
  Longer(_),   (* the names a name is a proper prefix of                   *)
  MaxRetries,  (* --max-retries                                            *)
  MaxPolls,    (* polls of wait_idle before its timeout, 600 s / 15 s      *)
  MaxCalls,    (* bound: how often the script is started                   *)
  Missing,     (* no such file                                             *)
  Broken       (* a file that is empty or breaks off                       *)

ASSUME RetriesAssumption == MaxRetries \in Nat
ASSUME PollsAssumption   == MaxPolls \in Nat \ {0}
ASSUME CallsAssumption   == MaxCalls \in Nat
ASSUME LongerAssumption  == \A n \in Names : Longer(n) \subseteq Names \ {n}

VARIABLES
  pc,        (* where main() is                                            *)
  polls,     (* polls of the current wait_idle                             *)
  first,     (* TRUE until the first run has been read                     *)
  attempt,   (* retries done                                               *)
  filter,    (* names --filter selects                                     *)
  doc,       (* the rows in memory                                         *)
  gaveUp,    (* the loop was left for want of an idle machine or of output *)
  out,       (* --out: a set of rows, Broken, or Missing                   *)
  retry,     (* --out + ".retry"                                           *)
  run,       (* runs of the binary so far, over all calls                  *)
  calls,     (* calls of the script so far                                 *)
  since,     (* history: value of run when this call started               *)
  stale      (* history: a run of this call exited before it opened its    *)
             (* output, over a document an earlier run had left there      *)

script == <<pc, polls, first, attempt, filter, doc, gaveUp, since, stale, calls>>
files  == <<out, retry>>
vars   == <<script, files, run>>

NamesOf(rows)   == {r.name : r \in rows}
RowsOf(rows, n) == {r \in rows : r.name = n}

----------------------------------------------------------------------------
(* The binary, Google Benchmark's JSON reporter: external. *)

\* What a run leaves for one benchmark: clean rows, rows contaminated by their
\* mean (real over cpu time) or by their cv, or an error without aggregates.
Outcomes == {"clean", "mean", "cv", "error"}

RowsFor(n, outcome) ==
  IF outcome = "error" THEN {[name |-> n, agg |-> "iteration", bad |-> TRUE, run |-> run]}
  ELSE {[name |-> n, agg |-> a, bad |-> a = outcome, run |-> run] : a \in {"mean", "cv"}}

\* The documents a run over the names ns may write.
Documents(ns) == {UNION {RowsFor(n, o[n]) : n \in ns} : o \in [ns -> Outcomes]}

----------------------------------------------------------------------------
(* Pure parts of the script. *)

\* dirty_rows: by the mean row first, by the cv row otherwise.  A benchmark
\* without aggregates has neither and is never listed.
DirtyRows(rows) ==
  {n \in NamesOf(rows) : \E r \in RowsOf(rows, n) : r.agg \in {"mean", "cv"} /\ r.bad}

\* Mutant: the alternatives are not anchored by ^( )$.
RetryFilterLoose(bad) == filter \cap (bad \cup UNION {Longer(n) : n \in bad})

\* The names the retry filter selects: exactly those listed.
RetryFilter(bad) == bad

\* Mutant: rows are replaced one by one, by name and aggregate.
SpliceRows(old, redo) ==
  {r \in old : ~\E s \in redo : s.name = r.name /\ s.agg = r.agg} \cup redo

\* Every row of a benchmark that was run again is replaced.
Splice(old, redo) == {r \in old : r.name \notin NamesOf(redo)} \cup redo

----------------------------------------------------------------------------
Init ==
  /\ pc = "off" /\ polls = 0 /\ first = TRUE /\ attempt = 0
  /\ filter = {} /\ doc = {} /\ gaveUp = FALSE
  /\ out = Missing /\ retry = Missing
  /\ run = 0 /\ calls = 0 /\ since = 0 /\ stale = FALSE

Start ==
  /\ pc = "off" /\ calls < MaxCalls
  /\ calls' = calls + 1
  /\ filter' \in SUBSET Names \ {{}}
  /\ pc' = "wait" /\ polls' = 0 /\ first' = TRUE /\ attempt' = 0
  /\ doc' = {} /\ gaveUp' = FALSE /\ since' = run /\ stale' = FALSE
  /\ UNCHANGED <<files, run>>

\* Mutant: the deadline of wait_idle is set anew when it has passed.
WaitIdleForever(busy) ==
  /\ pc = "wait"
  /\ polls' = IF busy THEN (polls + 1) % MaxPolls ELSE 0
  /\ pc' = IF busy THEN "wait" ELSE "launch"
  /\ UNCHANGED <<first, attempt, filter, doc, gaveUp, since, stale, calls, files, run>>

\* One round of wait_idle, in which busy_procs finds a process above half a
\* CPU or none.  On timeout the first call returns from main, a later one
\* leaves the loop with the rows as they are.
WaitIdle(busy) ==
  /\ pc = "wait"
  /\ polls' = IF busy THEN polls + 1 ELSE 0
  /\ \/ ~busy /\ pc' = "launch" /\ UNCHANGED gaveUp
     \/ busy /\ polls' < MaxPolls /\ UNCHANGED <<pc, gaveUp>>
     \/ /\ busy /\ polls' = MaxPolls
        /\ pc' = IF first THEN "off" ELSE "open"
        /\ gaveUp' = TRUE
  /\ UNCHANGED <<first, attempt, filter, doc, since, stale, calls, files, run>>

\* subprocess.run of the binary, check=False.
Target == IF first THEN filter ELSE RetryFilter(DirtyRows(doc))

\* Mutant: an output that is already there is taken for this call's.
LaunchUnlessThere ==
  /\ pc = "launch"
  /\ pc' = IF first /\ out \notin {Missing, Broken} THEN "read" ELSE "running"
  /\ run' = run + 1
  /\ UNCHANGED <<polls, first, attempt, filter, doc, gaveUp, since, stale, calls, files>>

Launch ==
  /\ pc = "launch"
  /\ pc' = "running"
  /\ run' = run + 1
  /\ UNCHANGED <<polls, first, attempt, filter, doc, gaveUp, since, stale, calls, files>>

Unreadable(content) == content \in {Missing, Broken}

\* The file the run was told to write.
OutPath == IF first THEN out ELSE retry

Leaves(content) ==
  /\ pc = "running"
  /\ pc' = "read"
  /\ IF first THEN out' = content /\ UNCHANGED retry
              ELSE retry' = content /\ UNCHANGED out
  /\ UNCHANGED <<polls, first, attempt, filter, doc, gaveUp, since, calls, run>>

RunCompletes == (\E d \in Documents(Target) : Leaves(d)) /\ UNCHANGED stale
RunBreaks    == Leaves(Broken) /\ UNCHANGED stale

\* main of the binary refuses its --benchmark_data_types.
RunExitsEarly == Leaves(OutPath) /\ stale' = (stale \/ ~Unreadable(OutPath))

\* json.load of the file, whoever wrote it.  Without one the first run ends
\* the script and a retry ends the loop.
ReadFirst ==
  /\ pc = "read" /\ first
  /\ IF Unreadable(out) THEN pc' = "off" /\ UNCHANGED <<doc, first>>
     ELSE pc' = "check" /\ doc' = out /\ first' = FALSE
  /\ UNCHANGED <<polls, attempt, filter, gaveUp, since, stale, calls, files, run>>

ReadRetry ==
  /\ pc = "read" /\ ~first
  /\ IF Unreadable(retry)
     THEN pc' = "open" /\ gaveUp' = TRUE /\ UNCHANGED <<doc, attempt>>
     ELSE /\ pc' = "check" /\ doc' = Splice(doc, retry)
          /\ attempt' = attempt + 1 /\ UNCHANGED gaveUp
  /\ UNCHANGED <<polls, first, filter, since, stale, calls, files, run>>

\* Mutant: the last retry is never taken.
CheckStopsShort ==
  /\ pc = "check"
  /\ IF attempt + 1 >= MaxRetries \/ DirtyRows(doc) = {}
     THEN pc' = "open" /\ UNCHANGED polls
     ELSE pc' = "wait" /\ polls' = 0
  /\ UNCHANGED <<first, attempt, filter, doc, gaveUp, since, stale, calls, files, run>>

\* The head of the retry loop.
Check ==
  /\ pc = "check"
  /\ IF attempt = MaxRetries \/ DirtyRows(doc) = {}
     THEN pc' = "open" /\ UNCHANGED polls
     ELSE pc' = "wait" /\ polls' = 0
  /\ UNCHANGED <<first, attempt, filter, doc, gaveUp, since, stale, calls, files, run>>

\* open(args.out, "w") truncates, json.dump fills.
OpenOut ==
  /\ pc = "open" /\ pc' = "dump"
  /\ out' = Broken
  /\ UNCHANGED <<polls, first, attempt, filter, doc, gaveUp, since, stale, calls, retry, run>>

DumpOut ==
  /\ pc = "dump" /\ pc' = "finished"
  /\ out' = doc
  /\ UNCHANGED <<polls, first, attempt, filter, doc, gaveUp, since, stale, calls, retry, run>>

Return ==
  /\ pc = "finished" /\ pc' = "off"
  /\ UNCHANGED <<polls, first, attempt, filter, doc, gaveUp, since, stale, calls, files, run>>

\* Ctrl-C: the script and the binary it waits for end, the files stay.
Crash ==
  /\ pc \notin {"off", "finished"}
  /\ pc' = "off"
  /\ doc' = {} /\ first' = TRUE /\ attempt' = 0 /\ polls' = 0
  /\ IF pc = "running" /\ first THEN out' \in {out, Broken} /\ UNCHANGED retry
     ELSE IF pc = "running" THEN retry' \in {retry, Broken} /\ UNCHANGED out
     ELSE UNCHANGED files
  /\ UNCHANGED <<filter, gaveUp, since, stale, calls, run>>

Step == \/ \E busy \in BOOLEAN : WaitIdle(busy)
        \/ Launch \/ RunCompletes \/ RunBreaks \/ RunExitsEarly
        \/ ReadFirst \/ ReadRetry \/ Check \/ OpenOut \/ DumpOut \/ Return

Next == Start \/ Step \/ Crash

\* The script and its child keep running; nobody has to start the script, and
\* nothing is assumed about the load of the machine.
Spec == Init /\ [][Next]_vars /\ WF_vars(Step)

----------------------------------------------------------------------------
(* Properties. *)

(* All rows of a benchmark in the result come from one run of the binary: a  *)
(* fresh mean is never paired with the cv of the run it replaced, and an     *)
(* error row never stands beside old aggregates (the splice drops by        *)
(* run_name, :122-124).                                                      *)
OneRunPerName ==
  \A r, s \in doc : r.name = s.name => r.run = s.run

(* Whatever earlier calls and killed runs left in the two files, a finished  *)
(* call whose runs all opened their output has written rows of its own for   *)
(* exactly the benchmarks --filter selected: no retry loses one or brings    *)
(* one in.                                                                  *)
OutputIsOwn ==
  pc = "finished" /\ ~stale => NamesOf(out) = filter /\ \A r \in out : r.run > since

(* A run without output is "benchmark produced no output" (run_clean.py:105) *)
(* and ends the script: a finished call never has rows of an earlier one.    *)
RowsAreFresh == pc = "finished" => \A r \in out : r.run > since

(* A retry that wrote its output replaces no rows of a benchmark that was    *)
(* not contaminated.                                                        *)
OnlyDirtyReplaced ==
  [][\A n \in Names :
       (pc = "read" /\ ~first /\ ~stale /\ pc' = "check" /\ n \notin DirtyRows(doc))
         => RowsOf(doc', n) = RowsOf(doc, n)]_vars

(* Contaminated rows are written only when every retry has been used, when   *)
(* the machine did not become idle, or when a retry left no output.          *)
DirtyOnlyWithReason ==
  pc = "finished" /\ DirtyRows(out) # {} => attempt = MaxRetries \/ gaveUp

(* The script never works on for ever, on a machine that is never idle and   *)
(* with benchmarks that are never clean.                                     *)
Terminates == pc # "off" ~> pc = "off"
=============================================================================
