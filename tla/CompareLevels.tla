---------------------------- MODULE CompareLevels ----------------------------
(***************************************************************************)
(* src/scripts/compare_levels.py: the level ladders of two to SERIES runs,  *)
(* summed over the files every run has at every level (level_rows),         *)
(* narrowed by --strategies and --levels, charted, and set out in a table   *)
(* for each strategy below the chart.  A ladder entry stands for the labels *)
(* its sums are of.                                                         *)
(***************************************************************************)
EXTENDS ResultRows, SequencesExt

CONSTANTS
  Results,  (* the sequences of results a call may be given                *)
  Filters,  (* the sets of corpus labels --filter may let through          *)
  Kept,     (* what --strategies and --levels may name: [strategies, levels] *)
  SERIES, ALL

VARIABLES
  pc, runs, kept, opts,
  rows,     (* per run: <<level, strategy>> -> labels                       *)
  tables,   (* the tables: strategy and levels                              *)
  page, bottom

vars == <<pc, runs, kept, opts, rows, tables, page, bottom>>

Runs == DOMAIN runs
----------------------------------------------------------------------------
Deflates(i) == Collected(runs[i].rows, "deflate", kept)
FilesOf(i, k) == LabelsOf({n \in Deflates(i) : Key(n, "deflate") = k})

\* The files of every ladder of every run.
SummedFiles ==
  Summed(Common(UNION {{FilesOf(i, j) : j \in Keys(Deflates(i), "deflate")} : i \in Runs}))

\* level_rows: sums of nothing are left out.
level_rows(i) ==
  [k \in IF SummedFiles = {} THEN {} ELSE Keys(Deflates(i), "deflate") |-> SummedFiles]

Strategies(rs) == {k[2] : k \in UNION {DOMAIN rs[i] : i \in DOMAIN rs}}

\* --strategies drops variants, never the plain ladder; --levels any level.
Narrowed(row) ==
  [k \in {j \in DOMAIN row : /\ \/ j[2] = "" \/ opts.strategies = ALL
                                \/ j[2] \in opts.strategies
                             /\ opts.levels = ALL \/ j[1] \in opts.levels} |-> row[k]]

\* Mutant: the levels of a table are those of the reference.
LevelsOfReference(s) == {k[1] : k \in {j \in DOMAIN rows[1] : j[2] = s}}

LevelsOf(s) == {k[1] : k \in {j \in UNION {DOMAIN rows[i] : i \in Runs} : j[2] = s}}

Init ==
  /\ pc = "load" /\ runs \in Results /\ kept \in Filters /\ opts \in Kept
  /\ rows = <<>> /\ tables = <<>> /\ page = <<>> /\ bottom = 0

\* main up to the tables.
Load ==
  /\ pc = "load"
  /\ LET all == [i \in Runs |-> level_rows(i)] IN
     IF \/ Len(runs) \notin 2..SERIES
        \/ opts.strategies # ALL /\ ~(opts.strategies \subseteq Strategies(all) \cup {"default"})
     THEN pc' = "exit" /\ UNCHANGED rows
     ELSE /\ rows' = [i \in Runs |-> Narrowed(all[i])]
          /\ pc' = IF Strategies(rows') = {} THEN "exit" ELSE "tables"
  /\ UNCHANGED <<runs, kept, opts, tables, page, bottom>>

\* A table for each strategy, with a row for each level; their order is left out.
Tables ==
  /\ pc = "tables" /\ pc' = "chart"
  /\ LET shown == SetToSeq(Strategies(rows)) IN
     tables' = [t \in DOMAIN shown |-> [strategy |-> shown[t], levels |-> LevelsOf(shown[t])]]
  /\ UNCHANGED <<runs, kept, opts, rows, page, bottom>>

\* draw_chart ends the call where there is level 0 only.
Chart ==
  /\ pc = "chart"
  /\ IF \A t \in DOMAIN tables : tables[t].levels = {0}
     THEN pc' = "exit" /\ UNCHANGED <<page, bottom>>
     ELSE /\ pc' = "drawn" /\ bottom' = 100 + 340 + 72 - 34
          /\ page' = <<Panel(78, 962, 96, 344 + 40)>>
  /\ UNCHANGED <<runs, kept, opts, rows, tables>>

\* draw_table, as many rows as the strategy has levels.
Table ==
  /\ pc = "drawn" /\ Len(page) <= Len(tables)
  /\ LET top == bottom + 34
         end == top + 42 + 22 * Cardinality(tables[Len(page)].levels)
     IN bottom' = end /\ page' = Append(page, [x0 |-> 78, x1 |-> 1040, y0 |-> top, y1 |-> end])
  /\ UNCHANGED <<pc, runs, kept, opts, rows, tables>>

Written ==
  /\ pc = "drawn" /\ Len(page) > Len(tables) /\ pc' = "written"
  /\ UNCHANGED <<runs, kept, opts, rows, tables, page, bottom>>

Next == Load \/ Tables \/ Chart \/ Table \/ Written

----------------------------------------------------------------------------
(* Every sum of every run, level and strategy is over the same files, tars   *)
(* alone where there are any, so that two cells of a table, or a point and   *)
(* the next of its ladder, never differ for the files they are of.          *)
SumsAlike ==
  \A i, j \in DOMAIN rows : \A k \in DOMAIN rows[i], m \in DOMAIN rows[j] :
    rows[i][k] = rows[j][m] /\ Tars(rows[i][k]) \in {{}, rows[i][k]}

\* The levels and strategies any run has a row of, and those the options keep.
Found == {<<n.level, n.strategy>> : n \in UNION {Deflates(i) : i \in Runs}}
Asked ==
  {e \in Found : /\ opts.levels = ALL \/ e[1] \in opts.levels
                 /\ \/ e[2] = "" \/ opts.strategies = ALL \/ e[2] \in opts.strategies}

\* The lines of all tables.
Lines == UNION {tables[t].levels \X {tables[t].strategy} : t \in DOMAIN tables}

(* Each level of a strategy that a run has rows of, and the options keep,    *)
(* has its line in the one table of the strategy, and there is no other      *)
(* line; the tables lie below the chart and below each other; and a call     *)
(* ends without them only for a wrong number of runs, a strategy no run has, *)
(* no file that all ladders have, or nothing above level 0.                  *)
TablesComplete ==
  /\ pc = "written" =>
       /\ Lines = Asked
       /\ \A t, u \in DOMAIN tables : tables[t].strategy = tables[u].strategy => t = u
       /\ Apart(page) /\ Within(page, 1080, bottom + 10)
  /\ pc = "exit" =>
       \/ Len(runs) \notin 2..SERIES \/ SummedFiles = {} \/ \A e \in Asked : e[1] = 0
       \/ opts.strategies # ALL /\ ~(opts.strategies \subseteq {e[2] : e \in Found} \cup {"default"})
=============================================================================
