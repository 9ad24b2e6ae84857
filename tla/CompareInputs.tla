---------------------------- MODULE CompareInputs ----------------------------
(***************************************************************************)
(* src/scripts/compare_inputs.py and src/scripts/frontier.py: two runs,     *)
(* input by input.  Both pick the inputs and levels the runs share in the   *)
(* same way; the first sets out the changes in two grids, the second draws  *)
(* a panel per input and rings the points the other run beats.              *)
(*                                                                         *)
(* A run is a set of rows, a name with its compressed size, its cpu time    *)
(* and its cv in percent; a size or time of 0 is that of a failed row.      *)
(* A change is a pair <<new - old, old>>.                                   *)
(***************************************************************************)
EXTENDS ResultRows, SequencesExt

CONSTANTS
  Pairs,   (* the two results a call may be given                           *)
  Calls,   (* script, --filter, --levels, --columns, width of the labels     *)
  NOISE_FLOOR, NOISE_CVS, ALL

VARIABLES
  pc, runs, call,
  rows,            (* of either run: input -> level -> measurement           *)
  labels, levels,  (* what is shown                                          *)
  grids,           (* per measure so far: input -> level -> [change, real],   *)
                   (* and the levels that have a median                       *)
  rings,           (* per panel so far: <<run, level>> -> a level of the other *)
  page

vars == <<pc, runs, call, rows, labels, levels, grids, rings, page>>

Larger(a, b) == IF a > b THEN a ELSE b
Abs(x)       == IF x < 0 THEN -x ELSE x

----------------------------------------------------------------------------
(* input_rows. *)

\* The label of a row, with the period of the "dist" rows.
InputOf(n) == <<n.label, n.dist>>

Plain(n) ==
  /\ n.op = "codec_deflate"
  /\ Group(n, {n.label}) \in {"deflate", "deflate_data", "dist"} /\ n.strategy = ""

input_rows(run) ==
  LET good == {r \in run : Plain(r.name) /\ r.size > 0 /\ r.time > 0}
      of(l) == {r \in good : InputOf(r.name) = l}
  IN [l \in {InputOf(r.name) : r \in good} |->
        [v \in {r.name.level : r \in of(l)} |-> CHOOSE r \in of(l) : r.name.level = v]]

Both(l) == DOMAIN rows[1][l] \cap DOMAIN rows[2][l]

Init ==
  /\ pc = "load" /\ runs \in Pairs /\ call \in Calls
  /\ rows = <<input_rows(runs[1]), input_rows(runs[2])>>
  /\ labels = <<>> /\ levels = {} /\ grids = <<>> /\ rings = <<>> /\ page = <<>>

Narrowed(v) == call.levels = ALL \/ v \in call.levels

\* Mutant: an input is shown if both runs have it at all levels that are.
ShownAll(seen, lvls) == {l \in seen : lvls \subseteq Both(l)}

\* An input is shown if both runs have it at a level that is.
Shown(seen, lvls) == {l \in seen : Both(l) \cap lvls # {}}

\* main of either script up to the drawing.
Select ==
  /\ pc = "load"
  /\ LET seen == DOMAIN rows[1] \cap DOMAIN rows[2] \cap call.filter IN
     /\ levels' = {v \in UNION {Both(l) : l \in seen} : Narrowed(v)}
     /\ labels' = SetToSeq(Shown(seen, levels'))
  /\ pc' = IF labels' = <<>> THEN "exit" ELSE call.script
  /\ UNCHANGED <<runs, call, rows, grids, rings, page>>

----------------------------------------------------------------------------
(* compare_inputs.py. *)

Noise(p, q) == Larger(NOISE_FLOOR, NOISE_CVS * Larger(p.cv, q.cv))

\* judge: the change and whether it is real.  Sizes are exact, times clear the
\* noise.
judge(key, ref, v) ==
  LET d == v[key] - ref[key] IN
  [change |-> <<d, ref[key]>>,
   real |-> IF key = "size" THEN d # 0 ELSE Abs(d) * 100 > Noise(ref, v) * ref[key]]

\* A change of less than 0.05% is not emphasized.
Cell(key, l, v) ==
  LET j == judge(key, rows[1][l][v], rows[2][l][v]) IN
  [j EXCEPT !.real = @ /\ Abs(j.change[1]) * 2000 >= j.change[2]]

\* build_grids, for one measure.
Grid(key) ==
  LET seen(l) == Both(l) \cap levels
      having(v) == {l \in ToSet(labels) : v \in seen(l)}
  IN [key |-> key, cells |-> [l \in ToSet(labels) |-> [v \in seen(l) |-> Cell(key, l, v)]],
      typical |-> {v \in levels : Cardinality(having(v)) > 1}]

BuildGrids ==
  /\ pc = "inputs" /\ Len(grids) < 2
  /\ grids' = Append(grids, Grid(<<"size", "time">>[Len(grids) + 1]))
  /\ UNCHANGED <<pc, runs, call, rows, labels, levels, rings, page>>

\* render: the labels, the two grids beside them and the key below.  Twice the
\* width of everything, which a grid has half of.
RenderGrids ==
  /\ pc = "inputs" /\ Len(grids) = 2 /\ pc' = "written"
  /\ LET label_w == Larger(110, call.width + 18)
         typical == 132 + 28 * Len(labels) + 10
         end     == typical + IF grids[1].typical # {} \/ grids[2].typical # {} THEN 28 ELSE 0
         block   == 960 - label_w
         left(m) == 80 + 2 * label_w + (m - 1) * (block + 80)
     IN page' = <<[x0 |-> 80, x1 |-> 80 + 2 * call.width, y0 |-> 132, y1 |-> end],
                  [x0 |-> left(1), x1 |-> left(1) + block, y0 |-> 91, y1 |-> end],
                  [x0 |-> left(2), x1 |-> left(2) + block, y0 |-> 91, y1 |-> end],
                  [x0 |-> 80, x1 |-> 2080, y0 |-> end + 12, y1 |-> end + 22]>>
  /\ UNCHANGED <<runs, call, rows, labels, levels, grids, rings>>

----------------------------------------------------------------------------
(* frontier.py. *)

\* Mutant: the noise is added to the time that has to be beaten.
ClearlyFasterSlack(q, p) == q.time * 100 <= p.time * (100 + Noise(p, q))

ClearlyFaster(q, p) == q.time * 100 <= p.time * (100 - Noise(p, q))

\* beaten: the first level of the other run that is at least as small and
\* clearly faster, as a set of none or one.
beaten(p, others) ==
  LET by == {v \in DOMAIN others :
               /\ others[v].size <= p.size /\ ClearlyFaster(others[v], p)
               /\ others[v].size < p.size \/ others[v].time < p.time}
  IN {v \in by : \A w \in by : v <= w}

Ladder(i, l) == [v \in DOMAIN rows[i][l] \cap levels |-> rows[i][l][v]]

RingsOf(l) ==
  LET points == UNION {{i} \X DOMAIN Ladder(i, l) : i \in 1..2}
      by(p) == beaten(Ladder(p[1], l)[p[2]], Ladder(3 - p[1], l))
  IN [p \in {q \in points : by(q) # {}} |-> CHOOSE v \in by(p) : TRUE]

\* panel, the next one from left to right and from top to bottom.
DrawPanel ==
  /\ pc = "frontier" /\ Len(rings) < Len(labels)
  /\ rings' = Append(rings, RingsOf(labels[Len(rings) + 1]))
  /\ LET k    == Len(rings)
         cols == Larger(1, call.columns)
         x0   == 16 + (k % cols) * (250 + 26)
         y0   == 100 + (k \div cols) * (170 + 22)
     IN page' = Append(page, [x0 |-> x0, x1 |-> x0 + 250, y0 |-> y0, y1 |-> y0 + 170])
  /\ UNCHANGED <<pc, runs, call, rows, labels, levels, grids>>

RenderPanels ==
  /\ pc = "frontier" /\ Len(rings) = Len(labels) /\ pc' = "written"
  /\ UNCHANGED <<runs, call, rows, labels, levels, grids, rings, page>>

Next == Select \/ BuildGrids \/ RenderGrids \/ DrawPanel \/ RenderPanels

----------------------------------------------------------------------------
\* What run i has measured of an input at a level, and the inputs and levels that
\* the options keep and both runs have measured.
Measured(i, l, v) ==
  {r \in runs[i] : /\ Plain(r.name) /\ r.size > 0 /\ r.time > 0
                   /\ InputOf(r.name) = l /\ r.name.level = v}

Comparable ==
  {c \in call.filter \X {r.name.level : r \in runs[1]} :
     Narrowed(c[2]) /\ \A i \in 1..2 : Measured(i, c[1], c[2]) # {}}

\* The places of a grid that have a cell.
Places(grid) == UNION {{l} \X DOMAIN grid.cells[l] : l \in DOMAIN grid.cells}

(* Both grids have a cell for each input and level the options keep and both *)
(* runs have measured, with the change from one of them to the other, and no *)
(* other cell; no row or column is without one; the median is of the levels  *)
(* two inputs or more have; and a call that shows nothing has nothing to.    *)
GridsComplete ==
  /\ pc \in {"exit", "written"} =>
       ToSet(labels) = {c[1] : c \in Comparable} /\ levels = {c[2] : c \in Comparable}
  /\ pc = "written" /\ call.script = "inputs" =>
       \A m \in 1..2 : LET grid == grids[m]  key == <<"size", "time">>[m] IN
         /\ DOMAIN grid.cells = ToSet(labels) /\ Places(grid) = Comparable
         /\ \A c \in Comparable : \E p \in Measured(1, c[1], c[2]), q \in Measured(2, c[1], c[2]) :
              grid.cells[c[1]][c[2]].change = <<q[key] - p[key], p[key]>>
         /\ grid.typical = {v \in levels : \E c, d \in Comparable : c # d /\ c[2] = v /\ d[2] = v}

\* The page is as wide as the panels, or 1080 (here doubled).
Width == IF call.script = "inputs" THEN 2160
         ELSE LET cols == Larger(1, call.columns) IN 32 + cols * 250 + (cols - 1) * 26

(* Grids and panels lie beside and below each other, on the page.            *)
InputsApart ==
  pc = "written" /\ call.width < 900 =>
    Apart(page) /\ Within(page, Width, 1000 + 200 * Len(labels))

(* A ring stands for a point of the other run that is as small and faster,   *)
(* and a point without one has none that is clearly so; the fastest point of *)
(* a panel never has one; and where the ring is by the same level, the grids *)
(* of compare_inputs.py show that change of time as real, but for one that   *)
(* is just as large as the noise, and no change of size the other way.       *)
RingsSound ==
  \A k \in DOMAIN rings : LET l == labels[k]  ring == rings[k] IN
    \A i \in 1..2 : \A v \in DOMAIN Ladder(i, l) :
      LET p == rows[i][l][v]
          other == Ladder(3 - i, l)
          clear(q) == q.size <= p.size /\ q.time < p.time /\ ClearlyFaster(q, p)
      IN IF <<i, v>> \notin DOMAIN ring THEN \A w \in DOMAIN other : ~clear(other[w])
         ELSE LET q == other[ring[i, v]]
                  time == Cell("time", l, v)
                  sign == IF i = 1 THEN 1 ELSE -1
              IN /\ q.size <= p.size /\ q.time < p.time
                 /\ \E j \in 1..2 : \E w \in DOMAIN Ladder(j, l) : rows[j][l][w].time < p.time
                 /\ ring[i, v] = v =>
                      /\ sign * time.change[1] < 0
                      /\ time.real \/ Abs(time.change[1]) * 100 = Noise(p, q) * time.change[2]
                      /\ sign * Cell("size", l, v).change[1] <= 0
=============================================================================
