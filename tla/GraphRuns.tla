----------------------------- MODULE GraphRuns -----------------------------
(***************************************************************************)
(* src/scripts/graph_runs.py: a call loads two or more results, aggregates  *)
(* them to the points of each run (aggregate), and draws one section of the *)
(* chart below the other (render).  Each section asks what the runs have,   *)
(* places its panels below body_bottom and moves that on.                   *)
(*                                                                         *)
(* A result is its name, its rows, its stream counters by level, and        *)
(* whether rows have memory and copy dispatch counters.  A point stands     *)
(* here for the labels it is a mean of: which inputs it summarises.  A      *)
(* panel stands for all that is drawn in it.                                *)
(***************************************************************************)
EXTENDS ResultRows, Sequences, FiniteSetsExt

CONSTANTS
  Results,   (* the sequences of results a call may be given               *)
  Filters,   (* the sets of corpus labels --filter may let through          *)
  SERIES,    (* how many colours there are                                 *)
  NULL

VARIABLES
  pc, runs,
  kept,        (* the corpus labels --filter lets through                   *)
  points,      (* per run: group -> key -> labels                           *)
  page,        (* the panels so far                                         *)
  right_bottom, data_top, body_bottom,
  wtop         (* NULL while the variable has no value                      *)

vars == <<pc, runs, kept, points, page, right_bottom, data_top, body_bottom, wtop>>

Runs == DOMAIN runs
MaxOf(a, b) == IF a > b THEN a ELSE b

----------------------------------------------------------------------------
(* aggregate. *)

Rows(i, g) == Collected(runs[i].rows, g, kept)
OfKey(i, g, k) == {n \in Rows(i, g) : Key(n, g) = k}

\* Mutant: every run is summarised over the files it has.
SharedOwn(i, g, k) == LabelsOf(OfKey(i, g, k))

\* What the runs that have any of it have in common.
Whole(sets) == Common(sets \ {{}})

\* The files common to the runs that have the key.
Shared(i, g, k) == Whole({LabelsOf(OfKey(r, g, k)) : r \in Runs})

CommonInflate == Whole({LabelsOf(Rows(r, "inflate")) : r \in Runs})

KeysOf(i, g)  == Keys(Rows(i, g), g)
NonEmpty(f)   == [k \in {j \in DOMAIN f : f[j] # {}} |-> f[k]]
Plain(i)      == {k \in KeysOf(i, "deflate") : k[2] = ""}

DeflatePoints(i) ==
  NonEmpty([k \in KeysOf(i, "deflate") |-> Summed(Shared(i, "deflate", k))])

WbitsPoints(i) == NonEmpty([k \in KeysOf(i, "wbits") |-> Shared(i, "wbits", k)])

\* The common tars or files, or what this run has where nothing is common.
InflatePoint(i) ==
  LET own == LabelsOf(Rows(i, "inflate"))
      bar == Summed(CommonInflate)
  IN IF bar # {} THEN bar \cap own ELSE own

\* Tars are preferred run by run.
ChunkedPoints(i) ==
  LET mine == Rows(i, "chunked")
      used == {n \in mine : n.label \in Summed(LabelsOf(mine))}
  IN [k \in Keys(used, "chunked") |-> {n.label : n \in {m \in used : Key(m, "chunked") = k}}]

\* Stream counters at a plain level, where there are any symbols.
Anatomy(i) ==
  LET counted == {k[1] : k \in {j \in Plain(i) : Shared(i, "deflate", j) # {}}}
  IN [l \in {c \in counted : runs[i].syms[c] # <<0, 0, 0>>} |-> runs[i].syms[l]]

PointOf(i) ==
  [deflate |-> DeflatePoints(i), wbits |-> WbitsPoints(i), inflate |-> InflatePoint(i),
   inflate_files |-> FilesAlone(CommonInflate) \cap LabelsOf(Rows(i, "inflate")),
   deflate_files |-> UNION {{k[1]} \X FilesAlone(Shared(i, "deflate", k)) : k \in Plain(i)},
   comp |-> Anatomy(i),
   dispatch |-> IF runs[i].cp THEN CommonInflate \cap LabelsOf(Rows(i, "inflate")) ELSE {},
   inflate_data |-> KeysOf(i, "inflate_data") \cap
                      Whole({KeysOf(r, "inflate_data") : r \in Runs}),
   deflate_data |-> KeysOf(i, "deflate_data"), checksum |-> KeysOf(i, "checksum"),
   dist |-> {<<k[1], k[2]>> : k \in {j \in KeysOf(i, "dist") : j[1] = "codec_inflate" \/ j[3] = 6}},
   chunked |-> ChunkedPoints(i)]

Init ==
  /\ pc = "load" /\ runs \in Results /\ kept \in Filters
  /\ points = <<>> /\ page = <<>> /\ right_bottom = 0 /\ data_top = 0 /\ body_bottom = 0
  /\ wtop = NULL

\* main up to render.  With less than two results it ends.
Aggregate ==
  /\ pc = "load"
  /\ IF Len(runs) < 2 THEN pc' = "exit" /\ UNCHANGED points
     ELSE pc' = "legend" /\ points' = [i \in Runs |-> PointOf(i)]
  /\ UNCHANGED <<runs, kept, page, right_bottom, data_top, body_bottom, wtop>>

----------------------------------------------------------------------------
(* render: the right column, bars stacked downwards. *)

Has(group) == \E i \in Runs : points[i][group] # {}
AllOf(group) == UNION {points[i][group] : i \in Runs}
AllKeys(group) == UNION {DOMAIN points[i][group] : i \in Runs}

\* run_mems: whether a run has a peak, by direction.
HasMem(i, dir) ==
  runs[i].mem /\ IF dir = 1 THEN DOMAIN points[i].deflate # {} \/ points[i].deflate_data # {}
                 ELSE points[i].inflate # {} \/ points[i].inflate_data # {}

\* The end of the inflate bars, of the memory bars and of those of level 0.
BarsEnd == 122 + Len(runs) * (IF Len(runs) <= 2 THEN 66 ELSE 48)

MemEnd ==
  LET with(dir) == {i \in Runs : HasMem(i, dir)}
      block(dir) == IF with(dir) = {} THEN 0 ELSE 14 + 14 * Cardinality(with(dir)) + 8
  IN IF with(1) \cup with(2) = {} THEN BarsEnd + 8 ELSE BarsEnd + 56 + block(1) + block(2) + 12

Level0End ==
  LET with == {i \in Runs : <<0, "">> \in DOMAIN points[i].deflate}
  IN IF with = {} THEN MemEnd ELSE MemEnd + 38 + 14 * Cardinality(with) + 8 + 10

\* The colour of each run is looked up in SERIES before anything is drawn.
RightColumn ==
  /\ pc = "legend"
  /\ IF Len(runs) > SERIES THEN pc' = "raised" /\ UNCHANGED <<page, right_bottom>>
     ELSE /\ pc' = "deflate" /\ right_bottom' = Level0End
          /\ page' = <<[x0 |-> 800, x1 |-> 1040, y0 |-> 68, y1 |-> Level0End]>>
  /\ UNCHANGED <<runs, kept, points, data_top, body_bottom, wtop>>

\* Speed against ratio, as high as the right column.  Left out: the least of no
\* ratio above 0 (:720-722) and a strategy without a marker (:754) raise, but a row
\* that succeeded has a ratio, and the strategies are those the binaries name.
DeflatePanel ==
  /\ pc = "deflate"
  /\ LET ph == MaxOf(320, right_bottom - 100 - 40) IN
     IF AllKeys("deflate") \subseteq {<<0, "">>}
     THEN pc' = "exit" /\ UNCHANGED <<page, data_top, body_bottom>>
     ELSE /\ pc' = "checksum" /\ page' = Append(page, Panel(78, 682, 96, 44 + ph))
          /\ data_top' = MaxOf(512, MaxOf(100 + ph + 76, right_bottom + 36))
          /\ body_bottom' = MaxOf(456, right_bottom)
  /\ UNCHANGED <<runs, kept, points, right_bottom, wtop>>

----------------------------------------------------------------------------
(* render: the sections below. *)

\* n panels of width w side by side.
Facets(n, w, gap, top, below) ==
  [j \in 1..n |-> Panel(78 + (j - 1) * (w + gap), w, top, below)]

Draw(next, panels, bottom) ==
  /\ pc' = next
  /\ page' = page \o panels /\ body_bottom' = bottom
  /\ UNCHANGED <<runs, kept, points, right_bottom, data_top>>

Skip(next) == Draw(next, <<>>, body_bottom) /\ UNCHANGED wtop

Raise == pc' = "raised"
  /\ UNCHANGED <<runs, kept, points, page, right_bottom, data_top, body_bottom, wtop>>

ChecksumFacets ==
  /\ pc = "checksum"
  /\ LET kinds == {k[1] : k \in AllOf("checksum")} IN
     IF kinds = {} THEN Skip("types")
     ELSE /\ Draw("types", Facets(Cardinality(kinds), 459, 24, data_top, 200), data_top + 214)
          /\ UNCHANGED wtop

TypeRows(n) == (n + 1) \div 2

TypeFacets ==
  /\ pc = "types"
  /\ LET types == {k[1] : k \in AllOf("deflate_data")}
         gtop  == (IF Has("checksum") THEN body_bottom + 66 ELSE data_top) + 18
         facet(j) == [x0 |-> 78 + (j % 2) * 483, x1 |-> 537 + (j % 2) * 483,
                      y0 |-> gtop + (j \div 2) * 218 - 15, y1 |-> gtop + (j \div 2) * 218 + 182]
     IN IF \A k \in AllOf("deflate_data") : k[2] = 0 THEN Skip("wbits")
        ELSE /\ Draw("wbits",
                     <<[x0 |-> 78, x1 |-> 1020, y0 |-> gtop - 46, y1 |-> gtop - 32]>>
                       \o [j \in 1..Cardinality(types) |-> facet(j - 1)],
                     gtop + TypeRows(Cardinality(types)) * 218 - 48 + 20)
             /\ UNCHANGED wtop

\* Mutant: one level is not worth a panel.
WbitsPanelLevels ==
  /\ pc = "wbits"
  /\ IF Cardinality({k[1] : k \in AllKeys("wbits")}) < 2 THEN Skip("chunked")
     ELSE /\ Draw("chunked", <<Panel(78, 459, body_bottom + 66, 204)>>, body_bottom + 66 + 214)
          /\ wtop' = body_bottom + 66

WbitsPanel ==
  /\ pc = "wbits"
  /\ IF AllKeys("wbits") = {} THEN Skip("chunked")
     ELSE /\ Draw("chunked", <<Panel(78, 459, body_bottom + 66, 204)>>, body_bottom + 66 + 214)
          /\ wtop' = body_bottom + 66

\* Beside the windowBits panel, whose wtop it takes.
ChunkedPanel ==
  /\ pc = "chunked"
  /\ IF AllKeys("chunked") = {} THEN Skip("dist")
     ELSE IF wtop = NULL THEN Raise
     ELSE /\ Draw("dist", <<Panel(561, 459, wtop, 198)>>, body_bottom)
          /\ UNCHANGED wtop

DistFacets ==
  /\ pc = "dist"
  /\ LET kinds == {k[1] : k \in AllOf("dist")} IN
     IF kinds = {} THEN Skip("files")
     ELSE /\ Draw("files", Facets(Cardinality(kinds), 459, 24, body_bottom + 66, 200),
                  body_bottom + 66 + 214)
          /\ UNCHANGED wtop

FilesAt(level) == {f[2] : f \in {g \in AllOf("deflate_files") : g[1] = level}}

FileFacets ==
  /\ pc = "files"
  /\ LET n == Cardinality({g \in {"deflate", "inflate"} :
                Cardinality(IF g = "deflate" THEN FilesAt(6) ELSE AllOf("inflate_files")) > 1})
     IN IF n = 0 THEN Skip("size9")
        ELSE /\ Draw("size9", Facets(n, 459, 24, body_bottom + 56, 193), body_bottom + 56 + 202)
             /\ UNCHANGED wtop

\* The run sizes are relative to: madler_zlib, or the first.
Reference ==
  IF \E i \in Runs : runs[i].name = "madler_zlib"
  THEN CHOOSE i \in Runs : /\ runs[i].name = "madler_zlib"
                           /\ \A j \in 1..i - 1 : runs[j].name # "madler_zlib"
  ELSE 1

\* Only the caption, and nothing moved on, if the reference has no level 9.
SizePanel ==
  /\ pc = "size9"
  /\ IF Cardinality(FilesAt(9)) <= 1 THEN Skip("comp")
     ELSE /\ IF \E f \in points[Reference].deflate_files : f[1] = 9
             THEN Draw("comp", <<Panel(78, 942, body_bottom + 56, 194)>>, body_bottom + 56 + 202)
             ELSE Draw("comp", <<Panel(78, 942, body_bottom + 56, -18)>>, body_bottom)
          /\ UNCHANGED wtop

CompLevels == AllKeys("comp") \ {0}

\* The values of one of the three facets.
Measured(m) ==
  {points[r[1]].comp[r[2]][m] : r \in {q \in Runs \X CompLevels : q[2] \in DOMAIN points[q[1]].comp}} \ {0}

\* Each scale divides by the difference of its largest and smallest value.
Flat == \E m \in 1..3 : Cardinality(Measured(m)) < 2

AnatomyFacets ==
  /\ pc = "comp"
  /\ IF Cardinality(CompLevels) < 2 THEN Skip("dispatch")
     ELSE IF Flat THEN Raise
     ELSE /\ Draw("dispatch", Facets(3, 298, 24, body_bottom + 56, 198), body_bottom + 56 + 210)
          /\ UNCHANGED wtop

\* The rows of the first run that has any.
DispatchRows ==
  LET with == {i \in Runs : points[i].dispatch # {}} IN
  IF with = {} THEN 0
  ELSE Cardinality(points[CHOOSE i \in with : \A j \in with : i <= j].dispatch)

DispatchPanel ==
  /\ pc = "dispatch"
  /\ IF DispatchRows < 2 THEN Skip("written")
     ELSE /\ Draw("written", <<Panel(78, 942, body_bottom + 56, 22 * DispatchRows)>>,
                  body_bottom + 56 + 22 * DispatchRows + 20)
          /\ UNCHANGED wtop

\* footnote: 28 and more below the body, the first line 10 high.
FootnoteTop == body_bottom + 28 - 12 - 10

Next ==
  \/ Aggregate \/ RightColumn \/ DeflatePanel \/ ChecksumFacets \/ TypeFacets \/ WbitsPanel
  \/ ChunkedPanel \/ DistFacets \/ FileFacets \/ SizePanel \/ AnatomyFacets \/ DispatchPanel

----------------------------------------------------------------------------
Alike(labels) == Tars(labels) \in {{}, labels}

(* The plain deflate points of one key are means of the same files for all   *)
(* runs, of tars alone where there are any; so are the points of one window   *)
(* size; so are the inflate bars if the runs that inflate have a file in     *)
(* common.  It says nothing of the streaming windows, which are of each run's *)
(* own tars or, without any, its own files (:304-317), nor of inflate bars    *)
(* with no file in common, which are of each run's own (:242): of these the  *)
(* promise of :164-165 ("codecs summarize identical inputs") is not kept.     *)
SameInputs ==
  points # <<>> =>
    \A i, j \in Runs :
      /\ \A g \in {"deflate", "wbits"} : \A k \in DOMAIN points[i][g] \cap DOMAIN points[j][g] :
           points[i][g][k] = points[j][g][k]
      /\ \A k \in DOMAIN points[i].deflate : Alike(points[i].deflate[k])
      /\ CommonInflate # {} /\ {} \notin {points[i].inflate, points[j].inflate} =>
           points[i].inflate = points[j].inflate /\ Alike(points[i].inflate)

(* No section is drawn over another or off the page, whatever the runs have, *)
(* unless the reference has no level 9 where other runs do.                 *)
PanelsApart ==
  pc = "written" /\ (FilesAt(9) # {} => \E f \in points[Reference].deflate_files : f[1] = 9) =>
    Apart(page) /\ Within(page, 1080, FootnoteTop)

(* A chart of two runs or more, with a point above level 0, fails for one of *)
(* three reasons: an eleventh run, streaming windows without a windowBits    *)
(* panel, and stream counters that are the same at all levels of all runs.   *)
(* Rows no result of this repository's binaries has may fail in other ways,  *)
(* which DeflatePanel leaves out.                                           *)
ChartIsWritten ==
  /\ pc = "raised" => \/ Len(runs) > SERIES
                      \/ AllKeys("chunked") # {} /\ AllKeys("wbits") = {}
                      \/ Cardinality(CompLevels) > 1 /\ Flat
  /\ pc = "exit" => Len(runs) < 2 \/ \A i \in Runs : DOMAIN points[i].deflate \subseteq {<<0, "">>}
=============================================================================
