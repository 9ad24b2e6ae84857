------------------------------- MODULE Charts -------------------------------
(***************************************************************************)
(* The scripts of src/scripts that draw: a call of any of them on any of    *)
(* its inputs.  One process runs one of them from its start to its end, so  *)
(* they share the variables here, each taking as many as it has and leaving  *)
(* the rest NULL; its own names for them are in its module.                 *)
(***************************************************************************)
EXTENDS Integers, Sequences, FiniteSets

CONSTANTS
  Archives, Lengths, Inserted, Pixels, BLOCK, BYTE,       (* insert_map.py    *)
  Files, WINDOW, SCAN, BLOCKS, MIN_MATCH, MaxLength, DistCaps, LenCaps,
                                                    (* profile_corpus.py *)
  Results, Filters, SERIES,                               (* graph_runs.py    *)
  Ladders, Kept, ALL,                                     (* compare_levels.py *)
  Pairs, Calls, NOISE_FLOOR, NOISE_CVS,  (* compare_inputs.py, frontier.py    *)
  Slots, Dots, STEP, TOL, NEAR,                           (* their markers    *)
  NULL

\* A file and the entries of a tar are a number of bytes long.
ASSUME MapAssumption ==
  /\ BLOCK \in Nat \ {0} /\ BYTE \in Nat \ {0} /\ Pixels \subseteq Nat \ {0}
  /\ Lengths \subseteq Nat /\ Archives \subseteq Seq([regular : BOOLEAN, size : Nat])

\* The keys of the history in front of a range lie in the range; no distance passes
\* the last of its buckets, nor does a length.
ASSUME ParseAssumption ==
  /\ {WINDOW, SCAN, BLOCKS, MIN_MATCH, MaxLength} \subseteq Nat \ {0} /\ MaxLength >= MIN_MATCH
  /\ WINDOW <= SCAN /\ WINDOW + MIN_MATCH <= SCAN + 2
  /\ DistCaps \in Seq(Nat) \ {<<>>} /\ DistCaps[Len(DistCaps)] = WINDOW
  /\ LenCaps \in Seq(Nat) \ {<<>>} /\ LenCaps[Len(LenCaps)] >= MaxLength
  /\ Files \subseteq Seq(0..255)

\* Results are documents, which are finite; the names their rows are read by are
\* those of four operations (NAME_RE and CHECKSUM_RE of graph_runs.py).
ASSUME ResultsAssumption ==
  \A rs \in Results \cup Ladders :
    /\ Len(rs) \in Nat /\ DOMAIN rs = 1..Len(rs)
    /\ \A i \in DOMAIN rs :
         /\ IsFiniteSet(rs[i].rows)
         /\ \A row \in rs[i].rows :
              row.op \in {"codec_deflate", "codec_inflate", "codec_crc32", "codec_adler32"}
ASSUME NullAssumption   == NULL \notin Int
ASSUME SeriesAssumption == SERIES \in Nat \ {0}
ASSUME NoiseAssumption  == NOISE_FLOOR \in Nat \ {0} /\ NOISE_CVS \in Nat

\* Two finite documents; sizes, times and their cvs are not negative; and a row
\* without a level has level -1.
ASSUME InputsAssumption ==
  /\ \A p \in Pairs : \A i \in 1..2 :
       /\ IsFiniteSet(p[i])
       /\ \A r \in p[i] : {r.size, r.time, r.cv} \subseteq Nat /\ r.name.level \in Nat \cup {-1}
  /\ \A c \in Calls : c.script \in {"inputs", "frontier"} /\ c.columns \in Nat /\ c.width \in Nat

\* Series are numbered, and there are finitely many; positions are whole pixels.
ASSUME MarkersAssumption ==
  /\ STEP \in Nat /\ TOL \in Nat /\ NEAR \in Nat \ {0}
  /\ \A f \in Slots : /\ IsFiniteSet(DOMAIN f) /\ DOMAIN f \subseteq Nat
                      /\ \A i \in DOMAIN f : f[i] \in Int
  /\ Dots \subseteq Seq(Int \X Int)

VARIABLES script, pc, v1, v2, v3, v4, v5, v6, v7, v8, v9, v10, v11

vars == <<script, pc, v1, v2, v3, v4, v5, v6, v7, v8, v9, v10, v11>>

Map == INSTANCE InsertMap WITH
  archive <- v1, n <- v2, bits <- v3, perFile <- v4, off <- v5, entry <- v6,
  members <- v7, pixel <- v8, dens <- v9, todo <- v10, table <- v11

Profile == INSTANCE GreedyParse WITH
  data <- v1, ranges <- v2, pos <- v3, table <- v4, lit <- v5, dist_bytes <- v6,
  len_bytes <- v7, bars <- v8, matches <- v9

Graph == INSTANCE GraphRuns WITH
  runs <- v1, kept <- v2, points <- v3, page <- v4, right_bottom <- v5,
  data_top <- v6, body_bottom <- v7, wtop <- v8

Levels == INSTANCE CompareLevels WITH
  Results <- Ladders, runs <- v1, kept <- v2, opts <- v3, rows <- v4, tables <- v5,
  page <- v6, bottom <- v7

Inputs == INSTANCE CompareInputs WITH
  runs <- v1, call <- v2, rows <- v3, labels <- v4, levels <- v5, grids <- v6,
  rings <- v7, page <- v8

Marks == INSTANCE Markers WITH
  pts <- v1, todo <- v2, cluster <- v3, out <- v4, placed <- v5


Init ==
  \/ script = "insert_map" /\ Map!Init
  \/ script = "profile" /\ Profile!Init /\ v10 = NULL /\ v11 = NULL
  \/ script = "graph_runs" /\ Graph!Init /\ v9 = NULL /\ v10 = NULL /\ v11 = NULL
  \/ /\ script = "compare_levels" /\ Levels!Init
     /\ v8 = NULL /\ v9 = NULL /\ v10 = NULL /\ v11 = NULL
  \/ script = "by_input" /\ Inputs!Init /\ v9 = NULL /\ v10 = NULL /\ v11 = NULL
  \/ /\ script = "markers" /\ Marks!Init
     /\ v6 = NULL /\ v7 = NULL /\ v8 = NULL /\ v9 = NULL /\ v10 = NULL /\ v11 = NULL

Next ==
  /\ UNCHANGED script
  /\ \/ script = "insert_map" /\ Map!Next
     \/ script = "profile" /\ Profile!Next /\ UNCHANGED <<v10, v11>>
     \/ script = "graph_runs" /\ Graph!Next /\ UNCHANGED <<v9, v10, v11>>
     \/ script = "compare_levels" /\ Levels!Next /\ UNCHANGED <<v8, v9, v10, v11>>
     \/ script = "by_input" /\ Inputs!Next /\ UNCHANGED <<v9, v10, v11>>
     \/ script = "markers" /\ Marks!Next /\ UNCHANGED <<v6, v7, v8, v9, v10, v11>>

Spec == Init /\ [][Next]_vars

----------------------------------------------------------------------------
(* The pixels of a map or of a member count each marked position once, at    *)
(* any alignment; a member's row takes in every pixel that lies in it; and   *)
(* insert_map.py divides by zero only for a member that is empty or that     *)
(* the file breaks off before.                                              *)
MapAddsUp == script = "insert_map" => Map!MapAddsUp

(* profile_corpus.py accounts for every byte it scans, once, as a literal    *)
(* or as part of a copy from within the window; its two ways to count the    *)
(* matched bytes agree; and the bars fill their rows.                       *)
ParseAccounts == script = "profile" => Profile!ParseAccounts

(* The sums of compare_levels.py are of the same files for every run, level   *)
(* and strategy, and so are, for each key, the deflate and the window size   *)
(* points of graph_runs.py, of tars alone where there are any; its inflate   *)
(* bars are if the runs that inflate have a file in common.  Left out are    *)
(* bars of runs that have none, and the streaming windows: those are of each  *)
(* run's own files, against graph_runs.py:164-165.                           *)
SameInputs ==
  /\ script = "graph_runs" => Graph!SameInputs
  /\ script = "compare_levels" => Levels!SumsAlike

(* Nothing is drawn over something else or off the page, whichever sections, *)
(* tables or panels the results call for, except below a size panel that     *)
(* has no reference; and points of runs with the same values stay visible:   *)
(* graph_runs.py moves them apart, compare_levels.py draws the first three   *)
(* on a spot smaller and smaller.                                           *)
NothingHidden ==
  /\ script = "graph_runs" => Graph!PanelsApart
  /\ script = "by_input" => Inputs!InputsApart
  /\ script = "markers" => Marks!MarkersSeen

(* What the runs have is shown.  compare_levels.py: each level of a strategy  *)
(* that any run has rows of, and the options keep, has its line in the one   *)
(* table of the strategy.  compare_inputs.py: each input and level that both *)
(* runs have measured, and the options keep, has a cell with its change in   *)
(* either grid.  Neither shows anything else, and neither gives up where     *)
(* there is something to show.                                              *)
NothingMissing ==
  /\ script = "compare_levels" => Levels!TablesComplete
  /\ script = "by_input" => Inputs!GridsComplete

(* A chart of two runs or more, with a point above level 0, fails for one of *)
(* three reasons: an eleventh run, streaming windows without a windowBits    *)
(* panel, and stream counters that are the same at all levels of all runs    *)
(* (of results as this repository's binaries write them).                   *)
ChartIsWritten == script = "graph_runs" => Graph!ChartIsWritten

(* A ring of frontier.py stands for a point of the other run that is as      *)
(* small and clearly faster, the fastest point of a panel has none, and the  *)
(* grids of compare_inputs.py agree with a ring at one level.               *)
RingsSound == script = "by_input" => Inputs!RingsSound
=============================================================================
