---------------------------- MODULE ChartsProofs ----------------------------
(***************************************************************************)
(* Proofs about the scripts that draw, for any results and inputs.  They   *)
(* share the variables of Charts: an invariant of one of them is stated    *)
(* for script being that one, and a step of another one leaves it true.    *)
(*                                                                         *)
(* graph_runs.py: GraphInv says where the next panel may start, and that   *)
(* those drawn end above it; MarksInv, how far the series of a slot have   *)
(* been moved apart.  compare_inputs.py and frontier.py: InputsInv says    *)
(* what is shown, and what of it is drawn.  compare_levels.py: LevelsInv   *)
(* says what has been read and which tables have been made of it.          *)
(*                                                                         *)
(* insert_map.py: MapInv says which rows there are and that each adds up    *)
(* to the positions marked in it.  profile_corpus.py: ParseInv, how far a   *)
(* file has been parsed, that the matches so far are copies in the ranges   *)
(* that are done, and what has been counted against what was passed.       *)
(***************************************************************************)
EXTENDS Charts, FoldTheorems

----------------------------------------------------------------------------
(* The same inputs for every run: graph_runs.py and compare_levels.py. *)

\* The points are aggregated once, of what the call has loaded.
GraphPoints ==
  script = "graph_runs" => v3 \in {<<>>, [i \in Graph!Runs |-> Graph!PointOf(i)]}

\* So are the ladders, which are then narrowed.
LevelRows ==
  script = "compare_levels" =>
    v4 \in {<<>>, [i \in Levels!Runs |-> Levels!Narrowed(Levels!level_rows(i))]}

\* Tars stand for their files: what is summed is tars alone, or has none.
LEMMA SummedAlike ==
  ASSUME NEW L
  PROVE  /\ Graph!Tars(Graph!Summed(L)) \in {{}, Graph!Summed(L)}
         /\ Levels!Tars(Levels!Summed(L)) \in {{}, Levels!Summed(L)}
         /\ Graph!Summed(L) \subseteq L /\ (L # {} => Graph!Summed(L) # {})
BY DEF Graph!Tars, Graph!Summed, Levels!Tars, Levels!Summed

\* What is asked of the loaded results does not change while they do not.
LEMMA GraphSame ==
  ASSUME v1' = v1, v2' = v2
  PROVE  /\ Graph!Runs' = Graph!Runs
         /\ \A i : Graph!PointOf(i)' = Graph!PointOf(i)
<1>1. Graph!Runs' = Graph!Runs
  BY DEF Graph!Runs
<1>2. \A i, g : Graph!Rows(i, g)' = Graph!Rows(i, g)
  BY DEF Graph!Rows
<1>3. \A i, g, k : Graph!OfKey(i, g, k)' = Graph!OfKey(i, g, k)
  BY <1>2, Zenon DEF Graph!OfKey
<1>4. \A i, g, k : Graph!Shared(i, g, k)' = Graph!Shared(i, g, k)
  BY <1>1, <1>3, Zenon DEF Graph!Shared
<1>5. Graph!CommonInflate' = Graph!CommonInflate
  BY <1>1, <1>2, Zenon DEF Graph!CommonInflate
<1>6. \A i, g : Graph!KeysOf(i, g)' = Graph!KeysOf(i, g)
  BY <1>2, Zenon DEF Graph!KeysOf
<1>7. \A i : Graph!Plain(i)' = Graph!Plain(i)
  BY <1>6, Zenon DEF Graph!Plain
<1>8. \A i : Graph!DeflatePoints(i)' = Graph!DeflatePoints(i)
  BY <1>4, <1>6, Zenon DEF Graph!DeflatePoints
<1>9. \A i : Graph!WbitsPoints(i)' = Graph!WbitsPoints(i)
  BY <1>4, <1>6, Zenon DEF Graph!WbitsPoints
<1>10. \A i : Graph!InflatePoint(i)' = Graph!InflatePoint(i)
  BY <1>2, <1>5, Zenon DEF Graph!InflatePoint
<1>11. \A i : Graph!ChunkedPoints(i)' = Graph!ChunkedPoints(i)
  BY <1>2, Zenon DEF Graph!ChunkedPoints
<1>12. \A i : Graph!Anatomy(i)' = Graph!Anatomy(i)
  BY <1>4, <1>7, Zenon DEF Graph!Anatomy
<1> QED BY <1>1, <1>2, <1>4, <1>5, <1>6, <1>7, <1>8, <1>9, <1>10, <1>11, <1>12, Zenon DEF Graph!PointOf

\* After the points are made, nothing changes them or what they are made of.
LEMMA GraphKeeps ==
  ASSUME Graph!Next
  PROVE  UNCHANGED <<v1, v2>> /\ (Graph!Aggregate \/ v3' = v3)
<1>1. CASE Graph!Aggregate
  BY <1>1 DEF Graph!Aggregate
<1>2. CASE Graph!RightColumn
  BY <1>2 DEF Graph!RightColumn
<1>3. CASE Graph!DeflatePanel
  BY <1>3 DEF Graph!DeflatePanel
<1>4. CASE Graph!ChecksumFacets
  BY <1>4 DEF Graph!ChecksumFacets, Graph!Skip, Graph!Draw
<1>5. CASE Graph!TypeFacets
  BY <1>5 DEF Graph!TypeFacets, Graph!Skip, Graph!Draw
<1>6. CASE Graph!WbitsPanel
  BY <1>6 DEF Graph!WbitsPanel, Graph!Skip, Graph!Draw
<1>7. CASE Graph!ChunkedPanel
  BY <1>7 DEF Graph!ChunkedPanel, Graph!Skip, Graph!Draw, Graph!Raise
<1>8. CASE Graph!DistFacets
  BY <1>8 DEF Graph!DistFacets, Graph!Skip, Graph!Draw
<1>9. CASE Graph!FileFacets
  BY <1>9 DEF Graph!FileFacets, Graph!Skip, Graph!Draw
<1>10. CASE Graph!SizePanel
  BY <1>10 DEF Graph!SizePanel, Graph!Skip, Graph!Draw
<1>11. CASE Graph!AnatomyFacets
  BY <1>11 DEF Graph!AnatomyFacets, Graph!Skip, Graph!Draw, Graph!Raise
<1>12. CASE Graph!DispatchPanel
  BY <1>12 DEF Graph!DispatchPanel, Graph!Skip, Graph!Draw
<1> QED BY <1>1, <1>2, <1>3, <1>4, <1>5, <1>6, <1>7, <1>8, <1>9, <1>10, <1>11, <1>12 DEF Graph!Next

\* The points are those of the runs, whatever step is taken.
LEMMA GraphPointsStep ==
  ASSUME GraphPoints, [Next]_vars
  PROVE  GraphPoints'
<1> SUFFICES ASSUME script' = "graph_runs" PROVE GraphPoints'
  BY DEF GraphPoints
<1>1. script = "graph_runs" /\ (Graph!Next \/ UNCHANGED vars)
  BY DEF Next, vars
<1>2. UNCHANGED <<v1, v2>> /\ (Graph!Aggregate \/ v3' = v3)
  BY <1>1, GraphKeeps DEF vars
<1>3. CASE v3' = v3
  BY <1>1, <1>2, <1>3, GraphSame, Zenon DEF GraphPoints
<1>4. CASE Graph!Aggregate
  <2>1. v3' \in {v3, [i \in Graph!Runs |-> Graph!PointOf(i)]}
    BY <1>4 DEF Graph!Aggregate
  <2> QED BY <1>1, <1>2, <2>1, GraphSame, Zenon DEF GraphPoints
<1> QED BY <1>2, <1>3, <1>4

\* The ladders are a function of what was loaded, which later steps leave alone.
LEMMA LevelsSame ==
  ASSUME v1' = v1, v2' = v2, v3' = v3
  PROVE  /\ [i \in Levels!Runs |-> Levels!Narrowed(Levels!level_rows(i))]' =
            [i \in Levels!Runs |-> Levels!Narrowed(Levels!level_rows(i))]
         /\ Levels!SummedFiles' = Levels!SummedFiles
         /\ Levels!Found' = Levels!Found /\ Levels!Asked' = Levels!Asked
<1>1. Levels!Runs' = Levels!Runs
  BY DEF Levels!Runs
<1>2. \A i : Levels!Deflates(i)' = Levels!Deflates(i)
  BY DEF Levels!Deflates
<1>3. \A i, k : Levels!FilesOf(i, k)' = Levels!FilesOf(i, k)
  BY <1>2, Zenon DEF Levels!FilesOf
<1>4. Levels!SummedFiles' = Levels!SummedFiles
  <2> DEFINE Of(i) == {Levels!FilesOf(i, j) : j \in Levels!Keys(Levels!Deflates(i), "deflate")}
  <2>1. \A i : Of(i)' = Of(i)
    BY <1>2, <1>3, Zenon
  <2>2. Levels!SummedFiles = Levels!Summed(Levels!Common(UNION {Of(i) : i \in Levels!Runs}))
    BY DEF Levels!SummedFiles
  <2>3. Levels!SummedFiles' = Levels!Summed(Levels!Common(UNION {Of(i)' : i \in Levels!Runs'}))
    BY DEF Levels!SummedFiles
  <2> HIDE DEF Of
  <2> QED BY <1>1, <2>1, <2>2, <2>3, Zenon
<1>5. \A i : Levels!level_rows(i)' = Levels!level_rows(i)
  BY <1>2, <1>4, Zenon DEF Levels!level_rows
<1>6. \A i : Levels!Narrowed(Levels!level_rows(i))' = Levels!Narrowed(Levels!level_rows(i))
  BY <1>5, Zenon DEF Levels!Narrowed
<1>7. Levels!Found' = Levels!Found
  BY <1>1, <1>2, Zenon DEF Levels!Found
<1>8. Levels!Asked' = Levels!Asked
  BY <1>7, Zenon DEF Levels!Asked
<1> QED BY <1>1, <1>4, <1>6, <1>7, <1>8, Zenon

\* Load leaves nothing read, the next step reads all ladders, and the rest keep them.
LEMMA LevelRowsStep ==
  ASSUME LevelRows, [Next]_vars
  PROVE  LevelRows'
<1> SUFFICES ASSUME script' = "compare_levels" PROVE LevelRows'
  BY DEF LevelRows
<1> DEFINE all == [i \in Levels!Runs |-> Levels!Narrowed(Levels!level_rows(i))]
<1>1. script = "compare_levels" /\ (Levels!Next \/ UNCHANGED vars)
  BY DEF Next, vars
<1>2. UNCHANGED <<v1, v2, v3>>
  BY <1>1 DEF vars, Levels!Next, Levels!Load, Levels!Tables, Levels!Chart, Levels!Table, Levels!Written
<1>3. all' = all
  BY <1>2, LevelsSame
<1>4. v4' \in {v4, all}
  <2>1. CASE Levels!Load
    <3>1. \A i \in Levels!Runs : [j \in Levels!Runs |-> Levels!level_rows(j)][i] = Levels!level_rows(i)
      OBVIOUS
    <3> QED BY <2>1, <3>1 DEF Levels!Load
  <2>2. CASE ~Levels!Load
    BY <1>1, <2>2 DEF vars, Levels!Next, Levels!Tables, Levels!Chart, Levels!Table, Levels!Written
  <2> QED BY <2>1, <2>2
<1> QED BY <1>1, <1>3, <1>4, Zenon DEF LevelRows

\* Points made of what the runs share are of the same labels for every run.
LEMMA PointsAlike == GraphPoints => (script = "graph_runs" => Graph!SameInputs)
<1> SUFFICES ASSUME v3 = [i \in Graph!Runs |-> Graph!PointOf(i)]
             PROVE  Graph!SameInputs
  BY DEF GraphPoints, Graph!SameInputs
<1> SUFFICES ASSUME NEW i \in Graph!Runs, NEW j \in Graph!Runs
             PROVE  /\ \A g \in {"deflate", "wbits"} : \A k \in DOMAIN v3[i][g] \cap DOMAIN v3[j][g] :
                         v3[i][g][k] = v3[j][g][k]
                    /\ \A k \in DOMAIN v3[i].deflate : Graph!Alike(v3[i].deflate[k])
                    /\ Graph!CommonInflate # {} /\ {} \notin {v3[i].inflate, v3[j].inflate} =>
                         v3[i].inflate = v3[j].inflate /\ Graph!Alike(v3[i].inflate)
  BY Zenon DEF Graph!SameInputs
<1>1. /\ v3[i].deflate = Graph!DeflatePoints(i) /\ v3[j].deflate = Graph!DeflatePoints(j)
      /\ v3[i].wbits = Graph!WbitsPoints(i) /\ v3[j].wbits = Graph!WbitsPoints(j)
      /\ v3[i].inflate = Graph!InflatePoint(i) /\ v3[j].inflate = Graph!InflatePoint(j)
  BY DEF Graph!PointOf
<1> DEFINE Of(g, k) == Graph!Whole({Graph!LabelsOf(Graph!OfKey(r, g, k)) : r \in Graph!Runs})
<1>2. \A r : \A k \in DOMAIN Graph!DeflatePoints(r) :
        Graph!DeflatePoints(r)[k] = Graph!Summed(Of("deflate", k))
  BY DEF Graph!DeflatePoints, Graph!NonEmpty, Graph!Shared
<1>3. \A r : \A k \in DOMAIN Graph!WbitsPoints(r) : Graph!WbitsPoints(r)[k] = Of("wbits", k)
  BY DEF Graph!WbitsPoints, Graph!NonEmpty, Graph!Shared
<1> HIDE DEF Of
<1>4. \A k \in DOMAIN v3[i].deflate : Graph!Alike(v3[i].deflate[k])
  BY <1>1, <1>2, SummedAlike DEF Graph!Alike
<1> DEFINE own(r) == Graph!LabelsOf(Graph!Rows(r, "inflate"))
           bar == Graph!Summed(Graph!CommonInflate)
<1>5. ASSUME Graph!CommonInflate # {}, NEW r \in Graph!Runs, Graph!InflatePoint(r) # {}
      PROVE  Graph!InflatePoint(r) = bar
  <2>1. bar # {} /\ bar \subseteq Graph!CommonInflate
    BY <1>5, SummedAlike
  <2>2. Graph!InflatePoint(r) = bar \cap own(r)
    BY <2>1 DEF Graph!InflatePoint
  <2>3. own(r) # {}
    BY <1>5, <2>2
  <2>4. Graph!CommonInflate \subseteq own(r)
    BY <2>3 DEF Graph!CommonInflate, Graph!Whole, Graph!Common
  <2> QED BY <2>1, <2>2, <2>4
<1>6. Graph!Alike(bar)
  BY SummedAlike DEF Graph!Alike
<1> HIDE DEF bar
<1>7. Graph!CommonInflate # {} /\ {} \notin {v3[i].inflate, v3[j].inflate} =>
        v3[i].inflate = v3[j].inflate /\ Graph!Alike(v3[i].inflate)
  BY <1>1, <1>5, <1>6
<1> QED BY <1>1, <1>2, <1>3, <1>4, <1>7

\* Every entry of every ladder is of the files all ladders have.
LEMMA LaddersAlike == LevelRows => (script = "compare_levels" => Levels!SumsAlike)
<1> SUFFICES ASSUME v4 = [i \in Levels!Runs |-> Levels!Narrowed(Levels!level_rows(i))]
             PROVE  Levels!SumsAlike
  BY DEF LevelRows, Levels!SumsAlike
<1>1. ASSUME NEW i \in DOMAIN v4, NEW k \in DOMAIN v4[i]
      PROVE  v4[i][k] = Levels!SummedFiles
  BY DEF Levels!Narrowed, Levels!level_rows
<1>2. Levels!Tars(Levels!SummedFiles) \in {{}, Levels!SummedFiles}
  BY SummedAlike DEF Levels!SummedFiles
<1> QED BY <1>1, <1>2 DEF Levels!SumsAlike

(* Whatever rows the runs have and whatever labels are let through, the sums  *)
(* of compare_levels.py are of the same files for all runs, and so are the   *)
(* deflate and window size points of graph_runs.py, key by key, and its      *)
(* inflate bars if the runs that inflate share a file.  Nothing is said of    *)
(* bars of runs that share none, and of streaming windows, which are not.    *)
THEOREM SameInputsHolds == Spec => []SameInputs
<1>1. Init => GraphPoints /\ LevelRows
  BY DEF Init, Graph!Init, Levels!Init, GraphPoints, LevelRows
<1>2. GraphPoints /\ LevelRows /\ [Next]_vars => (GraphPoints /\ LevelRows)'
  BY GraphPointsStep, LevelRowsStep
<1>3. GraphPoints /\ LevelRows => SameInputs
  BY PointsAlike, LaddersAlike DEF SameInputs
<1> QED BY <1>1, <1>2, <1>3, PTL DEF Spec

----------------------------------------------------------------------------
(* graph_runs.py: the sections of the chart. *)

Sections ==
  {"checksum", "types", "wbits", "chunked", "dist", "files", "size9", "comp", "dispatch", "written"}

\* The reference has a size at level 9 where any run has.
SizesHaveReference ==
  Graph!FilesAt(9) # {} => \E f \in v3[Graph!Reference].deflate_files : f[1] = 9

\* Two runs or more, aggregated.
Aggregated ==
  /\ v1 \in Results /\ Len(v1) >= 2
  /\ v3 = [i \in Graph!Runs |-> Graph!PointOf(i)]

Panels == [x0 : Int, x1 : Int, y0 : Int, y1 : Int]

\* Panels that are apart and on the page, and end at bottom or, as the first one
\* may, a little below.
Laid(ps, bottom) ==
  /\ ps \in Seq(Panels) /\ Graph!Apart(ps)
  /\ \A i \in DOMAIN ps : ps[i].x0 >= 0 /\ ps[i].x1 <= 1080 /\ ps[i].y0 >= 0 /\ ps[i].y1 <= bottom + 4

LEMMA SameCardinality ==
  /\ \A S : Graph!Cardinality(S) = Cardinality(S)
BY Zenon DEF Graph!Cardinality, Cardinality

\* What the sections ask of the points does not change while these do not.
LEMMA GraphAsks ==
  ASSUME v1' = v1, v2' = v2, v3' = v3
  PROVE  /\ Graph!Runs' = Graph!Runs
         /\ \A g : /\ Graph!Has(g)' = Graph!Has(g)
                   /\ Graph!AllOf(g)' = Graph!AllOf(g)
                   /\ Graph!AllKeys(g)' = Graph!AllKeys(g)
         /\ Graph!CompLevels' = Graph!CompLevels
         /\ Graph!Flat' = Graph!Flat
         /\ SizesHaveReference' = SizesHaveReference
         /\ Aggregated' = Aggregated
<1>1. Graph!Runs' = Graph!Runs
  BY DEF Graph!Runs
<1>2. \A g : /\ Graph!Has(g)' = Graph!Has(g) /\ Graph!AllOf(g)' = Graph!AllOf(g)
             /\ Graph!AllKeys(g)' = Graph!AllKeys(g)
  BY <1>1, Zenon DEF Graph!Has, Graph!AllOf, Graph!AllKeys
<1>3. Graph!CompLevels' = Graph!CompLevels
  BY <1>2, Zenon DEF Graph!CompLevels
<1>4. \A m : Graph!Measured(m)' = Graph!Measured(m)
  BY <1>1, <1>3, Zenon DEF Graph!Measured
<1>5. Graph!Flat' = Graph!Flat
  BY <1>4, Zenon DEF Graph!Flat
<1>6. \A l : Graph!FilesAt(l)' = Graph!FilesAt(l)
  BY <1>2, Zenon DEF Graph!FilesAt
<1>7. Graph!Reference' = Graph!Reference
  BY DEF Graph!Reference, Graph!Runs
<1>8. SizesHaveReference' = SizesHaveReference
  BY <1>6, <1>7, Zenon DEF SizesHaveReference
<1>9. Aggregated' = Aggregated
  BY GraphSame, Zenon DEF Aggregated
<1> QED BY <1>1, <1>2, <1>3, <1>5, <1>8, <1>9

\* What a run has is finite.
LEMMA GraphFinite ==
  ASSUME Aggregated
  PROVE  /\ Graph!Runs = 1..Len(v1) /\ Len(v1) \in Nat /\ IsFiniteSet(Graph!Runs)
         /\ \A i \in Graph!Runs : \A g : /\ IsFiniteSet(Graph!Rows(i, g))
                                    /\ IsFiniteSet(Graph!KeysOf(i, g))
<1>1. Graph!Runs = 1..Len(v1) /\ Len(v1) \in Nat
  BY ResultsAssumption DEF Aggregated, Graph!Runs
<1>2. IsFiniteSet(Graph!Runs)
  BY <1>1, FS_Interval
<1>3. ASSUME NEW i \in Graph!Runs, NEW g
      PROVE  IsFiniteSet(Graph!Rows(i, g)) /\ IsFiniteSet(Graph!KeysOf(i, g))
  <2>1. IsFiniteSet(v1[i].rows)
    BY ResultsAssumption DEF Aggregated, Graph!Runs
  <2>2. IsFiniteSet(Graph!Rows(i, g))
    <3>1. Graph!Rows(i, g) \subseteq v1[i].rows
      BY DEF Graph!Rows, Graph!Collected
    <3> QED BY <2>1, <3>1, FS_Subset
  <2>3. IsFiniteSet({Graph!Key(r, g) : r \in Graph!Rows(i, g)})
    <3> DEFINE key == [r \in Graph!Rows(i, g) |-> Graph!Key(r, g)]
    <3>1. IsFiniteSet({key[r] : r \in Graph!Rows(i, g)})
      BY <2>2, FiniteImage
    <3>2. {key[r] : r \in Graph!Rows(i, g)} = {Graph!Key(r, g) : r \in Graph!Rows(i, g)}
      OBVIOUS
    <3> QED BY <3>1, <3>2
  <2> QED BY <2>2, <2>3 DEF Graph!KeysOf, Graph!Keys
<1> QED BY <1>1, <1>2, <1>3

\* The points of a run, taken apart.
LEMMA PointFields ==
  ASSUME Aggregated, NEW i \in Graph!Runs
  PROVE  /\ v3[i].checksum = Graph!KeysOf(i, "checksum")
         /\ v3[i].dist = {<<k[1], k[2]>> : k \in {j \in Graph!KeysOf(i, "dist") :
                                                   j[1] = "codec_inflate" \/ j[3] = 6}}
         /\ v3[i].deflate_data = Graph!KeysOf(i, "deflate_data")
         /\ v3[i].comp = Graph!Anatomy(i)
         /\ v3[i].dispatch = IF v1[i].cp THEN Graph!CommonInflate \cap Graph!LabelsOf(Graph!Rows(i, "inflate"))
                             ELSE {}
BY DEF Aggregated, Graph!PointOf

\* There is a facet for either checksum, and one for either direction of the periods.
LEMMA KindsOfTwo ==
  ASSUME Aggregated
  PROVE  /\ {k[1] : k \in Graph!AllOf("checksum")} \subseteq {"codec_crc32", "codec_adler32"}
         /\ {k[1] : k \in Graph!AllOf("dist")} \subseteq {"codec_deflate", "codec_inflate"}
<1>1. ASSUME NEW k \in Graph!AllOf("checksum") PROVE k[1] \in {"codec_crc32", "codec_adler32"}
  <2>1. PICK i \in Graph!Runs : k \in Graph!KeysOf(i, "checksum")
    BY <1>1, PointFields DEF Graph!AllOf
  <2>2. PICK r \in Graph!Rows(i, "checksum") : k = Graph!Key(r, "checksum")
    BY <2>1 DEF Graph!KeysOf, Graph!Keys
  <2>3. k[1] = r.op
    BY <2>2 DEF Graph!Key
  <2>4. Graph!Group(r, v2) = "checksum"
    BY <2>2 DEF Graph!Rows, Graph!Collected
  <2> QED BY <2>3, <2>4 DEF Graph!Group
<1>2. ASSUME NEW k \in Graph!AllOf("dist") PROVE k[1] \in {"codec_deflate", "codec_inflate"}
  <2>1. PICK i \in Graph!Runs : k \in v3[i].dist
    BY <1>2 DEF Graph!AllOf
  <2>2. PICK j \in Graph!KeysOf(i, "dist") : k[1] = j[1]
    <3>1. v3[i].dist = {<<j[1], j[2]>> : j \in {m \in Graph!KeysOf(i, "dist") :
                                                m[1] = "codec_inflate" \/ m[3] = 6}}
      BY PointFields
    <3>2. PICK j \in Graph!KeysOf(i, "dist") : k = <<j[1], j[2]>>
      BY <2>1, <3>1
    <3> QED BY <3>2
  <2>3. PICK r \in Graph!Rows(i, "dist") : j = Graph!Key(r, "dist")
    BY <2>2 DEF Graph!KeysOf, Graph!Keys
  <2>4. j[1] = r.op
    BY <2>3 DEF Graph!Key
  <2>5. Graph!Group(r, v2) = "dist" /\ r \in v1[i].rows
    BY <2>3 DEF Graph!Rows, Graph!Collected
  <2>6. r.op \in {"codec_deflate", "codec_inflate", "codec_crc32", "codec_adler32"}
    BY <2>1, <2>5, ResultsAssumption DEF Aggregated, Graph!Runs
  <2> QED BY <2>2, <2>4, <2>5, <2>6 DEF Graph!Group
<1> QED BY <1>1, <1>2

\* Finitely many runs have finitely many data types.
LEMMA TypesFinite ==
  ASSUME Aggregated
  PROVE  IsFiniteSet({k[1] : k \in Graph!AllOf("deflate_data")})
<1> DEFINE f == [i \in Graph!Runs |-> v3[i].deflate_data]
<1>1. IsFiniteSet(Graph!Runs) /\ \A i \in Graph!Runs : IsFiniteSet(f[i])
  BY GraphFinite, PointFields
<1>2. IsFiniteSet(UNION {f[i] : i \in Graph!Runs})
  <2> HIDE DEF f
  <2> QED BY <1>1, FiniteUnion
<1>3. UNION {f[i] : i \in Graph!Runs} = Graph!AllOf("deflate_data")
  BY DEF Graph!AllOf
<1>4. IsFiniteSet(Graph!AllOf("deflate_data"))
  BY <1>2, <1>3
<1> QED BY <1>4, FirstsFinite

\* They have finitely many levels as well.
LEMMA LevelsFinite ==
  ASSUME Aggregated
  PROVE  IsFiniteSet(Graph!CompLevels)
<1> DEFINE f == [i \in Graph!Runs |-> DOMAIN v3[i].comp]
<1>1. ASSUME NEW i \in Graph!Runs PROVE IsFiniteSet(f[i])
  <2>1. DOMAIN v3[i].comp \subseteq {k[1] : k \in Graph!KeysOf(i, "deflate")}
    <3> DEFINE of(P) == {k[1] : k \in {j \in P : Graph!Shared(i, "deflate", j) # {}}}
    <3>1. DOMAIN v3[i].comp \subseteq of(Graph!Plain(i))
      BY PointFields DEF Graph!Anatomy
    <3>2. Graph!Plain(i) \subseteq Graph!KeysOf(i, "deflate")
      BY DEF Graph!Plain
    <3> QED BY <3>1, <3>2
  <2>2. IsFiniteSet({k[1] : k \in Graph!KeysOf(i, "deflate")})
    BY GraphFinite, FirstsFinite
  <2>3. IsFiniteSet(DOMAIN v3[i].comp)
    BY <2>1, <2>2, FS_Subset
  <2> QED BY <2>3
<1>2. IsFiniteSet(UNION {f[i] : i \in Graph!Runs})
  <2> HIDE DEF f
  <2> QED BY <1>1, GraphFinite, FiniteUnion
<1>3. Graph!CompLevels \subseteq UNION {f[i] : i \in Graph!Runs}
  BY DEF Graph!CompLevels, Graph!AllKeys
<1> QED BY <1>2, <1>3, FS_Subset

\* The dispatch panel has a whole number of rows: those of the first run with the tables.
LEMMA DispatchRowsType ==
  ASSUME Aggregated
  PROVE  Graph!DispatchRows \in Nat
<1> DEFINE with == {i \in Graph!Runs : v3[i].dispatch # {}}
           first == CHOOSE i \in with : \A j \in with : i <= j
<1>1. CASE with = {}
  BY <1>1 DEF Graph!DispatchRows
<1>2. CASE with # {}
  <2>1. with \in SUBSET Nat
    BY GraphFinite
  <2>2. \E i \in with : \A j \in with : i <= j
    <3> HIDE DEF with
    <3> QED BY <1>2, <2>1, NatMinimum
  <2>3. first \in with
    BY <2>2, Zenon
  <2> HIDE DEF first
  <2>4. IsFiniteSet(v3[first].dispatch)
    <3>1. first \in Graph!Runs
      BY <2>3
    <3>2. IsFiniteSet(Graph!Rows(first, "inflate"))
      BY <3>1, GraphFinite
    <3> DEFINE f == [r \in Graph!Rows(first, "inflate") |-> r.label]
    <3>3. IsFiniteSet({f[r] : r \in Graph!Rows(first, "inflate")})
      BY <3>2, FiniteImage
    <3>4. {f[r] : r \in Graph!Rows(first, "inflate")} = Graph!LabelsOf(Graph!Rows(first, "inflate"))
      BY DEF Graph!LabelsOf
    <3>5. v3[first].dispatch \subseteq Graph!LabelsOf(Graph!Rows(first, "inflate"))
      BY <3>1, PointFields
    <3> QED BY <3>3, <3>4, <3>5, FS_Subset
  <2>5. Cardinality(v3[first].dispatch) \in Nat
    BY <2>4, FS_CardinalityType
  <2>6. Graph!DispatchRows = Graph!Cardinality(v3[first].dispatch)
    BY <1>2, Zenon DEF Graph!DispatchRows, first
  <2> QED BY <2>5, <2>6, SameCardinality
<1> QED BY <1>1, <1>2

\* The right column ends below its inflate bars, which start at 122.
LEMMA RightColumnEnd ==
  ASSUME Aggregated
  PROVE  Graph!Level0End \in Nat /\ Graph!Level0End >= 254
<1>1. \A S \in SUBSET Graph!Runs : Graph!Cardinality(S) \in Nat
  <2> SUFFICES ASSUME NEW S \in SUBSET Graph!Runs PROVE Graph!Cardinality(S) \in Nat
    OBVIOUS
  <2>1. Cardinality(S) \in Nat
    BY GraphFinite, FS_Subset, FS_CardinalityType
  <2> QED BY <2>1, SameCardinality
<1>2. Graph!BarsEnd \in Nat /\ Graph!BarsEnd >= 254
  BY GraphFinite DEF Graph!BarsEnd, Aggregated
<1> DEFINE with(dir) == {i \in Graph!Runs : Graph!HasMem(i, dir)}
           block(dir) == IF with(dir) = {} THEN 0 ELSE 14 + 14 * Graph!Cardinality(with(dir)) + 8
<1>3. block(1) \in Nat /\ block(2) \in Nat
  <2>1. Graph!Cardinality(with(1)) \in Nat /\ Graph!Cardinality(with(2)) \in Nat
    BY <1>1
  <2> HIDE DEF with
  <2> QED BY <2>1
<1>4. Graph!MemEnd = IF with(1) \cup with(2) = {} THEN Graph!BarsEnd + 8
                     ELSE Graph!BarsEnd + 56 + block(1) + block(2) + 12
  BY DEF Graph!MemEnd
<1>5. Graph!MemEnd \in Nat /\ Graph!MemEnd >= 254
  <2> HIDE DEF with, block
  <2> QED BY <1>2, <1>3, <1>4
<1> DEFINE zero == {i \in Graph!Runs : <<0, "">> \in DOMAIN v3[i].deflate}
<1>6. Graph!Level0End = IF zero = {} THEN Graph!MemEnd
                        ELSE Graph!MemEnd + 38 + 14 * Graph!Cardinality(zero) + 8 + 10
  BY DEF Graph!Level0End
<1>7. Graph!Cardinality(zero) \in Nat
  BY <1>1
<1> HIDE DEF zero
<1> QED BY <1>5, <1>6, <1>7

\* A panel is on the page above a line.
OnPage(p, end) == p.x0 >= 0 /\ p.x1 <= 1080 /\ p.y0 >= 0 /\ p.y1 <= end

\* Panels on the page, apart from each other and from those laid so far.
Beside(ps, b, c, qs) ==
  /\ b \in Nat /\ c \in Nat /\ c >= b /\ Laid(ps, b)
  /\ qs \in Seq(Panels) /\ Graph!Apart(qs)
  /\ \A j \in DOMAIN qs : OnPage(qs[j], c + 4)
  /\ \A i \in DOMAIN ps, j \in DOMAIN qs : Graph!Disjoint(ps[i], qs[j])

\* Such panels are laid with the others.
LEMMA LaidJoin ==
  ASSUME NEW ps, NEW b, NEW c, NEW qs, Beside(ps, b, c, qs)
  PROVE  Laid(ps \o qs, c)
<1> SUFFICES ASSUME b \in Nat, c \in Nat, c >= b, Laid(ps, b), qs \in Seq(Panels), Graph!Apart(qs),
                    \A j \in DOMAIN qs : OnPage(qs[j], c + 4),
                    \A i \in DOMAIN ps, j \in DOMAIN qs : Graph!Disjoint(ps[i], qs[j])
             PROVE  Laid(ps \o qs, c)
  BY DEF Beside
<1> DEFINE rs == ps \o qs
           m == Len(ps)
           n == Len(qs)
<1>1. /\ ps \in Seq(Panels) /\ m \in Nat /\ n \in Nat /\ DOMAIN ps = 1..m /\ DOMAIN qs = 1..n
      /\ \A i \in 1..m : ps[i] \in Panels
      /\ \A i \in 1..n : qs[i] \in Panels
  BY DEF Laid
<1>2. /\ rs \in Seq(Panels) /\ DOMAIN rs = 1..m + n
      /\ \A i \in 1..m + n : rs[i] = IF i <= m THEN ps[i] ELSE qs[i - m]
  <2>1. rs \in Seq(Panels) /\ Len(rs) = m + n
    BY <1>1
  <2>2. DOMAIN rs = 1..m + n
    BY <1>1, <2>1
  <2>3. \A i \in 1..m + n : rs[i] = IF i <= m THEN ps[i] ELSE qs[i - m]
    BY <1>1
  <2> QED BY <2>1, <2>2, <2>3
<1> HIDE DEF rs
<1> HIDE DEF m, n
<1>3. \A i \in 1..m + n : (i \in 1..m /\ rs[i] = ps[i]) \/ (i - m \in 1..n /\ rs[i] = qs[i - m])
  BY <1>1, <1>2
<1>4. ASSUME NEW i \in 1..m + n PROVE OnPage(rs[i], c + 4)
  <2>1. ASSUME NEW j \in 1..m PROVE OnPage(ps[j], c + 4)
    <3>1. ps[j].x0 >= 0 /\ ps[j].x1 <= 1080 /\ ps[j].y0 >= 0 /\ ps[j].y1 <= b + 4
      <4>1. j \in DOMAIN ps
        BY <1>1
      <4> QED BY <4>1 DEF Laid
    <3>2. ps[j].y1 \in Int
      BY <1>1 DEF Panels
    <3>3. ps[j].y1 <= c + 4
      BY <3>1, <3>2
    <3> QED BY <3>1, <3>3 DEF OnPage
  <2>2. \A j \in 1..n : OnPage(qs[j], c + 4)
    BY <1>1
  <2> QED BY <1>3, <2>1, <2>2
<1>5. ASSUME NEW i \in 1..m + n, NEW j \in 1..m + n, i # j PROVE Graph!Disjoint(rs[i], rs[j])
  <2>1. \A k, l \in 1..m : k # l => Graph!Disjoint(ps[k], ps[l])
    <3>1. Graph!Apart(ps)
      BY DEF Laid
    <3> QED BY <1>1, <3>1 DEF Graph!Apart
  <2>2. \A k, l \in 1..n : k # l => Graph!Disjoint(qs[k], qs[l])
    BY <1>1, Zenon DEF Graph!Apart
  <2>3. \A k \in 1..m, l \in 1..n : Graph!Disjoint(ps[k], qs[l]) /\ Graph!Disjoint(qs[l], ps[k])
    BY <1>1, Zenon DEF Graph!Disjoint
  <2>4. i - m # j - m
    BY <1>1, <1>5
  <2>5. CASE i \in 1..m /\ rs[i] = ps[i] /\ j \in 1..m /\ rs[j] = ps[j]
    BY <1>5, <2>1, <2>5, Zenon
  <2>6. CASE i - m \in 1..n /\ rs[i] = qs[i - m] /\ j - m \in 1..n /\ rs[j] = qs[j - m]
    BY <2>2, <2>4, <2>6, Zenon
  <2>7. CASE i \in 1..m /\ rs[i] = ps[i] /\ j - m \in 1..n /\ rs[j] = qs[j - m]
    BY <2>3, <2>7, Zenon
  <2>8. CASE i - m \in 1..n /\ rs[i] = qs[i - m] /\ j \in 1..m /\ rs[j] = ps[j]
    BY <2>3, <2>8, Zenon
  <2>9. /\ (i \in 1..m /\ rs[i] = ps[i]) \/ (i - m \in 1..n /\ rs[i] = qs[i - m])
        /\ (j \in 1..m /\ rs[j] = ps[j]) \/ (j - m \in 1..n /\ rs[j] = qs[j - m])
    BY <1>3
  <2> QED BY <2>5, <2>6, <2>7, <2>8, <2>9
<1>6. Graph!Apart(rs)
  BY <1>2, <1>5 DEF Graph!Apart
<1>7. \A i \in DOMAIN rs : rs[i].x0 >= 0 /\ rs[i].x1 <= 1080 /\ rs[i].y0 >= 0 /\ rs[i].y1 <= c + 4
  BY <1>2, <1>4 DEF OnPage
<1>8. Laid(rs, c)
  BY <1>2, <1>6, <1>7 DEF Laid
<1> QED BY <1>8 DEF rs

\* Panels between two lines.
Between(b, c, qs) ==
  /\ b \in Nat /\ c \in Nat /\ c >= b
  /\ qs \in Seq(Panels) /\ Graph!Apart(qs)
  /\ \A j \in DOMAIN qs : OnPage(qs[j], c + 4) /\ qs[j].y0 >= b + 4

\* Below all of them, in particular.
LEMMA LaidBelow ==
  ASSUME NEW ps, NEW b, NEW c, NEW qs, Laid(ps, b), Between(b, c, qs)
  PROVE  Laid(ps \o qs, c)
<1>1. /\ b \in Nat /\ c \in Nat /\ c >= b
      /\ qs \in Seq(Panels) /\ Graph!Apart(qs)
      /\ \A j \in DOMAIN qs : OnPage(qs[j], c + 4) /\ qs[j].y0 >= b + 4
  BY DEF Between
<1>2. ASSUME NEW i \in DOMAIN ps, NEW j \in DOMAIN qs PROVE Graph!Disjoint(ps[i], qs[j])
  <2>1. ps[i].y1 <= b + 4 /\ ps[i] \in Panels /\ qs[j] \in Panels /\ qs[j].y0 >= b + 4
    BY <1>1 DEF Laid
  <2>2. ps[i].y1 \in Int /\ qs[j].y0 \in Int
    BY <2>1 DEF Panels
  <2> QED BY <1>1, <2>1, <2>2 DEF Graph!Disjoint
<1>3. Beside(ps, b, c, qs)
  BY <1>1, <1>2 DEF Beside
<1> QED BY <1>3, LaidJoin, Zenon

\* The panels after a section.
Joined(rs, ps, qs) == rs = ps \o qs

\* One panel.
PanelFits(b, c, x, w, top, h) ==
  /\ b \in Nat /\ c \in Nat /\ c >= b
  /\ x \in Nat /\ w \in Nat /\ x + w <= 1080
  /\ top \in Int /\ h \in Int /\ top - 28 >= b + 4 /\ top + h <= c + 4

PanelAdded(ps, b, c, x, w, top, h, rs) ==
  Laid(ps, b) /\ PanelFits(b, c, x, w, top, h) /\ Joined(rs, ps, <<Graph!Panel(x, w, top, h)>>)

\* A panel that fits leaves the panels laid.
LEMMA LaidPanel ==
  ASSUME NEW ps, NEW b, NEW c, NEW x, NEW w, NEW top, NEW h, NEW rs,
         PanelAdded(ps, b, c, x, w, top, h, rs)
  PROVE  Laid(rs, c)
<1> SUFFICES ASSUME Laid(ps, b), PanelFits(b, c, x, w, top, h),
                    Joined(rs, ps, <<Graph!Panel(x, w, top, h)>>)
             PROVE  Laid(rs, c)
  BY DEF PanelAdded
<1> DEFINE p == Graph!Panel(x, w, top, h)
<1>1. b \in Nat /\ c \in Nat /\ c >= b
  BY DEF PanelFits
<1>2. p \in Panels /\ OnPage(p, c + 4) /\ p.y0 >= b + 4
  BY DEF Graph!Panel, Panels, OnPage, PanelFits
<1> HIDE DEF p
<1> DEFINE qs == <<p>>
<1>3. qs \in Seq(Panels) /\ Graph!Apart(qs) /\ \A j \in DOMAIN qs : qs[j] = p
  BY <1>2 DEF Graph!Apart
<1> HIDE DEF qs
<1>4. Laid(ps \o qs, c)
  <2>1. Between(b, c, qs)
    BY <1>1, <1>2, <1>3 DEF Between
  <2> QED BY <2>1, LaidBelow
<1>5. rs = ps \o qs
  BY DEF qs, p, Joined
<1> QED BY <1>4, <1>5

\* A row of up to two facets, or of three.
FacetsFit(b, c, n, w, top, h) ==
  /\ b \in Nat /\ c \in Nat /\ c >= b
  /\ n \in 0..3 /\ w \in Nat /\ ((n <= 2 /\ w = 459) \/ w = 298)
  /\ top \in Int /\ h \in Int /\ top - 28 >= b + 4 /\ top + h <= c + 4

FacetsAdded(ps, b, c, n, w, top, h, rs) ==
  Laid(ps, b) /\ FacetsFit(b, c, n, w, top, h) /\ Joined(rs, ps, Graph!Facets(n, w, 24, top, h))

\* Facets that fit leave the panels laid.
LEMMA LaidFacets ==
  ASSUME NEW ps, NEW b, NEW c, NEW n, NEW w, NEW top, NEW h, NEW rs,
         FacetsAdded(ps, b, c, n, w, top, h, rs)
  PROVE  Laid(rs, c)
<1> SUFFICES ASSUME Laid(ps, b), FacetsFit(b, c, n, w, top, h),
                    Joined(rs, ps, Graph!Facets(n, w, 24, top, h))
             PROVE  Laid(rs, c)
  BY DEF FacetsAdded
<1>1. /\ b \in Nat /\ c \in Nat /\ c >= b
      /\ n \in 0..3 /\ w \in Nat /\ ((n <= 2 /\ w = 459) \/ w = 298)
      /\ top \in Int /\ h \in Int /\ top - 28 >= b + 4 /\ top + h <= c + 4
  BY DEF FacetsFit
<1> DEFINE qs == Graph!Facets(n, w, 24, top, h)
           left(j) == 78 + (j - 1) * (w + 24)
<1>2. \A j \in 1..n : left(j) = (IF j = 1 THEN 78 ELSE IF j = 2 THEN 102 + w ELSE 126 + 2 * w)
  BY <1>1, SMT
<1>3. qs = [j \in 1..n |-> Graph!Panel(left(j), w, top, h)]
  BY DEF Graph!Facets
<1> HIDE DEF qs, left
<1>4. DOMAIN qs = 1..n /\ \A j \in 1..n : qs[j] = Graph!Panel(left(j), w, top, h)
  BY <1>3
<1>5. ASSUME NEW j \in 1..n PROVE qs[j] \in Panels /\ OnPage(qs[j], c + 4) /\ qs[j].y0 >= b + 4
  <2>1. left(j) \in Nat /\ left(j) + w <= 1080
    BY <1>1, <1>2
  <2>2. qs[j] = Graph!Panel(left(j), w, top, h)
    BY <1>4
  <2> DEFINE x == left(j)
  <2> HIDE DEF x
  <2>3. x \in Nat /\ x + w <= 1080 /\ qs[j] = Graph!Panel(x, w, top, h)
    BY <2>1, <2>2 DEF x
  <2>4. Graph!Panel(x, w, top, h) \in Panels /\ OnPage(Graph!Panel(x, w, top, h), c + 4)
        /\ Graph!Panel(x, w, top, h).y0 >= b + 4
    BY <1>1, <2>3 DEF Graph!Panel, Panels, OnPage
  <2> QED BY <2>3, <2>4
<1>6. qs \in Seq(Panels)
  <2>1. qs \in [1..n -> Panels]
    BY <1>3, <1>4, <1>5
  <2> QED BY <1>1, <2>1
<1>7. ASSUME NEW i \in 1..n, NEW j \in 1..n, i # j PROVE Graph!Disjoint(qs[i], qs[j])
  <2>1. left(i) + w <= left(j) \/ left(j) + w <= left(i)
    BY <1>1, <1>2, <1>7
  <2>2. /\ qs[i].x0 = left(i) /\ qs[i].x1 = left(i) + w
        /\ qs[j].x0 = left(j) /\ qs[j].x1 = left(j) + w
    BY <1>4 DEF Graph!Panel
  <2> QED BY <2>1, <2>2 DEF Graph!Disjoint
<1>8. Graph!Apart(qs)
  BY <1>4, <1>7 DEF Graph!Apart
<1>9. Laid(ps \o qs, c)
  <2>1. Between(b, c, qs)
    BY <1>1, <1>4, <1>5, <1>6, <1>8 DEF Between
  <2> QED BY <2>1, LaidBelow
<1>10. rs = ps \o qs
  BY DEF qs, Joined
<1> QED BY <1>9, <1>10

\* The facets of the data types, two in a row below a caption.
TypesFit(b, c, n, gtop) ==
  /\ b \in Nat /\ n \in Nat \ {0} /\ gtop \in Nat /\ gtop - 46 >= b + 4
  /\ c \in Nat /\ c = gtop + Graph!TypeRows(n) * 218 - 48 + 20

TypeFacet(gtop, j) ==
  [x0 |-> 78 + (j % 2) * 483, x1 |-> 537 + (j % 2) * 483,
   y0 |-> gtop + (j \div 2) * 218 - 15, y1 |-> gtop + (j \div 2) * 218 + 182]

TypePanels(n, gtop) ==
  <<[x0 |-> 78, x1 |-> 1020, y0 |-> gtop - 46, y1 |-> gtop - 32]>>
    \o [j \in 1..n |-> TypeFacet(gtop, j - 1)]

\* The caption and the facets of the data types are laid below the other panels.
LEMMA LaidTypes ==
  ASSUME NEW ps, NEW b, NEW c, NEW n, NEW gtop, NEW rs,
         Laid(ps, b), TypesFit(b, c, n, gtop), Joined(rs, ps, TypePanels(n, gtop))
  PROVE  Laid(rs, c)
<1> DEFINE cap == <<[x0 |-> 78, x1 |-> 1020, y0 |-> gtop - 46, y1 |-> gtop - 32]>>
           qs == [j \in 1..n |-> TypeFacet(gtop, j - 1)]
           d == gtop - 36
<1>1. /\ b \in Nat /\ n \in Nat \ {0} /\ gtop \in Nat /\ gtop - 46 >= b + 4
      /\ c \in Nat /\ c = gtop + Graph!TypeRows(n) * 218 - 48 + 20
  BY DEF TypesFit
<1>2. d \in Nat /\ d >= b
  BY <1>1
<1>3. Laid(ps \o cap, d)
  <2> DEFINE top == gtop - 18
             h == -14
  <2>1. cap = <<Graph!Panel(78, 942, top, h)>>
    BY <1>1 DEF Graph!Panel
  <2>2. PanelFits(b, d, 78, 942, top, h)
    BY <1>1, <1>2 DEF PanelFits
  <2> HIDE DEF cap, d, top, h
  <2>3. PICK ts : ts = ps \o cap
    OBVIOUS
  <2>4. Joined(ts, ps, <<Graph!Panel(78, 942, top, h)>>)
    BY <2>1, <2>3 DEF Joined
  <2>5. Laid(ts, d)
    <3>1. PICK x, w : PanelAdded(ps, b, d, x, w, top, h, ts)
      BY <2>2, <2>4 DEF PanelAdded
    <3> QED BY <3>1, LaidPanel, Zenon
  <2> QED BY <2>3, <2>5
<1> HIDE DEF cap
<1> DEFINE row(k) == (k - 1) \div 2
           col(k) == (k - 1) % 2
           Placed(k) ==
             /\ row(k) \in Nat /\ col(k) \in {0, 1} /\ k - 1 = 2 * row(k) + col(k)
             /\ row(k) + 1 <= (n + 1) \div 2
             /\ qs[k] = [x0 |-> 78 + col(k) * 483, x1 |-> 537 + col(k) * 483,
                         y0 |-> gtop + row(k) * 218 - 15, y1 |-> gtop + row(k) * 218 + 182]
<1>4. \A j \in 1..n : Placed(j)
  <2> SUFFICES ASSUME NEW j \in 1..n PROVE Placed(j)
    OBVIOUS
  <2>1. qs[j] = TypeFacet(gtop, j - 1)
    OBVIOUS
  <2>2. /\ (j - 1) \div 2 \in Nat /\ (j - 1) % 2 \in {0, 1}
        /\ j - 1 = 2 * ((j - 1) \div 2) + ((j - 1) % 2)
        /\ (j - 1) \div 2 + 1 <= (n + 1) \div 2
    BY <1>1
  <2>3. TypeFacet(gtop, j - 1) = [x0 |-> 78 + col(j) * 483, x1 |-> 537 + col(j) * 483,
                        y0 |-> gtop + row(j) * 218 - 15, y1 |-> gtop + row(j) * 218 + 182]
    BY DEF TypeFacet
  <2> HIDE DEF qs
  <2> QED BY <2>1, <2>2, <2>3
<1>5. (n + 1) \div 2 \in Nat /\ c = gtop + ((n + 1) \div 2) * 218 - 28
  BY <1>1 DEF Graph!TypeRows
<1>6. DOMAIN qs = 1..n
  OBVIOUS
<1> HIDE DEF qs, row, col, Placed
<1>7. ASSUME NEW j \in 1..n PROVE qs[j] \in Panels /\ OnPage(qs[j], c + 4) /\ qs[j].y0 >= d + 4
  <2>1. /\ row(j) \in Nat /\ col(j) \in {0, 1} /\ row(j) + 1 <= (n + 1) \div 2
        /\ qs[j] = [x0 |-> 78 + col(j) * 483, x1 |-> 537 + col(j) * 483,
                    y0 |-> gtop + row(j) * 218 - 15, y1 |-> gtop + row(j) * 218 + 182]
    BY <1>4 DEF Placed
  <2>2. qs[j].x0 \in {78, 561} /\ qs[j].x1 \in {537, 1020}
    BY <2>1
  <2>3. gtop + row(j) * 218 + 182 <= c
    BY <1>1, <1>5, <2>1
  <2> QED BY <1>1, <2>1, <2>2, <2>3 DEF Panels, OnPage, d
<1>8. qs \in Seq(Panels)
  <2>1. qs \in [1..n -> Panels]
    BY <1>6, <1>7 DEF qs
  <2> QED BY <1>1, <2>1
<1>9. ASSUME NEW i \in 1..n, NEW j \in 1..n, i # j PROVE Graph!Disjoint(qs[i], qs[j])
  <2>1. Placed(i) /\ Placed(j)
    BY <1>4
  <2>4. col(i) < col(j) \/ col(j) < col(i) \/ row(i) < row(j) \/ row(j) < row(i)
    BY <1>1, <1>9, <2>1 DEF Placed
  <2>5. CASE col(i) < col(j)
    BY <2>1, <2>5 DEF Placed, Graph!Disjoint
  <2>6. CASE col(j) < col(i)
    BY <2>1, <2>6 DEF Placed, Graph!Disjoint
  <2>7. CASE row(i) < row(j)
    BY <1>1, <2>1, <2>7 DEF Placed, Graph!Disjoint
  <2>8. CASE row(j) < row(i)
    BY <1>1, <2>1, <2>8 DEF Placed, Graph!Disjoint
  <2> QED BY <2>4, <2>5, <2>6, <2>7, <2>8
<1>10. Graph!Apart(qs)
  BY <1>6, <1>9 DEF Graph!Apart
<1>11. Laid((ps \o cap) \o qs, c)
  <2>1. c >= d
    <3>1. (n + 1) \div 2 >= 1
      BY <1>1
    <3> QED BY <1>1, <1>5, <3>1 DEF d
  <2> HIDE DEF d
  <2>2. Between(d, c, qs)
    BY <1>1, <1>2, <1>6, <1>7, <1>8, <1>10, <2>1 DEF Between
  <2> QED BY <1>3, <2>2, LaidBelow, Zenon
<1>12. (ps \o cap) \o qs = ps \o (cap \o qs)
  <2>1. ps \in Seq(Panels) /\ cap \in Seq(Panels)
    BY <1>1 DEF Laid, cap, Panels
  <2> QED BY ONLY <1>8, <2>1, ConcatAssociative
<1>13. rs = ps \o (cap \o qs)
  BY DEF cap, qs, Joined, TypePanels
<1> QED BY <1>11, <1>12, <1>13

\* Where a call is and what it has then.
GraphPlaces ==
  script = "graph_runs" =>
    /\ v1 \in Results
    /\ pc \in {"load", "legend", "deflate", "exit", "raised"} \cup Sections
    /\ pc \notin {"load", "exit"} => Aggregated
    /\ pc \in {"load", "legend", "deflate", "checksum", "types", "wbits"} => v8 = NULL
    /\ pc = "deflate" =>
         /\ v5 \in Nat /\ v5 >= 254
         /\ v4 = <<[x0 |-> 800, x1 |-> 1040, y0 |-> 68, y1 |-> v5]>>
    /\ pc \in {"checksum", "types"} => v6 \in Nat
    /\ pc \in Sections => v7 \in Nat

\* Why it has ended, if it has.
GraphReasons ==
  script = "graph_runs" =>
    /\ pc = "exit" => Len(v1) < 2 \/ Graph!AllKeys("deflate") \subseteq {<<0, "">>}
    /\ pc = "raised" => \/ Len(v1) > SERIES
                        \/ Graph!AllKeys("chunked") # {} /\ Graph!AllKeys("wbits") = {}
                        \/ Graph!Cardinality(Graph!CompLevels) > 1 /\ Graph!Flat
    /\ pc = "chunked" /\ v8 = NULL => Graph!AllKeys("wbits") = {}

\* The sections so far are laid out down to body_bottom, and where the next one
\* does not start there it has a place as well: data_top below the chart, and wtop
\* beside the windowBits panel.
GraphLayout ==
  script = "graph_runs" /\ pc \in Sections /\ SizesHaveReference =>
    /\ Laid(v4, v7)
    /\ pc = "checksum" => v6 >= v7 + 36
    /\ pc = "types" => v6 >= v7 + 36 \/ Graph!Has("checksum")
    /\ pc = "chunked" /\ v8 # NULL =>
         /\ v8 \in Nat /\ v8 >= 66 /\ v7 = v8 + 214
         /\ \A i \in DOMAIN v4 : v4[i].y1 <= v8 - 28 \/ v4[i].x1 <= 561

\* The inductive invariant.
GraphInv == GraphPlaces /\ GraphReasons /\ GraphLayout

\* A section after the windowBits panel, which is all that has to be carried on.
LEMMA SectionDrawn ==
  ASSUME script = "graph_runs", script' = script, GraphPlaces, pc \in Sections,
         UNCHANGED <<v1, v2, v3>>, pc' \in Sections \ {"checksum", "types", "wbits", "chunked"},
         v7' \in Nat, SizesHaveReference => Laid(v4', v7')
  PROVE  GraphInv'
<1>1. /\ Aggregated' = Aggregated /\ SizesHaveReference' = SizesHaveReference
  BY GraphAsks, Zenon
<1>2. v1 \in Results /\ Aggregated
  BY DEF GraphPlaces, Sections
<1>3. GraphPlaces'
  BY <1>1, <1>2 DEF GraphPlaces, Sections
<1>4. GraphReasons'
  BY DEF GraphReasons, Sections
<1>5. GraphLayout'
  BY <1>1 DEF GraphLayout, Sections
<1> QED BY <1>3, <1>4, <1>5 DEF GraphInv

\* Where nothing is drawn.
LEMMA LaidSame ==
  ASSUME NEW ps, NEW b, Laid(ps, b)
  PROVE  ps \o <<>> = ps
<1>1. ps \in Seq(Panels)
  BY DEF Laid
<1> QED BY <1>1

\* What a section leaves alone.
LEMMA DrawKeeps ==
  ASSUME NEW next, NEW panels, NEW bottom, Graph!Draw(next, panels, bottom)
  PROVE  UNCHANGED <<v1, v2, v3, v6>> /\ pc' = next /\ v4' = v4 \o panels /\ v7' = bottom
BY DEF Graph!Draw

\* A section after the windowBits panel that is skipped.
LEMMA SectionSkipped ==
  ASSUME script = "graph_runs", script' = script, GraphInv, pc \in Sections,
         NEW next \in Sections \ {"checksum", "types", "wbits", "chunked"}, Graph!Skip(next)
  PROVE  GraphInv'
<1>1. UNCHANGED <<v1, v2, v3>> /\ pc' = next /\ v4' = v4 \o <<>> /\ v7' = v7
  BY DrawKeeps DEF Graph!Skip
<1>2. v7 \in Nat /\ (SizesHaveReference => Laid(v4, v7))
  BY DEF GraphInv, GraphPlaces, GraphLayout
<1>3. SizesHaveReference => Laid(v4', v7')
  BY <1>1, <1>2, LaidSame
<1>4. GraphPlaces
  BY DEF GraphInv
<1> QED BY <1>1, <1>2, <1>3, <1>4, SectionDrawn

\* Raising changes nothing but the place.
LEMMA SectionRaised ==
  ASSUME script = "graph_runs", script' = script, GraphInv, pc \in Sections \cup {"legend"},
         UNCHANGED <<v1, v2, v3>>, pc' = "raised",
         \/ Len(v1) > SERIES
         \/ Graph!AllKeys("chunked") # {} /\ Graph!AllKeys("wbits") = {}
         \/ Graph!Cardinality(Graph!CompLevels) > 1 /\ Graph!Flat
  PROVE  GraphInv'
<1>1. /\ Aggregated' = Aggregated /\ Graph!CompLevels' = Graph!CompLevels
      /\ Graph!AllKeys("chunked")' = Graph!AllKeys("chunked")
      /\ Graph!AllKeys("wbits")' = Graph!AllKeys("wbits")
      /\ Graph!Flat' = Graph!Flat
  BY GraphAsks, Zenon
<1>2. v1 \in Results /\ Aggregated
  BY DEF GraphInv, GraphPlaces, Sections
<1>3. GraphPlaces'
  BY <1>1, <1>2 DEF GraphPlaces, Sections
<1>4. (\/ Len(v1) > SERIES
       \/ Graph!AllKeys("chunked") # {} /\ Graph!AllKeys("wbits") = {}
       \/ Graph!Cardinality(Graph!CompLevels) > 1 /\ Graph!Flat)'
  BY <1>1, Zenon
<1>5. GraphReasons'
  BY <1>4 DEF GraphReasons
<1>6. GraphLayout'
  BY DEF GraphLayout, Sections
<1> QED BY <1>3, <1>5, <1>6 DEF GraphInv

\* Aggregating too few results ends the script; enough of them start the layout.
LEMMA AggregateStep ==
  ASSUME script = "graph_runs", script' = script, GraphInv, Graph!Aggregate
  PROVE  GraphInv'
<1>1. pc = "load" /\ UNCHANGED <<v1, v2, v8>>
  BY DEF Graph!Aggregate
<1>2. v1 \in Results /\ v8 = NULL
  BY <1>1 DEF GraphInv, GraphPlaces
<1>3. CASE Len(v1) < 2
  <2>1. pc' = "exit"
    BY <1>3 DEF Graph!Aggregate
  <2>2. GraphPlaces' /\ GraphReasons'
    BY <1>1, <1>2, <1>3, <2>1 DEF GraphPlaces, GraphReasons, Sections
  <2>3. GraphLayout'
    BY <2>1 DEF GraphLayout, Sections
  <2> QED BY <2>2, <2>3 DEF GraphInv
<1>4. CASE ~(Len(v1) < 2)
  <2>1. pc' = "legend" /\ v3' = [i \in Graph!Runs |-> Graph!PointOf(i)]
    BY <1>4 DEF Graph!Aggregate
  <2>2. Len(v1) >= 2
    BY <1>2, <1>4, ResultsAssumption
  <2>3. Aggregated'
    BY <1>1, <1>2, <2>1, <2>2, GraphSame, Zenon DEF Aggregated
  <2> QED BY <1>1, <1>2, <2>1, <2>3 DEF GraphInv, GraphPlaces, GraphReasons, GraphLayout, Sections
<1> QED BY <1>3, <1>4

\* The right column is the first panel, and ends where its contents do.
LEMMA RightColumnStep ==
  ASSUME script = "graph_runs", script' = script, GraphInv, Graph!RightColumn
  PROVE  GraphInv'
<1>1. pc = "legend" /\ UNCHANGED <<v1, v2, v3, v8>>
  BY DEF Graph!RightColumn
<1>2. v1 \in Results /\ v8 = NULL /\ Aggregated
  BY <1>1 DEF GraphInv, GraphPlaces
<1>3. CASE Len(v1) > SERIES
  <2>1. pc' = "raised"
    BY <1>3 DEF Graph!RightColumn
  <2> QED BY <1>1, <1>3, <2>1, SectionRaised
<1>4. CASE ~(Len(v1) > SERIES)
  <2>1. /\ pc' = "deflate" /\ v5' = Graph!Level0End
        /\ v4' = <<[x0 |-> 800, x1 |-> 1040, y0 |-> 68, y1 |-> Graph!Level0End]>>
    BY <1>4 DEF Graph!RightColumn
  <2>2. v5' \in Nat /\ v5' >= 254
    BY <1>2, <2>1, RightColumnEnd
  <2>3. Aggregated'
    BY <1>1, <1>2, GraphAsks, Zenon
  <2>4. v4' = <<[x0 |-> 800, x1 |-> 1040, y0 |-> 68, y1 |-> v5']>>
    BY <2>1
  <2> QED BY <1>1, <1>2, <2>1, <2>2, <2>3, <2>4
          DEF GraphInv, GraphPlaces, GraphReasons, GraphLayout, Sections
<1> QED BY <1>3, <1>4

\* The chart beside the right column.
LEMMA LaidChart ==
  ASSUME NEW r \in Nat, r >= 254, NEW c \in Nat, c = Graph!MaxOf(456, r),
         NEW ph \in Nat, ph = Graph!MaxOf(320, r - 100 - 40),
         NEW ps, ps = <<[x0 |-> 800, x1 |-> 1040, y0 |-> 68, y1 |-> r]>>
  PROVE  Laid(Append(ps, Graph!Panel(78, 682, 96, 44 + ph)), c)
<1> DEFINE p == [x0 |-> 800, x1 |-> 1040, y0 |-> 68, y1 |-> r]
           q == Graph!Panel(78, 682, 96, 44 + ph)
           qs == <<q>>
<1>1. /\ c >= 456 /\ c >= r
      /\ 96 + (44 + ph) <= c + 4
  BY DEF Graph!MaxOf
<1>2. q = [x0 |-> 78, x1 |-> 760, y0 |-> 68, y1 |-> 96 + (44 + ph)]
  BY DEF Graph!Panel
<1>3. p \in Panels /\ q \in Panels /\ OnPage(p, c + 4) /\ OnPage(q, c + 4) /\ Graph!Disjoint(p, q)
  <2> HIDE DEF q
  <2> QED BY <1>1, <1>2 DEF Panels, OnPage, Graph!Disjoint
<1>4. ps = <<p>>
  OBVIOUS
<1> HIDE DEF p, q
<1>5. /\ ps \in Seq(Panels) /\ Graph!Apart(ps) /\ \A i \in DOMAIN ps : ps[i] = p
      /\ qs \in Seq(Panels) /\ Graph!Apart(qs) /\ \A i \in DOMAIN qs : qs[i] = q
  BY <1>3, <1>4 DEF Graph!Apart
<1>6. Append(ps, q) = ps \o qs
  BY <1>3, <1>5
<1> HIDE DEF qs
<1>7. Laid(ps, c)
  BY <1>3, <1>5 DEF Laid, OnPage
<1>8. Laid(ps \o qs, c)
  <2>1. \A j \in DOMAIN qs : OnPage(qs[j], c + 4)
    BY <1>3, <1>5
  <2>2. \A i \in DOMAIN ps, j \in DOMAIN qs : Graph!Disjoint(ps[i], qs[j])
    BY <1>3, <1>5
  <2>3. c \in Nat /\ c >= c
    OBVIOUS
  <2>4. Beside(ps, c, c, qs)
    BY ONLY <1>5, <1>7, <2>1, <2>2, <2>3 DEF Beside
  <2> QED BY ONLY <2>4, LaidJoin, Zenon
<1>9. Laid(Append(ps, q), c)
  BY ONLY <1>6, <1>8
<1> QED BY <1>9 DEF q

\* The large panel is laid beside it, and the next section starts below both.
LEMMA DeflatePanelStep ==
  ASSUME script = "graph_runs", script' = script, GraphInv, Graph!DeflatePanel
  PROVE  GraphInv'
<1> DEFINE ph == Graph!MaxOf(320, v5 - 100 - 40)
<1>1. pc = "deflate" /\ UNCHANGED <<v1, v2, v3, v5, v8>>
  BY DEF Graph!DeflatePanel
<1>2. /\ v1 \in Results /\ v8 = NULL /\ Aggregated
      /\ v5 \in Nat /\ v5 >= 254
      /\ v4 = <<[x0 |-> 800, x1 |-> 1040, y0 |-> 68, y1 |-> v5]>>
  BY <1>1 DEF GraphInv, GraphPlaces
<1>3. Aggregated'
  BY <1>1, <1>2, GraphAsks, Zenon
<1>4. CASE Graph!AllKeys("deflate") \subseteq {<<0, "">>}
  <2>1. pc' = "exit"
    BY <1>4 DEF Graph!DeflatePanel
  <2>2. Graph!AllKeys("deflate")' = Graph!AllKeys("deflate")
    BY <1>1, GraphAsks, Zenon
  <2>3. GraphPlaces' /\ GraphLayout'
    BY <1>1, <1>2, <2>1 DEF GraphPlaces, GraphLayout, Sections
  <2>4. GraphReasons'
    BY <1>4, <2>1, <2>2 DEF GraphReasons
  <2> QED BY <2>3, <2>4 DEF GraphInv
<1>5. CASE ~(Graph!AllKeys("deflate") \subseteq {<<0, "">>})
  <2>1. /\ pc' = "checksum" /\ v4' = Append(v4, Graph!Panel(78, 682, 96, 44 + ph))
        /\ v6' = Graph!MaxOf(512, Graph!MaxOf(100 + ph + 76, v5 + 36))
        /\ v7' = Graph!MaxOf(456, v5)
    BY <1>5 DEF Graph!DeflatePanel
  <2>2. ph \in Nat
    BY <1>2 DEF Graph!MaxOf
  <2>3. v7' \in Nat /\ v6' \in Nat /\ v6' >= v7' + 36
    <3>1. \A a, b \in Nat : Graph!MaxOf(a, b) \in Nat /\ Graph!MaxOf(a, b) >= a /\ Graph!MaxOf(a, b) >= b
      BY DEF Graph!MaxOf
    <3>2. v7' \in {456, v5}
      BY <2>1 DEF Graph!MaxOf
    <3> HIDE DEF ph
    <3>3. 100 + ph + 76 \in Nat /\ v5 + 36 \in Nat
      BY <1>2, <2>2
    <3>4. Graph!MaxOf(100 + ph + 76, v5 + 36) \in Nat /\ Graph!MaxOf(100 + ph + 76, v5 + 36) >= v5 + 36
      BY <3>1, <3>3
    <3>5. v6' \in Nat /\ v6' >= 512 /\ v6' >= v5 + 36
      <4> DEFINE m == Graph!MaxOf(100 + ph + 76, v5 + 36)
      <4>1. m \in Nat /\ m >= v5 + 36 /\ v6' = Graph!MaxOf(512, m)
        BY <2>1, <3>4
      <4> HIDE DEF m
      <4>2. v6' \in Nat /\ v6' >= 512 /\ v6' >= m
        BY <3>1, <4>1
      <4> QED BY <1>2, <4>1, <4>2
    <3>6. CASE v7' = 456
      BY <3>5, <3>6
    <3>7. CASE v7' = v5
      BY <1>2, <3>5, <3>7
    <3> QED BY <3>2, <3>6, <3>7
  <2>4. Laid(v4', v7')
    <3> HIDE DEF ph
    <3>1. v7' \in Nat /\ v7' = Graph!MaxOf(456, v5)
      BY <2>1, <2>3
    <3>2. Laid(Append(v4, Graph!Panel(78, 682, 96, 44 + ph)), v7')
      BY <1>2, <2>2, <3>1, LaidChart DEF ph
    <3> QED BY <2>1, <3>2
  <2> HIDE DEF ph
  <2> QED BY <1>1, <1>2, <1>3, <2>1, <2>3, <2>4
          DEF GraphInv, GraphPlaces, GraphReasons, GraphLayout, Sections
<1> QED BY <1>4, <1>5

\* The checksum facets fill a row of at most two.
LEMMA ChecksumStep ==
  ASSUME script = "graph_runs", script' = script, GraphInv, Graph!ChecksumFacets
  PROVE  GraphInv'
<1> DEFINE kinds == {k[1] : k \in Graph!AllOf("checksum")}
           n == Graph!Cardinality(kinds)
<1>1. pc = "checksum" /\ UNCHANGED v8
  BY DEF Graph!ChecksumFacets, Graph!Skip
<1>2. /\ v1 \in Results /\ v8 = NULL /\ Aggregated /\ v6 \in Nat /\ v7 \in Nat
      /\ SizesHaveReference => Laid(v4, v7) /\ v6 >= v7 + 36
  BY <1>1 DEF GraphInv, GraphPlaces, GraphLayout, Sections
<1>3. n \in 0..2
  <2>1. kinds \subseteq {"codec_crc32", "codec_adler32"}
    BY <1>2, KindsOfTwo
  <2> HIDE DEF kinds
  <2>2. Cardinality(kinds) \in 0..2
    BY <2>1, AtMostTwo
  <2> QED BY <2>2, SameCardinality
<1>4. (kinds = {}) <=> ~Graph!Has("checksum")
  BY DEF Graph!Has, Graph!AllOf
<1>5. \/ ~Graph!Has("checksum") /\ Graph!Skip("types")
      \/ Graph!Has("checksum") /\ Graph!Draw("types", Graph!Facets(n, 459, 24, v6, 200), v6 + 214)
  BY <1>4 DEF Graph!ChecksumFacets
<1> HIDE DEF kinds, n
<1>6. UNCHANGED <<v1, v2, v3, v6>> /\ pc' = "types"
  BY <1>5, DrawKeeps DEF Graph!Skip
<1>7. v7' \in Nat /\ (Graph!Has("checksum") \/ v7' = v7)
  BY <1>2, <1>5, DrawKeeps DEF Graph!Skip
<1>8. ASSUME SizesHaveReference
      PROVE  Laid(v4', v7') /\ (v6' >= v7' + 36 \/ Graph!Has("checksum"))
  <2>1. CASE Graph!Skip("types")
    <3>1. v4' = v4 \o <<>> /\ v7' = v7
      BY <2>1, DrawKeeps DEF Graph!Skip
    <3> QED BY <1>2, <1>6, <1>8, <3>1, LaidSame
  <2>2. CASE Graph!Has("checksum") /\ Graph!Draw("types", Graph!Facets(n, 459, 24, v6, 200), v6 + 214)
    <3>1. v4' = v4 \o Graph!Facets(n, 459, 24, v6, 200) /\ v7' = v6 + 214
      BY <2>2, DrawKeeps
    <3>2. FacetsFit(v7, v6 + 214, n, 459, v6, 200)
      BY <1>2, <1>3, <1>8 DEF FacetsFit
    <3>3. Laid(v4, v7)
      BY <1>2, <1>8
    <3>4. Joined(v4', v4, Graph!Facets(n, 459, 24, v6, 200))
      BY <3>1 DEF Joined
    <3>5. Laid(v4', v6 + 214)
      <4>1. PICK end, w, h : end = v6 + 214 /\ FacetsAdded(v4, v7, end, n, w, v6, h, v4')
        BY <3>2, <3>3, <3>4 DEF FacetsAdded
      <4> QED BY <4>1, LaidFacets, Zenon
    <3> QED BY <2>2, <3>1, <3>5
  <2> QED BY <1>5, <2>1, <2>2
<1>9. /\ Aggregated' = Aggregated /\ SizesHaveReference' = SizesHaveReference
      /\ Graph!Has("checksum")' = Graph!Has("checksum")
  BY <1>6, GraphAsks, Zenon
<1>10. GraphPlaces' /\ GraphReasons'
  BY <1>1, <1>2, <1>6, <1>7, <1>9 DEF GraphPlaces, GraphReasons, Sections
<1>11. GraphLayout'
  BY <1>6, <1>8, <1>9 DEF GraphLayout, Sections
<1> QED BY <1>10, <1>11 DEF GraphInv

\* The facets of the data types fill as many rows as they need.
LEMMA TypesStep ==
  ASSUME script = "graph_runs", script' = script, GraphInv, Graph!TypeFacets
  PROVE  GraphInv'
<1> DEFINE types == {k[1] : k \in Graph!AllOf("deflate_data")}
           n == Graph!Cardinality(types)
           gtop == (IF Graph!Has("checksum") THEN v7 + 66 ELSE v6) + 18
           end == gtop + Graph!TypeRows(n) * 218 - 48 + 20
<1>1. pc = "types" /\ UNCHANGED v8
  BY DEF Graph!TypeFacets, Graph!Skip
<1>2. /\ v1 \in Results /\ v8 = NULL /\ Aggregated /\ v6 \in Nat /\ v7 \in Nat
      /\ SizesHaveReference => Laid(v4, v7) /\ (v6 >= v7 + 36 \/ Graph!Has("checksum"))
  BY <1>1 DEF GraphInv, GraphPlaces, GraphLayout, Sections
<1>3. \/ Graph!Skip("wbits")
      \/ types # {} /\ Graph!Draw("wbits", TypePanels(n, gtop), end)
  BY DEF Graph!TypeFacets, TypePanels, TypeFacet
<1>4. n \in Nat /\ (types # {} => n # 0)
  <2>1. IsFiniteSet(types)
    BY <1>2, TypesFinite
  <2> HIDE DEF types
  <2>2. Cardinality(types) \in Nat /\ (types # {} => Cardinality(types) # 0)
    BY <2>1, FS_CardinalityType, FS_EmptySet
  <2> QED BY <2>2, SameCardinality
<1> HIDE DEF types, n
<1>5. types # {} => end \in Nat /\ (SizesHaveReference => TypesFit(v7, end, n, gtop))
  <2> SUFFICES ASSUME types # {} PROVE end \in Nat /\ (SizesHaveReference => TypesFit(v7, end, n, gtop))
    OBVIOUS
  <2>1. gtop \in Nat /\ (SizesHaveReference => gtop - 46 >= v7 + 4)
    BY <1>2
  <2> HIDE DEF gtop
  <2>2. Graph!TypeRows(n) \in Nat /\ Graph!TypeRows(n) >= 1
    BY <1>4 DEF Graph!TypeRows
  <2>3. end \in Nat
    BY <2>1, <2>2
  <2> QED BY <1>2, <1>4, <2>1, <2>3 DEF TypesFit
<1> HIDE DEF gtop, end
<1>6. UNCHANGED <<v1, v2, v3>> /\ pc' = "wbits" /\ v7' \in Nat
  BY <1>2, <1>3, <1>5, DrawKeeps DEF Graph!Skip
<1>7. ASSUME SizesHaveReference PROVE Laid(v4', v7')
  <2>1. CASE Graph!Skip("wbits")
    <3>1. v4' = v4 \o <<>> /\ v7' = v7
      BY <2>1, DrawKeeps DEF Graph!Skip
    <3> QED BY <1>2, <1>7, <3>1, LaidSame
  <2>2. CASE types # {} /\ Graph!Draw("wbits", TypePanels(n, gtop), end)
    <3>1. v4' = v4 \o TypePanels(n, gtop) /\ v7' = end
      BY <2>2, DrawKeeps
    <3>2. TypesFit(v7, end, n, gtop) /\ Laid(v4, v7)
      BY <1>2, <1>5, <1>7, <2>2
    <3>3. Joined(v4', v4, TypePanels(n, gtop))
      BY <3>1 DEF Joined
    <3>4. Laid(v4', end)
      BY <3>2, <3>3, LaidTypes, Zenon
    <3> QED BY <3>1, <3>4
  <2> QED BY <1>3, <2>1, <2>2
<1>8. Aggregated' = Aggregated /\ SizesHaveReference' = SizesHaveReference
  BY <1>6, GraphAsks, Zenon
<1> QED BY <1>1, <1>2, <1>6, <1>7, <1>8
        DEF GraphInv, GraphPlaces, GraphReasons, GraphLayout, Sections

\* The panel of window sizes is half as wide as the page, and remembers where its row starts.
LEMMA WbitsStep ==
  ASSUME script = "graph_runs", script' = script, GraphInv, Graph!WbitsPanel
  PROVE  GraphInv'
<1> DEFINE top == v7 + 66
           end == v7 + 66 + 214
           panel == Graph!Panel(78, 459, top, 204)
<1>1. pc = "wbits"
  BY DEF Graph!WbitsPanel
<1>2. /\ v1 \in Results /\ v8 = NULL /\ Aggregated /\ v7 \in Nat
      /\ SizesHaveReference => Laid(v4, v7)
  BY <1>1 DEF GraphInv, GraphPlaces, GraphLayout, Sections
<1>3. \/ Graph!AllKeys("wbits") = {} /\ Graph!Skip("chunked")
      \/ Graph!Draw("chunked", <<panel>>, end) /\ v8' = top
  BY DEF Graph!WbitsPanel
<1>4. top \in Nat /\ top >= 66 /\ end \in Nat /\ end = top + 214 /\ top # NULL /\ PanelFits(v7, end, 78, 459, top, 204)
  BY <1>2, NullAssumption DEF PanelFits
<1> HIDE DEF end, panel
<1>5. UNCHANGED <<v1, v2, v3>> /\ pc' = "chunked" /\ v7' \in Nat
  BY <1>2, <1>3, <1>4, DrawKeeps DEF Graph!Skip
<1>6. /\ Aggregated' = Aggregated /\ SizesHaveReference' = SizesHaveReference
      /\ Graph!AllKeys("wbits")' = Graph!AllKeys("wbits")
  BY <1>5, GraphAsks, Zenon
<1>7. GraphPlaces'
  BY <1>2, <1>5, <1>6 DEF GraphPlaces, Sections
<1>8. GraphReasons'
  <2>1. CASE Graph!AllKeys("wbits") = {} /\ Graph!Skip("chunked")
    BY <1>5, <1>6, <2>1 DEF GraphReasons
  <2>2. CASE v8' = top
    BY <1>4, <1>5, <2>2 DEF GraphReasons
  <2> QED BY <1>3, <2>1, <2>2
<1>9. ASSUME SizesHaveReference
      PROVE  /\ Laid(v4', v7')
             /\ v8' # NULL => /\ v8' \in Nat /\ v8' >= 66 /\ v7' = v8' + 214
                              /\ \A i \in DOMAIN v4' : v4'[i].y1 <= v8' - 28 \/ v4'[i].x1 <= 561
  <2>1. CASE Graph!AllKeys("wbits") = {} /\ Graph!Skip("chunked")
    <3>1. v4' = v4 \o <<>> /\ v7' = v7 /\ v8' = v8
      BY <2>1, DrawKeeps DEF Graph!Skip
    <3> QED BY <1>2, <1>9, <3>1, LaidSame
  <2>2. CASE Graph!Draw("chunked", <<panel>>, end) /\ v8' = top
    <3>1. v4' = v4 \o <<panel>> /\ v7' = end
      BY <2>2, DrawKeeps
    <3>2. Joined(v4', v4, <<panel>>) /\ Laid(v4, v7)
      BY <1>2, <1>9, <3>1 DEF Joined
    <3>3. Laid(v4', end)
      <4>1. Joined(v4', v4, <<Graph!Panel(78, 459, top, 204)>>)
        BY <3>2 DEF panel
      <4>2. PanelFits(v7, end, 78, 459, top, 204) /\ Laid(v4, v7)
        BY <1>4, <3>2
      <4> HIDE DEF top
      <4>3. PICK x, w, h : PanelAdded(v4, v7, end, x, w, top, h, v4')
        BY <4>1, <4>2 DEF PanelAdded
      <4> QED BY <4>3, LaidPanel, Zenon
    <3>4. /\ v4 \in Seq(Panels)
          /\ \A i \in DOMAIN v4 : v4[i].y1 <= v7 + 4 /\ v4[i] \in Panels
      BY <3>2 DEF Laid
    <3>5. panel.x1 = 537
      BY DEF panel, Graph!Panel
    <3>6. ASSUME NEW i \in DOMAIN v4' PROVE v4'[i].y1 <= top - 28 \/ v4'[i].x1 <= 561
      <4>1. v4'[i] = panel \/ (i \in DOMAIN v4 /\ v4'[i] = v4[i])
        <5> DEFINE qs == <<panel>>
        <5>1. Len(qs) = 1 /\ qs[1] = panel
          OBVIOUS
        <5>2. qs \in Seq({panel})
          OBVIOUS
        <5> HIDE DEF qs
        <5> QED BY <3>1, <3>4, <5>1, <5>2 DEF qs
      <4>2. ASSUME NEW k \in DOMAIN v4 PROVE v4[k].y1 <= top - 28
        <5>1. v4[k].y1 \in Int /\ v4[k].y1 <= v7 + 4
          BY <3>4 DEF Panels
        <5> QED BY <1>2, <5>1
      <4>3. CASE v4'[i] = panel
        BY <3>5, <4>3
      <4>4. CASE i \in DOMAIN v4 /\ v4'[i] = v4[i]
        BY <4>2, <4>4
      <4> QED BY ONLY <4>1, <4>3, <4>4
    <3>7. Laid(v4', v7')
      BY <3>1, <3>3
    <3>8. v8' \in Nat /\ v8' >= 66 /\ v7' = v8' + 214
      BY <1>4, <2>2, <3>1
    <3>9. \A i \in DOMAIN v4' : v4'[i].y1 <= v8' - 28 \/ v4'[i].x1 <= 561
      BY <2>2, <3>6
    <3> QED BY <3>7, <3>8, <3>9
  <2> QED BY <1>3, <2>1, <2>2
<1>10. GraphLayout'
  BY <1>5, <1>6, <1>9 DEF GraphLayout
<1> QED BY <1>7, <1>8, <1>10 DEF GraphInv

\* Raised on the way is an answer that GraphReasons has; the rest of the sections.
LEMMA ChunkedStep ==
  ASSUME script = "graph_runs", script' = script, GraphInv, Graph!ChunkedPanel
  PROVE  GraphInv'
<1> DEFINE panel == Graph!Panel(561, 459, v8, 198)
           qs == <<panel>>
<1>1. pc = "chunked" /\ pc \in Sections
  BY DEF Graph!ChunkedPanel, Sections
<1>2. /\ v1 \in Results /\ Aggregated /\ v7 \in Nat /\ GraphPlaces
      /\ v8 = NULL => Graph!AllKeys("wbits") = {}
      /\ SizesHaveReference =>
           /\ Laid(v4, v7)
           /\ v8 # NULL => /\ v8 \in Nat /\ v8 >= 66 /\ v7 = v8 + 214
                           /\ \A i \in DOMAIN v4 : v4[i].y1 <= v8 - 28 \/ v4[i].x1 <= 561
  BY <1>1 DEF GraphInv, GraphPlaces, GraphReasons, GraphLayout, Sections
<1>3. CASE Graph!Skip("dist")
  BY <1>1, <1>3, SectionSkipped DEF Sections
<1>4. CASE Graph!AllKeys("chunked") # {} /\ v8 = NULL /\ Graph!Raise
  <2>1. UNCHANGED <<v1, v2, v3>> /\ pc' = "raised"
    BY <1>4 DEF Graph!Raise
  <2> QED BY <1>1, <1>2, <1>4, <2>1, SectionRaised
<1>5. CASE v8 # NULL /\ Graph!Draw("dist", qs, v7)
  <2>1. UNCHANGED <<v1, v2, v3>> /\ pc' = "dist" /\ v4' = v4 \o qs /\ v7' = v7
    <3> HIDE DEF qs
    <3> QED BY <1>5, DrawKeeps
  <2>2. ASSUME SizesHaveReference PROVE Laid(v4 \o qs, v7)
    <3>1. /\ Laid(v4, v7) /\ v8 \in Nat /\ v8 >= 66 /\ v7 = v8 + 214
          /\ \A i \in DOMAIN v4 : v4[i].y1 <= v8 - 28 \/ v4[i].x1 <= 561
      BY <1>2, <1>5, <2>2
    <3>2. panel = [x0 |-> 561, x1 |-> 1020, y0 |-> v8 - 28, y1 |-> v8 + 198]
      BY DEF Graph!Panel
    <3> HIDE DEF panel
    <3>3. panel \in Panels /\ OnPage(panel, v7 + 4)
      <4>1. v8 - 28 \in Int /\ v8 + 198 \in Int /\ v8 - 28 >= 0 /\ v8 + 198 <= v7 + 4
        BY <3>1
      <4>2. panel.x0 = 561 /\ panel.x1 = 1020 /\ panel.y0 = v8 - 28 /\ panel.y1 = v8 + 198
        BY <3>2
      <4> QED BY <3>2, <4>1, <4>2 DEF Panels, OnPage
    <3>4. \A i \in DOMAIN v4 : Graph!Disjoint(v4[i], panel)
      BY <3>1, <3>2 DEF Graph!Disjoint
    <3>5. qs \in Seq(Panels) /\ Graph!Apart(qs) /\ \A j \in DOMAIN qs : qs[j] = panel
      BY <3>3 DEF Graph!Apart
    <3> HIDE DEF qs
    <3>6. \A j \in DOMAIN qs : OnPage(qs[j], v7 + 4)
      BY <3>3, <3>5
    <3>7. \A i \in DOMAIN v4, j \in DOMAIN qs : Graph!Disjoint(v4[i], qs[j])
      BY <3>4, <3>5
    <3>8. v7 >= v7
      BY <1>2
    <3>9. Beside(v4, v7, v7, qs)
      BY <1>2, <3>1, <3>5, <3>6, <3>7, <3>8 DEF Beside
    <3> QED BY <3>9, LaidJoin, Zenon
  <2>3. SizesHaveReference => Laid(v4', v7')
    BY <2>1, <2>2
  <2>4. v7' \in Nat /\ pc' \in Sections \ {"checksum", "types", "wbits", "chunked"}
    BY <1>2, <2>1 DEF Sections
  <2> QED BY <1>1, <1>2, <2>1, <2>3, <2>4, SectionDrawn
<1>6. \/ Graph!Skip("dist")
      \/ Graph!AllKeys("chunked") # {} /\ v8 = NULL /\ Graph!Raise
      \/ v8 # NULL /\ Graph!Draw("dist", qs, v7)
  BY DEF Graph!ChunkedPanel
<1> QED BY <1>3, <1>4, <1>5, <1>6

\* A section of facets, below the others.
LEMMA FacetsDrawn ==
  ASSUME script = "graph_runs", script' = script, GraphInv, pc \in Sections,
         NEW next \in Sections \ {"checksum", "types", "wbits", "chunked"},
         NEW n, NEW w, NEW top, NEW h, NEW end \in Nat,
         FacetsFit(v7, end, n, w, top, h), Graph!Draw(next, Graph!Facets(n, w, 24, top, h), end)
  PROVE  GraphInv'
<1>1. /\ UNCHANGED <<v1, v2, v3>> /\ pc' = next /\ v7' = end
      /\ v4' = v4 \o Graph!Facets(n, w, 24, top, h)
  BY DrawKeeps
<1>2. SizesHaveReference => Laid(v4, v7)
  BY DEF GraphInv, GraphLayout
<1>3. Joined(v4', v4, Graph!Facets(n, w, 24, top, h))
  BY <1>1 DEF Joined
<1>4. SizesHaveReference => Laid(v4', end)
  <2>1. SizesHaveReference => FacetsAdded(v4, v7, end, n, w, top, h, v4')
    BY <1>2, <1>3 DEF FacetsAdded
  <2> QED BY <2>1, LaidFacets, Zenon
<1>5. GraphPlaces
  BY DEF GraphInv
<1>6. SizesHaveReference => Laid(v4', v7')
  BY <1>1, <1>4
<1> QED BY <1>1, <1>5, <1>6, SectionDrawn

\* A section of one panel, below the others.
LEMMA PanelDrawn ==
  ASSUME script = "graph_runs", script' = script, GraphInv, pc \in Sections,
         NEW next \in Sections \ {"checksum", "types", "wbits", "chunked"},
         NEW x, NEW w, NEW top, NEW h, NEW end \in Nat,
         PanelFits(v7, end, x, w, top, h), Graph!Draw(next, <<Graph!Panel(x, w, top, h)>>, end)
  PROVE  GraphInv'
<1>1. /\ UNCHANGED <<v1, v2, v3>> /\ pc' = next /\ v7' = end
      /\ v4' = v4 \o <<Graph!Panel(x, w, top, h)>>
  BY DrawKeeps
<1>2. SizesHaveReference => Laid(v4, v7)
  BY DEF GraphInv, GraphLayout
<1>3. Joined(v4', v4, <<Graph!Panel(x, w, top, h)>>)
  BY <1>1 DEF Joined
<1>4. SizesHaveReference => Laid(v4', end)
  <2>1. SizesHaveReference => PanelAdded(v4, v7, end, x, w, top, h, v4')
    BY <1>2, <1>3 DEF PanelAdded
  <2> QED BY <2>1, LaidPanel, Zenon
<1>5. GraphPlaces
  BY DEF GraphInv
<1>6. SizesHaveReference => Laid(v4', v7')
  BY <1>1, <1>4
<1> QED BY <1>1, <1>5, <1>6, SectionDrawn

\* The facets of the distance tests fill a row of at most two.
LEMMA DistStep ==
  ASSUME script = "graph_runs", script' = script, GraphInv, Graph!DistFacets
  PROVE  GraphInv'
<1> DEFINE kinds == {k[1] : k \in Graph!AllOf("dist")}
           n == Graph!Cardinality(kinds)
           top == v7 + 66
           end == v7 + 66 + 214
<1>1. pc = "dist" /\ pc \in Sections
  BY DEF Graph!DistFacets, Sections
<1>2. Aggregated /\ v7 \in Nat
  BY <1>1 DEF GraphInv, GraphPlaces, Sections
<1>3. n \in 0..2
  <2>1. kinds \subseteq {"codec_deflate", "codec_inflate"}
    BY <1>2, KindsOfTwo
  <2> HIDE DEF kinds
  <2>2. Cardinality(kinds) \in 0..2
    BY <2>1, AtMostTwo
  <2> QED BY <2>2, SameCardinality
<1>4. Graph!Skip("files") \/ Graph!Draw("files", Graph!Facets(n, 459, 24, top, 200), end)
  BY DEF Graph!DistFacets
<1> HIDE DEF kinds, n
<1>5. end \in Nat /\ FacetsFit(v7, end, n, 459, top, 200)
  BY <1>2, <1>3 DEF FacetsFit
<1>6. "files" \in Sections \ {"checksum", "types", "wbits", "chunked"}
  BY DEF Sections
<1> HIDE DEF top, end
<1> QED BY <1>1, <1>4, <1>5, <1>6, SectionSkipped, FacetsDrawn

\* So do those of the single files.
LEMMA FilesStep ==
  ASSUME script = "graph_runs", script' = script, GraphInv, Graph!FileFacets
  PROVE  GraphInv'
<1> DEFINE many == {g \in {"deflate", "inflate"} :
                      Graph!Cardinality(IF g = "deflate" THEN Graph!FilesAt(6)
                                        ELSE Graph!AllOf("inflate_files")) > 1}
           n == Graph!Cardinality(many)
           top == v7 + 56
           end == v7 + 56 + 202
<1>1. pc = "files" /\ pc \in Sections
  BY DEF Graph!FileFacets, Sections
<1>2. v7 \in Nat
  BY <1>1 DEF GraphInv, GraphPlaces, Sections
<1>3. n \in 0..2
  <2>1. many \subseteq {"deflate", "inflate"}
    OBVIOUS
  <2> HIDE DEF many
  <2>2. Cardinality(many) \in 0..2
    BY <2>1, AtMostTwo
  <2> QED BY <2>2, SameCardinality
<1>4. Graph!Skip("size9") \/ Graph!Draw("size9", Graph!Facets(n, 459, 24, top, 193), end)
  BY DEF Graph!FileFacets
<1> HIDE DEF many, n
<1>5. end \in Nat /\ FacetsFit(v7, end, n, 459, top, 193)
  BY <1>2, <1>3 DEF FacetsFit
<1>6. "size9" \in Sections \ {"checksum", "types", "wbits", "chunked"}
  BY DEF Sections
<1> HIDE DEF top, end
<1> QED BY <1>1, <1>4, <1>5, <1>6, SectionSkipped, FacetsDrawn

\* A caption alone moves nothing on: then the reference has no size.
LEMMA SizeStep ==
  ASSUME script = "graph_runs", script' = script, GraphInv, Graph!SizePanel
  PROVE  GraphInv'
<1> DEFINE sized == \E f \in v3[Graph!Reference].deflate_files : f[1] = 9
           top == v7 + 56
           end == v7 + 56 + 202
<1>1. pc = "size9" /\ pc \in Sections
  BY DEF Graph!SizePanel, Sections
<1>2. v7 \in Nat /\ Aggregated
  BY <1>1 DEF GraphInv, GraphPlaces, Sections
<1>3. "comp" \in Sections \ {"checksum", "types", "wbits", "chunked"}
  BY DEF Sections
<1>4. CASE Graph!Skip("comp")
  BY <1>1, <1>3, <1>4, SectionSkipped
<1>5. CASE Graph!Draw("comp", <<Graph!Panel(78, 942, top, 194)>>, end)
  <2>1. end \in Nat /\ PanelFits(v7, end, 78, 942, top, 194)
    BY <1>2 DEF PanelFits
  <2> HIDE DEF top, end
  <2> QED BY <1>1, <1>3, <1>5, <2>1, PanelDrawn
<1>6. CASE /\ ~(Graph!Cardinality(Graph!FilesAt(9)) <= 1) /\ ~sized
           /\ Graph!Draw("comp", <<Graph!Panel(78, 942, top, -18)>>, v7)
  <2>1. UNCHANGED <<v1, v2, v3>> /\ pc' = "comp" /\ v7' = v7
    <3> DEFINE panels == <<Graph!Panel(78, 942, top, -18)>>
    <3> HIDE DEF panels
    <3> QED BY <1>6, DrawKeeps
  <2>2. ~SizesHaveReference
    <3>1. CASE Graph!FilesAt(9) = {}
      <4>1. Graph!Cardinality({}) = 0
        BY SameCardinality, FS_EmptySet
      <4> QED BY <1>6, <3>1, <4>1
    <3>2. CASE Graph!FilesAt(9) # {}
      BY <1>6, <3>2 DEF SizesHaveReference
    <3> QED BY <3>1, <3>2
  <2>3. GraphPlaces
    BY DEF GraphInv
  <2>4. v7' \in Nat /\ (SizesHaveReference => Laid(v4', v7'))
    BY <1>2, <2>1, <2>2
  <2> QED BY <1>1, <1>3, <2>1, <2>3, <2>4, SectionDrawn
<1>7. \/ Graph!Skip("comp")
      \/ Graph!Draw("comp", <<Graph!Panel(78, 942, top, 194)>>, end)
      \/ /\ ~(Graph!Cardinality(Graph!FilesAt(9)) <= 1) /\ ~sized
         /\ Graph!Draw("comp", <<Graph!Panel(78, 942, top, -18)>>, v7)
  BY DEF Graph!SizePanel
<1> QED BY <1>4, <1>5, <1>6, <1>7

\* The anatomy is three narrower facets, or the answer that raises.
LEMMA AnatomyStep ==
  ASSUME script = "graph_runs", script' = script, GraphInv, Graph!AnatomyFacets
  PROVE  GraphInv'
<1> DEFINE top == v7 + 56
           end == v7 + 56 + 210
<1>1. pc = "comp" /\ pc \in Sections
  BY DEF Graph!AnatomyFacets, Sections
<1>2. v7 \in Nat /\ Aggregated
  BY <1>1 DEF GraphInv, GraphPlaces, Sections
<1>3. "dispatch" \in Sections \ {"checksum", "types", "wbits", "chunked"}
  BY DEF Sections
<1>4. Graph!Cardinality(Graph!CompLevels) \in Nat
  BY <1>2, LevelsFinite, FS_CardinalityType, SameCardinality
<1>5. CASE Graph!Skip("dispatch")
  BY <1>1, <1>3, <1>5, SectionSkipped
<1>6. CASE ~(Graph!Cardinality(Graph!CompLevels) < 2) /\ Graph!Flat /\ Graph!Raise
  <2>1. UNCHANGED <<v1, v2, v3>> /\ pc' = "raised"
    BY <1>6 DEF Graph!Raise
  <2>2. Graph!Cardinality(Graph!CompLevels) > 1 /\ Graph!Flat
    BY <1>4, <1>6
  <2> QED BY <1>1, <2>1, <2>2, SectionRaised
<1>7. CASE Graph!Draw("dispatch", Graph!Facets(3, 298, 24, top, 198), end)
  <2>1. end \in Nat /\ FacetsFit(v7, end, 3, 298, top, 198)
    BY <1>2 DEF FacetsFit
  <2> HIDE DEF top, end
  <2> QED BY <1>1, <1>3, <1>7, <2>1, FacetsDrawn
<1>8. \/ Graph!Skip("dispatch")
      \/ ~(Graph!Cardinality(Graph!CompLevels) < 2) /\ Graph!Flat /\ Graph!Raise
      \/ Graph!Draw("dispatch", Graph!Facets(3, 298, 24, top, 198), end)
  BY DEF Graph!AnatomyFacets
<1> QED BY <1>5, <1>6, <1>7, <1>8

\* The dispatch panel is laid last, as high as its rows.
LEMMA DispatchStep ==
  ASSUME script = "graph_runs", script' = script, GraphInv, Graph!DispatchPanel
  PROVE  GraphInv'
<1> DEFINE top == v7 + 56
           h == 22 * Graph!DispatchRows
           end == v7 + 56 + 22 * Graph!DispatchRows + 20
<1>1. pc = "dispatch" /\ pc \in Sections
  BY DEF Graph!DispatchPanel, Sections
<1>2. v7 \in Nat /\ Aggregated
  BY <1>1 DEF GraphInv, GraphPlaces, Sections
<1>3. "written" \in Sections \ {"checksum", "types", "wbits", "chunked"}
  BY DEF Sections
<1>4. Graph!Skip("written") \/ Graph!Draw("written", <<Graph!Panel(78, 942, top, h)>>, end)
  BY DEF Graph!DispatchPanel
<1>5. end \in Nat /\ PanelFits(v7, end, 78, 942, top, h)
  <2>1. Graph!DispatchRows \in Nat
    BY <1>2, DispatchRowsType
  <2>2. h \in Nat
    BY <2>1
  <2> HIDE DEF h
  <2>3. end = v7 + 56 + h + 20
    BY DEF h
  <2> HIDE DEF end
  <2>4. end \in Nat /\ end >= v7 /\ top - 28 >= v7 + 4 /\ top + h <= end + 4 /\ top \in Int /\ h \in Int
    BY <1>2, <2>2, <2>3
  <2> QED BY <1>2, <2>4 DEF PanelFits
<1> HIDE DEF top, h, end
<1> QED BY <1>1, <1>3, <1>4, <1>5, SectionSkipped, PanelDrawn

\* Every step of graph_runs.py keeps GraphInv, and the other scripts do not touch it.
LEMMA GraphInvStep == GraphInv /\ [Next]_vars => GraphInv'
<1> SUFFICES ASSUME GraphInv, [Next]_vars PROVE GraphInv'
  OBVIOUS
<1>1. CASE script # "graph_runs"
  <2>1. script' # "graph_runs"
    BY <1>1 DEF Next, vars
  <2>2. GraphPlaces' /\ GraphReasons'
    BY <2>1 DEF GraphPlaces, GraphReasons
  <2>3. GraphLayout'
    BY <2>1 DEF GraphLayout
  <2> QED BY <2>2, <2>3 DEF GraphInv
<1>2. CASE script = "graph_runs" /\ Graph!Next /\ script' = script
  <2>1. \/ Graph!Aggregate \/ Graph!RightColumn \/ Graph!DeflatePanel \/ Graph!ChecksumFacets
        \/ Graph!TypeFacets \/ Graph!WbitsPanel \/ Graph!ChunkedPanel \/ Graph!DistFacets
        \/ Graph!FileFacets \/ Graph!SizePanel \/ Graph!AnatomyFacets \/ Graph!DispatchPanel
    BY <1>2 DEF Graph!Next
  <2> QED BY <1>2, <2>1, AggregateStep, RightColumnStep, DeflatePanelStep, ChecksumStep, TypesStep,
             WbitsStep, ChunkedStep, DistStep, FilesStep, SizeStep, AnatomyStep, DispatchStep
<1>3. CASE UNCHANGED vars /\ script = "graph_runs"
  <2>1. UNCHANGED <<script, pc, v1, v2, v3, v4, v5, v6, v7, v8>>
    BY <1>3 DEF vars
  <2>2. /\ Aggregated' = Aggregated /\ SizesHaveReference' = SizesHaveReference
        /\ Graph!CompLevels' = Graph!CompLevels /\ Graph!Flat' = Graph!Flat
        /\ Graph!AllKeys("chunked")' = Graph!AllKeys("chunked")
        /\ Graph!AllKeys("wbits")' = Graph!AllKeys("wbits")
        /\ Graph!AllKeys("deflate")' = Graph!AllKeys("deflate")
        /\ Graph!Has("checksum")' = Graph!Has("checksum")
    BY <2>1, GraphAsks, Zenon
  <2>3. GraphPlaces' = GraphPlaces
    BY <2>1, <2>2 DEF GraphPlaces
  <2>4. GraphReasons' = GraphReasons
    BY <2>1, <2>2 DEF GraphReasons
  <2>5. GraphLayout' = GraphLayout
    BY <2>1, <2>2 DEF GraphLayout
  <2> QED BY <2>3, <2>4, <2>5 DEF GraphInv
<1>4. \/ script # "graph_runs"
      \/ script = "graph_runs" /\ Graph!Next /\ script' = script
      \/ UNCHANGED vars /\ script = "graph_runs"
  BY DEF Next
<1> QED BY <1>1, <1>2, <1>3, <1>4

\* The inductive invariant of graph_runs.py.
LEMMA GraphInvHolds == Spec => []GraphInv
<1>1. Init => GraphInv
  BY DEF Init, Graph!Init, GraphInv, GraphPlaces, GraphReasons, GraphLayout, Sections
<1> QED BY <1>1, GraphInvStep, PTL DEF Spec

(* A chart of two runs or more, with a point above level 0, is written, or   *)
(* graph_runs.py has failed for an eleventh run, for streaming windows       *)
(* without a windowBits panel, or for stream counters that do not differ.    *)
THEOREM ChartIsWrittenHolds == Spec => []ChartIsWritten
<1>1. GraphInv => ChartIsWritten
  <2> SUFFICES ASSUME GraphInv, script = "graph_runs" PROVE Graph!ChartIsWritten
    BY DEF ChartIsWritten
  <2>1. Graph!AllKeys("deflate") \subseteq {<<0, "">>} =>
          \A i \in Graph!Runs : DOMAIN v3[i].deflate \subseteq {<<0, "">>}
    BY DEF Graph!AllKeys
  <2> QED BY <2>1 DEF GraphInv, GraphReasons, Graph!ChartIsWritten
<1> QED BY <1>1, GraphInvHolds, PTL

(* The finished chart of graph_runs.py: its panels are on the page and do    *)
(* not overlap, whatever sections the runs call for, unless the reference    *)
(* has no size at level 9 where another run has.                            *)
GraphApart == script = "graph_runs" => Graph!PanelsApart

\* The panels of a chart that is written lie apart from each other, on the page (PanelsApart).
THEOREM GraphApartHolds == Spec => []GraphApart
<1>1. GraphInv => GraphApart
  <2> SUFFICES ASSUME GraphInv, script = "graph_runs", pc = "written", SizesHaveReference
               PROVE  Graph!Apart(v4) /\ Graph!Within(v4, 1080, Graph!FootnoteTop)
    BY DEF GraphApart, Graph!PanelsApart, SizesHaveReference
  <2>1. v7 \in Nat /\ Laid(v4, v7)
    BY DEF GraphInv, GraphPlaces, GraphLayout, Sections
  <2>2. Graph!FootnoteTop = v7 + 6
    BY <2>1 DEF Graph!FootnoteTop
  <2>3. ASSUME NEW i \in DOMAIN v4
        PROVE  v4[i].x0 >= 0 /\ v4[i].x1 <= 1080 /\ v4[i].y0 >= 0 /\ v4[i].y1 <= v7 + 6
    <3>1. v4[i].x0 >= 0 /\ v4[i].x1 <= 1080 /\ v4[i].y0 >= 0 /\ v4[i].y1 <= v7 + 4
      BY <2>1 DEF Laid
    <3>2. v4 \in Seq(Panels)
      BY <2>1 DEF Laid
    <3>3. v4[i] \in Panels
      BY <3>2
    <3>4. v4[i].y1 \in Int
      BY <3>3 DEF Panels
    <3> QED BY <2>1, <3>1, <3>4
  <2>4. Graph!Within(v4, 1080, Graph!FootnoteTop)
    BY <2>2, <2>3 DEF Graph!Within
  <2> QED BY <2>1, <2>4 DEF Laid
<1> QED BY <1>1, GraphInvHolds, PTL

----------------------------------------------------------------------------
(* The markers of the charts. *)

\* Markers counts as this module does.
LEMMA MarksCardinality == \A S : Marks!Cardinality(S) = Cardinality(S)
BY Zenon DEF Marks!Cardinality, Cardinality

\* Two series are near each other at the slot.
NearBy(i, j) == v1[i] - v1[j] \in -TOL..TOL

\* Series are done from the top down: those moved are far above all others, which
\* the cluster is a chain of; those moved already are as MarkersSeen says.
Dodging ==
  /\ v1 \in Slots /\ v5 = <<>>
  /\ DOMAIN v1 = v2 \cup v3 \cup DOMAIN v4
  /\ v2 \cap v3 = {} /\ v2 \cap DOMAIN v4 = {} /\ v3 \cap DOMAIN v4 = {}
  /\ \A i \in v3, j \in v2 : v1[i] <= v1[j]
  /\ \A i \in DOMAIN v4, j \in v2 \cup v3 : v1[j] - v1[i] > TOL
  /\ \A i \in v3 : v3 = {i} \/ \E j \in v3 \ {i} : NearBy(i, j)
  /\ \A i \in DOMAIN v4 : v4[i] \in Int
  /\ \A i, j \in DOMAIN v4 : i < j => ~NearBy(i, j) \/ v4[j] - v4[i] >= 2 * STEP
  /\ \A i \in DOMAIN v4 : (\A j \in DOMAIN v1 \ {i} : ~NearBy(i, j)) => v4[i] = 0

\* Dots drawn so far, in order, each with those before that it is close to.
Close(d, e) == Marks!Square(d[1] - e[1]) + Marks!Square(d[2] - e[2]) < Marks!Square(NEAR)
Under(k) == {l \in 1..k - 1 : Close(v5[k].dot, v5[l].dot)}

Dotted ==
  /\ v1 \in Dots /\ v5 \in Seq([dot : Int \X Int, near : Nat, scale : Int])
  /\ Len(v5) <= Len(v1)
  /\ \A k \in 1..Len(v5) : v5[k].near = Cardinality(Under(k)) /\ v5[k].scale = Marks!Scale(v5[k].near)

MarksInv ==
  script = "markers" =>
    \/ pc = "dodge" /\ Dodging
    \/ pc = "dodged" /\ Dodging /\ v2 = {} /\ v3 = {}
    \/ pc = "dots" /\ Dotted

\* A cluster is spread by index, and a series alone stays where it is.
LEMMA SpreadApart ==
  ASSUME NEW M \in SUBSET Nat, IsFiniteSet(M), \A i \in DOMAIN v4 : v4[i] \in Int
  PROVE  /\ DOMAIN Marks!Spread(M) = DOMAIN v4 \cup M
         /\ \A i \in DOMAIN v4 \ M : Marks!Spread(M)[i] = v4[i]
         /\ \A i \in DOMAIN v4 \cup M : Marks!Spread(M)[i] \in Int
         /\ \A i, j \in M : i < j => Marks!Spread(M)[j] - Marks!Spread(M)[i] >= 2 * STEP
         /\ \A i \in M : M = {i} => Marks!Spread(M)[i] = 0
<1> DEFINE left(i) == {j \in M : j < i}
           c(i) == Marks!Cardinality(left(i))
           m == Marks!Cardinality(M)
           sp == Marks!Spread(M)
<1>1. /\ DOMAIN sp = DOMAIN v4 \cup M
      /\ \A i \in DOMAIN v4 \ M : sp[i] = v4[i]
      /\ \A i \in M : sp[i] = (2 * c(i) - (m - 1)) * STEP
  BY DEF Marks!Spread
<1>2. m \in Nat /\ \A i \in M : c(i) \in Nat
  <2>1. \A i \in M : IsFiniteSet(left(i))
    BY FS_Subset
  <2> QED BY <2>1, FS_CardinalityType, MarksCardinality
<1>3. ASSUME NEW i \in M, NEW j \in M, i < j PROVE c(j) >= c(i) + 1
  <2>1. IsFiniteSet(left(i)) /\ IsFiniteSet(left(j))
    BY FS_Subset
  <2>2. left(i) \cup {i} \subseteq left(j) /\ i \notin left(i)
    <3>1. \A x \in M : x \in Int
      OBVIOUS
    <3>2. \A x \in M : x < i => x < j
      BY <1>3, <3>1
    <3>3. ~(i < i)
      BY <3>1
    <3> QED BY <1>3, <3>2, <3>3
  <2> HIDE DEF left
  <2>3. IsFiniteSet(left(i) \cup {i}) /\ Cardinality(left(i) \cup {i}) = Cardinality(left(i)) + 1
    BY <2>1, <2>2, FS_AddElement
  <2>4. Cardinality(left(i) \cup {i}) <= Cardinality(left(j))
    BY <2>1, <2>2, FS_Subset
  <2> QED BY <2>3, <2>4, MarksCardinality
<1>4. STEP \in Nat
  BY MarkersAssumption
<1>5. ASSUME NEW i \in M, M = {i} PROVE 2 * c(i) - (m - 1) = 0
  <2>1. left(i) = {}
    BY <1>5
  <2>2. Cardinality({}) = 0 /\ Cardinality({i}) = 1
    BY FS_EmptySet, FS_Singleton
  <2> QED BY <1>5, <2>1, <2>2, MarksCardinality
<1> HIDE DEF sp, c, m
<1>6. \A i \in M : sp[i] \in Int /\ (M = {i} => sp[i] = 0)
  <2> SUFFICES ASSUME NEW i \in M PROVE sp[i] \in Int /\ (M = {i} => sp[i] = 0)
    OBVIOUS
  <2>1. c(i) \in Nat /\ m \in Nat /\ sp[i] = (2 * c(i) - (m - 1)) * STEP
    BY <1>1, <1>2
  <2> QED BY <1>4, <1>5, <2>1
<1>7. ASSUME NEW i \in M, NEW j \in M, i < j PROVE sp[j] - sp[i] >= 2 * STEP
  <2> DEFINE a == 2 * c(i) - (m - 1)
             b == 2 * c(j) - (m - 1)
  <2>1. a \in Int /\ b \in Int /\ b >= a + 2 /\ sp[i] = a * STEP /\ sp[j] = b * STEP
    BY <1>1, <1>2, <1>3, <1>7
  <2> HIDE DEF a, b
  <2>2. (b - a) * STEP >= 2 * STEP
    BY <1>4, <2>1
  <2>3. b * STEP - a * STEP = (b - a) * STEP
    BY <1>4, <2>1
  <2> QED BY <2>1, <2>2, <2>3
<1>8. \A i \in DOMAIN v4 \cup M : sp[i] \in Int
  BY <1>1, <1>6
<1> QED BY <1>1, <1>6, <1>7, <1>8 DEF sp

\* What a cluster is once it is spread: the series moved so far are as they should be.
LEMMA Flushed ==
  ASSUME Dodging, UNCHANGED v1, v4' = Marks!Spread(v3)
  PROVE  /\ DOMAIN v4' = DOMAIN v4 \cup v3
         /\ \A k \in DOMAIN v4' : v4'[k] \in Int
         /\ \A k, j \in DOMAIN v4' : k < j => ~NearBy(k, j) \/ v4'[j] - v4'[k] >= 2 * STEP
         /\ \A k \in DOMAIN v4' : (\A j \in DOMAIN v1 \ {k} : ~NearBy(k, j)) => v4'[k] = 0
<1>1. /\ STEP \in Nat /\ TOL \in Nat
      /\ IsFiniteSet(DOMAIN v1) /\ DOMAIN v1 \subseteq Nat /\ \A k \in DOMAIN v1 : v1[k] \in Int
  BY MarkersAssumption DEF Dodging
<1>2. /\ DOMAIN v1 = v2 \cup v3 \cup DOMAIN v4 /\ v3 \cap DOMAIN v4 = {}
      /\ \A k \in DOMAIN v4, j \in v2 \cup v3 : v1[j] - v1[k] > TOL
      /\ \A k \in v3 : v3 = {k} \/ \E j \in v3 \ {k} : NearBy(k, j)
      /\ \A k \in DOMAIN v4 : v4[k] \in Int
      /\ \A k, j \in DOMAIN v4 : k < j => ~NearBy(k, j) \/ v4[j] - v4[k] >= 2 * STEP
      /\ \A k \in DOMAIN v4 : (\A j \in DOMAIN v1 \ {k} : ~NearBy(k, j)) => v4[k] = 0
  BY DEF Dodging
<1>3. v3 \in SUBSET Nat /\ IsFiniteSet(v3)
  BY <1>1, <1>2, FS_Subset
<1>4. /\ DOMAIN v4' = DOMAIN v4 \cup v3
      /\ \A k \in DOMAIN v4 : v4'[k] = v4[k]
      /\ \A k \in DOMAIN v4' : v4'[k] \in Int
      /\ \A k, j \in v3 : k < j => v4'[j] - v4'[k] >= 2 * STEP
      /\ \A k \in v3 : v3 = {k} => v4'[k] = 0
  <2>1. DOMAIN v4 \ v3 = DOMAIN v4
    BY <1>2
  <2> QED BY <1>2, <1>3, <2>1, SpreadApart
<1>5. ASSUME NEW k \in DOMAIN v4, NEW j \in v3 PROVE ~NearBy(k, j) /\ ~NearBy(j, k)
  <2>1. v1[j] - v1[k] > TOL /\ v1[j] \in Int /\ v1[k] \in Int
    BY <1>1, <1>2
  <2> QED BY <1>1, <2>1 DEF NearBy
<1>6. ASSUME NEW k \in DOMAIN v4', NEW j \in DOMAIN v4', k < j
      PROVE  ~NearBy(k, j) \/ v4'[j] - v4'[k] >= 2 * STEP
  <2>1. CASE k \in DOMAIN v4 /\ j \in DOMAIN v4
    BY <1>2, <1>4, <1>6, <2>1
  <2>2. CASE k \in v3 /\ j \in v3
    BY <1>4, <1>6, <2>2
  <2>3. (k \in DOMAIN v4 \/ k \in v3) /\ (j \in DOMAIN v4 \/ j \in v3)
    BY <1>4, Zenon
  <2> QED BY <1>5, <2>1, <2>2, <2>3, Zenon
<1>7. ASSUME NEW k \in DOMAIN v4', \A j \in DOMAIN v1 \ {k} : ~NearBy(k, j) PROVE v4'[k] = 0
  <2>1. CASE k \in DOMAIN v4
    BY <1>2, <1>4, <1>7, <2>1
  <2>2. CASE k \in v3
    BY <1>2, <1>4, <1>7, <2>2
  <2>3. k \in DOMAIN v4 \/ k \in v3
    BY <1>4, Zenon
  <2> QED BY <2>1, <2>2, <2>3, Zenon
<1>8. /\ \A k, j \in DOMAIN v4' : k < j => ~NearBy(k, j) \/ v4'[j] - v4'[k] >= 2 * STEP
      /\ \A k \in DOMAIN v4' : (\A j \in DOMAIN v1 \ {k} : ~NearBy(k, j)) => v4'[k] = 0
  BY <1>6, <1>7, Zenon
<1> QED BY <1>4, <1>8, Zenon

\* The next series, the highest of those to come, joins the cluster or starts one.
LEMMA GatherStep ==
  ASSUME script = "markers", script' = script, pc = "dodge", Dodging, Marks!Gather
  PROVE  pc' = "dodge" /\ Dodging'
<1>1. PICK i \in v2 :
        /\ \A j \in v2 \ {i} : Marks!Before(i, j)
        /\ \/ (v3 = {} \/ Marks!NearLast(i)) /\ v3' = v3 \cup {i} /\ v4' = v4
           \/ v3 # {} /\ ~Marks!NearLast(i) /\ v4' = Marks!Spread(v3) /\ v3' = {i}
        /\ v2' = v2 \ {i}
  BY DEF Marks!Gather
<1>2. v1' = v1 /\ v5' = v5 /\ pc' = "dodge" /\ v1 \in Slots
  BY DEF Marks!Gather, Dodging
<1>3. /\ STEP \in Nat /\ TOL \in Nat
      /\ IsFiniteSet(DOMAIN v1) /\ DOMAIN v1 \subseteq Nat /\ \A k \in DOMAIN v1 : v1[k] \in Int
  BY <1>2, MarkersAssumption
<1>4. /\ v1 \in Slots /\ v5 = <<>>
      /\ DOMAIN v1 = v2 \cup v3 \cup DOMAIN v4
      /\ v2 \cap v3 = {} /\ v2 \cap DOMAIN v4 = {} /\ v3 \cap DOMAIN v4 = {}
      /\ \A k \in v3, j \in v2 : v1[k] <= v1[j]
      /\ \A k \in DOMAIN v4, j \in v2 \cup v3 : v1[j] - v1[k] > TOL
      /\ \A k \in v3 : v3 = {k} \/ \E j \in v3 \ {k} : NearBy(k, j)
      /\ \A k \in DOMAIN v4 : v4[k] \in Int
      /\ \A k, j \in DOMAIN v4 : k < j => ~NearBy(k, j) \/ v4[j] - v4[k] >= 2 * STEP
      /\ \A k \in DOMAIN v4 : (\A j \in DOMAIN v1 \ {k} : ~NearBy(k, j)) => v4[k] = 0
  BY DEF Dodging
<1>5. \A k, j : NearBy(k, j)' = NearBy(k, j)
  BY <1>2 DEF NearBy
<1>6. \A j \in v2' : v1[i] <= v1[j]
  BY <1>1, <1>3, <1>4 DEF Marks!Before
<1>7. CASE (v3 = {} \/ Marks!NearLast(i)) /\ v3' = v3 \cup {i} /\ v4' = v4
  <2>1. \A k \in v3', j \in v2' : v1[k] <= v1[j]
    BY <1>1, <1>4, <1>6, <1>7
  <2>2. \A k \in v3' : v3' = {k} \/ \E j \in v3' \ {k} : NearBy(k, j)
    <3>1. CASE v3 = {}
      BY <1>7, <3>1
    <3>2. CASE Marks!NearLast(i)
      <4>1. PICK j \in v3 : v1[i] - v1[j] <= TOL
        BY <3>2 DEF Marks!NearLast
      <4>2. v1[j] <= v1[i] /\ v1[i] \in Int /\ v1[j] \in Int /\ i # j
        BY <1>3, <1>4
      <4>3. NearBy(i, j) /\ NearBy(j, i)
        BY <1>3, <4>1, <4>2 DEF NearBy
      <4> QED BY <1>4, <1>7, <4>2, <4>3
    <3> QED BY <1>7, <3>1, <3>2
  <2>3. DOMAIN v4' = DOMAIN v4
    BY <1>7
  <2>4. /\ DOMAIN v1' = v2' \cup v3' \cup DOMAIN v4'
        /\ v2' \cap v3' = {} /\ v2' \cap DOMAIN v4' = {} /\ v3' \cap DOMAIN v4' = {}
        /\ v2' \cup v3' = v2 \cup v3
    BY <1>1, <1>2, <1>4, <1>7, <2>3
  <2> QED BY <1>2, <1>4, <1>5, <1>7, <2>1, <2>2, <2>3, <2>4, Zenon DEF Dodging
<1>8. CASE v3 # {} /\ ~Marks!NearLast(i) /\ v4' = Marks!Spread(v3) /\ v3' = {i}
  <2>2. /\ DOMAIN v4' = DOMAIN v4 \cup v3
        /\ \A k \in DOMAIN v4' : v4'[k] \in Int
        /\ \A k, j \in DOMAIN v4' : k < j => ~NearBy(k, j) \/ v4'[j] - v4'[k] >= 2 * STEP
        /\ \A k \in DOMAIN v4' : (\A j \in DOMAIN v1 \ {k} : ~NearBy(k, j)) => v4'[k] = 0
    BY <1>2, <1>8, Flushed
  <2>3. ASSUME NEW k \in DOMAIN v4', NEW j \in v2' \cup v3' PROVE v1[j] - v1[k] > TOL
    <3>1. j \in v2 /\ v1[i] <= v1[j] /\ v1[i] \in Int /\ v1[j] \in Int
      BY <1>1, <1>3, <1>4, <1>6, <1>8, <2>3
    <3>2. CASE k \in DOMAIN v4
      BY <1>4, <3>1, <3>2
    <3>3. CASE k \in v3
      <4>1. ~(v1[i] - v1[k] <= TOL) /\ v1[k] \in Int
        BY <1>3, <1>4, <1>8, <3>3 DEF Marks!NearLast
      <4> QED BY <1>3, <3>1, <4>1
    <3> QED BY <2>2, <2>3, <3>2, <3>3
  <2>7. /\ DOMAIN v1' = v2' \cup v3' \cup DOMAIN v4'
        /\ v2' \cap v3' = {} /\ v2' \cap DOMAIN v4' = {} /\ v3' \cap DOMAIN v4' = {}
    BY <1>1, <1>2, <1>4, <1>8, <2>2
  <2>8. \A k \in v3' : v3' = {k}
    BY <1>8
  <2>9. \A k \in v3', j \in v2' : v1[k] <= v1[j]
    BY <1>6, <1>8
  <2> QED BY <1>2, <1>4, <1>5, <2>2, <2>3, <2>7, <2>8, <2>9 DEF Dodging
<1> QED BY <1>1, <1>2, <1>7, <1>8

\* The series left over are spread below all that were moved, and end the dodging.
LEMMA LastClusterStep ==
  ASSUME script = "markers", script' = script, pc = "dodge", Dodging, Marks!LastCluster
  PROVE  pc' = "dodged" /\ Dodging' /\ v2' = {} /\ v3' = {}
<1>1. /\ pc' = "dodged" /\ v1' = v1 /\ v5' = v5 /\ v2 = {} /\ v2' = {} /\ v3' = {}
      /\ v4' = Marks!Spread(v3) /\ v1 \in Slots /\ v5 = <<>>
  BY DEF Marks!LastCluster, Dodging
<1>2. /\ DOMAIN v4' = DOMAIN v4 \cup v3
      /\ \A k \in DOMAIN v4' : v4'[k] \in Int
      /\ \A k, j \in DOMAIN v4' : k < j => ~NearBy(k, j) \/ v4'[j] - v4'[k] >= 2 * STEP
      /\ \A k \in DOMAIN v4' : (\A j \in DOMAIN v1 \ {k} : ~NearBy(k, j)) => v4'[k] = 0
  BY <1>1, Flushed
<1>3. DOMAIN v1 = v2 \cup v3 \cup DOMAIN v4
  BY DEF Dodging
<1>4. \A k, j : NearBy(k, j)' = NearBy(k, j)
  BY <1>1 DEF NearBy
<1> QED BY <1>1, <1>2, <1>3, <1>4 DEF Dodging

\* The next dot is as small as the dots it is close to are many.
LEMMA DotStep ==
  ASSUME script = "markers", script' = script, pc = "dots", Dotted, Marks!Dot
  PROVE  pc' = "dots" /\ Dotted'
<1> DEFINE R == [dot : Int \X Int, near : Nat, scale : Int]
<1>1. PICK m \in Nat : m = Len(v5)
  BY DEF Dotted
<1>2. PICK d : d = v1[m + 1]
  OBVIOUS
<1>3. PICK n : n = Marks!Stacked(d)
  OBVIOUS
<1> DEFINE q == [dot |-> d, near |-> n, scale |-> Marks!Scale(n)]
           S == {k \in 1..m : Close(d, v5[k].dot)}
<1>4. pc' = "dots" /\ v1' = v1 /\ m < Len(v1) /\ v5' = Append(v5, q)
  BY <1>1, <1>2, <1>3 DEF Marks!Dot
<1>5. /\ v1 \in Dots /\ v5 \in Seq(R) /\ Len(v1) \in Nat
      /\ \A k \in 1..m : v5[k].near = Cardinality(Under(k)) /\ v5[k].scale = Marks!Scale(v5[k].near)
      /\ v1 \in Seq(Int \X Int)
  BY <1>1, MarkersAssumption DEF Dotted
<1>6. d \in Int \X Int
  BY <1>2, <1>4, <1>5
<1>7. n = Cardinality(S) /\ n \in Nat
  <2>1. n = Marks!Cardinality(S)
    <3>1. DOMAIN v5 = 1..m
      BY <1>1, <1>5
    <3> QED BY <1>3, <3>1, Zenon DEF Marks!Stacked, Close
  <2>2. IsFiniteSet(1..m)
    BY FS_Interval
  <2>3. Cardinality(S) \in Nat
    BY <2>2, FS_Subset, FS_CardinalityType
  <2> HIDE DEF S
  <2> QED BY <2>1, <2>3, MarksCardinality
<1>8. Marks!Scale(n) \in Int
  BY <1>7 DEF Marks!Scale
<1>9. q \in R
  BY <1>6, <1>7, <1>8
<1> HIDE DEF R
<1>10. /\ v5' \in Seq(R) /\ Len(v5') = m + 1 /\ v5'[m + 1] = q
       /\ \A k \in 1..m : v5'[k] = v5[k]
  <2> HIDE DEF q
  <2> QED BY <1>1, <1>4, <1>5, <1>9
<1>11. \A k \in 1..m : Under(k)' = Under(k)
  <2> SUFFICES ASSUME NEW k \in 1..m PROVE Under(k)' = Under(k)
    OBVIOUS
  <2>1. v5'[k] = v5[k] /\ \A l \in 1..k - 1 : v5'[l] = v5[l]
    BY <1>10
  <2> QED BY <2>1 DEF Under, Close
<1>12. v5'[m + 1].dot = d /\ v5'[m + 1].near = n /\ v5'[m + 1].scale = Marks!Scale(n)
  BY <1>10
<1>13. Under(m + 1)' = S
  <2>1. (m + 1) - 1 = m
    OBVIOUS
  <2>2. \A l \in 1..m : v5'[l].dot = v5[l].dot
    BY <1>10
  <2>3. \A l \in 1..m : Close(v5'[m + 1].dot, v5'[l].dot) = Close(d, v5[l].dot)
    BY <1>12, <2>2
  <2> QED BY <2>1, <2>3 DEF Under, Close
<1> HIDE DEF S
<1>14. ASSUME NEW k \in 1..Len(v5')
       PROVE  v5'[k].near = Cardinality(Under(k)') /\ v5'[k].scale = Marks!Scale(v5'[k].near)
  <2>1. CASE k \in 1..m
    BY <1>5, <1>10, <1>11, <2>1
  <2>2. CASE k = m + 1
    BY <1>7, <1>12, <1>13, <2>2
  <2>3. k \in 1..m \/ k = m + 1
    BY <1>10
  <2> QED BY <2>1, <2>2, <2>3
<1>15. v5' \in Seq([dot : Int \X Int, near : Nat, scale : Int])
  BY <1>10 DEF R
<1>16. v1' \in Dots /\ Len(v5') <= Len(v1')
  BY <1>4, <1>5, <1>10
<1> QED BY <1>4, <1>14, <1>15, <1>16, Zenon DEF Dotted

\* Every step of the markers keeps MarksInv.
LEMMA MarksStep == MarksInv /\ [Next]_vars => MarksInv'
<1> SUFFICES ASSUME MarksInv, [Next]_vars, script' = "markers" PROVE MarksInv'
  BY DEF MarksInv
<1>1. script = "markers" /\ script' = script
  BY DEF Next, vars
<1>2. CASE Marks!Next
  <2>1. \/ pc = "dodge" /\ Marks!Gather
        \/ pc = "dodge" /\ Marks!LastCluster
        \/ pc = "dots" /\ Marks!Dot
    BY <1>2 DEF Marks!Next, Marks!Gather, Marks!LastCluster, Marks!Dot
  <2> QED BY <1>1, <2>1, GatherStep, LastClusterStep, DotStep DEF MarksInv
<1>3. CASE UNCHANGED vars
  <2>1. UNCHANGED <<script, pc, v1, v2, v3, v4, v5>>
    BY <1>3 DEF vars
  <2>2. Dodging' = Dodging
    BY <2>1 DEF Dodging, NearBy
  <2>3. Dotted' = Dotted
    BY <2>1 DEF Dotted, Under, Close
  <2> QED BY <2>1, <2>2, <2>3 DEF MarksInv
<1> QED BY <1>1, <1>2, <1>3 DEF Next

\* Markers keep every series and every dot to be seen.
LEMMA MarksSeen == MarksInv /\ script = "markers" => Marks!MarkersSeen
<1> SUFFICES ASSUME MarksInv, script = "markers" PROVE Marks!MarkersSeen
  OBVIOUS
<1>1. CASE pc = "dodge" /\ Dodging
  BY <1>1 DEF Marks!MarkersSeen, Dodging
<1>2. CASE pc = "dodged" /\ Dodging /\ v2 = {} /\ v3 = {}
  BY <1>2 DEF Marks!MarkersSeen, Dodging, NearBy
<1>3. CASE pc = "dots" /\ Dotted
  <2>1. /\ v5 \in Seq([dot : Int \X Int, near : Nat, scale : Int])
        /\ \A k \in 1..Len(v5) : v5[k].near = Cardinality(Under(k)) /\ v5[k].scale = Marks!Scale(v5[k].near)
    BY <1>3 DEF Dotted
  <2>0. DOMAIN v5 = 1..Len(v5) /\ Len(v5) \in Nat
    BY <2>1
  <2>2. ASSUME NEW k \in DOMAIN v5, NEW l \in 1..k - 1, v5[l].dot = v5[k].dot, v5[l].near <= 2
        PROVE  v5[k].scale < v5[l].scale
    <3>1. k \in 1..Len(v5) /\ l \in 1..Len(v5) /\ k \in Nat /\ l \in Nat
      BY <2>0
    <3>2. Under(l) \cup {l} \subseteq Under(k) /\ l \notin Under(l)
      <4>1. \A j \in 1..l - 1 : j \in 1..k - 1
        BY <3>1
      <4>2. Close(v5[k].dot, v5[l].dot)
        <5> DEFINE d == v5[k].dot
        <5>1. d \in Int \X Int
          <6> DEFINE R == [dot : Int \X Int, near : Nat, scale : Int]
          <6>1. v5 \in Seq(R)
            BY <2>1
          <6> HIDE DEF R
          <6>2. v5[k] \in R
            BY <3>1, <6>1
          <6> QED BY <6>2 DEF R
        <5> HIDE DEF d
        <5>2. d[1] - d[1] = 0 /\ d[2] - d[2] = 0
          BY <5>1
        <5>3. NEAR * NEAR > 0
          BY MarkersAssumption
        <5>4. Close(d, d)
          BY <5>2, <5>3 DEF Close, Marks!Square
        <5> QED BY <2>2, <5>4 DEF d
      <4>3. l \notin 1..l - 1
        BY <3>1
      <4> QED BY <2>2, <4>1, <4>2, <4>3 DEF Under
    <3>3. IsFiniteSet(Under(k)) /\ IsFiniteSet(Under(l))
      <4>1. IsFiniteSet(1..k - 1) /\ IsFiniteSet(1..l - 1)
        <5>1. 1 \in Int /\ k - 1 \in Int /\ l - 1 \in Int
          BY <3>1
        <5> QED BY <5>1, FS_Interval
      <4> QED BY <4>1, FS_Subset DEF Under
    <3>4. Cardinality(Under(l) \cup {l}) = Cardinality(Under(l)) + 1
      BY <3>2, <3>3, FS_AddElement
    <3>5. Cardinality(Under(l) \cup {l}) <= Cardinality(Under(k))
      BY <3>2, <3>3, FS_Subset
    <3>6. Cardinality(Under(k)) \in Nat /\ Cardinality(Under(l)) \in Nat
      BY <3>3, FS_CardinalityType
    <3>7. v5[k].near >= v5[l].near + 1 /\ v5[k].near \in Nat /\ v5[l].near \in Nat
      BY <2>1, <3>1, <3>4, <3>5, <3>6
    <3>8. v5[k].scale = Marks!Scale(v5[k].near) /\ v5[l].scale = Marks!Scale(v5[l].near)
      BY <2>1, <3>1
    <3> QED BY <2>2, <3>7, <3>8 DEF Marks!Scale
  <2> QED BY <1>3, <2>2 DEF Marks!MarkersSeen
<1> QED BY <1>1, <1>2, <1>3 DEF MarksInv

(* The markers of a chart keep every series and every dot to be seen, for    *)
(* any number of them at any heights.                                       *)
MarkersApart == script = "markers" => Marks!MarkersSeen

\* Markers of a slot that is dodged are apart, and labels do not cover dots (graph_runs.py).
THEOREM MarkersApartHolds == Spec => []MarkersApart
<1>1. Init => MarksInv
  <2> SUFFICES ASSUME Init, script = "markers" PROVE MarksInv
    BY DEF MarksInv
  <2>1. Marks!Init
    BY DEF Init
  <2>2. CASE pc = "dodge" /\ v1 \in Slots /\ v2 = DOMAIN v1
    BY <2>1, <2>2 DEF Marks!Init, MarksInv, Dodging
  <2>3. CASE pc = "dots" /\ v1 \in Dots
    <3>1. v5 = <<>>
      BY <2>1 DEF Marks!Init
    <3>2. v1 \in Seq(Int \X Int)
      BY <2>3, MarkersAssumption
    <3>3. Dotted
      BY <2>3, <3>1, <3>2 DEF Dotted
    <3> QED BY <2>3, <3>3 DEF MarksInv
  <2> QED BY <2>1, <2>2, <2>3 DEF Marks!Init
<1>2. MarksInv => MarkersApart
  BY MarksSeen DEF MarkersApart
<1> QED BY <1>1, <1>2, MarksStep, PTL DEF Spec

----------------------------------------------------------------------------
(* compare_inputs.py and frontier.py: what they show of two runs. *)

\* CompareInputs counts, compares and lists as this module does.
LEMMA InputsCopies ==
  /\ \A S : Inputs!Cardinality(S) = Cardinality(S)
  /\ \A s : Inputs!IsInjective(s) <=> \A i, j \in DOMAIN s : s[i] = s[j] => i = j
  /\ \A s : Inputs!ToSet(s) = {s[i] : i \in DOMAIN s}
<1>1. \A S : Inputs!Cardinality(S) = Cardinality(S)
  BY Zenon DEF Inputs!Cardinality, Cardinality
<1>2. \A s : Inputs!IsInjective(s) <=> \A i, j \in DOMAIN s : s[i] = s[j] => i = j
  BY Zenon DEF Inputs!IsInjective
<1>3. \A s : Inputs!ToSet(s) = {s[i] : i \in DOMAIN s}
  BY Zenon DEF Inputs!ToSet
<1> QED BY <1>1, <1>2, <1>3

\* The labels that are shown, in some order.
LEMMA InputsListed ==
  ASSUME NEW S, IsFiniteSet(S)
  PROVE  /\ Inputs!SetToSeq(S) \in [1..Cardinality(S) -> S] /\ Cardinality(S) \in Nat
         /\ Inputs!ToSet(Inputs!SetToSeq(S)) = S
         /\ \A i, j \in 1..Cardinality(S) : Inputs!SetToSeq(S)[i] = Inputs!SetToSeq(S)[j] => i = j
<1> DEFINE n == Cardinality(S)
           s == Inputs!SetToSeq(S)
<1>1. n \in Nat /\ \E f : f \in Bijection(1..n, S)
  BY FS_CardinalityType DEF ExistsBijection
<1>2. PICK f : f \in Bijection(1..n, S)
  BY <1>1
<1> HIDE DEF n
<1>3. f \in [1..n -> S] /\ Inputs!IsInjective(f)
  BY <1>2, InputsCopies DEF Bijection, Injection, IsInjective
<1>4. s = CHOOSE g \in [1..n -> S] : Inputs!IsInjective(g)
  BY InputsCopies, Zenon DEF Inputs!SetToSeq, n
<1> HIDE DEF s
<1>5. s \in [1..n -> S] /\ Inputs!IsInjective(s)
  BY <1>3, <1>4
<1>6. s \in Injection(1..n, S)
  BY <1>5, InputsCopies DEF Injection, IsInjective
<1>7. IsFiniteSet(1..n) /\ Cardinality(1..n) = n
  BY <1>1, FS_Interval
<1>8. s \in Surjection(1..n, S)
  BY <1>6, <1>7, FS_Injection DEF n
<1>9. Inputs!ToSet(s) = S
  <2>1. Inputs!ToSet(s) = {s[i] : i \in 1..n}
    BY <1>5, InputsCopies
  <2>2. \A i \in 1..n : s[i] \in S
    BY <1>5
  <2>3. \A x \in S : \E i \in 1..n : s[i] = x
    BY <1>8 DEF Surjection
  <2> QED BY <2>1, <2>2, <2>3
<1>10. \A i, j \in 1..n : s[i] = s[j] => i = j
  <2>1. DOMAIN s = 1..n
    BY <1>5
  <2> QED BY <1>5, <2>1, InputsCopies
<1> QED BY <1>1, <1>5, <1>9, <1>10 DEF n, s

\* What the scripts have of a run.
RowsOf(i) == Inputs!input_rows(v1[i])

\* A run has a measurement of its own of each label and level that it has.
LEMMA RowsMeasured ==
  ASSUME v1 \in Pairs, NEW i \in 1..2
  PROVE  /\ IsFiniteSet(DOMAIN RowsOf(i))
         /\ \A l \in DOMAIN RowsOf(i) :
              /\ IsFiniteSet(DOMAIN RowsOf(i)[l])
              /\ DOMAIN RowsOf(i)[l] \subseteq Nat \cup {-1}
              /\ \A v \in DOMAIN RowsOf(i)[l] :
                   /\ RowsOf(i)[l][v].size \in Nat \ {0} /\ RowsOf(i)[l][v].time \in Nat \ {0}
                   /\ RowsOf(i)[l][v].cv \in Nat
<1> DEFINE good == {r \in v1[i] : Inputs!Plain(r.name) /\ r.size > 0 /\ r.time > 0}
           of(l) == {r \in good : Inputs!InputOf(r.name) = l}
<1>1. /\ IsFiniteSet(v1[i])
      /\ \A r \in v1[i] : r.size \in Nat /\ r.time \in Nat /\ r.cv \in Nat /\ r.name.level \in Nat \cup {-1}
  BY InputsAssumption
<1>2. IsFiniteSet(good) /\ \A l : IsFiniteSet(of(l))
  BY <1>1, FS_Subset
<1>3. /\ DOMAIN RowsOf(i) = {Inputs!InputOf(r.name) : r \in good}
      /\ \A l \in DOMAIN RowsOf(i) :
           RowsOf(i)[l] = [v \in {r.name.level : r \in of(l)} |-> CHOOSE r \in of(l) : r.name.level = v]
  BY DEF RowsOf, Inputs!input_rows
<1> HIDE DEF of
<1>4. IsFiniteSet(DOMAIN RowsOf(i))
  <2> DEFINE f == [r \in good |-> Inputs!InputOf(r.name)]
  <2>1. IsFiniteSet({f[r] : r \in good})
    <3> HIDE DEF f
    <3> QED BY <1>2, FiniteImage
  <2>2. {f[r] : r \in good} = {Inputs!InputOf(r.name) : r \in good}
    OBVIOUS
  <2> QED BY <1>3, <2>1, <2>2
<1>5. ASSUME NEW l \in DOMAIN RowsOf(i)
      PROVE  /\ IsFiniteSet(DOMAIN RowsOf(i)[l]) /\ DOMAIN RowsOf(i)[l] \subseteq Nat \cup {-1}
             /\ \A v \in DOMAIN RowsOf(i)[l] : RowsOf(i)[l][v] \in of(l)
  <2>1. RowsOf(i)[l] = [v \in {r.name.level : r \in of(l)} |-> CHOOSE r \in of(l) : r.name.level = v]
    BY <1>3
  <2> DEFINE f == [r \in of(l) |-> r.name.level]
  <2>2. IsFiniteSet({f[r] : r \in of(l)})
    <3> HIDE DEF f
    <3> QED BY <1>2, FiniteImage DEF of
  <2>3. {f[r] : r \in of(l)} = DOMAIN RowsOf(i)[l]
    BY <2>1
  <2>4. \A r \in of(l) : r.name.level \in Nat \cup {-1}
    BY <1>1 DEF of
  <2>5. \A v \in DOMAIN RowsOf(i)[l] : RowsOf(i)[l][v] \in of(l)
    BY <2>1
  <2>6. IsFiniteSet(DOMAIN RowsOf(i)[l])
    <3> HIDE DEF f
    <3> QED BY <2>2, <2>3
  <2>7. DOMAIN RowsOf(i)[l] = {r.name.level : r \in of(l)}
    <3> HIDE DEF of
    <3> QED BY <2>1
  <2>8. DOMAIN RowsOf(i)[l] \subseteq Nat \cup {-1}
    BY <2>4, <2>7
  <2> QED BY <2>5, <2>6, <2>8
<1>6. \A l : \A r \in of(l) : r.size \in Nat \ {0} /\ r.time \in Nat \ {0} /\ r.cv \in Nat
  BY <1>1 DEF of
<1> QED BY <1>4, <1>5, <1>6

\* What is asked of the rows does not change while the selection does not.
LEMMA InputsSame ==
  ASSUME v1' = v1, v2' = v2, v3' = v3
  PROVE  /\ \A i : RowsOf(i)' = RowsOf(i)
         /\ \A l : Inputs!Both(l)' = Inputs!Both(l)
         /\ \A v : Inputs!Narrowed(v)' = Inputs!Narrowed(v)
         /\ \A S, L : Inputs!Shown(S, L)' = Inputs!Shown(S, L)
<1>1. \A l : Inputs!Both(l)' = Inputs!Both(l)
  BY Zenon DEF Inputs!Both
<1>2. \A S, L : Inputs!Shown(S, L)' = Inputs!Shown(S, L)
  BY <1>1, Zenon DEF Inputs!Shown
<1>3. \A v : Inputs!Narrowed(v)' = Inputs!Narrowed(v)
  BY Zenon DEF Inputs!Narrowed
<1>4. \A i : RowsOf(i)' = RowsOf(i)
  BY Zenon DEF RowsOf
<1> QED BY <1>1, <1>2, <1>3, <1>4

\* The level, if any, that a point of a panel is beaten at by the other run.
Beating(i, l, v) == Inputs!beaten(Inputs!Ladder(i, l)[v], Inputs!Ladder(3 - i, l))

\* Grids and rings are functions of the inputs and of what is shown.
LEMMA InputsShownSame ==
  ASSUME v1' = v1, v2' = v2, v3' = v3, v4' = v4, v5' = v5
  PROVE  /\ \A key : Inputs!Grid(key)' = Inputs!Grid(key)
         /\ \A l : Inputs!RingsOf(l)' = Inputs!RingsOf(l)
<1>1. \A l : Inputs!Both(l)' = Inputs!Both(l)
  BY InputsSame
<1>2. \A key, l, v : Inputs!Cell(key, l, v)' = Inputs!Cell(key, l, v)
  BY SMT DEF Inputs!Cell, Inputs!judge, Inputs!Abs, Inputs!Noise, Inputs!Larger
<1>3. \A i, l : Inputs!Ladder(i, l)' = Inputs!Ladder(i, l)
  BY Zenon DEF Inputs!Ladder
<1>4. \A key : Inputs!Grid(key)' = Inputs!Grid(key)
  BY <1>1, <1>2, Zenon DEF Inputs!Grid
<1>5. \A l : Inputs!RingsOf(l)' = Inputs!RingsOf(l)
  <2> SUFFICES ASSUME NEW l PROVE Inputs!RingsOf(l)' = Inputs!RingsOf(l)
    OBVIOUS
  <2> DEFINE all == UNION {{i} \X DOMAIN Inputs!Ladder(i, l) : i \in 1..2}
             P == {q \in all : Beating(q[1], l, q[2]) # {}}
             pick(p) == CHOOSE v \in Beating(p[1], l, p[2]) : TRUE
  <2>1. \A i, v : Beating(i, l, v)' = Beating(i, l, v)
    BY <1>3, SMT DEF Beating, Inputs!beaten, Inputs!ClearlyFaster, Inputs!Noise, Inputs!Larger
  <2>2. Inputs!RingsOf(l) = [p \in P |-> pick(p)]
    BY Zenon DEF Inputs!RingsOf, Beating
  <2>3. Inputs!RingsOf(l)' = [p \in P' |-> pick(p)']
    BY Zenon DEF Inputs!RingsOf, Beating
  <2>4. all' = all
    BY <1>3, Zenon
  <2>5. P' = P
    <3> HIDE DEF all
    <3> QED BY <2>1, <2>4, Zenon
  <2>6. \A p : pick(p)' = pick(p)
    BY <2>1, Zenon
  <2> HIDE DEF P, pick
  <2> QED BY <2>2, <2>3, <2>5, <2>6, Zenon
<1> QED BY <1>4, <1>5

\* The inputs that both runs have and the call does not leave out.
SeenInputs == DOMAIN v3[1] \cap DOMAIN v3[2] \cap v2.filter

\* What Select has chosen.
InputsChosen ==
  /\ v5 = {v \in UNION {Inputs!Both(l) : l \in SeenInputs} : Inputs!Narrowed(v)}
  /\ v4 = Inputs!SetToSeq(Inputs!Shown(SeenInputs, v5))

\* The panels that frontier.py has drawn, with their rings.
PanelAt(k) ==
  LET cols == Inputs!Larger(1, v2.columns)
      x0   == 16 + (k % cols) * (250 + 26)
      y0   == 100 + (k \div cols) * (170 + 22)
  IN [x0 |-> x0, x1 |-> x0 + 250, y0 |-> y0, y1 |-> y0 + 170]

Ringed(m) ==
  /\ m \in Nat
  /\ v7 = [k \in 1..m |-> Inputs!RingsOf(v4[k])]
  /\ v8 = [k \in 1..m |-> PanelAt(k - 1)]

\* The grids of compare_inputs.py, as many as there are.
Gridded(m) == v6 = [k \in 1..m |-> Inputs!Grid(<<"size", "time">>[k])]

InputsStage ==
  \/ pc = "exit" /\ v6 = <<>> /\ v7 = <<>> /\ v8 = <<>>
  \/ pc = "inputs" /\ v2.script = "inputs" /\ v7 = <<>> /\ v8 = <<>> /\ \E m \in 0..2 : Gridded(m)
  \/ pc = "frontier" /\ v2.script = "frontier" /\ v6 = <<>> /\ \E m \in Nat : Ringed(m) /\ (m = 0 \/ m <= Len(v4))
  \/ pc = "written" /\ v2.script = "inputs" /\ v7 = <<>> /\ Gridded(2)
  \/ pc = "written" /\ v2.script = "frontier" /\ v6 = <<>> /\ Ringed(Len(v4))

InputsInv ==
  script = "by_input" =>
    /\ v1 \in Pairs /\ v2 \in Calls /\ v3 = <<RowsOf(1), RowsOf(2)>>
    /\ \/ pc = "load" /\ v6 = <<>> /\ v7 = <<>> /\ v8 = <<>>
       \/ InputsChosen /\ InputsStage
    /\ Inputs!InputsApart

\* Select makes the selection of the call.
LEMMA SelectStep ==
  ASSUME script = "by_input", script' = script, InputsInv, Inputs!Select
  PROVE  InputsInv'
<1>1. /\ pc = "load" /\ v1 \in Pairs /\ v2 \in Calls /\ v3 = <<RowsOf(1), RowsOf(2)>>
      /\ v6 = <<>> /\ v7 = <<>> /\ v8 = <<>>
  BY DEF InputsInv, Inputs!Select, InputsStage
<1>2. UNCHANGED <<v1, v2, v3, v6, v7, v8>> /\ (pc' = "exit" \/ pc' = v2.script)
  BY DEF Inputs!Select
<1>3. v2.script \in {"inputs", "frontier"}
  BY <1>1, InputsAssumption
<1>4. SeenInputs' = SeenInputs
  BY <1>2 DEF SeenInputs
<1>5. InputsChosen'
  <2>1. /\ v5' = {v \in UNION {Inputs!Both(l) : l \in SeenInputs} : Inputs!Narrowed(v)}
        /\ v4' = Inputs!SetToSeq(Inputs!Shown(SeenInputs, v5'))
    BY DEF Inputs!Select, SeenInputs
  <2>2. /\ \A l : Inputs!Both(l)' = Inputs!Both(l)
        /\ \A v : Inputs!Narrowed(v)' = Inputs!Narrowed(v)
    BY <1>2, InputsSame
  <2>3. v5' = {v \in UNION {Inputs!Both(l)' : l \in SeenInputs'} : Inputs!Narrowed(v)'}
    BY <1>4, <2>1, <2>2, Zenon
  <2>4. Inputs!Shown(SeenInputs, v5)' = Inputs!Shown(SeenInputs, v5')
    BY <1>4, <2>2, Zenon DEF Inputs!Shown
  <2>5. Inputs!SetToSeq(Inputs!Shown(SeenInputs, v5))' = Inputs!SetToSeq(Inputs!Shown(SeenInputs, v5'))
    BY <2>4, Zenon DEF Inputs!SetToSeq, Inputs!Cardinality, Inputs!IsInjective
  <2> QED BY <2>1, <2>3, <2>5, Zenon DEF InputsChosen
<1>6. InputsStage'
  <2>1. Gridded(0)'
    BY <1>1, <1>2 DEF Gridded
  <2>2. Ringed(0)'
    BY <1>1, <1>2 DEF Ringed
  <2> QED BY <1>1, <1>2, <1>3, <2>1, <2>2 DEF InputsStage
<1>7. v3' = <<RowsOf(1)', RowsOf(2)'>>
  BY <1>1, <1>2, InputsSame
<1>8. Inputs!InputsApart'
  BY <1>1, <1>2, <1>3 DEF Inputs!InputsApart
<1> QED BY <1>1, <1>2, <1>5, <1>6, <1>7, <1>8 DEF InputsInv

\* The selection stays what it is once it is made.
LEMMA ChosenSame ==
  ASSUME v1' = v1, v2' = v2, v3' = v3, v4' = v4, v5' = v5, v3 = <<RowsOf(1), RowsOf(2)>>
  PROVE  (InputsChosen => InputsChosen') /\ v3' = <<RowsOf(1)', RowsOf(2)'>>
<1>1. /\ \A l : Inputs!Both(l)' = Inputs!Both(l)
      /\ \A v : Inputs!Narrowed(v)' = Inputs!Narrowed(v)
      /\ \A S, L : Inputs!Shown(S, L)' = Inputs!Shown(S, L)
      /\ RowsOf(1)' = RowsOf(1) /\ RowsOf(2)' = RowsOf(2)
  BY InputsSame
<1>2. SeenInputs' = SeenInputs
  BY DEF SeenInputs
<1>3. {v \in UNION {Inputs!Both(l) : l \in SeenInputs} : Inputs!Narrowed(v)}' =
      {v \in UNION {Inputs!Both(l) : l \in SeenInputs} : Inputs!Narrowed(v)}
  BY <1>1, <1>2, Zenon
<1>4. Inputs!Shown(SeenInputs, v5)' = Inputs!Shown(SeenInputs, v5)
  BY <1>2, Zenon DEF Inputs!Shown, Inputs!Both
<1>5. Inputs!SetToSeq(Inputs!Shown(SeenInputs, v5))' = Inputs!SetToSeq(Inputs!Shown(SeenInputs, v5))
  BY <1>4, Zenon DEF Inputs!SetToSeq, Inputs!Cardinality, Inputs!IsInjective
<1>6. InputsChosen => InputsChosen'
  BY <1>3, <1>5, Zenon DEF InputsChosen
<1> QED BY <1>1, <1>6

\* What is shown has a label each, in some order.
LEMMA Labelled ==
  ASSUME v1 \in Pairs, v3 = <<RowsOf(1), RowsOf(2)>>, InputsChosen
  PROVE  /\ Len(v4) \in Nat /\ DOMAIN v4 = 1..Len(v4)
         /\ Inputs!ToSet(v4) = Inputs!Shown(SeenInputs, v5)
         /\ IsFiniteSet(Inputs!Shown(SeenInputs, v5))
<1> DEFINE S == Inputs!Shown(SeenInputs, v5)
<1>1. v4 = Inputs!SetToSeq(S)
  BY DEF InputsChosen
<1>2. S \subseteq DOMAIN RowsOf(1)
  BY DEF Inputs!Shown, SeenInputs
<1>3. IsFiniteSet(S)
  <2>1. IsFiniteSet(DOMAIN RowsOf(1))
    <3>1. 1 \in 1..2
      OBVIOUS
    <3> QED BY <3>1, RowsMeasured, Zenon
  <2> HIDE DEF S
  <2> QED BY <1>2, <2>1, FS_Subset
<1> HIDE DEF S
<1>4. v4 \in [1..Cardinality(S) -> S] /\ Cardinality(S) \in Nat /\ Inputs!ToSet(v4) = S
  BY <1>1, <1>3, InputsListed
<1>5. Len(v4) = Cardinality(S)
  BY <1>4, SequenceLength
<1> QED BY <1>3, <1>4, <1>5 DEF S

\* The next grid is that of the next measure.
LEMMA BuildGridsStep ==
  ASSUME script = "by_input", script' = script, InputsInv, Inputs!BuildGrids
  PROVE  InputsInv'
<1>1. /\ v1 \in Pairs /\ v2 \in Calls /\ v3 = <<RowsOf(1), RowsOf(2)>>
      /\ InputsChosen /\ pc = "inputs" /\ v2.script = "inputs" /\ v7 = <<>> /\ v8 = <<>>
  BY DEF InputsInv, Inputs!BuildGrids, InputsStage
<1>2. PICK m \in 0..2 : Gridded(m)
  BY DEF InputsInv, Inputs!BuildGrids, InputsStage
<1>3. UNCHANGED <<pc, v1, v2, v3, v4, v5, v7, v8>> /\ Len(v6) < 2
      /\ v6' = Append(v6, Inputs!Grid(<<"size", "time">>[Len(v6) + 1]))
  BY DEF Inputs!BuildGrids
<1> DEFINE g(k) == Inputs!Grid(<<"size", "time">>[k])
           S == {g(k) : k \in 1..2}
<1>4. v6 = [k \in 1..m |-> g(k)]
  BY <1>2 DEF Gridded
<1>5. v6 \in [1..m -> S] /\ m \in Nat
  BY <1>4
<1>6. v6 \in Seq(S) /\ Len(v6) = m
  <2> HIDE DEF S, g
  <2> QED BY <1>5
<1>7. g(m + 1) \in S /\ v6' = Append(v6, g(m + 1)) /\ m + 1 \in 0..2
  BY <1>3, <1>6
<1>8. v6' = [k \in 1..m + 1 |-> v6'[k]] /\ v6'[m + 1] = g(m + 1) /\ \A k \in 1..m : v6'[k] = v6[k]
  <2> HIDE DEF S, g
  <2>1. Extends(Append(v6, g(m + 1)), v6, g(m + 1))
    BY <1>6, <1>7, Appended, Zenon
  <2> QED BY <1>6, <1>7, <2>1, Zenon DEF Extends
<1>9. \A k \in 1..m + 1 : v6'[k] = g(k)
  <2> SUFFICES ASSUME NEW k \in 1..m + 1 PROVE v6'[k] = g(k)
    OBVIOUS
  <2> HIDE DEF g
  <2>1. k \in 1..m \/ k = m + 1
    OBVIOUS
  <2> QED BY <1>4, <1>8, <2>1
<1>10. v6' = [k \in 1..m + 1 |-> g(k)]
  <2> HIDE DEF g, S
  <2> QED BY <1>8, <1>9, Zenon
<1>11. \A k : g(k)' = g(k)
  BY <1>3, InputsShownSame, Zenon
<1>12. Gridded(m + 1)'
  <2>1. v6' = [k \in 1..m + 1 |-> g(k)']
    <3> HIDE DEF g
    <3> QED BY <1>10, <1>11, Zenon
  <2> QED BY <2>1 DEF Gridded
<1>13. InputsStage'
  <2>1. \E i \in 0..2 : Gridded(i)'
    BY <1>7, <1>12
  <2> QED BY <1>1, <1>3, <2>1, Zenon DEF InputsStage
<1>14. Inputs!InputsApart'
  BY <1>1, <1>3 DEF Inputs!InputsApart
<1> QED BY <1>1, <1>3, <1>13, <1>14, ChosenSame, Zenon DEF InputsInv

\* The grids lie beside each other, whatever the width of the labels.
LEMMA RenderGridsStep ==
  ASSUME script = "by_input", script' = script, InputsInv, Inputs!RenderGrids
  PROVE  InputsInv'
<1>1. /\ v1 \in Pairs /\ v2 \in Calls /\ v3 = <<RowsOf(1), RowsOf(2)>>
      /\ InputsChosen /\ v2.script = "inputs" /\ v7 = <<>>
  BY DEF InputsInv, Inputs!RenderGrids, InputsStage
<1>2. PICK m \in 0..2 : Gridded(m)
  BY DEF InputsInv, Inputs!RenderGrids, InputsStage
<1>3. UNCHANGED <<v1, v2, v3, v4, v5, v6, v7>> /\ Len(v6) = 2 /\ pc' = "written"
  BY DEF Inputs!RenderGrids
<1>4. m = 2
  BY <1>2, <1>3 DEF Gridded
<1>5. Gridded(2)'
  <2>1. \A key : Inputs!Grid(key)' = Inputs!Grid(key)
    BY <1>3, InputsShownSame
  <2>2. Gridded(2)
    BY <1>2, <1>4
  <2> QED BY <1>3, <2>1, <2>2, Zenon DEF Gridded
<1>6. InputsStage'
  BY <1>1, <1>3, <1>5, Zenon DEF InputsStage
<1>7. ASSUME v2.width < 900
      PROVE  Inputs!Apart(v8') /\ Inputs!Within(v8', 2160, 1000 + 200 * Len(v4))
  <2>1. PICK w \in Nat : w = v2.width /\ w < 900
    <3>1. v2 \in Calls
      BY ONLY <1>1, Zenon
    <3>2. \A call \in Calls : call.width \in Nat
      BY ONLY InputsAssumption
    <3>3. v2.width \in Nat
      BY ONLY <3>1, <3>2, Zenon
    <3> QED BY ONLY <1>7, <3>3
  <2>2. PICK n \in Nat : n = Len(v4)
    BY <1>1, Labelled, Zenon
  <2>3. PICK lw \in Nat : lw = Inputs!Larger(110, w + 18)
    BY DEF Inputs!Larger
  <2>4. lw >= 110 /\ lw >= w + 18 /\ lw <= 917
    BY <2>1, <2>3 DEF Inputs!Larger
  <2>5. PICK end \in Nat : /\ end = 132 + 28 * Len(v4) + 10 +
                                      IF v6[1].typical # {} \/ v6[2].typical # {} THEN 28 ELSE 0
                           /\ end >= 142 + 28 * n /\ end <= 170 + 28 * n
    BY <2>2
  <2> DEFINE block == 960 - lw
             p1 == [x0 |-> 80, x1 |-> 80 + 2 * w, y0 |-> 132, y1 |-> end]
             p2 == [x0 |-> 80 + 2 * lw, x1 |-> 80 + 2 * lw + block, y0 |-> 91, y1 |-> end]
             p3 == [x0 |-> 160 + 2 * lw + block, x1 |-> 160 + 2 * lw + 2 * block, y0 |-> 91, y1 |-> end]
             p4 == [x0 |-> 80, x1 |-> 2080, y0 |-> end + 12, y1 |-> end + 22]
  <2>6. v8' = <<p1, p2, p3, p4>>
    <3>1. 80 + 2 * lw + (1 - 1) * (block + 80) = 80 + 2 * lw
      OBVIOUS
    <3>2. 80 + 2 * lw + (2 - 1) * (block + 80) = 160 + 2 * lw + block
      OBVIOUS
    <3>3. 80 + 2 * lw + (2 - 1) * (block + 80) + block = 160 + 2 * lw + 2 * block
      OBVIOUS
    <3> DEFINE at(W, L, B, E) ==
                 <<[x0 |-> 80, x1 |-> 80 + 2 * W, y0 |-> 132, y1 |-> E],
                   [x0 |-> 80 + 2 * L + (1 - 1) * (B + 80),
                    x1 |-> 80 + 2 * L + (1 - 1) * (B + 80) + B, y0 |-> 91, y1 |-> E],
                   [x0 |-> 80 + 2 * L + (2 - 1) * (B + 80),
                    x1 |-> 80 + 2 * L + (2 - 1) * (B + 80) + B, y0 |-> 91, y1 |-> E],
                   [x0 |-> 80, x1 |-> 2080, y0 |-> E + 12, y1 |-> E + 22]>>
               L == Inputs!Larger(110, v2.width + 18)
               E == 132 + 28 * Len(v4) + 10 +
                      IF v6[1].typical # {} \/ v6[2].typical # {} THEN 28 ELSE 0
    <3>4. v8' = at(v2.width, L, 960 - L, E)
      BY Zenon DEF Inputs!RenderGrids
    <3>5. L = lw
      BY <2>1, <2>3
    <3>6. E = end
      BY <2>5
    <3>7. v8' = at(w, lw, block, end)
      <4> HIDE DEF at, L, E
      <4> QED BY <2>1, <3>4, <3>5, <3>6 DEF block
    <3> HIDE DEF block
    <3> QED BY <3>1, <3>2, <3>3, <3>7
  <2>7. /\ Inputs!Disjoint(p1, p2) /\ Inputs!Disjoint(p2, p1) /\ Inputs!Disjoint(p1, p3)
        /\ Inputs!Disjoint(p3, p1) /\ Inputs!Disjoint(p2, p3) /\ Inputs!Disjoint(p3, p2)
    BY <2>4 DEF Inputs!Disjoint
  <2>8. /\ Inputs!Disjoint(p1, p4) /\ Inputs!Disjoint(p4, p1) /\ Inputs!Disjoint(p2, p4)
        /\ Inputs!Disjoint(p4, p2) /\ Inputs!Disjoint(p3, p4) /\ Inputs!Disjoint(p4, p3)
    BY <2>4 DEF Inputs!Disjoint
  <2> DEFINE fits(p) == p.x0 >= 0 /\ p.x1 <= 2160 /\ p.y0 >= 0 /\ p.y1 <= 1000 + 200 * n
  <2>9. fits(p1) /\ fits(p2) /\ fits(p3) /\ fits(p4)
    <3>1. /\ w \in Nat /\ lw \in Nat /\ end \in Nat /\ n \in Nat
          /\ 80 + 2 * w <= 2160 /\ lw <= 917 /\ end >= 142 /\ end + 22 <= 1000 + 200 * n
      <4>1. end >= 142 + 28 * n /\ end <= 170 + 28 * n
        BY <2>5
      <4> QED BY ONLY <2>1, <2>4, <4>1
    <3>2. fits(p1)
      BY ONLY <3>1
    <3>3. fits(p2)
      BY ONLY <3>1
    <3>4. fits(p3)
      BY ONLY <3>1
    <3>5. fits(p4)
      BY ONLY <3>1
    <3> QED BY <3>2, <3>3, <3>4, <3>5
  <2> HIDE DEF p1, p2, p3, p4
  <2>10. DOMAIN v8' = 1..4 /\ v8'[1] = p1 /\ v8'[2] = p2 /\ v8'[3] = p3 /\ v8'[4] = p4
    BY <2>6
  <2>11. Inputs!Apart(v8')
    BY <2>7, <2>8, <2>10 DEF Inputs!Apart
  <2>12. Inputs!Within(v8', 2160, 1000 + 200 * n)
    BY <2>9, <2>10 DEF Inputs!Within
  <2> QED BY <2>2, <2>11, <2>12
<1>8. Inputs!InputsApart'
  BY <1>1, <1>3, <1>7 DEF Inputs!InputsApart, Inputs!Width
<1> QED BY <1>1, <1>3, <1>6, <1>8, ChosenSame, Zenon DEF InputsInv

\* The next panel shows the next input.
LEMMA DrawPanelStep ==
  ASSUME script = "by_input", script' = script, InputsInv, Inputs!DrawPanel
  PROVE  InputsInv'
<1>1. /\ v1 \in Pairs /\ v2 \in Calls /\ v3 = <<RowsOf(1), RowsOf(2)>>
      /\ InputsChosen /\ pc = "frontier" /\ v2.script = "frontier" /\ v6 = <<>>
  BY DEF InputsInv, Inputs!DrawPanel, InputsStage
<1>2. PICK m \in Nat : Ringed(m)
  BY DEF InputsInv, Inputs!DrawPanel, InputsStage
<1> DEFINE ring(k) == Inputs!RingsOf(v4[k])
           S == {ring(k) : k \in Nat}
           R == {PanelAt(k) : k \in Nat}
           at(k) == PanelAt(k - 1)
<1>3. v7 = [k \in 1..m |-> ring(k)] /\ v8 = [k \in 1..m |-> at(k)]
  BY <1>2 DEF Ringed
<1>4. v7 \in Seq(S) /\ Len(v7) = m
  <2>1. v7 \in [1..m -> S]
    BY <1>3
  <2> HIDE DEF S, ring
  <2> QED BY <2>1
<1>5. v8 \in Seq(R) /\ Len(v8) = m
  <2>1. \A k \in 1..m : at(k) \in R
    <3> HIDE DEF PanelAt
    <3> QED OBVIOUS
  <2> HIDE DEF R, at
  <2>2. v8 \in [1..m -> R]
    BY <1>3, <2>1
  <2> QED BY <2>2
<1>6. /\ UNCHANGED <<pc, v1, v2, v3, v4, v5, v6>> /\ Len(v7) < Len(v4)
      /\ v7' = Append(v7, ring(Len(v7) + 1)) /\ v8' = Append(v8, PanelAt(Len(v7)))
  BY Zenon DEF Inputs!DrawPanel, PanelAt
<1>7. Len(v4) \in Nat
  BY <1>1, Labelled
<1>8. v7' = [k \in 1..m + 1 |-> ring(k)]
  <2>1. ring(m + 1) \in S /\ v7' = Append(v7, ring(m + 1))
    BY <1>4, <1>6
  <2> HIDE DEF S, ring
  <2>2. Extends(v7', v7, ring(m + 1))
    BY <1>4, <2>1, Appended
  <2>3. /\ v7' = [k \in 1..m + 1 |-> v7'[k]] /\ v7'[m + 1] = ring(m + 1)
        /\ \A k \in 1..m : v7'[k] = v7[k]
    BY <1>4, <2>2, Zenon DEF Extends
  <2>4. \A k \in 1..m + 1 : v7'[k] = ring(k)
    <3> SUFFICES ASSUME NEW k \in 1..m + 1 PROVE v7'[k] = ring(k)
      OBVIOUS
    <3>1. k \in 1..m \/ k = m + 1
      OBVIOUS
    <3> QED BY <1>3, <2>3, <3>1
  <2> QED BY <2>3, <2>4, Zenon
<1>9. v8' = [k \in 1..m + 1 |-> at(k)]
  <2>1. PanelAt(m) \in R /\ v8' = Append(v8, PanelAt(m)) /\ at(m + 1) = PanelAt(m)
    <3>1. (m + 1) - 1 = m
      OBVIOUS
    <3> QED BY <1>4, <1>6, <3>1, Zenon
  <2> HIDE DEF R, at
  <2>2. Extends(v8', v8, at(m + 1))
    BY <1>5, <2>1, Appended
  <2>3. /\ v8' = [k \in 1..m + 1 |-> v8'[k]] /\ v8'[m + 1] = at(m + 1)
        /\ \A k \in 1..m : v8'[k] = v8[k]
    BY <1>5, <2>2, Zenon DEF Extends
  <2>4. \A k \in 1..m + 1 : v8'[k] = at(k)
    <3> SUFFICES ASSUME NEW k \in 1..m + 1 PROVE v8'[k] = at(k)
      OBVIOUS
    <3>1. k \in 1..m \/ k = m + 1
      OBVIOUS
    <3> QED BY <1>3, <2>3, <3>1
  <2> QED BY <2>3, <2>4, Zenon
<1>10. Ringed(m + 1)'
  <2>1. \A k : ring(k)' = ring(k)
    BY <1>6, InputsShownSame, Zenon
  <2>2. \A k : at(k)' = at(k)
    BY <1>6, Zenon DEF PanelAt
  <2>3. m + 1 \in Nat
    OBVIOUS
  <2>4. v7' = [k \in 1..m + 1 |-> ring(k)'] /\ v8' = [k \in 1..m + 1 |-> at(k)']
    <3> HIDE DEF ring, at
    <3> QED BY <1>8, <1>9, <2>1, <2>2, Zenon
  <2> QED BY <2>3, <2>4, Zenon DEF Ringed
<1>11. m + 1 <= Len(v4)
  BY <1>4, <1>6, <1>7
<1>12. InputsStage'
  <2>1. \E i \in Nat : Ringed(i)' /\ (i = 0 \/ i <= Len(v4'))
    BY <1>6, <1>10, <1>11
  <2> QED BY <1>1, <1>6, <2>1, Zenon DEF InputsStage
<1>13. Inputs!InputsApart'
  BY <1>1, <1>6 DEF Inputs!InputsApart
<1> QED BY <1>1, <1>6, <1>12, <1>13, ChosenSame, Zenon DEF InputsInv

\* The panels lie beside and below each other.
LEMMA RenderPanelsStep ==
  ASSUME script = "by_input", script' = script, InputsInv, Inputs!RenderPanels
  PROVE  InputsInv'
<1>1. /\ v1 \in Pairs /\ v2 \in Calls /\ v3 = <<RowsOf(1), RowsOf(2)>>
      /\ InputsChosen /\ v2.script = "frontier" /\ v6 = <<>>
  BY DEF InputsInv, Inputs!RenderPanels, InputsStage
<1>2. PICK m \in Nat : Ringed(m)
  BY DEF InputsInv, Inputs!RenderPanels, InputsStage
<1>3. UNCHANGED <<v1, v2, v3, v4, v5, v6, v7, v8>> /\ Len(v7) = Len(v4) /\ pc' = "written"
  BY DEF Inputs!RenderPanels
<1>4. m = Len(v4)
  BY <1>2, <1>3 DEF Ringed
<1>5. Ringed(Len(v4))'
  <2>1. \A k : Inputs!RingsOf(v4[k])' = Inputs!RingsOf(v4[k])
    BY <1>3, InputsShownSame, Zenon
  <2>2. \A k : PanelAt(k)' = PanelAt(k)
    BY <1>3, Zenon DEF PanelAt
  <2>3. Ringed(m)'
    BY <1>2, <1>3, <2>1, <2>2, Zenon DEF Ringed
  <2>4. Len(v4)' = m
    BY <1>3, <1>4
  <2> QED BY <2>3, <2>4, Zenon DEF Ringed
<1>6. InputsStage'
  BY <1>1, <1>3, <1>5, Zenon DEF InputsStage
<1>7. PICK cols \in Nat \ {0} : cols = Inputs!Larger(1, v2.columns)
  BY <1>1, InputsAssumption DEF Inputs!Larger
<1> DEFINE panel(a, b) == [x0 |-> 16 + a * 276, x1 |-> 16 + a * 276 + 250,
                           y0 |-> 100 + b * 192, y1 |-> 100 + b * 192 + 170]
<1>8. \A i \in 1..m : v8[i] = panel((i - 1) % cols, (i - 1) \div cols)
  <2>1. v8 = [k \in 1..m |-> PanelAt(k - 1)]
    BY <1>2, Zenon DEF Ringed
  <2>2. \A k : PanelAt(k) = panel(k % cols, k \div cols)
    <3> SUFFICES ASSUME NEW k PROVE PanelAt(k) = panel(k % cols, k \div cols)
      OBVIOUS
    <3> DEFINE at(n, w, h) == [x0 |-> 16 + (k % n) * w, x1 |-> 16 + (k % n) * w + 250,
                               y0 |-> 100 + (k \div n) * h, y1 |-> 100 + (k \div n) * h + 170]
    <3>1. 250 + 26 = 276 /\ 170 + 22 = 192
      OBVIOUS
    <3>2. PanelAt(k) = at(Inputs!Larger(1, v2.columns), 250 + 26, 170 + 22)
      BY Zenon DEF PanelAt
    <3>3. panel(k % cols, k \div cols) = at(cols, 276, 192)
      OBVIOUS
    <3> HIDE DEF at, panel
    <3> QED BY <1>7, <3>1, <3>2, <3>3
  <2> HIDE DEF panel
  <2> QED BY <2>1, <2>2, Zenon
<1>9. DOMAIN v8 = 1..m
  BY <1>2 DEF Ringed
<1>10. \A i \in 1..m : i - 1 \in Nat /\ i - 1 <= m - 1
  OBVIOUS
<1>11. Inputs!Apart(v8)
  <2> SUFFICES ASSUME NEW i \in 1..m, NEW j \in 1..m, i # j PROVE Inputs!Disjoint(v8[i], v8[j])
    BY <1>9 DEF Inputs!Apart
  <2> DEFINE a == (i - 1) % cols
             b == (i - 1) \div cols
             c == (j - 1) % cols
             d == (j - 1) \div cols
  <2>1. /\ a \in Nat /\ b \in Nat /\ c \in Nat /\ d \in Nat
        /\ i - 1 = cols * b + a /\ j - 1 = cols * d + c
    BY <1>10, QuotientAndRest
  <2>2. v8[i] = panel(a, b) /\ v8[j] = panel(c, d)
    BY <1>8
  <2> HIDE DEF a, b, c, d
  <2>3. a # c \/ b # d
    BY <2>1
  <2>4. Inputs!Disjoint(panel(a, b), panel(c, d))
    <3>1. \/ 16 + a * 276 + 250 <= 16 + c * 276 \/ 16 + c * 276 + 250 <= 16 + a * 276
          \/ 100 + b * 192 + 170 <= 100 + d * 192 \/ 100 + d * 192 + 170 <= 100 + b * 192
      BY <2>1, <2>3
    <3> QED BY <3>1 DEF Inputs!Disjoint
  <2> HIDE DEF panel
  <2> QED BY ONLY <2>2, <2>4
<1>12. Inputs!Within(v8, 32 + cols * 250 + (cols - 1) * 26, 1000 + 200 * m)
  <2> SUFFICES ASSUME NEW i \in 1..m
               PROVE  /\ v8[i].x0 >= 0 /\ v8[i].x1 <= 32 + cols * 250 + (cols - 1) * 26
                      /\ v8[i].y0 >= 0 /\ v8[i].y1 <= 1000 + 200 * m
    BY <1>9 DEF Inputs!Within
  <2> DEFINE a == (i - 1) % cols
             b == (i - 1) \div cols
  <2>1. a \in Nat /\ b \in Nat /\ a <= cols - 1 /\ b <= m - 1
    <3>1. a \in Nat /\ b \in Nat /\ a <= cols - 1 /\ b <= i - 1
      BY <1>10, QuotientAndRest
    <3> HIDE DEF a, b
    <3> QED BY <1>10, <3>1
  <2>2. v8[i] = panel(a, b)
    BY <1>8
  <2> HIDE DEF a, b
  <2>3. /\ v8[i].x0 = 16 + a * 276 /\ v8[i].x1 = 16 + a * 276 + 250
        /\ v8[i].y0 = 100 + b * 192 /\ v8[i].y1 = 100 + b * 192 + 170
    BY <2>2
  <2> QED BY <2>1, <2>3
<1>13. Inputs!InputsApart'
  <2>1. Inputs!Width' = 32 + cols * 250 + (cols - 1) * 26
    <3>1. ~(v2.script = "inputs") /\ v2' = v2
      BY <1>1, <1>3, Zenon
    <3> QED BY ONLY <1>7, <3>1 DEF Inputs!Width
  <2> QED BY <1>3, <1>4, <1>11, <1>12, <2>1 DEF Inputs!InputsApart
<1> QED BY <1>1, <1>3, <1>6, <1>13, ChosenSame, Zenon DEF InputsInv

\* Every step of compare_inputs.py and frontier.py keeps InputsInv.
LEMMA InputsInvStep == InputsInv /\ [Next]_vars => InputsInv'
<1> SUFFICES ASSUME InputsInv, [Next]_vars, script' = "by_input" PROVE InputsInv'
  BY DEF InputsInv
<1>1. script = "by_input" /\ script' = script
  BY DEF Next, vars
<1>2. CASE Inputs!Next
  BY <1>1, <1>2, SelectStep, BuildGridsStep, RenderGridsStep, DrawPanelStep, RenderPanelsStep
     DEF Inputs!Next
<1>3. CASE UNCHANGED vars
  <2>1. UNCHANGED <<pc, v1, v2, v3, v4, v5, v6, v7, v8>>
    BY <1>3 DEF vars
  <2>2. /\ \A key : Inputs!Grid(key)' = Inputs!Grid(key)
        /\ \A l : Inputs!RingsOf(l)' = Inputs!RingsOf(l)
    BY <2>1, InputsShownSame
  <2>3. \A m : Gridded(m)' = Gridded(m)
    BY <2>1, <2>2, Zenon DEF Gridded
  <2>4. \A m : Ringed(m)' = Ringed(m)
    <3>1. \A k : PanelAt(k)' = PanelAt(k)
      BY <2>1, Zenon DEF PanelAt
    <3>2. \A k : Inputs!RingsOf(v4[k])' = Inputs!RingsOf(v4[k])
      BY <2>1, <2>2, Zenon
    <3> QED BY <2>1, <3>1, <3>2, Zenon DEF Ringed
  <2>5. InputsStage => InputsStage'
    <3>1. Ringed(Len(v4))' = Ringed(Len(v4))
      BY <2>1, <2>4, Zenon DEF Ringed
    <3> QED BY <2>1, <2>3, <2>4, <3>1, Zenon DEF InputsStage
  <2>6. Inputs!InputsApart'
    <3>1. Inputs!Width' = Inputs!Width
      BY <2>1 DEF Inputs!Width, Inputs!Larger
    <3>2. Inputs!Apart(v8) => Inputs!Apart(v8)'
      BY <2>1 DEF Inputs!Apart, Inputs!Disjoint
    <3>3. Inputs!Within(v8, Inputs!Width, 1000 + 200 * Len(v4)) =>
            Inputs!Within(v8, Inputs!Width, 1000 + 200 * Len(v4))'
      BY <2>1, <3>1 DEF Inputs!Within
    <3>4. Inputs!InputsApart
      BY <1>1, Zenon DEF InputsInv
    <3>5. CASE pc = "written" /\ v2.width < 900
      <4>1. Inputs!Apart(v8) /\ Inputs!Within(v8, Inputs!Width, 1000 + 200 * Len(v4))
        BY ONLY <3>4, <3>5 DEF Inputs!InputsApart
      <4>2. Inputs!Apart(v8)' /\ Inputs!Within(v8, Inputs!Width, 1000 + 200 * Len(v4))'
        BY ONLY <3>2, <3>3, <4>1
      <4> QED BY ONLY <4>2 DEF Inputs!InputsApart
    <3>6. CASE ~(pc' = "written" /\ v2'.width < 900)
      BY ONLY <3>6 DEF Inputs!InputsApart
    <3> QED BY <2>1, <3>5, <3>6
  <2> QED BY <1>1, <2>1, <2>5, <2>6, ChosenSame, Zenon DEF InputsInv
<1> QED BY <1>1, <1>2, <1>3 DEF Next

\* It is an invariant.
LEMMA InputsInvHolds == Spec => []InputsInv
<1>1. Init => InputsInv
  <2> SUFFICES ASSUME Inputs!Init, script = "by_input" PROVE InputsInv
    BY DEF Init, InputsInv
  <2>1. /\ v1 \in Pairs /\ v2 \in Calls /\ v3 = <<RowsOf(1), RowsOf(2)>>
        /\ pc = "load" /\ v6 = <<>> /\ v7 = <<>> /\ v8 = <<>>
    BY Zenon DEF Inputs!Init, RowsOf
  <2>2. Inputs!InputsApart
    BY <2>1 DEF Inputs!InputsApart
  <2> QED BY <2>1, <2>2 DEF InputsInv
<1> QED BY <1>1, InputsInvStep, PTL DEF Spec

(* Nothing is drawn over something else or off the page, by any of the four  *)
(* scripts that lay out panels or place markers, for any results; and        *)
(* markers of the same values stay to be seen.                              *)
THEOREM NothingHiddenHolds == Spec => []NothingHidden
<1>1. InputsInv => (script = "by_input" => Inputs!InputsApart)
  BY DEF InputsInv
<1>2. GraphApart /\ MarkersApart /\ (script = "by_input" => Inputs!InputsApart) => NothingHidden
  BY DEF GraphApart, MarkersApart, NothingHidden
<1> QED BY <1>1, <1>2, GraphApartHolds, MarkersApartHolds, InputsInvHolds, PTL

\* An input that is shown is one of either run, at a level that is shown.
LEMMA ShownInputs ==
  ASSUME NEW l \in Inputs!Shown(SeenInputs, v5), v3 = <<RowsOf(1), RowsOf(2)>>
  PROVE  /\ l \in DOMAIN RowsOf(1) /\ l \in DOMAIN RowsOf(2) /\ l \in SeenInputs
         /\ Inputs!Both(l) \cap v5 # {}
BY DEF Inputs!Shown, SeenInputs

\* One of finitely many levels, or of any, is the least.
LEMMA LeastLevel ==
  ASSUME NEW S, S \subseteq Nat \cup {-1}, S # {}
  PROVE  \E v \in S : \A w \in S : v <= w
<1> DEFINE T == {v + 1 : v \in S}
<1>1. \A v \in S : v \in Int /\ v + 1 \in Nat
  OBVIOUS
<1>2. T \in SUBSET Nat /\ T # {}
  <2>1. T \subseteq Nat
    BY <1>1
  <2>2. PICK v : v \in S
    OBVIOUS
  <2>3. v + 1 \in T
    BY <2>2
  <2> QED BY <2>1, <2>3
<1>3. PICK v \in S : \A w \in S : v + 1 <= w + 1
  <2>1. PICK x \in T : \A y \in T : x <= y
    BY <1>2, NatMinimum
  <2>2. PICK v \in S : x = v + 1
    OBVIOUS
  <2>3. \A w \in S : w + 1 \in T
    OBVIOUS
  <2> QED BY <2>1, <2>2, <2>3
<1>4. \A w \in S : v <= w
  <2> HIDE DEF T
  <2> QED BY ONLY <1>1, <1>3
<1> QED BY <1>4

\* The noise of two measurements is positive, and the same either way.
LEMMA NoiseType ==
  ASSUME NEW p, NEW q, p.cv \in Nat, q.cv \in Nat
  PROVE  Inputs!Noise(p, q) \in Nat \ {0} /\ Inputs!Noise(q, p) = Inputs!Noise(p, q)
<1>1. PICK c \in Nat : c = Inputs!Larger(p.cv, q.cv) /\ c = Inputs!Larger(q.cv, p.cv)
  BY DEF Inputs!Larger
<1>2. NOISE_CVS * c \in Nat
  BY NoiseAssumption
<1>3. PICK d \in Nat : d = NOISE_CVS * c
  BY <1>2
<1>4. Inputs!Noise(p, q) = Inputs!Larger(NOISE_FLOOR, d) /\ Inputs!Noise(q, p) = Inputs!Larger(NOISE_FLOOR, d)
  BY <1>1, <1>3 DEF Inputs!Noise
<1>5. Inputs!Larger(NOISE_FLOOR, d) \in Nat \ {0}
  BY NoiseAssumption DEF Inputs!Larger
<1> QED BY <1>4, <1>5

\* What is clearly faster is faster, by at least the noise of the slower time
\* and by more than the noise of the faster one.
LEMMA ClearlyFasterIsFaster ==
  ASSUME NEW a \in Nat \ {0}, NEW b \in Nat \ {0}, NEW n \in Nat \ {0}, b * 100 <= a * (100 - n)
  PROVE  /\ b < a /\ (a - b) * 100 >= n * a /\ (a - b) * 100 > n * b
         /\ (a - b) * 2000 >= a /\ (a - b) * 2000 >= b
<1>1. PICK x \in Nat : x = n * a
  BY SMT
<1>2. a * (100 - n) = a * 100 - x
  BY <1>1
<1>3. x >= a /\ x > 0
  <2>1. PICK m \in Nat : n = m + 1
    <3>1. n - 1 \in Nat /\ n = (n - 1) + 1
      OBVIOUS
    <3> QED BY <3>1
  <2>2. x = m * a + a /\ m * a \in Nat
    BY <1>1, <2>1
  <2> QED BY <2>2
<1>4. (a - b) * 100 >= x /\ b < a
  BY <1>2, <1>3
<1>5. n * b < x
  <2>1. PICK c \in Nat \ {0} : a = b + c
    <3>1. a - b \in Nat \ {0} /\ a = b + (a - b)
      BY <1>4
    <3> QED BY <3>1
  <2>2. x = n * b + n * c
    BY <1>1, <2>1
  <2>3. n * c > 0
    BY <2>1
  <2>4. n * b \in Nat /\ n * c \in Nat
    BY <2>1
  <2> QED BY <2>2, <2>3, <2>4
<1>6. (a - b) * 100 > n * b
  <2>1. PICK y \in Nat : y = n * b
    BY SMT
  <2> QED BY <1>4, <1>5, <2>1
<1> QED BY <1>1, <1>3, <1>4, <1>6

\* The points of a panel, of either run, are measurements of its own.
Measured(i, l) ==
  /\ DOMAIN Inputs!Ladder(i, l) \subseteq Nat \cup {-1}
  /\ \A v \in DOMAIN Inputs!Ladder(i, l) :
       /\ Inputs!Ladder(i, l)[v] = v3[i][l][v]
       /\ v3[i][l][v].size \in Nat \ {0} /\ v3[i][l][v].time \in Nat \ {0} /\ v3[i][l][v].cv \in Nat

\* The points of a panel are measurements with sizes, times and noise in Nat.
LEMMA PanelPoints ==
  ASSUME v1 \in Pairs, v3 = <<RowsOf(1), RowsOf(2)>>,
         NEW l, l \in DOMAIN RowsOf(1), l \in DOMAIN RowsOf(2), NEW i \in 1..2
  PROVE  Measured(i, l)
<1>1. v3[i] = RowsOf(i) /\ l \in DOMAIN RowsOf(i)
  OBVIOUS
<1>2. /\ DOMAIN RowsOf(i)[l] \subseteq Nat \cup {-1}
      /\ \A v \in DOMAIN RowsOf(i)[l] :
           /\ RowsOf(i)[l][v].size \in Nat \ {0} /\ RowsOf(i)[l][v].time \in Nat \ {0}
           /\ RowsOf(i)[l][v].cv \in Nat
  BY <1>1, RowsMeasured
<1>3. Inputs!Ladder(i, l) = [v \in DOMAIN v3[i][l] \cap v5 |-> v3[i][l][v]]
  BY Zenon DEF Inputs!Ladder
<1> QED BY <1>1, <1>2, <1>3 DEF Measured

\* Some point is the lowest level that beats another one, if any does.
LEMMA BeatenBy ==
  ASSUME NEW p, NEW o, DOMAIN o \subseteq Nat \cup {-1}
  PROVE  /\ \A v \in Inputs!beaten(p, o) :
              /\ v \in DOMAIN o /\ o[v].size <= p.size /\ Inputs!ClearlyFaster(o[v], p)
         /\ Inputs!beaten(p, o) = {} =>
              ~\E w \in DOMAIN o : /\ o[w].size <= p.size /\ o[w].time < p.time
                                   /\ Inputs!ClearlyFaster(o[w], p)
<1> DEFINE by == {v \in DOMAIN o : /\ o[v].size <= p.size /\ Inputs!ClearlyFaster(o[v], p)
                                   /\ o[v].size < p.size \/ o[v].time < p.time}
<1>1. Inputs!beaten(p, o) = {v \in by : \A w \in by : v <= w}
  BY DEF Inputs!beaten
<1>2. by \subseteq Nat \cup {-1}
  OBVIOUS
<1>3. ASSUME NEW w \in DOMAIN o, o[w].size <= p.size, o[w].time < p.time, Inputs!ClearlyFaster(o[w], p)
      PROVE  Inputs!beaten(p, o) # {}
  <2>1. w \in by
    BY <1>3
  <2> HIDE DEF by
  <2>2. \E v \in by : \A u \in by : v <= u
    BY <1>2, <2>1, LeastLevel
  <2> QED BY <1>1, <2>2
<1> QED BY <1>1, <1>3

\* The rings of a panel, at a point of it, are what beats that point.
LEMMA RingAt ==
  ASSUME NEW l, NEW i \in 1..2, NEW v \in DOMAIN Inputs!Ladder(i, l)
  PROVE  LET ring == Inputs!RingsOf(l) IN
         /\ <<i, v>> \in DOMAIN ring <=> Beating(i, l, v) # {}
         /\ <<i, v>> \in DOMAIN ring => ring[<<i, v>>] \in Beating(i, l, v)
<1> DEFINE all == UNION {{j} \X DOMAIN Inputs!Ladder(j, l) : j \in 1..2}
           P == {q \in all : Beating(q[1], l, q[2]) # {}}
           ring == Inputs!RingsOf(l)
<1>1. ring = [p \in P |-> CHOOSE w \in Beating(p[1], l, p[2]) : TRUE]
  BY Zenon DEF Inputs!RingsOf, Beating
<1>2. <<i, v>> \in all
  OBVIOUS
<1>3. <<i, v>>[1] = i /\ <<i, v>>[2] = v
  OBVIOUS
<1> HIDE DEF all, ring
<1>4. <<i, v>> \in P <=> Beating(i, l, v) # {}
  BY <1>2, <1>3
<1>5. ASSUME <<i, v>> \in P PROVE ring[<<i, v>>] \in Beating(i, l, v)
  <2>1. ring[<<i, v>>] = CHOOSE w \in Beating(i, l, v) : TRUE
    <3> HIDE DEF P
    <3> QED BY <1>1, <1>3, <1>5
  <2>2. Beating(i, l, v) # {}
    BY <1>4, <1>5
  <2> QED BY <2>1, <2>2
<1>6. DOMAIN ring = P
  <2> HIDE DEF P
  <2> QED BY <1>1
<1> QED BY <1>4, <1>5, <1>6 DEF ring

\* What RingsSound says of a point with a ring, which q stands for.
Rung(l, i, v, w, p, q) ==
  /\ q.size <= p.size /\ q.time < p.time
  /\ \E j \in 1..2 : \E u \in DOMAIN Inputs!Ladder(j, l) : v3[j][l][u].time < p.time
  /\ w = v =>
       LET time == Inputs!Cell("time", l, v)
           sign == IF i = 1 THEN 1 ELSE -1
       IN /\ sign * time.change[1] < 0
          /\ time.real \/ Inputs!Abs(time.change[1]) * 100 = Inputs!Noise(p, q) * time.change[2]
          /\ sign * Inputs!Cell("size", l, v).change[1] <= 0

\* A change of the grids between two measurements.
LEMMA Cells ==
  ASSUME NEW l, NEW v, NEW p, NEW q, v3[1][l][v] = p, v3[2][l][v] = q,
         {p.size, p.time, q.size, q.time} \subseteq Nat
  PROVE  /\ Inputs!Cell("time", l, v).change = <<q.time - p.time, p.time>>
         /\ Inputs!Cell("time", l, v).real <=>
              /\ Inputs!Abs(q.time - p.time) * 100 > Inputs!Noise(p, q) * p.time
              /\ Inputs!Abs(q.time - p.time) * 2000 >= p.time
         /\ Inputs!Cell("size", l, v).change = <<q.size - p.size, p.size>>
<1>1. Inputs!judge("time", p, q) =
        [change |-> <<q.time - p.time, p.time>>,
         real |-> Inputs!Abs(q.time - p.time) * 100 > Inputs!Noise(p, q) * p.time]
  BY DEF Inputs!judge
<1>2. Inputs!judge("size", p, q).change = <<q.size - p.size, p.size>>
  BY DEF Inputs!judge
<1>3. \A key : Inputs!Cell(key, l, v) =
        [Inputs!judge(key, p, q) EXCEPT
           !.real = @ /\ Inputs!Abs(Inputs!judge(key, p, q).change[1]) * 2000 >= Inputs!judge(key, p, q).change[2]]
  BY DEF Inputs!Cell
<1>4. Inputs!judge("size", p, q) = [change |-> <<q.size - p.size, p.size>>, real |-> q.size - p.size # 0]
  BY DEF Inputs!judge
<1>5. Inputs!Cell("size", l, v).change = <<q.size - p.size, p.size>>
  BY <1>3, <1>4
<1>6. PICK c, x, y : c = <<x, y>> /\ x = q.time - p.time /\ y = p.time
  OBVIOUS
<1>7. PICK r \in BOOLEAN : r <=> Inputs!Abs(x) * 100 > Inputs!Noise(p, q) * y
  OBVIOUS
<1>8. Inputs!judge("time", p, q) = [change |-> c, real |-> r]
  BY <1>1, <1>6, <1>7
<1>9. Inputs!Cell("time", l, v) = [change |-> c, real |-> r /\ Inputs!Abs(x) * 2000 >= y]
  <2>1. c[1] = x /\ c[2] = y
    BY <1>6
  <2>2. Inputs!Cell("time", l, v) =
          [Inputs!judge("time", p, q) EXCEPT
             !.real = @ /\ Inputs!Abs(Inputs!judge("time", p, q).change[1]) * 2000
                             >= Inputs!judge("time", p, q).change[2]]
    BY <1>3
  <2>3. Inputs!judge("time", p, q).change = c
    BY <1>8
  <2>4. Inputs!Cell("time", l, v) =
          [Inputs!judge("time", p, q) EXCEPT !.real = @ /\ Inputs!Abs(x) * 2000 >= y]
    BY <2>1, <2>2, <2>3
  <2> QED BY <1>8, <2>4
<1>10. Inputs!Cell("time", l, v).change = c /\ (Inputs!Cell("time", l, v).real <=> r /\ Inputs!Abs(x) * 2000 >= y)
  <2>1. \E b \in BOOLEAN : b <=> r /\ Inputs!Abs(x) * 2000 >= y
    <3> DEFINE P == r /\ Inputs!Abs(x) * 2000 >= y
    <3> HIDE DEF P
    <3>1. \E b \in BOOLEAN : b <=> P
      <4>1. CASE P
        BY <4>1, Zenon
      <4>2. CASE ~P
        BY <4>2, Zenon
      <4> QED BY <4>1, <4>2
    <3> QED BY <3>1 DEF P
  <2>2. PICK b \in BOOLEAN : b <=> r /\ Inputs!Abs(x) * 2000 >= y
    BY <2>1
  <2>3. Inputs!Cell("time", l, v) = [change |-> c, real |-> b]
    BY <1>9, <2>2
  <2>4. Inputs!Cell("time", l, v).change = c /\ Inputs!Cell("time", l, v).real = b
    BY <2>3
  <2> QED BY <2>2, <2>4
<1> QED BY <1>5, <1>6, <1>7, <1>10

\* A point that is beaten at a level of the other run has a sound ring.
LEMMA RungSound ==
  ASSUME v1 \in Pairs, v3 = <<RowsOf(1), RowsOf(2)>>,
         NEW l, l \in DOMAIN RowsOf(1), l \in DOMAIN RowsOf(2),
         NEW i \in 1..2, NEW v \in DOMAIN Inputs!Ladder(i, l), NEW w \in Beating(i, l, v)
  PROVE  Rung(l, i, v, w, v3[i][l][v], Inputs!Ladder(3 - i, l)[w])
<1>1. 3 - i \in 1..2
  OBVIOUS
<1>2. PICK p, q : p = v3[i][l][v] /\ q = Inputs!Ladder(3 - i, l)[w]
  OBVIOUS
<1>3. Measured(i, l) /\ Measured(3 - i, l)
  BY <1>1, PanelPoints, Zenon
<1>4. p = Inputs!Ladder(i, l)[v] /\ DOMAIN Inputs!Ladder(3 - i, l) \subseteq Nat \cup {-1}
  BY <1>3, <1>2 DEF Measured
<1>5. w \in DOMAIN Inputs!Ladder(3 - i, l) /\ q.size <= p.size /\ Inputs!ClearlyFaster(q, p)
  BY <1>2, <1>4, BeatenBy DEF Beating
<1>6. /\ p.size \in Nat \ {0} /\ p.time \in Nat \ {0} /\ p.cv \in Nat
      /\ q.size \in Nat \ {0} /\ q.time \in Nat \ {0} /\ q.cv \in Nat
      /\ q = v3[3 - i][l][w]
  BY <1>3, <1>2, <1>5 DEF Measured
<1>7. PICK n \in Nat \ {0} : n = Inputs!Noise(p, q) /\ n = Inputs!Noise(q, p)
  BY <1>6, NoiseType
<1>8. PICK a \in Nat \ {0}, b \in Nat \ {0} : a = p.time /\ b = q.time
  BY <1>6
<1>9. b * 100 <= a * (100 - n)
  BY <1>5, <1>7, <1>8 DEF Inputs!ClearlyFaster
<1>10. /\ b < a /\ (a - b) * 100 >= n * a /\ (a - b) * 100 > n * b
      /\ (a - b) * 2000 >= a /\ (a - b) * 2000 >= b
  BY <1>9, ClearlyFasterIsFaster
<1>11. \E j \in 1..2 : \E u \in DOMAIN Inputs!Ladder(j, l) : v3[j][l][u].time < p.time
  BY <1>1, <1>5, <1>6, <1>8, <1>10
<1>12. Inputs!Abs(a - b) = a - b /\ Inputs!Abs(b - a) = a - b
  BY <1>10 DEF Inputs!Abs
<1> DEFINE time == Inputs!Cell("time", l, v)
           size == Inputs!Cell("size", l, v)
<1>13. q.size <= p.size /\ q.time < p.time
  BY <1>5, <1>8, <1>10
<1>14. CASE w = v /\ i = 1
  <2>1. v3[1][l][v] = p /\ v3[2][l][v] = q
    BY <1>2, <1>6, <1>14
  <2>2. /\ time.change = <<b - a, a>> /\ size.change = <<q.size - p.size, p.size>>
        /\ time.real <=> Inputs!Abs(b - a) * 100 > n * a /\ Inputs!Abs(b - a) * 2000 >= a
    BY <1>6, <1>7, <1>8, <2>1, Cells
  <2>3. time.change[1] = b - a /\ time.change[2] = a /\ size.change[1] = q.size - p.size
    BY <2>2
  <2> HIDE DEF time, size
  <2>4. (IF i = 1 THEN 1 ELSE -1) * time.change[1] < 0 /\ (IF i = 1 THEN 1 ELSE -1) * size.change[1] <= 0
    BY <1>5, <1>6, <1>10, <1>14, <2>3
  <2>5. time.real \/ Inputs!Abs(time.change[1]) * 100 = n * time.change[2]
    <3>1. PICK x \in Nat : x = n * a
      BY SMT
    <3>2. (a - b) * 100 > x \/ (a - b) * 100 = x
      BY <1>10, <3>1
    <3> QED BY <1>10, <1>12, <2>2, <2>3, <3>1, <3>2
  <2>6. Rung(l, i, v, w, p, q)
    BY <1>7, <1>11, <1>13, <2>4, <2>5, Zenon DEF Rung, time, size
  <2> QED BY <1>2, <2>6
<1>15. CASE w = v /\ i = 2
  <2>1. v3[1][l][v] = q /\ v3[2][l][v] = p
    BY <1>2, <1>6, <1>15
  <2>2. /\ time.change = <<a - b, b>> /\ size.change = <<p.size - q.size, q.size>>
        /\ time.real <=> Inputs!Abs(a - b) * 100 > n * b /\ Inputs!Abs(a - b) * 2000 >= b
    BY <1>6, <1>7, <1>8, <2>1, Cells
  <2>3. time.change[1] = a - b /\ time.change[2] = b /\ size.change[1] = p.size - q.size
    BY <2>2
  <2> HIDE DEF time, size
  <2>4. (IF i = 1 THEN 1 ELSE -1) = -1
    BY <1>15
  <2>5. (IF i = 1 THEN 1 ELSE -1) * time.change[1] < 0 /\ (IF i = 1 THEN 1 ELSE -1) * size.change[1] <= 0
    BY <1>5, <1>6, <1>10, <2>3, <2>4
  <2>6. time.real
    BY <1>10, <1>12, <2>2
  <2>7. Rung(l, i, v, w, p, q)
    BY <1>11, <1>13, <2>5, <2>6, Zenon DEF Rung, time, size
  <2> QED BY <1>2, <2>7
<1>16. CASE w # v
  <2>1. Rung(l, i, v, w, p, q)
    BY <1>11, <1>13, <1>16, Zenon DEF Rung
  <2> QED BY <1>2, <2>1
<1> QED BY <1>14, <1>15, <1>16

\* What RingsSound says of any point, p, of a panel.
SoundAt(l, ring, i, v, p) ==
  IF <<i, v>> \notin DOMAIN ring
  THEN \A w \in DOMAIN Inputs!Ladder(3 - i, l) :
         ~(/\ Inputs!Ladder(3 - i, l)[w].size <= p.size /\ Inputs!Ladder(3 - i, l)[w].time < p.time
           /\ Inputs!ClearlyFaster(Inputs!Ladder(3 - i, l)[w], p))
  ELSE Rung(l, i, v, ring[<<i, v>>], p, Inputs!Ladder(3 - i, l)[ring[<<i, v>>]])

\* The rings of all panels are sound.
LEMMA RingsAreSound == InputsInv /\ script = "by_input" => Inputs!RingsSound
<1> SUFFICES ASSUME InputsInv, script = "by_input" PROVE Inputs!RingsSound
  OBVIOUS
<1>1. CASE v7 = <<>>
  <2>1. DOMAIN v7 = {}
    BY <1>1
  <2> QED BY <2>1, Zenon DEF Inputs!RingsSound
<1>2. CASE InputsChosen /\ \E m \in Nat : Ringed(m) /\ m <= Len(v4)
  <2>1. PICK m \in Nat : Ringed(m) /\ m <= Len(v4)
    BY <1>2
  <2>2. v1 \in Pairs /\ v3 = <<RowsOf(1), RowsOf(2)>>
    BY DEF InputsInv
  <2>3. Len(v4) \in Nat /\ \A k \in 1..Len(v4) : v4[k] \in Inputs!Shown(SeenInputs, v5)
    <3>1. DOMAIN v4 = 1..Len(v4) /\ Inputs!ToSet(v4) = Inputs!Shown(SeenInputs, v5) /\ Len(v4) \in Nat
      BY <1>2, <2>2, Labelled
    <3>2. Inputs!ToSet(v4) = {v4[k] : k \in DOMAIN v4}
      BY ONLY InputsCopies
    <3> QED BY ONLY <3>1, <3>2
  <2>4. DOMAIN v7 = 1..m /\ \A k \in 1..m : v7[k] = Inputs!RingsOf(v4[k])
    BY <2>1 DEF Ringed
  <2> SUFFICES ASSUME NEW k \in 1..m, NEW l, l = v4[k], NEW ring, ring = Inputs!RingsOf(l),
                      NEW i \in 1..2, NEW v \in DOMAIN Inputs!Ladder(i, l), NEW p, p = v3[i][l][v]
               PROVE  SoundAt(l, ring, i, v, p)
    <3>1. \A k \in 1..m : \A i \in 1..2 : \A v \in DOMAIN Inputs!Ladder(i, v4[k]) :
            SoundAt(v4[k], v7[k], i, v, v3[i][v4[k]][v])
      BY <2>4, Zenon
    <3> QED BY <2>4, <3>1, Zenon DEF Inputs!RingsSound, SoundAt, Rung
  <2>5. l \in DOMAIN RowsOf(1) /\ l \in DOMAIN RowsOf(2)
    BY <2>1, <2>2, <2>3, ShownInputs
  <2>6. 3 - i \in 1..2
    OBVIOUS
  <2>7. Measured(i, l) /\ Measured(3 - i, l)
    BY <2>2, <2>5, <2>6, PanelPoints, Zenon
  <2>8. /\ <<i, v>> \in DOMAIN ring <=> Beating(i, l, v) # {}
        /\ <<i, v>> \in DOMAIN ring => ring[<<i, v>>] \in Beating(i, l, v)
    BY RingAt, Zenon
  <2>9. CASE <<i, v>> \notin DOMAIN ring
    <3>1. p = Inputs!Ladder(i, l)[v] /\ DOMAIN Inputs!Ladder(3 - i, l) \subseteq Nat \cup {-1}
      BY <2>7 DEF Measured
    <3>2. Inputs!beaten(p, Inputs!Ladder(3 - i, l)) = {}
      BY <2>8, <2>9, <3>1 DEF Beating
    <3>3. \A w \in DOMAIN Inputs!Ladder(3 - i, l) :
            ~(/\ Inputs!Ladder(3 - i, l)[w].size <= p.size /\ Inputs!Ladder(3 - i, l)[w].time < p.time
              /\ Inputs!ClearlyFaster(Inputs!Ladder(3 - i, l)[w], p))
      BY <3>1, <3>2, BeatenBy
    <3> QED BY <2>9, <3>3, Zenon DEF SoundAt
  <2>10. CASE <<i, v>> \in DOMAIN ring
    <3>1. PICK w \in Beating(i, l, v) : w = ring[<<i, v>>]
      BY <2>8, <2>10
    <3>2. Rung(l, i, v, w, v3[i][l][v], Inputs!Ladder(3 - i, l)[w])
      BY <2>2, <2>5, RungSound
    <3> QED BY <2>10, <3>1, <3>2, Zenon DEF SoundAt
  <2> QED BY <2>9, <2>10
<1>3. ASSUME InputsChosen, Ringed(Len(v4)) PROVE \E m \in Nat : Ringed(m) /\ m <= Len(v4)
  <2>1. Len(v4) \in Nat
    BY <1>3 DEF Ringed
  <2> QED BY <1>3, <2>1
<1>4. ASSUME Ringed(0) PROVE v7 = <<>>
  BY <1>4 DEF Ringed
<1> QED BY <1>1, <1>2, <1>3, <1>4 DEF InputsInv, InputsStage

(* A ring of frontier.py stands for a point of the other run that is as      *)
(* small and clearly faster, and a point without one has none, for any two   *)
(* results and any selection of inputs and levels.                          *)
THEOREM RingsSoundHolds == Spec => []RingsSound
<1>1. InputsInv => RingsSound
  BY RingsAreSound DEF RingsSound
<1> QED BY <1>1, InputsInvHolds, PTL

\* What the scripts have of a run is what it has measured.
LEMMA RowsAre ==
  ASSUME NEW i \in 1..2, NEW l, NEW v
  PROVE  /\ l \in DOMAIN RowsOf(i) /\ v \in DOMAIN RowsOf(i)[l] <=> Inputs!Measured(i, l, v) # {}
         /\ l \in DOMAIN RowsOf(i) /\ v \in DOMAIN RowsOf(i)[l] =>
              RowsOf(i)[l][v] \in Inputs!Measured(i, l, v)
<1> DEFINE good == {r \in v1[i] : Inputs!Plain(r.name) /\ r.size > 0 /\ r.time > 0}
           of == {r \in good : Inputs!InputOf(r.name) = l}
<1>1. /\ DOMAIN RowsOf(i) = {Inputs!InputOf(r.name) : r \in good}
      /\ l \in DOMAIN RowsOf(i) =>
           RowsOf(i)[l] = [u \in {r.name.level : r \in of} |-> CHOOSE r \in of : r.name.level = u]
  BY DEF RowsOf, Inputs!input_rows
<1>2. Inputs!Measured(i, l, v) = {r \in of : r.name.level = v}
  BY DEF Inputs!Measured
<1>3. l \in DOMAIN RowsOf(i) <=> of # {}
  BY <1>1
<1> HIDE DEF of
<1>4. l \in DOMAIN RowsOf(i) =>
        /\ DOMAIN RowsOf(i)[l] = {r.name.level : r \in of}
        /\ v \in {r.name.level : r \in of} => RowsOf(i)[l][v] = CHOOSE r \in of : r.name.level = v
  BY <1>1
<1>5. v \in {r.name.level : r \in of} =>
        (CHOOSE r \in of : r.name.level = v) \in {r \in of : r.name.level = v}
  OBVIOUS
<1>6. {r \in of : r.name.level = v} # {} <=> of # {} /\ v \in {r.name.level : r \in of}
  OBVIOUS
<1> QED BY <1>2, <1>3, <1>4, <1>5, <1>6

\* What can be compared is what both have, as far as the options go.
LEMMA ComparableRows ==
  ASSUME v3 = <<RowsOf(1), RowsOf(2)>>
  PROVE  /\ \A c \in Inputs!Comparable : c = <<c[1], c[2]>>
         /\ \A l, v : <<l, v>> \in Inputs!Comparable <=>
                        l \in SeenInputs /\ v \in Inputs!Both(l) /\ Inputs!Narrowed(v)
<1>1. \A c \in Inputs!Comparable : c = <<c[1], c[2]>>
  BY DEF Inputs!Comparable
<1>2. ASSUME NEW l, NEW v
      PROVE  <<l, v>> \in Inputs!Comparable <=>
               l \in SeenInputs /\ v \in Inputs!Both(l) /\ Inputs!Narrowed(v)
  <2> DEFINE has(i) == l \in DOMAIN RowsOf(i) /\ v \in DOMAIN RowsOf(i)[l]
             some(i) == Inputs!Measured(i, l, v) # {}
  <2>1. (has(1) <=> some(1)) /\ (has(2) <=> some(2))
    <3>1. 1 \in 1..2 /\ 2 \in 1..2
      OBVIOUS
    <3> QED BY <3>1, RowsAre
  <2>2. l \in SeenInputs /\ v \in Inputs!Both(l) <=> has(1) /\ has(2) /\ l \in v2.filter
    BY DEF SeenInputs, Inputs!Both
  <2>3. some(1) => v \in {r.name.level : r \in v1[1]}
    BY DEF Inputs!Measured
  <2>4. <<l, v>> \in Inputs!Comparable <=>
          /\ l \in v2.filter /\ v \in {r.name.level : r \in v1[1]}
          /\ Inputs!Narrowed(v) /\ some(1) /\ some(2)
    <3>1. (\A i \in 1..2 : some(i)) <=> some(1) /\ some(2)
      <4> HIDE DEF some
      <4> QED OBVIOUS
    <3> DEFINE X == v2.filter \X {r.name.level : r \in v1[1]}
               P(c) == Inputs!Narrowed(c[2]) /\ \A i \in 1..2 : Inputs!Measured(i, c[1], c[2]) # {}
    <3>2. Inputs!Comparable = {c \in X : P(c)}
      BY DEF Inputs!Comparable
    <3>3. P(<<l, v>>) <=> Inputs!Narrowed(v) /\ \A i \in 1..2 : some(i)
      OBVIOUS
    <3>4. <<l, v>> \in X <=> l \in v2.filter /\ v \in {r.name.level : r \in v1[1]}
      OBVIOUS
    <3> HIDE DEF X, P, some
    <3> QED BY <3>1, <3>2, <3>3, <3>4
  <2> HIDE DEF has, some
  <2> QED BY <2>1, <2>2, <2>3, <2>4
<1> QED BY <1>1, <1>2

\* What is shown is what can be compared.
LEMMA ChosenIsComparable ==
  ASSUME v1 \in Pairs, v3 = <<RowsOf(1), RowsOf(2)>>, InputsChosen
  PROVE  /\ Inputs!ToSet(v4) = {c[1] : c \in Inputs!Comparable}
         /\ v5 = {c[2] : c \in Inputs!Comparable}
         /\ \A l, v : <<l, v>> \in Inputs!Comparable <=>
                        l \in Inputs!ToSet(v4) /\ v \in Inputs!Both(l) \cap v5
<1> DEFINE C == Inputs!Comparable
           S == Inputs!ToSet(v4)
           ok(l, v) == l \in SeenInputs /\ v \in Inputs!Both(l) /\ Inputs!Narrowed(v)
<1>1. \A c \in C : c = <<c[1], c[2]>>
  BY ComparableRows
<1>2. \A l, v : <<l, v>> \in C <=> ok(l, v)
  BY ComparableRows
<1>3. \A v : v \in v5 <=> \E l : ok(l, v)
  BY DEF InputsChosen
<1>4. \A l : l \in S <=> l \in SeenInputs /\ \E v : v \in Inputs!Both(l) /\ v \in v5
  <2>1. S = Inputs!Shown(SeenInputs, v5)
    BY Labelled
  <2> QED BY <2>1 DEF Inputs!Shown
<1>5. \A l : l \in S <=> \E v : ok(l, v)
  <2>1. \A v \in v5 : Inputs!Narrowed(v)
    BY DEF InputsChosen
  <2> QED BY <1>3, <1>4, <2>1
<1>6. \A l, v : ok(l, v) <=> l \in S /\ v \in Inputs!Both(l) /\ v \in v5
  <2>1. \A v \in v5 : Inputs!Narrowed(v)
    BY DEF InputsChosen
  <2> QED BY <1>3, <1>4, <1>5, <2>1
<1> HIDE DEF C, S, ok
<1>7. S = {c[1] : c \in C}
  <2>1. ASSUME NEW l \in S PROVE l \in {c[1] : c \in C}
    <3>1. PICK v : <<l, v>> \in C
      BY <1>2, <1>5
    <3> QED BY <3>1
  <2>2. ASSUME NEW c \in C PROVE c[1] \in S
    BY <1>1, <1>2, <1>5
  <2> QED BY <2>1, <2>2
<1>8. v5 = {c[2] : c \in C}
  <2>1. ASSUME NEW v \in v5 PROVE v \in {c[2] : c \in C}
    <3>1. PICK l : <<l, v>> \in C
      BY <1>2, <1>3
    <3> QED BY <3>1
  <2>2. ASSUME NEW c \in C PROVE c[2] \in v5
    BY <1>1, <1>2, <1>3
  <2> QED BY <2>1, <2>2
<1>9. \A l, v : <<l, v>> \in C <=> l \in S /\ v \in Inputs!Both(l) \cap v5
  BY <1>2, <1>6
<1> QED BY <1>7, <1>8, <1>9 DEF C, S

\* A finite set has more than one member if two of them differ.
LEMMA MoreThanOne ==
  ASSUME NEW S, IsFiniteSet(S)
  PROVE  Cardinality(S) > 1 <=> \E x, y \in S : x # y
<1>1. Cardinality(S) \in Nat /\ (Cardinality(S) = 0 <=> S = {})
  BY FS_CardinalityType, FS_EmptySet
<1>2. Cardinality(S) = 1 <=> \E x : S = {x}
  BY FS_Singleton
<1>3. Cardinality(S) > 1 <=> Cardinality(S) # 0 /\ Cardinality(S) # 1
  BY <1>1
<1>4. S # {} /\ ~(\E x : S = {x}) <=> \E x, y \in S : x # y
  OBVIOUS
<1> QED BY <1>1, <1>2, <1>3, <1>4

\* A cell of a grid is of rows of both runs.
LEMMA CellOfRows ==
  ASSUME v1 \in Pairs, v3 = <<RowsOf(1), RowsOf(2)>>,
         NEW l \in SeenInputs, NEW v \in Inputs!Both(l)
  PROVE  \E p \in Inputs!Measured(1, l, v), q \in Inputs!Measured(2, l, v) :
           /\ Inputs!Cell("size", l, v).change = <<q.size - p.size, p.size>>
           /\ Inputs!Cell("time", l, v).change = <<q.time - p.time, p.time>>
<1>1. 1 \in 1..2 /\ 2 \in 1..2
  OBVIOUS
<1>2. /\ l \in DOMAIN RowsOf(1) /\ v \in DOMAIN RowsOf(1)[l]
      /\ l \in DOMAIN RowsOf(2) /\ v \in DOMAIN RowsOf(2)[l]
  BY DEF SeenInputs, Inputs!Both
<1>3. PICK p, q : p = RowsOf(1)[l][v] /\ q = RowsOf(2)[l][v]
  OBVIOUS
<1>4. p \in Inputs!Measured(1, l, v) /\ q \in Inputs!Measured(2, l, v)
  BY <1>1, <1>2, <1>3, RowsAre
<1>5. {p.size, p.time, q.size, q.time} \subseteq Nat
  <2>1. p.size \in Nat /\ p.time \in Nat
    BY <1>1, <1>2, <1>3, RowsMeasured
  <2>2. q.size \in Nat /\ q.time \in Nat
    BY <1>1, <1>2, <1>3, RowsMeasured
  <2> QED BY <2>1, <2>2
<1>6. v3[1][l][v] = p /\ v3[2][l][v] = q
  BY <1>3
<1> QED BY ONLY <1>4, <1>5, <1>6, Cells

\* The two grids of a call of compare_inputs.py have what can be compared.
LEMMA GridsAgree ==
  ASSUME v1 \in Pairs, v3 = <<RowsOf(1), RowsOf(2)>>, InputsChosen, Gridded(2), NEW m \in 1..2
  PROVE  /\ DOMAIN v6[m].cells = Inputs!ToSet(v4) /\ Inputs!Places(v6[m]) = Inputs!Comparable
         /\ \A c \in Inputs!Comparable :
              \E p \in Inputs!Measured(1, c[1], c[2]), q \in Inputs!Measured(2, c[1], c[2]) :
                v6[m].cells[c[1]][c[2]].change =
                  <<q[<<"size", "time">>[m]] - p[<<"size", "time">>[m]], p[<<"size", "time">>[m]]>>
         /\ v6[m].typical =
              {v \in v5 : \E c, d \in Inputs!Comparable : c # d /\ c[2] = v /\ d[2] = v}
<1> DEFINE S == Inputs!ToSet(v4)
           C == Inputs!Comparable
           seen(l) == Inputs!Both(l) \cap v5
           having(v) == {l \in S : v \in seen(l)}
           key == <<"size", "time">>[m]
<1>1. /\ DOMAIN v6[m].cells = S
      /\ \A l \in S : DOMAIN v6[m].cells[l] = seen(l)
      /\ \A l \in S : \A v \in seen(l) : v6[m].cells[l][v] = Inputs!Cell(key, l, v)
      /\ v6[m].typical = {v \in v5 : Inputs!Cardinality(having(v)) > 1}
  <2>1. v6[m] = Inputs!Grid(key)
    BY Zenon DEF Gridded
  <2>2. Inputs!Grid(key) =
          [key |-> key, cells |-> [l \in S |-> [v \in seen(l) |-> Inputs!Cell(key, l, v)]],
           typical |-> {v \in v5 : Inputs!Cardinality(having(v)) > 1}]
    BY Zenon DEF Inputs!Grid
  <2> HIDE DEF S, seen, having, key
  <2> QED BY <2>1, <2>2
<1>2. /\ \A c \in C : c = <<c[1], c[2]>>
      /\ \A l, v : <<l, v>> \in C <=> l \in S /\ v \in seen(l)
  BY ComparableRows, ChosenIsComparable
<1>3. IsFiniteSet(S)
  BY Labelled
<1>4. ASSUME NEW c \in C
      PROVE  \E p \in Inputs!Measured(1, c[1], c[2]), q \in Inputs!Measured(2, c[1], c[2]) :
               v6[m].cells[c[1]][c[2]].change = <<q[key] - p[key], p[key]>>
  <2>1. c[1] \in S /\ c[2] \in seen(c[1])
    BY <1>2
  <2>2. c[1] \in SeenInputs /\ c[2] \in Inputs!Both(c[1])
    BY <1>2, ComparableRows
  <2>3. PICK p \in Inputs!Measured(1, c[1], c[2]), q \in Inputs!Measured(2, c[1], c[2]) :
          /\ Inputs!Cell("size", c[1], c[2]).change = <<q.size - p.size, p.size>>
          /\ Inputs!Cell("time", c[1], c[2]).change = <<q.time - p.time, p.time>>
    BY <2>2, CellOfRows
  <2>4. v6[m].cells[c[1]][c[2]] = Inputs!Cell(key, c[1], c[2])
    BY <1>1, <2>1
  <2>5. (m = 1 /\ key = "size") \/ (m = 2 /\ key = "time")
    OBVIOUS
  <2> HIDE DEF key
  <2>6. Inputs!Cell(key, c[1], c[2]).change = <<q[key] - p[key], p[key]>>
    BY ONLY <2>3, <2>5
  <2> QED BY <2>4, <2>6
<1> HIDE DEF S, C, seen
<1>5. Inputs!Places(v6[m]) = C
  <2>1. \A l, v : <<l, v>> \in Inputs!Places(v6[m]) <=> l \in S /\ v \in seen(l)
    BY <1>1 DEF Inputs!Places
  <2>2. \A c \in Inputs!Places(v6[m]) : c = <<c[1], c[2]>>
    BY DEF Inputs!Places
  <2> QED BY <1>2, <2>1, <2>2
<1>6. ASSUME NEW v \in v5
      PROVE  Inputs!Cardinality(having(v)) > 1 <=> \E c, d \in C : c # d /\ c[2] = v /\ d[2] = v
  <2>1. IsFiniteSet(having(v))
    BY <1>3, FS_Subset
  <2>2. \A l : l \in having(v) <=> <<l, v>> \in C
    BY <1>2
  <2>3. (\E x, y \in having(v) : x # y) <=> \E c, d \in C : c # d /\ c[2] = v /\ d[2] = v
    <3> HIDE DEF having
    <3>1. ASSUME NEW x \in having(v), NEW y \in having(v), x # y
          PROVE  \E c, d \in C : c # d /\ c[2] = v /\ d[2] = v
      <4>1. <<x, v>> \in C /\ <<y, v>> \in C /\ <<x, v>> # <<y, v>>
        BY <2>2, <3>1
      <4> QED BY <4>1
    <3>2. ASSUME NEW c \in C, NEW d \in C, c # d, c[2] = v, d[2] = v
          PROVE  \E x, y \in having(v) : x # y
      <4>1. c = <<c[1], v>> /\ d = <<d[1], v>>
        BY <1>2, <3>2
      <4> QED BY <2>2, <3>2, <4>1
    <3> QED BY <3>1, <3>2
  <2> HIDE DEF having
  <2>4. Cardinality(having(v)) > 1 <=> \E x, y \in having(v) : x # y
    BY <2>1, MoreThanOne
  <2> QED BY <2>3, <2>4, InputsCopies
<1> HIDE DEF having
<1>7. v6[m].typical = {v \in v5 : \E c, d \in C : c # d /\ c[2] = v /\ d[2] = v}
  BY <1>1, <1>6
<1> QED BY <1>1, <1>4, <1>5, <1>7 DEF S, C

\* The grids show what can be compared, whenever they are drawn.
LEMMA GridsAreComplete == InputsInv /\ script = "by_input" => Inputs!GridsComplete
<1> SUFFICES ASSUME InputsInv, script = "by_input" PROVE Inputs!GridsComplete
  OBVIOUS
<1>1. /\ v1 \in Pairs /\ v3 = <<RowsOf(1), RowsOf(2)>>
      /\ pc = "load" \/ (InputsChosen /\ InputsStage)
  BY DEF InputsInv
<1>2. CASE pc \in {"exit", "written"}
  <2>1. InputsChosen /\ InputsStage
    BY <1>1, <1>2
  <2>2. /\ Inputs!ToSet(v4) = {c[1] : c \in Inputs!Comparable}
        /\ v5 = {c[2] : c \in Inputs!Comparable}
    BY <1>1, <2>1, ChosenIsComparable
  <2>3. pc = "written" /\ v2.script = "inputs" => Gridded(2)
    BY <2>1 DEF InputsStage
  <2> QED BY <1>1, <2>1, <2>2, <2>3, GridsAgree DEF Inputs!GridsComplete
<1>3. CASE pc \notin {"exit", "written"}
  BY <1>3 DEF Inputs!GridsComplete
<1> QED BY <1>2, <1>3

----------------------------------------------------------------------------
(* compare_levels.py: the chart and the tables below it. *)

\* CompareLevels counts, lists and lays out as the other scripts do.
LEMMA LevelsCopies ==
  /\ \A S : Levels!Cardinality(S) = Cardinality(S)
  /\ \A S : Levels!SetToSeq(S) = Inputs!SetToSeq(S)
  /\ \A ps : Levels!Apart(ps) <=> Graph!Apart(ps)
<1>1. \A S : Levels!Cardinality(S) = Cardinality(S)
  BY Zenon DEF Levels!Cardinality, Cardinality
<1>2. \A f : Levels!IsInjective(f) <=> Inputs!IsInjective(f)
  BY Zenon DEF Levels!IsInjective, Inputs!IsInjective
<1>3. \A S : Levels!Cardinality(S) = Inputs!Cardinality(S)
  BY <1>1, InputsCopies, Zenon
<1>4. \A S : Levels!SetToSeq(S) = Inputs!SetToSeq(S)
  BY <1>2, <1>3, Zenon DEF Levels!SetToSeq, Inputs!SetToSeq
<1>5. \A p, q : Levels!Disjoint(p, q) <=> Graph!Disjoint(p, q)
  BY Zenon DEF Levels!Disjoint, Graph!Disjoint
<1>6. \A ps : Levels!Apart(ps) <=> Graph!Apart(ps)
  BY <1>5, Zenon DEF Levels!Apart, Graph!Apart
<1> QED BY <1>1, <1>4, <1>6

\* The ladders of the call, narrowed by its options.
LadderRows == [i \in Levels!Runs |-> Levels!Narrowed(Levels!level_rows(i))]

\* A table for each strategy of them, with the levels it has.
Tabled ==
  /\ Len(v5) \in Nat /\ DOMAIN v5 = 1..Len(v5)
  /\ \A t \in DOMAIN v5 : v5[t].levels = Levels!LevelsOf(v5[t].strategy)
  /\ \A t \in DOMAIN v5 : v5[t].strategy \in Levels!Strategies(v4)
  /\ \A s \in Levels!Strategies(v4) : \E t \in DOMAIN v5 : v5[t].strategy = s
  /\ \A t, u \in DOMAIN v5 : v5[t].strategy = v5[u].strategy => t = u

\* What a call may end for without its tables.
NothingToShow ==
  \/ Len(v1) \notin 2..SERIES \/ Levels!SummedFiles = {} \/ \A e \in Levels!Asked : e[1] = 0
  \/ v3.strategies # ALL /\ ~(v3.strategies \subseteq {e[2] : e \in Levels!Found} \cup {"default"})

LevelsInv ==
  script = "compare_levels" =>
    /\ v1 \in Ladders /\ pc \in {"load", "exit", "tables", "chart", "drawn", "written"}
    /\ pc \in {"tables", "chart", "drawn", "written"} => v4 = LadderRows /\ Levels!SummedFiles # {}
    /\ pc = "exit" => NothingToShow
    /\ pc \in {"chart", "drawn", "written"} => Tabled
    /\ pc \in {"drawn", "written"} => v7 \in Nat /\ Laid(v6, v7) /\ Len(v6) >= 1

\* A ladder has finitely many levels and strategies.
LEMMA LaddersFinite ==
  ASSUME v1 \in Ladders, v4 = LadderRows
  PROVE  /\ IsFiniteSet(UNION {DOMAIN v4[i] : i \in Levels!Runs})
         /\ DOMAIN v4 = Levels!Runs
         /\ IsFiniteSet(Levels!Strategies(v4)) /\ \A s : IsFiniteSet(Levels!LevelsOf(s))
<1> DEFINE all == UNION {DOMAIN v4[i] : i \in Levels!Runs}
<1>1. IsFiniteSet(Levels!Runs) /\ \A i \in Levels!Runs : IsFiniteSet(v1[i].rows)
  <2>1. /\ Len(v1) \in Nat /\ Levels!Runs = 1..Len(v1)
        /\ \A i \in Levels!Runs : IsFiniteSet(v1[i].rows)
    BY ResultsAssumption DEF Levels!Runs
  <2>2. 1 \in Int /\ Len(v1) \in Int
    BY <2>1
  <2>3. IsFiniteSet(1..Len(v1))
    BY <2>2, FS_Interval
  <2> QED BY <2>1, <2>3
<1>2. \A i \in Levels!Runs : IsFiniteSet(DOMAIN v4[i])
  <2> SUFFICES ASSUME NEW i \in Levels!Runs PROVE IsFiniteSet(DOMAIN v4[i])
    OBVIOUS
  <2>1. DOMAIN v4[i] \subseteq Levels!Keys(Levels!Deflates(i), "deflate")
    BY DEF LadderRows, Levels!Narrowed, Levels!level_rows
  <2>2. IsFiniteSet(Levels!Deflates(i))
    BY <1>1, FS_Subset DEF Levels!Deflates, Levels!Collected
  <2> DEFINE D == Levels!Deflates(i)
             f == [n \in D |-> Levels!Key(n, "deflate")]
  <2>3. Levels!Keys(D, "deflate") = {f[n] : n \in D}
    BY DEF Levels!Keys
  <2>4. IsFiniteSet({f[n] : n \in D})
    <3> HIDE DEF f, D
    <3>1. IsFiniteSet(D)
      BY <2>2 DEF D
    <3> QED BY <3>1, FiniteImage
  <2> HIDE DEF f
  <2> QED BY <2>1, <2>3, <2>4, FS_Subset
<1>3. DOMAIN v4 = Levels!Runs
  BY DEF LadderRows
<1>4. IsFiniteSet(all)
  <2> DEFINE f == [i \in Levels!Runs |-> DOMAIN v4[i]]
  <2>1. all = UNION {f[i] : i \in Levels!Runs}
    OBVIOUS
  <2>2. \A i \in Levels!Runs : IsFiniteSet(f[i])
    BY <1>2
  <2> HIDE DEF f, all
  <2>3. IsFiniteSet(UNION {f[i] : i \in Levels!Runs})
    BY <1>1, <2>2, FiniteUnion
  <2> QED BY <2>1, <2>3
<1>5. IsFiniteSet(Levels!Strategies(v4))
  <2> DEFINE f == [k \in all |-> k[2]]
  <2>1. Levels!Strategies(v4) = {f[k] : k \in all}
    BY <1>3, Zenon DEF Levels!Strategies
  <2> HIDE DEF f, all
  <2>2. IsFiniteSet({f[k] : k \in all})
    BY <1>4, FiniteImage
  <2> QED BY <2>1, <2>2
<1>6. ASSUME NEW s PROVE IsFiniteSet(Levels!LevelsOf(s))
  <2> DEFINE S == {j \in all : j[2] = s}
             f == [k \in S |-> k[1]]
  <2>1. Levels!LevelsOf(s) = {f[k] : k \in S}
    BY Zenon DEF Levels!LevelsOf
  <2>2. IsFiniteSet(S)
    BY <1>4, FS_Subset
  <2> HIDE DEF f, S
  <2> QED BY <2>1, <2>2, FiniteImage
<1> QED BY <1>3, <1>4, <1>5, <1>6

\* What is shown of the rows does not change while they do not.
LEMMA LevelsAsks ==
  ASSUME v1' = v1, v2' = v2, v3' = v3, v4' = v4
  PROVE  /\ LadderRows' = LadderRows /\ Levels!Runs' = Levels!Runs
         /\ \A s : Levels!LevelsOf(s)' = Levels!LevelsOf(s)
         /\ Levels!Strategies(v4)' = Levels!Strategies(v4)
         /\ Levels!SummedFiles' = Levels!SummedFiles /\ (NothingToShow <=> NothingToShow')
<1>1. LadderRows' = LadderRows
  BY LevelsSame DEF LadderRows
<1>2. Levels!Runs' = Levels!Runs
  BY DEF Levels!Runs
<1>3. \A s : Levels!LevelsOf(s)' = Levels!LevelsOf(s)
  BY <1>2, Zenon DEF Levels!LevelsOf
<1>4. Levels!Strategies(v4)' = Levels!Strategies(v4)
  BY Zenon DEF Levels!Strategies
<1>5. /\ Levels!SummedFiles' = Levels!SummedFiles
      /\ Levels!Found' = Levels!Found /\ Levels!Asked' = Levels!Asked
  BY LevelsSame
<1>6. NothingToShow <=> NothingToShow'
  BY <1>5, Zenon DEF NothingToShow
<1> QED BY <1>1, <1>2, <1>3, <1>4, <1>5, <1>6

\* Ladders of files in common have what the runs have rows of, and no more.
LEMMA LaddersAre ==
  ASSUME Levels!SummedFiles # {}
  PROVE  /\ \A e : e \in Levels!Found <=> \E i \in Levels!Runs : e \in DOMAIN Levels!level_rows(i)
         /\ \A e : e \in Levels!Asked <=>
                    \E i \in Levels!Runs : e \in DOMAIN Levels!Narrowed(Levels!level_rows(i))
<1>1. \A i : Levels!Keys(Levels!Deflates(i), "deflate") =
              {<<n.level, n.strategy>> : n \in Levels!Deflates(i)}
  BY DEF Levels!Keys, Levels!Key
<1>2. \A i : DOMAIN Levels!level_rows(i) = {<<n.level, n.strategy>> : n \in Levels!Deflates(i)}
  BY <1>1 DEF Levels!level_rows
<1>3. \A e : e \in Levels!Found <=> \E i \in Levels!Runs : e \in DOMAIN Levels!level_rows(i)
  <2> DEFINE name(n) == <<n.level, n.strategy>>
  <2>1. \A e : e \in Levels!Found <=> \E n : e = name(n) /\ \E i \in Levels!Runs : n \in Levels!Deflates(i)
    <3> DEFINE U == UNION {Levels!Deflates(i) : i \in Levels!Runs}
    <3>1. \A n : n \in U <=> \E i \in Levels!Runs : n \in Levels!Deflates(i)
      OBVIOUS
    <3>2. Levels!Found = {name(n) : n \in U}
      BY Zenon DEF Levels!Found
    <3> HIDE DEF U, name
    <3> QED BY <3>1, <3>2
  <2>2. \A i, e : e \in DOMAIN Levels!level_rows(i) <=> \E n \in Levels!Deflates(i) : e = name(n)
    BY <1>2, Zenon
  <2> HIDE DEF name
  <2> QED BY <2>1, <2>2, Zenon
<1> DEFINE kept(e) == /\ v3.levels = ALL \/ e[1] \in v3.levels
                      /\ e[2] = "" \/ v3.strategies = ALL \/ e[2] \in v3.strategies
<1>4. \A e : e \in Levels!Asked <=> e \in Levels!Found /\ kept(e)
  BY DEF Levels!Asked
<1>5. \A i, e : e \in DOMAIN Levels!Narrowed(Levels!level_rows(i)) <=>
                e \in DOMAIN Levels!level_rows(i) /\ kept(e)
  BY DEF Levels!Narrowed
<1> HIDE DEF kept
<1> QED BY <1>3, <1>4, <1>5

\* The ladders are those the call has loaded, or there is nothing to show.
LEMMA LoadLevelsStep ==
  ASSUME script = "compare_levels", script' = script, LevelsInv, Levels!Load
  PROVE  LevelsInv'
<1>1. UNCHANGED <<v1, v2, v3, v5, v6, v7>> /\ v1 \in Ladders
  BY DEF Levels!Load, LevelsInv
<1>2. /\ LadderRows' = LadderRows /\ Levels!SummedFiles' = Levels!SummedFiles
      /\ Levels!Found' = Levels!Found /\ Levels!Asked' = Levels!Asked
  BY <1>1, LevelsSame DEF LadderRows
<1> DEFINE all == [i \in Levels!Runs |-> Levels!level_rows(i)]
           wrong == \/ Len(v1) \notin 2..SERIES
                    \/ /\ v3.strategies # ALL
                       /\ ~(v3.strategies \subseteq Levels!Strategies(all) \cup {"default"})
<1>3. \/ pc' = "exit" /\ wrong
      \/ pc' = "exit" /\ v4' = LadderRows /\ Levels!Strategies(v4') = {}
      \/ pc' = "tables" /\ v4' = LadderRows /\ Levels!Strategies(v4') # {}
  <2>1. \A i \in Levels!Runs : all[i] = Levels!level_rows(i)
    OBVIOUS
  <2> QED BY <2>1 DEF Levels!Load, LadderRows
<1>4. Levels!SummedFiles # {} => Levels!Strategies(all) = {e[2] : e \in Levels!Found}
  <2>1. Levels!Strategies(all) = {k[2] : k \in UNION {DOMAIN Levels!level_rows(i) : i \in Levels!Runs}}
    BY DEF Levels!Strategies
  <2>2. Levels!SummedFiles # {} => UNION {DOMAIN Levels!level_rows(i) : i \in Levels!Runs} = Levels!Found
    BY LaddersAre
  <2> QED BY <2>1, <2>2
<1> HIDE DEF all
<1>5. wrong => NothingToShow
  BY <1>4 DEF NothingToShow
<1>6. Levels!Strategies(LadderRows) = {} => NothingToShow
  <2>1. ASSUME Levels!Strategies(LadderRows) = {}, NEW i \in Levels!Runs,
               NEW e \in DOMAIN Levels!Narrowed(Levels!level_rows(i))
        PROVE  FALSE
    <3>1. e[2] \in Levels!Strategies(LadderRows)
      BY DEF Levels!Strategies, LadderRows
    <3> QED BY <2>1, <3>1
  <2>2. Levels!Strategies(LadderRows) = {} /\ Levels!SummedFiles # {} => Levels!Asked = {}
    BY <2>1, LaddersAre
  <2> QED BY <2>2 DEF NothingToShow
<1>7. Levels!Strategies(LadderRows) # {} => Levels!SummedFiles # {}
  <2>1. ASSUME Levels!SummedFiles = {}, NEW i \in Levels!Runs
        PROVE  DOMAIN LadderRows[i] = {}
    BY <2>1 DEF LadderRows, Levels!Narrowed, Levels!level_rows
  <2>2. DOMAIN LadderRows = Levels!Runs
    BY DEF LadderRows
  <2> QED BY <2>1, <2>2 DEF Levels!Strategies
<1>8. NothingToShow => NothingToShow'
  BY <1>1, <1>2, Zenon DEF NothingToShow
<1> HIDE DEF wrong
<1>9. pc' = "exit" => NothingToShow'
  BY <1>3, <1>5, <1>6, <1>8
<1>10. pc' # "exit" => pc' = "tables" /\ v4' = LadderRows /\ Levels!SummedFiles # {}
  BY <1>3, <1>7
<1> QED BY <1>1, <1>2, <1>9, <1>10 DEF LevelsInv

\* Every strategy has its table.
LEMMA TablesStep ==
  ASSUME script = "compare_levels", script' = script, LevelsInv, Levels!Tables
  PROVE  LevelsInv'
<1>1. /\ UNCHANGED <<v1, v2, v3, v4, v6, v7>> /\ v1 \in Ladders /\ v4 = LadderRows /\ pc' = "chart"
      /\ Levels!SummedFiles # {}
  BY DEF Levels!Tables, LevelsInv
<1> DEFINE S == Levels!Strategies(v4)
           shown == Levels!SetToSeq(S)
           n == Cardinality(S)
<1>2. v5' = [t \in DOMAIN shown |-> [strategy |-> shown[t], levels |-> Levels!LevelsOf(shown[t])]]
  BY DEF Levels!Tables
<1>3. /\ shown \in [1..n -> S] /\ n \in Nat /\ \A s \in S : \E t \in 1..n : shown[t] = s
      /\ \A t, u \in 1..n : shown[t] = shown[u] => t = u
  <2>1. IsFiniteSet(S)
    BY <1>1, LaddersFinite
  <2>2. shown = Inputs!SetToSeq(S)
    BY LevelsCopies
  <2> HIDE DEF S, shown
  <2>3. /\ shown \in [1..n -> S] /\ n \in Nat /\ Inputs!ToSet(shown) = S
        /\ \A t, u \in 1..n : shown[t] = shown[u] => t = u
    BY <2>1, <2>2, InputsListed
  <2>4. S = {shown[t] : t \in 1..n}
    BY <2>3, InputsCopies
  <2> QED BY <2>3, <2>4
<1>4. DOMAIN shown = 1..n
  BY <1>3
<1> HIDE DEF S, shown, n
<1>5. DOMAIN v5' = 1..n /\ \A t \in 1..n : v5'[t].strategy = shown[t] /\ v5'[t].levels = Levels!LevelsOf(shown[t])
  BY <1>2, <1>4
<1>6. Len(v5') = n
  BY <1>2, <1>3, <1>4
<1>7. S' = S /\ \A s : Levels!LevelsOf(s)' = Levels!LevelsOf(s)
  BY <1>1, LevelsAsks DEF S
<1>8. Tabled'
  <2>1. Len(v5') \in Nat /\ DOMAIN v5' = 1..Len(v5')
    BY <1>3, <1>5, <1>6
  <2>2. \A t \in DOMAIN v5' : (v5[t].levels = Levels!LevelsOf(v5[t].strategy))'
    <3> SUFFICES ASSUME NEW t \in 1..n PROVE (v5[t].levels = Levels!LevelsOf(v5[t].strategy))'
      BY <1>5
    <3>1. v5'[t].strategy = shown[t] /\ v5'[t].levels = Levels!LevelsOf(shown[t])
      BY <1>5
    <3>2. Levels!LevelsOf(v5[t].strategy)' = Levels!LevelsOf(shown[t])
      <4> DEFINE U == UNION {DOMAIN v4[i] : i \in Levels!Runs}
      <4>1. Levels!Runs' = Levels!Runs /\ v4' = v4
        BY <1>1, LevelsAsks
      <4>2. U' = U
        BY <4>1, Zenon
      <4>3. Levels!LevelsOf(v5[t].strategy)' = {k[1] : k \in {j \in U' : j[2] = v5'[t].strategy}}
        BY Zenon DEF Levels!LevelsOf
      <4>4. Levels!LevelsOf(shown[t]) = {k[1] : k \in {j \in U : j[2] = shown[t]}}
        BY Zenon DEF Levels!LevelsOf
      <4> HIDE DEF U
      <4> QED BY <3>1, <4>2, <4>3, <4>4
    <3> QED BY <3>1, <3>2
  <2>3. \A s \in Levels!Strategies(v4)' : \E t \in DOMAIN v5' : v5'[t].strategy = s
    BY <1>3, <1>5, <1>7 DEF S
  <2>4. \A t \in DOMAIN v5' : v5'[t].strategy \in Levels!Strategies(v4)'
    <3>1. \A t \in 1..n : shown[t] \in S
      BY <1>3
    <3> QED BY <1>5, <1>7, <3>1 DEF S
  <2>5. \A t, u \in DOMAIN v5' : v5'[t].strategy = v5'[u].strategy => t = u
    BY <1>3, <1>5
  <2> QED BY <2>1, <2>2, <2>3, <2>4, <2>5, Zenon DEF Tabled
<1>9. LadderRows' = LadderRows /\ Levels!SummedFiles' = Levels!SummedFiles
  BY <1>1, LevelsAsks
<1> QED BY <1>1, <1>8, <1>9 DEF LevelsInv

\* The tables stay what they are.
LEMMA TabledSame ==
  ASSUME v1' = v1, v2' = v2, v3' = v3, v4' = v4, v5' = v5, Tabled
  PROVE  Tabled'
BY LevelsAsks, Zenon DEF Tabled

\* The tables have a line for each level of a strategy that is asked for.
LEMMA LinesAre ==
  ASSUME v1 \in Ladders, v4 = LadderRows, Tabled, Levels!SummedFiles # {}
  PROVE  Levels!Lines = Levels!Asked
<1>1. \A e : e \in Levels!Asked <=> \E i \in Levels!Runs : e \in DOMAIN v4[i]
  BY LaddersAre DEF LadderRows
<1>2. \A e \in Levels!Asked : e = <<e[1], e[2]>>
  <2>1. \A e \in Levels!Found : e = <<e[1], e[2]>>
    BY DEF Levels!Found
  <2>2. Levels!Asked \subseteq Levels!Found
    BY DEF Levels!Asked
  <2> QED BY <2>1, <2>2
<1>3. \A s : s \in Levels!Strategies(v4) <=> \E e \in Levels!Asked : e[2] = s
  <2>1. DOMAIN v4 = Levels!Runs
    BY DEF LadderRows
  <2> QED BY <1>1, <2>1 DEF Levels!Strategies
<1>4. \A s, l : l \in Levels!LevelsOf(s) <=> \E e \in Levels!Asked : e[2] = s /\ e[1] = l
  BY <1>1 DEF Levels!LevelsOf
<1>5. \A l, s : l \in Levels!LevelsOf(s) <=> <<l, s>> \in Levels!Asked
  BY <1>2, <1>4
<1>6. \A l, s : <<l, s>> \in Levels!Lines <=> \E t \in DOMAIN v5 : l \in v5[t].levels /\ s = v5[t].strategy
  BY DEF Levels!Lines
<1>7. \A l, s : <<l, s>> \in Levels!Lines <=> <<l, s>> \in Levels!Asked
  <2>1. ASSUME NEW l, NEW s, <<l, s>> \in Levels!Lines PROVE <<l, s>> \in Levels!Asked
    <3>1. PICK t \in DOMAIN v5 : l \in v5[t].levels /\ s = v5[t].strategy
      BY <1>6, <2>1
    <3>2. v5[t].levels = Levels!LevelsOf(v5[t].strategy)
      BY DEF Tabled
    <3>3. l \in Levels!LevelsOf(s)
      BY <3>1, <3>2
    <3> QED BY <1>5, <3>3
  <2>2. ASSUME NEW l, NEW s, <<l, s>> \in Levels!Asked PROVE <<l, s>> \in Levels!Lines
    <3>1. s \in Levels!Strategies(v4)
      BY <1>3, <2>2
    <3>2. PICK t \in DOMAIN v5 : v5[t].strategy = s
      BY <3>1 DEF Tabled
    <3>3. v5[t].levels = Levels!LevelsOf(v5[t].strategy)
      BY DEF Tabled
    <3>4. l \in v5[t].levels
      BY <1>5, <2>2, <3>2, <3>3
    <3> QED BY <1>6, <3>2, <3>4
  <2> QED BY <2>1, <2>2
<1>8. \A e \in Levels!Lines : e = <<e[1], e[2]>>
  BY DEF Levels!Lines
<1> QED BY <1>2, <1>7, <1>8

\* The chart comes first.
LEMMA ChartStep ==
  ASSUME script = "compare_levels", script' = script, LevelsInv, Levels!Chart
  PROVE  LevelsInv'
<1>1. /\ UNCHANGED <<v1, v2, v3, v4, v5>> /\ v1 \in Ladders /\ v4 = LadderRows /\ Tabled
      /\ Levels!SummedFiles # {}
      /\ \/ pc' = "exit" /\ \A t \in DOMAIN v5 : v5[t].levels = {0}
         \/ pc' = "drawn" /\ v7' = 478 /\ v6' = <<Levels!Panel(78, 962, 96, 384)>>
  <2>1. 100 + 340 + 72 - 34 = 478 /\ 344 + 40 = 384
    OBVIOUS
  <2> QED BY <2>1 DEF Levels!Chart, LevelsInv
<1>2. /\ LadderRows' = LadderRows /\ Tabled' /\ Levels!SummedFiles' # {}
      /\ NothingToShow => NothingToShow'
  BY <1>1, LevelsAsks, TabledSame
<1>3. CASE pc' = "exit" /\ \A t \in DOMAIN v5 : v5[t].levels = {0}
  <2>1. ASSUME NEW e \in Levels!Asked PROVE e[1] = 0
    <3>1. e \in Levels!Lines
      BY <1>1, LinesAre
    <3> QED BY <1>3, <3>1 DEF Levels!Lines
  <2> QED BY <1>1, <1>2, <1>3, <2>1 DEF LevelsInv, NothingToShow
<1>4. CASE pc' = "drawn" /\ v7' = 478 /\ v6' = <<Levels!Panel(78, 962, 96, 384)>>
  <2> DEFINE p == Levels!Panel(78, 962, 96, 384)
  <2>1. p = [x0 |-> 78, x1 |-> 1040, y0 |-> 68, y1 |-> 480]
    BY DEF Levels!Panel
  <2>2. p \in Panels /\ p.x0 >= 0 /\ p.x1 <= 1080 /\ p.y0 >= 0 /\ p.y1 <= 478 + 4
    BY <2>1 DEF Panels
  <2> HIDE DEF p
  <2>3. <<p>> \in Seq(Panels) /\ Len(<<p>>) = 1 /\ \A i \in DOMAIN <<p>> : i = 1 /\ <<p>>[i] = p
    BY <2>2
  <2>4. Laid(<<p>>, 478)
    BY <2>2, <2>3 DEF Laid, Graph!Apart
  <2>5. Laid(v6', v7')
    BY <1>4, <2>4 DEF p
  <2>6. Laid(v6, v7)'
    BY <2>5 DEF Laid
  <2>7. v7' \in Nat /\ Len(v6') >= 1
    BY <1>4
  <2> QED BY <1>1, <1>2, <1>4, <2>6, <2>7 DEF LevelsInv
<1> QED BY <1>1, <1>3, <1>4

\* A table comes below what is drawn.
LEMMA TableStep ==
  ASSUME script = "compare_levels", script' = script, LevelsInv, Levels!Table
  PROVE  LevelsInv'
<1>1. /\ UNCHANGED <<pc, v1, v2, v3, v4, v5>> /\ v1 \in Ladders /\ v4 = LadderRows /\ Tabled
      /\ Levels!SummedFiles # {}
      /\ pc = "drawn" /\ v7 \in Nat /\ Laid(v6, v7) /\ Len(v6) >= 1 /\ Len(v6) <= Len(v5)
  BY DEF Levels!Table, LevelsInv
<1>2. Len(v6) \in Nat
  BY <1>1 DEF Laid
<1>3. PICK k \in Nat : k = Levels!Cardinality(v5[Len(v6)].levels)
  <2>1. v5[Len(v6)].levels = Levels!LevelsOf(v5[Len(v6)].strategy)
    <3>1. Len(v6) \in DOMAIN v5
      BY <1>1, <1>2 DEF Tabled
    <3> QED BY <1>1, <3>1 DEF Tabled
  <2>2. IsFiniteSet(v5[Len(v6)].levels)
    BY <1>1, <2>1, LaddersFinite
  <2>3. Cardinality(v5[Len(v6)].levels) \in Nat
    BY <2>2, FS_CardinalityType
  <2> QED BY <2>3, LevelsCopies
<1>4. PICK c \in Nat : c = v7 + 34 + 42 + 22 * k
  BY <1>1
<1> DEFINE top == v7 + 34
           p == [x0 |-> 78, x1 |-> 1040, y0 |-> top, y1 |-> c]
<1>5. v7' = c /\ v6' = Append(v6, p)
  <2> DEFINE E == v7 + 34 + 42 + 22 * Levels!Cardinality(v5[Len(v6)].levels)
             at(e) == Append(v6, [x0 |-> 78, x1 |-> 1040, y0 |-> top, y1 |-> e])
  <2>1. v7' = E /\ v6' = at(E)
    BY Zenon DEF Levels!Table
  <2>2. E = c
    BY <1>3, <1>4
  <2>3. v7' = c /\ v6' = at(c)
    <3> HIDE DEF E, at
    <3> QED BY <2>1, <2>2
  <2> QED BY <2>3
<1>6. p \in Panels /\ OnPage(p, c + 4) /\ p.y0 >= v7 + 4 /\ c >= v7
  BY <1>1, <1>4 DEF Panels, OnPage
<1> HIDE DEF p
<1>7. <<p>> \in Seq(Panels) /\ \A i \in DOMAIN <<p>> : i = 1 /\ <<p>>[i] = p
  BY <1>6
<1>8. Between(v7, c, <<p>>)
  <2>1. Graph!Apart(<<p>>)
    BY <1>7 DEF Graph!Apart
  <2> QED BY <1>1, <1>6, <1>7, <2>1 DEF Between
<1>9. Laid(v6 \o <<p>>, c)
  BY <1>1, <1>8, LaidBelow
<1>10. Append(v6, p) = v6 \o <<p>> /\ Len(Append(v6, p)) = Len(v6) + 1
  BY <1>1, <1>6 DEF Laid
<1>11. Laid(v6', v7')
  BY <1>5, <1>9, <1>10, Zenon
<1>12. Laid(v6, v7)'
  BY <1>11 DEF Laid
<1>13. Len(v6') >= 1 /\ v7' \in Nat
  BY <1>2, <1>5, <1>10
<1>14. LadderRows' = LadderRows /\ Tabled' /\ Levels!SummedFiles' # {}
  BY <1>1, LevelsAsks, TabledSame
<1> QED BY <1>1, <1>12, <1>13, <1>14 DEF LevelsInv

\* Every step of compare_levels.py keeps LevelsInv.
LEMMA LevelsInvStep == LevelsInv /\ [Next]_vars => LevelsInv'
<1> SUFFICES ASSUME LevelsInv, [Next]_vars, script' = "compare_levels" PROVE LevelsInv'
  BY DEF LevelsInv
<1>1. script = "compare_levels" /\ script' = script
  BY DEF Next, vars
<1>2. CASE Levels!Written
  <2>1. UNCHANGED <<v1, v2, v3, v4, v5, v6, v7>> /\ pc = "drawn" /\ pc' = "written"
    BY <1>2 DEF Levels!Written
  <2>2. /\ v1 \in Ladders /\ v4 = LadderRows /\ Tabled /\ v7 \in Nat /\ Laid(v6, v7) /\ Len(v6) >= 1
        /\ Levels!SummedFiles # {}
    BY <1>1, <2>1 DEF LevelsInv
  <2>3. Tabled' /\ LadderRows' = LadderRows /\ Laid(v6, v7)' /\ Levels!SummedFiles' # {}
    BY <2>1, <2>2, LevelsAsks, TabledSame DEF Laid, Graph!Apart, Graph!Disjoint
  <2> QED BY <2>1, <2>2, <2>3 DEF LevelsInv
<1>3. CASE UNCHANGED vars
  <2>1. UNCHANGED <<pc, v1, v2, v3, v4, v5, v6, v7>>
    BY <1>3 DEF vars
  <2>2. /\ LadderRows' = LadderRows /\ (Tabled => Tabled')
        /\ Levels!SummedFiles' = Levels!SummedFiles /\ (NothingToShow => NothingToShow')
    BY <2>1, LevelsAsks, TabledSame
  <2>3. Laid(v6, v7) => Laid(v6, v7)'
    BY <2>1 DEF Laid, Graph!Apart, Graph!Disjoint
  <2> QED BY <1>1, <2>1, <2>2, <2>3 DEF LevelsInv
<1>4. CASE Levels!Load \/ Levels!Tables \/ Levels!Chart \/ Levels!Table
  BY <1>1, <1>4, LoadLevelsStep, TablesStep, ChartStep, TableStep
<1> QED BY <1>1, <1>2, <1>3, <1>4 DEF Next, Levels!Next

\* What is drawn is complete, once it is written.
LEMMA TablesAreComplete == LevelsInv /\ script = "compare_levels" => Levels!TablesComplete
<1> SUFFICES ASSUME LevelsInv, script = "compare_levels" PROVE Levels!TablesComplete
  OBVIOUS
<1>1. CASE pc = "exit"
  BY <1>1 DEF LevelsInv, NothingToShow, Levels!TablesComplete
<1>2. CASE pc \notin {"exit", "written"}
  BY <1>2 DEF Levels!TablesComplete
<1>3. CASE pc = "written"
  <2>1. /\ v1 \in Ladders /\ v4 = LadderRows /\ Tabled /\ v7 \in Nat /\ Laid(v6, v7)
        /\ Levels!SummedFiles # {}
    BY <1>3 DEF LevelsInv
  <2>2. Levels!Lines = Levels!Asked
    BY <2>1, LinesAre
  <2>3. Levels!Apart(v6)
    BY <2>1, LevelsCopies DEF Laid
  <2>4. Levels!Within(v6, 1080, v7 + 10)
    <3> SUFFICES ASSUME NEW i \in DOMAIN v6
                 PROVE  v6[i].x0 >= 0 /\ v6[i].x1 <= 1080 /\ v6[i].y0 >= 0 /\ v6[i].y1 <= v7 + 10
      BY DEF Levels!Within
    <3>1. v6[i].x0 >= 0 /\ v6[i].x1 <= 1080 /\ v6[i].y0 >= 0 /\ v6[i].y1 <= v7 + 4 /\ v6[i] \in Panels
      BY <2>1 DEF Laid
    <3>2. v6[i].y1 \in Int
      BY <3>1 DEF Panels
    <3> QED BY <2>1, <3>1, <3>2
  <2>5. \A t, u \in DOMAIN v5 : v5[t].strategy = v5[u].strategy => t = u
    BY <2>1 DEF Tabled
  <2> QED BY <1>3, <2>2, <2>3, <2>4, <2>5 DEF Levels!TablesComplete
<1> QED BY <1>1, <1>2, <1>3

\* It is an invariant.
LEMMA LevelsInvHolds == Spec => []LevelsInv
<1>1. Init => LevelsInv
  BY DEF Init, Levels!Init, LevelsInv
<1> QED BY <1>1, LevelsInvStep, PTL DEF Spec

(* What the runs have is shown, for any results and options: each level of a *)
(* strategy that a run has rows of has its line in a table of                *)
(* compare_levels.py, each input and level that both runs have measured its  *)
(* cell with its change in either grid of compare_inputs.py, and a call ends  *)
(* without them only where there are none.                                  *)
THEOREM NothingMissingHolds == Spec => []NothingMissing
<1>1. LevelsInv /\ InputsInv => NothingMissing
  BY TablesAreComplete, GridsAreComplete DEF NothingMissing
<1> QED BY <1>1, LevelsInvHolds, InputsInvHolds, PTL

----------------------------------------------------------------------------
(* insert_map.py: the shares of the pixels, and of the rows beside them. *)

\* InsertMap counts and adds as this module does.
LEMMA MapCopies ==
  /\ \A S : Map!Cardinality(S) = Cardinality(S)
  /\ \A f : Map!SumFunction(f) = SumFunctionOnSet(f, DOMAIN f)
  /\ \A s : Map!ToSet(s) = {s[i] : i \in DOMAIN s}
<1>1. \A S : Map!Cardinality(S) = Cardinality(S)
  BY Zenon DEF Map!Cardinality, Cardinality
<1>2. \A f, S : Map!SumFunctionOnSet(f, S) = SumFunctionOnSet(f, S)
  BY Zenon DEF Map!SumFunctionOnSet, SumFunctionOnSet, Map!FoldFunctionOnSet, FoldFunctionOnSet,
               Map!MapThenFoldSet, MapThenFoldSet
<1>3. \A f : Map!SumFunction(f) = SumFunctionOnSet(f, DOMAIN f)
  BY <1>2 DEF Map!SumFunction
<1>4. \A s : Map!ToSet(s) = {s[i] : i \in DOMAIN s}
  BY Zenon DEF Map!ToSet
<1> QED BY <1>1, <1>3, <1>4

\* Up rounds up: that many pieces of length b are needed for a.
LEMMA UpBounds ==
  ASSUME NEW a \in Nat, NEW b \in Nat \ {0}
  PROVE  /\ Map!Up(a, b) \in Nat /\ a <= Map!Up(a, b) * b
         /\ Map!Up(a, b) > 0 => (Map!Up(a, b) - 1) * b < a
         /\ Map!Up(a, b) = 0 <=> a = 0
<1> DEFINE k == a + b - 1
           u == k \div b
<1>1. k \in Nat
  OBVIOUS
<1>2. u \in Nat /\ u * b \in Nat /\ u * b <= k /\ (u + 1) * b = u * b + b /\ k < (u + 1) * b
  BY <1>1, Neighbours, Multiples
<1>3. a <= u * b /\ u * b <= a + b - 1
  BY <1>2
<1>4. u > 0 => (u - 1) * b < a /\ (u - 1) * b \in Nat
  <2> HAVE u > 0
  <2>1. u - 1 \in Nat
    BY <1>2
  <2>2. ((u - 1) + 1) * b = (u - 1) * b + b /\ (u - 1) * b \in Nat /\ (u - 1) + 1 = u
    BY <1>2, <2>1, Multiples
  <2> QED BY <1>2, <1>3, <2>2
<1>5. u = 0 <=> a = 0
  <2>1. u = 0 => u * b = 0
    OBVIOUS
  <2> QED BY <1>2, <1>3, <1>4, <2>1
<1> QED BY <1>2, <1>3, <1>4, <1>5 DEF Map!Up

\* The positions a pixel stands for.
Part(p, span) == {x \in v3 : x >= p /\ x < p + span}

\* The bits of the bytes a pixel lies in, shifted and masked, are those of the
\* pixel, at any alignment.
LEMMA MaskedSlice ==
  ASSUME NEW p \in Nat, NEW span \in Nat, IsFiniteSet(v3), v3 \subseteq Int, BYTE \in Nat \ {0}
  PROVE  Cardinality({y \in {(x - BYTE * (p \div BYTE)) - (p % BYTE) : x \in Map!Slice(p, span)} :
                        y \in 0..span - 1}) = Cardinality(Part(p, span))
<1> DEFINE S == Part(p, span)
           T == {x - p : x \in S}
           q == BYTE * (p \div BYTE)
           r == p % BYTE
           e == BYTE * Map!Up(p + span, BYTE)
           V == {y \in {(x - q) - r : x \in Map!Slice(p, span)} : y \in 0..span - 1}
<1>1. q \in Int /\ r \in Int /\ q + r = p /\ q <= p
  BY QuotientAndRest
<1>2. e \in Int /\ e >= p + span
  <2>1. p + span \in Nat
    OBVIOUS
  <2>2. Map!Up(p + span, BYTE) \in Nat /\ p + span <= Map!Up(p + span, BYTE) * BYTE
    BY <2>1, UpBounds
  <2> QED BY <2>2
<1>3. Map!Slice(p, span) = {x \in v3 : x >= q /\ x < e}
  BY DEF Map!Slice
<1> HIDE DEF q, r, e
<1>4. \A x \in v3 : (x - q) - r = x - p
  BY <1>1
<1>5. V = T
  <2>1. ASSUME NEW y \in V PROVE y \in T
    <3>1. PICK x \in v3 : y = (x - q) - r
      BY <1>3
    <3>2. y = x - p /\ y \in 0..span - 1
      BY <1>4, <3>1
    <3>3. x \in S
      BY <3>2 DEF Part
    <3> QED BY <3>2, <3>3
  <2>2. ASSUME NEW y \in T PROVE y \in V
    <3>1. PICK x \in S : y = x - p
      OBVIOUS
    <3>2. x \in v3 /\ x >= p /\ x < p + span
      BY DEF Part
    <3>3. x \in Map!Slice(p, span) /\ y = (x - q) - r /\ y \in 0..span - 1
      BY <1>1, <1>2, <1>3, <1>4, <3>1, <3>2
    <3> QED BY <3>3
  <2> QED BY <2>1, <2>2
<1> DEFINE h == [x \in S |-> x - p]
<1>6. S \in SUBSET v3
  BY DEF Part
<1>7. h \in Bijection(S, T)
  <2>1. \A x, y \in S : h[x] = h[y] => x = y
    <3>1. \A x \in S : x \in Int /\ h[x] = x - p
      BY <1>6
    <3> QED BY <3>1
  <2>2. h \in [S -> T] /\ \A t \in T : \E x \in S : h[x] = t
    OBVIOUS
  <2> HIDE DEF h, S, T
  <2> QED BY <2>1, <2>2 DEF Bijection, Injection, Surjection, IsInjective
<1>8. Cardinality(T) = Cardinality(S)
  BY <1>6, <1>7, FS_Subset, FS_Bijection DEF ExistsBijection
<1> QED BY <1>5, <1>8 DEF q, r

\* The bytes of a region that the first pixels stand for.
Covered(k, px, size) == IF k * px < size THEN k * px ELSE size

\* The shares of a region's pixels add up to what is marked in the region, and
\* their spans to its size: by induction on the pixels.
LEMMA DensitiesExact ==
  ASSUME NEW start \in Nat, NEW size \in Nat, NEW px \in Nat \ {0},
         IsFiniteSet(v3), v3 \subseteq Int, BYTE \in Nat \ {0},
         NEW r, r.start = start, r.size = size
  PROVE  Map!Exact(Map!densities(start, size, px), r)
<1> DEFINE m == Map!Up(size, px)
           ds == Map!densities(start, size, px)
           at(i) == start + (i - 1) * px
           span(i) == IF px < start + size - at(i) THEN px ELSE start + size - at(i)
           f == [i \in 1..m |-> ds[i][1]]
           g == [i \in 1..m |-> ds[i][2]]
           G == {k \in Nat : k <= m =>
                   /\ SumFunctionOnSet(f, 1..k) = Cardinality(Part(start, Covered(k, px, size)))
                   /\ SumFunctionOnSet(g, 1..k) = Covered(k, px, size)}
<1>1. m \in Nat /\ size <= m * px /\ (m > 0 => (m - 1) * px < size) /\ (m = 0 <=> size = 0)
  BY UpBounds
<1>2. DOMAIN ds = 1..m
  BY DEF Map!densities
<1>3. ASSUME NEW k \in 0..m - 1
      PROVE  /\ k * px \in Nat /\ k * px < size /\ Covered(k, px, size) = k * px
             /\ span(k + 1) \in Nat /\ Covered(k + 1, px, size) = k * px + span(k + 1)
             /\ f[k + 1] = Cardinality(Part(start + k * px, span(k + 1)))
             /\ g[k + 1] = span(k + 1)
  <2>1. k \in Nat /\ m - 1 \in Nat /\ k <= m - 1 /\ k + 1 \in 1..m /\ (k + 1) - 1 = k
    BY <1>1
  <2>2. k * px \in Nat /\ k * px <= (m - 1) * px /\ (k + 1) * px = k * px + px
    BY <2>1, Multiples
  <2>3. (m - 1) * px \in Nat
    BY <2>1, Multiples
  <2>4. k * px < size
    BY <1>1, <2>1, <2>2, <2>3
  <2>5. at(k + 1) = start + k * px
    BY <2>1
  <2>6. span(k + 1) = IF px < size - k * px THEN px ELSE size - k * px
    BY <2>2, <2>5
  <2> HIDE DEF at
  <2>7. span(k + 1) \in Nat /\ Covered(k + 1, px, size) = k * px + span(k + 1)
    BY <2>2, <2>4, <2>6 DEF Covered
  <2>8. ds[k + 1] = <<f[k + 1], span(k + 1)>>
        /\ f[k + 1] = Cardinality(Part(start + k * px, span(k + 1)))
    <3> DEFINE p == start + k * px
    <3>1. ds[k + 1] = <<Map!Cardinality({y \in {(x - BYTE * (p \div BYTE)) - (p % BYTE) :
                           x \in Map!Slice(p, span(k + 1))} : y \in 0..span(k + 1) - 1}), span(k + 1)>>
      BY <2>1, <2>5, <1>1 DEF Map!densities, at
    <3>2. p \in Nat
      BY <2>2
    <3> DEFINE w == span(k + 1)
               M == {y \in {(x - BYTE * (p \div BYTE)) - (p % BYTE) : x \in Map!Slice(p, w)} :
                       y \in 0..w - 1}
    <3>3. w \in Nat
      BY <2>7
    <3> HIDE DEF w, p
    <3>4. Map!Cardinality(M) = Cardinality(Part(p, w))
      BY <3>2, <3>3, MapCopies, MaskedSlice
    <3> HIDE DEF M
    <3>5. ds[k + 1] = <<Map!Cardinality(M), w>>
      BY <3>1 DEF M, w, p
    <3> HIDE DEF ds
    <3> QED BY <2>1, <3>4, <3>5 DEF p, w
  <2> QED BY <2>1, <2>2, <2>4, <2>7, <2>8 DEF Covered
<1>4. 0 \in G
  <2>1. 0 * px = 0 /\ Covered(0, px, size) = 0
    BY <1>1 DEF Covered
  <2>2. Part(start, 0) = {}
    <3> SUFFICES ASSUME NEW x \in Part(start, 0) PROVE FALSE
      OBVIOUS
    <3>1. x \in Int /\ x >= start /\ x < start + 0
      BY DEF Part
    <3> QED BY <3>1
  <2>3. 1..0 = {}
    OBVIOUS
  <2> QED BY <2>1, <2>2, <2>3, SumEmpty, FS_EmptySet
<1>5. ASSUME NEW k \in Nat, k \in G PROVE k + 1 \in G
  <2> SUFFICES ASSUME k + 1 <= m
               PROVE  /\ SumFunctionOnSet(f, 1..k + 1) = Cardinality(Part(start, Covered(k + 1, px, size)))
                      /\ SumFunctionOnSet(g, 1..k + 1) = Covered(k + 1, px, size)
    OBVIOUS
  <2> DEFINE a == k * px
             w == span(k + 1)
  <2>1. /\ a \in Nat /\ w \in Nat /\ Covered(k, px, size) = a /\ Covered(k + 1, px, size) = a + w
        /\ f[k + 1] = Cardinality(Part(start + a, w)) /\ g[k + 1] = w
    <3>1. k \in 0..m - 1
      BY <1>1
    <3> HIDE DEF f, g, span, m
    <3> QED BY <1>3, <3>1
  <2>2. SumFunctionOnSet(f, 1..k) = Cardinality(Part(start, a)) /\ SumFunctionOnSet(g, 1..k) = a
    BY <1>1, <1>5, <2>1
  <2> HIDE DEF a, w, f, g
  <2>3. \A q, v : IsFiniteSet(Part(q, v)) /\ Cardinality(Part(q, v)) \in Nat
    BY FS_Subset, FS_CardinalityType DEF Part
  <2>4. \A i \in 1..k + 1 : f[i] \in Int /\ g[i] \in Int
    <3> SUFFICES ASSUME NEW i \in 1..k + 1 PROVE f[i] \in Int /\ g[i] \in Int
      OBVIOUS
    <3>1. i - 1 \in 0..m - 1 /\ (i - 1) + 1 = i
      BY <1>1
    <3>2. span(i) \in Nat /\ f[i] = Cardinality(Part(start + (i - 1) * px, span(i))) /\ g[i] = span(i)
      BY <1>3, <3>1
    <3> QED BY <2>3, <3>2
  <2>5. (1..k + 1) \ {k + 1} = 1..k /\ IsFiniteSet(1..k + 1) /\ k + 1 \in 1..k + 1
    <3>1. (1..k + 1) \ {k + 1} = 1..k
      OBVIOUS
    <3>2. k + 1 \in Int /\ k + 1 \in 1..k + 1
      OBVIOUS
    <3> QED BY <3>1, <3>2, FS_Interval
  <2>6. /\ SumFunctionOnSet(f, 1..k + 1) = f[k + 1] + SumFunctionOnSet(f, 1..k)
        /\ SumFunctionOnSet(g, 1..k + 1) = g[k + 1] + SumFunctionOnSet(g, 1..k)
    <3> DEFINE I == 1..k + 1
    <3>1. IsFiniteSet(I) /\ k + 1 \in I /\ I \ {k + 1} = 1..k /\ \A i \in I : f[i] \in Int /\ g[i] \in Int
      BY <2>4, <2>5
    <3> HIDE DEF I
    <3>2. SumFunctionOnSet(f, I) = f[k + 1] + SumFunctionOnSet(f, I \ {k + 1})
      BY <3>1, SumTakeOut
    <3>3. SumFunctionOnSet(g, I) = g[k + 1] + SumFunctionOnSet(g, I \ {k + 1})
      BY <3>1, SumTakeOut
    <3> QED BY <3>1, <3>2, <3>3 DEF I
  <2>7. Cardinality(Part(start, a + w)) = Cardinality(Part(start, a)) + Cardinality(Part(start + a, w))
    <3>1. /\ Part(start, a + w) = Part(start, a) \cup Part(start + a, w)
          /\ Part(start, a) \cap Part(start + a, w) = {}
      <4>1. \A x \in v3 : x \in Int
        OBVIOUS
      <4>2. \A x \in v3 : x >= start /\ x < start + (a + w) <=>
              \/ x >= start /\ x < start + a
              \/ x >= start + a /\ x < (start + a) + w
        BY <2>1, <4>1
      <4>3. \A x \in v3 : ~(x < start + a /\ x >= start + a)
        BY <2>1, <4>1
      <4> QED BY <4>2, <4>3 DEF Part
    <3> DEFINE A == Part(start, a)
               B == Part(start + a, w)
    <3>2. IsFiniteSet(A) /\ IsFiniteSet(B) /\ Cardinality(A) \in Nat /\ Cardinality(B) \in Nat
      BY <2>3
    <3> HIDE DEF A, B
    <3>3. Cardinality(A \cup B) = Cardinality(A) + Cardinality(B) - Cardinality(A \cap B)
      BY <3>2, FS_Union
    <3>4. A \cap B = {} /\ A \cup B = Part(start, a + w)
      BY <3>1 DEF A, B
    <3>5. Cardinality(A \cap B) = 0
      BY <3>4, FS_EmptySet
    <3>6. Cardinality(A \cup B) = Cardinality(A) + Cardinality(B)
      BY <3>2, <3>3, <3>5
    <3> QED BY <3>4, <3>6 DEF A, B
  <2> QED BY <2>1, <2>2, <2>3, <2>6, <2>7
<1>6. m \in G
  <2> HIDE DEF G
  <2>1. Nat \subseteq G
    BY <1>4, <1>5, NatInductionSet
  <2> QED BY <1>1, <2>1
<1>7. Covered(m, px, size) = size
  BY <1>1, Multiples DEF Covered
<1>8. Part(start, size) = Map!Inside(r)
  BY DEF Part, Map!Inside
<1>9. DOMAIN f = 1..m /\ DOMAIN g = 1..m
  OBVIOUS
<1>10. SumFunctionOnSet(f, 1..m) = Cardinality(Map!Inside(r)) /\ SumFunctionOnSet(g, 1..m) = size
  BY <1>1, <1>6, <1>7, <1>8
<1>11. f = [i \in DOMAIN ds |-> ds[i][1]] /\ g = [i \in DOMAIN ds |-> ds[i][2]]
  BY <1>2
<1> HIDE DEF f, g, ds, m
<1> QED BY <1>9, <1>10, <1>11, MapCopies DEF Map!Exact, ds

\* Regions of the input.
Spans == [start : Nat, size : Nat]

\* What is read and drawn of the input; an empty one has no members.
MapTyped ==
  /\ v1 \in Seq([regular : BOOLEAN, size : Nat]) /\ v2 \in Nat
  /\ IsFiniteSet(v3) /\ v3 \subseteq Int
  /\ v5 \in Nat /\ v6 \in Nat \ {0} /\ v8 \in Nat \ {0}
  /\ v7 \in Seq(Spans) /\ v10 \in Seq(Spans) /\ (v2 = 0 => v7 = <<>>)

\* Rows of the table that are exact.
ExactRows ==
  /\ Len(v11) \in Nat /\ v11 = [i \in 1..Len(v11) |-> v11[i]]
  /\ \A i \in 1..Len(v11) : Map!Exact(v11[i].shown, v11[i])

\* How far the drawing has got: the pixels of the whole file are kept while the rows
\* beside them are drawn, those of a member are only in its row, and an empty file
\* has a row that divides by zero.
MapStage ==
  /\ pc \in {"members", "blocks"} => v9 = <<>>
  /\ pc \in {"members", "blocks", "written"} /\ v9 = <<>> => ExactRows
  /\ pc = "map" => /\ v9 = Map!densities(0, v2, v8)
                   /\ v2 = 0 => v10 = <<[start |-> 0, size |-> 0]>>
  /\ pc = "raised" => IF v9 = <<>> THEN Head(v10).size = 0 ELSE Head(v10).start >= v2

MapInv == script = "insert_map" => MapTyped /\ MapStage

\* What is asked of the input does not change while it does not.
LEMMA MapSame ==
  ASSUME v3' = v3
  PROVE  /\ \A ds, r : Map!Exact(ds, r)' <=> Map!Exact(ds, r)
         /\ \A a, b, c : Map!densities(a, b, c)' = Map!densities(a, b, c)
         /\ UNCHANGED v11 /\ ExactRows => ExactRows'
<1>1. \A r : Map!Inside(r)' = Map!Inside(r)
  BY DEF Map!Inside
<1>2. \A ds, r : Map!Exact(ds, r)' <=> Map!Exact(ds, r)
  BY <1>1, Zenon DEF Map!Exact
<1>4. \A a, b, c : Map!densities(a, b, c)' = Map!densities(a, b, c)
  <2> SUFFICES ASSUME NEW a, NEW b, NEW c
               PROVE  Map!densities(a, b, c)' = Map!densities(a, b, c)
    OBVIOUS
  <2> DEFINE D(B) ==
        [i \in 1..Map!Up(b, c) |->
           LET p == a + (i - 1) * c
               span == IF c < a + b - p THEN c ELSE a + b - p
               v == {(x - BYTE * (p \div BYTE)) - (p % BYTE) :
                      x \in {y \in B : y >= BYTE * (p \div BYTE) /\ y < BYTE * Map!Up(p + span, BYTE)}}
           IN <<Map!Cardinality({x \in v : x \in 0..span - 1}), span>>]
  <2>1. Map!densities(a, b, c) = D(v3) /\ Map!densities(a, b, c)' = D(v3')
    BY Zenon DEF Map!densities, Map!Slice
  <2> HIDE DEF D
  <2> QED BY <2>1
<1>5. ASSUME UNCHANGED v11, ExactRows PROVE ExactRows'
  BY <1>2, <1>5, Zenon DEF ExactRows
<1> QED BY <1>2, <1>4, <1>5

\* How many pixels a region has.
LEMMA DensitiesCount ==
  ASSUME NEW start \in Nat, NEW size \in Nat, NEW px \in Nat \ {0}
  PROVE  /\ Len(Map!densities(start, size, px)) = Map!Up(size, px)
         /\ Map!densities(start, size, px) \in Seq(Range(Map!densities(start, size, px)))
         /\ Map!densities(start, size, px) = <<>> <=> size = 0
<1> DEFINE ds == Map!densities(start, size, px)
           m == Map!Up(size, px)
<1>1. m \in Nat /\ (m = 0 <=> size = 0)
  BY UpBounds
<1>2. DOMAIN ds = 1..m /\ ds = [i \in 1..m |-> ds[i]]
  BY DEF Map!densities
<1> HIDE DEF ds, m
<1>3. Len(ds) = m
  BY <1>1, <1>2
<1>4. ds = <<>> <=> m = 0
  BY <1>1, <1>2
<1>5. ds \in Seq(Range(ds))
  BY <1>1, <1>2 DEF Range
<1> QED BY <1>1, <1>3, <1>4, <1>5 DEF ds, m

\* The headers of a tar are read.
LEMMA MemberStep ==
  ASSUME script = "insert_map", MapInv, Map!Member
  PROVE  MapTyped' /\ MapStage'
<1>1. MapTyped /\ MapStage /\ pc = "members" /\ UNCHANGED <<pc, v1, v2, v3, v4, v8, v9, v10, v11>>
      /\ v6' = v6 + 1 /\ v5 + BLOCK <= v2 /\ v6 <= Len(v1)
  BY DEF MapInv, Map!Member, Map!MoreHeaders
<1>2. v1[v6] \in [regular : BOOLEAN, size : Nat]
  <2> DEFINE Entries == [regular : BOOLEAN, size : Nat]
  <2>1. v1 \in Seq(Entries) /\ v6 \in Nat \ {0}
    BY <1>1 DEF MapTyped
  <2>2. v6 \in 1..Len(v1)
    BY <1>1, <2>1
  <2> HIDE DEF Entries
  <2>3. v1[v6] \in Entries
    BY <2>1, <2>2
  <2> QED BY <2>3 DEF Entries
<1> DEFINE e == v1[v6]
<1>3. v5' = v5 + BLOCK + Map!Up(e.size, BLOCK) * BLOCK
  BY DEF Map!Member
<1>4. v5' \in Nat
  <2>1. Map!Up(e.size, BLOCK) \in Nat /\ BLOCK \in Nat
    BY <1>2, MapAssumption, UpBounds
  <2>2. Map!Up(e.size, BLOCK) * BLOCK \in Nat
    BY <2>1, Multiples
  <2>3. v5 \in Nat
    BY <1>1 DEF MapTyped
  <2> QED BY ONLY <1>3, <2>1, <2>2, <2>3
<1>5. v7' \in Seq(Spans)
  <2>1. v7' = (IF e.regular THEN Append(v7, [start |-> v5 + BLOCK, size |-> e.size]) ELSE v7)
    BY DEF Map!Member
  <2>2. [start |-> v5 + BLOCK, size |-> e.size] \in Spans /\ v7 \in Seq(Spans)
    BY <1>1, <1>2, MapAssumption DEF MapTyped, Spans
  <2> QED BY <2>1, <2>2
<1>6. v2 # 0
  BY <1>1, MapAssumption DEF MapTyped
<1>7. MapTyped'
  BY <1>1, <1>4, <1>5, <1>6 DEF MapTyped
<1> QED BY <1>1, <1>7, MapSame DEF MapStage

\* The regions of the input are drawn on one map or one by one.
LEMMA StartRenderStep ==
  ASSUME script = "insert_map", MapInv, Map!StartRender
  PROVE  MapTyped' /\ MapStage'
<1>1. MapTyped /\ MapStage /\ pc = "members" /\ UNCHANGED <<v1, v2, v3, v4, v5, v6, v7, v8, v11>>
      /\ v10' = Map!Regions
      /\ \/ pc' = "blocks" /\ v9' = v9
         \/ pc' = "map" /\ v9' = Map!densities(0, v2, v8)
  BY DEF MapInv, Map!StartRender
<1>2. Map!Regions \in Seq(Spans) /\ (v7 = <<>> => Map!Regions = <<[start |-> 0, size |-> v2]>>)
  <2>1. [start |-> 0, size |-> v2] \in Spans
    BY <1>1 DEF MapTyped, Spans
  <2> QED BY <1>1, <2>1 DEF Map!Regions, MapTyped
<1>3. MapTyped'
  BY <1>1, <1>2 DEF MapTyped
<1>4. ExactRows' /\ v9 = <<>>
  BY <1>1, MapSame DEF MapStage
<1>5. Map!densities(0, v2, v8)' = Map!densities(0, v2, v8)
  BY <1>1, MapSame
<1> QED BY <1>1, <1>2, <1>3, <1>4, <1>5 DEF MapStage, MapTyped

\* The first region that is left is one.
LEMMA FirstRegion ==
  ASSUME v10 \in Seq(Spans), v10 # <<>>
  PROVE  /\ Head(v10) \in Spans /\ Head(v10).start \in Nat /\ Head(v10).size \in Nat
         /\ Tail(v10) \in Seq(Spans)
<1>1. Head(v10) \in Spans /\ Tail(v10) \in Seq(Spans)
  OBVIOUS
<1> QED BY <1>1 DEF Spans

\* A member is drawn at a scale of its own.
LEMMA BlockStep ==
  ASSUME script = "insert_map", MapInv, Map!Block
  PROVE  MapTyped' /\ MapStage'
<1>1. MapTyped /\ MapStage /\ pc = "blocks" /\ v10 # <<>>
      /\ UNCHANGED <<v1, v2, v3, v4, v5, v6, v7, v9>>
  BY DEF MapInv, Map!Block
<1> DEFINE r == Head(v10)
<1>2. PICK px \in Pixels : v8' = px /\ Map!AddRow(r, Map!densities(r.start, r.size, px))
  BY DEF Map!Block
<1>3. px \in Nat \ {0} /\ r.start \in Nat /\ r.size \in Nat /\ Tail(v10) \in Seq(Spans) /\ BYTE \in Nat \ {0}
  BY <1>1, FirstRegion, MapAssumption DEF MapTyped
<1> DEFINE ds == Map!densities(r.start, r.size, px)
           row == [start |-> r.start, size |-> r.size, shown |-> ds]
<1>4. (ds = <<>> <=> r.size = 0) /\ Map!Exact(ds, row)
  <2>1. row.start = r.start /\ row.size = r.size
    OBVIOUS
  <2> HIDE DEF row, r
  <2>2. ds = <<>> <=> r.size = 0
    BY <1>3, DensitiesCount
  <2>3. IsFiniteSet(v3) /\ v3 \subseteq Int
    BY <1>1 DEF MapTyped
  <2>4. Map!Exact(ds, row)
    BY <1>3, <2>1, <2>3, DensitiesExact
  <2> QED BY <2>2, <2>4
<1> HIDE DEF ds
<1>5. CASE ds = <<>>
  <2>1. pc' = "raised" /\ v10' = v10 /\ v11' = v11
    BY <1>2, <1>5 DEF Map!AddRow, ds
  <2>2. MapTyped'
    BY <1>1, <1>2, <1>3, <2>1 DEF MapTyped
  <2> QED BY <1>1, <1>4, <1>5, <2>1, <2>2 DEF MapStage
<1>6. CASE ds # <<>>
  <2>1. pc' = pc /\ v10' = Tail(v10) /\ v11' = Append(v11, row)
    BY <1>2, <1>6 DEF Map!AddRow, ds
  <2>2. MapTyped'
    BY <1>1, <1>2, <1>3, <2>1 DEF MapTyped
  <2>3. ExactRows
    BY <1>1 DEF MapStage
  <2>4. Len(v11) \in Nat /\ v11 = [i \in 1..Len(v11) |-> v11[i]]
        /\ \A i \in 1..Len(v11) : Map!Exact(v11[i].shown, v11[i])
    BY <2>3 DEF ExactRows
  <2> HIDE DEF row
  <2>5. Extends(v11', v11, row)
    <3> DEFINE S == {v11[i] : i \in 1..Len(v11)} \cup {row}
    <3>1. v11 \in Seq(S) /\ row \in S
      BY <2>4
    <3> HIDE DEF S
    <3> QED BY <2>1, <3>1, Appended
  <2>6. Len(v11') = Len(v11) + 1
    BY <2>4, <2>5 DEF Extends
  <2>7. \A i \in 1..Len(v11') : Map!Exact(v11'[i].shown, v11'[i])
    <3> SUFFICES ASSUME NEW i \in 1..Len(v11') PROVE Map!Exact(v11'[i].shown, v11'[i])
      OBVIOUS
    <3>1. i \in 1..Len(v11) \/ i = Len(v11) + 1
      BY <2>4, <2>6
    <3>2. row.shown = ds
      BY DEF row
    <3> QED BY <1>4, <2>4, <2>5, <3>1, <3>2, Zenon DEF Extends
  <2>8. ExactRows'
    <3>1. \A x, y : Map!Exact(x, y)' <=> Map!Exact(x, y)
      BY <1>1, MapSame
    <3>2. Len(v11') \in Nat /\ v11' = [i \in 1..Len(v11') |-> v11'[i]]
      BY <2>4, <2>5, <2>6 DEF Extends
    <3> QED BY <2>7, <3>1, <3>2, Zenon DEF ExactRows
  <2> QED BY <1>1, <2>1, <2>2, <2>8 DEF MapStage
<1> QED BY <1>5, <1>6

\* A row beside the whole map has pixels, unless the file ends before the member.
LEMMA ShareEmpty ==
  ASSUME MapTyped, v9 = Map!densities(0, v2, v8),
         NEW r, r.start \in Nat, r.size \in Nat, Map!ShareOf(r) = <<>>
  PROVE  r.start >= v2
<1> DEFINE a == r.start \div v8
           e == (r.start + r.size) \div v8
           b == IF e > a THEN e ELSE a + 1
           m == Len(v9)
           c == IF b < m THEN b ELSE m
<1>1. v2 \in Nat /\ v8 \in Nat \ {0} /\ r.start + r.size \in Nat
  BY DEF MapTyped
<1>2. a \in Nat /\ e \in Nat /\ a * v8 \in Nat /\ a * v8 <= r.start
  BY <1>1, Neighbours
<1>3. m \in Nat /\ v2 <= m * v8 /\ v9 \in Seq(Range(v9))
  <2>1. Map!Up(v2, v8) \in Nat /\ v2 <= Map!Up(v2, v8) * v8
    BY <1>1, UpBounds
  <2>2. m = Map!Up(v2, v8) /\ v9 \in Seq(Range(v9))
    BY <1>1, DensitiesCount
  <2> QED BY <2>1, <2>2
<1>4. SubSeq(v9, a + 1, c) = <<>>
  BY DEF Map!ShareOf, Map!SpanOf
<1> HIDE DEF m, a, e
<1>5. c < a + 1 /\ b >= a + 1 /\ b \in Nat /\ c \in Nat
  <2>1. b >= a + 1 /\ b \in Nat /\ c \in Nat
    BY <1>2, <1>3
  <2> HIDE DEF b, c
  <2>2. c < a + 1
    <3> DEFINE S == Range(v9)
    <3>1. v9 \in Seq(S) /\ a + 1 \in Nat
      BY <1>2, <1>3
    <3> HIDE DEF S
    <3>2. Len(SubSeq(v9, a + 1, c)) = IF a + 1 <= c THEN c - (a + 1) + 1 ELSE 0
      BY <2>1, <3>1
    <3>3. Len(SubSeq(v9, a + 1, c)) = 0
      BY <1>4
    <3>4. ~(a + 1 <= c)
      BY <2>1, <3>1, <3>2, <3>3
    <3> QED BY <1>2, <2>1, <3>4
  <2> QED BY <2>1, <2>2
<1>6. m <= a
  BY <1>2, <1>3, <1>5
<1>7. m * v8 <= a * v8 /\ m * v8 \in Nat /\ a * v8 \in Nat
  BY <1>1, <1>2, <1>3, <1>6, Multiples
<1> HIDE DEF b, c
<1> QED BY <1>1, <1>2, <1>3, <1>7

\* A row is added beside the whole map.
LEMMA MapRowStep ==
  ASSUME script = "insert_map", MapInv, Map!MapRow
  PROVE  MapTyped' /\ MapStage'
<1>1. MapTyped /\ MapStage /\ pc = "map" /\ v10 # <<>>
      /\ UNCHANGED <<v1, v2, v3, v4, v5, v6, v7, v8, v9>>
  BY DEF MapInv, Map!MapRow
<1> DEFINE r == Head(v10)
<1>2. Map!AddRow(r, Map!ShareOf(r))
  BY DEF Map!MapRow
<1>3. r.start \in Nat /\ r.size \in Nat /\ Tail(v10) \in Seq(Spans)
  BY <1>1, FirstRegion DEF MapTyped
<1>4. v9 = Map!densities(0, v2, v8) /\ (v2 = 0 => v10 = <<[start |-> 0, size |-> 0]>>)
  BY <1>1 DEF MapStage
<1>5. v9 = <<>> <=> v2 = 0
  <2>1. v2 \in Nat /\ v8 \in Nat \ {0} /\ 0 \in Nat
    BY <1>1 DEF MapTyped
  <2> QED BY <1>4, <2>1, DensitiesCount
<1>6. CASE Map!ShareOf(r) = <<>>
  <2>1. pc' = "raised" /\ v10' = v10 /\ v11' = v11
    BY <1>2, <1>6 DEF Map!AddRow
  <2>2. MapTyped'
    BY <1>1, <2>1 DEF MapTyped
  <2>3. IF v9 = <<>> THEN r.size = 0 ELSE r.start >= v2
    <3>1. v9 = <<>> => r.size = 0
      BY <1>4, <1>5
    <3> HIDE DEF r
    <3>2. r.start >= v2
      BY <1>1, <1>3, <1>4, <1>6, ShareEmpty
    <3> QED BY <3>1, <3>2
  <2> QED BY <1>1, <2>1, <2>2, <2>3 DEF MapStage
<1>7. CASE Map!ShareOf(r) # <<>>
  <2>1. pc' = pc /\ v10' = Tail(v10)
    BY <1>2, <1>7 DEF Map!AddRow
  <2>2. MapTyped'
    BY <1>1, <1>3, <2>1 DEF MapTyped
  <2>3. v2 # 0
    <3> SUFFICES ASSUME v2 = 0 PROVE Map!ShareOf(r) = <<>>
      BY <1>7
    <3>1. r.start = 0 /\ r.size = 0 /\ v9 = <<>> /\ v8 \in Nat \ {0}
      BY <1>1, <1>4, <1>5 DEF MapTyped
    <3> HIDE DEF r
    <3>2. 0 \div v8 = 0
      BY <3>1
    <3>3. r.start \div v8 = 0 /\ (r.start + r.size) \div v8 = 0
      BY <3>1, <3>2
    <3>4. Map!ShareOf(r) = SubSeq(v9, 1, 0)
      BY <3>1, <3>3 DEF Map!ShareOf, Map!SpanOf
    <3> QED BY <3>1, <3>4
  <2>4. Map!densities(0, v2, v8)' = Map!densities(0, v2, v8)
    BY <1>1, MapSame
  <2> QED BY <1>1, <1>4, <2>1, <2>2, <2>3, <2>4 DEF MapStage
<1> QED BY <1>6, <1>7

\* Every step of insert_map.py keeps MapInv.
LEMMA MapInvStep == MapInv /\ [Next]_vars => MapInv'
<1> SUFFICES ASSUME MapInv, [Next]_vars, script' = "insert_map" PROVE MapTyped' /\ MapStage'
  BY DEF MapInv
<1>1. script = "insert_map" /\ script' = script
  BY DEF Next, vars
<1>2. MapTyped /\ MapStage
  BY <1>1 DEF MapInv
<1>3. CASE Map!Written
  <2>1. UNCHANGED <<v1, v2, v3, v4, v5, v6, v7, v8, v9, v10, v11>> /\ pc' = "written"
        /\ (pc = "blocks" \/ (pc = "map" /\ v10 = <<>>))
    BY <1>3 DEF Map!Written
  <2>2. MapTyped'
    BY <1>2, <2>1 DEF MapTyped
  <2>3. pc = "map" => v9 # <<>>
    <3> SUFFICES ASSUME pc = "map" PROVE v9 # <<>>
      OBVIOUS
    <3>1. v2 # 0 /\ v9 = Map!densities(0, v2, v8)
      BY <1>2, <2>1 DEF MapStage
    <3>2. v2 \in Nat /\ v8 \in Nat \ {0} /\ 0 \in Nat
      BY <1>2 DEF MapTyped
    <3> QED BY <3>1, <3>2, DensitiesCount
  <2> QED BY <1>2, <2>1, <2>2, <2>3, MapSame DEF MapStage
<1>4. CASE UNCHANGED vars
  <2>1. UNCHANGED <<pc, v1, v2, v3, v4, v5, v6, v7, v8, v9, v10, v11>>
    BY <1>4 DEF vars
  <2>2. MapTyped'
    BY <1>2, <2>1 DEF MapTyped
  <2>3. Map!densities(0, v2, v8)' = Map!densities(0, v2, v8)
    BY <2>1, MapSame
  <2> QED BY <1>2, <2>1, <2>2, <2>3, MapSame DEF MapStage
<1>5. CASE Map!Member \/ Map!StartRender \/ Map!Block \/ Map!MapRow
  BY <1>1, <1>5, MemberStep, StartRenderStep, BlockStep, MapRowStep
<1> QED BY <1>1, <1>3, <1>4, <1>5 DEF Next, Map!Next

\* A row beside the whole map takes in the pixels that lie in its member.
LEMMA WholePixels ==
  ASSUME MapTyped, NEW r \in Spans, NEW q \in Nat,
         q * v8 >= r.start, (q + 1) * v8 <= r.start + r.size
  PROVE  q \in Map!SpanOf(r)[1]..Map!SpanOf(r)[2] - 1
<1> DEFINE a == r.start \div v8
           s == r.start + r.size
           e == s \div v8
<1>1. r.start \in Nat /\ r.size \in Nat /\ s \in Nat /\ v8 \in Nat \ {0}
  BY DEF MapTyped, Spans
<1>2. /\ a \in Nat /\ a * v8 \in Nat /\ a * v8 <= r.start
      /\ e \in Nat /\ (e + 1) * v8 \in Nat /\ s < (e + 1) * v8
  BY <1>1, Neighbours
<1> HIDE DEF a, e
<1>3. a <= q
  <2> SUFFICES ASSUME a > q PROVE FALSE
    BY <1>2
  <2>1. q + 1 <= a
    BY <1>2
  <2>2. (q + 1) * v8 <= a * v8 /\ q * v8 \in Nat /\ (q + 1) * v8 = q * v8 + v8
    BY <1>1, <1>2, <2>1, Multiples
  <2> QED BY <1>1, <1>2, <2>2
<1>4. q < e
  <2> SUFFICES ASSUME e <= q PROVE FALSE
    BY <1>2
  <2>1. (e + 1) * v8 <= (q + 1) * v8 /\ (q + 1) * v8 \in Nat
    BY <1>1, <1>2, Multiples
  <2>2. (q + 1) * v8 <= s
    OBVIOUS
  <2> HIDE DEF s
  <2> QED BY ONLY <1>1, <1>2, <2>1, <2>2
<1>5. Map!SpanOf(r) = <<a, IF e > a THEN e ELSE a + 1>>
  BY DEF Map!SpanOf, a, e
<1> HIDE DEF s
<1> QED BY <1>2, <1>3, <1>4, <1>5

(* insert_map.py counts every marked position in one pixel, whatever the     *)
(* alignment of members and pixels, and divides by zero only for a member    *)
(* that is empty or that the file ends before: for any archive, bits and      *)
(* scales.                                                                  *)
THEOREM MapAddsUpHolds == Spec => []MapAddsUp
<1>1. Init => MapInv
  <2> SUFFICES ASSUME Map!Init, script = "insert_map" PROVE MapTyped /\ MapStage
    BY DEF Init, MapInv
  <2>1. /\ v1 \in Archives /\ v2 \in Lengths /\ v5 = 0 /\ v6 = 1 /\ v7 = <<>> /\ v8 \in Pixels
        /\ v9 = <<>> /\ v10 = <<>> /\ v11 = <<>> /\ pc = "members"
        /\ \E b \in Inserted : v3 = b \cap 0..v2 - 1
    BY DEF Map!Init
  <2>2. v2 \in Nat
    BY <2>1, MapAssumption
  <2>3. IsFiniteSet(v3) /\ v3 \subseteq Int
    <3>1. v3 \in SUBSET (0..v2 - 1) /\ v2 - 1 \in Int
      BY <2>1, <2>2
    <3>2. 0 \in Int /\ IsFiniteSet(0..v2 - 1)
      BY <3>1, FS_Interval
    <3>3. IsFiniteSet(v3)
      BY <3>1, <3>2, FS_Subset
    <3>4. v3 \subseteq Int
      BY <3>1
    <3> QED BY <3>3, <3>4
  <2>4. MapTyped
    BY <2>1, <2>2, <2>3, MapAssumption DEF MapTyped
  <2>5. ExactRows
    BY <2>1 DEF ExactRows
  <2> QED BY <2>1, <2>4, <2>5 DEF MapStage
<1>2. MapInv => MapAddsUp
  <2> SUFFICES ASSUME MapTyped, MapStage PROVE Map!MapAddsUp
    BY DEF MapInv, MapAddsUp
  <2>1. ASSUME pc = "map" PROVE Map!Exact(v9, [start |-> 0, size |-> v2])
    <3> DEFINE r == [start |-> 0, size |-> v2]
    <3>1. v2 \in Nat /\ v8 \in Nat \ {0} /\ 0 \in Nat /\ r.start = 0 /\ r.size = v2
      BY DEF MapTyped
    <3>2. v9 = Map!densities(0, v2, v8) /\ IsFiniteSet(v3) /\ v3 \subseteq Int
      BY <2>1 DEF MapTyped, MapStage
    <3> HIDE DEF r
    <3>3. Map!Exact(v9, r)
      BY <3>1, <3>2, DensitiesExact, MapAssumption
    <3> QED BY <3>3 DEF r
  <2>2. ASSUME pc \in {"blocks", "written"}, v9 = <<>>, NEW i \in DOMAIN v11
        PROVE  Map!Exact(v11[i].shown, v11[i])
    <3>1. ExactRows
      BY <2>2 DEF MapStage
    <3> QED BY <3>1 DEF ExactRows
  <2>3. ASSUME pc = "map", NEW r \in Map!ToSet(v7), NEW q \in 0..Len(v9) - 1,
               q * v8 >= r.start, (q + 1) * v8 <= r.start + r.size
        PROVE  q \in Map!SpanOf(r)[1]..Map!SpanOf(r)[2] - 1
    <3>1. r \in Spans
      BY MapCopies DEF MapTyped
    <3>2. q \in Nat
      <4>1. v2 \in Nat /\ v8 \in Nat \ {0} /\ 0 \in Nat /\ v9 = Map!densities(0, v2, v8)
        BY <2>3 DEF MapTyped, MapStage
      <4>2. Len(v9) \in Nat
        BY <4>1, DensitiesCount, UpBounds
      <4> QED BY <2>3, <4>2
    <3> QED BY <2>3, <3>1, <3>2, WholePixels
  <2>4. pc = "raised" => IF v9 = <<>> THEN Head(v10).size = 0 ELSE Head(v10).start >= v2
    BY DEF MapStage
  <2> QED BY <2>1, <2>2, <2>3, <2>4 DEF Map!MapAddsUp
<1> QED BY <1>1, <1>2, MapInvStep, PTL DEF Spec

----------------------------------------------------------------------------
(* profile_corpus.py: what the parse of a file accounts for. *)

\* GreedyParse adds, and takes the last position, as this module does.
LEMMA ProfileCopies ==
  /\ \A f : Profile!Total(f) = SumFunctionOnSet(f, DOMAIN f)
  /\ \A S : Profile!Max(S) = Max(S)
<1>1. \A f, S : Profile!SumFunctionOnSet(f, S) = SumFunctionOnSet(f, S)
  BY Zenon DEF Profile!SumFunctionOnSet, SumFunctionOnSet, Profile!FoldFunctionOnSet,
               FoldFunctionOnSet, Profile!MapThenFoldSet, MapThenFoldSet
<1>2. \A f : Profile!Total(f) = SumFunctionOnSet(f, DOMAIN f)
  BY <1>1 DEF Profile!Total, Profile!SumFunction
<1>3. \A S : Profile!Max(S) = Max(S)
  BY Zenon DEF Profile!Max, Max
<1> QED BY <1>2, <1>3

\* The bars of a row: each starts where the one before it ends, as what is left out
\* is zero.
LEMMA StackedFills ==
  ASSUME NEW n \in Nat, NEW parts, DOMAIN parts = 1..n, \A i \in 1..n : parts[i] \in Nat
  PROVE  Profile!Fills(Profile!Stacked(parts), SumFunctionOnSet(parts, 1..n))
<1> DEFINE row == Profile!Stacked(parts)
           Sum(k) == SumFunctionOnSet(parts, 1..k)
<1>1. DOMAIN row = {j \in 1..n : parts[j] # 0}
  BY DEF Profile!Stacked
<1>2. ASSUME NEW i \in DOMAIN row
      PROVE  i \in 1..n /\ i - 1 \in Nat /\ row[i][1] = Sum(i - 1) /\ row[i][2] = parts[i]
  <2>1. i \in 1..n /\ i - 1 \in Nat
    BY <1>1
  <2> DEFINE first == [j \in 1..i - 1 |-> parts[j]]
  <2>2. SumFunctionOnSet(first, 1..i - 1) = Sum(i - 1)
    <3>1. IsFiniteSet(1..i - 1) /\ \A x \in 1..i - 1 : first[x] = parts[x]
      BY <2>1, FS_Interval
    <3> HIDE DEF first
    <3> QED BY <3>1, SumSame
  <2>3. row[i] = <<Profile!Total(first), parts[i]>> /\ DOMAIN first = 1..i - 1
    BY <1>1, <2>1 DEF Profile!Stacked
  <2> HIDE DEF first, row
  <2> QED BY <2>1, <2>2, <2>3, ProfileCopies
<1>3. ASSUME NEW a \in 0..n, NEW b \in 0..n, a <= b, \A j \in DOMAIN row : ~(a < j /\ j <= b)
      PROVE  Sum(b) = Sum(a)
  <2>1. \A x \in a + 1..b : parts[x] = 0
    BY <1>1, <1>3
  <2>2. a \in Nat /\ b \in Nat /\ \A x \in 1..b : parts[x] \in Int
    OBVIOUS
  <2> HIDE DEF row
  <2> QED BY <1>3, <2>1, <2>2, SumGap
<1>4. ASSUME NEW i \in 1..n PROVE Sum(i) = Sum(i - 1) + parts[i]
  <2>1. i - 1 \in Nat /\ (i - 1) + 1 = i /\ \A x \in 1..i : parts[x] \in Int
    OBVIOUS
  <2> HIDE DEF row
  <2> QED BY <2>1, SumNext
<1>5. Sum(0) = 0
  <2>1. 1..0 = {}
    OBVIOUS
  <2> QED BY <2>1, SumEmpty
<1> SUFFICES ASSUME NEW i \in DOMAIN row
             PROVE  /\ (\A j \in DOMAIN row : j >= i) => row[i][1] = 0
                    /\ \A j \in DOMAIN row :
                         j > i /\ DOMAIN row \cap i + 1..j - 1 = {} => row[j][1] = row[i][1] + row[i][2]
                    /\ (\A j \in DOMAIN row : j <= i) => row[i][1] + row[i][2] = Sum(n)
  BY DEF Profile!Fills
<1> HIDE DEF row, Sum
<1>6. ASSUME \A j \in DOMAIN row : j >= i PROVE row[i][1] = 0
  <2>1. i - 1 \in 0..n /\ 0 \in 0..n /\ 0 <= i - 1
    BY <1>2
  <2>2. \A j \in DOMAIN row : ~(0 < j /\ j <= i - 1)
    BY <1>2, <1>6
  <2>3. Sum(i - 1) = Sum(0)
    BY <1>3, <2>1, <2>2
  <2> QED BY <1>2, <1>5, <2>3
<1>7. ASSUME NEW j \in DOMAIN row, j > i, DOMAIN row \cap i + 1..j - 1 = {}
      PROVE  row[j][1] = row[i][1] + row[i][2]
  <2>1. i \in 0..n /\ j - 1 \in 0..n /\ i <= j - 1
    BY <1>2, <1>7
  <2>2. \A k \in DOMAIN row : ~(i < k /\ k <= j - 1)
    BY <1>2, <1>7
  <2>3. Sum(j - 1) = Sum(i)
    BY <1>3, <2>1, <2>2
  <2> QED BY <1>2, <1>4, <2>3
<1>8. ASSUME \A j \in DOMAIN row : j <= i PROVE row[i][1] + row[i][2] = Sum(n)
  <2>1. i \in 0..n /\ n \in 0..n /\ i <= n
    BY <1>2
  <2>2. \A k \in DOMAIN row : ~(i < k /\ k <= n)
    BY <1>2, <1>8
  <2>3. Sum(n) = Sum(i)
    BY <1>3, <2>1, <2>2
  <2> QED BY <1>2, <1>4, <2>3
<1> QED BY <1>6, <1>7, <1>8

----------------------------------------------------------------------------
\* Ranges of a file of n bytes: the whole of it, or apart and of the same length.
Ranges(s, n) ==
  /\ s \in Seq(Nat \X Nat) /\ Len(s) >= 1
  /\ \A i \in 1..Len(s) : s[i][1] < s[i][2] /\ s[i][2] <= n
  /\ \A i, j \in 1..Len(s) : i < j => s[i][2] <= s[j][1]
  /\ \/ Len(s) = 1 /\ s[1] = <<0, n>>
     \/ n > SCAN /\ \A i \in 1..Len(s) : s[i][2] = s[i][1] + (WINDOW + SCAN)

LEMMA SampleRanges == ASSUME NEW n \in Nat \ {0} PROVE Ranges(Profile!sample_ranges(n), n)
<1> DEFINE s == Profile!sample_ranges(n)
           w == WINDOW + SCAN
           step == n \div BLOCKS
<1>1. w \in Nat \ {0} /\ BLOCKS \in Nat \ {0} /\ SCAN \in Nat /\ SCAN <= w
  BY ParseAssumption
<1>2. CASE n <= w * BLOCKS
  <2>1. s = <<<<0, n>>>>
    BY <1>2 DEF Profile!sample_ranges
  <2> HIDE DEF s
  <2>2. s \in Seq(Nat \X Nat) /\ Len(s) = 1 /\ s[1] = <<0, n>>
    BY <2>1
  <2>3. \A i \in 1..Len(s) : i = 1
    BY <2>2
  <2> QED BY <2>2, <2>3 DEF Ranges, s
<1>3. CASE ~(n <= w * BLOCKS)
  <2>1. s = [i \in 1..BLOCKS |-> <<(i - 1) * step, (i - 1) * step + WINDOW + SCAN>>]
    BY <1>3 DEF Profile!sample_ranges
  <2>2. /\ step \in Nat /\ step * BLOCKS <= n /\ step * BLOCKS \in Nat
        /\ n < (step + 1) * BLOCKS /\ (step + 1) * BLOCKS \in Nat
    BY <1>1, Neighbours
  <2> HIDE DEF step
  <2>3. w * BLOCKS \in Nat /\ w * BLOCKS < n
    BY <1>1, <1>3
  <2>4. w <= step
    <3> SUFFICES ASSUME step + 1 <= w PROVE FALSE
      BY <1>1, <2>2
    <3>1. (step + 1) * BLOCKS <= w * BLOCKS
      BY <1>1, <2>2, Multiples
    <3> HIDE DEF w
    <3> QED BY <2>2, <2>3, <3>1
  <2>5. SCAN < n
    <3>1. 1 * w <= BLOCKS * w /\ 1 * w = w
      BY <1>1, Multiples
    <3>2. BLOCKS * w = w * BLOCKS
      BY <1>1
    <3> HIDE DEF w
    <3> QED BY <1>1, <2>3, <3>1, <3>2
  <2>6. ASSUME NEW i \in 1..BLOCKS
        PROVE  /\ s[i] = <<(i - 1) * step, (i - 1) * step + w>> /\ (i - 1) * step \in Nat
               /\ (i - 1) * step + w <= i * step /\ i * step \in Nat
    <3>1. i - 1 \in Nat /\ (i - 1) + 1 = i /\ i \in Nat
      BY <1>1
    <3>2. (i - 1) * step \in Nat /\ i * step = (i - 1) * step + step
      BY <2>2, <3>1, Multiples
    <3>3. s[i] = <<(i - 1) * step, (i - 1) * step + w>>
      <4>1. (i - 1) * step + WINDOW + SCAN = (i - 1) * step + w
        BY <3>2, ParseAssumption
      <4> HIDE DEF w, s
      <4> QED BY <2>1, <4>1
    <3> HIDE DEF w, s
    <3> QED BY <1>1, <2>2, <2>4, <3>1, <3>2, <3>3
  <2>7. ASSUME NEW i \in 1..BLOCKS, NEW j \in 1..BLOCKS, i < j PROVE s[i][2] <= s[j][1]
    <3>1. i * step <= (j - 1) * step
      <4>1. i \in Nat /\ j - 1 \in Nat /\ i <= j - 1
        BY <2>7
      <4> QED BY <2>2, <4>1, Multiples
    <3> HIDE DEF s, w
    <3> QED BY <1>1, <2>6, <3>1
  <2>8. ASSUME NEW i \in 1..BLOCKS PROVE s[i][2] <= n
    <3>1. i * step <= BLOCKS * step /\ BLOCKS * step = step * BLOCKS
      <4>1. i \in Nat /\ BLOCKS \in Nat /\ i <= BLOCKS
        BY <1>1
      <4>2. i * step <= BLOCKS * step
        BY <2>2, <4>1, Multiples
      <4> QED BY <1>1, <2>2, <4>2
    <3> HIDE DEF s, w
    <3> QED BY <1>1, <2>2, <2>6, <3>1
  <2>9. s \in Seq(Nat \X Nat) /\ Len(s) = BLOCKS
    <3>1. ASSUME NEW i \in 1..BLOCKS PROVE s[i] \in Nat \X Nat
      <4> DEFINE x == (i - 1) * step
      <4>1. s[i] = <<x, x + w>> /\ x \in Nat
        BY <2>6
      <4> HIDE DEF s, w, x
      <4>2. x + w \in Nat
        BY <1>1, <4>1
      <4> QED BY <4>1, <4>2
    <3>2. DOMAIN s = 1..BLOCKS /\ s = [i \in 1..BLOCKS |-> s[i]]
      BY <2>1
    <3> HIDE DEF s
    <3> QED BY <1>1, <3>1, <3>2
  <2>10. \A i \in 1..BLOCKS : s[i][1] < s[i][2] /\ s[i][2] = s[i][1] + w
    <3> HIDE DEF s, w
    <3> QED BY <1>1, <2>6
  <2> HIDE DEF s
  <2> QED BY <1>1, <2>5, <2>7, <2>8, <2>9, <2>10 DEF Ranges, s
<1> QED BY <1>2, <1>3

\* The bytes that are parsed of a range.
Quota(s, n) ==
  [i \in 1..Len(s) |-> s[i][2] - IF Len(s) = 1 /\ n <= SCAN THEN 0 ELSE s[i][1] + WINDOW]

\* The scan starts inside its range, behind a history with whole keys, and covers
\* the quota.
LEMMA ScanStart ==
  ASSUME NEW n \in Nat, NEW s, Ranges(s, n), NEW k \in 1..Len(s), v2 # <<>>, Head(v2) = s[k]
  PROVE  /\ Profile!Start = s[k][1] /\ Profile!End = s[k][2]
         /\ Profile!Start \in Nat /\ Profile!End \in Nat /\ Profile!End <= n
         /\ Profile!ScanFrom \in Nat /\ Profile!Start <= Profile!ScanFrom /\ Profile!ScanFrom < Profile!End
         /\ Profile!End - Profile!ScanFrom = Quota(s, n)[k]
         /\ \A p \in Profile!Start..Profile!ScanFrom - 1 : p + MIN_MATCH <= Profile!End
<1> DEFINE a == Profile!Start
           e == Profile!End
           f == Profile!ScanFrom
           q == Quota(s, n)[k]
<1>1. a = s[k][1] /\ e = s[k][2]
  BY DEF Profile!Start, Profile!End
<1>2. s[k] \in Nat \X Nat /\ a < e /\ e <= n
  BY <1>1, ElementOfSeq DEF Ranges
<1>3. a \in Nat /\ e \in Nat
  BY <1>1, <1>2
<1>4. f = (IF e - a > SCAN THEN a + (IF WINDOW < e - a - 1 THEN WINDOW ELSE e - a - 1) ELSE a)
  BY DEF Profile!ScanFrom, Profile!Smaller
<1>5. q = e - (IF Len(s) = 1 /\ n <= SCAN THEN 0 ELSE a + WINDOW)
  BY <1>1 DEF Quota
<1>6. \/ Len(s) = 1 /\ a = 0 /\ e = n
      \/ n > SCAN /\ e = a + (WINDOW + SCAN)
  BY <1>1 DEF Ranges
<1>7. WINDOW \in Nat \ {0} /\ SCAN \in Nat \ {0} /\ MIN_MATCH \in Nat \ {0}
      /\ WINDOW <= SCAN /\ WINDOW + MIN_MATCH <= SCAN + 2
  BY ParseAssumption
<1> HIDE DEF a, e, f, q
<1>8. f = IF e - a > SCAN THEN a + WINDOW ELSE a
  BY <1>2, <1>3, <1>4, <1>7
<1>9. f \in Nat /\ a <= f /\ f < e
  BY <1>2, <1>3, <1>7, <1>8
<1>10. e - f = q
  BY <1>3, <1>5, <1>6, <1>7, <1>8
<1>11. \A p \in a..f - 1 : p + MIN_MATCH <= e
  BY <1>3, <1>7, <1>8
<1> QED BY <1>1, <1>2, <1>3, <1>9, <1>10, <1>11 DEF a, e, f, q

\* Positions with the same key hold the same bytes there.
LEMMA SameKey ==
  ASSUME Len(v1) \in Nat, DOMAIN v1 = 1..Len(v1), NEW c \in Nat, NEW p \in Nat,
         c + MIN_MATCH <= Len(v1), p + MIN_MATCH <= Len(v1),
         Profile!KeyAt(c) = Profile!KeyAt(p), NEW j \in 0..MIN_MATCH - 1
  PROVE  Profile!Byte(c + j) = Profile!Byte(p + j)
<1>1. MIN_MATCH \in Nat /\ j + 1 \in 1..MIN_MATCH
  BY ParseAssumption
<1>2. ASSUME NEW q \in Nat, q + MIN_MATCH <= Len(v1)
      PROVE  SubSeq(v1, q + 1, q + MIN_MATCH)[j + 1] = v1[(q + j) + 1]
  <2>1. 1..q + MIN_MATCH - (q + 1) + 1 = 1..MIN_MATCH /\ (q + 1) + (j + 1) - 1 = (q + j) + 1
    BY <1>1
  <2>2. SubSeq(v1, q + 1, q + MIN_MATCH) = [i \in 1..MIN_MATCH |-> v1[(q + 1) + i - 1]]
    BY <1>1, <1>2, <2>1
  <2> QED BY <1>1, <2>1, <2>2
<1>3. SubSeq(v1, c + 1, c + MIN_MATCH) = SubSeq(v1, p + 1, p + MIN_MATCH)
  BY DEF Profile!KeyAt
<1>4. v1[(c + j) + 1] = v1[(p + j) + 1]
  <2>1. SubSeq(v1, c + 1, c + MIN_MATCH)[j + 1] = v1[(c + j) + 1]
    BY <1>2
  <2>2. SubSeq(v1, p + 1, p + MIN_MATCH)[j + 1] = v1[(p + j) + 1]
    BY <1>2
  <2> QED BY ONLY <1>3, <2>1, <2>2
<1> QED BY <1>4 DEF Profile!Byte

\* A match is extended from its key as far as it goes: there is a first byte that
\* differs, or none up to the limit.
LEMMA LengthAgrees ==
  ASSUME NEW c \in Nat, NEW p \in Nat, Profile!End \in Nat, p + MIN_MATCH <= Profile!End
  PROVE  LET l == Profile!Length(c, p)
         IN  /\ l \in MIN_MATCH..MaxLength /\ p + l <= Profile!End
             /\ \A i \in MIN_MATCH..l - 1 : Profile!Byte(c + i) = Profile!Byte(p + i)
<1> DEFINE limit == Profile!Smaller(Profile!End - p, MaxLength)
           agrees(l) == \A i \in MIN_MATCH..l - 1 : Profile!Byte(c + i) = Profile!Byte(p + i)
           B == {k \in Nat : MIN_MATCH + k = limit \/ ~agrees(MIN_MATCH + k + 1)}
           P(l) == agrees(l) /\ (l = limit \/ ~agrees(l + 1))
<1>1. MIN_MATCH \in Nat /\ MaxLength \in Nat /\ MIN_MATCH <= MaxLength
  BY ParseAssumption
<1>2. limit \in Nat /\ MIN_MATCH <= limit /\ limit <= MaxLength /\ p + limit <= Profile!End
  BY <1>1 DEF Profile!Smaller
<1>3. \E l \in MIN_MATCH..limit : P(l)
  <2>1. limit - MIN_MATCH \in B
    BY <1>1, <1>2
  <2>2. PICK k \in B : \A y \in B : k <= y
    <3>1. B \in SUBSET Nat /\ B # {}
      BY <2>1
    <3> HIDE DEF B
    <3> QED BY <3>1, NatMinimum
  <2>3. k \in Nat /\ MIN_MATCH + k \in MIN_MATCH..limit
    BY <1>1, <1>2, <2>1, <2>2
  <2>4. agrees(MIN_MATCH + k)
    <3>1. CASE k = 0
      BY <1>1, <3>1
    <3>2. CASE k # 0
      <4>1. k - 1 \in Nat /\ ~(k <= k - 1) /\ MIN_MATCH + (k - 1) + 1 = MIN_MATCH + k
        BY <1>1, <2>3, <3>2
      <4>2. k - 1 \notin B
        BY <2>2, <4>1
      <4> HIDE DEF agrees, limit
      <4> QED BY <4>1, <4>2
    <3> QED BY <3>1, <3>2
  <2>5. MIN_MATCH + k = limit \/ ~agrees(MIN_MATCH + k + 1)
    BY <2>2
  <2> HIDE DEF agrees, limit, B
  <2> QED BY <2>3, <2>4, <2>5
<1>4. Profile!Length(c, p) = CHOOSE l \in MIN_MATCH..limit : P(l)
  BY DEF Profile!Length
<1> HIDE DEF P
<1>5. Profile!Length(c, p) \in MIN_MATCH..limit /\ P(Profile!Length(c, p))
  BY <1>3, <1>4
<1> HIDE DEF limit
<1>6. Profile!Length(c, p) \in MIN_MATCH..MaxLength /\ p + Profile!Length(c, p) <= Profile!End
  BY <1>1, <1>2, <1>5
<1> QED BY <1>5, <1>6 DEF P

\* A length is counted once, in the first bucket that takes it.
LEMMA CountedOnce ==
  ASSUME NEW caps \in Seq(Nat) \ {<<>>}, NEW counter \in [DOMAIN caps -> Nat],
         NEW v \in Nat, v <= caps[Len(caps)], NEW l \in Nat
  PROVE  /\ Profile!Counted(counter, caps, v, l) \in [DOMAIN caps -> Nat]
         /\ SumFunctionOnSet(Profile!Counted(counter, caps, v, l), DOMAIN caps) =
              SumFunctionOnSet(counter, DOMAIN caps) + l
         /\ SumFunctionOnSet(counter, DOMAIN caps) \in Int
<1> DEFINE n == Len(caps)
           B == {i \in Nat : i \in 1..n /\ v <= caps[i]}
<1>1. n \in Nat /\ n >= 1 /\ DOMAIN caps = 1..n
  OBVIOUS
<1>2. \A i \in 1..n : caps[i] \in Nat
  BY ElementOfSeq
<1>3. PICK a \in B : \A y \in B : a <= y
  <2>1. B \in SUBSET Nat /\ n \in B
    BY <1>1
  <2> HIDE DEF B
  <2> QED BY <2>1, NatMinimum
<1>4. a \in 1..n /\ v <= caps[a] /\ \A j \in 1..n : j < a => v > caps[j]
  <2>1. a \in 1..n /\ v <= caps[a]
    BY <1>3
  <2>2. ASSUME NEW j \in 1..n, j < a PROVE v > caps[j]
    <3>1. j \notin B
      BY <1>3, <2>1, <2>2
    <3> QED BY <1>1, <1>2, <3>1
  <2> QED BY <2>1, <2>2
<1> HIDE DEF n, B
<1>5. \A i \in 1..n : (v <= caps[i] /\ \A j \in 1..i - 1 : v > caps[j]) <=> i = a
  <2> TAKE i \in 1..n
  <2>1. CASE i = a
    BY <1>1, <1>4, <2>1
  <2>2. CASE i < a
    BY <1>1, <1>2, <1>4, <2>2
  <2>3. CASE a < i
    BY <1>1, <1>2, <1>4, <2>3
  <2> QED BY <1>1, <1>4, <2>1, <2>2, <2>3
<1> DEFINE g == Profile!Counted(counter, caps, v, l)
<1>6. g = [counter EXCEPT ![a] = counter[a] + l]
  <2>1. g = [i \in 1..n |-> counter[i] + IF v <= caps[i] /\ \A j \in 1..i - 1 : v > caps[j] THEN l ELSE 0]
    BY <1>1 DEF Profile!Counted
  <2>2. g = [i \in 1..n |-> counter[i] + IF i = a THEN l ELSE 0]
    BY <1>5, <2>1
  <2>3. \A i \in 1..n : counter[i] + 0 = counter[i]
    BY <1>1
  <2> HIDE DEF g
  <2> QED BY <1>1, <1>4, <2>2, <2>3
<1> HIDE DEF g
<1>7. counter[a] \in Nat /\ counter[a] + l \in Nat /\ a \in DOMAIN caps /\ IsFiniteSet(DOMAIN caps)
  <2>1. counter[a] \in Nat /\ a \in DOMAIN caps
    BY <1>1, <1>4
  <2>2. IsFiniteSet(1..n)
    BY <1>1, FS_Interval
  <2> QED BY <1>1, <2>1, <2>2
<1>8. g \in [DOMAIN caps -> Nat]
  BY <1>6, <1>7
<1>9. counter \in [DOMAIN caps -> Int]
  OBVIOUS
<1>10. SumFunction(g) = SumFunction(counter) - counter[a] + (counter[a] + l)
  <2> DEFINE S == DOMAIN caps
             w == counter[a] + l
  <2>1. IsFiniteSet(S) /\ a \in S /\ w \in Int /\ counter \in [S -> Int] /\ g = [counter EXCEPT ![a] = w]
    BY <1>6, <1>7, <1>9
  <2> HIDE DEF S, w
  <2>2. SumFunction([counter EXCEPT ![a] = w]) = SumFunction(counter) - counter[a] + w
    BY <2>1, SumExcept
  <2> QED BY <2>1, <2>2 DEF w
<1>11. SumFunctionOnSet(counter, DOMAIN caps) \in Int
  BY <1>7, <1>9, SumType
<1>12. SumFunction(g) = SumFunctionOnSet(g, DOMAIN caps) /\ SumFunction(counter) = SumFunctionOnSet(counter, DOMAIN caps)
  BY <1>8, <1>9 DEF SumFunction
<1> QED BY <1>7, <1>8, <1>10, <1>11, <1>12 DEF g

----------------------------------------------------------------------------
Sample == Profile!sample_ranges(Len(v1))

\* How many of its ranges have been parsed, and how much there was to parse in them.
Parsed  == Len(Sample) - Len(v2)
Due(k)  == SumFunctionOnSet(Quota(Sample, Len(v1)), 1..k)
Counts  == v5 + SumFunctionOnSet(v6, DOMAIN DistCaps)

\* A match is a copy inside of a range, of bytes not further back than the window.
CopyIn(m, i) ==
  /\ m[1] \in Nat /\ m[2] \in Nat /\ m[1] - m[2] \in 1..WINDOW
  /\ m[3] \in MIN_MATCH..MaxLength
  /\ Sample[i][1] <= m[2] /\ m[1] + m[3] <= Sample[i][2]
  /\ \A j \in 0..m[3] - 1 : Profile!Byte(m[1] + j) = Profile!Byte(m[2] + j)

\* The matches lie in the first k ranges and overlap none.
Copies(k) ==
  \A m \in v9 : /\ \E i \in 1..k : CopyIn(m, i)
                /\ \A o \in v9 : o[1] > m[1] => m[1] + m[3] <= o[1]

ParseTyped ==
  /\ v1 \in Files /\ Len(v1) \in Nat \ {0}
  /\ v5 \in Nat /\ v6 \in [DOMAIN DistCaps -> Nat] /\ v7 \in [DOMAIN LenCaps -> Nat]
  /\ SumFunctionOnSet(v6, DOMAIN DistCaps) = SumFunctionOnSet(v7, DOMAIN LenCaps)
  /\ v2 \in Seq(Nat \X Nat) /\ Len(v2) <= Len(Sample)
  /\ \A i \in 1..Len(v2) : v2[i] = Sample[Parsed + i]

\* The table leads from a key to where it was, in front of the position.
Headed(pos) ==
  \A key \in DOMAIN v4 :
    /\ v4[key] \in Nat /\ Profile!Start <= v4[key] /\ v4[key] < pos
    /\ v4[key] + MIN_MATCH <= Profile!End /\ Profile!KeyAt(v4[key]) = key

\* While a range is scanned: the table and the matches lie in front of the position;
\* and what was counted is what was passed.
Scanning ==
  /\ v2 # <<>> /\ v3 \in Nat /\ Profile!ScanFrom <= v3 /\ v3 <= Profile!End
  /\ Headed(v3) /\ Copies(Parsed + 1)
  /\ \A m \in v9 : m[1] + m[3] <= v3
  /\ Counts - (v3 - Profile!ScanFrom) \in Due(Parsed) - MIN_MATCH * Parsed..Due(Parsed)

BetweenRanges ==
  /\ Copies(Parsed)
  /\ Counts \in Due(Parsed) - MIN_MATCH * Parsed..Due(Parsed)

Drawn ==
  /\ v2 = <<>>
  /\ Profile!Fills(v8[1], Counts)
  /\ Profile!Fills(v8[2], SumFunctionOnSet(v7, DOMAIN LenCaps))

ParseInv ==
  script = "profile" =>
    /\ ParseTyped /\ pc \in {"range", "scan", "drawn"}
    /\ IF pc = "scan" THEN Scanning ELSE BetweenRanges
    /\ pc = "drawn" => Drawn

\* What is asked of the file does not change while it does not.
LEMMA ParseSame ==
  ASSUME v1' = v1
  PROVE  /\ Sample' = Sample /\ \A k : Due(k)' = Due(k)
         /\ \A p : Profile!Byte(p)' = Profile!Byte(p) /\ Profile!KeyAt(p)' = Profile!KeyAt(p)
         /\ \A m, i : CopyIn(m, i)' <=> CopyIn(m, i)
         /\ UNCHANGED v2 => /\ Parsed' = Parsed
                            /\ UNCHANGED <<Profile!Start, Profile!End, Profile!ScanFrom>>
         /\ UNCHANGED v9 => \A k : Copies(k)' <=> Copies(k)
<1>1. Sample' = Sample
  BY Zenon DEF Sample
<1>2. \A k : Due(k)' = Due(k)
  BY <1>1, Zenon DEF Due
<1>3. \A p : Profile!Byte(p)' = Profile!Byte(p) /\ Profile!KeyAt(p)' = Profile!KeyAt(p)
  BY DEF Profile!Byte, Profile!KeyAt
<1>4. \A m, i : CopyIn(m, i)' <=> CopyIn(m, i)
  BY <1>1, <1>3, Zenon DEF CopyIn
<1>5. ASSUME UNCHANGED v2
      PROVE  Parsed' = Parsed /\ UNCHANGED <<Profile!Start, Profile!End, Profile!ScanFrom>>
  <2>1. Parsed' = Parsed /\ UNCHANGED <<Profile!Start, Profile!End>>
    BY <1>1, <1>5 DEF Parsed, Profile!Start, Profile!End
  <2> QED BY <2>1 DEF Profile!ScanFrom
<1>6. ASSUME UNCHANGED v9, NEW k PROVE Copies(k)' <=> Copies(k)
  BY <1>4, <1>6, Zenon DEF Copies
<1> QED BY <1>1, <1>2, <1>3, <1>4, <1>5, <1>6

\* The range that is next, and where it lies.
LEMMA RangeNow ==
  ASSUME ParseTyped
  PROVE  /\ Ranges(Sample, Len(v1)) /\ Len(v1) \in Nat /\ DOMAIN v1 = 1..Len(v1) /\ Parsed \in Nat
         /\ v2 = <<>> => Parsed = Len(Sample)
         /\ v2 # <<>> =>
              /\ Parsed + 1 \in 1..Len(Sample) /\ Head(v2) = Sample[Parsed + 1]
              /\ Tail(v2) \in Seq(Nat \X Nat) /\ Len(Tail(v2)) <= Len(Sample)
              /\ Len(Sample) - Len(Tail(v2)) = Parsed + 1
              /\ \A i \in 1..Len(Tail(v2)) : Tail(v2)[i] = Sample[(Parsed + 1) + i]
<1>1. Len(v1) \in Nat \ {0} /\ DOMAIN v1 = 1..Len(v1)
  <2>1. v1 \in Seq(0..255) /\ Len(v1) \in Nat \ {0}
    BY ParseAssumption DEF ParseTyped
  <2> QED BY <2>1
<1>2. Ranges(Sample, Len(v1))
  BY <1>1, SampleRanges DEF Sample
<1> DEFINE S == Nat \X Nat
           n == Len(Sample)
           k == Parsed
           t == Tail(v2)
<1>3. n \in Nat /\ v2 \in Seq(S) /\ Len(v2) \in 0..n /\ k = n - Len(v2)
      /\ \A i \in 1..Len(v2) : v2[i] = Sample[k + i]
  BY <1>2 DEF Ranges, ParseTyped, Parsed
<1> HIDE DEF S, n, k
<1>4. k \in Nat /\ (v2 = <<>> => k = n)
  BY <1>3
<1>5. ASSUME v2 # <<>>
      PROVE  /\ k + 1 \in 1..n /\ Head(v2) = Sample[k + 1] /\ t \in Seq(S) /\ Len(t) <= n
             /\ n - Len(t) = k + 1 /\ \A i \in 1..Len(t) : t[i] = Sample[(k + 1) + i]
  <2>1. Len(v2) > 0 /\ Head(v2) = v2[1] /\ t \in Seq(S) /\ Len(t) = Len(v2) - 1
        /\ \A i \in 1..Len(t) : t[i] = v2[i + 1]
    BY <1>3, <1>5
  <2> HIDE DEF t
  <2>2. k + 1 \in 1..n /\ Head(v2) = Sample[k + 1] /\ Len(t) <= n /\ n - Len(t) = k + 1
    BY <1>3, <1>4, <2>1
  <2>3. \A i \in 1..Len(t) : t[i] = Sample[(k + 1) + i]
    <3> TAKE i \in 1..Len(t)
    <3>1. i + 1 \in 1..Len(v2) /\ k + (i + 1) = (k + 1) + i
      BY <1>3, <1>4, <2>1
    <3> QED BY <1>3, <2>1, <3>1
  <2> QED BY <2>1, <2>2, <2>3
<1> QED BY <1>1, <1>2, <1>4, <1>5 DEF S, n, k

\* The range that is scanned.
LEMMA ScanNow ==
  ASSUME ParseTyped, v2 # <<>>
  PROVE  /\ Profile!Start = Sample[Parsed + 1][1] /\ Profile!End = Sample[Parsed + 1][2]
         /\ Profile!Start \in Nat /\ Profile!End \in Nat /\ Profile!End <= Len(v1)
         /\ Profile!ScanFrom \in Nat /\ Profile!Start <= Profile!ScanFrom /\ Profile!ScanFrom < Profile!End
         /\ Profile!End - Profile!ScanFrom = Quota(Sample, Len(v1))[Parsed + 1]
         /\ \A p \in Profile!Start..Profile!ScanFrom - 1 : p + MIN_MATCH <= Profile!End
BY RangeNow, ScanStart

\* The counters add up to a number.
LEMMA CountsType ==
  ASSUME ParseTyped
  PROVE  /\ Counts \in Int /\ SumFunctionOnSet(v6, DOMAIN DistCaps) \in Int
         /\ SumFunctionOnSet(v7, DOMAIN LenCaps) \in Int
<1>1. v5 \in Nat /\ v6 \in [DOMAIN DistCaps -> Nat] /\ v7 \in [DOMAIN LenCaps -> Nat]
  BY DEF ParseTyped
<1>2. IsFiniteSet(DOMAIN DistCaps) /\ IsFiniteSet(DOMAIN LenCaps)
  <2>1. DOMAIN DistCaps = 1..Len(DistCaps) /\ DOMAIN LenCaps = 1..Len(LenCaps)
        /\ Len(DistCaps) \in Int /\ Len(LenCaps) \in Int
    BY ParseAssumption
  <2> QED BY <2>1, FS_Interval
<1>3. SumFunctionOnSet(v6, DOMAIN DistCaps) \in Int
  BY <1>1, <1>2, SumType
<1>4. SumFunctionOnSet(v7, DOMAIN LenCaps) \in Int
  BY <1>1, <1>2, SumType
<1> QED BY <1>1, <1>3, <1>4 DEF Counts

\* The history of a range goes into the table.
LEMMA PreambleStep ==
  ASSUME script = "profile", ParseInv, Profile!Preamble
  PROVE  ParseTyped' /\ pc' = "scan" /\ Scanning'
<1>1. /\ ParseTyped /\ BetweenRanges /\ v2 # <<>> /\ pc' = "scan" /\ v3' = Profile!ScanFrom
      /\ UNCHANGED <<v1, v2, v5, v6, v7, v8, v9>>
  BY DEF ParseInv, Profile!Preamble
<1>2. ParseTyped'
  <2>1. Sample' = Sample /\ Parsed' = Parsed
    BY <1>1, ParseSame
  <2> QED BY <1>1, <2>1 DEF ParseTyped
<1> DEFINE a == Profile!Start
           e == Profile!End
           f == Profile!ScanFrom
<1>3. /\ a = Sample[Parsed + 1][1] /\ a \in Nat /\ e \in Nat /\ f \in Nat /\ a <= f /\ f < e
      /\ \A p \in a..f - 1 : p + MIN_MATCH <= e
  BY <1>1, ScanNow
<1>4. a' = a /\ e' = e /\ f' = f /\ Parsed' = Parsed
  BY <1>1, ParseSame
<1>5. v4' = [key \in {Profile!KeyAt(p) : p \in a..f - 1} |->
               Profile!Max({p \in a..f - 1 : Profile!KeyAt(p) = key})]
  BY DEF Profile!Preamble
<1> HIDE DEF a, e, f
<1>6. ASSUME NEW key \in DOMAIN v4'
      PROVE  /\ v4'[key] \in Nat /\ a <= v4'[key] /\ v4'[key] < f /\ v4'[key] + MIN_MATCH <= e
             /\ Profile!KeyAt(v4'[key]) = key
  <2> DEFINE H == {p \in a..f - 1 : Profile!KeyAt(p) = key}
  <2>1. v4'[key] = Max(H) /\ H # {}
    BY <1>5, ProfileCopies
  <2>2. Max(H) \in H
    <3>1. H \in SUBSET (a..f - 1)
      OBVIOUS
    <3> HIDE DEF H
    <3> QED BY <1>3, <2>1, <3>1, LargestIn
  <2>3. v4'[key] \in a..f - 1 /\ Profile!KeyAt(v4'[key]) = key
    BY <2>1, <2>2
  <2> QED BY <1>3, <2>3
<1>7. Copies(Parsed + 1)
  <2>1. Parsed \in Nat /\ \A i \in 1..Parsed : i \in 1..Parsed + 1
    BY <1>1, RangeNow
  <2> QED BY <1>1, <2>1 DEF BetweenRanges, Copies
<1>8. ASSUME NEW m \in v9 PROVE m[1] + m[3] <= f
  <2>1. PICK i \in 1..Parsed : CopyIn(m, i)
    BY <1>1, <1>8 DEF BetweenRanges, Copies
  <2>2. /\ Ranges(Sample, Len(v1)) /\ Parsed \in Nat /\ Parsed + 1 \in 1..Len(Sample)
    BY <1>1, RangeNow
  <2>3. i \in 1..Len(Sample) /\ i < Parsed + 1
    BY <2>2
  <2>4. Sample[i][2] <= Sample[Parsed + 1][1]
    BY <2>2, <2>3 DEF Ranges
  <2>5. Sample[i] \in Nat \X Nat
    BY <2>2, <2>3, ElementOfSeq DEF Ranges
  <2>6. m[1] \in Nat /\ m[3] \in Int /\ m[1] + m[3] <= Sample[i][2]
    BY <2>1, ParseAssumption DEF CopyIn
  <2> QED BY <1>3, <2>4, <2>5, <2>6
<1>9. Counts' = Counts /\ Due(Parsed)' = Due(Parsed)
  BY <1>1, <1>4, ParseSame DEF Counts
<1>10. Counts' - (v3' - f') \in Due(Parsed)' - MIN_MATCH * Parsed'..Due(Parsed)'
  <2>1. Counts - (f - f) = Counts
    <3>1. Counts \in Int
      BY <1>1, CountsType
    <3> QED BY <1>3, <3>1
  <2> QED BY <1>1, <1>4, <1>9, <2>1 DEF BetweenRanges, f
<1>11. Copies(Parsed + 1)'
  BY <1>1, <1>4, <1>7, ParseSame
<1>12. \A key \in DOMAIN v4' : Profile!KeyAt(v4[key])' = key
  <2>1. \A key : Profile!KeyAt(v4[key])' = Profile!KeyAt(v4'[key])
    BY <1>1 DEF Profile!KeyAt
  <2> QED BY <1>6, <2>1
<1>13. Headed(v3)'
  BY <1>1, <1>4, <1>6, <1>12, Zenon DEF Headed, a, e, f
<1>14. v3' \in Nat /\ f' <= v3' /\ v3' <= e'
  BY <1>1, <1>3, <1>4 DEF f
<1> QED BY <1>1, <1>2, <1>4, <1>8, <1>10, <1>11, <1>13, <1>14 DEF Scanning, e, f

\* A position that is scanned has a key in its range.
LEMMA ScanPlace ==
  ASSUME ParseTyped, Scanning, Profile!InScan
  PROVE  /\ Profile!Start \in Nat /\ Profile!End \in Nat /\ v3 \in Nat /\ MIN_MATCH \in Nat \ {0}
         /\ Profile!Start <= v3 /\ Profile!ScanFrom <= v3 /\ v3 + MIN_MATCH <= Profile!End
<1> DEFINE a == Profile!Start
           e == Profile!End
           f == Profile!ScanFrom
<1>1. /\ a \in Nat /\ e \in Nat /\ f \in Nat /\ a <= f /\ v3 \in Nat /\ f <= v3
      /\ v3 < e - MIN_MATCH /\ MIN_MATCH \in Nat \ {0}
  BY ScanNow, ParseAssumption DEF Scanning, Profile!InScan
<1> HIDE DEF a, e, f
<1>2. a <= v3 /\ v3 + MIN_MATCH <= e
  BY <1>1
<1> QED BY <1>1, <1>2 DEF a, e, f

\* Where a candidate is: in the range, in front of the position, with its key.
LEMMA CandidateSound ==
  ASSUME ParseTyped, Scanning, Profile!InScan, NEW c \in Profile!Near(v3)
  PROVE  /\ c \in Nat /\ Profile!Start <= c /\ v3 - c \in 1..WINDOW
         /\ c + MIN_MATCH <= Profile!End /\ Profile!KeyAt(c) = Profile!KeyAt(v3)
<1> DEFINE a == Profile!Start
           e == Profile!End
<1>1. a \in Nat /\ e \in Nat /\ v3 \in Nat /\ v3 < e - MIN_MATCH /\ WINDOW \in Nat /\ MIN_MATCH \in Nat
  BY ScanNow, ParseAssumption DEF Scanning, Profile!InScan
<1>2. c \in Profile!Candidate(v3) /\ v3 - c <= WINDOW
  BY DEF Profile!Near
<1> HIDE DEF e
<1>3. CASE v3 > a /\ c = v3 - 1 /\ Profile!KeyAt(v3) = Profile!KeyAt(v3 - 1)
  BY <1>1, <1>2, <1>3 DEF e
<1>4. CASE Profile!KeyAt(v3) \in DOMAIN v4 /\ c = v4[Profile!KeyAt(v3)]
  <2>1. c \in Nat /\ a <= c /\ c < v3 /\ c + MIN_MATCH <= e /\ Profile!KeyAt(c) = Profile!KeyAt(v3)
    BY <1>4 DEF Scanning, Headed, e
  <2> QED BY <1>1, <1>2, <2>1 DEF e
<1> QED BY <1>2, <1>3, <1>4 DEF Profile!Candidate

\* The position of a key goes into the table, and the scan moves on.
LEMMA HeadedNext ==
  ASSUME ParseTyped, Scanning, Profile!InScan, UNCHANGED <<v1, v2>>,
         v4' = Profile!With(v4, v3), NEW l \in Nat \ {0}, v3' = v3 + l
  PROVE  Headed(v3)'
<1> DEFINE a == Profile!Start
           e == Profile!End
           k == Profile!KeyAt(v3)
<1>1. a \in Nat /\ e \in Nat /\ v3 \in Nat /\ a <= v3 /\ v3 + MIN_MATCH <= e
  BY ScanPlace
<1>2. a' = a /\ e' = e
  BY ParseSame
<1>3. Headed(v3)
  BY DEF Scanning
<1>4. v4' = [key \in DOMAIN v4 \cup {k} |-> IF key = k THEN v3 ELSE v4[key]]
  BY DEF Profile!With
<1> HIDE DEF a, e, k
<1>5. ASSUME NEW key \in DOMAIN v4'
      PROVE  /\ v4'[key] \in Nat /\ a <= v4'[key] /\ v4'[key] < v3 + l /\ v4'[key] + MIN_MATCH <= e
             /\ Profile!KeyAt(v4'[key]) = key
  <2>1. CASE key = k
    <3>1. v4'[key] = v3 /\ Profile!KeyAt(v4'[key]) = key
      BY <1>4, <1>5, <2>1 DEF k
    <3> QED BY <1>1, <3>1
  <2>2. CASE key # k
    <3>1. key \in DOMAIN v4 /\ v4'[key] = v4[key]
      BY <1>4, <1>5, <2>2
    <3>2. v4[key] \in Nat /\ a <= v4[key] /\ v4[key] < v3 /\ v4[key] + MIN_MATCH <= e
          /\ Profile!KeyAt(v4[key]) = key
      BY <1>3, <3>1 DEF Headed, a, e
    <3> QED BY <1>1, <3>1, <3>2
  <2> QED BY <2>1, <2>2
<1>6. \A key : Profile!KeyAt(v4[key])' = Profile!KeyAt(v4'[key])
  BY DEF Profile!KeyAt
<1> QED BY <1>2, <1>5, <1>6, Zenon DEF Headed, a, e

\* A match copies bytes from within the window.
LEMMA MatchStep ==
  ASSUME script = "profile", ParseInv, Profile!Match
  PROVE  ParseTyped' /\ pc' = "scan" /\ Scanning'
<1>1. ParseTyped /\ Scanning /\ Profile!InScan /\ pc' = "scan" /\ UNCHANGED <<v1, v2, v5, v8>>
      /\ v4' = Profile!With(v4, v3)
  BY DEF ParseInv, Profile!Match, Profile!InScan
<1>2. PICK c \in Profile!Near(v3) :
        /\ v6' = Profile!Counted(v6, DistCaps, v3 - c, Profile!Length(c, v3))
        /\ v7' = Profile!Counted(v7, LenCaps, Profile!Length(c, v3), Profile!Length(c, v3))
        /\ v9' = v9 \cup {<<v3, c, Profile!Length(c, v3)>>}
        /\ v3' = v3 + Profile!Length(c, v3)
  BY DEF Profile!Match
<1> DEFINE a == Profile!Start
           e == Profile!End
           f == Profile!ScanFrom
           l == Profile!Length(c, v3)
           new == <<v3, c, l>>
<1>3. /\ a = Sample[Parsed + 1][1] /\ e = Sample[Parsed + 1][2]
      /\ a \in Nat /\ e \in Nat /\ f \in Nat /\ a <= f /\ f < e /\ e <= Len(v1)
  BY <1>1, ScanNow DEF Scanning
<1>4. v3 \in Nat /\ f <= v3 /\ v3 + MIN_MATCH <= e /\ MIN_MATCH \in Nat \ {0} /\ MaxLength \in Nat
  BY <1>1, ScanPlace, ParseAssumption
<1>5. /\ c \in Nat /\ a <= c /\ v3 - c \in 1..WINDOW
      /\ c + MIN_MATCH <= e /\ Profile!KeyAt(c) = Profile!KeyAt(v3)
  BY <1>1, CandidateSound
<1>6. /\ l \in MIN_MATCH..MaxLength /\ v3 + l <= e
      /\ \A i \in MIN_MATCH..l - 1 : Profile!Byte(c + i) = Profile!Byte(v3 + i)
  BY <1>3, <1>4, <1>5, LengthAgrees
<1>7. a' = a /\ e' = e /\ f' = f /\ Parsed' = Parsed /\ Sample' = Sample
  BY <1>1, ParseSame
<1> HIDE DEF a, e, f, l
<1>8. l \in Nat \ {0}
  BY <1>4, <1>6
<1>9. /\ v6' \in [DOMAIN DistCaps -> Nat]
      /\ SumFunctionOnSet(v6', DOMAIN DistCaps) = SumFunctionOnSet(v6, DOMAIN DistCaps) + l
  <2>1. v3 - c \in Nat /\ v3 - c <= DistCaps[Len(DistCaps)] /\ DistCaps \in Seq(Nat) \ {<<>>}
    BY <1>5, ParseAssumption
  <2>2. v6 \in [DOMAIN DistCaps -> Nat] /\ v6' = Profile!Counted(v6, DistCaps, v3 - c, l)
    BY <1>1, <1>2 DEF ParseTyped, l
  <2>3. l \in Nat
    BY <1>8
  <2> QED BY <2>1, <2>2, <2>3, CountedOnce
<1>10. /\ v7' \in [DOMAIN LenCaps -> Nat]
       /\ SumFunctionOnSet(v7', DOMAIN LenCaps) = SumFunctionOnSet(v7, DOMAIN LenCaps) + l
  <2>1. l <= LenCaps[Len(LenCaps)] /\ LenCaps \in Seq(Nat) \ {<<>>}
    <3>1. LenCaps \in Seq(Nat) \ {<<>>} /\ LenCaps[Len(LenCaps)] >= MaxLength
      BY ParseAssumption
    <3>2. LenCaps[Len(LenCaps)] \in Nat
      BY <3>1
    <3> QED BY <1>4, <1>6, <3>1, <3>2
  <2>2. v7 \in [DOMAIN LenCaps -> Nat] /\ v7' = Profile!Counted(v7, LenCaps, l, l)
    BY <1>1, <1>2 DEF ParseTyped, l
  <2>3. l \in Nat
    BY <1>8
  <2> QED BY <2>1, <2>2, <2>3, CountedOnce
<1>11. ParseTyped'
  BY <1>1, <1>7, <1>9, <1>10 DEF ParseTyped
<1>12. Headed(v3)'
  <2>1. v3' = v3 + l
    BY <1>2 DEF l
  <2> QED BY <1>1, <1>8, <2>1, HeadedNext
<1>13. CopyIn(new, Parsed + 1)
  <2>1. ASSUME NEW j \in 0..l - 1 PROVE Profile!Byte(v3 + j) = Profile!Byte(c + j)
    <3>1. CASE j < MIN_MATCH
      <4>1. /\ Len(v1) \in Nat /\ DOMAIN v1 = 1..Len(v1) /\ j \in 0..MIN_MATCH - 1
            /\ c + MIN_MATCH <= Len(v1) /\ v3 + MIN_MATCH <= Len(v1)
        BY <1>1, <1>3, <1>4, <1>5, <3>1, RangeNow
      <4> QED BY <1>4, <1>5, <4>1, SameKey
    <3>2. CASE j >= MIN_MATCH
      BY <1>4, <1>6, <1>8, <3>2
    <3> QED BY <1>4, <1>8, <3>1, <3>2
  <2>2. new[1] = v3 /\ new[2] = c /\ new[3] = l
    OBVIOUS
  <2> HIDE DEF new
  <2> QED BY <1>3, <1>4, <1>5, <1>6, <2>1, <2>2 DEF CopyIn
<1>14. ASSUME NEW m \in v9' PROVE m[1] + m[3] <= v3 + l
  <2>1. CASE m = new
    BY <1>4, <1>8, <2>1
  <2>2. CASE m \in v9
    <3>1. m[1] + m[3] <= v3 /\ m[1] \in Nat /\ m[3] \in Int
      BY <1>1, <1>4, <2>2 DEF Scanning, Copies, CopyIn
    <3> QED BY <1>4, <1>8, <3>1
  <2> QED BY <1>2, <2>1, <2>2 DEF l
<1>15. Copies(Parsed + 1)'
  <2> SUFFICES ASSUME NEW m \in v9'
               PROVE  /\ \E i \in 1..Parsed + 1 : CopyIn(m, i)
                      /\ \A o \in v9' : o[1] > m[1] => m[1] + m[3] <= o[1]
    <3>1. \A m, i : CopyIn(m, i)' <=> CopyIn(m, i)
      BY <1>1, ParseSame
    <3> QED BY <1>7, <3>1, Zenon DEF Copies
  <2>1. Parsed + 1 \in 1..Parsed + 1
    BY <1>1, RangeNow
  <2>2. \A o \in v9 : /\ o[1] \in Nat /\ o[3] \in Nat /\ o[1] < v3 /\ o[1] + o[3] <= v3
    <3> TAKE o \in v9
    <3>1. o[1] \in Nat /\ o[3] \in MIN_MATCH..MaxLength /\ o[1] + o[3] <= v3
      BY <1>1 DEF Scanning, Copies, CopyIn
    <3> QED BY <1>4, <3>1
  <2>3. new[1] = v3
    OBVIOUS
  <2>4. v9' = v9 \cup {new}
    BY <1>2 DEF l
  <2> HIDE DEF new
  <2>5. CASE m = new
    <3>1. \A o \in v9' : ~(o[1] > m[1])
      BY <1>4, <2>2, <2>3, <2>4, <2>5
    <3> QED BY <1>13, <2>1, <2>5, <3>1
  <2>6. CASE m \in v9
    <3>1. /\ \E i \in 1..Parsed + 1 : CopyIn(m, i)
          /\ \A o \in v9 : o[1] > m[1] => m[1] + m[3] <= o[1]
      BY <1>1, <2>6 DEF Scanning, Copies
    <3>2. m[1] + m[3] <= new[1]
      BY <2>2, <2>3, <2>6
    <3> QED BY <2>4, <3>1, <3>2
  <2> QED BY <2>4, <2>5, <2>6
<1>16. Counts' - (v3' - f') = Counts - (v3 - f)
  <2>1. Counts \in Int /\ SumFunctionOnSet(v6, DOMAIN DistCaps) \in Int /\ v5 \in Nat
    BY <1>1, CountsType DEF ParseTyped
  <2>2. v3' = v3 + l
    BY <1>2 DEF l
  <2> QED BY <1>1, <1>3, <1>4, <1>7, <1>8, <1>9, <2>1, <2>2 DEF Counts
<1>17. Counts' - (v3' - f') \in Due(Parsed)' - MIN_MATCH * Parsed'..Due(Parsed)'
  <2>1. Due(Parsed)' = Due(Parsed)
    BY <1>1, <1>7, ParseSame
  <2> QED BY <1>1, <1>7, <1>16, <2>1 DEF Scanning, f
<1>18. v3' = v3 + l /\ v3' \in Nat /\ f' <= v3' /\ v3' <= e'
  <2>1. v3' = v3 + l
    BY <1>2 DEF l
  <2> QED BY <1>3, <1>4, <1>6, <1>7, <1>8, <2>1
<1>19. v2' # <<>>
  BY <1>1 DEF Scanning
<1> QED BY <1>1, <1>11, <1>12, <1>14, <1>15, <1>17, <1>18, <1>19 DEF Scanning, e, f

\* A literal is one byte.
LEMMA LiteralStep ==
  ASSUME script = "profile", ParseInv, Profile!Literal
  PROVE  ParseTyped' /\ pc' = "scan" /\ Scanning'
<1>1. ParseTyped /\ Scanning /\ Profile!InScan /\ pc' = "scan" /\ UNCHANGED <<v1, v2, v6, v7, v8, v9>>
  BY DEF ParseInv, Profile!Literal, Profile!InScan
<1>2. v4' = Profile!With(v4, v3) /\ v3' = v3 + 1 /\ v5' = v5 + 1
  BY DEF Profile!Literal
<1> DEFINE e == Profile!End
           f == Profile!ScanFrom
<1>3. v3 \in Nat /\ f \in Nat /\ e \in Nat /\ f <= v3 /\ v3 + MIN_MATCH <= e /\ MIN_MATCH \in Nat \ {0}
  BY <1>1, ScanPlace, ScanNow DEF Scanning
<1>4. e' = e /\ f' = f /\ Parsed' = Parsed /\ Sample' = Sample /\ Due(Parsed)' = Due(Parsed)
  BY <1>1, ParseSame
<1>5. Copies(Parsed + 1)' <=> Copies(Parsed + 1)
  BY <1>1, <1>4, ParseSame
<1> HIDE DEF e, f
<1>6. ParseTyped'
  <2>1. v5 \in Nat /\ v5' = v5 + 1
    BY <1>1, <1>2 DEF ParseTyped
  <2>2. v5' \in Nat
    BY ONLY <2>1
  <2> QED BY <1>1, <1>4, <2>2 DEF ParseTyped
<1>7. Headed(v3)'
  BY <1>2, <1>1, HeadedNext
<1>8. ASSUME NEW m \in v9 PROVE m[1] + m[3] <= v3 + 1
  <2>1. m[1] + m[3] <= v3 /\ m[1] \in Nat /\ m[3] \in MIN_MATCH..MaxLength
    BY <1>1, <1>8 DEF Scanning, Copies, CopyIn
  <2> QED BY <1>3, <2>1
<1>9. Counts' - (v3' - f') = Counts - (v3 - f)
  <2> DEFINE d == SumFunctionOnSet(v6, DOMAIN DistCaps)
  <2>1. d \in Int /\ v5 \in Nat
    BY <1>1, CountsType DEF ParseTyped
  <2>2. Counts = v5 + d /\ Counts' = v5' + d
    BY <1>1 DEF Counts
  <2>3. v3' = v3 + 1 /\ v5' = v5 + 1 /\ v3 \in Nat /\ f \in Nat /\ f' = f
    BY <1>2, <1>3, <1>4
  <2> HIDE DEF d
  <2> QED BY ONLY <2>1, <2>2, <2>3
<1>10. Counts' - (v3' - f') \in Due(Parsed)' - MIN_MATCH * Parsed'..Due(Parsed)'
  BY <1>1, <1>4, <1>9 DEF Scanning, f
<1>11. v3' \in Nat /\ f' <= v3' /\ v3' <= e'
  <2>1. v3' = v3 + 1 /\ f' = f /\ e' = e
    BY <1>2, <1>4
  <2> QED BY ONLY <1>3, <2>1
<1> QED BY <1>2, <1>1, <1>4, <1>6, <1>7, <1>8, <1>10, <1>11, <1>5 DEF Scanning, e, f

\* What is due of k + 1 ranges.
LEMMA DueNext ==
  ASSUME ParseTyped, NEW k \in Nat, k + 1 <= Len(Sample)
  PROVE  /\ Due(k + 1) = Due(k) + Quota(Sample, Len(v1))[k + 1] /\ Due(k) \in Int
         /\ Quota(Sample, Len(v1))[k + 1] \in Int
<1> DEFINE q == Quota(Sample, Len(v1))
<1>1. Ranges(Sample, Len(v1))
  BY RangeNow
<1>2. ASSUME NEW i \in 1..Len(Sample) PROVE q[i] \in Int
  <2>1. Sample[i] \in Nat \X Nat
    BY <1>1, ElementOfSeq DEF Ranges
  <2>2. Sample[i][1] \in Nat /\ Sample[i][2] \in Nat /\ WINDOW \in Nat
    BY <2>1, ParseAssumption
  <2>3. q[i] = Sample[i][2] - IF Len(Sample) = 1 /\ Len(v1) <= SCAN THEN 0 ELSE Sample[i][1] + WINDOW
    BY DEF Quota
  <2> HIDE DEF q
  <2> QED BY <2>2, <2>3
<1>3. \A x \in 1..k + 1 : q[x] \in Int
  <2>1. Len(Sample) \in Nat
    BY <1>1 DEF Ranges
  <2> QED BY <1>2, <2>1
<1> HIDE DEF q
<1> QED BY <1>3, SumNext DEF Due, q

\* A range ends within a key of its end.
LEMMA EndRangeStep ==
  ASSUME script = "profile", ParseInv, Profile!EndRange
  PROVE  ParseTyped' /\ pc' = "range" /\ BetweenRanges'
<1>1. /\ ParseTyped /\ Scanning /\ v3 >= Profile!End - MIN_MATCH /\ pc' = "range" /\ v2' = Tail(v2)
      /\ UNCHANGED <<v1, v3, v4, v5, v6, v7, v8, v9>>
  BY DEF ParseInv, Profile!EndRange
<1>2. v2 # <<>>
  BY <1>1 DEF Scanning
<1>3. Sample' = Sample /\ \A k : Due(k)' = Due(k) /\ (Copies(k)' <=> Copies(k))
  BY <1>1, ParseSame
<1>4. /\ Parsed \in Nat /\ Parsed + 1 \in 1..Len(Sample)
      /\ v2' \in Seq(Nat \X Nat) /\ Len(v2') <= Len(Sample)
      /\ Len(Sample) - Len(v2') = Parsed + 1
      /\ \A i \in 1..Len(v2') : v2'[i] = Sample[(Parsed + 1) + i]
  BY <1>1, <1>2, RangeNow
<1>5. Parsed' = Parsed + 1
  BY <1>3, <1>4 DEF Parsed
<1>6. ParseTyped'
  BY <1>1, <1>3, <1>4, <1>5 DEF ParseTyped
<1>7. Copies(Parsed)'
  BY <1>1, <1>3, <1>5 DEF Scanning, Copies, CopyIn, Profile!Byte
<1> DEFINE q == Quota(Sample, Len(v1))[Parsed + 1]
           e == Profile!End
           f == Profile!ScanFrom
           d == Due(Parsed)
           n == MIN_MATCH * Parsed
<1>8. /\ Due(Parsed + 1) = d + q /\ d \in Int /\ q \in Int
  BY <1>1, <1>4, DueNext
<1>9. e \in Nat /\ f \in Nat /\ e - f = q /\ v3 \in Nat /\ f <= v3 /\ v3 <= e /\ v3 >= e - MIN_MATCH
  BY <1>1, <1>2, ScanNow DEF Scanning
<1>10. Counts \in Int /\ Counts - (v3 - f) \in d - n..d
  BY <1>1, CountsType DEF Scanning
<1>11. n \in Nat /\ MIN_MATCH * (Parsed + 1) = n + MIN_MATCH /\ MIN_MATCH \in Nat
  <2>1. MIN_MATCH \in Nat /\ Parsed \in Nat
    BY <1>4, ParseAssumption
  <2>2. /\ Parsed * MIN_MATCH \in Nat /\ MIN_MATCH * Parsed = Parsed * MIN_MATCH
        /\ (Parsed + 1) * MIN_MATCH = Parsed * MIN_MATCH + MIN_MATCH
    BY ONLY <2>1, Multiples
  <2>3. MIN_MATCH * (Parsed + 1) = (Parsed + 1) * MIN_MATCH
    BY ONLY <2>1
  <2> QED BY <2>1, <2>2, <2>3
<1> HIDE DEF q, e, f, d, n
<1>12. Counts \in (d + q) - (n + MIN_MATCH)..d + q
  BY <1>8, <1>9, <1>10, <1>11
<1>13. Counts' = Counts
  BY <1>1 DEF Counts
<1>14. Due(Parsed)' = d + q /\ MIN_MATCH * Parsed' = n + MIN_MATCH
  BY <1>3, <1>5, <1>8, <1>11
<1> QED BY <1>1, <1>6, <1>7, <1>12, <1>13, <1>14 DEF BetweenRanges

\* Both rows are drawn, and fill.
LEMMA RenderStep ==
  ASSUME script = "profile", ParseInv, Profile!Render
  PROVE  ParseTyped' /\ pc' = "drawn" /\ BetweenRanges' /\ Drawn'
<1>1. /\ ParseTyped /\ BetweenRanges /\ v2 = <<>> /\ pc' = "drawn"
      /\ v8' = <<Profile!Stacked(<<v5>> \o v6), Profile!Stacked(v7)>>
      /\ UNCHANGED <<v1, v2, v3, v4, v5, v6, v7, v9>>
  BY DEF ParseInv, Profile!Render
<1>2. ParseTyped' /\ BetweenRanges'
  <2>1. /\ Sample' = Sample /\ Parsed' = Parsed /\ Due(Parsed)' = Due(Parsed)
        /\ Copies(Parsed)' <=> Copies(Parsed)
    BY <1>1, ParseSame
  <2>2. Counts' = Counts
    BY <1>1 DEF Counts
  <2> QED BY <1>1, <2>1, <2>2 DEF ParseTyped, BetweenRanges
<1>3. Profile!Fills(Profile!Stacked(<<v5>> \o v6), Counts)
  <2> DEFINE n == Len(DistCaps)
             p == <<v5>> \o v6
  <2>1. n \in Nat /\ DOMAIN DistCaps = 1..n
    BY ParseAssumption
  <2>2. v6 \in [1..n -> Nat] /\ v5 \in Nat
    BY <1>1, <2>1 DEF ParseTyped
  <2> HIDE DEF n
  <2>3. /\ DOMAIN p = 1..n + 1 /\ \A i \in 1..n + 1 : p[i] \in Nat
        /\ SumFunctionOnSet(p, 1..n + 1) = v5 + SumFunctionOnSet(v6, 1..n)
    BY <2>1, <2>2, SumWithFirst
  <2>4. n + 1 \in Nat
    BY <2>1
  <2> HIDE DEF p
  <2>5. Profile!Fills(Profile!Stacked(p), SumFunctionOnSet(p, 1..n + 1))
    BY <2>3, <2>4, StackedFills
  <2> QED BY <2>1, <2>3, <2>5 DEF Counts, p
<1>4. Profile!Fills(Profile!Stacked(v7), SumFunctionOnSet(v7, DOMAIN LenCaps))
  <2> DEFINE n == Len(LenCaps)
  <2>1. n \in Nat /\ DOMAIN LenCaps = 1..n
    BY ParseAssumption
  <2>2. n \in Nat /\ DOMAIN LenCaps = 1..n /\ v7 \in [1..n -> Nat]
    BY <1>1, <2>1 DEF ParseTyped
  <2> HIDE DEF n
  <2>3. DOMAIN v7 = 1..n /\ \A i \in 1..n : v7[i] \in Nat
    BY <2>2
  <2>4. Profile!Fills(Profile!Stacked(v7), SumFunctionOnSet(v7, 1..n))
    BY <2>2, <2>3, StackedFills
  <2> QED BY <2>2, <2>4
<1>5. v8'[1] = Profile!Stacked(<<v5>> \o v6) /\ v8'[2] = Profile!Stacked(v7)
  BY <1>1
<1>6. Counts' = Counts /\ v7' = v7 /\ v2' = <<>>
  BY <1>1 DEF Counts
<1>7. Drawn'
  BY <1>3, <1>4, <1>5, <1>6, Zenon DEF Drawn, Profile!Fills
<1> QED BY <1>1, <1>2, <1>7

\* Every step of the profile preserves its invariant.
LEMMA ParseInvStep == ParseInv /\ [Next]_vars => ParseInv'
<1> SUFFICES ASSUME ParseInv, [Next]_vars, script' = "profile"
             PROVE  /\ ParseTyped' /\ pc' \in {"range", "scan", "drawn"}
                    /\ IF pc' = "scan" THEN Scanning' ELSE BetweenRanges'
                    /\ pc' = "drawn" => Drawn'
  BY Zenon DEF ParseInv
<1>1. script = "profile" /\ script' = script
  BY DEF Next, vars
<1>2. CASE Profile!Preamble
  BY <1>1, <1>2, PreambleStep
<1>3. CASE Profile!Match
  BY <1>1, <1>3, MatchStep
<1>4. CASE Profile!Literal
  BY <1>1, <1>4, LiteralStep
<1>5. CASE Profile!EndRange
  BY <1>1, <1>5, EndRangeStep
<1>6. CASE Profile!Render
  BY <1>1, <1>6, RenderStep
<1>7. CASE UNCHANGED vars
  <2>1. UNCHANGED <<pc, v1, v2, v3, v4, v5, v6, v7, v8, v9>>
    BY <1>7 DEF vars
  <2>2. /\ ParseTyped /\ pc \in {"range", "scan", "drawn"}
        /\ IF pc = "scan" THEN Scanning ELSE BetweenRanges
        /\ pc = "drawn" => Drawn
    BY <1>1 DEF ParseInv
  <2>3. /\ Sample' = Sample /\ Parsed' = Parsed /\ Counts' = Counts /\ \A k : Due(k)' = Due(k)
        /\ UNCHANGED <<Profile!Start, Profile!End, Profile!ScanFrom>>
    BY <2>1, ParseSame DEF Counts
  <2>4. \A k : Copies(k)' <=> Copies(k)
    BY <2>1, ParseSame
  <2>5. ParseTyped'
    BY <2>1, <2>2, <2>3 DEF ParseTyped
  <2>6. BetweenRanges => BetweenRanges'
    BY <2>3, <2>4 DEF BetweenRanges
  <2>7. Headed(v3)' <=> Headed(v3)
    <3>1. \A key : Profile!KeyAt(v4[key])' = Profile!KeyAt(v4[key])
      BY <2>1 DEF Profile!KeyAt
    <3> QED BY <2>1, <2>3, <3>1, Zenon DEF Headed
  <2>8. Scanning => Scanning'
    BY <2>1, <2>3, <2>4, <2>7 DEF Scanning
  <2>9. Drawn => Drawn'
    BY <2>1, <2>3, Zenon DEF Drawn, Profile!Fills
  <2> QED BY <2>1, <2>2, <2>5, <2>6, <2>8, <2>9
<1> QED BY <1>1, <1>2, <1>3, <1>4, <1>5, <1>6, <1>7 DEF Next, Profile!Next

\* Before the first range, nothing is counted and nothing is due.
LEMMA ParseStart ==
  ASSUME Profile!Init
  PROVE  ParseTyped /\ BetweenRanges /\ pc = "range"
<1>1. /\ pc = "range" /\ v1 \in Files /\ v1 # <<>> /\ v2 = Sample /\ v5 = 0 /\ v9 = {}
      /\ v6 = [i \in DOMAIN DistCaps |-> 0] /\ v7 = [i \in DOMAIN LenCaps |-> 0]
  BY DEF Profile!Init, Profile!Zero, Sample
<1>2. Len(v1) \in Nat \ {0}
  <2>1. v1 \in Seq(0..255)
    BY <1>1, ParseAssumption
  <2> QED BY <1>1, <2>1
<1>3. Ranges(Sample, Len(v1))
  BY <1>2, SampleRanges DEF Sample
<1>4. Sample \in Seq(Nat \X Nat) /\ Len(Sample) \in Nat
  BY <1>3 DEF Ranges
<1>5. IsFiniteSet(DOMAIN DistCaps) /\ IsFiniteSet(DOMAIN LenCaps)
  <2>1. DOMAIN DistCaps = 1..Len(DistCaps) /\ DOMAIN LenCaps = 1..Len(LenCaps)
        /\ Len(DistCaps) \in Int /\ Len(LenCaps) \in Int
    BY ParseAssumption
  <2> QED BY <2>1, FS_Interval
<1>6. SumFunctionOnSet(v6, DOMAIN DistCaps) = 0 /\ SumFunctionOnSet(v7, DOMAIN LenCaps) = 0
  <2>1. (\A x \in DOMAIN DistCaps : v6[x] = 0) /\ \A x \in DOMAIN LenCaps : v7[x] = 0
    BY <1>1
  <2> QED BY <1>5, <2>1, SumZeros
<1>7. Parsed = 0
  BY <1>1, <1>4 DEF Parsed
<1>8. ParseTyped
  <2>1. \A i \in 1..Len(v2) : v2[i] = Sample[Parsed + i]
    BY <1>1, <1>4, <1>7
  <2>2. v6 \in [DOMAIN DistCaps -> Nat] /\ v7 \in [DOMAIN LenCaps -> Nat] /\ v5 \in Nat
    BY <1>1
  <2>3. v2 \in Seq(Nat \X Nat) /\ Len(v2) <= Len(Sample)
    BY <1>1, <1>4
  <2> QED BY <1>1, <1>2, <1>6, <2>1, <2>2, <2>3 DEF ParseTyped
<1>9. BetweenRanges
  <2>1. Copies(Parsed)
    BY <1>1 DEF Copies
  <2>2. Counts = 0
    BY <1>1, <1>6 DEF Counts
  <2>3. Due(0) = 0
    <3>1. 1..0 = {}
      OBVIOUS
    <3> QED BY <3>1, SumEmpty DEF Due
  <2>4. MIN_MATCH * 0 = 0
    BY ParseAssumption
  <2>5. 0 \in 0 - 0..0
    OBVIOUS
  <2> QED BY <1>7, <2>1, <2>2, <2>3, <2>4, <2>5 DEF BetweenRanges
<1> QED BY <1>1, <1>8, <1>9

(* profile_corpus.py: the sampled ranges are apart and inside of the file,    *)
(* every match is a copy of bytes of its own range from within the window,    *)
(* none overlaps another, both countings of the matched bytes agree, with the *)
(* literals they make up what was scanned but for a tail of each range, and  *)
(* the bars of a row fill it: for any files, window and buckets.             *)
THEOREM ParseAccountsHolds == Spec => []ParseAccounts
<1>1. Init => ParseInv
  <2> SUFFICES ASSUME Profile!Init, script = "profile" PROVE ParseInv
    BY DEF Init, ParseInv
  <2> QED BY ParseStart DEF ParseInv
<1>2. ParseInv => ParseAccounts
  <2> SUFFICES ASSUME ParseInv, script = "profile" PROVE Profile!ParseAccounts
    BY DEF ParseAccounts
  <2>1. /\ ParseTyped /\ IF pc = "scan" THEN Scanning ELSE BetweenRanges
        /\ pc = "drawn" => BetweenRanges /\ Drawn
    BY DEF ParseInv
  <2>2. /\ Len(v1) \in Nat /\ Parsed \in Nat
        /\ v2 = <<>> => Parsed = Len(Sample)
        /\ v2 # <<>> => Parsed + 1 \in 1..Len(Sample)
    BY <2>1, RangeNow
  <2>3. Ranges(Sample, Len(v1))
    BY <2>1, RangeNow
  <2>4. Profile!Sampled = Sample /\ DOMAIN Sample = 1..Len(Sample) /\ Len(Sample) \in Nat
    BY <2>3 DEF Sample, Profile!Sampled, Ranges
  <2>5. ASSUME NEW i \in 1..Len(Sample)
        PROVE  /\ Sample[i][1] >= 0 /\ Sample[i][2] <= Len(v1)
               /\ i > 1 => Sample[i - 1][2] <= Sample[i][1]
    <3>1. Sample[i] \in Nat \X Nat /\ Sample[i][2] <= Len(v1)
      BY <2>3, ElementOfSeq DEF Ranges
    <3>2. ASSUME i > 1 PROVE Sample[i - 1][2] <= Sample[i][1]
      <4>1. i - 1 \in 1..Len(Sample) /\ i - 1 < i
        BY <2>4, <3>2
      <4> QED BY <2>3, <4>1 DEF Ranges
    <3> QED BY <3>1, <3>2
  <2>6. ASSUME NEW m \in v9
        PROVE  \E i \in 1..Len(Sample) : CopyIn(m, i) /\ \A o \in v9 : o[1] > m[1] => m[1] + m[3] <= o[1]
    <3>1. PICK k \in Nat : Copies(k) /\ k <= Len(Sample)
      <4>1. CASE pc = "scan"
        <5>1. Copies(Parsed + 1) /\ v2 # <<>>
          BY <2>1, <4>1 DEF Scanning
        <5>2. Parsed + 1 \in 1..Len(Sample)
          BY <2>1, <5>1, RangeNow
        <5>3. Parsed + 1 \in Nat /\ Parsed + 1 <= Len(Sample)
          BY <2>4, <5>2
        <5> QED BY ONLY <5>1, <5>3
      <4>2. CASE pc # "scan"
        <5>1. Copies(Parsed)
          BY <2>1, <4>2 DEF BetweenRanges
        <5>2. Parsed <= Len(Sample)
          <6>1. Len(v2) \in Nat
            BY <2>1 DEF ParseTyped
          <6> QED BY <2>4, <6>1 DEF Parsed
        <5> QED BY ONLY <2>2, <5>1, <5>2
      <4> QED BY <4>1, <4>2
    <3>2. (\E i \in 1..k : CopyIn(m, i)) /\ \A o \in v9 : o[1] > m[1] => m[1] + m[3] <= o[1]
      BY <2>6, <3>1 DEF Copies
    <3>3. \A i \in 1..k : i \in 1..Len(Sample)
      BY <2>4, <3>1
    <3> QED BY <3>2, <3>3
  <2>7. /\ Profile!Total(v6) = SumFunctionOnSet(v6, DOMAIN DistCaps)
        /\ Profile!Total(v7) = SumFunctionOnSet(v7, DOMAIN LenCaps)
        /\ Profile!Total(v6) = Profile!Total(v7)
    <3>1. DOMAIN v6 = DOMAIN DistCaps /\ DOMAIN v7 = DOMAIN LenCaps
          /\ SumFunctionOnSet(v6, DOMAIN DistCaps) = SumFunctionOnSet(v7, DOMAIN LenCaps)
      BY <2>1 DEF ParseTyped
    <3> QED BY <3>1, ProfileCopies
  <2>8. ASSUME pc = "drawn"
        PROVE  LET scanned == Profile!Total([i \in DOMAIN Profile!Sampled |->
                     Profile!Sampled[i][2] - IF Len(Profile!Sampled) = 1 /\ Len(v1) <= SCAN
                                             THEN 0 ELSE Profile!Sampled[i][1] + WINDOW])
               IN  /\ v5 + Profile!Total(v6) \in scanned - MIN_MATCH * Len(Profile!Sampled)..scanned
                   /\ Profile!Fills(v8[1], v5 + Profile!Total(v6))
                   /\ Profile!Fills(v8[2], Profile!Total(v7))
    <3> DEFINE scanned == Profile!Total([i \in DOMAIN Profile!Sampled |->
                     Profile!Sampled[i][2] - IF Len(Profile!Sampled) = 1 /\ Len(v1) <= SCAN
                                             THEN 0 ELSE Profile!Sampled[i][1] + WINDOW])
    <3>1. scanned = Due(Len(Sample))
      <4>1. scanned = Profile!Total(Quota(Sample, Len(v1)))
        BY <2>4, Zenon DEF Quota
      <4>2. DOMAIN Quota(Sample, Len(v1)) = 1..Len(Sample)
        BY DEF Quota
      <4> HIDE DEF scanned
      <4> QED BY <4>1, <4>2, ProfileCopies DEF Due
    <3>2. BetweenRanges /\ Drawn /\ Parsed = Len(Sample)
      BY <2>1, <2>2, <2>8 DEF Drawn
    <3>3. v5 + Profile!Total(v6) = Counts
      BY <2>7 DEF Counts
    <3> HIDE DEF scanned
    <3>4. Counts \in scanned - MIN_MATCH * Len(Sample)..scanned
      BY <3>1, <3>2 DEF BetweenRanges
    <3> QED BY <2>4, <2>7, <3>2, <3>3, <3>4 DEF Drawn, scanned
  <2>9. \A m, i : CopyIn(m, i) =>
          /\ m[1] - m[2] \in 1..WINDOW /\ Sample[i][1] <= m[2] /\ m[1] + m[3] <= Sample[i][2]
          /\ m[3] \in MIN_MATCH..MaxLength
          /\ \A j \in 0..m[3] - 1 : Profile!Byte(m[1] + j) = Profile!Byte(m[2] + j)
    BY Zenon DEF CopyIn
  <2> QED BY <2>4, <2>5, <2>6, <2>7, <2>8, <2>9, Zenon DEF Profile!ParseAccounts
<1> QED BY <1>1, <1>2, ParseInvStep, PTL DEF Spec
=============================================================================
