------------------------------ MODULE Markers ------------------------------
(***************************************************************************)
(* How the charts keep the points of runs apart that have the same values:  *)
(* dodge_markers of src/scripts/graph_runs.py moves them along a slot, and  *)
(* draw_chart of src/scripts/compare_levels.py makes them smaller.  In      *)
(* either, pts are the points of the runs, in whole pixels.                 *)
(***************************************************************************)
EXTENDS Integers, Sequences, FiniteSets

CONSTANTS
  Slots,   (* the points series may have at a slot: functions to y          *)
  Dots,    (* the points of later runs: sequences of <<x, y>>               *)
  STEP, TOL, NEAR

VARIABLES
  pc, pts,
  todo,     (* dodge: the series still to come                              *)
  cluster,  (* series near each other                                       *)
  out,      (* series -> how far it is moved, in half pixels                 *)
  placed    (* the dots drawn so far, and their scale in percent             *)

vars == <<pc, pts, todo, cluster, out, placed>>

----------------------------------------------------------------------------
\* Series are taken from the top down, by index where they are as high.
Before(i, j) == pts[i] < pts[j] \/ (pts[i] = pts[j] /\ i < j)

Init ==
  /\ \/ pc = "dodge" /\ pts \in Slots /\ todo = DOMAIN pts
     \/ pc = "dots" /\ pts \in Dots /\ todo = {}
  /\ cluster = {} /\ out = <<>> /\ placed = <<>>

\* spread_cluster: STEP pixels apart, by index, and their middle stays.
Spread(members) ==
  [i \in DOMAIN out \cup members |->
     IF i \notin members THEN out[i]
     ELSE (2 * Cardinality({j \in members : j < i}) - (Cardinality(members) - 1)) * STEP]

\* Mutant: near the first of the cluster, not the last.
NearFirst(i) == \A j \in cluster : pts[i] - pts[j] <= TOL

\* A series belongs to the cluster if it is near the lowest of it so far.
NearLast(i) == \E j \in cluster : pts[i] - pts[j] <= TOL

Gather ==
  /\ pc = "dodge"
  /\ \E i \in todo :
       /\ \A j \in todo \ {i} : Before(i, j)
       /\ IF cluster = {} \/ NearLast(i) THEN cluster' = cluster \cup {i} /\ UNCHANGED out
          ELSE out' = Spread(cluster) /\ cluster' = {i}
       /\ todo' = todo \ {i}
  /\ UNCHANGED <<pc, pts, placed>>

LastCluster ==
  /\ pc = "dodge" /\ todo = {} /\ pc' = "dodged"
  /\ out' = Spread(cluster) /\ cluster' = {}
  /\ UNCHANGED <<pts, todo, placed>>

----------------------------------------------------------------------------
Square(x) == x * x

\* Dots among those drawn that are less than NEAR pixels away.
Stacked(d) ==
  Cardinality({k \in DOMAIN placed :
     Square(d[1] - placed[k].dot[1]) + Square(d[2] - placed[k].dot[2]) < Square(NEAR)})

Scale(n) == IF n = 0 THEN 100 ELSE IF 58 - 14 * n > 25 THEN 58 - 14 * n ELSE 25

Dot ==
  /\ pc = "dots" /\ Len(placed) < Len(pts)
  /\ LET d == pts[Len(placed) + 1] IN
     placed' = Append(placed, [dot |-> d, near |-> Stacked(d), scale |-> Scale(Stacked(d))])
  /\ UNCHANGED <<pc, pts, todo, cluster, out>>

Next == Gather \/ LastCluster \/ Dot

----------------------------------------------------------------------------
(* No marker hides another.  Of two series at a slot one is more than TOL    *)
(* above the other, or they are STEP or more apart with the lower index to   *)
(* the left; a series that no other is near stays where it is.  Of two dots  *)
(* on one spot the later is smaller, as long as no more than two lay near    *)
(* the earlier one (from then on all have one size, against                  *)
(* compare_levels.py:266-267).                                              *)
MarkersSeen ==
  /\ pc = "dodged" =>
       /\ DOMAIN out = DOMAIN pts
       /\ \A i, j \in DOMAIN pts :
            i < j => pts[i] - pts[j] \notin -TOL..TOL \/ out[j] - out[i] >= 2 * STEP
       /\ \A i \in DOMAIN pts :
            (\A j \in DOMAIN pts \ {i} : pts[i] - pts[j] \notin -TOL..TOL) => out[i] = 0
  /\ \A k \in DOMAIN placed : \A l \in 1..k - 1 :
       placed[l].dot = placed[k].dot /\ placed[l].near <= 2 => placed[k].scale < placed[l].scale
=============================================================================
