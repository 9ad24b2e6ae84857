------------------------------ MODULE PrWorkdir ------------------------------
(***************************************************************************)
(* src/scripts/bench_pr.py and the building half of                        *)
(* src/scripts/insert_map.py: two scripts that share a clone of zlib-ng and *)
(* keep worktrees, builds and results under one --workdir, from one call to *)
(* the next.  Upstream moves between two calls and during one; every        *)
(* command may fail, and a call may be killed at any step.                  *)
(*                                                                         *)
(* A revision is <<d, 0>>, the d-th commit of develop, or <<d, k>>, the     *)
(* pull request as pushed the k-th time on top of it.                       *)
(***************************************************************************)
EXTENDS Integers, Sequences

CONSTANTS
  MaxDevelop, MaxPushes, (* bounds on what happens upstream                *)
  MaxCalls,  (* bound on the calls of either script                        *)
  Missing, Broken, NULL

ASSUME UpstreamAssumption == MaxDevelop \in Nat /\ MaxPushes \in Nat \ {0}
ASSUME WorkdirCalls       == MaxCalls \in Nat

VARIABLES
  upstream,  (* develop: its last commit, pull: the head of the request    *)
  clone,     (* workdir/zlib-ng: the refs local, origin and pull            *)
  trees,     (* the worktrees there are: name -> revision, patched files and *)
             (* the other revisions with files in it                         *)
  builds,    (* the build directories: name -> what the binary is built of  *)
  jsons,     (* bench_pr.py's results: "base", "head" -> what was measured   *)
  pc, script, args, (* where the call is, which script, its options        *)
  k,         (* 1 for the base, 2 for the head                             *)
  revs,      (* the two revisions of this call                             *)
  traced,    (* insert_map.py: what wrote the bits of either revision      *)
  calls,
  fetched,   (* history: upstream when this call fetched                    *)
  stale      (* history: run_clean.py handed out an older result           *)

workdir == <<clone, trees, builds, jsons>>
call    == <<script, args, calls>>
vars    == <<upstream, workdir, pc, call, k, revs, traced, fetched, stale>>

----------------------------------------------------------------------------
Least(a, b) == IF a < b THEN a ELSE b

\* git merge-base of commit d of develop and a revision: external.
MergeBase(d, rev) == <<Least(d, rev[1]), 0>>

Put(f, name, value) == [n \in DOMAIN f \cup {name} |-> IF n = name THEN value ELSE f[n]]

\* The worktree of either revision.  With --base and --head a tree of
\* insert_map.py has the name of its revision.
TreeOf(i) ==
  IF script = "bench" THEN <<<<"base", "pr">>[i], NULL>>
  ELSE IF args.base = NULL THEN <<<<"trace-base", "trace-pr">>[i], NULL>>
  ELSE <<"trace", revs[i]>>

JsonOf(i) == <<"base", "head">>[i]

\* The files instrument patches, in the order it writes them.
Patched == <<"insert_string_p.h", "deflate.c", "insert_string.c">>

Init ==
  /\ upstream = [develop |-> 0, pull |-> <<0, 1>>]
  /\ clone = Missing /\ trees = <<>> /\ builds = <<>>
  /\ jsons = [base |-> Missing, head |-> Missing]
  /\ pc = "off" /\ script = "bench" /\ args = [base |-> NULL, opts |-> 0]
  /\ k = 1 /\ revs = <<>> /\ traced = <<>> /\ calls = 0
  /\ fetched = upstream /\ stale = FALSE

\* External: a commit on develop, or a push that may rebase the request.
Upstream ==
  /\ \/ upstream.develop < MaxDevelop /\ upstream' = [upstream EXCEPT !.develop = @ + 1]
     \/ /\ upstream.pull[2] < MaxPushes
        /\ \E d \in upstream.pull[1]..upstream.develop :
             upstream' = [upstream EXCEPT !.pull = <<d, upstream.pull[2] + 1>>]
  /\ UNCHANGED <<workdir, pc, call, k, revs, traced, fetched, stale>>

----------------------------------------------------------------------------
(* Up to the revisions: checkout of bench_pr.py, resolve of insert_map.py.  *)

\* base is a ref of --base, or NULL; opts stands for the filter, the data
\* types and the repetitions.
Start(s, base, opts) ==
  /\ pc = "off" /\ calls < MaxCalls
  /\ script' = s /\ args' = [base |-> base, opts |-> opts] /\ calls' = calls + 1
  /\ pc' = "clone" /\ k' = 1 /\ revs' = <<>> /\ traced' = <<>> /\ stale' = FALSE
  /\ UNCHANGED <<upstream, workdir, fetched>>

Clone ==
  /\ pc = "clone" /\ pc' = "fetch"
  /\ clone' = IF clone # Missing THEN clone
              ELSE [local |-> upstream.develop, origin |-> upstream.develop, pull |-> NULL]
  /\ UNCHANGED <<upstream, trees, builds, jsons, call, k, revs, traced, fetched, stale>>

\* Mutant: what was fetched before is not fetched again.
FetchOnce ==
  /\ pc = "fetch" /\ clone # Broken /\ pc' = "resolve"
  /\ clone' = IF clone.pull # NULL THEN clone
              ELSE [clone EXCEPT !.origin = upstream.develop, !.pull = upstream.pull]
  /\ fetched' = upstream
  /\ UNCHANGED <<upstream, trees, builds, jsons, call, k, revs, traced, stale>>

\* develop always, the request unless insert_map.py is given two refs.  The
\* branch develop of the clone stays where cloning left it.
Fetch ==
  /\ pc = "fetch" /\ clone # Broken /\ pc' = "resolve"
  /\ clone' = [clone EXCEPT !.origin = upstream.develop,
                 !.pull = IF script = "map" /\ args.base # NULL THEN @ ELSE upstream.pull]
  /\ fetched' = upstream
  /\ UNCHANGED <<upstream, trees, builds, jsons, call, k, revs, traced, stale>>

\* rev-parse of a ref, and merge-base where no ref is given.
RevOf(ref) ==
  IF ref = "develop" THEN <<clone.local, 0>>
  ELSE IF ref = "origin/develop" THEN <<clone.origin, 0>>
  ELSE clone.pull

Resolve ==
  /\ pc = "resolve" /\ clone.pull # NULL /\ pc' = "tree"
  /\ revs' = <<IF args.base = NULL THEN MergeBase(clone.origin, clone.pull)
               ELSE RevOf(args.base), clone.pull>>
  /\ UNCHANGED <<upstream, workdir, call, k, traced, fetched, stale>>

----------------------------------------------------------------------------
(* One revision after the other. *)

\* A tree of one revision; stray: others whose files an interrupted checkout left.
TreeWith(rev, patch) == [rev |-> rev, patch |-> patch, stray |-> {}]
Clean(rev) == TreeWith(rev, <<>>)

\* A tree whose local changes a checkout has to get along with, as bench_pr.py
\* does not force it.
Kept(i) == script = "bench" /\ TreeOf(i) \in DOMAIN trees /\ trees[TreeOf(i)] # Broken

\* git checkout without --force: external.  It refuses if a file that differs
\* between HEAD and the target was changed, writes those that are missing, and
\* carries over all other changes.
Leftovers(tree, rev) ==
  {left \in SUBSET tree.stray : rev \notin left /\ (rev = tree.rev => left = tree.stray)}

\* Mutant: no checkout is forced.
ParkCarries(i) ==
  trees' = Put(trees, TreeOf(i),
             IF TreeOf(i) \in DOMAIN trees /\ trees[TreeOf(i)] # Broken
             THEN [trees[TreeOf(i)] EXCEPT !.rev = revs[i]] ELSE Clean(revs[i]))

\* worktree add, or a checkout, which insert_map.py forces.  A worktree that was
\* not finished is refused without force, but for one without any file yet.
Park(i) ==
  \/ /\ Kept(i)
     /\ \E left \in Leftovers(trees[TreeOf(i)], revs[i]) :
          trees' = Put(trees, TreeOf(i), [rev |-> revs[i], patch |-> trees[TreeOf(i)].patch,
                                          stray |-> left])
  \/ ~Kept(i) /\ trees' = Put(trees, TreeOf(i), Clean(revs[i]))

\* A tree whose checkout was interrupted: HEAD and the index are written last.
HalfParked(i) ==
  IF ~Kept(i) THEN Put(trees, TreeOf(i), Broken)
  ELSE IF trees[TreeOf(i)].rev = revs[i] THEN trees
  ELSE [trees EXCEPT ![TreeOf(i)].stray = @ \cup {revs[i]}]

\* Both trees of bench_pr.py are parked before either is built; insert_map.py
\* takes one revision through all its steps first.
AfterTree ==
  IF script = "map" THEN pc' = "instrument" /\ UNCHANGED k
  ELSE IF k = 1 THEN k' = 2 /\ UNCHANGED pc ELSE pc' = "build" /\ k' = 1

Tree ==
  /\ pc = "tree" /\ Park(k) /\ AfterTree
  /\ UNCHANGED <<upstream, clone, builds, jsons, call, revs, traced, fetched, stale>>

\* instrument: nothing if the mark is in the first file, which it writes first.
\* A revision whose stores or slide have moved ends the call (Fail).
Instrument ==
  /\ pc = "instrument"
  /\ IF trees[TreeOf(k)].patch = <<>>
     THEN pc' = "patch" /\ trees' = [trees EXCEPT ![TreeOf(k)].patch = <<Patched[1]>>]
     ELSE pc' = "build" /\ UNCHANGED trees
  /\ UNCHANGED <<upstream, clone, builds, jsons, call, k, revs, traced, fetched, stale>>

Patch ==
  /\ pc = "patch"
  /\ LET n == Len(trees[TreeOf(k)].patch) + 1 IN
     /\ trees' = [trees EXCEPT ![TreeOf(k)].patch = Append(@, Patched[n])]
     /\ pc' = IF n = 3 THEN "build" ELSE "patch"
  /\ UNCHANGED <<upstream, clone, builds, jsons, call, k, revs, traced, fetched, stale>>

Build ==
  /\ pc = "build"
  /\ builds' = Put(builds, TreeOf(k), trees[TreeOf(k)])
  /\ IF script = "map" THEN pc' = "trace" /\ UNCHANGED k
     ELSE IF k = 1 THEN k' = 2 /\ UNCHANGED pc ELSE pc' = "bench" /\ k' = 1
  /\ UNCHANGED <<upstream, clone, trees, jsons, call, revs, traced, fetched, stale>>

\* run_clean.py writes the rows of this binary, or hands out what an earlier
\* call left when the binary exits before it opens its output.
Bench ==
  /\ pc = "bench"
  /\ \/ /\ jsons' = [jsons EXCEPT ![JsonOf(k)] =
                       [rev |-> builds[TreeOf(k)].rev, stray |-> builds[TreeOf(k)].stray,
                        opts |-> args.opts]]
        /\ UNCHANGED stale
     \/ jsons[JsonOf(k)] \notin {Missing, Broken} /\ stale' = TRUE /\ UNCHANGED jsons
  /\ IF k = 1 THEN k' = 2 /\ UNCHANGED pc ELSE pc' = "report" /\ k' = 1
  /\ UNCHANGED <<upstream, clone, trees, builds, call, revs, traced, fetched>>

\* harness and trace: the library of this build compresses the input and
\* writes its bits, whatever bits were there.
Trace ==
  /\ pc = "trace"
  /\ traced' = Append(traced, builds[TreeOf(k)])
  /\ IF k = 1 THEN k' = 2 /\ pc' = "tree" ELSE pc' = "report" /\ k' = 1
  /\ UNCHANGED <<upstream, workdir, call, revs, fetched, stale>>

\* compare_runs.py and graph_runs.py on the results, or the render of the map.
Report ==
  /\ pc = "report" /\ pc' = "off"
  /\ UNCHANGED <<upstream, workdir, call, k, revs, traced, fetched, stale>>

\* A command fails, which check=True turns into the end of the call, or the
\* call is killed.  What was being made is left as it was, half made, or away.
Fail ==
  /\ pc \notin {"off", "report"} /\ pc' = "off"
  /\ clone' \in {clone} \cup (IF pc = "clone" /\ clone = Missing THEN {Broken} ELSE {})
  /\ trees' \in {trees} \cup (IF pc = "tree" THEN {HalfParked(k)} ELSE {})
  /\ builds' \in {builds} \cup
       (IF pc = "build" THEN {[n \in DOMAIN builds \ {TreeOf(k)} |-> builds[n]]} ELSE {})
  /\ jsons' \in {jsons} \cup
       (IF pc = "bench" THEN {[jsons EXCEPT ![JsonOf(k)] = Broken]} ELSE {})
  /\ UNCHANGED <<upstream, call, k, revs, traced, fetched, stale>>

Calls ==
  \/ \E opts \in 1..2, base \in {NULL, "develop", "origin/develop"} : Start("bench", base, opts)
  \/ \E base \in {NULL, "develop", "origin/develop"} : Start("map", base, 1)

Next ==
  \/ Upstream \/ Calls \/ Clone \/ Fetch \/ Resolve \/ Tree \/ Instrument \/ Patch
  \/ Build \/ Bench \/ Trace \/ Report \/ Fail

Spec == Init /\ [][Next]_vars

----------------------------------------------------------------------------
\* The base without --base: the head's own, so that none of develop that the
\* request does not have is measured.
OwnBase == MergeBase(fetched.develop, fetched.pull)

(* However the directory was left by earlier calls of either script, and     *)
(* whatever is pushed meanwhile: the results compared are of this call's     *)
(* options, of the head it fetched and of that head's merge-base (bench_pr.py*)
(* :4-8), with no files of another revision in either but those that an      *)
(* interrupted checkout had left in its tree, unless run_clean.py handed out *)
(* an older file.                                                           *)
ComparedAsFetched ==
  pc = "report" /\ script = "bench" /\ ~stale =>
    LET measured(i, rev) ==
          [rev |-> rev, stray |-> trees[TreeOf(i)].stray, opts |-> args.opts]
    IN /\ jsons.head = measured(2, fetched.pull)
       /\ jsons.base = measured(1, IF args.base = NULL THEN OwnBase ELSE revs[1])

(* Each map is drawn from a build of the revision it is labelled with, of no *)
(* file of another, whose three files are patched exactly once, through kills*)
(* between two of them, trees left half patched and revisions that share a   *)
(* tree.                                                                    *)
TracedAsFetched ==
  pc = "report" /\ script = "map" =>
    /\ \A i \in 1..2 : traced[i] = TreeWith(revs[i], Patched)
    /\ args.base = NULL => revs = <<OwnBase, fetched.pull>>

(* What bench_pr.py:4-8 says of its two builds: one of the head, the other of *)
(* the base.  A checkout that was interrupted can leave files of a third      *)
(* revision, which the next call of that tree builds.                        *)
BuiltOfOneRevision ==
  pc = "report" /\ script = "bench" /\ ~stale =>
    jsons.base.stray = {} /\ jsons.head.stray = {}
=============================================================================
