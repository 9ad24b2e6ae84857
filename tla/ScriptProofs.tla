---------------------------- MODULE ScriptProofs ----------------------------
(***************************************************************************)
(* Proofs about the scripts that work on results of the binaries.           *)
(*                                                                         *)
(* Reports, for any benchmarks and any number of files: the rows merged are *)
(* the newest of every key of the files, which is an invariant of the merge *)
(* as it stands; what compare_runs.py loads of them follows.  Both loops    *)
(* are folds, and a fold is known here by the values it goes through.  The  *)
(* loop of the comparison keeps the times of the names it has passed, in    *)
(* the order of the names, and the sums of the two means follow.            *)
(*                                                                         *)
(* PrWorkdir: whatever upstream does, however many calls there are and       *)
(* wherever they are killed, a report is of what its call fetched.  Nothing *)
(* the work directory holds when a call starts is assumed but that a clone   *)
(* is a clone: IInv says, for every place of a call, what the call itself    *)
(* has made sure of since it fetched.  Files that an interrupted checkout    *)
(* left, which the unforced one of bench_pr.py carries over, are followed    *)
(* from the tree into the build and the result.                             *)
(***************************************************************************)
EXTENDS PrWorkdir, Reports, FoldTheorems

----------------------------------------------------------------------------
(* merge_runs.py and compare_runs.py. *)

\* The rows a document can have.
RowSet ==
  [run_name : ToSet(Names), doc : Nat, run_type : {"iteration", "aggregate"},
   aggregate_name : {"none", "mean", "median"}, real_time : Nat]

\* The keys of a set of rows.
KeysOf(rs) == {M!Key(r) : r \in rs}

\* No two rows have the same key.
Unique(rs) == \A i, j \in DOMAIN rs : M!Key(rs[i]) = M!Key(rs[j]) => i = j

\* Assigning a key leaves a list of rows.
LEMMA PutType ==
  ASSUME NEW R, NEW rs \in Seq(R), NEW r \in R
  PROVE  M!Put(rs, r) \in Seq(R)
<1> DEFINE p == [i \in DOMAIN rs |-> IF M!Key(rs[i]) = M!Key(r) THEN r ELSE rs[i]]
<1>1. p \in Seq(R)
  <2>1. DOMAIN rs = 1..Len(rs) /\ Len(rs) \in Nat /\ \A i \in 1..Len(rs) : rs[i] \in R
    OBVIOUS
  <2>2. p \in [1..Len(rs) -> R]
    BY <2>1
  <2> HIDE DEF p
  <2> QED BY <2>1, <2>2
<1>2. Append(rs, r) \in Seq(R)
  OBVIOUS
<1> HIDE DEF p
<1> QED BY <1>1, <1>2 DEF M!Put, p

\* One step of the fold that merges a file, as the community modules define it.
PutIter(g, n, rs, seq) ==
  [s \in SUBSET (1..n) |-> IF s = {} THEN rs ELSE M!Put(g[s \ {Max(s)}], seq[Max(s)])]

\* That fold, expanded: a value of a function chosen for satisfying its recursion.
LEMMA PutIsChosen ==
  ASSUME NEW n, NEW rs, NEW seq, DOMAIN seq = 1..n
  PROVE  M!FoldLeft(M!Put, rs, seq) = (CHOOSE g : g = PutIter(g, n, rs, seq))[1..n]
<1>1. \A s : M!Max(s) = Max(s)
  BY Zenon DEF M!Max, Max
<1> QED BY <1>1, Zenon DEF M!FoldLeft, M!MapThenFoldSet, PutIter

\* The values a fold of Put goes through.
PutSteps(f, n, rs, seq) ==
  /\ f[0] = rs /\ f[n] = M!FoldLeft(M!Put, rs, seq)
  /\ \A i \in 1..n : f[i] = M!Put(f[i - 1], seq[i])

\* Merging a file goes through the rows after each of its rows.
LEMMA PutFold ==
  ASSUME NEW R, NEW n \in Nat, NEW seq \in [1..n -> R], NEW rs \in Seq(R)
  PROVE  \E f : PutSteps(f, n, rs, seq)
<1> DEFINE V == Seq(R)
           Step(i, v) == IF i \in 1..n THEN M!Put(v, seq[i]) ELSE v
           F == [i \in Int |-> [v \in V |-> Step(i, v)]]
           it == CHOOSE g : g = PutIter(g, n, rs, seq)
           f == [i \in 0..n |-> it[1..i]]
<1>1. F \in [Int -> [V -> V]]
  <2>1. \A i \in Int, v \in V : Step(i, v) \in V
    <3> SUFFICES ASSUME NEW i \in Int, NEW v \in V PROVE Step(i, v) \in V
      OBVIOUS
    <3>1. CASE i \in 1..n
      <4>1. seq[i] \in R
        BY <3>1
      <4> QED BY <3>1, <4>1, PutType
    <3> QED BY <3>1
  <2> HIDE DEF V, Step
  <2> QED BY <2>1
<1>2. PICK g : g = Folded(g, n, rs, F) /\ \A s \in SUBSET (1..n) : g[s] \in V
  <2>1. rs \in V
    OBVIOUS
  <2> HIDE DEF F, V
  <2> QED BY <1>1, <2>1, FoldExists
<1>3. g = PutIter(g, n, rs, seq)
  <2>1. ASSUME NEW s \in SUBSET (1..n)
        PROVE  g[s] = IF s = {} THEN rs ELSE M!Put(g[s \ {Max(s)}], seq[Max(s)])
    <3>1. g[s] = IF s = {} THEN rs ELSE F[Max(s)][g[s \ {Max(s)}]]
      BY <1>2 DEF Folded
    <3>2. CASE s # {}
      <4> DEFINE m == Max(s)
                 v == g[s \ {m}]
      <4>1. m \in 1..n /\ m \in Int /\ v \in V
        <5>1. m \in s
          BY <3>2, LastIn
        <5> HIDE DEF m, V
        <5>2. m \in 1..n /\ s \ {m} \in SUBSET (1..n)
          BY <5>1
        <5>3. v \in V
          BY <1>2, <5>2
        <5> QED BY <5>2, <5>3
      <4> HIDE DEF m, v
      <4>2. F[m][v] = M!Put(v, seq[m])
        BY <4>1
      <4> QED BY <3>1, <3>2, <4>2 DEF m, v
    <3> QED BY <3>1, <3>2
  <2> HIDE DEF F
  <2> DEFINE Val(s) == IF s = {} THEN rs ELSE M!Put(g[s \ {Max(s)}], seq[Max(s)])
             Rec(s) == IF s = {} THEN rs ELSE F[Max(s)][g[s \ {Max(s)}]]
  <2>2. g = [s \in SUBSET (1..n) |-> Rec(s)]
    BY <1>2, Zenon DEF Folded
  <2>3. \A s \in SUBSET (1..n) : Val(s) = Rec(s)
    <3> SUFFICES ASSUME NEW s \in SUBSET (1..n) PROVE Val(s) = Rec(s)
      OBVIOUS
    <3>1. g[s] = Rec(s)
      <4> HIDE DEF Rec
      <4> QED BY <2>2
    <3> QED BY <2>1, <3>1
  <2>4. g = [s \in SUBSET (1..n) |-> Val(s)]
    <3> HIDE DEF Val, Rec
    <3> QED BY <2>2, <2>3
  <2> QED BY <2>4, Zenon DEF PutIter
<1>4. it = PutIter(it, n, rs, seq)
  BY <1>3, Zenon
<1> HIDE DEF it
<1>5. \A s \in SUBSET (1..n) : it[s] = IF s = {} THEN rs ELSE M!Put(it[s \ {Max(s)}], seq[Max(s)])
  BY <1>4 DEF PutIter
<1>6. f[0] = rs
  <2>1. 1..0 = {} /\ f[0] = it[1..0]
    OBVIOUS
  <2>2. it[{}] = rs
    BY <1>5
  <2> HIDE DEF f
  <2> QED BY <2>1, <2>2
<1>7. ASSUME NEW i \in 1..n PROVE f[i] = M!Put(f[i - 1], seq[i])
  <2>1. Max(1..i) = i /\ (1..i) \ {i} = 1..(i - 1) /\ 1..i # {}
    <3>1. i \in Nat \ {0}
      OBVIOUS
    <3> QED BY <3>1, LastOfFirst
  <2>2. 1..i \in SUBSET (1..n) /\ i \in 0..n /\ i - 1 \in 0..n
    OBVIOUS
  <2> QED BY <1>5, <2>1, <2>2
<1>8. f[n] = M!FoldLeft(M!Put, rs, seq)
  BY PutIsChosen DEF it
<1> HIDE DEF f
<1> QED BY <1>6, <1>7, <1>8 DEF PutSteps

\* What load makes of its rows, by name.
Loads(N, R) == UNION {[A -> R] : A \in SUBSET N}

\* A row that is read or not leaves a function from names to rows.
LEMMA LoadedType ==
  ASSUME NEW N, NEW R, NEW res \in Loads(N, R), NEW r \in R, r.run_name \in N
  PROVE  Loaded(res, r) \in Loads(N, R)
<1>1. PICK A \in SUBSET N : res \in [A -> R]
  BY DEF Loads
<1> DEFINE B == A \cup {r.run_name}
           p == [n \in DOMAIN res \cup {r.run_name} |-> IF n = r.run_name THEN r ELSE res[n]]
<1>2. p \in [B -> R] /\ B \in SUBSET N
  BY <1>1
<1> HIDE DEF p, B
<1> QED BY <1>2 DEF Loaded, Loads, p

\* One step of the fold that is load.
LoadIter(g, n, seq) ==
  [s \in SUBSET (1..n) |-> IF s = {} THEN <<>> ELSE Loaded(g[s \ {Max(s)}], seq[Max(s)])]

\* load, expanded in the same way.
LEMMA LoadIsChosen ==
  ASSUME NEW n, NEW seq, DOMAIN seq = 1..n
  PROVE  load(seq) = (CHOOSE g : g = LoadIter(g, n, seq))[1..n]
BY Zenon DEF load, FoldLeft, MapThenFoldSet, LoadIter

\* The values load goes through.
LoadSteps(f, n, seq) ==
  /\ f[0] = <<>> /\ f[n] = load(seq)
  /\ \A i \in 1..n : f[i] = Loaded(f[i - 1], seq[i])

\* load goes through what it has after each row.
LEMMA LoadFold ==
  ASSUME NEW N, NEW R, NEW n \in Nat, NEW seq \in [1..n -> R], \A r \in R : r.run_name \in N
  PROVE  \E f : LoadSteps(f, n, seq)
<1> DEFINE V == Loads(N, R)
           Step(i, v) == IF i \in 1..n THEN Loaded(v, seq[i]) ELSE v
           F == [i \in Int |-> [v \in V |-> Step(i, v)]]
           it == CHOOSE g : g = LoadIter(g, n, seq)
           f == [i \in 0..n |-> it[1..i]]
<1>1. F \in [Int -> [V -> V]]
  <2>1. \A i \in Int, v \in V : Step(i, v) \in V
    <3> SUFFICES ASSUME NEW i \in Int, NEW v \in V PROVE Step(i, v) \in V
      OBVIOUS
    <3>1. CASE i \in 1..n
      <4>1. seq[i] \in R
        BY <3>1
      <4> QED BY <3>1, <4>1, LoadedType
    <3> QED BY <3>1
  <2> HIDE DEF V, Step
  <2> QED BY <2>1
<1>2. PICK g : g = Folded(g, n, <<>>, F) /\ \A s \in SUBSET (1..n) : g[s] \in V
  <2>1. <<>> \in V
    <3>1. <<>> \in [{} -> R]
      OBVIOUS
    <3> QED BY <3>1 DEF Loads
  <2> HIDE DEF F, V
  <2> QED BY <1>1, <2>1, FoldExists
<1>3. g = LoadIter(g, n, seq)
  <2>1. ASSUME NEW s \in SUBSET (1..n)
        PROVE  g[s] = IF s = {} THEN <<>> ELSE Loaded(g[s \ {Max(s)}], seq[Max(s)])
    <3>1. g[s] = IF s = {} THEN <<>> ELSE F[Max(s)][g[s \ {Max(s)}]]
      BY <1>2 DEF Folded
    <3>2. CASE s # {}
      <4> DEFINE m == Max(s)
                 v == g[s \ {m}]
      <4>1. m \in 1..n /\ m \in Int /\ v \in V
        <5>1. m \in s
          BY <3>2, LastIn
        <5> HIDE DEF m, V
        <5>2. m \in 1..n /\ s \ {m} \in SUBSET (1..n)
          BY <5>1
        <5>3. v \in V
          BY <1>2, <5>2
        <5> QED BY <5>2, <5>3
      <4> HIDE DEF m, v
      <4>2. F[m][v] = Loaded(v, seq[m])
        BY <4>1
      <4> QED BY <3>1, <3>2, <4>2 DEF m, v
    <3> QED BY <3>1, <3>2
  <2> HIDE DEF F
  <2> DEFINE Val(s) == IF s = {} THEN <<>> ELSE Loaded(g[s \ {Max(s)}], seq[Max(s)])
             Rec(s) == IF s = {} THEN <<>> ELSE F[Max(s)][g[s \ {Max(s)}]]
  <2>2. g = [s \in SUBSET (1..n) |-> Rec(s)]
    BY <1>2, Zenon DEF Folded
  <2>3. \A s \in SUBSET (1..n) : Val(s) = Rec(s)
    <3> SUFFICES ASSUME NEW s \in SUBSET (1..n) PROVE Val(s) = Rec(s)
      OBVIOUS
    <3>1. g[s] = Rec(s)
      <4> HIDE DEF Rec
      <4> QED BY <2>2
    <3> QED BY <2>1, <3>1
  <2>4. g = [s \in SUBSET (1..n) |-> Val(s)]
    <3> HIDE DEF Val, Rec
    <3> QED BY <2>2, <2>3
  <2> QED BY <2>4, Zenon DEF LoadIter
<1>4. it = LoadIter(it, n, seq)
  BY <1>3, Zenon
<1> HIDE DEF it
<1>5. \A s \in SUBSET (1..n) :
        it[s] = IF s = {} THEN <<>> ELSE Loaded(it[s \ {Max(s)}], seq[Max(s)])
  BY <1>4 DEF LoadIter
<1>6. f[0] = <<>>
  <2>1. 1..0 = {} /\ f[0] = it[1..0]
    OBVIOUS
  <2>2. it[{}] = <<>>
    BY <1>5
  <2> HIDE DEF f
  <2> QED BY <2>1, <2>2
<1>7. ASSUME NEW i \in 1..n PROVE f[i] = Loaded(f[i - 1], seq[i])
  <2>1. Max(1..i) = i /\ (1..i) \ {i} = 1..(i - 1) /\ 1..i # {}
    <3>1. i \in Nat \ {0}
      OBVIOUS
    <3> QED BY <3>1, LastOfFirst
  <2>2. 1..i \in SUBSET (1..n) /\ i \in 0..n /\ i - 1 \in 0..n
    OBVIOUS
  <2> QED BY <1>5, <2>1, <2>2
<1>8. f[n] = load(seq)
  BY LoadIsChosen DEF it
<1> HIDE DEF f
<1> QED BY <1>6, <1>7, <1>8 DEF LoadSteps

\* What rows[key] = b makes of the rows.
LEMMA PutReplaces ==
  ASSUME NEW R, NEW rs \in Seq(R), NEW r \in R, Unique(rs)
  PROVE  /\ M!Put(rs, r) \in Seq(R) /\ Unique(M!Put(rs, r))
         /\ ToSet(M!Put(rs, r)) = {q \in ToSet(rs) : M!Key(q) # M!Key(r)} \cup {r}
<1>0. DOMAIN rs = 1..Len(rs) /\ Len(rs) \in Nat /\ \A i \in DOMAIN rs : rs[i] \in R
  OBVIOUS
<1>1. CASE \E i \in DOMAIN rs : M!Key(rs[i]) = M!Key(r)
  <2>1. PICK i \in DOMAIN rs : M!Key(rs[i]) = M!Key(r)
    BY <1>1
  <2> DEFINE p == [j \in DOMAIN rs |-> IF M!Key(rs[j]) = M!Key(r) THEN r ELSE rs[j]]
  <2>2. M!Put(rs, r) = p
    BY <1>1 DEF M!Put
  <2>3. DOMAIN p = DOMAIN rs /\ p[i] = r /\ \A j \in DOMAIN rs : j # i => p[j] = rs[j]
    BY <2>1 DEF Unique
  <2>4. Unique(p)
    <3> HIDE DEF p
    <3> QED BY <2>1, <2>3 DEF Unique
  <2>5. ToSet(p) = {q \in ToSet(rs) : M!Key(q) # M!Key(r)} \cup {r}
    <3> HIDE DEF p
    <3> QED BY <2>1, <2>3 DEF ToSet, Unique
  <2> QED BY <2>2, <2>4, <2>5, PutType
<1>2. CASE ~(\E i \in DOMAIN rs : M!Key(rs[i]) = M!Key(r))
  <2> DEFINE p == Append(rs, r)
             n == Len(rs) + 1
  <2>1. M!Put(rs, r) = p
    BY <1>2 DEF M!Put
  <2>2. /\ p \in Seq(R) /\ DOMAIN p = DOMAIN rs \cup {n} /\ n \notin DOMAIN rs
        /\ p[n] = r /\ \A j \in DOMAIN rs : p[j] = rs[j]
    BY <1>0
  <2> HIDE DEF p, n
  <2>3. Unique(p)
    BY <1>2, <2>2 DEF Unique
  <2>4. ToSet(p) = {q \in ToSet(rs) : M!Key(q) # M!Key(r)} \cup {r}
    BY <1>2, <2>2 DEF ToSet
  <2> QED BY <2>1, <2>2, <2>3, <2>4
<1> QED BY <1>1, <1>2

----------------------------------------------------------------------------
(* The documents. *)

\* The instance's copies of what both modules use.
LEMMA SameSequences ==
  /\ \A s : M!ToSet(s) = ToSet(s)
  /\ \A ns, ts, d : M!Documents(ns, ts, d) = Documents(ns, ts, d)
<1>1. \A s : M!ToSet(s) = ToSet(s)
  BY Zenon DEF M!ToSet, ToSet
<1>2. \A s : M!FlattenSeq(s) = FlattenSeq(s)
  BY Zenon DEF M!FlattenSeq, FlattenSeq
<1>3. \A o, m, d : M!Stamped(o, m, d) = Stamped(o, m, d)
  BY Zenon DEF M!Stamped, Stamped
<1>4. \A ts : M!Outcomes(ts) = Outcomes(ts)
  BY Zenon DEF M!Outcomes, Outcomes, M!Iteration, Iteration, M!Aggregates, Aggregates, M!Row, Row
<1>5. \A ns, ts, d : M!Documents(ns, ts, d) = Documents(ns, ts, d)
  BY <1>2, <1>3, <1>4, Zenon DEF M!Documents, Documents
<1> QED BY <1>1, <1>5

\* What is known of the d-th file.
WellFormed(D, d) ==
  /\ D \in Seq(RowSet)
  /\ \A r \in ToSet(D) :
       /\ r.doc = d
       /\ r.run_type = "iteration" <=> r.aggregate_name = "none"
       /\ r.aggregate_name = "mean" =>
            \E q \in ToSet(D) : q.run_name = r.run_name /\ q.aggregate_name = "median"

\* The rows of one benchmark: its mean comes with a median.
LEMMA StampedWellFormed ==
  ASSUME NEW times \in SUBSET (Nat \ {0}), NEW o \in {<<>>} \cup Outcomes(times),
         NEW name \in ToSet(Names), NEW d \in Nat
  PROVE  WellFormed(Stamped(o, name, d), d)
<1> DEFINE s == Stamped(o, name, d)
           St(r) == [run_name |-> name, doc |-> d, run_type |-> r.run_type,
                     aggregate_name |-> r.aggregate_name, real_time |-> r.real_time]
           Raw == [run_type : {"iteration", "aggregate"},
                   aggregate_name : {"none", "mean", "median"}, real_time : Nat]
<1>1. /\ o \in Seq(Raw)
      /\ \A i \in DOMAIN o : o[i].run_type = "iteration" <=> o[i].aggregate_name = "none"
      /\ \A i \in DOMAIN o : o[i].aggregate_name = "mean" =>
           \E j \in DOMAIN o : o[j].aggregate_name = "median"
  <2>1. \A t \in Nat : /\ Iteration(t) \in Raw
                       /\ Row("aggregate", "mean", t) \in Raw
                       /\ Row("aggregate", "median", t) \in Raw
    BY DEF Iteration, Row
  <2>2. CASE o = <<>>
    BY <2>2
  <2>3. CASE \E t \in times \cup {0} : o = <<Iteration(t)>>
    BY <2>1, <2>3 DEF Iteration, Row
  <2>4. CASE \E t \in times \cup {0} : o = <<Iteration(0), Iteration(t)>>
    BY <2>1, <2>4 DEF Iteration, Row
  <2>5. CASE \E t \in times : o = Aggregates(t)
    BY <2>1, <2>5 DEF Aggregates, Row
  <2>6. CASE \E t \in times : o = <<Iteration(t), Iteration(t)>> \o Aggregates(t)
    <3>1. PICK t \in times : o = <<Iteration(t), Iteration(t)>> \o Aggregates(t)
      BY <2>6
    <3>3. /\ Iteration(t) \in Raw /\ Row("aggregate", "mean", t) \in Raw
          /\ Row("aggregate", "median", t) \in Raw
      <4> HIDE DEF Raw
      <4> QED BY <2>1
    <3>4. /\ Iteration(t).run_type = "iteration" /\ Iteration(t).aggregate_name = "none"
          /\ Row("aggregate", "mean", t).run_type = "aggregate"
          /\ Row("aggregate", "mean", t).aggregate_name = "mean"
          /\ Row("aggregate", "median", t).run_type = "aggregate"
          /\ Row("aggregate", "median", t).aggregate_name = "median"
      BY DEF Iteration, Row
    <3>5. /\ DOMAIN o = 1..4 /\ o[1] = Iteration(t) /\ o[2] = Iteration(t)
          /\ o[3] = Row("aggregate", "mean", t) /\ o[4] = Row("aggregate", "median", t)
          /\ o \in Seq(Raw)
      <4> HIDE DEF Raw
      <4> QED BY <3>1, <3>3 DEF Aggregates
    <3> HIDE DEF Raw
    <3> QED BY ONLY <3>4, <3>5
  <2> QED BY <2>2, <2>3, <2>4, <2>5, <2>6 DEF Outcomes
<1>2. DOMAIN s = DOMAIN o /\ \A i \in DOMAIN o : s[i] = St(o[i])
  BY DEF Stamped
<1>3. \A r \in Raw : St(r) \in RowSet
  BY DEF RowSet
<1>4. s \in Seq(RowSet)
  <2>1. s \in [1..Len(o) -> RowSet]
    <3>1. \A i \in 1..Len(o) : o[i] \in Raw
      <4> HIDE DEF Raw
      <4>1. o \in Seq(Raw)
        BY <1>1
      <4> QED BY <4>1
    <3>2. DOMAIN o = 1..Len(o)
      BY <1>1
    <3>3. s = [i \in 1..Len(o) |-> St(o[i])]
      BY <3>2 DEF Stamped
    <3> HIDE DEF s, St, Raw
    <3> QED BY <1>3, <3>1, <3>3
  <2>2. Len(o) \in Nat
    BY <1>1
  <2> HIDE DEF s
  <2> QED BY ONLY <2>1, <2>2
<1> HIDE DEF Raw, s
<1>5. ASSUME NEW r \in ToSet(s)
      PROVE  /\ r.doc = d
             /\ r.run_type = "iteration" <=> r.aggregate_name = "none"
             /\ r.aggregate_name = "mean" =>
                  \E q \in ToSet(s) : q.run_name = r.run_name /\ q.aggregate_name = "median"
  <2>1. PICK i \in DOMAIN s : r = s[i]
    BY DEF ToSet
  <2>2. /\ r.doc = d /\ r.run_name = name /\ r.run_type = o[i].run_type
        /\ r.aggregate_name = o[i].aggregate_name
    BY <1>2, <2>1
  <2>3. ASSUME r.aggregate_name = "mean"
        PROVE  \E q \in ToSet(s) : q.run_name = r.run_name /\ q.aggregate_name = "median"
    <3>1. PICK j \in DOMAIN o : o[j].aggregate_name = "median"
      BY <1>1, <1>2, <2>1, <2>2, <2>3
    <3>2. s[j].run_name = name /\ s[j].aggregate_name = "median" /\ s[j] \in ToSet(s)
      BY <1>2, <3>1 DEF ToSet
    <3> QED BY <2>2, <3>2
  <2> QED BY <1>1, <1>2, <2>1, <2>2, <2>3
<1> QED BY <1>4, <1>5 DEF WellFormed, s

\* So does every mean of a whole file.
LEMMA DocumentsWellFormed ==
  ASSUME NEW d \in 0..MaxDocs, NEW D \in Documents(Names, Times(d), d)
  PROVE  WellFormed(D, d)
<1>1. PICK f \in [DOMAIN Names -> {<<>>} \cup Outcomes(Times(d))] :
        D = FlattenSeq([i \in DOMAIN Names |-> Stamped(f[i], Names[i], d)])
  BY DEF Documents
<1> DEFINE s == [i \in DOMAIN Names |-> Stamped(f[i], Names[i], d)]
           n == Len(Names)
<1>2. n \in Nat /\ DOMAIN Names = 1..n /\ d \in Nat /\ Times(d) \in SUBSET (Nat \ {0})
  BY NamesAssumption, DocsAssumption, TimesAssumption
<1>3. \A i \in 1..n : WellFormed(s[i], d)
  <2> SUFFICES ASSUME NEW i \in 1..n PROVE WellFormed(s[i], d)
    OBVIOUS
  <2>1. f[i] \in {<<>>} \cup Outcomes(Times(d)) /\ Names[i] \in ToSet(Names)
    BY <1>2 DEF ToSet
  <2>2. s[i] = Stamped(f[i], Names[i], d)
    BY <1>2
  <2> HIDE DEF s, n
  <2> QED BY <1>2, <2>1, <2>2, StampedWellFormed
<1>4. D = FlattenSeq(s) /\ s \in [1..n -> Seq(RowSet)]
  <2>1. \A i \in 1..n : s[i] \in Seq(RowSet)
    BY <1>3 DEF WellFormed
  <2>2. DOMAIN s = 1..n /\ s = [i \in 1..n |-> s[i]]
    BY <1>2
  <2> HIDE DEF n
  <2>3. s \in [1..n -> Seq(RowSet)]
    <3> HIDE DEF s
    <3> QED BY <2>1, <2>2
  <2> QED BY <1>1, <2>3
<1> HIDE DEF s, n
<1>5. D \in Seq(RowSet) /\ ToSet(D) = UNION {ToSet(s[i]) : i \in 1..n}
  BY <1>2, <1>4, FlattenProperties
<1>6. ASSUME NEW r \in ToSet(D)
      PROVE  /\ r.doc = d
             /\ r.run_type = "iteration" <=> r.aggregate_name = "none"
             /\ r.aggregate_name = "mean" =>
                  \E q \in ToSet(D) : q.run_name = r.run_name /\ q.aggregate_name = "median"
  <2>1. PICK i \in 1..n : r \in ToSet(s[i])
    BY <1>5
  <2>2. ToSet(s[i]) \subseteq ToSet(D)
    BY <1>5
  <2> QED BY <1>3, <2>1, <2>2 DEF WellFormed
<1> QED BY <1>5, <1>6 DEF WellFormed

\* Merging a file: its rows, and the older ones it has none for.
LEMMA MergedRows ==
  ASSUME NEW D \in Seq(RowSet), NEW rs \in Seq(RowSet), Unique(rs),
         NEW p, p = M!FoldLeft(M!Put, rs, D)
  PROVE  /\ p \in Seq(RowSet) /\ Unique(p)
         /\ KeysOf(ToSet(p)) = KeysOf(ToSet(rs)) \cup KeysOf(ToSet(D))
         /\ \A r \in ToSet(p) :
              r \in ToSet(D) \/ (r \in ToSet(rs) /\ M!Key(r) \notin KeysOf(ToSet(D)))
<1> DEFINE n == Len(D)
           First(i) == {D[j] : j \in 1..i}
           Merges(m, S) ==
             /\ m \in Seq(RowSet) /\ Unique(m)
             /\ KeysOf(ToSet(m)) = KeysOf(ToSet(rs)) \cup KeysOf(S)
             /\ \A x \in ToSet(m) : x \in S \/ (x \in ToSet(rs) /\ M!Key(x) \notin KeysOf(S))
<1>1. n \in Nat /\ D \in [1..n -> RowSet]
  OBVIOUS
<1>2. PICK f : /\ f[0] = rs /\ f[n] = p /\ \A i \in 1..n : f[i] = M!Put(f[i - 1], D[i])
  <2> HIDE DEF n
  <2>1. \E f : PutSteps(f, n, rs, D)
    BY <1>1, PutFold
  <2> QED BY <2>1, Zenon DEF PutSteps
<1> DEFINE G == {i \in Nat : i <= n => Merges(f[i], First(i))}
<1>3. 0 \in G
  <2>1. First(0) = {}
    OBVIOUS
  <2>2. Merges(rs, {})
    BY DEF KeysOf
  <2> HIDE DEF Merges, First
  <2> QED BY <1>2, <2>1, <2>2
<1>4. ASSUME NEW i \in Nat, i \in G PROVE i + 1 \in G
  <2> SUFFICES ASSUME i + 1 <= n PROVE Merges(f[i + 1], First(i + 1))
    <3> HIDE DEF Merges, First, n
    <3> QED OBVIOUS
  <2> DEFINE r == D[i + 1]
             q == f[i]
             T == First(i)
  <2>1. Merges(q, T)
    <3> HIDE DEF Merges, n
    <3> QED BY <1>1, <1>4
  <2>2. r \in RowSet /\ f[i + 1] = M!Put(q, r)
    <3>1. i + 1 \in 1..n /\ (i + 1) - 1 = i
      BY <1>1
    <3> HIDE DEF n
    <3> QED BY <1>1, <1>2, <3>1
  <2>3. First(i + 1) = T \cup {r}
    <3>1. 1..(i + 1) = 1..i \cup {i + 1}
      OBVIOUS
    <3> QED BY <3>1
  <2> DEFINE e == f[i + 1]
  <2> HIDE DEF r, q, T, First, e
  <2>4. /\ e \in Seq(RowSet) /\ Unique(e)
        /\ ToSet(e) = {x \in ToSet(q) : M!Key(x) # M!Key(r)} \cup {r}
    BY <2>1, <2>2, PutReplaces DEF e
  <2>5. KeysOf(ToSet(e)) = KeysOf(ToSet(q)) \cup {M!Key(r)}
    BY <2>4, Zenon DEF KeysOf
  <2>6. KeysOf(T \cup {r}) = KeysOf(T) \cup {M!Key(r)}
    BY Zenon DEF KeysOf
  <2>7. Merges(e, T \cup {r})
    <3>1. KeysOf(ToSet(e)) = KeysOf(ToSet(rs)) \cup KeysOf(T \cup {r})
      BY <2>1, <2>5, <2>6
    <3>2. ASSUME NEW x \in ToSet(e), x \notin T \cup {r}
          PROVE  x \in ToSet(rs) /\ M!Key(x) \notin KeysOf(T \cup {r})
      BY <2>1, <2>4, <2>6, <3>2
    <3> QED BY <2>4, <3>1, <3>2
  <2> QED BY <2>3, <2>7 DEF e
<1>5. n \in G
  <2> HIDE DEF G, n
  <2> QED BY <1>1, <1>3, <1>4, NatInductionSet
<1>6. First(n) = ToSet(D)
  BY DEF ToSet
<1>7. Merges(p, ToSet(D))
  <2> HIDE DEF Merges, First, n
  <2> QED BY <1>1, <1>2, <1>5, <1>6
<1> QED BY <1>7

----------------------------------------------------------------------------
(* The merge. *)

\* The keys of the first n files.
DocKeys(n) == UNION {KeysOf(ToSet(docs[d])) : d \in 1..n}

\* The newest row of every key of the files merged so far.
Newest(n) ==
  /\ KeysOf(ToSet(rows)) = DocKeys(n)
  /\ \A r \in ToSet(rows) :
       /\ r.doc \in 1..n /\ r \in ToSet(docs[r.doc])
       /\ \A e \in 1..n : e > r.doc => M!Key(r) \notin KeysOf(ToSet(docs[e]))

\* What is in the files, and in the rows merged of them.
MergeInv ==
  /\ merging \in {"measure", "merge", "written"}
  /\ docs \in Seq(Seq(RowSet)) /\ Len(docs) <= MaxDocs
  /\ \A d \in 1..Len(docs) : WellFormed(docs[d], d)
  /\ next \in 1..(Len(docs) + 1)
  /\ merging = "measure" => next = 1
  /\ merging = "written" => next = Len(docs) + 1
  /\ rows \in Seq(RowSet) /\ Unique(rows)
  /\ Newest(next - 1)

\* There are no files and no rows.
LEMMA MergeInit == ReportsInit => MergeInv
<1> SUFFICES ASSUME ReportsInit PROVE MergeInv
  OBVIOUS
<1>1. merging = "measure" /\ docs = <<>> /\ next = 1 /\ rows = <<>>
  BY DEF ReportsInit, M!Init
<1>2. ToSet(rows) = {} /\ Unique(rows)
  BY <1>1 DEF ToSet, Unique
<1>3. next - 1 = 0 /\ 1..0 = {} /\ Len(docs) = 0
  BY <1>1
<1>4. DocKeys(0) = {} /\ KeysOf({}) = {}
  BY <1>3 DEF DocKeys, KeysOf
<1>5. Newest(0)
  BY <1>2, <1>4 DEF Newest
<1> QED BY <1>1, <1>2, <1>3, <1>5, DocsAssumption DEF MergeInv

\* A binary adds a file, nothing of which has been merged.
LEMMA MeasureMerge == MergeInv /\ M!Measure => MergeInv'
<1> SUFFICES ASSUME MergeInv, M!Measure PROVE MergeInv'
  OBVIOUS
<1> DEFINE n == Len(docs)
<1>0. n \in Nat /\ next = 1 /\ n < MaxDocs
  BY DEF MergeInv, M!Measure
<1>1. PICK D \in Documents(Names, Times(n + 1), n + 1) : docs' = Append(docs, D)
  BY SameSequences DEF M!Measure
<1>2. WellFormed(D, n + 1)
  <2>1. n + 1 \in 0..MaxDocs
    BY <1>0, DocsAssumption
  <2> HIDE DEF n
  <2> QED BY <1>1, <2>1, DocumentsWellFormed
<1>3. /\ docs' \in Seq(Seq(RowSet)) /\ Len(docs') = n + 1 /\ docs'[n + 1] = D
      /\ \A d \in 1..n : docs'[d] = docs[d]
  BY <1>1, <1>2 DEF MergeInv, WellFormed
<1>4. ASSUME NEW d \in 1..Len(docs') PROVE WellFormed(docs'[d], d)
  <2>1. CASE d = n + 1
    BY <1>2, <1>3, <2>1
  <2>2. CASE d \in 1..n
    BY <1>3, <2>2 DEF MergeInv
  <2> QED BY <1>0, <1>3, <1>4, <2>1, <2>2
<1>5. merging' = merging /\ next' = next /\ rows' = rows /\ merging = "measure"
  BY DEF M!Measure
<1>6. Newest(0)'
  <2>1. Newest(0) /\ 1..0 = {}
    BY <1>0 DEF MergeInv
  <2>2. DocKeys(0) = {} /\ DocKeys(0)' = {}
    BY <2>1 DEF DocKeys
  <2> QED BY <1>5, <2>1, <2>2 DEF Newest
<1>7. Newest(next - 1)'
  <2>1. (next - 1)' = 0
    BY <1>0, <1>5
  <2> QED BY <1>6, <2>1
<1>8. Len(docs') <= MaxDocs /\ next' \in 1..(Len(docs') + 1)
  BY <1>0, <1>3, <1>5, DocsAssumption
<1>9. (rows \in Seq(RowSet) /\ Unique(rows))'
  BY <1>5 DEF MergeInv, Unique
<1> HIDE DEF n
<1> QED BY <1>0, <1>3, <1>4, <1>5, <1>7, <1>8, <1>9 DEF MergeInv

\* To start merges nothing.
LEMMA StartMerge == MergeInv /\ M!Start => MergeInv'
<1> SUFFICES ASSUME MergeInv, M!Start PROVE MergeInv'
  OBVIOUS
<1>1. docs' = docs /\ next' = next /\ rows' = rows /\ merging' = "merge"
  BY DEF M!Start
<1> QED BY <1>1 DEF MergeInv, Newest, DocKeys

\* Merging a file replaces the rows whose keys it has, and keeps the others.
LEMMA StepMerge == MergeInv /\ M!Merge => MergeInv'
<1> SUFFICES ASSUME MergeInv, M!Merge PROVE MergeInv'
  OBVIOUS
<1> DEFINE n == Len(docs)
<1>0. docs' = docs /\ merging = "merge" /\ n \in Nat
  BY DEF M!Merge, MergeInv
<1>1. CASE next > n
  <2>1. merging' = "written" /\ next' = next /\ rows' = rows
    BY <1>1 DEF M!Merge
  <2>2. next = n + 1
    BY <1>0, <1>1 DEF MergeInv
  <2> QED BY <1>0, <2>1, <2>2 DEF MergeInv, Newest, DocKeys
<1>2. CASE next <= n
  <2>0. PICK l : l = next
    OBVIOUS
  <2> DEFINE D == docs[l]
             p == rows'
  <2>1. merging' = merging /\ next' = l + 1 /\ p = M!FoldLeft(M!Put, rows, D)
    BY <2>0, <1>0, <1>2 DEF M!Merge, MergeInv
  <2>2. l \in 1..n /\ D \in Seq(RowSet) /\ WellFormed(D, l) /\ rows \in Seq(RowSet) /\ Unique(rows)
    BY <2>0, <1>2 DEF MergeInv
  <2>3. /\ p \in Seq(RowSet) /\ Unique(p)
        /\ KeysOf(ToSet(p)) = KeysOf(ToSet(rows)) \cup KeysOf(ToSet(D))
        /\ \A r \in ToSet(p) :
             r \in ToSet(D) \/ (r \in ToSet(rows) /\ M!Key(r) \notin KeysOf(ToSet(D)))
    <3> HIDE DEF D, p, n
    <3> QED BY <2>1, <2>2, MergedRows
  <2>4. DocKeys(l) = DocKeys(l - 1) \cup KeysOf(ToSet(D))
    <3>1. 1..l = 1..(l - 1) \cup {l}
      BY <2>2
    <3> QED BY <3>1, Zenon DEF DocKeys
  <2>5. Newest(l - 1)
    BY <2>0 DEF MergeInv
  <2>6. KeysOf(ToSet(p)) = DocKeys(l)
    BY <2>3, <2>4, <2>5 DEF Newest
  <2>7. ASSUME NEW r \in ToSet(p)
        PROVE  /\ r.doc \in 1..l /\ r \in ToSet(docs[r.doc])
               /\ \A e \in 1..l : e > r.doc => M!Key(r) \notin KeysOf(ToSet(docs[e]))
    <3>1. CASE r \in ToSet(D)
      <4>1. r.doc = l
        BY <2>2, <3>1 DEF WellFormed
      <4> QED BY <2>2, <3>1, <4>1
    <3>2. CASE r \in ToSet(rows) /\ M!Key(r) \notin KeysOf(ToSet(D))
      <4>1. /\ r.doc \in 1..(l - 1) /\ r \in ToSet(docs[r.doc])
            /\ \A e \in 1..(l - 1) : e > r.doc => M!Key(r) \notin KeysOf(ToSet(docs[e]))
        BY <2>5, <3>2 DEF Newest
      <4>2. \A e \in 1..l : e \in 1..(l - 1) \/ e = l
        BY <2>2
      <4> QED BY <2>2, <3>2, <4>1, <4>2
    <3> QED BY <2>3, <3>1, <3>2
  <2>8. Newest(l)'
    <3>1. DocKeys(l)' = DocKeys(l)
      BY <1>0 DEF DocKeys
    <3> QED BY <1>0, <2>6, <2>7, <3>1 DEF Newest
  <2>9. Newest(next - 1)'
    <3>1. (next - 1)' = l
      BY <2>1, <2>2
    <3> QED BY <2>8, <3>1
  <2>10. Unique(rows)'
    BY <2>3 DEF Unique
  <2>11. next' \in 1..(Len(docs) + 1)
    BY <2>1, <2>2
  <2> HIDE DEF n
  <2> QED BY <1>0, <2>1, <2>3, <2>9, <2>10, <2>11 DEF MergeInv
<1>3. next \in Int
  BY DEF MergeInv
<1> QED BY <1>0, <1>1, <1>2, <1>3

\* The merge reaches MergeInv and never leaves it; comparing changes nothing.
THEOREM MergeInvariant == ReportsSpec => []MergeInv
<1>1. MergeInv /\ [ReportsNext]_reportsVars => MergeInv'
  <2> SUFFICES ASSUME MergeInv, [ReportsNext]_reportsVars PROVE MergeInv'
    OBVIOUS
  <2>1. CASE M!Measure
    BY <2>1, MeasureMerge
  <2>2. CASE M!Start
    BY <2>2, StartMerge
  <2>3. CASE M!Merge
    BY <2>3, StepMerge
  <2>4. CASE UNCHANGED mergeVars
    BY <2>4 DEF mergeVars, MergeInv, Newest, DocKeys, Unique
  <2> QED BY <2>1, <2>2, <2>3, <2>4 DEF ReportsNext, Measure, Merge, StartCompare, Compare,
         reportsVars
<1> QED BY MergeInit, <1>1, PTL DEF ReportsSpec

\* The newest row of every key is one row for every key.
LEMMA PartitionOfInv == MergeInv => RowsPartition
<1> SUFFICES ASSUME MergeInv PROVE RowsPartition
  OBVIOUS
<1> DEFINE n == next - 1
           s == M!Merged
           Pairs(m) == {<<m[i].run_name, m[i].aggregate_name>> : i \in DOMAIN m}
<1>1. n \in 0..Len(docs) /\ Len(docs) \in Nat /\ docs \in Seq(Seq(RowSet))
  BY DEF MergeInv
<1>2. DOMAIN s = 1..n /\ \A d \in 1..n : s[d] = docs[d]
  <2> HIDE DEF n
  <2>1. s = SubSeq(docs, 1, n)
    BY DEF M!Merged, n
  <2> HIDE DEF s
  <2> QED BY <1>1, <2>1
<1> HIDE DEF s
<1>3. ToSet(s) = {docs[d] : d \in 1..n}
  BY <1>2 DEF ToSet
<1>4. \A m : Pairs(m) = KeysOf(ToSet(m))
  BY DEF KeysOf, ToSet, M!Key
<1>5. DocKeys(n) = UNION {KeysOf(ToSet(m)) : m \in ToSet(s)}
  BY <1>3, Zenon DEF DocKeys
<1>6. KeysOf(ToSet(rows)) = DocKeys(n) /\ Unique(rows)
  BY DEF MergeInv, Newest
<1>7. Pairs(rows) = UNION {Pairs(m) : m \in ToSet(s)}
  <2> HIDE DEF Pairs, n
  <2> QED BY <1>4, <1>5, <1>6
<1>8. \A i, j \in DOMAIN rows : M!Key(rows[i]) = M!Key(rows[j]) => i = j
  BY <1>6 DEF Unique
<1> QED BY <1>7, <1>8, Zenon DEF RowsPartition, s

\* Nothing is lost, doubled or made up by merging, whatever the files hold.
THEOREM RowsPartitionHolds == ReportsSpec => []RowsPartition
BY MergeInvariant, PartitionOfInv, PTL

----------------------------------------------------------------------------
(* load. *)

\* What a row that is read may be: an iteration, or a median.
Read(r) == r.aggregate_name \in {"none", "median"}

\* Only a row of a single repetition is an aggregate of none.
Typed(r) == r.run_type = "iteration" <=> r.aggregate_name = "none"

\* What load has made of the rows of T, no two of which have the same key.
LoadedFrom(res, T) ==
  /\ DOMAIN res = {r.run_name : r \in {q \in T : Read(q)}}
  /\ \A name \in DOMAIN res : res[name] \in T /\ res[name].run_name = name /\ Read(res[name])
  /\ \A r \in T : r.aggregate_name = "median" => res[r.run_name] = r

\* One row of load's loop: a median stays, as no other has its key.
LEMMA LoadedIs ==
  ASSUME NEW T \in SUBSET RowSet, NEW res, LoadedFrom(res, T), NEW r \in RowSet, Typed(r),
         \A q \in T : M!Key(q) # M!Key(r)
  PROVE  LoadedFrom(Loaded(res, r), T \cup {r})
<1> DEFINE name == r.run_name
           p == [n \in DOMAIN res \cup {name} |-> IF n = name THEN r ELSE res[n]]
           S == T \cup {r}
<1>0. \A q \in T : q.aggregate_name = "median" => q.run_name \in DOMAIN res
  BY DEF LoadedFrom, Read
<1>1. CASE r.aggregate_name = "median"
  <2>1. Loaded(res, r) = p
    BY <1>1 DEF Loaded
  <2>2. Read(r)
    BY <1>1 DEF Read
  <2>3. DOMAIN p = {q.run_name : q \in {x \in S : Read(x)}}
    BY <2>2 DEF LoadedFrom
  <2>4. \A n \in DOMAIN p : p[n] \in S /\ p[n].run_name = n /\ Read(p[n])
    BY <2>2 DEF LoadedFrom
  <2>5. \A q \in T : q.aggregate_name = "median" => q.run_name # name
    BY <1>1 DEF M!Key
  <2>6. \A q \in S : q.aggregate_name = "median" => p[q.run_name] = q
    BY <1>0, <2>5 DEF LoadedFrom
  <2> QED BY <2>1, <2>3, <2>4, <2>6 DEF LoadedFrom
<1>2. CASE r.aggregate_name = "none" /\ name \notin DOMAIN res
  <2>1. Loaded(res, r) = p
    BY <1>2 DEF Loaded, Typed
  <2>2. Read(r)
    BY <1>2 DEF Read
  <2>3. DOMAIN p = {q.run_name : q \in {x \in S : Read(x)}}
    BY <2>2 DEF LoadedFrom
  <2>4. \A n \in DOMAIN p : p[n] \in S /\ p[n].run_name = n /\ Read(p[n])
    BY <2>2 DEF LoadedFrom
  <2>5. r.aggregate_name # "median"
    BY <1>2
  <2>6. \A q \in S : q.aggregate_name = "median" => p[q.run_name] = q
    BY <1>0, <1>2, <2>5 DEF LoadedFrom
  <2> QED BY <2>1, <2>3, <2>4, <2>6 DEF LoadedFrom
<1>3. CASE r.aggregate_name # "median" /\ ~(r.aggregate_name = "none" /\ name \notin DOMAIN res)
  <2>1. Loaded(res, r) = res
    BY <1>3 DEF Loaded, Typed
  <2>2. Read(r) => name \in DOMAIN res
    BY <1>3 DEF Read
  <2> QED BY <1>3, <2>1, <2>2 DEF LoadedFrom
<1> QED BY <1>1, <1>2, <1>3

\* load has one row for every name with a row it reads, and the median of a name
\* that has one, wherever it stands.
LEMMA LoadIs ==
  ASSUME NEW rs \in Seq(RowSet), Unique(rs), \A r \in ToSet(rs) : Typed(r)
  PROVE  LoadedFrom(load(rs), ToSet(rs))
<1> DEFINE n == Len(rs)
           First(i) == {rs[j] : j \in 1..i}
<1>1. n \in Nat /\ rs \in [1..n -> RowSet] /\ DOMAIN rs = 1..n
  OBVIOUS
<1>2. PICK f : f[0] = <<>> /\ f[n] = load(rs) /\ \A i \in 1..n : f[i] = Loaded(f[i - 1], rs[i])
  <2> HIDE DEF n
  <2> DEFINE N == {r.run_name : r \in RowSet}
  <2>1. \A r \in RowSet : r.run_name \in N
    OBVIOUS
  <2> HIDE DEF N
  <2>2. \E f : LoadSteps(f, n, rs)
    BY <1>1, <2>1, LoadFold
  <2> QED BY <2>2, Zenon DEF LoadSteps
<1> DEFINE G == {i \in Nat : i <= n => LoadedFrom(f[i], First(i))}
<1>3. 0 \in G
  <2>1. First(0) = {}
    OBVIOUS
  <2>2. DOMAIN <<>> = {}
    OBVIOUS
  <2>3. LoadedFrom(<<>>, {})
    BY <2>2 DEF LoadedFrom
  <2> HIDE DEF First
  <2> QED BY <1>2, <2>1, <2>3
<1>4. ASSUME NEW i \in Nat, i \in G PROVE i + 1 \in G
  <2> SUFFICES ASSUME i + 1 <= n PROVE LoadedFrom(f[i + 1], First(i + 1))
    <3> HIDE DEF First, n
    <3> QED OBVIOUS
  <2> DEFINE r == rs[i + 1]
             T == First(i)
  <2>1. LoadedFrom(f[i], T)
    <3> HIDE DEF First, n
    <3> QED BY <1>1, <1>4
  <2>2. i + 1 \in 1..n /\ (i + 1) - 1 = i
    BY <1>1
  <2>3. r \in RowSet /\ Typed(r) /\ f[i + 1] = Loaded(f[i], r)
    <3>1. r \in ToSet(rs)
      BY <1>1, <2>2 DEF ToSet
    <3> HIDE DEF n
    <3> QED BY <1>1, <1>2, <2>2, <3>1
  <2>4. First(i + 1) = T \cup {r}
    <3>1. 1..(i + 1) = 1..i \cup {i + 1}
      OBVIOUS
    <3> QED BY <3>1
  <2>5. T \in SUBSET RowSet /\ \A q \in T : M!Key(q) # M!Key(r)
    <3> SUFFICES ASSUME NEW j \in 1..i PROVE rs[j] \in RowSet /\ M!Key(rs[j]) # M!Key(r)
      OBVIOUS
    <3>1. j \in 1..n /\ j # i + 1
      BY <1>1, <2>2
    <3> HIDE DEF n
    <3> QED BY <1>1, <2>2, <3>1 DEF Unique
  <2> HIDE DEF r, T, First
  <2> QED BY <2>1, <2>3, <2>4, <2>5, LoadedIs
<1>5. n \in G
  <2> HIDE DEF G, n
  <2> QED BY <1>1, <1>3, <1>4, NatInductionSet
<1>6. First(n) = ToSet(rs)
  BY <1>1 DEF ToSet
<1> HIDE DEF First, n
<1> QED BY <1>1, <1>2, <1>5, <1>6

\* Of the newest rows load takes those of the last file with the name: an older
\* row that it took instead would have a key the last file has not.
LEMMA RerunOfInv == MergeInv => RerunWins
<1> SUFFICES ASSUME MergeInv, merging = "written" PROVE RerunWins
  BY DEF RerunWins
<1> DEFINE n == Len(docs)
           T == ToSet(rows)
           result == load(rows)
           In(name, d) == name \in NamesOf(docs[d])
<1>1. /\ n \in Nat /\ next = n + 1 /\ rows \in Seq(RowSet) /\ Unique(rows) /\ Newest(n)
      /\ \A d \in 1..n : WellFormed(docs[d], d)
      /\ DOMAIN docs = 1..n
  BY DEF MergeInv
<1>2. \A r \in T : /\ r.doc \in 1..n /\ r \in ToSet(docs[r.doc]) /\ WellFormed(docs[r.doc], r.doc)
                   /\ \A e \in 1..n : e > r.doc => M!Key(r) \notin KeysOf(ToSet(docs[e]))
  BY <1>1 DEF Newest
<1> HIDE DEF n, T, result
<1>3. LoadedFrom(result, T)
  <2>1. \A r \in T : Typed(r)
    BY <1>2 DEF WellFormed, Typed
  <2> QED BY <1>1, <2>1, LoadIs DEF T, result
<1>4. \A m : NamesOf(m) = {r.run_name : r \in ToSet(m)} /\ M!NamesOf(m) = NamesOf(m)
  BY DEF NamesOf, ToSet, M!NamesOf
<1>5. DOMAIN result = NamesOf(rows)
  <2>1. ASSUME NEW r \in T PROVE \E q \in T : q.run_name = r.run_name /\ Read(q)
    <3>1. CASE Read(r)
      BY <3>1
    <3>2. CASE ~Read(r)
      <4> DEFINE D == docs[r.doc]
      <4>1. r \in RowSet /\ D \in Seq(RowSet) /\ r \in ToSet(D)
        BY <1>1, <1>2 DEF T, ToSet, WellFormed
      <4>2. r.aggregate_name = "mean"
        BY <3>2, <4>1 DEF Read, RowSet
      <4>3. PICK q \in ToSet(D) : q.run_name = r.run_name /\ q.aggregate_name = "median"
        BY <1>2, <4>1, <4>2 DEF WellFormed
      <4>4. M!Key(q) \in KeysOf(T)
        <5>1. M!Key(q) \in DocKeys(n)
          BY <1>2 DEF DocKeys, KeysOf
        <5> QED BY <1>1, <5>1 DEF Newest, T
      <4>5. PICK x \in T : M!Key(x) = M!Key(q)
        BY <4>4 DEF KeysOf
      <4>6. x.run_name = r.run_name /\ x.aggregate_name = "median"
        BY <4>3, <4>5 DEF M!Key
      <4> QED BY <4>6 DEF Read
    <3> QED BY <3>1, <3>2
  <2>2. NamesOf(rows) = {r.run_name : r \in T}
    BY <1>4 DEF T
  <2> QED BY <1>3, <2>1, <2>2 DEF LoadedFrom
<1>6. ASSUME NEW name \in DOMAIN result, M!SameKinds(name)
      PROVE  result[name].doc = M!LastWith(name)
  <2> DEFINE r == result[name]
             d == r.doc
             S == {e \in 1..n : In(name, e)}
             l == M!LastWith(name)
  <2>1. r \in T /\ r.run_name = name
    BY <1>3 DEF LoadedFrom
  <2> HIDE DEF r
  <2>2. d \in 1..n /\ r \in ToSet(docs[d]) /\ In(name, d)
    BY <1>2, <1>4, <2>1
  <2>3. l \in 1..n /\ In(name, l) /\ \A e \in 1..n : e > l => ~In(name, e)
    <3>1. S \in SUBSET (1..n) /\ S # {}
      BY <2>2
    <3>2. \E x \in S : \A y \in 1..n : y > x => y \notin S
      <4> HIDE DEF S
      <4> DEFINE x == Max(S)
      <4>1. x \in S /\ \A y \in S : x >= y
        BY <1>1, <3>1, LastIn
      <4> HIDE DEF x
      <4>2. x \in 1..n
        BY <3>1, <4>1
      <4>3. \A y \in 1..n : y > x => y \notin S
        BY <4>1, <4>2
      <4> QED BY <4>1, <4>3
    <3>3. l = CHOOSE x \in 1..n : In(name, x) /\ \A e \in 1..n : e > x => ~In(name, e)
      BY <1>1, <1>4 DEF M!LastWith
    <3>4. \E x \in 1..n : In(name, x) /\ \A e \in 1..n : e > x => ~In(name, e)
      BY <3>2
    <3> HIDE DEF l, In
    <3> QED BY <3>3, <3>4
  <2> HIDE DEF l, d
  <2>4. d <= l
    BY <1>1, <2>2, <2>3
  <2>5. ASSUME l > d PROVE FALSE
    <3>1. M!Kinds(docs[d], name) = M!Kinds(docs[l], name)
      BY <1>1, <1>4, <1>6, <2>2, <2>3 DEF M!SameKinds
    <3>2. r.aggregate_name \in M!Kinds(docs[d], name)
      BY <2>1, <2>2, SameSequences DEF M!Kinds
    <3>3. PICK q \in ToSet(docs[l]) : q.run_name = name /\ q.aggregate_name = r.aggregate_name
      BY <3>1, <3>2, SameSequences DEF M!Kinds
    <3>4. M!Key(r) = M!Key(q)
      BY <2>1, <3>3 DEF M!Key
    <3>5. M!Key(r) \in KeysOf(ToSet(docs[l]))
      BY <3>4 DEF KeysOf
    <3> QED BY <1>2, <2>1, <2>3, <2>5, <3>5 DEF d
  <2>6. d = l
    BY <2>2, <2>3, <2>4, <2>5
  <2> QED BY <2>6 DEF d, l, r
<1>7. ASSUME NEW i \in DOMAIN rows, rows[i].aggregate_name = "median"
      PROVE  result[rows[i].run_name] = rows[i]
  <2>1. rows[i] \in T
    BY DEF T, ToSet
  <2> QED BY <1>3, <1>7, <2>1 DEF LoadedFrom
<1> QED BY <1>5, <1>6, <1>7, Zenon DEF RerunWins, result

\* A segment run again with the same options replaces the older result whole, and
\* the median is read where there is one.
THEOREM RerunWinsHolds == ReportsSpec => []RerunWins
BY MergeInvariant, RerunOfInv, PTL

----------------------------------------------------------------------------
(* The comparison. *)

\* What load returns, for the documents there are.
Result == Loads(ToSet(Names), RowSet)

\* load makes a function from names to rows of any rows.
LEMMA LoadType ==
  ASSUME NEW rs \in Seq(RowSet)
  PROVE  load(rs) \in Result
<1> DEFINE n == Len(rs)
           N == ToSet(Names)
<1>1. n \in Nat /\ rs \in [1..n -> RowSet]
  OBVIOUS
<1>2. \A r \in RowSet : r.run_name \in N
  BY DEF RowSet
<1>3. PICK f : f[0] = <<>> /\ f[n] = load(rs) /\ \A i \in 1..n : f[i] = Loaded(f[i - 1], rs[i])
  <2> HIDE DEF n, N
  <2>1. \E f : LoadSteps(f, n, rs)
    BY <1>1, <1>2, LoadFold
  <2> QED BY <2>1, Zenon DEF LoadSteps
<1> DEFINE G == {i \in Nat : i <= n => f[i] \in Result}
<1>4. 0 \in G
  <2>1. <<>> \in [{} -> RowSet]
    OBVIOUS
  <2> QED BY <1>3, <2>1 DEF Result, Loads
<1>5. ASSUME NEW i \in Nat, i \in G PROVE i + 1 \in G
  <2> SUFFICES ASSUME i + 1 <= n PROVE f[i + 1] \in Result
    OBVIOUS
  <2>1. i + 1 \in 1..n /\ (i + 1) - 1 = i /\ f[i] \in Result /\ rs[i + 1] \in RowSet
    BY <1>1, <1>5
  <2>2. f[i + 1] = Loaded(f[i], rs[i + 1])
    BY <1>3, <2>1
  <2> HIDE DEF n, G
  <2> QED BY <1>2, <2>1, <2>2, LoadedType DEF Result
<1>6. n \in G
  <2> HIDE DEF G, n
  <2> QED BY <1>1, <1>4, <1>5, NatInductionSet
<1> HIDE DEF n
<1> QED BY <1>1, <1>3, <1>6

\* There are finitely many names.
LEMMA ResultFinite ==
  ASSUME NEW b \in Result, NEW c
  PROVE  /\ IsFiniteSet(DOMAIN b \cap DOMAIN c)
         /\ \A x \in DOMAIN b : b[x] \in RowSet /\ b[x].real_time \in Nat
<1>1. PICK A \in SUBSET ToSet(Names) : b \in [A -> RowSet]
  BY DEF Result, Loads
<1>2. IsFiniteSet(ToSet(Names))
  <2> DEFINE n == Len(Names)
             T == ToSet(Names)
  <2>1. n \in Nat /\ Names \in [1..n -> STRING]
    BY NamesAssumption
  <2>2. T = {Names[i] : i \in 1..n}
    BY <2>1 DEF ToSet
  <2> HIDE DEF n, T
  <2>3. Names \in Surjection(1..n, T)
    BY <2>1, <2>2 DEF Surjection
  <2>4. IsFiniteSet(1..n)
    BY <2>1, FS_Interval
  <2> QED BY <2>3, <2>4, FS_Surjection DEF T
<1>3. DOMAIN b \cap DOMAIN c \subseteq ToSet(Names)
  BY <1>1
<1>4. \A x \in DOMAIN b : b[x] \in RowSet /\ b[x].real_time \in Nat
  BY <1>1 DEF RowSet
<1> QED BY <1>2, <1>3, <1>4, FS_Subset

\* The instance's copies.
LEMMA SameFolds ==
  /\ \A S : C!Cardinality(S) = Cardinality(S)
  /\ \A f, S : C!SumFunctionOnSet(f, S) = SumFunctionOnSet(f, S)
  /\ \A f : C!SumFunction(f) = SumFunction(f)
  /\ \A s : C!ToSet(s) = ToSet(s) /\ C!load(s) = load(s)
  /\ \A f : C!IsInjective(f) = IsInjective(f)
<1>1. \A S : C!Cardinality(S) = Cardinality(S)
  BY Zenon DEF C!Cardinality, Cardinality
<1>2. \A f, S : C!SumFunctionOnSet(f, S) = SumFunctionOnSet(f, S)
  BY Zenon DEF C!SumFunctionOnSet, SumFunctionOnSet, C!FoldFunctionOnSet, FoldFunctionOnSet,
     C!MapThenFoldSet, MapThenFoldSet
<1>3. \A f : C!SumFunction(f) = SumFunction(f)
  BY <1>2 DEF C!SumFunction, SumFunction
<1>4. \A s : C!ToSet(s) = ToSet(s)
  BY Zenon DEF C!ToSet, ToSet
<1>5. \A s : C!load(s) = load(s)
  <2>1. \A o, r : C!Loaded(o, r) = Loaded(o, r)
    BY Zenon DEF C!Loaded, Loaded
  <2>2. \A s : C!Max(s) = Max(s)
    BY Zenon DEF C!Max, Max
  <2> QED BY <2>1, <2>2, Zenon DEF C!load, load, C!FoldLeft, FoldLeft, C!MapThenFoldSet,
             MapThenFoldSet
<1>6. \A f : C!IsInjective(f) = IsInjective(f)
  BY DEF C!IsInjective, IsInjective
<1> QED BY <1>1, <1>2, <1>3, <1>4, <1>5, <1>6

\* A set in some order.
LEMMA SetToSeqIs ==
  ASSUME NEW S, IsFiniteSet(S)
  PROVE  /\ Cardinality(S) \in Nat
         /\ C!SetToSeq(S) \in Bijection(1..Cardinality(S), S)
<1> DEFINE n == Cardinality(S)
           s == C!SetToSeq(S)
<1>1. n \in Nat /\ \E f : f \in Bijection(1..n, S)
  BY FS_CardinalityType DEF ExistsBijection
<1>2. PICK f : f \in Bijection(1..n, S)
  BY <1>1
<1> HIDE DEF n
<1>3. f \in [1..n -> S] /\ C!IsInjective(f)
  BY <1>2 DEF Bijection, Injection, C!IsInjective, IsInjective
<1>4. s = CHOOSE g \in [1..n -> S] : C!IsInjective(g)
  BY SameFolds, Zenon DEF C!SetToSeq, n
<1> HIDE DEF s
<1>5. s \in [1..n -> S] /\ C!IsInjective(s)
  BY <1>3, <1>4
<1>6. s \in Injection(1..n, S)
  BY <1>5 DEF Injection, C!IsInjective, IsInjective
<1>7. IsFiniteSet(1..n) /\ Cardinality(1..n) = n
  BY <1>1, FS_Interval
<1>8. s \in Surjection(1..n, S)
  BY <1>6, <1>7, FS_Injection DEF n
<1> QED BY <1>1, <1>6, <1>8 DEF Bijection, n, s

\* The names of both documents.
Shared(b, c) == DOMAIN b \cap DOMAIN c

\* Where the loop is: the names still to come, and the times of those before
\* them, in the order ns of the names.
Listed(b, c, ns, td, bt, nt) ==
  /\ ns \in Bijection(1..Cardinality(Shared(b, c)), Shared(b, c))
  /\ td \in Seq(Shared(b, c)) /\ bt \in Seq(Nat) /\ nt \in Seq(Nat)
  /\ Len(bt) = Len(nt) /\ Len(bt) + Len(td) = Cardinality(Shared(b, c))
  /\ \A i \in 1..Len(td) : td[i] = ns[Len(bt) + i]
  /\ \A i \in 1..Len(bt) : bt[i] = b[ns[i]].real_time /\ nt[i] = c[ns[i]].real_time

\* Before the loop every name is to come.
LEMMA ListedFirst ==
  ASSUME NEW b \in Result, NEW c \in Result, NEW ns, ns = C!SetToSeq(Shared(b, c))
  PROVE  Listed(b, c, ns, ns, <<>>, <<>>)
<1> DEFINE S == Shared(b, c)
           n == Cardinality(S)
<1>1. IsFiniteSet(S)
  BY ResultFinite DEF Shared
<1>2. n \in Nat /\ ns \in Bijection(1..n, S)
  BY <1>1, SetToSeqIs
<1> HIDE DEF n, S
<1>3. ns \in [1..n -> S]
  BY <1>2 DEF Bijection, Injection
<1>4. ns \in Seq(S) /\ Len(ns) = n
  BY <1>2, <1>3
<1>5. Len(<<>>) = 0 /\ <<>> \in Seq(Nat) /\ 0 + n = n /\ 1..0 = {}
  BY <1>2
<1>6. \A i \in 1..Len(ns) : ns[i] = ns[Len(<<>>) + i]
  <2> SUFFICES ASSUME NEW i \in 1..Len(ns) PROVE ns[i] = ns[Len(<<>>) + i]
    OBVIOUS
  <2>1. Len(<<>>) + i = i
    BY <1>2, <1>4, <1>5
  <2> QED BY <2>1
<1> QED BY <1>2, <1>4, <1>5, <1>6 DEF Listed, n, S

\* One step of the loop takes a name and its times.
LEMMA ListedStep ==
  ASSUME NEW b \in Result, NEW c \in Result, NEW ns, NEW td, NEW bt, NEW nt,
         Listed(b, c, ns, td, bt, nt), td # <<>>
  PROVE  Listed(b, c, ns, Tail(td), Append(bt, b[Head(td)].real_time),
                Append(nt, c[Head(td)].real_time))
<1> DEFINE S == Shared(b, c)
           n == Cardinality(S)
           x == Head(td)
           m == Len(bt)
           u == b[x].real_time
           v == c[x].real_time
           td2 == Tail(td)
           bt2 == Append(bt, u)
           nt2 == Append(nt, v)
<1>1. /\ ns \in Bijection(1..n, S) /\ td \in Seq(S) /\ bt \in Seq(Nat) /\ nt \in Seq(Nat)
      /\ Len(nt) = m /\ m + Len(td) = n
      /\ \A i \in 1..Len(td) : td[i] = ns[m + i]
      /\ \A i \in 1..m : bt[i] = b[ns[i]].real_time /\ nt[i] = c[ns[i]].real_time
  BY DEF Listed
<1> HIDE DEF S, n
<1>2. /\ x \in S /\ td2 \in Seq(S) /\ Len(td2) = Len(td) - 1 /\ Len(td) \in Nat \ {0} /\ m \in Nat
      /\ \A i \in 1..Len(td2) : td2[i] = td[i + 1]
  BY <1>1
<1>3. x = ns[m + 1]
  <2>1. x = td[1] /\ 1 \in 1..Len(td)
    BY <1>1, <1>2
  <2> HIDE DEF x, m
  <2> QED BY <1>1, <2>1
<1>4. u \in Nat /\ v \in Nat
  <2>1. x \in DOMAIN b /\ x \in DOMAIN c
    BY <1>2 DEF S, Shared
  <2> HIDE DEF x
  <2> QED BY <2>1, ResultFinite
<1> HIDE DEF x, u, v
<1>5. /\ bt2 \in Seq(Nat) /\ nt2 \in Seq(Nat) /\ Len(bt2) = m + 1 /\ Len(nt2) = m + 1
      /\ \A i \in 1..m : bt2[i] = bt[i] /\ nt2[i] = nt[i]
      /\ bt2[m + 1] = u /\ nt2[m + 1] = v
  BY <1>1, <1>4
<1> HIDE DEF td2, bt2, nt2, m
<1>6. Len(bt2) = Len(nt2) /\ Len(bt2) + Len(td2) = n
  BY <1>1, <1>2, <1>5
<1>7. ASSUME NEW i \in 1..Len(td2) PROVE td2[i] = ns[Len(bt2) + i]
  <2>1. i + 1 \in 1..Len(td) /\ td2[i] = td[i + 1]
    BY <1>2
  <2>2. td[i + 1] = ns[m + (i + 1)]
    BY <1>1, <2>1
  <2>3. m + (i + 1) = Len(bt2) + i
    BY <1>2, <1>5
  <2> QED BY <2>1, <2>2, <2>3
<1>8. ASSUME NEW i \in 1..Len(bt2)
      PROVE  bt2[i] = b[ns[i]].real_time /\ nt2[i] = c[ns[i]].real_time
  <2>1. i \in 1..m \/ i = m + 1
    BY <1>2, <1>5
  <2>2. CASE i \in 1..m
    BY <1>1, <1>5, <2>2
  <2>3. CASE i = m + 1
    BY <1>3, <1>5, <2>3 DEF u, v
  <2> QED BY <2>1, <2>2, <2>3
<1>9. Listed(b, c, ns, td2, bt2, nt2)
  BY <1>1, <1>2, <1>5, <1>6, <1>7, <1>8 DEF Listed, n, S
<1> QED BY <1>9 DEF td2, bt2, nt2, u, v, x

\* The comparison at every place of it.
CompareInv ==
  /\ comparing \in {"off", "load", "loop", "done", "exit"}
  /\ comparing \in {"off", "load"} => base_times = <<>> /\ new_times = <<>>
  /\ comparing = "load" => files[1] \in Seq(RowSet) /\ files[2] \in Seq(RowSet)
  /\ comparing \in {"loop", "done"} =>
       /\ base \in Result /\ cont \in Result
       /\ Listed(base, cont, C!Common, todo, base_times, new_times)
  /\ comparing = "done" => todo = <<>> /\ overall = <<C!geomean(base_times), C!geomean(new_times)>>

\* Nothing is loaded yet.
LEMMA CompareInit == ReportsInit => CompareInv
BY DEF ReportsInit, C!Init, CompareInv

\* One step per action; what merges leaves the comparison as it is.
LEMMA CompareNext == CompareInv /\ MergeInv /\ [ReportsNext]_reportsVars => CompareInv'
<1> SUFFICES ASSUME CompareInv, MergeInv, [ReportsNext]_reportsVars PROVE CompareInv'
  OBVIOUS
<1>1. CASE StartCompare
  <2>1. PICK b \in BaseDocuments : C!Start(b, rows)
    BY <1>1 DEF StartCompare
  <2>2. b \in Seq(RowSet) /\ rows \in Seq(RowSet)
    <3>1. 0 \in 0..MaxDocs
      BY DocsAssumption
    <3> QED BY <2>1, <3>1, DocumentsWellFormed DEF BaseDocuments, WellFormed, MergeInv
  <2>3. /\ comparing = "off" /\ comparing' = "load" /\ files' = <<b, rows>>
        /\ base_times' = base_times /\ new_times' = new_times
    BY <2>1 DEF C!Start
  <2>4. files'[1] = b /\ files'[2] = rows
    BY <2>3
  <2> QED BY <2>2, <2>3, <2>4 DEF CompareInv
<1>2. CASE C!Load
  <2>1. /\ comparing = "load" /\ base' = load(files[1]) /\ cont' = load(files[2])
        /\ todo' = (C!Common)' /\ comparing' \in {"exit", "loop"}
        /\ base_times' = <<>> /\ new_times' = <<>>
    BY <1>2, SameFolds DEF C!Load, CompareInv
  <2>2. base' \in Result /\ cont' \in Result
    BY <2>1, LoadType DEF CompareInv
  <2>3. Listed(base, cont, C!Common, todo, base_times, new_times)'
    <3> DEFINE ns == (C!Common)'
    <3>1. ns = C!SetToSeq(Shared(base', cont'))
      BY DEF C!Common, Shared
    <3> HIDE DEF ns
    <3>2. Listed(base', cont', ns, ns, <<>>, <<>>)
      BY <2>2, <3>1, ListedFirst
    <3> QED BY <2>1, <3>2 DEF ns
  <2> QED BY <2>1, <2>2, <2>3 DEF CompareInv
<1>3. CASE C!Compare
  <2>1. /\ comparing = "loop" /\ todo # <<>> /\ comparing' = comparing
        /\ base' = base /\ cont' = cont /\ todo' = Tail(todo)
        /\ base_times' = Append(base_times, base[Head(todo)].real_time)
        /\ new_times' = Append(new_times, cont[Head(todo)].real_time)
    BY <1>3 DEF C!Compare
  <2>2. /\ base \in Result /\ cont \in Result
        /\ Listed(base, cont, C!Common, todo, base_times, new_times)
    BY <2>1 DEF CompareInv
  <2>3. (C!Common)' = C!Common
    BY <2>1 DEF C!Common
  <2>4. Listed(base, cont, C!Common, Tail(todo), Append(base_times, base[Head(todo)].real_time),
               Append(new_times, cont[Head(todo)].real_time))
    BY <2>1, <2>2, ListedStep
  <2>5. Listed(base, cont, C!Common, todo, base_times, new_times)'
    BY <2>1, <2>3, <2>4
  <2> QED BY <2>1, <2>2, <2>5 DEF CompareInv
<1>4. CASE C!Overall
  <2>1. /\ comparing = "loop" /\ todo = <<>> /\ comparing' = "done"
        /\ overall' = <<C!geomean(base_times), C!geomean(new_times)>>
        /\ UNCHANGED <<base, cont, todo, base_times, new_times>>
    BY <1>4 DEF C!Overall
  <2>2. (C!Common)' = C!Common
    BY <2>1 DEF C!Common
  <2>3. /\ C!geomean(base_times)' = C!geomean(base_times)
        /\ C!geomean(new_times)' = C!geomean(new_times)
    BY <2>1
  <2> QED BY <2>1, <2>2, <2>3 DEF CompareInv
<1>5. CASE UNCHANGED compareVars
  <2>1. UNCHANGED <<comparing, files, base, cont, todo, base_times, new_times, overall>>
    BY <1>5 DEF compareVars
  <2>2. (C!Common)' = C!Common
    BY <2>1 DEF C!Common
  <2> QED BY <2>1, <2>2 DEF CompareInv
<1> QED BY <1>1, <1>2, <1>3, <1>4, <1>5 DEF ReportsNext, Measure, Merge, Compare, reportsVars

\* The geometric mean of times that are all positive.
LEMMA MeanOfAll ==
  ASSUME NEW vs \in Seq(Nat), \A i \in 1..Len(vs) : vs[i] > 0
  PROVE  /\ C!geomean(vs) = <<SumFunctionOnSet(vs, 1..Len(vs)), Len(vs)>>
         /\ Len(vs) \in Nat /\ IsFiniteSet(1..Len(vs)) /\ \A i \in 1..Len(vs) : vs[i] \in Nat
<1> DEFINE n == Len(vs)
<1>1. n \in Nat /\ DOMAIN vs = 1..n /\ \A i \in 1..n : vs[i] \in Nat
  OBVIOUS
<1>2. C!Positive(vs) = 1..n
  BY <1>1 DEF C!Positive
<1>3. IsFiniteSet(1..n) /\ Cardinality(1..n) = n
  <2> HIDE DEF n
  <2>1. /\ IsFiniteSet(1..n)
        /\ Cardinality(1..n) = IF 1 > n THEN 0 ELSE n - 1 + 1
    BY <1>1, FS_Interval
  <2>2. (IF 1 > n THEN 0 ELSE n - 1 + 1) = n
    BY <1>1
  <2> QED BY ONLY <2>1, <2>2
<1>4. C!geomean(vs) = <<C!SumFunctionOnSet(vs, C!Positive(vs)), C!Cardinality(C!Positive(vs))>>
  BY DEF C!geomean
<1> HIDE DEF n
<1>5. C!geomean(vs) = <<SumFunctionOnSet(vs, 1..n), n>>
  BY <1>2, <1>3, <1>4, SameFolds
<1> QED BY <1>1, <1>3, <1>5 DEF n

\* When nothing failed, the means are of the same pairs of rows as the ratios.
LEMMA GoodOverall == CompareInv => OverallOfGoodRuns
<1> SUFFICES ASSUME CompareInv, comparing = "done", ToSet(C!Common) = C!Good
             PROVE  C!MeanOfRatios(C!Good)
  BY SameFolds, Zenon DEF OverallOfGoodRuns
<1> DEFINE bt == base_times
           nt == new_times
           ns == C!Common
           S == Shared(base, cont)
           n == Cardinality(S)
           I == 1..n
<1>1. /\ base \in Result /\ cont \in Result /\ todo = <<>>
      /\ Listed(base, cont, ns, todo, bt, nt)
      /\ overall = <<C!geomean(bt), C!geomean(nt)>>
  BY DEF CompareInv
<1>2. /\ IsFiniteSet(S) /\ n \in Nat /\ ns \in Bijection(I, S)
      /\ bt \in Seq(Nat) /\ nt \in Seq(Nat) /\ Len(bt) = n /\ Len(nt) = n
      /\ \A i \in I : bt[i] = base[ns[i]].real_time /\ nt[i] = cont[ns[i]].real_time
  <2>1. IsFiniteSet(S)
    BY <1>1, ResultFinite DEF Shared
  <2>2. n \in Nat
    BY <2>1, FS_CardinalityType
  <2> HIDE DEF ns, n
  <2>3. Len(todo) = 0
    BY <1>1
  <2>4. /\ ns \in Bijection(1..n, S) /\ bt \in Seq(Nat) /\ nt \in Seq(Nat)
        /\ Len(bt) = Len(nt) /\ Len(bt) + Len(todo) = n
        /\ \A i \in 1..Len(bt) : bt[i] = base[ns[i]].real_time /\ nt[i] = cont[ns[i]].real_time
    BY <1>1 DEF Listed, n
  <2>5. Len(bt) = n
    BY <2>2, <2>3, <2>4
  <2> QED BY <2>1, <2>2, <2>4, <2>5
<1> HIDE DEF n, bt, nt
<1>3. /\ DOMAIN ns = I /\ \A i \in I : ns[i] \in S
      /\ \A i, j \in I : ns[i] = ns[j] => i = j
      /\ {ns[i] : i \in I} = S
  <2> HIDE DEF ns, S, I
  <2> QED BY <1>2 DEF Bijection, Injection, Surjection, IsInjective
<1>4. C!Good = S
  <2> HIDE DEF S, I
  <2>1. ToSet(ns) = S
    <3> HIDE DEF ns
    <3> QED BY <1>3 DEF ToSet
  <2> QED BY <2>1
<1>5. \A x \in S : /\ base[x].real_time \in Nat /\ cont[x].real_time \in Nat
                   /\ base[x].real_time > 0 /\ cont[x].real_time > 0
  <2>1. \A x \in DOMAIN base : base[x].real_time \in Nat
    BY <1>1, ResultFinite
  <2>2. \A x \in DOMAIN cont : cont[x].real_time \in Nat
    BY <1>1, ResultFinite
  <2>3. \A x \in C!Good : base[x].real_time > 0 /\ cont[x].real_time > 0
    BY DEF C!Good
  <2> QED BY <1>4, <2>1, <2>2, <2>3 DEF Shared
<1> HIDE DEF ns, S
<1>6. \A i \in I : bt[i] > 0 /\ nt[i] > 0
  BY <1>2, <1>3, <1>5
<1> DEFINE sb == SumFunctionOnSet(bt, I)
           sn == SumFunctionOnSet(nt, I)
<1>7. C!geomean(bt) = <<sb, n>> /\ C!geomean(nt) = <<sn, n>> /\ IsFiniteSet(I)
      /\ \A i \in I : bt[i] \in Int /\ nt[i] \in Int
  BY <1>2, <1>6, MeanOfAll
<1>8. sb \in Int /\ sn \in Int
  <2> HIDE DEF I
  <2> QED BY <1>7, SumType
<1> DEFINE df == [i \in I |-> nt[i] - bt[i]]
           rt == [x \in S |-> cont[x].real_time - base[x].real_time]
<1>9. \A i \in I : df[i] \in Int /\ df[i] = nt[i] - bt[i] /\ rt[ns[i]] = df[i]
  <2> SUFFICES ASSUME NEW i \in I PROVE df[i] \in Int /\ df[i] = nt[i] - bt[i] /\ rt[ns[i]] = df[i]
    OBVIOUS
  <2>1. df[i] = nt[i] - bt[i]
    OBVIOUS
  <2>2. rt[ns[i]] = cont[ns[i]].real_time - base[ns[i]].real_time
    BY <1>3
  <2> QED BY <1>2, <1>7, <2>1, <2>2
<1>10. DOMAIN rt = S /\ rt = [x \in C!Good |-> cont[x].real_time - base[x].real_time]
  BY <1>4
<1> HIDE DEF I, df, rt, sb, sn
<1>11. SumFunctionOnSet(df, I) = sn - sb
  BY <1>7, <1>9, SumDifference DEF sb, sn
<1>12. SumFunctionOnSet(rt, {ns[i] : i \in I}) = SumFunctionOnSet(df, I)
  BY <1>3, <1>7, <1>9, SumReindex
<1>13. C!SumFunction(rt) = sn - sb
  <2>1. C!SumFunction(rt) = SumFunctionOnSet(rt, S)
    BY <1>10, SameFolds DEF SumFunction
  <2> QED BY <1>3, <1>11, <1>12, <2>1
<1>14. C!Cardinality(C!Good) = n
  BY <1>4, SameFolds DEF n
<1>15. overall[1][1] = sb /\ overall[1][2] = n /\ overall[2][1] = sn /\ overall[2][2] = n
  BY <1>1, <1>7
<1>16. (sn * n - sb * n) * n = (sn - sb) * n * n
  BY <1>2, <1>8
<1> QED BY <1>10, <1>13, <1>14, <1>15, <1>16 DEF C!MeanOfRatios

\* The last line is right for runs of which nothing failed: no benchmark is in
\* one mean only or counted twice, however often it was repeated and merged.
THEOREM OverallOfGoodRunsHolds == ReportsSpec => []OverallOfGoodRuns
<1>1. ReportsSpec => []MergeInv
  BY MergeInvariant
<1>2. ReportsSpec => [](MergeInv /\ CompareInv)
  BY <1>1, CompareInit, CompareNext, PTL DEF ReportsSpec
<1> QED BY <1>2, GoodOverall, PTL

----------------------------------------------------------------------------
(* bench_pr.py and insert_map.py. *)

\* What a clone can hold.
Clones == [local : Nat, origin : Nat, pull : (Nat \X Nat) \cup {NULL}]

\* After which steps a call has its revisions.
Resolved == pc \in {"tree", "instrument", "patch", "build", "bench", "trace", "report"}

\* The types of the state, and which script has which steps.
TypeOK ==
  /\ upstream \in [develop : Nat, pull : Nat \X Nat]
  /\ fetched \in [develop : Nat, pull : Nat \X Nat]
  /\ clone \in Clones \cup {Missing, Broken}
  /\ pc = "fetch" => clone \in Clones \cup {Broken}
  /\ DOMAIN jsons = {"base", "head"}
  /\ script \in {"bench", "map"}
  /\ k \in 1..2
  /\ pc \in {"off", "clone", "fetch", "resolve"} \/ Resolved
  /\ pc \in {"instrument", "patch", "trace"} => script = "map"
  /\ pc = "bench" => script = "bench"

\* The clone holds what was fetched, and the revisions come of that.
Refs ==
  /\ pc = "resolve" => /\ clone \in Clones /\ clone.origin = fetched.develop
                       /\ script = "bench" \/ args.base = NULL => clone.pull = fetched.pull
  /\ Resolved /\ args.base = NULL => revs = <<OwnBase, fetched.pull>>
  /\ Resolved /\ script = "bench" => revs[2] = fetched.pull

\* A tree of either revision as insert_map.py has it, and a binary built of one:
\* nothing of another revision, and these files patched.
Ready(i, patch) ==
  TreeOf(i) \in DOMAIN trees /\ trees[TreeOf(i)] = TreeWith(revs[i], patch)

BuiltAs(i, patch) ==
  TreeOf(i) \in DOMAIN builds /\ builds[TreeOf(i)] = TreeWith(revs[i], patch)

\* A tree that bench_pr.py has parked at either revision, and a binary built of
\* it, with what an interrupted checkout left in the tree.
Parked(i) == TreeOf(i) \in DOMAIN trees /\ trees[TreeOf(i)].rev = revs[i]

BuiltOf(i) ==
  /\ Parked(i) /\ TreeOf(i) \in DOMAIN builds
  /\ builds[TreeOf(i)].rev = revs[i]
  /\ builds[TreeOf(i)].stray = trees[TreeOf(i)].stray

\* The steps before a call has its revisions.
Early == pc \in {"clone", "fetch", "resolve"}

\* The trace of either revision.
Drawn(i) == TreeWith(revs[i], Patched)

\* What insert_map.py has made sure of: of the revision at hand in each step,
\* and of the base once it is at the head.
MapSteps ==
  script = "map" =>
    /\ Early => traced = <<>> /\ k = 1
    /\ Resolved => traced = IF pc = "report" THEN <<Drawn(1), Drawn(2)>>
                            ELSE IF k = 1 THEN <<>> ELSE <<Drawn(1)>>
    /\ pc = "instrument" => Ready(k, <<>>)
    /\ pc = "patch" => Ready(k, <<Patched[1]>>) \/ Ready(k, <<Patched[1], Patched[2]>>)
    /\ pc = "build" => Ready(k, Patched)
    /\ pc = "trace" => BuiltAs(k, Patched)

\* The result of either revision.
Measured(i) == [rev |-> revs[i], stray |-> trees[TreeOf(i)].stray, opts |-> args.opts]

\* What bench_pr.py has made sure of: both trees, then both binaries, then
\* both results.
BenchSteps ==
  script = "bench" =>
    /\ Early => k = 1
    /\ pc = "tree" /\ k = 2 => Parked(1)
    /\ pc = "build" => Parked(1) /\ Parked(2) /\ (k = 2 => BuiltOf(1))
    /\ pc = "bench" => BuiltOf(1) /\ BuiltOf(2)
    /\ pc = "bench" /\ k = 2 /\ ~stale => jsons.base = Measured(1)
    /\ pc = "report" /\ ~stale => jsons.base = Measured(1) /\ jsons.head = Measured(2)

\* The inductive invariant of the work directory.
IInv == TypeOK /\ Refs /\ MapSteps /\ BenchSteps

----------------------------------------------------------------------------
\* What Append yields, told by its length and elements: the calls append one
\* revision's trace after the other, and one patched file after the other.
LEMMA AppendIs ==
  ASSUME NEW S, NEW s \in Seq(S), NEW e \in S, NEW t \in Seq(S),
         Len(t) = Len(s) + 1, \A i \in 1..Len(s) : t[i] = s[i], t[Len(s) + 1] = e
  PROVE  Append(s, e) = t
<1>1. Append(s, e) \in Seq(S) /\ Len(Append(s, e)) = Len(t)
  BY AppendProperties
<1>2. \A i \in 1..Len(t) : Append(s, e)[i] = t[i]
  BY AppendProperties
<1> QED BY <1>1, <1>2, SeqEqual

\* The appends of Patch and Trace, written out.
LEMMA AppendTuple ==
  ASSUME NEW x, NEW y, NEW z
  PROVE  /\ Append(<<>>, x) = <<x>>
         /\ Append(<<x>>, y) = <<x, y>>
         /\ Append(<<x, y>>, z) = <<x, y, z>>
<1> DEFINE S == {x, y, z}
<1>1. <<>> \in Seq(S) /\ <<x>> \in Seq(S) /\ <<x, y>> \in Seq(S) /\ <<x, y, z>> \in Seq(S)
  OBVIOUS
<1>2. x \in S /\ y \in S /\ z \in S
  OBVIOUS
<1> HIDE DEF S
<1>3. Append(<<>>, x) = <<x>>
  BY <1>1, <1>2, AppendIs
<1>4. Append(<<x>>, y) = <<x, y>>
  <2>1. \A i \in 1..Len(<<x>>) : <<x, y>>[i] = <<x>>[i]
    OBVIOUS
  <2>2. Len(<<x, y>>) = Len(<<x>>) + 1 /\ <<x, y>>[Len(<<x>>) + 1] = y
    OBVIOUS
  <2> QED BY <2>1, <2>2, <1>1, <1>2, AppendIs
<1>5. Append(<<x, y>>, z) = <<x, y, z>>
  <2>1. \A i \in 1..Len(<<x, y>>) : <<x, y, z>>[i] = <<x, y>>[i]
    OBVIOUS
  <2>2. Len(<<x, y, z>>) = Len(<<x, y>>) + 1 /\ <<x, y, z>>[Len(<<x, y>>) + 1] = z
    OBVIOUS
  <2> QED BY <2>1, <2>2, <1>1, <1>2, AppendIs
<1> QED BY <1>3, <1>4, <1>5

\* The two trees of bench_pr.py are different ones.
LEMMA TreesApart == script = "bench" => TreeOf(1) # TreeOf(2)
BY DEF TreeOf

\* Putting a tree or a build under its name leaves the others as they are.
LEMMA PutIs ==
  ASSUME NEW f, NEW n, NEW v
  PROVE  /\ n \in DOMAIN Put(f, n, v) /\ Put(f, n, v)[n] = v
         /\ \A o \in DOMAIN f : o \in DOMAIN Put(f, n, v)
         /\ \A o \in DOMAIN f : o # n => Put(f, n, v)[o] = f[o]
BY DEF Put

\* However a tree is parked, it is put under its name at its revision.
LEMMA ParkPuts ==
  ASSUME Park(k)
  PROVE  \E tree : tree.rev = revs[k] /\ trees' = Put(trees, TreeOf(k), tree)
BY DEF Park, Clean, TreeWith

\* Patching one more file of a tree changes no more of it.
LEMMA PatchTree ==
  ASSUME NEW f, NEW t \in DOMAIN f, NEW rev, NEW old, NEW new, f[t] = TreeWith(rev, old)
  PROVE  /\ f[t].patch = old
         /\ DOMAIN [f EXCEPT ![t].patch = new] = DOMAIN f
         /\ [f EXCEPT ![t].patch = new][t] = TreeWith(rev, new)
<1> DEFINE rec == f[t]
<1>1. rec = [rev |-> rev, patch |-> old, stray |-> {}]
  BY DEF TreeWith
<1>2. [f EXCEPT ![t].patch = new][t] = [rec EXCEPT !.patch = new]
  OBVIOUS
<1> HIDE DEF rec
<1>3. rec.patch = old /\ [rec EXCEPT !.patch = new] = [rev |-> rev, patch |-> new, stray |-> {}]
  BY <1>1
<1> QED BY <1>2, <1>3 DEF rec, TreeWith

\* Before the first call nothing is resolved, built or traced.
LEMMA InitIInv == Init => IInv
BY UpstreamAssumption DEF Init, IInv, TypeOK, Refs, MapSteps, BenchSteps, Resolved, Early

\* No step of a call, of upstream, and no failure takes back what the call has
\* made sure of: a failure ends the call, and the next one fetches again.
LEMMA NextIInv == IInv /\ [Next]_vars => IInv'
<1> SUFFICES ASSUME IInv, [Next]_vars PROVE IInv'
  OBVIOUS
<1>1. ASSUME Upstream PROVE IInv'
  <2>1. TypeOK'
    BY <1>1 DEF IInv, TypeOK, Resolved, Upstream, workdir, call
  <2>2. Refs'
    BY <1>1 DEF IInv, TypeOK, Refs, Resolved, OwnBase, Upstream, workdir, call
  <2>3. MapSteps'
    BY <1>1 DEF IInv, TypeOK, MapSteps, Resolved, Early, Ready, BuiltAs, Drawn, TreeOf, Upstream, workdir, call
  <2>4. BenchSteps'
    BY <1>1 DEF IInv, TypeOK, BenchSteps, Resolved, Early, Parked, BuiltOf, Measured, TreeOf, Upstream, workdir, call
  <2> QED BY <2>1, <2>2, <2>3, <2>4 DEF IInv
<1>2. ASSUME Calls PROVE IInv'
  <2>1. TypeOK'
    BY <1>2 DEF IInv, TypeOK, Resolved, Calls, workdir, Start
  <2>2. Refs'
    BY <1>2 DEF IInv, TypeOK, Refs, Resolved, OwnBase, Calls, workdir, Start
  <2>3. MapSteps'
    BY <1>2 DEF IInv, TypeOK, MapSteps, Resolved, Early, Ready, BuiltAs, Drawn, TreeOf, Calls, workdir, Start
  <2>4. BenchSteps'
    BY <1>2 DEF IInv, TypeOK, BenchSteps, Resolved, Early, Parked, BuiltOf, Measured, TreeOf, Calls, workdir, Start
  <2> QED BY <2>1, <2>2, <2>3, <2>4 DEF IInv
<1>3. ASSUME Clone PROVE IInv'
  <2>1. TypeOK'
    <3>1. /\ pc = "clone" /\ pc' = "fetch"
          /\ UNCHANGED <<upstream, jsons, call, k, fetched>>
      BY <1>3 DEF Clone
    <3>2. clone' \in Clones \cup {Broken}
      <4>1. CASE clone # Missing
        BY <1>3, <4>1 DEF IInv, TypeOK, Clone
      <4>2. CASE clone = Missing
        <5>1. clone' = [local |-> upstream.develop, origin |-> upstream.develop, pull |-> NULL]
          BY <1>3, <4>2 DEF Clone
        <5>2. upstream.develop \in Nat
          BY DEF IInv, TypeOK
        <5> QED BY <5>1, <5>2 DEF Clones
      <4> QED BY <4>1, <4>2
    <3> QED BY <3>1, <3>2 DEF IInv, TypeOK, Resolved, call
  <2>2. Refs'
    BY <1>3 DEF IInv, TypeOK, Refs, Resolved, OwnBase, Clone, call
  <2>3. MapSteps'
    BY <1>3 DEF IInv, TypeOK, MapSteps, Resolved, Early, Ready, BuiltAs, Drawn, TreeOf, Clone, call
  <2>4. BenchSteps'
    BY <1>3 DEF IInv, TypeOK, BenchSteps, Resolved, Early, Parked, BuiltOf, Measured, TreeOf, Clone, call
  <2> QED BY <2>1, <2>2, <2>3, <2>4 DEF IInv
<1>4. ASSUME Fetch PROVE IInv'
  <2> DEFINE pulled == IF script = "map" /\ args.base # NULL THEN clone.pull ELSE upstream.pull
  <2>a. /\ pc = "fetch" /\ pc' = "resolve" /\ fetched' = upstream
        /\ UNCHANGED <<upstream, jsons, call, k>>
    BY <1>4 DEF Fetch
  <2>b. /\ upstream.develop \in Nat /\ upstream.pull \in Nat \X Nat
        /\ clone \in Clones
    BY <1>4 DEF IInv, TypeOK, Fetch
  <2>c. /\ clone' = [clone EXCEPT !.origin = upstream.develop, !.pull = pulled]
        /\ pulled \in (Nat \X Nat) \cup {NULL}
    BY <1>4, <2>b DEF Fetch, Clones
  <2>d. script = "bench" \/ args.base = NULL => pulled = upstream.pull
    BY DEF IInv, TypeOK
  <2> HIDE DEF pulled
  <2>e. clone' \in Clones /\ clone'.origin = upstream.develop /\ clone'.pull = pulled
    BY <2>b, <2>c DEF Clones
  <2>1. TypeOK'
    BY <2>a, <2>e DEF IInv, TypeOK, Resolved, call
  <2>2. Refs'
    BY <2>a, <2>d, <2>e DEF Refs, Resolved, call
  <2>3. MapSteps'
    BY <1>4 DEF IInv, TypeOK, MapSteps, Resolved, Early, Ready, BuiltAs, Drawn, TreeOf, Fetch, call
  <2>4. BenchSteps'
    BY <1>4 DEF IInv, TypeOK, BenchSteps, Resolved, Early, Parked, BuiltOf, Measured, TreeOf, Fetch, call
  <2> QED BY <2>1, <2>2, <2>3, <2>4 DEF IInv
<1>5. ASSUME Resolve PROVE IInv'
  <2>1. TypeOK'
    BY <1>5 DEF IInv, TypeOK, Resolved, Resolve, workdir, call
  <2>2. Refs'
    BY <1>5 DEF IInv, TypeOK, Refs, Resolved, OwnBase, Resolve, workdir, call
  <2>3. MapSteps'
    BY <1>5 DEF IInv, TypeOK, MapSteps, Resolved, Early, Ready, BuiltAs, Drawn, TreeOf, Resolve, workdir, call
  <2>4. BenchSteps'
    BY <1>5 DEF IInv, TypeOK, BenchSteps, Resolved, Early, Parked, BuiltOf, Measured, TreeOf, Resolve, workdir, call
  <2> QED BY <2>1, <2>2, <2>3, <2>4 DEF IInv
<1>6. ASSUME Tree PROVE IInv'
  <2>1. TypeOK'
    BY <1>6 DEF IInv, TypeOK, Resolved, Tree, call, AfterTree
  <2>2. Refs'
    BY <1>6 DEF IInv, TypeOK, Refs, Resolved, OwnBase, Tree, call, AfterTree
  <2>3. MapSteps'
    <3> SUFFICES ASSUME script = "map" PROVE MapSteps'
      BY <1>6 DEF Tree, call, MapSteps
    <3>1. trees' = Put(trees, TreeOf(k), Clean(revs[k]))
      BY <1>6 DEF Tree, Park, Kept
    <3>2. TreeOf(k) \in DOMAIN trees' /\ trees'[TreeOf(k)] = TreeWith(revs[k], <<>>)
      BY <3>1, PutIs DEF Clean, TreeWith
    <3>3. pc = "tree" /\ pc' = "instrument" /\ UNCHANGED <<k, revs, traced, call>>
      BY <1>6 DEF Tree, AfterTree
    <3>4. Ready(k, <<>>)'
      BY <3>2, <3>3 DEF Ready, TreeOf, call
    <3> QED BY <3>3, <3>4 DEF IInv, MapSteps, Resolved, Early, Drawn, call
  <2>4. BenchSteps'
    <3> SUFFICES ASSUME script = "bench" PROVE BenchSteps'
      BY <1>6 DEF Tree, call, BenchSteps
    <3>1. PICK tree : tree.rev = revs[k] /\ trees' = Put(trees, TreeOf(k), tree)
      BY <1>6, ParkPuts DEF Tree
    <3>2. pc = "tree" /\ UNCHANGED <<revs, call>>
      BY <1>6 DEF Tree
    <3>3. CASE k = 1
      <4>1. k' = 2 /\ pc' = "tree"
        BY <1>6, <3>3 DEF Tree, AfterTree
      <4>2. TreeOf(1) \in DOMAIN trees' /\ trees'[TreeOf(1)].rev = revs[1]
        BY <3>1, <3>3, PutIs
      <4>3. Parked(1)'
        BY <3>2, <4>2 DEF Parked, TreeOf, call
      <4> QED BY <4>1, <4>3 DEF BenchSteps, Early
    <3>4. CASE k # 1
      <4>1. k = 2 /\ k' = 1 /\ pc' = "build"
        BY <1>6, <3>4 DEF IInv, TypeOK, Tree, AfterTree
      <4>2. Parked(1)
        BY <3>2, <4>1 DEF IInv, BenchSteps
      <4>3. /\ TreeOf(1) \in DOMAIN trees' /\ trees'[TreeOf(1)].rev = revs[1]
            /\ TreeOf(2) \in DOMAIN trees' /\ trees'[TreeOf(2)].rev = revs[2]
        BY <3>1, <4>1, <4>2, PutIs, TreesApart DEF Parked
      <4>4. Parked(1)' /\ Parked(2)'
        BY <3>2, <4>3 DEF Parked, TreeOf, call
      <4> QED BY <4>1, <4>4 DEF BenchSteps, Early
    <3> QED BY <3>3, <3>4
  <2> QED BY <2>1, <2>2, <2>3, <2>4 DEF IInv
<1>7. ASSUME Instrument PROVE IInv'
  <2>1. TypeOK'
    BY <1>7 DEF IInv, TypeOK, Resolved, Instrument, call
  <2>2. Refs'
    BY <1>7 DEF IInv, TypeOK, Refs, Resolved, OwnBase, Instrument, call
  <2>3. MapSteps'
    <3> DEFINE t == TreeOf(k)
               rev == revs[k]
    <3>1. /\ script = "map" /\ pc = "instrument" /\ UNCHANGED <<k, revs, traced, call>>
          /\ t \in DOMAIN trees /\ trees[t] = TreeWith(rev, <<>>)
      BY <1>7 DEF IInv, TypeOK, MapSteps, Ready, Instrument
    <3>2. trees[t].patch = <<>>
      BY <3>1, PatchTree
    <3>3. pc' = "patch" /\ trees' = [trees EXCEPT ![t].patch = <<Patched[1]>>]
      BY <1>7, <3>2 DEF Instrument
    <3> HIDE DEF t, rev
    <3>4. t \in DOMAIN trees' /\ trees'[t] = TreeWith(rev, <<Patched[1]>>)
      BY <3>1, <3>3, PatchTree
    <3>5. Ready(k, <<Patched[1]>>)'
      BY <3>1, <3>4 DEF Ready, TreeWith, TreeOf, call, Patched, t, rev
    <3> QED BY <3>1, <3>3, <3>5 DEF IInv, MapSteps, Resolved, Early, Drawn, call
  <2>4. BenchSteps'
    BY <1>7 DEF IInv, TypeOK, BenchSteps, Resolved, Early, Parked, BuiltOf, Measured, TreeOf, Instrument, call
  <2> QED BY <2>1, <2>2, <2>3, <2>4 DEF IInv
<1>8. ASSUME Patch PROVE IInv'
  <2>1. TypeOK'
    BY <1>8 DEF IInv, TypeOK, Resolved, Patch, call
  <2>2. Refs'
    BY <1>8 DEF IInv, TypeOK, Refs, Resolved, OwnBase, Patch, call
  <2>3. MapSteps'
    <3>1. /\ script = "map" /\ pc = "patch" /\ pc' \in {"patch", "build"}
          /\ UNCHANGED <<k, revs, traced, call>>
      BY <1>8 DEF IInv, TypeOK, Patch
    <3> DEFINE t == TreeOf(k)
               old == trees[t].patch
               n == Len(old) + 1
    <3>a. PICK was \in {<<Patched[1]>>, <<Patched[1], Patched[2]>>} :
            t \in DOMAIN trees /\ trees[t] = TreeWith(revs[k], was)
      BY <3>1 DEF IInv, MapSteps, Ready
    <3>2. /\ t \in DOMAIN trees /\ trees[t] = TreeWith(revs[k], old)
          /\ old = <<Patched[1]>> \/ old = <<Patched[1], Patched[2]>>
      BY <3>a, PatchTree
    <3>3. trees' = [trees EXCEPT ![t].patch = Append(old, Patched[n])]
      BY <1>8 DEF Patch
    <3>4. t \in DOMAIN trees' /\ trees'[t] = TreeWith(revs[k], Append(old, Patched[n]))
      <4> DEFINE new == Append(old, Patched[n])
                 had == old
                 rev == revs[k]
      <4>1. t \in DOMAIN trees /\ trees[t] = TreeWith(rev, had)
        BY <3>2
      <4>2. trees' = [trees EXCEPT ![t].patch = new]
        BY <3>3
      <4> HIDE DEF new, had, rev, t
      <4>3. t \in DOMAIN trees' /\ trees'[t] = TreeWith(rev, new)
        BY <4>1, <4>2, PatchTree
      <4> QED BY <4>3 DEF new, rev
    <3>5. pc' = IF n = 3 THEN "build" ELSE "patch"
      BY <1>8 DEF Patch
    <3>6. CASE old = <<Patched[1]>>
      <4> HIDE DEF old
      <4>0. n = 2
        BY <3>6
      <4>1. n = 2 /\ Append(old, Patched[n]) = <<Patched[1], Patched[2]>>
        BY <3>6, <4>0, AppendTuple
      <4>2. pc' = "patch"
        BY <3>5, <4>0
      <4>3. Ready(k, <<Patched[1], Patched[2]>>)'
        BY <3>1, <3>4, <4>1 DEF Ready, TreeOf, call, Patched
      <4> QED BY <3>1, <4>2, <4>3 DEF IInv, MapSteps, Resolved, Early, Drawn, call
    <3>7. CASE old = <<Patched[1], Patched[2]>>
      <4> HIDE DEF old
      <4>0. n = 3
        BY <3>7
      <4>a. Append(old, Patched[3]) = <<Patched[1], Patched[2], Patched[3]>>
        BY <3>7, AppendTuple
      <4>b. <<Patched[1], Patched[2], Patched[3]>> = Patched
        BY DEF Patched
      <4>1. n = 3 /\ Append(old, Patched[n]) = Patched
        BY <4>0, <4>a, <4>b
      <4>2. pc' = "build"
        BY <3>5, <4>0
      <4>3. Ready(k, Patched)'
        BY <3>1, <3>4, <4>1 DEF Ready, TreeOf, call, Patched
      <4> QED BY <3>1, <4>2, <4>3 DEF IInv, MapSteps, Resolved, Early, Drawn, call
    <3> QED BY <3>2, <3>6, <3>7
  <2>4. BenchSteps'
    BY <1>8 DEF IInv, TypeOK, BenchSteps, Resolved, Early, Parked, BuiltOf, Measured, TreeOf, Patch, call
  <2> QED BY <2>1, <2>2, <2>3, <2>4 DEF IInv
<1>9. ASSUME Build PROVE IInv'
  <2>1. TypeOK'
    BY <1>9 DEF IInv, TypeOK, Resolved, Build, call
  <2>2. Refs'
    BY <1>9 DEF IInv, TypeOK, Refs, Resolved, OwnBase, Build, call
  <2>3. MapSteps'
    <3> SUFFICES ASSUME script = "map" PROVE MapSteps'
      BY <1>9 DEF Build, call, MapSteps
    <3>1. pc = "build" /\ pc' = "trace" /\ UNCHANGED <<k, revs, traced, call>>
      BY <1>9 DEF Build
    <3>2. TreeOf(k) \in DOMAIN builds' /\ builds'[TreeOf(k)] = trees[TreeOf(k)]
      BY <1>9, PutIs DEF Build
    <3>3. trees[TreeOf(k)] = TreeWith(revs[k], Patched)
      BY <3>1 DEF IInv, MapSteps, Ready
    <3>4. BuiltAs(k, Patched)'
      BY <3>1, <3>2, <3>3 DEF BuiltAs, TreeOf, call, Patched
    <3> QED BY <3>1, <3>4 DEF IInv, MapSteps, Resolved, Early, Drawn, call
  <2>4. BenchSteps'
    <3> SUFFICES ASSUME script = "bench" PROVE BenchSteps'
      BY <1>9 DEF Build, call, BenchSteps
    <3>1. pc = "build" /\ UNCHANGED <<trees, revs, call>>
      BY <1>9 DEF Build
    <3>2. Parked(1) /\ Parked(2) /\ (k = 2 => BuiltOf(1))
      BY <3>1 DEF IInv, BenchSteps
    <3>3. builds' = Put(builds, TreeOf(k), trees[TreeOf(k)])
      BY <1>9 DEF Build
    <3>4. CASE k = 1
      <4>1. k' = 2 /\ pc' = "build"
        BY <1>9, <3>4 DEF Build
      <4>2. TreeOf(1) \in DOMAIN builds' /\ builds'[TreeOf(1)] = trees[TreeOf(1)]
        BY <3>3, <3>4, PutIs
      <4>3. Parked(1)' /\ Parked(2)' /\ BuiltOf(1)'
        BY <3>1, <3>2, <4>2 DEF Parked, BuiltOf, TreeOf, call
      <4> QED BY <4>1, <4>3 DEF BenchSteps, Early
    <3>5. CASE k # 1
      <4>1. k = 2 /\ k' = 1 /\ pc' = "bench"
        BY <1>9, <3>5 DEF IInv, TypeOK, Build
      <4>2. /\ TreeOf(1) \in DOMAIN builds' /\ builds'[TreeOf(1)] = builds[TreeOf(1)]
            /\ TreeOf(2) \in DOMAIN builds' /\ builds'[TreeOf(2)] = trees[TreeOf(2)]
        BY <3>2, <3>3, <4>1, PutIs, TreesApart DEF BuiltOf
      <4>3. BuiltOf(1)' /\ BuiltOf(2)'
        BY <3>1, <3>2, <4>1, <4>2 DEF Parked, BuiltOf, TreeOf, call
      <4> QED BY <4>1, <4>3 DEF BenchSteps, Early
    <3> QED BY <3>4, <3>5
  <2> QED BY <2>1, <2>2, <2>3, <2>4 DEF IInv
<1>10. ASSUME Bench PROVE IInv'
  <2>1. TypeOK'
    BY <1>10 DEF IInv, TypeOK, Resolved, Bench, call
  <2>2. Refs'
    BY <1>10 DEF IInv, TypeOK, Refs, Resolved, OwnBase, Bench, call
  <2>3. MapSteps'
    BY <1>10 DEF IInv, TypeOK, MapSteps, Resolved, Early, Ready, BuiltAs, Drawn, TreeOf, Bench, call
  <2>4. BenchSteps'
    <3>1. /\ script = "bench" /\ pc = "bench" /\ UNCHANGED <<trees, builds, revs, call>>
          /\ BuiltOf(1) /\ BuiltOf(2)
      BY <1>10 DEF IInv, TypeOK, BenchSteps, Bench
    <3>2. (BuiltOf(1) /\ BuiltOf(2))'
      BY <3>1 DEF Parked, BuiltOf, TreeOf, call
    <3>3. ~stale' => /\ ~stale
                    /\ jsons' = [jsons EXCEPT ![JsonOf(k)] = 
                          [rev |-> builds[TreeOf(k)].rev, stray |-> builds[TreeOf(k)].stray,
                           opts |-> args.opts]]
      BY <1>10 DEF Bench
    <3>4. CASE k = 1
      <4>1. k' = 2 /\ pc' = "bench"
        BY <1>10, <3>4 DEF Bench
      <4>2. ~stale' => jsons'.base = Measured(1)
        BY <3>1, <3>3, <3>4 DEF IInv, TypeOK, BuiltOf, JsonOf, Measured
      <4> QED BY <3>1, <3>2, <4>1, <4>2 DEF BenchSteps, Early, Measured, TreeOf, call
    <3>5. CASE k # 1
      <4>1. k = 2 /\ k' = 1 /\ pc' = "report"
        BY <1>10, <3>5 DEF IInv, TypeOK, Bench
      <4>2. ~stale => jsons.base = Measured(1)
        BY <3>1, <4>1 DEF IInv, BenchSteps
      <4>3. ~stale' => jsons'.base = Measured(1) /\ jsons'.head = Measured(2)
        BY <3>1, <3>3, <4>1, <4>2 DEF IInv, TypeOK, BuiltOf, JsonOf, Measured
      <4> QED BY <3>1, <4>1, <4>3 DEF BenchSteps, Early, Measured, TreeOf, call
    <3> QED BY <3>4, <3>5
  <2> QED BY <2>1, <2>2, <2>3, <2>4 DEF IInv
<1>11. ASSUME Trace PROVE IInv'
  <2>1. TypeOK'
    BY <1>11 DEF IInv, TypeOK, Resolved, Trace, workdir, call
  <2>2. Refs'
    BY <1>11 DEF IInv, TypeOK, Refs, Resolved, OwnBase, Trace, workdir, call
  <2>3. MapSteps'
    <3>1. script = "map" /\ pc = "trace" /\ UNCHANGED <<revs, call>>
      BY <1>11 DEF IInv, TypeOK, Trace
    <3>2. traced' = Append(traced, Drawn(k))
      BY <1>11, <3>1 DEF IInv, MapSteps, BuiltAs, Drawn, Trace
    <3>3. CASE k = 1
      <4>1. k' = 2 /\ pc' = "tree" /\ traced = <<>>
        BY <1>11, <3>1, <3>3 DEF IInv, MapSteps, Resolved, Trace
      <4>2. traced' = <<Drawn(1)>>
        BY <3>2, <3>3, <4>1, AppendTuple
      <4> QED BY <3>1, <4>1, <4>2 DEF MapSteps, Resolved, Early, Drawn, Patched
    <3>4. CASE k # 1
      <4>1. k = 2 /\ pc' = "report" /\ traced = <<Drawn(1)>>
        BY <1>11, <3>1, <3>4 DEF IInv, TypeOK, MapSteps, Resolved, Trace
      <4>2. traced' = <<Drawn(1), Drawn(2)>>
        BY <3>2, <4>1, AppendTuple
      <4> QED BY <3>1, <4>1, <4>2 DEF MapSteps, Resolved, Early, Drawn, Patched
    <3> QED BY <3>3, <3>4
  <2>4. BenchSteps'
    BY <1>11 DEF IInv, TypeOK, BenchSteps, Resolved, Early, Parked, BuiltOf, Measured, TreeOf, Trace, workdir, call
  <2> QED BY <2>1, <2>2, <2>3, <2>4 DEF IInv
<1>12. ASSUME Report PROVE IInv'
  <2>1. TypeOK'
    BY <1>12 DEF IInv, TypeOK, Resolved, Report, workdir, call
  <2>2. Refs'
    BY <1>12 DEF IInv, TypeOK, Refs, Resolved, OwnBase, Report, workdir, call
  <2>3. MapSteps'
    BY <1>12 DEF IInv, TypeOK, MapSteps, Resolved, Early, Ready, BuiltAs, Drawn, TreeOf, Report, workdir, call
  <2>4. BenchSteps'
    BY <1>12 DEF IInv, TypeOK, BenchSteps, Resolved, Early, Parked, BuiltOf, Measured, TreeOf, Report, workdir, call
  <2> QED BY <2>1, <2>2, <2>3, <2>4 DEF IInv
<1>13. ASSUME Fail PROVE IInv'
  <2>1. TypeOK'
    BY <1>13 DEF IInv, TypeOK, Resolved, Fail, call
  <2>2. Refs'
    BY <1>13 DEF IInv, TypeOK, Refs, Resolved, OwnBase, Fail, call
  <2>3. MapSteps'
    BY <1>13 DEF IInv, TypeOK, MapSteps, Resolved, Early, Ready, BuiltAs, Drawn, TreeOf, Fail, call
  <2>4. BenchSteps'
    BY <1>13 DEF IInv, TypeOK, BenchSteps, Resolved, Early, Parked, BuiltOf, Measured, TreeOf, Fail, call
  <2> QED BY <2>1, <2>2, <2>3, <2>4 DEF IInv
<1>14. CASE UNCHANGED vars
  BY <1>14 DEF IInv, TypeOK, Refs, MapSteps, BenchSteps, Resolved, Early, OwnBase, Ready,
               BuiltAs, Parked, BuiltOf, Drawn, Measured, TreeOf, vars, workdir, call
<1> QED BY <1>1, <1>2, <1>3, <1>4, <1>5, <1>6, <1>7, <1>8, <1>9, <1>10, <1>11, <1>12, <1>13, <1>14 DEF Next

----------------------------------------------------------------------------
\* At every place of a call of insert_map.py its tree, its build and its traces
\* are of the revisions it resolved and of no other.  At every place of one of
\* bench_pr.py they are parked at those revisions, measured with its options,
\* and hold what interrupted checkouts left in the tree and nothing else.
THEOREM CallIsOfItsRevisions == Spec => []IInv
<1> QED BY InitIInv, NextIInv, PTL DEF Spec

\* bench_pr.py compares the head it fetched with that head's merge-base (or
\* with --base), both with this call's options and with no other revision's
\* files than an interrupted checkout had left in the tree, unless run_clean.py
\* handed out an older file: for any number of calls, pushes and failures.
THEOREM ComparedAreFetched == Spec => []ComparedAsFetched
<1>1. IInv => ComparedAsFetched
  <2> SUFFICES ASSUME IInv, pc = "report", script = "bench", ~stale
               PROVE  ComparedAsFetched
    BY DEF ComparedAsFetched
  <2>1. jsons.base = Measured(1) /\ jsons.head = Measured(2)
    BY DEF IInv, BenchSteps
  <2>2. revs[2] = fetched.pull /\ (args.base = NULL => revs[1] = OwnBase)
    BY DEF IInv, Refs, Resolved
  <2> QED BY <2>1, <2>2 DEF ComparedAsFetched, Measured
<1> QED BY <1>1, CallIsOfItsRevisions, PTL

\* insert_map.py draws either map from a build of the revision it is labelled
\* with, with each of the three files patched once, however an earlier call was
\* killed: for any number of calls, pushes and failures.
THEOREM TracedAreFetched == Spec => []TracedAsFetched
<1>1. IInv => TracedAsFetched
  <2> SUFFICES ASSUME IInv, pc = "report", script = "map"
               PROVE  TracedAsFetched
    BY DEF TracedAsFetched
  <2>1. traced = <<Drawn(1), Drawn(2)>>
    BY DEF IInv, MapSteps, Resolved
  <2>2. args.base = NULL => revs = <<OwnBase, fetched.pull>>
    BY DEF IInv, Refs, Resolved
  <2> QED BY <2>1, <2>2 DEF TracedAsFetched, Drawn
<1> QED BY <1>1, CallIsOfItsRevisions, PTL
=============================================================================
