------------------------------ MODULE MergeRuns ------------------------------
(***************************************************************************)
(* src/scripts/merge_runs.py, which merges the documents of several runs of *)
(* a binary into one.                                                      *)
(***************************************************************************)
EXTENDS Runs

CONSTANTS
  Names,     (* the run_names, in the order a binary runs them             *)
  Times(_),  (* the times the d-th binary to run may measure               *)
  MaxDocs    (* bound on the files to merge                                *)

VARIABLES
  pc,      (* "measure", "merge" or "written"                              *)
  docs,    (* the files on the command line                                *)
  next,    (* the next of them to merge                                    *)
  rows     (* the rows dict, as the list of its values                     *)

vars == <<pc, docs, next, rows>>

Init == pc = "measure" /\ docs = <<>> /\ next = 1 /\ rows = <<>>

\* External: a binary runs the benchmarks its filter lets through.
Measure ==
  /\ pc = "measure" /\ Len(docs) < MaxDocs
  /\ \E d \in Documents(Names, Times(Len(docs) + 1), Len(docs) + 1) : docs' = Append(docs, d)
  /\ UNCHANGED <<pc, next, rows>>

\* The command line is complete.
Start ==
  /\ pc = "measure" /\ docs # <<>> /\ pc' = "merge"
  /\ UNCHANGED <<docs, next, rows>>

\* Mutant: a benchmark has one row.
KeyName(b) == b.run_name

Key(b) == <<b.run_name, b.aggregate_name>>

\* Mutant: the first row stays.
PutFirst(rs, b) ==
  IF \E i \in DOMAIN rs : Key(rs[i]) = Key(b) THEN rs ELSE Append(rs, b)

\* rows[key] = b: a key keeps the place it was first given.
Put(rs, b) ==
  IF \E i \in DOMAIN rs : Key(rs[i]) = Key(b)
  THEN [i \in DOMAIN rs |-> IF Key(rs[i]) = Key(b) THEN b ELSE rs[i]]
  ELSE Append(rs, b)

Merge ==
  /\ pc = "merge"
  /\ IF next > Len(docs) THEN pc' = "written" /\ UNCHANGED <<next, rows>>
     ELSE /\ rows' = FoldLeft(Put, rows, docs[next])
          /\ next' = next + 1 /\ UNCHANGED pc
  /\ UNCHANGED docs

Next == Measure \/ Start \/ Merge

----------------------------------------------------------------------------
Merged == SubSeq(docs, 1, next - 1)

Kinds(m, name) == {r.aggregate_name : r \in {q \in ToSet(m) : q.run_name = name}}

\* The files agree on how a benchmark is measured.
SameKinds(name) ==
  \A d, e \in DOMAIN docs : name \in NamesOf(docs[d]) \cap NamesOf(docs[e]) =>
    Kinds(docs[d], name) = Kinds(docs[e], name)

LastWith(name) ==
  CHOOSE d \in DOMAIN docs :
    /\ name \in NamesOf(docs[d])
    /\ \A e \in DOMAIN docs : e > d => name \notin NamesOf(docs[e])
=============================================================================
