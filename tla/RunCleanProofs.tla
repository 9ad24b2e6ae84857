---------------------------- MODULE RunCleanProofs ----------------------------
(***************************************************************************)
(* Proofs about RunClean, for any benchmarks, any number of retries, calls   *)
(* and kills: the rows of a benchmark stay together, a finished call has     *)
(* rows of its own, and only contaminated ones are replaced.                *)
(*                                                                         *)
(* Nothing is assumed of what a call finds in its two files but that a       *)
(* document there has one run per name: the invariant follows what is in     *)
(* them from the run that writes to the json.load that reads.               *)
(***************************************************************************)
EXTENDS RunClean, TLAPS

Pcs == {"off", "wait", "launch", "running", "read", "check", "open", "dump", "finished"}

TypeOK ==
  /\ pc \in Pcs
  /\ first \in BOOLEAN /\ stale \in BOOLEAN /\ gaveUp \in BOOLEAN
  /\ run \in Nat /\ since \in Nat /\ since <= run

OneRun(rows) == \A r, s \in rows : r.name = s.name => r.run = s.run

\* What there is to read, here or in the files, has one run per name.
Together ==
  /\ OneRun(doc)
  /\ ~Unreadable(out) => OneRun(out)
  /\ ~Unreadable(retry) => OneRun(retry)

Own(rows) == \A r \in rows : r.run > since

\* The first document read stays the result, its rows replaced.
Places ==
  /\ pc \in {"check", "open", "dump", "finished"} => ~first
  /\ pc \in {"running", "read"} => run > since
  /\ pc = "finished" => out = doc

\* While no run has left its output unopened: what was read is of this call,
\* and so is what is about to be.
Fresh ==
  ~stale =>
    /\ ~first => NamesOf(doc) = filter /\ Own(doc)
    /\ pc = "read" /\ first /\ ~Unreadable(out) => NamesOf(out) = filter /\ Own(out)
    /\ pc = "read" /\ ~first /\ ~Unreadable(retry) =>
         NamesOf(retry) = DirtyRows(doc) /\ Own(retry)

Reason ==
  pc \in {"open", "dump", "finished"} =>
    DirtyRows(doc) = {} \/ attempt = MaxRetries \/ gaveUp

IInv == TypeOK /\ Together /\ Places /\ Fresh /\ Reason

----------------------------------------------------------------------------
\* A run writes rows of exactly its benchmarks, all of this run.
LEMMA DocumentRows ==
  ASSUME NEW ns, NEW d \in Documents(ns)
  PROVE  NamesOf(d) = ns /\ \A r \in d : r.run = run
<1>1. PICK o \in [ns -> Outcomes] : d = UNION {RowsFor(n, o[n]) : n \in ns}
  BY DEF Documents
<1>2. \A n \in ns : \A r \in RowsFor(n, o[n]) : r.name = n /\ r.run = run
  BY DEF RowsFor
<1>3. \A n \in ns : \E r \in RowsFor(n, o[n]) : TRUE
  <2> TAKE n \in ns
  <2>1. CASE o[n] = "error"
    BY <2>1 DEF RowsFor
  <2>2. CASE o[n] # "error"
    <3>1. [name |-> n, agg |-> "mean", bad |-> "mean" = o[n], run |-> run] \in RowsFor(n, o[n])
      BY <2>2 DEF RowsFor
    <3> QED BY <3>1
  <2> QED BY <2>1, <2>2
<1>4. \A r \in d : \E n \in ns : r \in RowsFor(n, o[n])
  BY <1>1
<1>5. \A n \in ns : \E r \in d : r.name = n
  BY <1>1, <1>2, <1>3
<1> QED BY <1>2, <1>4, <1>5 DEF NamesOf

\* The splice drops a benchmark's rows by its name: no fresh row stands beside
\* an old one, and no benchmark is lost or brought in.
LEMMA SpliceIs ==
  ASSUME NEW old, NEW redo, OneRun(old), OneRun(redo)
  PROVE  /\ OneRun(Splice(old, redo))
         /\ NamesOf(Splice(old, redo)) = NamesOf(old) \cup NamesOf(redo)
         /\ Own(old) /\ Own(redo) => Own(Splice(old, redo))
         /\ \A n : n \notin NamesOf(redo) => RowsOf(Splice(old, redo), n) = RowsOf(old, n)
<1>1. OneRun(Splice(old, redo))
  BY DEF OneRun, Splice, NamesOf
<1>2. NamesOf(Splice(old, redo)) = NamesOf(old) \cup NamesOf(redo)
  BY DEF Splice, NamesOf
<1>3. Own(old) /\ Own(redo) => Own(Splice(old, redo))
  BY DEF Splice, Own
<1>4. \A n : n \notin NamesOf(redo) => RowsOf(Splice(old, redo), n) = RowsOf(old, n)
  BY DEF Splice, NamesOf, RowsOf
<1> QED BY <1>1, <1>2, <1>3, <1>4

\* Only benchmarks in the document are listed as contaminated.
LEMMA DirtyInDoc == ASSUME NEW rows PROVE DirtyRows(rows) \subseteq NamesOf(rows)
BY DEF DirtyRows

\* Nothing has been read, and there are no files.
LEMMA InitIInv == Init => IInv
<1> SUFFICES ASSUME Init PROVE IInv
  OBVIOUS
<1>1. TypeOK
  <2>1. first \in BOOLEAN /\ stale \in BOOLEAN /\ gaveUp \in BOOLEAN
    BY Zenon DEF Init
  <2>2. pc \in Pcs /\ run \in Nat /\ since \in Nat /\ since <= run
    BY DEF Init, Pcs
  <2> QED BY <2>1, <2>2 DEF TypeOK
<1>2. Together
  BY DEF Init, Together, OneRun, Unreadable
<1>3. Places /\ Reason
  BY DEF Init, Places, Reason
<1>4. Fresh
  BY DEF Init, Fresh
<1> QED BY <1>1, <1>2, <1>3, <1>4 DEF IInv

\* A run that ends, well or not, or is killed, leaves its file so that what the
\* script then reads is this run's, or stale tells.
LEMMA LeavesIInv ==
  ASSUME IInv, RunCompletes \/ RunBreaks \/ RunExitsEarly
  PROVE  IInv'
<1>1. /\ pc = "running" /\ pc' = "read"
      /\ UNCHANGED <<first, attempt, filter, doc, gaveUp, since, run>>
  BY DEF RunCompletes, RunBreaks, RunExitsEarly, Leaves
<1>2. run > since /\ stale' \in BOOLEAN
  BY <1>1 DEF IInv, TypeOK, Places, RunCompletes, RunBreaks, RunExitsEarly
<1>3. TypeOK' /\ Places' /\ Reason'
  BY <1>1, <1>2 DEF IInv, TypeOK, Pcs, Places, Reason
<1>4. PICK content :
        /\ IF first THEN out' = content /\ UNCHANGED retry
                    ELSE retry' = content /\ UNCHANGED out
        /\ ~Unreadable(content) => OneRun(content)
        /\ ~stale' => ~stale
        /\ ~stale' /\ ~Unreadable(content) => NamesOf(content) = Target /\ Own(content)
  <2>1. CASE RunCompletes
    <3>1. PICK d \in Documents(Target) : Leaves(d)
      BY <2>1 DEF RunCompletes
    <3>2. NamesOf(d) = Target /\ \A r \in d : r.run = run
      BY DocumentRows
    <3>3. OneRun(d) /\ Own(d)
      BY <1>2, <3>2 DEF OneRun, Own
    <3>4. /\ stale' = stale
          /\ IF first THEN out' = d /\ UNCHANGED retry ELSE retry' = d /\ UNCHANGED out
      BY <2>1, <3>1 DEF RunCompletes, Leaves
    <3> QED BY <3>2, <3>3, <3>4
  <2>2. CASE RunBreaks
    BY <2>2 DEF RunBreaks, Leaves, Unreadable
  <2>3. CASE RunExitsEarly
    <3>1. /\ stale' = (stale \/ ~Unreadable(OutPath))
          /\ IF first THEN out' = OutPath /\ UNCHANGED retry
                      ELSE retry' = OutPath /\ UNCHANGED out
      BY <2>3 DEF RunExitsEarly, Leaves
    <3>2. ~Unreadable(OutPath) => OneRun(OutPath)
      BY DEF IInv, Together, OutPath
    <3>3. ~stale' => ~stale /\ Unreadable(OutPath)
      BY <3>1
    <3> QED BY <3>1, <3>2, <3>3
  <2> QED BY <2>1, <2>2, <2>3
<1>5. Together'
  BY <1>1, <1>4 DEF IInv, Together, OneRun, Unreadable
<1>6. Target = IF first THEN filter ELSE DirtyRows(doc)
  BY DEF Target, RetryFilter
<1>7. Fresh'
  <2> SUFFICES ASSUME ~stale' PROVE Fresh'
    BY DEF Fresh
  <2>1. CASE first
    BY <1>1, <1>4, <1>6, <2>1 DEF IInv, Fresh, Own, Unreadable, NamesOf
  <2>2. CASE ~first
    <3>1. NamesOf(doc) = filter /\ Own(doc)
      BY <1>4, <2>2 DEF IInv, Fresh
    <3>2. ~Unreadable(retry)' => NamesOf(retry)' = DirtyRows(doc)' /\ Own(retry)'
      BY <1>1, <1>4, <1>6, <2>2 DEF Own, Unreadable, NamesOf, DirtyRows, RowsOf
    <3>3. NamesOf(doc)' = filter' /\ Own(doc)'
      BY <1>1, <3>1 DEF NamesOf, Own
    <3> QED BY <1>1, <2>2, <3>2, <3>3 DEF Fresh
  <2> QED BY <2>1, <2>2
<1> QED BY <1>3, <1>5, <1>7 DEF IInv

\* What the loop reads goes in by name, from a document of this call.
LEMMA ReadIInv == ASSUME IInv, ReadFirst \/ ReadRetry PROVE IInv'
<1>1. CASE ReadFirst
  <2>1. pc = "read" /\ first /\ UNCHANGED <<filter, gaveUp, since, stale, files, run>>
    BY <1>1 DEF ReadFirst
  <2>2. CASE Unreadable(out)
    BY <1>1, <2>1, <2>2 DEF IInv, TypeOK, Pcs, Together, Places, Fresh, Reason, OneRun, Own,
       Unreadable, NamesOf, ReadFirst, files
  <2>3. CASE ~Unreadable(out)
    <3>1. pc' = "check" /\ doc' = out /\ first' = FALSE
      BY <1>1, <2>3 DEF ReadFirst
    <3> QED BY <2>1, <2>3, <3>1 DEF IInv, TypeOK, Pcs, Together, Places, Fresh, Reason, OneRun,
            Own, Unreadable, NamesOf, files
  <2> QED BY <2>2, <2>3
<1>2. CASE ReadRetry
  <2>1. pc = "read" /\ ~first /\ UNCHANGED <<first, filter, since, stale, files, run>>
    BY <1>2 DEF ReadRetry
  <2>2. CASE Unreadable(retry)
    <3>1. pc' = "open" /\ gaveUp' = TRUE /\ UNCHANGED doc
      BY <1>2, <2>2 DEF ReadRetry
    <3> QED BY <2>1, <3>1 DEF IInv, TypeOK, Pcs, Together, Places, Fresh, Reason, OneRun, Own,
            Unreadable, NamesOf, files
  <2>3. CASE ~Unreadable(retry)
    <3>1. pc' = "check" /\ doc' = Splice(doc, retry) /\ UNCHANGED gaveUp
      BY <1>2, <2>3 DEF ReadRetry
    <3>2. OneRun(doc) /\ OneRun(retry)
      BY <2>3 DEF IInv, Together
    <3>3. OneRun(doc')
      BY <3>1, <3>2, SpliceIs
    <3>4. ~stale => NamesOf(doc') = filter /\ Own(doc')
      <4> SUFFICES ASSUME ~stale PROVE NamesOf(doc') = filter /\ Own(doc')
        OBVIOUS
      <4>1. /\ NamesOf(doc) = filter /\ Own(doc)
            /\ NamesOf(retry) = DirtyRows(doc) /\ Own(retry)
        BY <2>1, <2>3 DEF IInv, Fresh
      <4> QED BY <3>1, <3>2, <4>1, SpliceIs, DirtyInDoc
    <3> QED BY <2>1, <3>1, <3>3, <3>4 DEF IInv, TypeOK, Pcs, Together, Places, Fresh, Reason,
            OneRun, Own, Unreadable, NamesOf, files
  <2> QED BY <2>2, <2>3
<1> QED BY <1>1, <1>2

\* Every other step leaves the rows in memory and what is to be read alone.
LEMMA NextIInv == IInv /\ [Next]_vars => IInv'
<1> SUFFICES ASSUME IInv, [Next]_vars PROVE IInv'
  OBVIOUS
<1> USE DEF Pcs
<1>1. ASSUME Start PROVE IInv'
  <2>1. TypeOK'
    <3>1. (first \in BOOLEAN /\ stale \in BOOLEAN /\ gaveUp \in BOOLEAN)'
      BY <1>1, Zenon DEF Start
    <3>2. (pc \in Pcs /\ run \in Nat /\ since \in Nat /\ since <= run)'
      BY <1>1 DEF IInv, TypeOK, Start
    <3> QED BY <3>1, <3>2 DEF TypeOK
  <2>2. Together'
    BY <1>1 DEF IInv, Together, OneRun, Unreadable, Start, files
  <2>3. Places' /\ Reason'
    BY <1>1 DEF Places, Reason, Start
  <2>4. Fresh'
    BY <1>1 DEF Fresh, Start
  <2> QED BY <2>1, <2>2, <2>3, <2>4 DEF IInv
<1>2. ASSUME NEW busy \in BOOLEAN, WaitIdle(busy) PROVE IInv'
  BY <1>2 DEF IInv, TypeOK, Together, Places, Fresh, Reason, OneRun, Own, Unreadable, NamesOf,
     DirtyRows, RowsOf, WaitIdle, files
<1>3. ASSUME Launch PROVE IInv'
  BY <1>3 DEF IInv, TypeOK, Together, Places, Fresh, Reason, OneRun, Own, Unreadable, NamesOf,
     Launch, files
<1>4. ASSUME Check PROVE IInv'
  BY <1>4 DEF IInv, TypeOK, Together, Places, Fresh, Reason, OneRun, Own, Unreadable, NamesOf,
     DirtyRows, RowsOf, Check, files
<1>5. ASSUME OpenOut PROVE IInv'
  BY <1>5 DEF IInv, TypeOK, Together, Places, Fresh, Reason, OneRun, Own, Unreadable, NamesOf,
     DirtyRows, RowsOf, OpenOut
<1>6. ASSUME DumpOut PROVE IInv'
  BY <1>6 DEF IInv, TypeOK, Together, Places, Fresh, Reason, OneRun, Own, Unreadable, NamesOf,
     DirtyRows, RowsOf, DumpOut
<1>7. ASSUME Return PROVE IInv'
  BY <1>7 DEF IInv, TypeOK, Together, Places, Fresh, Reason, OneRun, Own, Unreadable, NamesOf,
     Return, files
<1>8. ASSUME Crash PROVE IInv'
  BY <1>8 DEF IInv, TypeOK, Together, Places, Fresh, Reason, OneRun, Own, Unreadable, NamesOf,
     Crash, files
<1>9. CASE UNCHANGED vars
  <2>1. TypeOK'
    BY <1>9 DEF IInv, TypeOK, vars, script, files
  <2>2. Together'
    BY <1>9 DEF IInv, Together, OneRun, Unreadable, vars, script, files
  <2>3. Places' /\ Reason'
    BY <1>9 DEF IInv, Places, Reason, DirtyRows, RowsOf, vars, script, files
  <2>4. Fresh'
    BY <1>9 DEF IInv, Fresh, Own, Unreadable, NamesOf, DirtyRows, RowsOf, vars, script, files
  <2> QED BY <2>1, <2>2, <2>3, <2>4 DEF IInv
<1> QED BY <1>1, <1>2, <1>3, <1>4, <1>5, <1>6, <1>7, <1>8, <1>9, LeavesIInv, ReadIInv
        DEF Next, Step

----------------------------------------------------------------------------
\* Where the script is, and what it and its files then hold.
THEOREM CallKeepsItsRows == Spec => []IInv
<1> QED BY InitIInv, NextIInv, PTL DEF Spec

\* A fresh mean is never paired with the cv of the run it replaced.
THEOREM RowsStayTogether == Spec => []OneRunPerName
<1>1. IInv => OneRunPerName
  BY DEF IInv, Together, OneRun, OneRunPerName
<1> QED BY <1>1, CallKeepsItsRows, PTL

\* A finished call whose runs all opened their output has written rows of its
\* own for exactly the benchmarks of --filter.
THEOREM FinishedIsOwn == Spec => []OutputIsOwn
<1>1. IInv => OutputIsOwn
  BY DEF IInv, Places, Fresh, Own, OutputIsOwn
<1> QED BY <1>1, CallKeepsItsRows, PTL

\* Contaminated rows are written only after the last retry, or when the machine
\* did not become idle or a retry left no output.
THEOREM DirtyHasReason == Spec => []DirtyOnlyWithReason
<1>1. IInv => DirtyOnlyWithReason
  BY DEF IInv, Places, Reason, DirtyOnlyWithReason
<1> QED BY <1>1, CallKeepsItsRows, PTL

\* A retry that wrote its output replaces no rows of a clean benchmark.
THEOREM CleanRowsStay == Spec => OnlyDirtyReplaced
<1> DEFINE Kept == \A n \in Names :
             (pc = "read" /\ ~first /\ ~stale /\ pc' = "check" /\ n \notin DirtyRows(doc))
               => RowsOf(doc', n) = RowsOf(doc, n)
<1>1. IInv /\ [Next]_vars => [Kept]_vars
  <2> SUFFICES ASSUME IInv, Next, pc = "read", ~first, ~stale, pc' = "check",
                      NEW n \in Names, n \notin DirtyRows(doc)
               PROVE  RowsOf(doc', n) = RowsOf(doc, n)
    OBVIOUS
  <2>1. ReadRetry
    BY DEF Next, Step, Start, WaitIdle, Launch, RunCompletes, RunBreaks, RunExitsEarly, Leaves,
           ReadFirst, Check, OpenOut, DumpOut, Return, Crash
  <2>2. doc' = Splice(doc, retry) /\ ~Unreadable(retry)
    BY <2>1 DEF ReadRetry
  <2>3. NamesOf(retry) = DirtyRows(doc) /\ OneRun(doc) /\ OneRun(retry)
    BY <2>2 DEF IInv, Fresh, Together
  <2> QED BY <2>2, <2>3, SpliceIs
<1> QED BY <1>1, CallKeepsItsRows, PTL DEF Spec, OnlyDirtyReplaced
=============================================================================
