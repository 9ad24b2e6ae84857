----------------------------- MODULE GreedyParse -----------------------------
(***************************************************************************)
(* src/scripts/profile_corpus.py: a file is sampled in ranges, each range   *)
(* is parsed greedily over the history in front of it, and the bytes that   *)
(* matched are counted by the distance and by the length of the match.      *)
(***************************************************************************)
EXTENDS Integers, SequencesExt, FiniteSets

CONSTANTS
  Files,     (* what a corpus file may hold: sequences of bytes             *)
  WINDOW, SCAN, BLOCKS, MIN_MATCH,
  MaxLength, (* 16384, where a match is cut off                             *)
  DistCaps, LenCaps (* upper ends of the buckets; the last one is no limit   *)

VARIABLES
  pc,
  data,        (* the file                                                  *)
  ranges,      (* those of sample_ranges still to come                      *)
  pos, table,  (* greedy_parse: the position, and the last one of a key      *)
  lit, dist_bytes, len_bytes, (* the counters, over all ranges               *)
  bars,        (* the stacked rows: the bars, by the number of their series  *)
  matches      (* history: <<pos, cand, length>>                            *)

vars == <<pc, data, ranges, pos, table, lit, dist_bytes, len_bytes, bars, matches>>

----------------------------------------------------------------------------
Smaller(a, b) == IF a < b THEN a ELSE b
Byte(p)    == data[p + 1]
KeyAt(p)   == SubSeq(data, p + 1, p + MIN_MATCH)
Zero(caps) == [i \in DOMAIN caps |-> 0]
Total(counter) == SumFunction(counter)

\* BLOCKS ranges of WINDOW + SCAN bytes, or the whole of a file that is short.
sample_ranges(n) ==
  IF n <= (WINDOW + SCAN) * BLOCKS THEN <<<<0, n>>>>
  ELSE LET step == n \div BLOCKS IN
       [i \in 1..BLOCKS |-> <<(i - 1) * step, (i - 1) * step + WINDOW + SCAN>>]

Start == Head(ranges)[1]
End   == Head(ranges)[2]

\* Where the preamble ends, which a short range has not.
ScanFrom ==
  IF End - Start > SCAN THEN Start + Smaller(WINDOW, End - Start - 1) ELSE Start

\* The candidate of the table, or the position before if it has the same key.
Candidate(p) ==
  IF p > Start /\ KeyAt(p) = KeyAt(p - 1) THEN {p - 1}
  ELSE IF KeyAt(p) \in DOMAIN table THEN {table[KeyAt(p)]} ELSE {}

\* How far the bytes at c and p agree, up to the limit.
Length(c, p) ==
  LET limit == Smaller(End - p, MaxLength)
      agrees(l) == \A i \in MIN_MATCH..l - 1 : Byte(c + i) = Byte(p + i)
  IN CHOOSE l \in MIN_MATCH..limit : agrees(l) /\ (l = limit \/ ~agrees(l + 1))

\* l bytes more in the first bucket whose end v does not pass.
Counted(counter, caps, v, l) ==
  [i \in DOMAIN caps |->
     counter[i] + IF v <= caps[i] /\ \A j \in 1..i - 1 : v > caps[j] THEN l ELSE 0]

With(t, p) == [key \in DOMAIN t \cup {KeyAt(p)} |-> IF key = KeyAt(p) THEN p ELSE t[key]]

----------------------------------------------------------------------------
\* profile, for a file that is not empty.
Init ==
  /\ pc = "range" /\ data \in Files /\ data # <<>>
  /\ ranges = sample_ranges(Len(data))
  /\ pos = 0 /\ table = <<>> /\ lit = 0 /\ dist_bytes = Zero(DistCaps) /\ len_bytes = Zero(LenCaps)
  /\ bars = <<>> /\ matches = {}

\* The history in front of the range goes into an empty table: a key leads to the
\* last of its positions.
Preamble ==
  /\ pc = "range" /\ ranges # <<>> /\ pc' = "scan"
  /\ pos' = ScanFrom
  /\ LET history == Start..ScanFrom - 1 IN
     table' = [key \in {KeyAt(p) : p \in history} |-> Max({p \in history : KeyAt(p) = key})]
  /\ UNCHANGED <<data, ranges, lit, dist_bytes, len_bytes, bars, matches>>

InScan == pc = "scan" /\ pos < End - MIN_MATCH

\* Mutant: a match may reach back as far as the table does.
NearAny(p) == Candidate(p)

Near(p) == {c \in Candidate(p) : p - c <= WINDOW}

Match ==
  /\ InScan
  /\ \E c \in Near(pos) : LET l == Length(c, pos) IN
       /\ dist_bytes' = Counted(dist_bytes, DistCaps, pos - c, l)
       /\ len_bytes' = Counted(len_bytes, LenCaps, l, l)
       /\ matches' = matches \cup {<<pos, c, l>>}
       /\ pos' = pos + l
  /\ table' = With(table, pos)
  /\ UNCHANGED <<pc, data, ranges, lit, bars>>

Literal ==
  /\ InScan /\ Near(pos) = {}
  /\ lit' = lit + 1 /\ pos' = pos + 1 /\ table' = With(table, pos)
  /\ UNCHANGED <<pc, data, ranges, dist_bytes, len_bytes, bars, matches>>

EndRange ==
  /\ pc = "scan" /\ pos >= End - MIN_MATCH
  /\ pc' = "range" /\ ranges' = Tail(ranges)
  /\ UNCHANGED <<data, pos, table, lit, dist_bytes, len_bytes, bars, matches>>

\* render: the two stacked rows of the file, without a bar for what is zero.  A bar
\* is where it starts and how long it is.
Stacked(parts) ==
  [i \in {j \in DOMAIN parts : parts[j] # 0} |->
     <<Total([j \in 1..i - 1 |-> parts[j]]), parts[i]>>]

Render ==
  /\ pc = "range" /\ ranges = <<>> /\ pc' = "drawn"
  /\ bars' = <<Stacked(<<lit>> \o dist_bytes), Stacked(len_bytes)>>
  /\ UNCHANGED <<data, ranges, pos, table, lit, dist_bytes, len_bytes, matches>>

Next == Preamble \/ Match \/ Literal \/ EndRange \/ Render

----------------------------------------------------------------------------
Sampled == sample_ranges(Len(data))

\* The first bar of a row starts at 0, each where the one before it ends, and the
\* last one ends at total.
Fills(row, total) ==
  \A i \in DOMAIN row :
    /\ (\A j \in DOMAIN row : j >= i) => row[i][1] = 0
    /\ \A j \in DOMAIN row :
         j > i /\ DOMAIN row \cap i + 1..j - 1 = {} => row[j][1] = row[i][1] + row[i][2]
    /\ (\A j \in DOMAIN row : j <= i) => row[i][1] + row[i][2] = total

(* Over all ranges: they are apart and inside the file; a match is a copy of *)
(* bytes of its own range from within the window and overlaps no other; the  *)
(* two countings of the matched bytes agree; with the literals they make up  *)
(* what was scanned but for a tail shorter than a match; and the bars of     *)
(* both rows fill them.                                                     *)
ParseAccounts ==
  /\ \A i \in DOMAIN Sampled : /\ Sampled[i][1] >= 0 /\ Sampled[i][2] <= Len(data)
                               /\ i > 1 => Sampled[i - 1][2] <= Sampled[i][1]
  /\ \A m \in matches : \E i \in DOMAIN Sampled :
       /\ m[1] - m[2] \in 1..WINDOW /\ Sampled[i][1] <= m[2] /\ m[1] + m[3] <= Sampled[i][2]
       /\ m[3] \in MIN_MATCH..MaxLength
       /\ \A j \in 0..m[3] - 1 : Byte(m[1] + j) = Byte(m[2] + j)
       /\ \A o \in matches : o[1] > m[1] => m[1] + m[3] <= o[1]
  /\ Total(dist_bytes) = Total(len_bytes)
  /\ pc = "drawn" =>
       LET scanned == Total([i \in DOMAIN Sampled |->
                        Sampled[i][2] - IF Len(Sampled) = 1 /\ Len(data) <= SCAN
                                        THEN 0 ELSE Sampled[i][1] + WINDOW])
       IN /\ lit + Total(dist_bytes) \in scanned - MIN_MATCH * Len(Sampled)..scanned
          /\ Fills(bars[1], lit + Total(dist_bytes)) /\ Fills(bars[2], Total(len_bytes))
=============================================================================
