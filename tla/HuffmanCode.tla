----------------------------- MODULE HuffmanCode -----------------------------
(***************************************************************************)
(* dstats_build and dstats_decode of src/deflate_stats.h: the tables of a   *)
(* canonical Huffman code from the lengths of its codes, and the decoder    *)
(* that reads a code bit by bit with three running numbers and no tree.     *)
(*                                                                         *)
(* The reference is the definition of RFC 1951: codes in the order of their *)
(* lengths, and of their symbols among equal lengths, fill the binary tree  *)
(* from the left; a code word is then the space the codes before it take.   *)
(***************************************************************************)
EXTENDS Integers, Sequences, FiniteSets, Functions

CONSTANTS
  NSyms,   (* n, the number of symbols: 19, up to 288 and 30 in the code   *)
  MaxLen,  (* the longest code: 15                                         *)
  Reading, (* no result yet                                                *)
  NoCode,  (* -1: bits that are no code                                    *)
  NoInput  (* -1: the input ended                                          *)

Symbols == 0..(NSyms - 1)

VARIABLES
  lengths,  (* the code lengths, 0 for a symbol that is not used           *)
  h,        (* struct dstats_huff: count and symbol, and whether it built  *)
  len, code, first, index,  (* dstats_decode                               *)
  read,     (* the bits of the current code                                *)
  result    (* what dstats_decode returned                                 *)

vars == <<lengths, h, len, code, first, index, read, result>>

----------------------------------------------------------------------------
(* dstats_build. *)

Count(ls) == [l \in 0..MaxLen |-> Cardinality({i \in Symbols : ls[i] = l})]

\* Codes left over at each length; negative once there are too many.
Left(count) ==
  LET left[l \in 0..MaxLen] == IF l = 0 THEN 1 ELSE 2 * left[l - 1] - count[l]
  IN left

\* Where the symbols of each length begin in the table.
Offs(count) ==
  LET offs[l \in 1..MaxLen] == IF l = 1 THEN 0 ELSE offs[l - 1] + count[l - 1]
  IN offs

\* Mutant: the symbols of one length are entered from the last.
PlaceReversed(ls, i) ==
  Offs(Count(ls))[ls[i]] + Cardinality({j \in Symbols : j > i /\ ls[j] = ls[i]})

\* The slot symbol i is entered in: those of its length before it come first.
Place(ls, i) ==
  Offs(Count(ls))[ls[i]] + Cardinality({j \in Symbols : j < i /\ ls[j] = ls[i]})

Used(ls) == {i \in Symbols : ls[i] # 0}

\* A code without any symbol is accepted; nothing decodes with it.
Built(ls) ==
  LET count == Count(ls) IN
  [ok     |-> count[0] = NSyms \/ \A l \in 1..MaxLen : Left(count)[l] >= 0,
   count  |-> count,
   symbol |-> [p \in {Place(ls, i) : i \in Used(ls)} |->
                 CHOOSE i \in Used(ls) : Place(ls, i) = p]]

----------------------------------------------------------------------------
(* dstats_decode. *)

Begin == len = 1 /\ code = 0 /\ first = 0 /\ index = 0 /\ read = <<>> /\ result = Reading

Init ==
  /\ lengths \in [Symbols -> 0..MaxLen]
  /\ h = Built(lengths)
  /\ Begin

\* One turn of the loop with the next bit: the codes of length len are the
\* numbers from first to first + count[len] - 1.
Step(b) ==
  LET c == code + b IN
  /\ h.ok /\ result = Reading
  /\ read' = Append(read, b)
  /\ IF c - first < h.count[len]
     THEN result' = h.symbol[index + (c - first)] /\ UNCHANGED <<len, code, first, index>>
     ELSE /\ index' = index + h.count[len]
          /\ first' = 2 * (first + h.count[len])
          /\ code' = 2 * c
          /\ len' = len + 1
          /\ result' = IF len = MaxLen THEN NoCode ELSE Reading
  /\ UNCHANGED <<lengths, h>>

InputEnds ==
  /\ h.ok /\ result = Reading
  /\ result' = NoInput
  /\ UNCHANGED <<lengths, h, len, code, first, index, read>>

\* The walk goes on with the next symbol; after -1 it has ended.
Again ==
  /\ result \in Symbols
  /\ len' = 1 /\ code' = 0 /\ first' = 0 /\ index' = 0 /\ read' = <<>> /\ result' = Reading
  /\ UNCHANGED <<lengths, h>>

----------------------------------------------------------------------------
(* The reference. *)

Before(i, j) == lengths[i] < lengths[j] \/ (lengths[i] = lengths[j] /\ i < j)

TwoTo == LET pow[n \in 0..MaxLen] == IF n = 0 THEN 1 ELSE 2 * pow[n - 1] IN pow

\* The code word of symbol i, most significant bit first.
CodeWord(i) ==
  SumFunction([j \in {k \in Used(lengths) : Before(k, i)} |-> TwoTo[lengths[i] - lengths[j]]])

\* The space all codes take of a tree of depth MaxLen.
Space == SumFunction([j \in Used(lengths) |-> TwoTo[MaxLen - lengths[j]]])

Number(bs) == SumFunction([k \in DOMAIN bs |-> bs[k] * TwoTo[Len(bs) - k]])

IsPrefix(i) ==
  /\ i \in Used(lengths) /\ lengths[i] <= Len(read)
  /\ Number(SubSeq(read, 1, lengths[i])) = CodeWord(i)

(* A set of lengths is refused exactly when its codes do not fit the tree,   *)
(* whichever length overflows first and whatever the later ones add.         *)
BuildAcceptsKraft == h.ok <=> Space <= TwoTo[MaxLen]

(* What is decoded is the symbol whose code word was read, all of it and no  *)
(* bit more, for complete and incomplete codes and for gaps in the lengths.  *)
DecodesCodeWord ==
  result \in Symbols =>
    /\ lengths[result] = Len(read)
    /\ Number(read) = CodeWord(result)

(* -1 without the input having ended is returned only for bits that begin    *)
(* with no code word at all; with a complete code it never is.              *)
FailsOnlyOffCode ==
  result = NoCode => /\ ~\E i \in Symbols : IsPrefix(i)
                     /\ Space < TwoTo[MaxLen]

(* The table is read at a slot of the current length or not at all: code     *)
(* never falls behind first, which would index before the slots of len.      *)
LookupInBounds ==
  result = Reading /\ h.ok =>
    /\ first <= code
    /\ index = Cardinality({i \in Used(lengths) : lengths[i] < len})
=============================================================================
