---------------------------- MODULE DeflateWalker ----------------------------
(***************************************************************************)
(* deflate_stream_stats of src/deflate_stats.h: the walk over a raw deflate *)
(* stream that counts symbols, matches and bits without producing output.   *)
(*                                                                         *)
(* The stream is whatever its reader finds in it: every read is an action   *)
(* over all that could be there.  Reading goes through BitSource, which     *)
(* BitReader implements, so a position in bits is all that is kept of it; a *)
(* Huffman code is a number of bits and a symbol.  The lengths of a dynamic *)
(* tree are counted, not kept.                                             *)
(***************************************************************************)
EXTENDS Integers, Sequences

CONSTANTS
  InLen,          (* in_len, in bytes                                      *)
  CodeLens,       (* lengths a Huffman code may have                       *)
  Hlits, Hdists, Hclens,  (* fields of the header of a dynamic block       *)
  LenSyms, DistSyms,      (* symbols a match may be made of: those assigned *)
  Extras(_),      (* values its extra bits may have, by their number       *)
  StoredLens      (* lengths a stored block may have                       *)

\* 2^e for the numbers of extra bits that occur.
Pow2 == <<1, 2, 4, 8, 16, 32, 64, 128, 256, 512, 1024, 2048, 4096, 8192>>

ASSUME LenAssumption    == InLen \in Nat
ASSUME CodeAssumption   == CodeLens \subseteq 1..15
ASSUME HeaderAssumption == Hlits \subseteq 0..31 /\ Hdists \subseteq 0..31 /\ Hclens \subseteq 0..15
ASSUME SymAssumption    == LenSyms \subseteq 0..28 /\ DistSyms \subseteq 0..29
ASSUME ExtraAssumption  == \A e \in 0..13 : Extras(e) \subseteq 0..(Pow2[e + 1] - 1)
ASSUME StoredAssumption == StoredLens \subseteq Nat /\ \A len \in StoredLens : len <= 65535

VARIABLES
  pc,     (* what is read next: a block header, a code length, a symbol of *)
          (* a block, the distance of a match; or "done" (0 was returned), *)
          (* "error" (-1 was)                                              *)
  pos,    (* dstats_pos                                                    *)
  last,   (* the block being read is the last                              *)
  h0,     (* where its header began                                        *)
  n,      (* code lengths read so far                                      *)
  total,  (* nlit + ndist                                                  *)
  mlen,   (* the length that has no distance yet, or 0                     *)
  blocks, lit_syms, match_syms, match_bytes, cp, bits, dist_hist, len_hist

count == <<blocks, lit_syms, match_syms, match_bytes, cp, bits, dist_hist, len_hist>>
vars  == <<pc, pos, last, h0, n, total, mlen, count>>

TotalBits == 8 * InLen

----------------------------------------------------------------------------
(* Tables and pure parts. *)

\* Mutant: the table begins one too low.
LenBaseFromTwo == <<
  2, 3, 4, 5, 6, 7, 8, 9, 10, 11, 13, 15, 17, 19, 23, 27, 31,
  35, 43, 51, 59, 67, 83, 99, 115, 131, 163, 195, 227>>

dstats_len_base == <<
  3, 4, 5, 6, 7, 8, 9, 10, 11, 13, 15, 17, 19, 23, 27, 31,
  35, 43, 51, 59, 67, 83, 99, 115, 131, 163, 195, 227, 258>>
dstats_len_extra == <<
  0, 0, 0, 0, 0, 0, 0, 0, 1, 1, 1, 1, 2, 2, 2, 2,
  3, 3, 3, 3, 4, 4, 4, 4, 5, 5, 5, 5, 0>>
dstats_dist_base == <<
  1, 2, 3, 4, 5, 7, 9, 13, 17, 25, 33, 49, 65, 97, 129, 193,
  257, 385, 513, 769, 1025, 1537, 2049, 3073, 4097, 6145, 8193, 12289, 16385, 24577>>
dstats_dist_extra == <<
  0, 0, 0, 0, 1, 1, 2, 2, 3, 3, 4, 4, 5, 5, 6, 6,
  7, 7, 8, 8, 9, 9, 10, 10, 11, 11, 12, 12, 13, 13>>

dist_edges == <<4, 32, 256, 4096>>
len_edges  == <<4, 8, 16, 64>>

dstats_bucket(v, edges) ==
  IF v <= edges[1] THEN 0 ELSE IF v <= edges[2] THEN 1
  ELSE IF v <= edges[3] THEN 2 ELSE IF v <= edges[4] THEN 3 ELSE 4

\* Mutant: an overlapping match from further away takes no arm.
CopyArmNear(len, dist) ==
  IF dist < len /\ dist > 64 THEN "none"
  ELSE IF dist >= len THEN "copy"
  ELSE IF dist = 1 THEN "d1"
  ELSE IF dist \in {2, 4, 8, 16} THEN "bcast"
  ELSE IF dist < 16 THEN "mag"
  ELSE IF dist <= 32 THEN "two" ELSE "wide"

\* The arm of zlib-ng's copy dispatch that a match would take.
CopyArm(len, dist) ==
  IF dist >= len THEN "copy"
  ELSE IF dist = 1 THEN "d1"
  ELSE IF dist \in {2, 4, 8, 16} THEN "bcast"
  ELSE IF dist < 16 THEN "mag"
  ELSE IF dist <= 32 THEN "two"
  ELSE IF dist <= 64 THEN "wide"
  ELSE "copy"

\* The first byte boundary at or after p.
Align(p) == 8 * ((p + 7) \div 8)

----------------------------------------------------------------------------
Init ==
  /\ pc = "header" /\ pos = 0 /\ last = FALSE /\ h0 = 0 /\ n = 0 /\ total = 0 /\ mlen = 0
  /\ blocks = 0 /\ lit_syms = 0 /\ match_syms = 0 /\ match_bytes = 0
  /\ cp = [copy |-> 0, d1 |-> 0, bcast |-> 0, mag |-> 0, two |-> 0, wide |-> 0]
  /\ bits = [lit |-> 0, len |-> 0, dist |-> 0, hdr |-> 0, stored |-> 0]
  /\ dist_hist = [b \in 0..4 |-> 0] /\ len_hist = [b \in 0..4 |-> 0]

AfterBlock(isLast) == IF isLast THEN "done" ELSE "header"

\* The bits last and type of a block header, when they are there.
BlockHeader ==
  /\ pc = "header"
  /\ pos + 3 <= TotalBits
  /\ last' \in BOOLEAN
  /\ h0' = pos
  /\ blocks' = blocks + 1

\* Mutant: the bits skipped by the alignment are not counted.
StoredBlockUnaligned(len) ==
  LET data == Align(pos + 3) + 32 IN
  /\ BlockHeader
  /\ data + 8 * len <= TotalBits
  /\ pos' = data + 8 * len
  /\ bits' = [bits EXCEPT !.hdr = @ + 35, !.stored = @ + 8 * len]
  /\ lit_syms' = lit_syms + len
  /\ pc' = AfterBlock(last')
  /\ UNCHANGED <<n, total, mlen, match_syms, match_bytes, cp, dist_hist, len_hist>>

\* type 0.  The four bytes of LEN and NLEN must be inside the input, and then
\* LEN bytes after them; NLEN is not looked at.
StoredBlock(len) ==
  LET data == Align(pos + 3) + 32 IN
  /\ BlockHeader
  /\ data + 8 * len <= TotalBits
  /\ pos' = data + 8 * len
  /\ bits' = [bits EXCEPT !.hdr = @ + data - pos, !.stored = @ + 8 * len]
  /\ lit_syms' = lit_syms + len
  /\ pc' = AfterBlock(last')
  /\ UNCHANGED <<n, total, mlen, match_syms, match_bytes, cp, dist_hist, len_hist>>

\* type 1: the fixed codes are always built.
FixedBlock ==
  /\ BlockHeader
  /\ pos' = pos + 3
  /\ bits' = [bits EXCEPT !.hdr = @ + pos' - pos]
  /\ pc' = "block"
  /\ UNCHANGED <<n, total, mlen, lit_syms, match_syms, match_bytes, cp, dist_hist, len_hist>>

\* type 2: the sizes of the trees and the code lengths of their code.
DynamicBlock(hlit, hdist, hclen) ==
  /\ BlockHeader
  /\ pos' = pos + 3 + 14 + 3 * (hclen + 4)
  /\ pos' <= TotalBits
  /\ n' = 0 /\ total' = hlit + 257 + hdist + 1
  /\ pc' = "tree"
  /\ UNCHANGED <<mlen, lit_syms, match_syms, match_bytes, cp, bits, dist_hist, len_hist>>

\* Reads more bits in a state that only keeps where it is.
Consume(more) == pos' = pos + more /\ pos' <= TotalBits

TreeLength(code) ==
  /\ pc = "tree" /\ n < total
  /\ Consume(code)
  /\ n' = n + 1
  /\ UNCHANGED <<pc, last, h0, total, mlen, count>>

\* Mutant: the end of the two trees is not looked at.
TreeRepeatPastEnd(code, sym, extra) ==
  /\ pc = "tree" /\ n < total
  /\ sym = 16 => n > 0
  /\ Consume(code + (CASE sym = 16 -> 2 [] sym = 17 -> 3 [] sym = 18 -> 7))
  /\ n' = n + (IF sym = 18 THEN 11 ELSE 3) + extra
  /\ UNCHANGED <<pc, last, h0, total, mlen, count>>

\* Symbols 16, 17 and 18: the previous length, or zero, again.
TreeRepeat(code, sym, extra) ==
  /\ pc = "tree" /\ n < total
  /\ sym = 16 => n > 0
  /\ Consume(code + (CASE sym = 16 -> 2 [] sym = 17 -> 3 [] sym = 18 -> 7))
  /\ n' = n + (IF sym = 18 THEN 11 ELSE 3) + extra
  /\ n' <= total
  /\ UNCHANGED <<pc, last, h0, total, mlen, count>>

\* Both trees are complete and neither is over-subscribed.
TreeDone ==
  /\ pc = "tree" /\ n = total
  /\ bits' = [bits EXCEPT !.hdr = @ + pos - h0]
  /\ pc' = "block"
  /\ UNCHANGED <<pos, last, h0, n, total, mlen, blocks, lit_syms, match_syms, match_bytes,
                 cp, dist_hist, len_hist>>

Literal(code) ==
  /\ pc = "block"
  /\ Consume(code)
  /\ lit_syms' = lit_syms + 1
  /\ bits' = [bits EXCEPT !.lit = @ + pos' - pos]
  /\ UNCHANGED <<pc, last, h0, n, total, mlen, blocks, match_syms, match_bytes, cp,
                 dist_hist, len_hist>>

EndOfBlock(code) ==
  /\ pc = "block"
  /\ Consume(code)
  /\ bits' = [bits EXCEPT !.hdr = @ + pos' - pos]
  /\ pc' = AfterBlock(last)
  /\ UNCHANGED <<last, h0, n, total, mlen, blocks, lit_syms, match_syms, match_bytes, cp,
                 dist_hist, len_hist>>

\* A length symbol (less 257) and its extra bits are counted before its distance
\* is looked for.
Length(code, sym, extra) ==
  /\ pc = "block"
  /\ Consume(code + dstats_len_extra[sym + 1])
  /\ mlen' = dstats_len_base[sym + 1] + extra
  /\ match_syms' = match_syms + 1
  /\ match_bytes' = match_bytes + mlen'
  /\ bits' = [bits EXCEPT !.len = @ + pos' - pos]
  /\ len_hist' = [len_hist EXCEPT ![dstats_bucket(mlen', len_edges)] = @ + 1]
  /\ pc' = "dist"
  /\ UNCHANGED <<last, h0, n, total, blocks, lit_syms, cp, dist_hist>>

\* The distance of that length.  That it reaches back before the output is not
\* noticed.
Distance(code, sym, extra) ==
  LET mdist == dstats_dist_base[sym + 1] + extra
  IN /\ pc = "dist"
     /\ Consume(code + dstats_dist_extra[sym + 1])
     /\ bits' = [bits EXCEPT !.dist = @ + pos' - pos]
     /\ dist_hist' = [dist_hist EXCEPT ![dstats_bucket(mdist, dist_edges)] = @ + 1]
     /\ cp' = [cp EXCEPT ![CopyArm(mlen, mdist)] = @ + mlen]
     /\ mlen' = 0 /\ pc' = "block"
     /\ UNCHANGED <<last, h0, n, total, blocks, lit_syms, match_syms, match_bytes, len_hist>>

AnyLength ==
  \E code \in CodeLens, sym \in LenSyms :
    \E extra \in Extras(dstats_len_extra[sym + 1]) : Length(code, sym, extra)

AnyDistance ==
  \E code \in CodeLens, sym \in DistSyms :
    \E extra \in Extras(dstats_dist_extra[sym + 1]) : Distance(code, sym, extra)

\* Mutant: a read that failed is tried again.
RejectRetries ==
  /\ pc \notin {"done", "error"}
  /\ UNCHANGED vars

\* -1: a read past the end, block type 3, a code that is over-subscribed or not
\* assigned, a repeat without a first length or past the last, a length symbol
\* from 29 or a distance symbol from 30 on.  What was counted stays counted, a
\* length without its distance too.  pos is where the last step ended: where the
\* read that failed stopped is not kept.
Reject ==
  /\ pc \notin {"done", "error"}
  /\ pc' = "error"
  /\ UNCHANGED <<pos, last, h0, n, total, mlen, count>>

\* A stored block that does not fit its input, or a dynamic one whose header ends
\* before it or has no usable code for the lengths: the block was counted.
BadBlock ==
  /\ BlockHeader
  /\ pc' = "error"
  /\ UNCHANGED <<pos, n, total, mlen, lit_syms, match_syms, match_bytes, cp, bits,
                 dist_hist, len_hist>>

Next ==
  \/ \E len \in StoredLens : StoredBlock(len)
  \/ FixedBlock
  \/ \E hlit \in Hlits, hdist \in Hdists, hclen \in Hclens : DynamicBlock(hlit, hdist, hclen)
  \/ \E code \in CodeLens : TreeLength(code) \/ Literal(code) \/ EndOfBlock(code)
  \/ \E code \in CodeLens, sym \in {16, 17, 18} :
       \E extra \in Extras(CASE sym = 16 -> 2 [] sym = 17 -> 3 [] sym = 18 -> 7) :
         TreeRepeat(code, sym, extra)
  \/ TreeDone \/ AnyLength \/ AnyDistance \/ Reject \/ BadBlock

\* A sequential function: it runs on until it returns.
Spec == Init /\ [][Next]_vars /\ WF_vars(Next)

----------------------------------------------------------------------------
Sum5(h) == h[0] + h[1] + h[2] + h[3] + h[4]
BitsSpent == bits.lit + bits.len + bits.dist + bits.hdr + bits.stored

TypeOK ==
  /\ pc \in {"header", "tree", "block", "dist", "done", "error"}
  /\ pos \in 0..TotalBits /\ last \in BOOLEAN /\ h0 \in 0..pos
  /\ n \in 0..total /\ total \in Nat /\ total <= 320
  /\ mlen \in Nat /\ mlen <= 258
  /\ blocks \in Nat /\ lit_syms \in Nat /\ match_syms \in Nat /\ match_bytes \in Nat
  /\ cp \in [{"copy", "d1", "bcast", "mag", "two", "wide"} -> Nat]
  /\ bits \in [{"lit", "len", "dist", "hdr", "stored"} -> Nat]
  /\ dist_hist \in [0..4 -> Nat] /\ len_hist \in [0..4 -> Nat]

(* At every block boundary and symbol each bit consumed has been put down to *)
(* exactly one class: no padding, extra bit or end-of-block code is lost or  *)
(* counted twice, so the classes of a finished walk add up to the stream.    *)
BitsAccounted ==
  /\ pc \in {"header", "block", "dist", "done"} => BitsSpent = pos
  /\ pc = "tree" => BitsSpent = h0

\* Matches counted whose distance is still looked for, or was not found.
HalfMatches == IF mlen = 0 THEN 0 ELSE 1

(* The two histograms and the copy arms are three partitions of the matches, *)
(* but for a last length whose distance is still to be read or was not to be *)
(* had: it is in the histogram of the lengths alone, and the walk is looking *)
(* for its distance or has failed.                                          *)
MatchesPartitioned ==
  /\ Sum5(len_hist) = match_syms
  /\ Sum5(dist_hist) + HalfMatches = match_syms
  /\ cp.copy + cp.d1 + cp.bcast + cp.mag + cp.two + cp.wide + mlen = match_bytes
  /\ pc = "dist" => mlen # 0
  /\ pc \notin {"dist", "error"} => mlen = 0

(* What the counters say was produced is within deflate's own limits, when   *)
(* the walk fails too: no match shorter than 3 or longer than 258, at least  *)
(* two bits for each that has its distance and one for a length without, and *)
(* at most 1032 bytes out of every byte of input.                           *)
OutputBounded ==
  /\ 3 * match_syms <= match_bytes /\ match_bytes <= 258 * match_syms
  /\ 2 * match_syms <= bits.len + bits.dist + HalfMatches
  /\ lit_syms + match_bytes <= 1032 * InLen

(* The walk ends on every input, however the blocks and repeats are nested.  *)
Terminates == <>(pc \in {"done", "error"})
=============================================================================
