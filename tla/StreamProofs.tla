---------------------------- MODULE StreamProofs ----------------------------
(***************************************************************************)
(* Proofs about streams: the walk of one, DeflateWalker, and the wrapper   *)
(* that inflates one, ZlibCodec.                                           *)
(*                                                                         *)
(* DeflateWalker, for inputs of every length and with every code length,   *)
(* symbol and field of deflate.  IInv strengthens the checked invariants by*)
(* OutputRate: each bit consumed so far has paid for at most 129 bytes, and*)
(* those of a block's header for a match whose length is counted before its*)
(* distance is paid for.  OutputBounded only speaks of the whole input and *)
(* would not survive a step by itself.                                     *)
(*                                                                         *)
(* ZlibCodec, for streams, buffers and chunks of any length and any width  *)
(* of the length fields.  CallTypes and Progress say how far a call is when*)
(* its loop goes round again: inside its buffer, inside its stream, and    *)
(* with room left but in the first pass.  Agreed is what that gives when it*)
(* returns.  Counted says that mem_count has what the blocks of the library*)
(* hold, a sum over their addresses that every alloc and free changes by   *)
(* one term.                                                               *)
(***************************************************************************)
EXTENDS DeflateWalker, ZlibCodec, FoldTheorems

----------------------------------------------------------------------------
(* DeflateWalker. *)

\* What a match costs and gives.
MatchRate ==
  /\ 3 * match_syms <= match_bytes /\ match_bytes <= 258 * match_syms
  /\ 2 * match_syms <= bits.len + bits.dist + HalfMatches

\* What the three bits of its header have paid for and a block has not yet used.
\* Half a match needs it: its 258 bytes may have cost one bit so far.
Credit == IF pc \in {"tree", "block"} THEN 387 ELSE IF pc = "dist" THEN 258 ELSE 0

OutputRate == lit_syms + match_bytes + Credit <= 129 * pos

IInv == TypeOK /\ BitsAccounted /\ MatchesPartitioned /\ MatchRate /\ OutputRate

----------------------------------------------------------------------------
(* Every length symbol stands for lengths from 3 to 258. *)
LEMMA LenTable ==
  ASSUME NEW sym \in 0..28, NEW extra \in Extras(dstats_len_extra[sym + 1])
  PROVE  LET given == dstats_len_base[sym + 1] + extra IN
         /\ dstats_len_extra[sym + 1] \in 0..5
         /\ given \in Nat /\ 3 <= given /\ given <= 258
<1> DEFINE e == dstats_len_extra[sym + 1]
           p == Pow2[e + 1]
           base == dstats_len_base[sym + 1]
<1>1. e \in 0..5 /\ p \in Nat /\ base \in Nat /\ base >= 3 /\ base + p <= 259
  BY SMTT(30) DEF dstats_len_extra, dstats_len_base, Pow2
<1>2. extra \in 0..(p - 1)
  BY <1>1, ExtraAssumption
<1> HIDE DEF e, p, base
<1>3. base + extra \in Nat /\ 3 <= base + extra /\ base + extra <= 258
  BY <1>1, <1>2
<1> QED BY <1>1, <1>3 DEF e, base

(* Every distance symbol stands for distances from 1 to 32768. *)
LEMMA DistTable ==
  ASSUME NEW dsym \in 0..29, NEW dextra \in Extras(dstats_dist_extra[dsym + 1])
  PROVE  LET mdist == dstats_dist_base[dsym + 1] + dextra IN
         /\ dstats_dist_extra[dsym + 1] \in 0..13
         /\ mdist \in Nat /\ 1 <= mdist /\ mdist <= 32768
<1> DEFINE e == dstats_dist_extra[dsym + 1]
           p == Pow2[e + 1]
           base == dstats_dist_base[dsym + 1]
<1>1. e \in 0..13 /\ p \in Nat /\ base \in Nat /\ base >= 1 /\ base + p <= 32769
  BY SMTT(30) DEF dstats_dist_extra, dstats_dist_base, Pow2
<1>2. dextra \in 0..(p - 1)
  BY <1>1, ExtraAssumption
<1> HIDE DEF e, p, base
<1>3. base + dextra \in Nat /\ 1 <= base + dextra /\ base + dextra <= 32768
  BY <1>1, <1>2
<1> QED BY <1>1, <1>3 DEF e, base

(* A value is in one of five buckets. *)
LEMMA BucketType ==
  ASSUME NEW v, NEW edges
  PROVE  dstats_bucket(v, edges) \in 0..4
BY DEF dstats_bucket

(* A copy takes one of six arms. *)
LEMMA ArmType ==
  ASSUME NEW given, NEW mdist
  PROVE  CopyArm(given, mdist) \in {"copy", "d1", "bcast", "mag", "two", "wide"}
BY DEF CopyArm

(* Counting one more in a bucket of a histogram adds one to its sum. *)
LEMMA Sum5Bump ==
  ASSUME NEW h \in [0..4 -> Nat], NEW b \in 0..4
  PROVE  /\ [h EXCEPT ![b] = @ + 1] \in [0..4 -> Nat]
         /\ Sum5([h EXCEPT ![b] = @ + 1]) = Sum5(h) + 1
<1>1. b = 0 \/ b = 1 \/ b = 2 \/ b = 3 \/ b = 4
  OBVIOUS
<1> QED BY <1>1 DEF Sum5

(* An aligned position is less than a byte further on. *)
LEMMA AlignBounds ==
  ASSUME NEW p \in Nat
  PROVE  Align(p) \in Nat /\ p <= Align(p) /\ Align(p) < p + 8
BY SMT DEF Align

----------------------------------------------------------------------------
(* The walker starts with nothing read and nothing counted. *)
LEMMA InitIInv == Init => IInv
<1> SUFFICES ASSUME Init PROVE IInv
  OBVIOUS
<1>1. TypeOK
  <2>1. TotalBits \in Nat
    BY LenAssumption DEF TotalBits
  <2>2. /\ pos \in 0..TotalBits /\ h0 \in 0..pos /\ n \in 0..total /\ total \in Nat /\ total <= 320
        /\ mlen \in Nat /\ mlen <= 258
    BY <2>1 DEF Init
  <2>3. pc = "header" /\ last \in BOOLEAN
    BY DEF Init
  <2>4. /\ blocks \in Nat /\ lit_syms \in Nat /\ match_syms \in Nat /\ match_bytes \in Nat
        /\ cp \in [{"copy", "d1", "bcast", "mag", "two", "wide"} -> Nat]
        /\ bits \in [{"lit", "len", "dist", "hdr", "stored"} -> Nat]
        /\ dist_hist \in [0..4 -> Nat] /\ len_hist \in [0..4 -> Nat]
    BY DEF Init
  <2> QED BY <2>2, <2>3, <2>4 DEF TypeOK
<1>2. BitsAccounted
  BY DEF Init, BitsAccounted, BitsSpent
<1>3. MatchesPartitioned
  BY DEF Init, MatchesPartitioned, HalfMatches, Sum5
<1>4. MatchRate /\ OutputRate
  BY DEF Init, MatchRate, HalfMatches, OutputRate, Credit
<1> QED BY <1>1, <1>2, <1>3, <1>4 DEF IInv

(* A stored block counts its bytes, and no symbol. *)
LEMMA StoredStep ==
  ASSUME IInv, NEW len \in StoredLens, StoredBlock(len)
  PROVE  IInv'
<1> USE DEF IInv
<1>0. len \in Nat /\ TotalBits \in Nat
  <2>1. len \in Nat
    BY StoredAssumption
  <2>2. TotalBits \in Nat
    BY LenAssumption DEF TotalBits
  <2> QED BY <2>1, <2>2
<1>1. pos \in Nat
  BY <1>0 DEF TypeOK
<1>2. Align(pos + 3) \in Nat /\ pos + 3 <= Align(pos + 3)
  BY <1>1, AlignBounds
<1>3. /\ pos' = Align(pos + 3) + 32 + 8 * len
      /\ pos' <= TotalBits
      /\ h0' = pos /\ last' \in BOOLEAN /\ blocks' = blocks + 1
      /\ bits' = [bits EXCEPT !.hdr = @ + (Align(pos + 3) + 32) - pos, !.stored = @ + 8 * len]
      /\ lit_syms' = lit_syms + len
      /\ pc = "header" /\ pc' \in {"done", "header"}
      /\ UNCHANGED <<n, total, mlen, match_syms, match_bytes, cp, dist_hist, len_hist>>
  BY DEF StoredBlock, BlockHeader, AfterBlock
<1>4. pos' \in Nat /\ h0' <= pos'
  BY <1>0, <1>1, <1>2, <1>3
<1>5. /\ bits' \in [{"lit", "len", "dist", "hdr", "stored"} -> Nat]
      /\ bits'.lit = bits.lit /\ bits'.len = bits.len /\ bits'.dist = bits.dist
      /\ bits'.hdr = bits.hdr + (Align(pos + 3) + 32) - pos
      /\ bits'.stored = bits.stored + 8 * len
  <2> DEFINE hdr    == bits.hdr + (Align(pos + 3) + 32) - pos
             stored == bits.stored + 8 * len
  <2>1. bits.hdr \in Nat /\ bits.stored \in Nat
    BY DEF TypeOK
  <2>2. hdr \in Nat /\ stored \in Nat
    BY <1>0, <1>1, <1>2, <2>1
  <2>3. bits' = [bits EXCEPT !.hdr = hdr, !.stored = stored]
    BY <1>3
  <2> HIDE DEF hdr, stored
  <2>4. /\ bits' \in [{"lit", "len", "dist", "hdr", "stored"} -> Nat]
        /\ bits'.lit = bits.lit /\ bits'.len = bits.len /\ bits'.dist = bits.dist
        /\ bits'.hdr = hdr /\ bits'.stored = stored
    BY <2>2, <2>3 DEF TypeOK
  <2> QED BY <2>4 DEF hdr, stored
<1>6. TypeOK'
  <2>1. lit_syms' \in Nat /\ blocks' \in Nat
    BY <1>0, <1>3 DEF TypeOK
  <2>2. pos' \in 0..TotalBits /\ h0' \in 0..pos'
    BY <1>0, <1>1, <1>3, <1>4
  <2>3. /\ n' \in 0..total' /\ total' \in Nat /\ total' <= 320
        /\ mlen' \in Nat /\ mlen' <= 258
        /\ match_syms' \in Nat /\ match_bytes' \in Nat
        /\ cp' \in [{"copy", "d1", "bcast", "mag", "two", "wide"} -> Nat]
        /\ dist_hist' \in [0..4 -> Nat] /\ len_hist' \in [0..4 -> Nat]
    BY <1>3 DEF TypeOK
  <2>4. pc' \in {"header", "tree", "block", "dist", "done", "error"} /\ last' \in BOOLEAN
    BY <1>3
  <2>5. bits' \in [{"lit", "len", "dist", "hdr", "stored"} -> Nat]
    BY <1>5
  <2> HIDE DEF IInv
  <2> QED BY <2>1, <2>2, <2>3, <2>4, <2>5 DEF TypeOK
<1>7. BitsAccounted'
  <2>1. BitsSpent' = BitsSpent + (Align(pos + 3) + 32) - pos + 8 * len
    <3>1. /\ bits.lit \in Nat /\ bits.len \in Nat /\ bits.dist \in Nat
          /\ bits.hdr \in Nat /\ bits.stored \in Nat
      BY DEF TypeOK
    <3> HIDE DEF IInv
    <3> QED BY <1>0, <1>1, <1>2, <1>5, <3>1 DEF BitsSpent
  <2>2. BitsSpent = pos
    BY <1>3 DEF BitsAccounted
  <2>3. BitsSpent' = pos'
    BY <1>0, <1>1, <1>2, <1>3, <2>1, <2>2
  <2> QED BY <1>3, <2>3 DEF BitsAccounted
<1>8. MatchesPartitioned' /\ MatchRate'
  BY <1>3, <1>5 DEF MatchesPartitioned, MatchRate, HalfMatches, Sum5
<1>9. OutputRate'
  BY <1>0, <1>1, <1>2, <1>3 DEF OutputRate, Credit, TypeOK
<1> QED BY <1>6, <1>7, <1>8, <1>9

(* A fixed block starts with the fixed codes. *)
LEMMA FixedStep == ASSUME IInv, FixedBlock PROVE IInv'
<1> USE DEF IInv
<1>1. pos \in Nat /\ TotalBits \in Nat
  BY LenAssumption DEF TotalBits, TypeOK
<1>2. /\ pos' = pos + 3 /\ pos' <= TotalBits
      /\ h0' = pos /\ last' \in BOOLEAN /\ blocks' = blocks + 1
      /\ bits' = [bits EXCEPT !.hdr = @ + pos' - pos]
      /\ pc = "header" /\ pc' = "block"
      /\ UNCHANGED <<n, total, mlen, lit_syms, match_syms, match_bytes, cp, dist_hist, len_hist>>
  BY DEF FixedBlock, BlockHeader
<1>3. /\ bits' \in [{"lit", "len", "dist", "hdr", "stored"} -> Nat]
      /\ bits'.lit = bits.lit /\ bits'.len = bits.len /\ bits'.dist = bits.dist
      /\ bits'.hdr = bits.hdr + pos' - pos /\ bits'.stored = bits.stored
  BY <1>1, <1>2 DEF TypeOK
<1>4. TypeOK'
  <2>1. pos' \in 0..TotalBits /\ h0' \in 0..pos' /\ blocks' \in Nat
    BY <1>1, <1>2 DEF TypeOK
  <2> QED BY <1>2, <1>3, <2>1 DEF TypeOK
<1>5. BitsAccounted'
  BY <1>1, <1>2, <1>3 DEF BitsAccounted, BitsSpent, TypeOK
<1>6. MatchesPartitioned' /\ MatchRate'
  BY <1>2, <1>3 DEF MatchesPartitioned, MatchRate, HalfMatches, Sum5
<1>7. OutputRate'
  BY <1>1, <1>2 DEF OutputRate, Credit, TypeOK
<1> QED BY <1>4, <1>5, <1>6, <1>7

(* A dynamic block starts with no code lengths. *)
LEMMA DynamicStep ==
  ASSUME IInv, NEW hlit \in Hlits, NEW hdist \in Hdists, NEW hclen \in Hclens,
         DynamicBlock(hlit, hdist, hclen)
  PROVE  IInv'
<1> USE DEF IInv
<1>0. hlit \in 0..31 /\ hdist \in 0..31 /\ hclen \in 0..15
  BY HeaderAssumption
<1>1. pos \in Nat /\ TotalBits \in Nat
  BY LenAssumption DEF TotalBits, TypeOK
<1>2. /\ pos' = pos + 3 + 14 + 3 * (hclen + 4) /\ pos' <= TotalBits
      /\ h0' = pos /\ last' \in BOOLEAN /\ blocks' = blocks + 1
      /\ n' = 0 /\ total' = hlit + 257 + hdist + 1
      /\ pc = "header" /\ pc' = "tree"
      /\ UNCHANGED <<mlen, lit_syms, match_syms, match_bytes, cp, bits, dist_hist, len_hist>>
  BY DEF DynamicBlock, BlockHeader
<1>4. TypeOK'
  <2>1. /\ pos' \in 0..TotalBits /\ h0' \in 0..pos' /\ blocks' \in Nat
        /\ n' \in 0..total' /\ total' \in Nat /\ total' <= 320
    BY <1>0, <1>1, <1>2 DEF TypeOK
  <2> QED BY <1>2, <2>1 DEF TypeOK
<1>5. BitsAccounted'
  BY <1>1, <1>2 DEF BitsAccounted, BitsSpent
<1>6. MatchesPartitioned' /\ MatchRate'
  BY <1>2 DEF MatchesPartitioned, MatchRate, HalfMatches, Sum5
<1>7. OutputRate'
  BY <1>0, <1>1, <1>2 DEF OutputRate, Credit, TypeOK
<1> QED BY <1>4, <1>5, <1>6, <1>7

(* Reading code lengths moves pos and n within their bounds. *)
LEMMA TreeStep ==
  ASSUME IInv, NEW more \in Nat, pc = "tree", Consume(more), n' \in 0..total,
         UNCHANGED <<pc, last, h0, total, mlen, count>>
  PROVE  IInv'
<1> USE DEF IInv
<1>1. pos \in Nat /\ TotalBits \in Nat
  BY LenAssumption DEF TotalBits, TypeOK
<1>2. pos' = pos + more /\ pos' <= TotalBits
  BY DEF Consume
<1>4. TypeOK'
  <2>1. pos' \in 0..TotalBits /\ h0' \in 0..pos'
    BY <1>1, <1>2 DEF TypeOK
  <2> QED BY <2>1 DEF TypeOK, count
<1>5. BitsAccounted'
  BY DEF BitsAccounted, BitsSpent, count
<1>6. MatchesPartitioned' /\ MatchRate'
  BY DEF MatchesPartitioned, MatchRate, HalfMatches, Sum5, count
<1>7. OutputRate'
  BY <1>1, <1>2 DEF OutputRate, Credit, TypeOK, count
<1> QED BY <1>4, <1>5, <1>6, <1>7

(* A code length is read. *)
LEMMA TreeLengthStep ==
  ASSUME IInv, NEW code \in CodeLens, TreeLength(code)
  PROVE  IInv'
<1>1. code \in Nat
  BY CodeAssumption
<1>2. n' \in 0..total
  BY DEF TreeLength, IInv, TypeOK
<1> QED BY <1>1, <1>2, TreeStep DEF TreeLength

(* A run of code lengths stays within those announced. *)
LEMMA TreeRepeatStep ==
  ASSUME IInv, NEW code \in CodeLens, NEW sym \in {16, 17, 18},
         NEW extra \in Extras(CASE sym = 16 -> 2 [] sym = 17 -> 3 [] sym = 18 -> 7),
         TreeRepeat(code, sym, extra)
  PROVE  IInv'
<1> DEFINE field == CASE sym = 16 -> 2 [] sym = 17 -> 3 [] sym = 18 -> 7
<1>1. field \in 0..13 /\ field \in Nat
  OBVIOUS
<1>2. Pow2[field + 1] \in Nat
  BY SMT DEF Pow2
<1>3. extra \in Nat
  BY <1>1, <1>2, ExtraAssumption
<1>4. code \in Nat
  BY CodeAssumption
<1>5. n' \in 0..total
  BY <1>3 DEF TreeRepeat, IInv, TypeOK
<1>6. code + field \in Nat
  BY <1>1, <1>4
<1>7. pc = "tree" /\ Consume(code + field) /\ UNCHANGED <<pc, last, h0, total, mlen, count>>
  BY DEF TreeRepeat
<1> HIDE DEF field
<1> QED BY <1>5, <1>6, <1>7, TreeStep

(* A complete set of code lengths starts the symbols. *)
LEMMA TreeDoneStep == ASSUME IInv, TreeDone PROVE IInv'
<1> USE DEF IInv
<1>1. pos \in Nat /\ h0 \in Nat /\ h0 <= pos /\ TotalBits \in Nat
  BY LenAssumption DEF TotalBits, TypeOK
<1>2. /\ bits' = [bits EXCEPT !.hdr = @ + pos - h0]
      /\ pc = "tree" /\ pc' = "block"
      /\ UNCHANGED <<pos, last, h0, n, total, mlen, blocks, lit_syms, match_syms, match_bytes,
                     cp, dist_hist, len_hist>>
  BY DEF TreeDone
<1>3. /\ bits' \in [{"lit", "len", "dist", "hdr", "stored"} -> Nat]
      /\ bits'.lit = bits.lit /\ bits'.len = bits.len /\ bits'.dist = bits.dist
      /\ bits'.hdr = bits.hdr + pos - h0 /\ bits'.stored = bits.stored
  BY <1>1, <1>2 DEF TypeOK
<1>4. TypeOK'
  BY <1>2, <1>3 DEF TypeOK
<1>5. BitsAccounted'
  BY <1>1, <1>2, <1>3 DEF BitsAccounted, BitsSpent, TypeOK
<1>6. MatchesPartitioned' /\ MatchRate' /\ OutputRate'
  BY <1>2, <1>3 DEF MatchesPartitioned, MatchRate, HalfMatches, Sum5, OutputRate, Credit
<1> QED BY <1>4, <1>5, <1>6

(* A literal counts as one symbol. *)
LEMMA LiteralStep ==
  ASSUME IInv, NEW code \in CodeLens, Literal(code)
  PROVE  IInv'
<1> USE DEF IInv
<1>0. code \in 1..15
  BY CodeAssumption
<1>1. pos \in Nat /\ TotalBits \in Nat
  BY LenAssumption DEF TotalBits, TypeOK
<1>2. /\ pos' = pos + code /\ pos' <= TotalBits
      /\ lit_syms' = lit_syms + 1
      /\ bits' = [bits EXCEPT !.lit = @ + pos' - pos]
      /\ pc = "block" /\ pc' = "block"
      /\ UNCHANGED <<last, h0, n, total, mlen, blocks, match_syms, match_bytes, cp,
                     dist_hist, len_hist>>
  BY DEF Literal, Consume
<1>3. /\ bits' \in [{"lit", "len", "dist", "hdr", "stored"} -> Nat]
      /\ bits'.lit = bits.lit + pos' - pos /\ bits'.len = bits.len /\ bits'.dist = bits.dist
      /\ bits'.hdr = bits.hdr /\ bits'.stored = bits.stored
  BY <1>0, <1>1, <1>2 DEF TypeOK
<1>4. TypeOK'
  <2>1. pos' \in 0..TotalBits /\ h0' \in 0..pos' /\ lit_syms' \in Nat
    BY <1>0, <1>1, <1>2 DEF TypeOK
  <2> QED BY <1>2, <1>3, <2>1 DEF TypeOK
<1>5. BitsAccounted'
  BY <1>0, <1>1, <1>2, <1>3 DEF BitsAccounted, BitsSpent, TypeOK
<1>6. MatchesPartitioned' /\ MatchRate'
  BY <1>2, <1>3 DEF MatchesPartitioned, MatchRate, HalfMatches, Sum5
<1>7. OutputRate'
  BY <1>0, <1>1, <1>2 DEF OutputRate, Credit, TypeOK
<1> QED BY <1>4, <1>5, <1>6, <1>7

(* The end of a block starts the next one, or ends the walk. *)
LEMMA EndOfBlockStep ==
  ASSUME IInv, NEW code \in CodeLens, EndOfBlock(code)
  PROVE  IInv'
<1> USE DEF IInv
<1>0. code \in 1..15
  BY CodeAssumption
<1>1. pos \in Nat /\ TotalBits \in Nat
  BY LenAssumption DEF TotalBits, TypeOK
<1>2. /\ pos' = pos + code /\ pos' <= TotalBits
      /\ bits' = [bits EXCEPT !.hdr = @ + pos' - pos]
      /\ pc = "block" /\ pc' \in {"done", "header"}
      /\ UNCHANGED <<last, h0, n, total, mlen, blocks, lit_syms, match_syms, match_bytes, cp,
                     dist_hist, len_hist>>
  BY DEF EndOfBlock, Consume, AfterBlock
<1>3. /\ bits' \in [{"lit", "len", "dist", "hdr", "stored"} -> Nat]
      /\ bits'.lit = bits.lit /\ bits'.len = bits.len /\ bits'.dist = bits.dist
      /\ bits'.hdr = bits.hdr + pos' - pos /\ bits'.stored = bits.stored
  BY <1>0, <1>1, <1>2 DEF TypeOK
<1>4. TypeOK'
  <2>1. pos' \in 0..TotalBits /\ h0' \in 0..pos'
    BY <1>0, <1>1, <1>2 DEF TypeOK
  <2> QED BY <1>2, <1>3, <2>1 DEF TypeOK
<1>5. BitsAccounted'
  <2>1. BitsSpent' = pos'
    BY <1>0, <1>1, <1>2, <1>3 DEF BitsAccounted, BitsSpent, TypeOK
  <2> QED BY <1>2, <2>1 DEF BitsAccounted
<1>6. MatchesPartitioned' /\ MatchRate'
  BY <1>2, <1>3 DEF MatchesPartitioned, MatchRate, HalfMatches, Sum5
<1>7. OutputRate'
  BY <1>0, <1>1, <1>2 DEF OutputRate, Credit, TypeOK
<1> QED BY <1>4, <1>5, <1>6, <1>7

(* A length counts in one bucket of the lengths, and waits for its distance. *)
LEMMA LengthStep ==
  ASSUME IInv, NEW code \in CodeLens, NEW sym \in 0..28,
         NEW extra \in Extras(dstats_len_extra[sym + 1]), Length(code, sym, extra)
  PROVE  IInv'
<1> USE DEF IInv
<1> DEFINE more == code + dstats_len_extra[sym + 1]
           b    == dstats_bucket(mlen', len_edges)
<1>0. /\ more \in Nat /\ more >= 1
      /\ mlen' = dstats_len_base[sym + 1] + extra
      /\ mlen' \in Nat /\ 3 <= mlen' /\ mlen' <= 258
  <2>1. code \in 1..15
    BY CodeAssumption
  <2>2. dstats_len_extra[sym + 1] \in 0..5
    BY LenTable
  <2>3. more \in Nat /\ more >= 1
    BY <2>1, <2>2
  <2>4. mlen' = dstats_len_base[sym + 1] + extra
    BY DEF Length
  <2> QED BY <2>3, <2>4, LenTable
<1>1. pos \in Nat /\ TotalBits \in Nat
  BY LenAssumption DEF TotalBits, TypeOK
<1>2. b \in 0..4
  BY BucketType
<1>3. /\ pos' = pos + more /\ pos' <= TotalBits
      /\ match_syms' = match_syms + 1
      /\ match_bytes' = match_bytes + mlen'
      /\ bits' = [bits EXCEPT !.len = @ + pos' - pos]
      /\ len_hist' = [len_hist EXCEPT ![b] = @ + 1]
      /\ pc = "block" /\ pc' = "dist"
      /\ UNCHANGED <<last, h0, n, total, blocks, lit_syms, cp, dist_hist>>
  BY DEF Length, Consume
<1> HIDE DEF more, b
<1>4. /\ bits' \in [{"lit", "len", "dist", "hdr", "stored"} -> Nat]
      /\ bits'.lit = bits.lit /\ bits'.len = bits.len + more /\ bits'.dist = bits.dist
      /\ bits'.hdr = bits.hdr /\ bits'.stored = bits.stored
  BY <1>0, <1>1, <1>3 DEF TypeOK
<1>5. len_hist' \in [0..4 -> Nat] /\ Sum5(len_hist') = Sum5(len_hist) + 1
  BY <1>2, <1>3, Sum5Bump DEF TypeOK
<1>6. mlen = 0
  BY <1>3 DEF MatchesPartitioned
<1>7. TypeOK'
  <2>1. pos' \in 0..TotalBits /\ h0' \in 0..pos'
    BY <1>0, <1>1, <1>3 DEF TypeOK
  <2>2. match_syms' \in Nat /\ match_bytes' \in Nat
    BY <1>0, <1>3 DEF TypeOK
  <2> QED BY <1>0, <1>3, <1>4, <1>5, <2>1, <2>2 DEF TypeOK
<1>8. BitsAccounted'
  <2>1. BitsSpent' = BitsSpent + more
    BY <1>0, <1>4 DEF BitsSpent, TypeOK
  <2>2. BitsSpent = pos
    BY <1>3 DEF BitsAccounted
  <2> QED BY <1>3, <2>1, <2>2 DEF BitsAccounted
<1>9. MatchesPartitioned'
  <2>1. Sum5(dist_hist') = Sum5(dist_hist)
    BY <1>3 DEF Sum5
  <2>2. HalfMatches = 0 /\ HalfMatches' = 1
    BY <1>0, <1>6 DEF HalfMatches
  <2>3. Sum5(dist_hist) \in Nat
    BY DEF Sum5, TypeOK
  <2>4. /\ Sum5(len_hist) = match_syms /\ Sum5(dist_hist) + HalfMatches = match_syms
        /\ cp.copy + cp.d1 + cp.bcast + cp.mag + cp.two + cp.wide + mlen = match_bytes
    BY DEF MatchesPartitioned
  <2>5. Sum5(dist_hist') + HalfMatches' = match_syms'
    BY <1>3, <2>1, <2>2, <2>3, <2>4
  <2>6. cp'.copy + cp'.d1 + cp'.bcast + cp'.mag + cp'.two + cp'.wide + mlen' = match_bytes'
    BY <1>0, <1>3, <1>6, <2>4 DEF TypeOK
  <2>7. Sum5(len_hist') = match_syms'
    BY <1>3, <1>5, <2>4
  <2>8. pc' = "dist" /\ mlen' # 0
    BY <1>0, <1>3
  <2> HIDE DEF IInv
  <2> QED BY <2>5, <2>6, <2>7, <2>8 DEF MatchesPartitioned
<1>10. MatchRate'
  BY <1>0, <1>3, <1>4, <1>6 DEF MatchRate, HalfMatches, TypeOK
<1>11. OutputRate'
  BY <1>0, <1>1, <1>3 DEF OutputRate, Credit, TypeOK
<1> QED BY <1>7, <1>8, <1>9, <1>10, <1>11

(* Its distance completes the match. *)
LEMMA DistanceStep ==
  ASSUME IInv, NEW code \in CodeLens, NEW sym \in 0..29,
         NEW extra \in Extras(dstats_dist_extra[sym + 1]), Distance(code, sym, extra)
  PROVE  IInv'
<1> USE DEF IInv
<1> DEFINE more  == code + dstats_dist_extra[sym + 1]
           mdist == dstats_dist_base[sym + 1] + extra
           b     == dstats_bucket(mdist, dist_edges)
           arm   == CopyArm(mlen, mdist)
<1>0. more \in Nat /\ more >= 1
  <2>1. code \in 1..15
    BY CodeAssumption
  <2>2. dstats_dist_extra[sym + 1] \in 0..13
    BY DistTable
  <2> QED BY <2>1, <2>2
<1>1. pos \in Nat /\ TotalBits \in Nat
  BY LenAssumption DEF TotalBits, TypeOK
<1>2. b \in 0..4 /\ arm \in {"copy", "d1", "bcast", "mag", "two", "wide"}
  BY BucketType, ArmType
<1>3. /\ pos' = pos + more /\ pos' <= TotalBits
      /\ bits' = [bits EXCEPT !.dist = @ + pos' - pos]
      /\ dist_hist' = [dist_hist EXCEPT ![b] = @ + 1]
      /\ cp' = [cp EXCEPT ![arm] = @ + mlen]
      /\ pc = "dist" /\ pc' = "block" /\ mlen' = 0
      /\ UNCHANGED <<last, h0, n, total, blocks, lit_syms, match_syms, match_bytes, len_hist>>
  BY DEF Distance, Consume
<1> HIDE DEF more, mdist, b, arm
<1>4. /\ bits' \in [{"lit", "len", "dist", "hdr", "stored"} -> Nat]
      /\ bits'.lit = bits.lit /\ bits'.len = bits.len /\ bits'.dist = bits.dist + more
      /\ bits'.hdr = bits.hdr /\ bits'.stored = bits.stored
  BY <1>0, <1>1, <1>3 DEF TypeOK
<1>5. dist_hist' \in [0..4 -> Nat] /\ Sum5(dist_hist') = Sum5(dist_hist) + 1
  BY <1>2, <1>3, Sum5Bump DEF TypeOK
<1>6. /\ cp' \in [{"copy", "d1", "bcast", "mag", "two", "wide"} -> Nat]
      /\ cp'.copy + cp'.d1 + cp'.bcast + cp'.mag + cp'.two + cp'.wide
           = cp.copy + cp.d1 + cp.bcast + cp.mag + cp.two + cp.wide + mlen
  <2>1. arm = "copy" \/ arm = "d1" \/ arm = "bcast" \/ arm = "mag" \/ arm = "two" \/ arm = "wide"
    BY <1>2
  <2> QED BY <1>3, <2>1 DEF TypeOK
<1>7. TypeOK'
  <2>1. pos' \in 0..TotalBits /\ h0' \in 0..pos'
    BY <1>0, <1>1, <1>3 DEF TypeOK
  <2> QED BY <1>3, <1>4, <1>5, <1>6, <2>1 DEF TypeOK
<1>8. BitsAccounted'
  <2>1. BitsSpent' = BitsSpent + more
    BY <1>0, <1>4 DEF BitsSpent, TypeOK
  <2>2. BitsSpent = pos
    BY <1>3 DEF BitsAccounted
  <2> QED BY <1>3, <2>1, <2>2 DEF BitsAccounted
<1>9. MatchesPartitioned'
  <2>1. Sum5(len_hist') = Sum5(len_hist)
    BY <1>3 DEF Sum5
  <2>2. HalfMatches' = 0
    BY <1>3 DEF HalfMatches
  <2>3. Sum5(dist_hist) \in Nat
    BY DEF Sum5, TypeOK
  <2>4. /\ Sum5(len_hist) = match_syms /\ Sum5(dist_hist) + HalfMatches = match_syms
        /\ cp.copy + cp.d1 + cp.bcast + cp.mag + cp.two + cp.wide + mlen = match_bytes
    BY DEF MatchesPartitioned
  <2>5. HalfMatches = 1
    BY <1>3 DEF MatchesPartitioned, HalfMatches
  <2>6. Sum5(dist_hist') + HalfMatches' = match_syms'
    BY <1>3, <1>5, <2>2, <2>3, <2>4, <2>5
  <2>7. cp'.copy + cp'.d1 + cp'.bcast + cp'.mag + cp'.two + cp'.wide + mlen' = match_bytes'
    BY <1>3, <1>6, <2>4 DEF TypeOK
  <2>8. Sum5(len_hist') = match_syms' /\ mlen' = 0 /\ pc' = "block"
    BY <1>3, <2>1, <2>4
  <2> HIDE DEF IInv
  <2> QED BY <2>6, <2>7, <2>8 DEF MatchesPartitioned
<1>10. MatchRate'
  BY <1>0, <1>3, <1>4 DEF MatchRate, HalfMatches, TypeOK
<1>11. OutputRate'
  BY <1>0, <1>1, <1>3 DEF OutputRate, Credit, TypeOK
<1> QED BY <1>7, <1>8, <1>9, <1>10, <1>11

(* A walk that fails leaves what was counted. *)
LEMMA RejectStep == ASSUME IInv, Reject PROVE IInv'
<1>1. pc' = "error" /\ UNCHANGED <<pos, last, h0, n, total, mlen, count>>
  BY DEF Reject
<1>2. TypeOK' /\ BitsAccounted' /\ MatchesPartitioned' /\ MatchRate'
  BY <1>1 DEF count, IInv, TypeOK, BitsAccounted, BitsSpent, MatchesPartitioned,
              MatchRate, HalfMatches, Sum5
<1>3. OutputRate'
  <2>1. Credit \in Nat /\ Credit' = 0
    BY <1>1 DEF Credit
  <2>2. pos \in Nat /\ TotalBits \in Nat
    BY LenAssumption DEF TotalBits, IInv, TypeOK
  <2> QED BY <1>1, <2>1, <2>2 DEF count, IInv, TypeOK, OutputRate
<1> QED BY <1>2, <1>3 DEF IInv

(* A block that fails was counted, and nothing of it was. *)
LEMMA BadBlockStep == ASSUME IInv, BadBlock PROVE IInv'
<1>1. /\ pc = "header" /\ pc' = "error" /\ last' \in BOOLEAN /\ h0' = pos /\ blocks' = blocks + 1
      /\ UNCHANGED <<pos, n, total, mlen, lit_syms, match_syms, match_bytes, cp, bits,
                     dist_hist, len_hist>>
  BY DEF BadBlock, BlockHeader
<1>2. TypeOK'
  <2>1. pos \in Nat /\ TotalBits \in Nat
    BY LenAssumption DEF TotalBits, IInv, TypeOK
  <2>2. h0' \in 0..pos' /\ blocks' \in Nat
    BY <1>1, <2>1 DEF IInv, TypeOK
  <2> QED BY <1>1, <2>2 DEF IInv, TypeOK
<1>3. BitsAccounted' /\ MatchesPartitioned' /\ MatchRate'
  BY <1>1 DEF IInv, BitsAccounted, BitsSpent, MatchesPartitioned, MatchRate, HalfMatches, Sum5
<1>4. OutputRate'
  BY <1>1 DEF IInv, OutputRate, Credit
<1> QED BY <1>2, <1>3, <1>4 DEF IInv

(* Every step keeps IInv. *)
LEMMA NextIInv == IInv /\ [Next]_vars => IInv'
<1> SUFFICES ASSUME IInv, [Next]_vars PROVE IInv'
  OBVIOUS
<1>1. ASSUME NEW len \in StoredLens, StoredBlock(len)
      PROVE  IInv'
  BY <1>1, StoredStep
<1>2. CASE FixedBlock
  BY <1>2, FixedStep
<1>3. ASSUME NEW hlit \in Hlits, NEW hdist \in Hdists, NEW hclen \in Hclens,
             DynamicBlock(hlit, hdist, hclen)
      PROVE  IInv'
  BY <1>3, DynamicStep
<1>4. ASSUME NEW code \in CodeLens, TreeLength(code) \/ Literal(code) \/ EndOfBlock(code)
      PROVE  IInv'
  BY <1>4, TreeLengthStep, LiteralStep, EndOfBlockStep
<1>5. ASSUME NEW code \in CodeLens, NEW sym \in {16, 17, 18},
             NEW extra \in Extras(CASE sym = 16 -> 2 [] sym = 17 -> 3 [] sym = 18 -> 7),
             TreeRepeat(code, sym, extra)
      PROVE  IInv'
  BY <1>5, TreeRepeatStep
<1>6. CASE TreeDone
  BY <1>6, TreeDoneStep
<1>7. CASE AnyLength
  <2>1. PICK code \in CodeLens, sym \in 0..28 :
          \E extra \in Extras(dstats_len_extra[sym + 1]) : Length(code, sym, extra)
    BY <1>7, SymAssumption DEF AnyLength
  <2>2. PICK extra \in Extras(dstats_len_extra[sym + 1]) : Length(code, sym, extra)
    BY <2>1
  <2> QED BY <2>2, LengthStep
<1>8. CASE AnyDistance
  <2>1. PICK code \in CodeLens, sym \in 0..29 :
          \E extra \in Extras(dstats_dist_extra[sym + 1]) : Distance(code, sym, extra)
    BY <1>8, SymAssumption DEF AnyDistance
  <2>2. PICK extra \in Extras(dstats_dist_extra[sym + 1]) : Distance(code, sym, extra)
    BY <2>1
  <2> QED BY <2>2, DistanceStep
<1>9. CASE Reject \/ BadBlock
  BY <1>9, RejectStep, BadBlockStep
<1>10. CASE UNCHANGED vars
  BY <1>10 DEF vars, count, IInv, TypeOK, BitsAccounted, BitsSpent, MatchesPartitioned,
              MatchRate, HalfMatches, OutputRate, Credit, Sum5
<1> QED BY <1>1, <1>2, <1>3, <1>4, <1>5, <1>6, <1>7, <1>8, <1>9, <1>10 DEF Next

(* It is an invariant of the walker. *)
LEMMA Inductive == Spec => []IInv
BY InitIInv, NextIInv, PTL DEF Spec

----------------------------------------------------------------------------
(* The walk never leaves its input nor writes past the 320 code lengths.    *)
THEOREM TypeCorrect == Spec => []TypeOK
<1>1. IInv => TypeOK
  BY DEF IInv
<1> QED BY <1>1, Inductive, PTL

(* The bit classes of the anatomy counters add up to what was consumed.     *)
THEOREM EveryBitAccounted == Spec => []BitsAccounted
<1>1. IInv => BitsAccounted
  BY DEF IInv
<1> QED BY <1>1, Inductive, PTL

(* The histograms and the copy arms partition the matches, but for a length *)
(* whose distance is not read yet or was not to be had.                     *)
THEOREM PartitionsAgree == Spec => []MatchesPartitioned
<1>1. IInv => MatchesPartitioned
  BY DEF IInv
<1> QED BY <1>1, Inductive, PTL

(* No input of in_len bytes is reported to hold more than 1032 * in_len,    *)
(* and no match to cost less than two bits, also when the walk fails.       *)
THEOREM OutputWithinLimits == Spec => []OutputBounded
<1>1. IInv => OutputBounded
  <2> SUFFICES ASSUME IInv PROVE OutputBounded
    OBVIOUS
  <2>1. lit_syms + match_bytes <= 129 * pos /\ pos <= 8 * InLen
    BY DEF IInv, OutputRate, Credit, TypeOK, TotalBits
  <2>2. lit_syms + match_bytes <= 1032 * InLen
    BY <2>1, LenAssumption DEF IInv, TypeOK, TotalBits
  <2> QED BY <2>2 DEF IInv, MatchRate, OutputBounded
<1> QED BY <1>1, Inductive, PTL

----------------------------------------------------------------------------
(* ZlibCodec. *)

CallTypes ==
  /\ state \in {"closed", "init", "failing", "ending", "open", "chunks"}
  /\ call \in Calls
  /\ done \in Nat /\ reach \in Nat /\ taken \in BOOLEAN

Progress ==
  state = "chunks" =>
    /\ done < call.out_size \/ (done = 0 /\ call.out_size = 0 /\ ~taken)
    /\ done <= call.stream.n
    /\ done = call.stream.n => call.stream.end # "end" \/ ~taken
    /\ taken /\ done < call.stream.n => call.out_size >= Width \/ Trunc(call.chunk) = 0

\* Whatever it is asked for, once it has been asked.
Agreed ==
  /\ state \in {"closed", "init"} => call = NoCall /\ result = 0
  /\ state = "open" => ChunkedAgrees

ZlibInv == CallTypes /\ StaysInside /\ Progress /\ Agreed

----------------------------------------------------------------------------
\* The 32 bits of avail_out lose nothing of a length below 2^32 and never add.
LEMMA TruncIs ==
  ASSUME NEW m \in Nat
  PROVE  Trunc(m) \in Nat /\ Trunc(m) <= m /\ (m < Width => Trunc(m) = m)
BY WidthAssumption DEF Trunc

\* A window lies behind what is written and inside the buffer, and has room
\* unless a length did not fit 32 bits.
LEMMA WindowIs ==
  ASSUME NEW c \in Calls, NEW d \in Nat, d <= c.out_size
  PROVE  /\ Window(c, d) \in Nat /\ d + Window(c, d) <= c.out_size
         /\ d < c.out_size /\ c.out_size < Width /\ Trunc(c.chunk) > 0 => Window(c, d) > 0
<1>1. c.chunk \in Nat /\ c.out_size \in Nat /\ c.out_size - d \in Nat
  BY OutAssumption DEF Calls
<1>2. Lesser(c.chunk, c.out_size - d) \in {c.chunk, c.out_size - d}
  BY DEF Lesser
<1>3. Lesser(c.chunk, c.out_size - d) <= c.out_size - d
  BY <1>1 DEF Lesser
<1> QED BY <1>1, <1>2, <1>3, TruncIs, WidthAssumption DEF Window

\* A closed wrapper has been asked for nothing.
LEMMA ZlibInitInv == ZlibInit => ZlibInv
<1> SUFFICES ASSUME ZlibInit PROVE ZlibInv
  OBVIOUS
<1>1. NoCall \in Calls /\ NoCall.out_size = 0
  BY OutAssumption DEF NoCall, Calls, Streams
<1>2. CallTypes
  BY <1>1, Zenon DEF ZlibInit, CallTypes
<1> QED BY <1>1, <1>2 DEF ZlibInit, ZlibInv, StaysInside, Progress, Agreed

\* Opening, ending and the allocations of the library.
LEMMA LifeIInv ==
  ASSUME ZlibInv, Alloc \/ Free \/ Open \/ InitOk \/ InitFail \/ End \/ Closed
  PROVE  ZlibInv'
<1>1. CASE Alloc \/ Free
  BY <1>1 DEF ZlibInv, CallTypes, StaysInside, Progress, Agreed, ChunkedAgrees, decompress, Alloc,
     Free, loop
<1>2. CASE Open \/ InitFail \/ End
  BY <1>2 DEF ZlibInv, CallTypes, StaysInside, Progress, Agreed, ChunkedAgrees, Open, InitFail, End,
     loop
<1>3. CASE InitOk
  <2>1. state = "init" /\ state' = "open" /\ UNCHANGED loop
    BY <1>3 DEF InitOk
  <2>2. call = NoCall /\ result = 0
    BY <2>1 DEF ZlibInv, Agreed
  <2>3. decompress(NoCall) = 0
    BY DEF decompress, NoCall
  <2>4. ChunkedAgrees'
    BY <2>1, <2>2, <2>3 DEF ChunkedAgrees, loop
  <2> QED BY <2>1, <2>4 DEF ZlibInv, CallTypes, StaysInside, Progress, Agreed, loop
<1>4. CASE Closed
  <2>1. /\ state' = "closed" /\ call' = NoCall /\ done' = 0 /\ taken' = FALSE /\ reach' = 0
        /\ result' = 0
    BY <1>4 DEF Closed
  <2>2. NoCall \in Calls /\ NoCall.out_size = 0
    BY OutAssumption DEF NoCall, Calls, Streams
  <2>3. CallTypes'
    BY <2>1, <2>2, Zenon DEF CallTypes
  <2> QED BY <2>1, <2>2, <2>3 DEF ZlibInv, StaysInside, Progress, Agreed
<1> QED BY <1>1, <1>2, <1>3, <1>4

\* A call begins at 0, or is refused and is nothing.
LEMMA StartIInv == ASSUME ZlibInv, Start PROVE ZlibInv'
<1>1. state = "open" /\ done' = 0 /\ taken' = FALSE /\ reach' = 0
  BY DEF Start
<1>2. CASE state' = "chunks"
  <2>1. call' \in Calls
    BY <1>1, <1>2 DEF Start
  <2>2. call'.out_size \in Nat /\ call'.stream.n \in Nat
    BY <2>1, OutAssumption DEF Calls, Streams
  <2>3. CallTypes'
    <3>1. taken' \in BOOLEAN
      BY <1>1, Zenon
    <3> QED BY <1>1, <1>2, <2>1, <3>1 DEF CallTypes
  <2> QED BY <1>1, <1>2, <2>2, <2>3 DEF ZlibInv, StaysInside, Progress, Agreed
<1>3. CASE state' # "chunks"
  <2>1. result' = 0 /\ call' = NoCall /\ state' = "open"
    BY <1>1, <1>3 DEF Start
  <2>2. NoCall \in Calls /\ NoCall.out_size = 0 /\ decompress(NoCall) = 0
    BY OutAssumption DEF NoCall, Calls, Streams, decompress
  <2>3. CallTypes'
    <3>1. taken' \in BOOLEAN
      BY <1>1, Zenon
    <3> QED BY <1>1, <2>1, <2>2, <3>1 DEF CallTypes
  <2>4. ChunkedAgrees'
    BY <2>1, <2>2 DEF ChunkedAgrees
  <2> QED BY <1>1, <2>1, <2>2, <2>3, <2>4 DEF ZlibInv, StaysInside, Progress, Agreed
<1> QED BY <1>2, <1>3

\* One pass of the loop.
LEMMA PassIInv == ASSUME ZlibInv, Pass PROVE ZlibInv'
<1> DEFINE avail == Window(call, done)
           full == call.stream.n
           size == call.out_size
<1>1. state = "chunks" /\ call' = call /\ reach' = Greater(reach, done + avail)
  BY DEF Pass
<1>2. /\ full \in Nat /\ size \in Nat /\ done \in Nat /\ reach \in Nat
      /\ call \in Calls /\ call.stream.end \in {"end", "corrupt", "cut"}
  BY OutAssumption DEF ZlibInv, CallTypes, Calls, Streams
<1>3. done <= size /\ done <= full /\ reach <= size /\ done <= reach
  BY <1>1, <1>2 DEF ZlibInv, Progress, StaysInside
<1>4. /\ avail \in Nat /\ done + avail <= size
      /\ done < size /\ size < Width /\ Trunc(call.chunk) > 0 => avail > 0
  BY <1>2, <1>3, WindowIs
<1>5. PICK r \in inflate(call.stream, done, avail) :
        /\ done' = r.out /\ taken' = (taken \/ r.out = done)
        /\ IF Returns(r, call) THEN state' = "open" /\ result' = Result(r, call)
           ELSE UNCHANGED <<state, result>>
  BY DEF Pass
<1> DEFINE out == Lesser(full, done + avail)
           more == IF out > done \/ ~taken THEN {"Z_OK"} ELSE {"Z_BUF_ERROR"}
<1>6. /\ r.out = out
      /\ out < full => r.ret \in more
      /\ out >= full /\ call.stream.end = "end" => r.ret = "Z_STREAM_END"
      /\ call.stream.end # "end" => r.ret \in more \cup {"Z_DATA_ERROR"}
  BY <1>2, <1>4 DEF inflate, Lesser
<1> HIDE DEF avail, full, size
<1>7. /\ out \in Nat /\ done <= out /\ out <= full /\ out <= done + avail /\ out <= size
      /\ out = full \/ out = done + avail
  BY <1>2, <1>3, <1>4 DEF Lesser
<1> HIDE DEF out
<1>8. CallTypes' /\ StaysInside'
  <2>1. reach' \in Nat /\ reach' <= size /\ out <= reach'
    BY <1>1, <1>2, <1>3, <1>4, <1>7 DEF Greater
  <2>2. taken' \in BOOLEAN
    BY <1>5, Zenon
  <2>3. state' \in {"open", "chunks"}
    BY <1>1, <1>5
  <2> QED BY <1>1, <1>2, <1>5, <1>6, <1>7, <2>1, <2>2, <2>3 DEF CallTypes, StaysInside, size
<1>9. CASE Returns(r, call)
  <2>1. state' = "open" /\ result' = Result(r, call)
    BY <1>5, <1>9
  <2>2. ASSUME size < Width, Trunc(call.chunk) > 0
        PROVE  Result(r, call) = decompress(call)
    <3>1. Trunc(size) = size
      BY <1>2, <2>2, TruncIs
    <3>2. CASE call.stream.end # "end"
      BY <1>6, <3>2 DEF Result, decompress
    <3>3. CASE call.stream.end = "end" /\ out = full
      BY <1>2, <1>6, <1>7, <3>1, <3>3 DEF Result, decompress, full, size
    <3>4. CASE call.stream.end = "end" /\ out # full
      <4>1. out < full /\ out = done + avail /\ r.ret \in more
        BY <1>2, <1>6, <1>7, <3>4
      <4>2. full > size
        <5>1. CASE r.ret = "Z_OK"
          BY <1>2, <1>6, <1>7, <1>9, <4>1, <5>1 DEF Returns, size
        <5>2. CASE r.ret # "Z_OK"
          <6>1. taken /\ ~(out > done)
            BY <4>1, <5>2
          <6>2. done < full
            BY <1>2, <1>7, <4>1
          <6> QED BY <1>1, <1>2, <2>2, <6>1, <6>2, TruncIs, WidthAssumption
                  DEF ZlibInv, Progress, Calls, full, size
        <5> QED BY <5>1, <5>2
      <4> QED BY <1>2, <1>6, <3>1, <4>1, <4>2 DEF Result, decompress, full, size
    <3> QED BY <3>2, <3>3, <3>4
  <2>3. ChunkedAgrees'
    BY <1>1, <2>1, <2>2 DEF ChunkedAgrees, size
  <2> QED BY <1>8, <2>1, <2>3 DEF ZlibInv, Progress, Agreed
<1>10. CASE ~Returns(r, call)
  <2>1. state' = "chunks" /\ r.ret = "Z_OK" /\ ~(out >= size)
    BY <1>1, <1>5, <1>6, <1>10 DEF Returns, size
  <2>2. out < size
    BY <1>2, <1>7, <2>1
  <2>3. out = full => call.stream.end # "end"
    BY <1>6, <1>7, <1>2, <2>1
  <2>4. taken' /\ out < full => size >= Width \/ Trunc(call.chunk) = 0
    <3> SUFFICES ASSUME taken', out < full PROVE size >= Width \/ Trunc(call.chunk) = 0
      OBVIOUS
    <3>1. out < full /\ taken'
      OBVIOUS
    <3>2. CASE ~taken
      <4>0. r.out = done
        BY <1>5, <3>1, <3>2, Zenon
      <4>1. out = done /\ avail = 0 /\ done < size
        BY <1>2, <1>4, <1>6, <1>7, <2>2, <3>1, <4>0
      <4>2. Trunc(call.chunk) \in Nat
        BY <1>2, TruncIs, OutAssumption DEF Calls
      <4> QED BY <1>2, <1>4, <4>1, <4>2, WidthAssumption
    <3>3. CASE taken
      BY <1>1, <1>2, <1>7, <3>3 DEF ZlibInv, Progress, full, size
    <3> QED BY <3>2, <3>3
  <2> QED BY <1>1, <1>2, <1>5, <1>6, <1>7, <1>8, <2>1, <2>2, <2>3, <2>4
          DEF ZlibInv, Progress, Agreed, full, size
<1> QED BY <1>9, <1>10

\* Every step of the wrapper and of the library below it.
LEMMA ZlibNextInv == ZlibInv /\ [ZlibNext]_zlibVars => ZlibInv'
<1>1. ZlibInv /\ UNCHANGED zlibVars => ZlibInv'
  BY DEF ZlibInv, CallTypes, StaysInside, Progress, Agreed, ChunkedAgrees, decompress, zlibVars, loop
<1> QED BY <1>1, LifeIInv, StartIInv, PassIInv DEF ZlibNext

\* Where a wrapper is, and how far its call.
LEMMA CallsKeepCount == ZlibSpec => []ZlibInv
<1> QED BY ZlibInitInv, ZlibNextInv, PTL DEF ZlibSpec

\* inflate is never lent room past the output buffer, nor what it has written.
THEOREM WindowsStayInside == ZlibSpec => []StaysInside
<1>1. ZlibInv => StaysInside
  BY DEF ZlibInv
<1> QED BY <1>1, CallsKeepCount, PTL

\* decompress_chunked returns what decompress would, for good, corrupt and cut
\* streams of any length, unless a length passes 32 bits.
THEOREM WindowsAgree == ZlibSpec => []ChunkedAgrees
<1>1. ZlibInv => ChunkedAgrees
  BY DEF ZlibInv, Agreed, ChunkedAgrees
<1> QED BY <1>1, CallsKeepCount, PTL

----------------------------------------------------------------------------
(* The allocation counter.  Counted is MemIsExact with what it rests on: the *)
(* blocks have lengths, and a closed wrapper holds none, so that Open may    *)
(* start the counter at 0.                                                  *)
Counted ==
  /\ block \in [Blocks -> Nat]
  /\ mc \in [live : Int, peak : Int] /\ most \in Int
  /\ state = "closed" => Held = 0
  /\ MemIsExact

\* The bytes that are allocated are a number.
LEMMA HeldIsInt == ASSUME Counted PROVE Held \in Int
<1>1. DOMAIN block = Blocks /\ \A a \in Blocks : block[a] \in Int
  BY DEF Counted
<1> QED BY <1>1, BlocksAssumption, SumType DEF Held, SumFunction

\* Nothing is allocated before the codec is opened.
LEMMA InitCounted == ZlibInit => Counted
<1> SUFFICES ASSUME ZlibInit PROVE Counted
  OBVIOUS
<1>1. block = [a \in Blocks |-> 0] /\ state = "closed" /\ mc = [live |-> 0, peak |-> 0] /\ most = 0
  BY DEF ZlibInit
<1>2. Held = 0
  BY <1>1, BlocksAssumption, SumZeros DEF Held, SumFunction
<1> QED BY <1>1, <1>2 DEF Counted, MemIsExact

\* malloc found room: the counter and the blocks grow by the same.
LEMMA AllocCounted == ASSUME Counted, Alloc PROVE Counted'
<1>1. PICK a \in Blocks, bytes \in 1..MaxBytes :
        /\ block[a] = 0 /\ block' = [block EXCEPT ![a] = bytes]
        /\ mc' = mem_count_alloc(mc, bytes)
  BY DEF Alloc
<1>2. block \in [Blocks -> Int] /\ bytes \in Int /\ bytes \in Nat
  BY BytesAssumption DEF Counted
<1>3. Held' = Held - 0 + bytes /\ Held \in Int
  <2>1. SumFunction(block') = SumFunction(block) - block[a] + bytes
    BY <1>1, <1>2, BlocksAssumption, SumExcept
  <2>2. SumFunction(block) \in Int
    BY HeldIsInt DEF Held
  <2> QED BY <1>1, <2>1, <2>2 DEF Held
<1>4. mc.live = Held /\ mc.peak = most /\ state # "closed" /\ state' = state
  BY DEF Alloc, Running, Counted, MemIsExact
<1>5. most' = Greater(most, Held')
  BY DEF Alloc, Held
<1>6. block' \in [Blocks -> Nat]
  BY <1>1, <1>2 DEF Counted
<1>7. mc.live \in Int /\ mc.peak \in Int /\ most \in Int
  BY DEF Counted
<1>8. mc' = [live |-> mc.live + bytes, peak |-> Greater(mc.peak, mc.live + bytes)]
  BY <1>1 DEF mem_count_alloc
<1> QED BY <1>2, <1>3, <1>4, <1>5, <1>6, <1>7, <1>8 DEF Counted, MemIsExact, Greater

\* A block is given back: the counter goes down by the length in front of it.
LEMMA FreeCounted == ASSUME Counted, Free PROVE Counted'
<1>1. PICK a \in Blocks :
        /\ block' = [block EXCEPT ![a] = 0] /\ mc' = mem_count_free(mc, block[a])
  BY DEF Free
<1>2. block \in [Blocks -> Int] /\ block[a] \in Int
  BY DEF Counted
<1>3. Held' = Held - block[a] /\ Held \in Int
  <2>1. SumFunction(block') = SumFunction(block) - block[a] + 0
    <3>1. SumFunction([block EXCEPT ![a] = 0]) = SumFunction(block) - block[a] + 0
      BY <1>2, 0 \in Int, BlocksAssumption, SumExcept
    <3> QED BY <1>1, <3>1
  <2>2. SumFunction(block) \in Int
    BY HeldIsInt DEF Held
  <2> QED BY <1>2, <2>1, <2>2 DEF Held
<1>4. mc.live = Held /\ mc.peak = most /\ state # "closed" /\ state' = state /\ most' = most
  BY DEF Free, Counted, MemIsExact
<1>5. block' \in [Blocks -> Nat]
  BY <1>1, <1>2 DEF Counted
<1>6. mc' = [mc EXCEPT !.live = mc.live - block[a]] /\ mc \in [live : Int, peak : Int]
  BY <1>1 DEF mem_count_free, Counted
<1> QED BY <1>2, <1>3, <1>4, <1>5, <1>6 DEF Counted, MemIsExact

\* init finds the wrapper with nothing held; nothing else touches the counter.
LEMMA LifeCounted ==
  ASSUME Counted, Open \/ InitOk \/ InitFail \/ End \/ Closed \/ Start \/ Pass \/ UNCHANGED zlibVars
  PROVE  Counted'
<1>1. CASE Open
  <2>1. mc' = [live |-> 0, peak |-> 0] /\ most' = 0 /\ block' = block /\ state = "closed"
        /\ state' = "init"
    BY <1>1 DEF Open
  <2> QED BY <2>1 DEF Counted, MemIsExact, Held
<1>2. CASE Closed
  BY <1>2 DEF Closed, Counted, MemIsExact, Held, lib
<1>3. CASE InitOk \/ InitFail \/ End \/ Start \/ Pass
  <2>1. UNCHANGED lib /\ state # "closed" /\ state' # "closed"
    BY <1>3 DEF InitOk, InitFail, End, Start, Pass
  <2> QED BY <2>1 DEF Counted, MemIsExact, Held, lib
<1>4. CASE UNCHANGED zlibVars
  BY <1>4 DEF zlibVars, Counted, MemIsExact, Held, lib
<1> QED BY <1>1, <1>2, <1>3, <1>4

\* mem_count.h reports the most bytes a stream held at once, whatever blocks
\* of whatever lengths the library takes and returns, in whatever order, and
\* for every wrapper opened after another.
THEOREM PeakIsExact == ZlibSpec => []MemIsExact
<1>1. Counted /\ [ZlibNext]_zlibVars => Counted'
  BY AllocCounted, FreeCounted, LifeCounted DEF ZlibNext
<1>2. Counted => MemIsExact
  BY DEF Counted
<1> QED BY <1>1, <1>2, InitCounted, PTL DEF ZlibSpec
=============================================================================
