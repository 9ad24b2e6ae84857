------------------------- MODULE SymbolReaderProofs -------------------------
(***************************************************************************)
(* Proofs about the bit reader and the symbol decoder, for every input,      *)
(* every set of read sizes up to 13 bits, and every set of code lengths for  *)
(* alphabets and longest codes of any size.                                 *)
(*                                                                         *)
(* The reader: IInv is inductive, the buffer holds exactly the bits of the   *)
(* stream that were fetched and not consumed.  A failed read leaves fewer    *)
(* bits than it asked for, hence the bound of 12 where LessThanAByte allows 7. *)
(*                                                                         *)
(* The decoder: Taken(l) is the space that all codes of length l and less    *)
(* take of a tree of depth l.  What dstats_build counts down is 2^l minus    *)
(* that (LeftIs), a code word is 2 * Taken(l - 1) plus the rank of its       *)
(* symbol among those of its length (CodeWordIs), and the rank is where the  *)
(* table has the symbol (SlotIs).  So the bits read, as a number, are less    *)
(* than Taken(l) when the table is read and at least that when it is not.    *)
(***************************************************************************)
EXTENDS SymbolReader, FoldTheorems

----------------------------------------------------------------------------
(* The reader. *)

Content == [k \in 0..(bitcnt - 1) |-> Src!StreamBit(dstats_pos + k)]

Bounds ==
  /\ in_pos \in 0..InLen
  /\ bitcnt \in 0..12
  /\ bitcnt <= 8 * in_pos
  /\ failed \in BOOLEAN
  /\ ~failed => bitcnt < 8

Values == val = Fail \/ \E m \in 0..13 : val \in [0..(m - 1) -> {0, 1}]

IInv == Bounds /\ Values /\ bitbuf = Content

----------------------------------------------------------------------------
\* The bits of a byte in its place in the stream.
LEMMA ByteBits ==
  ASSUME NEW a \in Nat, NEW j \in Nat
  PROVE  /\ (8 * a + j) \div 8 = a + j \div 8
         /\ (8 * a + j) % 8 = j % 8
BY SMT

\* Every bit of the input is a bit.
LEMMA StreamBitType ==
  ASSUME NEW i \in 0..(8 * InLen - 1)
  PROVE  Src!StreamBit(i) \in {0, 1}
<1>1. i \div 8 \in 0..(InLen - 1) /\ i % 8 \in 0..7
  BY LenAssumption, SMT
<1> QED BY <1>1, InAssumption DEF Src!StreamBit, Byte

\* Fetching n bytes extends the buffer by the next 8 * n bits of the stream.
LEMMA FilledIsStream ==
  ASSUME Bounds, bitbuf = Content, NEW n \in Nat
  PROVE  Filled(n) = [k \in 0..(bitcnt + 8 * n - 1) |-> Src!StreamBit(dstats_pos + k)]
<1> SUFFICES ASSUME NEW k \in 0..(bitcnt + 8 * n - 1)
             PROVE  (IF k < bitcnt THEN bitbuf[k]
                     ELSE in[in_pos + (k - bitcnt) \div 8][(k - bitcnt) % 8])
                      = Src!StreamBit(dstats_pos + k)
  BY DEF Filled
<1>1. bitcnt \in Nat /\ in_pos \in Nat
  BY LenAssumption DEF Bounds
<1>2. CASE k < bitcnt
  <2>1. k \in 0..(bitcnt - 1)
    BY <1>1, <1>2
  <2> QED BY <1>2, <2>1 DEF Content
<1>3. CASE ~(k < bitcnt)
  <2>1. k - bitcnt \in Nat
    BY <1>1, <1>3
  <2>2. dstats_pos + k = 8 * in_pos + (k - bitcnt)
    BY <1>1 DEF dstats_pos
  <2> QED BY <1>1, <1>3, <2>1, <2>2, ByteBits DEF Src!StreamBit
<1> QED BY <1>2, <1>3

\* The bytes fetched for a read are just enough.
LEMMA WantedBytes ==
  ASSUME Bounds, NEW need \in 0..13
  PROVE  /\ Wanted(need) \in Nat
         /\ bitcnt + 8 * Wanted(need) >= need
         /\ bitcnt < need => bitcnt + 8 * Wanted(need) < need + 8
         /\ bitcnt >= need => Wanted(need) = 0
BY LenAssumption, SMT DEF Bounds, Wanted

----------------------------------------------------------------------------
\* Nothing has been fetched.
LEMMA InitIInv == Init => IInv
<1> SUFFICES ASSUME Init PROVE IInv
  OBVIOUS
<1>0. in_pos = 0 /\ bitcnt = 0 /\ failed = FALSE
  BY DEF Init
<1>1. Bounds
  <2>1. in_pos \in 0..InLen /\ bitcnt \in 0..12 /\ bitcnt <= 8 * in_pos /\ bitcnt < 8
    BY <1>0, LenAssumption
  <2>2. failed \in BOOLEAN
    BY <1>0
  <2> QED BY <2>1, <2>2 DEF Bounds
<1>2. Values
  <2>1. val = [k \in 0..(0 - 1) |-> 0]
    BY DEF Init
  <2>2. val \in [0..(0 - 1) -> {0, 1}]
    BY <2>1
  <2> QED BY <2>2 DEF Values
<1>3. bitbuf = Content
  BY DEF Init, Content
<1> QED BY <1>1, <1>2, <1>3 DEF IInv

\* A successful read keeps the invariant and returns the next bits.
LEMMA BitsStep ==
  ASSUME IInv, NEW need \in Needs, Bits(need)
  PROVE  /\ IInv'
         /\ dstats_pos' = dstats_pos + need
         /\ val' = Src!BitsAt(dstats_pos, need)
         /\ dstats_pos + need <= 8 * InLen
<1> DEFINE n == Wanted(need)
<1>0. need \in 0..13 /\ Bounds /\ bitbuf = Content
  BY NeedsAssumption DEF IInv
<1>1. /\ n \in Nat
      /\ bitcnt + 8 * n >= need
      /\ bitcnt < need => bitcnt + 8 * n < need + 8
      /\ bitcnt >= need => n = 0
  BY <1>0, WantedBytes
<1> HIDE DEF n
<1>2. /\ MayAsk(need)
      /\ in_pos + n <= InLen
      /\ in_pos' = in_pos + n
      /\ val' = [k \in 0..(need - 1) |-> Filled(n)[k]]
      /\ bitcnt' = bitcnt + 8 * n - need
      /\ bitbuf' = [k \in 0..(bitcnt + 8 * n - need - 1) |-> Filled(n)[k + need]]
      /\ failed' = failed
  BY DEF Bits, n
<1>3. Filled(n) = [k \in 0..(bitcnt + 8 * n - 1) |-> Src!StreamBit(dstats_pos + k)]
  BY <1>0, <1>1, FilledIsStream
<1>4. Bounds'
  BY <1>0, <1>1, <1>2, LenAssumption DEF Bounds, MayAsk
<1>5. /\ dstats_pos' = dstats_pos + need
      /\ dstats_pos + need <= 8 * InLen
      /\ dstats_pos \in Nat
  BY <1>0, <1>1, <1>2, LenAssumption DEF dstats_pos, Bounds
<1>6. val' = Src!BitsAt(dstats_pos, need)
  <2> SUFFICES ASSUME NEW k \in 0..(need - 1)
               PROVE  Filled(n)[k] = Src!StreamBit(dstats_pos + k)
    BY <1>2 DEF Src!BitsAt
  <2>1. k \in 0..(bitcnt + 8 * n - 1)
    BY <1>0, <1>1 DEF Bounds
  <2> QED BY <1>3, <2>1
<1>7. Values'
  <2> SUFFICES ASSUME NEW k \in 0..(need - 1)
               PROVE  Src!StreamBit(dstats_pos + k) \in {0, 1}
    <3>1. val' = [k \in 0..(need - 1) |-> Src!StreamBit(dstats_pos + k)]
      BY <1>6 DEF Src!BitsAt
    <3> QED BY <1>0, <3>1 DEF Values
  <2>1. dstats_pos + k \in 0..(8 * InLen - 1)
    BY <1>0, <1>5, LenAssumption
  <2> QED BY <2>1, StreamBitType
<1>8. (bitbuf = Content)'
  <2>1. bitbuf' = [k \in 0..(bitcnt' - 1) |-> Filled(n)[k + need]]
    <3>1. bitcnt + 8 * n - need - 1 = bitcnt' - 1
      BY <1>0, <1>1, <1>2 DEF Bounds
    <3>2. bitbuf' = [k \in 0..(bitcnt + 8 * n - need - 1) |-> Filled(n)[k + need]]
      BY <1>2
    <3> QED BY ONLY <3>1, <3>2
  <2> SUFFICES ASSUME NEW k \in 0..(bitcnt' - 1)
               PROVE  Filled(n)[k + need] = Src!StreamBit(dstats_pos' + k)
    BY <2>1 DEF Content, Src!StreamBit
  <2>2. k + need \in 0..(bitcnt + 8 * n - 1)
    BY <1>0, <1>1, <1>2 DEF Bounds
  <2>3. dstats_pos + (k + need) = dstats_pos' + k
    BY <1>0, <1>5
  <2> QED BY <1>3, <2>2, <2>3
<1> QED BY <1>4, <1>5, <1>6, <1>7, <1>8 DEF IInv

\* A read that fails keeps the invariant and consumes nothing.
LEMMA BitsFailStep ==
  ASSUME IInv, NEW need \in Needs, BitsFail(need)
  PROVE  /\ IInv'
         /\ dstats_pos' = dstats_pos
         /\ val' = Fail
         /\ dstats_pos + need > 8 * InLen
<1> DEFINE left == InLen - in_pos
<1>0. need \in 0..13 /\ Bounds /\ bitbuf = Content
  BY NeedsAssumption DEF IInv
<1>1. left \in Nat
  BY <1>0, LenAssumption DEF Bounds
<1>2. /\ Wanted(need) \in Nat
      /\ bitcnt + 8 * left < need
      /\ bitcnt < need
  BY <1>0, <1>1, LenAssumption, SMT DEF BitsFail, Wanted, Bounds
<1> HIDE DEF left
<1>3. /\ in_pos' = InLen
      /\ bitcnt' = bitcnt + 8 * left
      /\ bitbuf' = Filled(left)
      /\ val' = Fail
      /\ failed' = TRUE
  BY DEF BitsFail, left
<1>4. in_pos + left = InLen
  BY <1>0, LenAssumption DEF left, Bounds
<1>5. Bounds'
  BY <1>0, <1>1, <1>2, <1>3, <1>4, LenAssumption DEF Bounds
<1>6. dstats_pos' = dstats_pos /\ dstats_pos + need > 8 * InLen
  BY <1>0, <1>1, <1>2, <1>3, <1>4, LenAssumption DEF Bounds, dstats_pos
<1>7. (bitbuf = Content)'
  <2>1. Filled(left) = [k \in 0..(bitcnt + 8 * left - 1) |-> Src!StreamBit(dstats_pos + k)]
    BY <1>0, <1>1, FilledIsStream
  <2>2. bitbuf' = [k \in 0..(bitcnt' - 1) |-> Src!StreamBit(dstats_pos + k)]
    <3>1. bitcnt + 8 * left - 1 = bitcnt' - 1
      BY <1>0, <1>1, <1>3 DEF Bounds
    <3>2. bitbuf' = Filled(left)
      BY <1>3
    <3> QED BY ONLY <2>1, <3>1, <3>2
  <2> SUFFICES ASSUME NEW k \in 0..(bitcnt' - 1)
               PROVE  Src!StreamBit(dstats_pos + k) = Src!StreamBit(dstats_pos' + k)
    BY <2>2 DEF Content, Src!StreamBit
  <2> QED BY <1>6
<1> QED BY <1>3, <1>5, <1>6, <1>7 DEF IInv, Values

\* A stored block is stepped over from the next byte boundary on.
LEMMA StoredStep ==
  ASSUME IInv, NEW n \in 0..InLen, Stored(n)
  PROVE  /\ IInv'
         /\ Src!SkipBytes(n)
<1>0. Bounds /\ ~failed /\ bitcnt < 8
  BY DEF IInv, Bounds, Stored
<1>1. /\ in_pos + n <= InLen
      /\ in_pos' = in_pos + n
      /\ bitcnt' = 0 /\ bitbuf' = <<>>
      /\ val' = <<>>
      /\ failed' = failed
  BY DEF Stored
<1>2. Bounds'
  BY <1>0, <1>1, LenAssumption DEF Bounds
<1>3. Values'
  <2>1. val' = [k \in 0..(0 - 1) |-> 0]
    BY <1>1
  <2>2. val' \in [0..(0 - 1) -> {0, 1}]
    BY <2>1
  <2> QED BY <2>2 DEF Values
<1>4. (bitbuf = Content)'
  BY <1>1 DEF Content
<1>5. 8 * ((dstats_pos + 7) \div 8) = 8 * in_pos
  BY <1>0, LenAssumption, SMT DEF Bounds, dstats_pos
<1>6. Src!SkipBytes(n)
  BY <1>0, <1>1, <1>5, LenAssumption DEF Src!SkipBytes, Src!TotalBits, dstats_pos, Bounds
<1> QED BY <1>2, <1>3, <1>4, <1>6 DEF IInv

\* Every read and every stored block keeps the invariant of the reader.
LEMMA NextIInv == IInv /\ [Next]_vars => IInv'
<1> SUFFICES ASSUME IInv, [Next]_vars PROVE IInv'
  OBVIOUS
<1>1. ASSUME NEW need \in Needs, Bits(need) PROVE IInv'
  BY <1>1, BitsStep
<1>2. ASSUME NEW need \in Needs, BitsFail(need) PROVE IInv'
  BY <1>2, BitsFailStep
<1>3. ASSUME NEW n \in 0..InLen, Stored(n) PROVE IInv'
  BY <1>3, StoredStep
<1>4. CASE UNCHANGED vars
  BY <1>4 DEF vars, IInv, Bounds, Values, Content, dstats_pos, Src!StreamBit
<1> QED BY <1>1, <1>2, <1>3, <1>4 DEF Next

\* So it always holds.
LEMMA Inductive == Spec => []IInv
BY InitIInv, NextIInv, PTL DEF Spec

----------------------------------------------------------------------------
\* Between calls the buffer of the reader holds less than a byte, so that
\* dropping it before a stored block aligns and loses nothing.
THEOREM BufferIsShort == Spec => []LessThanAByte
<1>1. IInv => LessThanAByte
  BY DEF IInv, Bounds, LessThanAByte
<1> QED BY <1>1, Inductive, PTL

\* The buffer is always the stretch of the stream before the byte to be
\* fetched next, and fits the 32 bits of bitbuf.
THEOREM BufferIsStream == Spec => []NoBitLost
<1>1. IInv => NoBitLost
  BY DEF IInv, Bounds, Content, NoBitLost
<1> QED BY <1>1, Inductive, PTL

\* The reader of deflate_stats.h implements BitSource for every input.
THEOREM ReaderImplementsSource == Spec => ImplementsBitSource
<1>1. Init => Src!Init
  BY DEF Init, Src!Init, dstats_pos
<1>2. IInv /\ [Next]_vars => [Src!Next]_<<dstats_pos, val>>
  <2> SUFFICES ASSUME IInv, [Next]_vars PROVE [Src!Next]_<<dstats_pos, val>>
    OBVIOUS
  <2>1. ASSUME NEW need \in Needs, Bits(need) PROVE Src!Take(need)
    BY <2>1, BitsStep DEF Src!Take, Src!TotalBits
  <2>2. ASSUME NEW need \in Needs, BitsFail(need) PROVE Src!Refuse(need)
    BY <2>2, BitsFailStep DEF Src!Refuse, Src!TotalBits
  <2>3. ASSUME NEW n \in 0..InLen, Stored(n) PROVE Src!SkipBytes(n)
    BY <2>3, StoredStep
  <2>4. CASE UNCHANGED vars
    BY <2>4 DEF vars, dstats_pos
  <2> QED BY <2>1, <2>2, <2>3, <2>4 DEF Next, Src!Next
<1> QED BY <1>1, <1>2, Inductive, PTL DEF Spec, ImplementsBitSource, Src!Spec

----------------------------------------------------------------------------
(* The codes. *)

\* The symbols of one length, and those with shorter codes.
Of(l)    == {i \in H!Symbols : lengths[i] = l}
Below(l) == {i \in H!Used(lengths) : lengths[i] < l}

\* The space that the codes of S take of a tree of depth l, and what all codes of
\* length l and less take of it.
At(l, S) == SumFunctionOnSet([j \in H!Symbols |-> H!TwoTo[l - lengths[j]]], S)
Taken(l) == At(l, Below(l + 1))

Rank(T, i) == Cardinality({j \in T : j < i})

Lengths == lengths \in [H!Symbols -> 0..MaxLen]

\* TwoTo, by recursion, is a function to the positive numbers.
LEMMA PowersOfTwo ==
  /\ H!TwoTo \in [0..MaxLen -> Nat \ {0}] /\ H!TwoTo[0] = 1
  /\ \A n \in 1..MaxLen : H!TwoTo[n] = 2 * H!TwoTo[n - 1]
<1> DEFINE P == Nat \ {0}
           F == [n \in Int |-> [x \in P |-> 2 * x]]
           g == H!TwoTo
<1>1. \E p \in [0..MaxLen -> P] : p = [n \in 0..MaxLen |-> IF n = 0 THEN 1 ELSE 2 * p[n - 1]]
  <2>1. MaxLen \in Nat /\ 0 \in Nat /\ 1 \in P
    BY MaxLenAssumption
  <2>2. F \in [Int -> [P -> P]]
    OBVIOUS
  <2> HIDE DEF F, P
  <2>3. PICK p \in [0..MaxLen -> P] : p = Recursive(p, 0, MaxLen, 1, F)
    BY <2>1, <2>2, Recursion
  <2>4. ASSUME NEW n \in 0..MaxLen, n # 0 PROVE F[n][p[n - 1]] = 2 * p[n - 1]
    <3>1. p[n - 1] \in P /\ n \in Int
      BY <2>1, <2>4
    <3> QED BY <3>1 DEF F
  <2>5. p = [n \in 0..MaxLen |-> IF n = 0 THEN 1 ELSE 2 * p[n - 1]]
    BY <2>3, <2>4 DEF Recursive
  <2> QED BY <2>5
<1>2. g = CHOOSE p : p = [n \in 0..MaxLen |-> IF n = 0 THEN 1 ELSE 2 * p[n - 1]]
  BY Zenon DEF H!TwoTo
<1>3. g = [n \in 0..MaxLen |-> IF n = 0 THEN 1 ELSE 2 * g[n - 1]]
  BY <1>1, <1>2
<1> HIDE DEF g
<1>4. g[0] = 1 /\ \A n \in 1..MaxLen : g[n] = 2 * g[n - 1]
  BY <1>3, MaxLenAssumption
<1>5. \A n \in 0..MaxLen : g[n] \in P
  <2> DEFINE G == {n \in Nat : n <= MaxLen => g[n] \in P}
  <2>1. 0 \in G
    BY <1>4
  <2>2. \A n \in Nat : n \in G => n + 1 \in G
    <3> SUFFICES ASSUME NEW n \in Nat, n \in G, n + 1 <= MaxLen PROVE g[n + 1] \in P
      OBVIOUS
    <3>1. g[n + 1] = 2 * g[n] /\ g[n] \in P
      BY <1>4, MaxLenAssumption
    <3> QED BY <3>1
  <2>3. Nat \subseteq G
    <3> HIDE DEF G
    <3> QED BY <2>1, <2>2, NatInductionSet
  <2> QED BY <2>3, MaxLenAssumption
<1>6. g \in [0..MaxLen -> P]
  BY <1>3, <1>5
<1> QED BY <1>4, <1>6 DEF g

\* HuffmanCode counts and sums as this module does.
LEMMA SameCount == \A S : H!Cardinality(S) = Cardinality(S)
BY Zenon DEF H!Cardinality, Cardinality

\* HuffmanCode sums as this module does.
LEMMA SameSum == \A f : H!SumFunction(f) = SumFunctionOnSet(f, DOMAIN f)
BY Zenon DEF H!SumFunction, H!SumFunctionOnSet, H!FoldFunctionOnSet, H!MapThenFoldSet,
  SumFunctionOnSet, FoldFunctionOnSet, MapThenFoldSet

\* There are finitely many symbols.
LEMMA SetsAreFinite ==
  ASSUME NEW S, S \subseteq H!Symbols
  PROVE  IsFiniteSet(S) /\ Cardinality(S) \in Nat
<1>1. IsFiniteSet(H!Symbols)
  BY FS_Interval, NSymsAssumption DEF H!Symbols
<1> QED BY <1>1, FS_Subset, FS_CardinalityType

\* Counting disjoint sets.
LEMMA CountApart ==
  ASSUME NEW S, NEW T, S \subseteq H!Symbols, T \subseteq H!Symbols, S \cap T = {}
  PROVE  Cardinality(S \cup T) = Cardinality(S) + Cardinality(T)
<1>1. IsFiniteSet(S) /\ IsFiniteSet(T) /\ Cardinality(S) \in Nat /\ Cardinality(T) \in Nat
  BY SetsAreFinite
<1>2. Cardinality(S \cap T) = 0
  BY FS_EmptySet
<1>3. Cardinality(S \cup T) = Cardinality(S) + Cardinality(T) - Cardinality(S \cap T)
  BY <1>1, FS_Union
<1> QED BY <1>1, <1>2, <1>3

\* The first loop of dstats_build counts the symbols of each length.
LEMMA CountIs ==
  ASSUME Lengths
  PROVE  \A l \in 0..MaxLen : /\ H!Count(lengths)[l] = Cardinality(Of(l))
                              /\ H!Count(lengths)[l] \in Nat /\ IsFiniteSet(Of(l))
<1> SUFFICES ASSUME NEW l \in 0..MaxLen
             PROVE  /\ H!Count(lengths)[l] = Cardinality(Of(l))
                    /\ H!Count(lengths)[l] \in Nat /\ IsFiniteSet(Of(l))
  OBVIOUS
<1>1. Of(l) \subseteq H!Symbols
  BY DEF Of
<1>2. H!Count(lengths)[l] = Cardinality(Of(l))
  BY SameCount, Zenon DEF H!Count, Of
<1> QED BY <1>1, <1>2, SetsAreFinite

\* Those of length l come after those below l.
LEMMA BelowNext ==
  ASSUME Lengths, NEW l \in 1..MaxLen
  PROVE  /\ Below(l + 1) = Below(l) \cup Of(l) /\ Below(l) \cap Of(l) = {}
         /\ Below(l) \subseteq H!Symbols /\ Of(l) \subseteq H!Symbols
<1>1. \A i \in H!Symbols : lengths[i] \in 0..MaxLen
  BY DEF Lengths
<1> QED BY <1>1, MaxLenAssumption DEF Below, Of, H!Used

\* No code is shorter than 1.
LEMMA NoneBelow == ASSUME Lengths PROVE Below(1) = {}
<1>1. \A i \in H!Symbols : lengths[i] \in 0..MaxLen
  BY DEF Lengths
<1> QED BY <1>1 DEF Below, H!Used

\* The space of some codes is a number.
LEMMA AtIs ==
  ASSUME Lengths, NEW l \in 0..MaxLen, NEW S, S \subseteq Below(l + 1)
  PROVE  At(l, S) \in Nat
<1> DEFINE g == [j \in H!Symbols |-> H!TwoTo[l - lengths[j]]]
<1>1. S \subseteq H!Symbols
  BY DEF Below, H!Used
<1>2. ASSUME NEW j \in S PROVE g[j] \in Nat
  <2>1. j \in H!Symbols /\ lengths[j] \in 0..MaxLen /\ lengths[j] < l + 1
    BY <1>1 DEF Lengths, Below
  <2>2. l - lengths[j] \in 0..MaxLen
    BY <2>1, MaxLenAssumption
  <2>3. g[j] = H!TwoTo[l - lengths[j]]
    BY <2>1
  <2> QED BY <2>2, <2>3, PowersOfTwo
<1>3. IsFiniteSet(S) /\ At(l, S) = SumFunctionOnSet(g, S)
  BY <1>1, SetsAreFinite DEF At
<1> HIDE DEF g
<1> QED BY <1>2, <1>3, SumNat

\* Codes apart take the sum.
LEMMA AtUnion ==
  ASSUME Lengths, NEW l \in 0..MaxLen, NEW S, NEW T, S \cap T = {},
         S \subseteq Below(l + 1), T \subseteq Below(l + 1)
  PROVE  At(l, S \cup T) = At(l, S) + At(l, T)
<1> DEFINE g == [j \in H!Symbols |-> H!TwoTo[l - lengths[j]]]
<1>1. S \subseteq H!Symbols /\ T \subseteq H!Symbols
  BY DEF Below, H!Used
<1>2. ASSUME NEW j \in S \cup T PROVE g[j] \in Int
  <2>1. j \in H!Symbols /\ lengths[j] \in 0..MaxLen /\ lengths[j] < l + 1
    BY <1>1 DEF Lengths, Below
  <2>2. l - lengths[j] \in 0..MaxLen
    BY <2>1, MaxLenAssumption
  <2>3. g[j] = H!TwoTo[l - lengths[j]]
    BY <2>1
  <2> QED BY <2>2, <2>3, PowersOfTwo
<1>3. \A U : At(l, U) = SumFunctionOnSet(g, U)
  BY DEF At
<1>4. IsFiniteSet(S) /\ IsFiniteSet(T)
  BY <1>1, SetsAreFinite
<1> HIDE DEF g
<1> QED BY <1>2, <1>3, <1>4, SumUnion

\* Codes as long as the tree is deep take one leaf each.
LEMMA AtSame ==
  ASSUME Lengths, NEW l \in 0..MaxLen, NEW T, T \subseteq Of(l)
  PROVE  At(l, T) = Cardinality(T)
<1> DEFINE g == [j \in H!Symbols |-> H!TwoTo[l - lengths[j]]]
<1>1. T \subseteq H!Symbols
  BY DEF Of
<1>2. ASSUME NEW j \in T PROVE g[j] = 1
  <2>1. j \in H!Symbols /\ l - lengths[j] = 0
    BY <1>1 DEF Of
  <2>2. g[j] = H!TwoTo[l - lengths[j]]
    BY <2>1
  <2> QED BY <2>1, <2>2, PowersOfTwo
<1>3. IsFiniteSet(T) /\ At(l, T) = SumFunctionOnSet(g, T)
  BY <1>1, SetsAreFinite DEF At
<1> HIDE DEF g
<1> QED BY <1>2, <1>3, SumOnes

\* One level further down the same codes take twice as much.
LEMMA AtShorter ==
  ASSUME Lengths, NEW l \in 1..MaxLen
  PROVE  At(l, Below(l)) = 2 * Taken(l - 1)
<1> DEFINE g == [j \in H!Symbols |-> H!TwoTo[l - lengths[j]]]
           k == [j \in H!Symbols |-> H!TwoTo[l - 1 - lengths[j]]]
           B == Below(l)
<1>1. B \subseteq H!Symbols
  BY DEF Below, H!Used
<1>2. ASSUME NEW j \in B PROVE k[j] \in Int /\ g[j] = 2 * k[j]
  <2>1. j \in H!Symbols /\ lengths[j] \in 0..MaxLen /\ lengths[j] < l
    BY <1>1 DEF Lengths, Below
  <2>2. /\ l - lengths[j] \in 1..MaxLen /\ l - 1 - lengths[j] \in 0..MaxLen
        /\ l - lengths[j] - 1 = l - 1 - lengths[j]
    BY <2>1, MaxLenAssumption
  <2>3. g[j] = H!TwoTo[l - lengths[j]] /\ k[j] = H!TwoTo[l - 1 - lengths[j]]
    BY <2>1
  <2> QED BY <2>2, <2>3, PowersOfTwo
<1>3. /\ IsFiniteSet(B) /\ At(l, B) = SumFunctionOnSet(g, B)
      /\ Taken(l - 1) = SumFunctionOnSet(k, B)
  <2>1. l - 1 + 1 = l
    BY MaxLenAssumption
  <2> QED BY <1>1, <2>1, SetsAreFinite DEF At, Taken
<1> HIDE DEF g, k, B
<1>4. At(l, B) = 2 * Taken(l - 1)
  BY <1>2, <1>3, SumTwice
<1> QED BY <1>4 DEF B

\* Every length doubles what was taken and adds its own codes.
LEMMA TakenIs ==
  ASSUME Lengths
  PROVE  /\ Taken(0) = 0
         /\ \A l \in 0..MaxLen : Taken(l) \in Nat
         /\ \A l \in 1..MaxLen : Taken(l) = 2 * Taken(l - 1) + H!Count(lengths)[l]
<1>1. Taken(0) = 0
  BY NoneBelow, SumEmpty DEF Taken, At
<1>2. \A l \in 0..MaxLen : Taken(l) \in Nat
  BY AtIs DEF Taken
<1>3. ASSUME NEW l \in 1..MaxLen PROVE Taken(l) = 2 * Taken(l - 1) + H!Count(lengths)[l]
  <2>1. Below(l + 1) = Below(l) \cup Of(l) /\ Below(l) \cap Of(l) = {}
    BY BelowNext
  <2>2. l \in 0..MaxLen
    OBVIOUS
  <2>3. Taken(l) = At(l, Below(l)) + At(l, Of(l))
    BY <2>1, <2>2, AtUnion DEF Taken
  <2>4. At(l, Of(l)) = H!Count(lengths)[l]
    BY <2>2, AtSame, CountIs
  <2> QED BY <2>3, <2>4, AtShorter
<1> QED BY <1>1, <1>2, <1>3

\* What dstats_build has left of the tree at each length.
LEMMA LeftIs ==
  ASSUME Lengths
  PROVE  \A l \in 0..MaxLen : H!Left(H!Count(lengths))[l] = H!TwoTo[l] - Taken(l)
<1> DEFINE count == H!Count(lengths)
           F == [l \in Int |-> [x \in Int |-> IF l \in 1..MaxLen THEN 2 * x - count[l] ELSE 0]]
           g == H!Left(count)
<1>1. \E p \in [0..MaxLen -> Int] :
        p = [l \in 0..MaxLen |-> IF l = 0 THEN 1 ELSE 2 * p[l - 1] - count[l]]
  <2> DEFINE V == Int
  <2>1. MaxLen \in Nat /\ 0 \in Nat /\ 1 \in V
    BY MaxLenAssumption
  <2>2. F \in [Int -> [V -> V]]
    <3>1. \A l \in 1..MaxLen : count[l] \in Int
      BY CountIs
    <3> HIDE DEF count
    <3> QED BY <3>1
  <2> HIDE DEF F, count, V
  <2>3. PICK p \in [0..MaxLen -> V] : p = Recursive(p, 0, MaxLen, 1, F)
    BY <2>1, <2>2, Recursion
  <2>4. ASSUME NEW l \in 0..MaxLen, l # 0 PROVE F[l][p[l - 1]] = 2 * p[l - 1] - count[l]
    <3>1. p[l - 1] \in Int /\ l \in Int /\ l \in 1..MaxLen
      BY <2>1, <2>4 DEF V
    <3> QED BY <3>1 DEF F
  <2>5. p = [l \in 0..MaxLen |-> IF l = 0 THEN 1 ELSE 2 * p[l - 1] - count[l]]
    BY <2>3, <2>4 DEF Recursive
  <2> QED BY <2>3, <2>5 DEF V
<1>2. g = CHOOSE p : p = [l \in 0..MaxLen |-> IF l = 0 THEN 1 ELSE 2 * p[l - 1] - count[l]]
  BY Zenon DEF H!Left
<1> HIDE DEF count
<1>3. g = [l \in 0..MaxLen |-> IF l = 0 THEN 1 ELSE 2 * g[l - 1] - count[l]]
  BY <1>1, <1>2
<1> HIDE DEF g
<1>4. g[0] = 1 /\ \A l \in 1..MaxLen : g[l] = 2 * g[l - 1] - count[l]
  BY <1>3, MaxLenAssumption
<1> DEFINE G == {l \in Nat : l <= MaxLen => g[l] = H!TwoTo[l] - Taken(l)}
<1>5. 0 \in G
  BY <1>4, TakenIs, PowersOfTwo
<1>6. \A l \in Nat : l \in G => l + 1 \in G
  <2> SUFFICES ASSUME NEW l \in Nat, l \in G, l + 1 <= MaxLen
               PROVE  g[l + 1] = H!TwoTo[l + 1] - Taken(l + 1)
    OBVIOUS
  <2>1. l \in 0..MaxLen /\ l + 1 \in 1..MaxLen /\ l + 1 \in 0..MaxLen /\ l + 1 - 1 = l
    BY MaxLenAssumption
  <2>2. g[l] = H!TwoTo[l] - Taken(l)
    BY <2>1
  <2>3. g[l + 1] = 2 * g[l] - count[l + 1]
    BY <1>4, <2>1
  <2>4. /\ Taken(l + 1) = 2 * Taken(l) + count[l + 1]
        /\ Taken(l) \in Nat /\ count[l + 1] \in Nat
    BY <2>1, TakenIs, CountIs DEF count
  <2>5. H!TwoTo[l + 1] = 2 * H!TwoTo[l] /\ H!TwoTo[l] \in Nat
    BY <2>1, PowersOfTwo
  <2> QED BY <2>2, <2>3, <2>4, <2>5
<1>7. Nat \subseteq G
  <2> HIDE DEF G
  <2> QED BY <1>5, <1>6, NatInductionSet
<1> QED BY <1>7, MaxLenAssumption DEF g, count

\* The space of all codes, in a tree as deep as the longest.
LEMMA SpaceIsTaken == ASSUME Lengths PROVE H!Space = Taken(MaxLen)
<1> DEFINE f == [j \in H!Used(lengths) |-> H!TwoTo[MaxLen - lengths[j]]]
           g == [j \in H!Symbols |-> H!TwoTo[MaxLen - lengths[j]]]
           U == H!Used(lengths)
<1>1. U = Below(MaxLen + 1) /\ U \subseteq H!Symbols
  BY MaxLenAssumption DEF Lengths, Below, H!Used
<1>2. H!Space = SumFunctionOnSet(f, U)
  <2>1. DOMAIN f = U
    OBVIOUS
  <2>2. H!Space = H!SumFunction(f)
    BY Zenon DEF H!Space
  <2> QED BY <2>1, <2>2, SameSum
<1>3. Taken(MaxLen) = SumFunctionOnSet(g, U)
  BY <1>1 DEF Taken, At
<1>4. \A j \in U : f[j] = g[j]
  BY <1>1
<1>5. IsFiniteSet(U)
  BY <1>1, SetsAreFinite
<1> HIDE DEF f, g, U
<1> QED BY <1>2, <1>3, <1>4, <1>5, SumSame

\* dstats_build looks at every length; once there is too little left there is
\* ever less.
LEMMA BuildsKraft ==
  ASSUME Lengths
  PROVE  H!Built(lengths).ok <=> H!Space <= H!TwoTo[MaxLen]
<1> DEFINE count == H!Count(lengths)
           left == H!Left(count)
<1>1. H!Built(lengths).ok <=> count[0] = NSyms \/ \A l \in 1..MaxLen : left[l] >= 0
  BY DEF H!Built
<1>2. \A l \in 0..MaxLen : left[l] = H!TwoTo[l] - Taken(l) /\ left[l] \in Int
  BY LeftIs, TakenIs, PowersOfTwo
<1>3. MaxLen \in 1..MaxLen /\ MaxLen \in 0..MaxLen
  BY MaxLenAssumption
<1>4. H!Space <= H!TwoTo[MaxLen] <=> left[MaxLen] >= 0
  <2>1. left[MaxLen] = H!TwoTo[MaxLen] - Taken(MaxLen) /\ H!Space = Taken(MaxLen)
    BY <1>2, <1>3, SpaceIsTaken
  <2>2. H!TwoTo[MaxLen] \in Int /\ Taken(MaxLen) \in Int
    BY <1>3, TakenIs, PowersOfTwo
  <2> HIDE DEF left
  <2> QED BY <2>1, <2>2
<1>5. count[0] = NSyms => H!Space = 0
  <2> SUFFICES ASSUME count[0] = NSyms PROVE Taken(MaxLen) = 0
    BY SpaceIsTaken
  <2>1. Of(0) \subseteq H!Symbols /\ Cardinality(Of(0)) = NSyms
    BY CountIs, MaxLenAssumption DEF Of
  <2>2. Cardinality(H!Symbols) = NSyms /\ IsFiniteSet(H!Symbols)
    BY FS_Interval, NSymsAssumption DEF H!Symbols
  <2>3. Of(0) = H!Symbols
    BY <2>1, <2>2, FS_Subset
  <2>4. Below(MaxLen + 1) = {}
    BY <2>3 DEF Of, Below, H!Used
  <2> QED BY <2>4, SumEmpty DEF Taken, At
<1>6. left[MaxLen] >= 0 => \A l \in 1..MaxLen : left[l] >= 0
  <2> SUFFICES ASSUME left[MaxLen] >= 0, NEW k \in 1..MaxLen, left[k] < 0 PROVE FALSE
    BY <1>2
  <2> DEFINE G == {n \in Nat : k + n <= MaxLen => left[k + n] < 0}
  <2>1. 0 \in G
    OBVIOUS
  <2>2. \A n \in Nat : n \in G => n + 1 \in G
    <3> SUFFICES ASSUME NEW n \in Nat, n \in G, k + (n + 1) <= MaxLen
                 PROVE  left[k + (n + 1)] < 0
      OBVIOUS
    <3>1. k + n \in 0..MaxLen /\ k + (n + 1) \in 1..MaxLen /\ k + (n + 1) - 1 = k + n
          /\ k + (n + 1) \in 0..MaxLen
      BY MaxLenAssumption
    <3>2. left[k + n] < 0
      BY <3>1
    <3>3. /\ Taken(k + (n + 1)) = 2 * Taken(k + n) + count[k + (n + 1)]
          /\ Taken(k + n) \in Nat /\ count[k + (n + 1)] \in Nat
      BY <3>1, TakenIs, CountIs
    <3>4. H!TwoTo[k + (n + 1)] = 2 * H!TwoTo[k + n] /\ H!TwoTo[k + n] \in Nat
      BY <3>1, PowersOfTwo
    <3>5. /\ left[k + n] = H!TwoTo[k + n] - Taken(k + n)
          /\ left[k + (n + 1)] = H!TwoTo[k + (n + 1)] - Taken(k + (n + 1))
      BY <1>2, <3>1
    <3> HIDE DEF left, count
    <3> QED BY <3>2, <3>3, <3>4, <3>5
  <2>3. MaxLen - k \in G
    <3>1. MaxLen - k \in Nat
      BY MaxLenAssumption
    <3> HIDE DEF G
    <3> QED BY <2>1, <2>2, <3>1, NatInductionSet
  <2>4. left[MaxLen] < 0
    BY <2>3, MaxLenAssumption
  <2> QED BY <1>2, <1>3, <2>4
<1>7. H!TwoTo[MaxLen] \in Nat
  BY <1>3, PowersOfTwo
<1> HIDE DEF count, left
<1> QED BY <1>1, <1>3, <1>4, <1>5, <1>6, <1>7

\* The table begins with the symbols of shorter codes.
LEMMA OffsIs ==
  ASSUME Lengths
  PROVE  \A l \in 1..MaxLen : H!Offs(H!Count(lengths))[l] = Cardinality(Below(l))
<1> DEFINE count == H!Count(lengths)
           V == Int
           F == [l \in Int |-> [x \in V |-> IF l - 1 \in 1..MaxLen THEN x + count[l - 1] ELSE 0]]
           g == H!Offs(count)
<1>1. \E p \in [1..MaxLen -> V] :
        p = [l \in 1..MaxLen |-> IF l = 1 THEN 0 ELSE p[l - 1] + count[l - 1]]
  <2>1. MaxLen \in Nat /\ 1 \in Nat /\ 0 \in V
    BY MaxLenAssumption
  <2>2. F \in [Int -> [V -> V]]
    <3>1. \A l \in 1..MaxLen : count[l] \in Int
      BY CountIs
    <3> HIDE DEF count
    <3> QED BY <3>1
  <2> HIDE DEF F, count, V
  <2>3. PICK p \in [1..MaxLen -> V] : p = Recursive(p, 1, MaxLen, 0, F)
    BY <2>1, <2>2, Recursion
  <2>4. ASSUME NEW l \in 1..MaxLen, l # 1 PROVE F[l][p[l - 1]] = p[l - 1] + count[l - 1]
    <3>1. p[l - 1] \in V /\ l \in Int /\ l - 1 \in 1..MaxLen
      BY <2>1, <2>4
    <3> QED BY <3>1 DEF F
  <2>5. p = [l \in 1..MaxLen |-> IF l = 1 THEN 0 ELSE p[l - 1] + count[l - 1]]
    BY <2>3, <2>4 DEF Recursive
  <2> QED BY <2>3, <2>5
<1>2. g = CHOOSE p : p = [l \in 1..MaxLen |-> IF l = 1 THEN 0 ELSE p[l - 1] + count[l - 1]]
  BY Zenon DEF H!Offs
<1> HIDE DEF count
<1>3. g = [l \in 1..MaxLen |-> IF l = 1 THEN 0 ELSE g[l - 1] + count[l - 1]]
  BY <1>1, <1>2
<1> HIDE DEF g
<1>4. g[1] = 0 /\ \A l \in 2..MaxLen : g[l] = g[l - 1] + count[l - 1]
  BY <1>3, MaxLenAssumption
<1> DEFINE G == {n \in Nat : n + 1 <= MaxLen => g[n + 1] = Cardinality(Below(n + 1))}
<1>5. 0 \in G
  BY <1>4, NoneBelow, FS_EmptySet
<1>6. \A n \in Nat : n \in G => n + 1 \in G
  <2> SUFFICES ASSUME NEW n \in Nat, n \in G, n + 1 + 1 <= MaxLen
               PROVE  g[n + 1 + 1] = Cardinality(Below(n + 1 + 1))
    OBVIOUS
  <2> DEFINE l == n + 1
  <2>1. l \in 1..MaxLen /\ l \in 0..MaxLen /\ l + 1 \in 2..MaxLen /\ l + 1 - 1 = l
    BY MaxLenAssumption
  <2>2. g[l] = Cardinality(Below(l))
    BY <2>1
  <2>3. g[l + 1] = g[l] + count[l]
    BY <1>4, <2>1
  <2>4. Cardinality(Below(l + 1)) = Cardinality(Below(l)) + Cardinality(Of(l))
    BY <2>1, BelowNext, CountApart
  <2>5. count[l] = Cardinality(Of(l))
    BY <2>1, CountIs DEF count
  <2> QED BY <2>2, <2>3, <2>4, <2>5
<1>7. Nat \subseteq G
  <2> HIDE DEF G
  <2> QED BY <1>5, <1>6, NatInductionSet
<1>8. ASSUME NEW l \in 1..MaxLen PROVE g[l] = Cardinality(Below(l))
  <2>1. l - 1 \in Nat /\ l - 1 + 1 = l /\ l - 1 + 1 <= MaxLen
    BY MaxLenAssumption
  <2> QED BY <1>7, <2>1
<1> QED BY <1>8 DEF g, count

\* Every rank below the size of a set is that of one of its members.
LEMMA RankOnto ==
  ASSUME NEW T, T \subseteq H!Symbols, NEW r \in Nat, r < Cardinality(T)
  PROVE  \E i \in T : Rank(T, i) = r
<1>0. \A j \in T : j \in Nat /\ j < NSyms
  BY NSymsAssumption DEF H!Symbols
<1>1. \A m \in Nat : LET B == {j \in T : j < m}
                     IN IsFiniteSet(B) /\ Cardinality(B) \in Nat /\ B \subseteq H!Symbols
  BY SetsAreFinite
<1> DEFINE G == {m \in Nat : Cardinality({j \in T : j < m}) > r}
<1>2. NSyms \in G
  <2>1. {j \in T : j < NSyms} = T
    BY <1>0
  <2> QED BY <2>1, NSymsAssumption
<1>3. PICK m \in G : \A n \in G : m <= n
  <2>1. G \in SUBSET Nat /\ G # {}
    BY <1>2
  <2> HIDE DEF G
  <2> QED BY <2>1, NatMinimum
<1>4. m # 0
  <2>1. {j \in T : j < 0} = {}
    BY <1>0
  <2>2. Cardinality({j \in T : j < 0}) = 0
    BY <2>1, FS_EmptySet
  <2> QED BY <1>3, <2>2
<1> DEFINE n == m - 1
           B == {j \in T : j < n}
<1>5. n \in Nat /\ n \notin G
  BY <1>3, <1>4
<1>6. Cardinality(B) <= r /\ Cardinality(B) \in Nat /\ IsFiniteSet(B)
  <2>1. Cardinality(B) \in Nat /\ IsFiniteSet(B)
    BY <1>1, <1>5
  <2>2. ~(Cardinality(B) > r)
    BY <1>5
  <2> HIDE DEF B
  <2> QED BY <2>1, <2>2
<1>7. {j \in T : j < m} = B \cup (T \cap {n})
  <2>1. m \in Nat
    BY <1>3
  <2>2. \A j \in T : j < m <=> j < n \/ j = n
    BY <1>0, <1>5, <2>1
  <2> QED BY <2>2
<1>8. n \in T
  <2> SUFFICES ASSUME n \notin T PROVE FALSE
    OBVIOUS
  <2>1. {j \in T : j < m} = B
    BY <1>7
  <2> QED BY <1>3, <1>6, <2>1
<1>9. Cardinality({j \in T : j < m}) = Cardinality(B) + 1
  <2>1. {j \in T : j < m} = B \cup {n} /\ n \notin B
    BY <1>5, <1>7, <1>8
  <2> QED BY <1>6, <2>1, FS_AddElement
<1>10. Cardinality(B) + 1 > r
  BY <1>3, <1>9
<1>11. Rank(T, n) = r
  BY <1>6, <1>10 DEF Rank
<1> QED BY <1>8, <1>11

\* A rank is below the size, and is that of one member only.
LEMMA RankIs ==
  ASSUME NEW T, T \subseteq H!Symbols, NEW i \in T
  PROVE  /\ Rank(T, i) \in Nat /\ Rank(T, i) < Cardinality(T)
         /\ \A j \in T : i < j => Rank(T, i) < Rank(T, j)
<1> DEFINE B(j) == {k \in T : k < j}
<1>1. \A j : IsFiniteSet(B(j)) /\ Cardinality(B(j)) \in Nat
  <2> TAKE j
  <2>1. B(j) \subseteq H!Symbols
    OBVIOUS
  <2> QED BY <2>1, SetsAreFinite
<1>2. T \subseteq Nat
  BY NSymsAssumption DEF H!Symbols
<1>3. Cardinality(B(i) \cup {i}) = Cardinality(B(i)) + 1
  <2>1. i \notin B(i)
    BY <1>2
  <2> QED BY <1>1, <2>1, FS_AddElement
<1>4. B(i) \cup {i} \subseteq T /\ IsFiniteSet(T) /\ Cardinality(T) \in Nat
  BY SetsAreFinite
<1>5. Cardinality(B(i) \cup {i}) <= Cardinality(T)
  BY <1>4, FS_Subset
<1>6. ASSUME NEW j \in T, i < j PROVE Cardinality(B(i) \cup {i}) <= Cardinality(B(j))
  <2>1. B(i) \cup {i} \subseteq B(j)
    <3>1. \A k \in T : k < i => k < j
      BY <1>2, <1>6
    <3> QED BY <1>6, <3>1
  <2> QED BY <1>1, <2>1, FS_Subset
<1> HIDE DEF B
<1>7. \A j \in T : i < j => Cardinality(B(i)) < Cardinality(B(j))
  BY <1>1, <1>3, <1>6
<1>8. Cardinality(B(i)) < Cardinality(T)
  BY <1>1, <1>3, <1>4, <1>5
<1> QED BY <1>1, <1>7, <1>8 DEF Rank, B

\* A used symbol, its length and its rank among those of that length.
LEMMA UsedIs ==
  ASSUME Lengths, NEW i \in H!Used(lengths)
  PROVE  /\ lengths[i] \in 1..MaxLen /\ i \in Of(lengths[i]) /\ i \in Nat
         /\ Of(lengths[i]) \subseteq H!Symbols
         /\ Rank(Of(lengths[i]), i) \in 0..(H!Count(lengths)[lengths[i]] - 1)
<1>1. i \in H!Symbols /\ lengths[i] \in 1..MaxLen /\ i \in Nat
  BY MaxLenAssumption, NSymsAssumption DEF Lengths, H!Used, H!Symbols
<1> DEFINE l == lengths[i]
<1>2. i \in Of(l) /\ Of(l) \subseteq H!Symbols
  BY <1>1 DEF Of
<1>3. l \in 0..MaxLen
  BY <1>1
<1>4. H!Count(lengths)[l] = Cardinality(Of(l)) /\ H!Count(lengths)[l] \in Nat
  BY <1>3, CountIs
<1>5. Rank(Of(l), i) \in Nat /\ Rank(Of(l), i) < Cardinality(Of(l))
  BY <1>2, RankIs
<1> HIDE DEF l
<1>6. Rank(Of(l), i) \in 0..(H!Count(lengths)[l] - 1)
  BY <1>4, <1>5
<1> QED BY <1>1, <1>2, <1>6 DEF l

\* The slot of a symbol: past all shorter codes, then by rank.
LEMMA PlaceIs ==
  ASSUME Lengths, NEW i \in H!Used(lengths)
  PROVE  H!Place(lengths, i) = Cardinality(Below(lengths[i])) + Rank(Of(lengths[i]), i)
<1>1. {j \in H!Symbols : j < i /\ lengths[j] = lengths[i]} = {j \in Of(lengths[i]) : j < i}
  BY DEF Of
<1>2. H!Place(lengths, i)
        = H!Offs(H!Count(lengths))[lengths[i]]
            + H!Cardinality({j \in H!Symbols : j < i /\ lengths[j] = lengths[i]})
  BY Zenon DEF H!Place
<1>3. H!Offs(H!Count(lengths))[lengths[i]] = Cardinality(Below(lengths[i]))
  BY UsedIs, OffsIs
<1> QED BY <1>1, <1>2, <1>3, SameCount DEF Rank

\* A slot of the table belongs to one symbol: the lengths have slots apart.
LEMMA PlaceOnce ==
  ASSUME Lengths, NEW i \in H!Used(lengths), NEW j \in H!Used(lengths),
         H!Place(lengths, i) = H!Place(lengths, j)
  PROVE  i = j
<1>1. ASSUME NEW x \in H!Used(lengths), NEW y \in H!Used(lengths), lengths[x] < lengths[y]
      PROVE  H!Place(lengths, x) < H!Place(lengths, y)
  <2> DEFINE l == lengths[x]
             k == lengths[y]
             c == H!Count(lengths)[l]
  <2>1. l \in 1..MaxLen /\ k \in 1..MaxLen /\ l \in 0..MaxLen
    BY UsedIs
  <2>2. Rank(Of(l), x) \in 0..(c - 1) /\ Rank(Of(k), y) \in Nat
    BY UsedIs
  <2>3. Cardinality(Below(l + 1)) = Cardinality(Below(l)) + c /\ c \in Nat
    BY <2>1, BelowNext, CountApart, CountIs
  <2>4. Below(l + 1) \subseteq Below(k) /\ Below(k) \subseteq H!Symbols
    <3>1. \A n \in H!Used(lengths) : lengths[n] \in 1..MaxLen
      BY UsedIs
    <3> QED BY <1>1, <2>1, <3>1 DEF Below, H!Used
  <2>5. Cardinality(Below(l + 1)) <= Cardinality(Below(k))
    BY <2>4, SetsAreFinite, FS_Subset
  <2>6. Cardinality(Below(l)) \in Nat /\ Cardinality(Below(k)) \in Nat
    <3>1. Below(l) \subseteq H!Symbols
      BY DEF Below, H!Used
    <3> QED BY <2>4, <3>1, SetsAreFinite
  <2>7. /\ H!Place(lengths, x) = Cardinality(Below(l)) + Rank(Of(l), x)
        /\ H!Place(lengths, y) = Cardinality(Below(k)) + Rank(Of(k), y)
    BY PlaceIs
  <2> HIDE DEF l, k, c
  <2> QED BY <2>2, <2>3, <2>5, <2>6, <2>7
<1>2. lengths[i] \in 1..MaxLen /\ lengths[j] \in 1..MaxLen
  BY UsedIs
<1>3. \A x \in H!Used(lengths) : H!Place(lengths, x) \in Nat
  <2> TAKE x \in H!Used(lengths)
  <2>1. Below(lengths[x]) \subseteq H!Symbols
    BY DEF Below, H!Used
  <2> QED BY <2>1, PlaceIs, UsedIs, SetsAreFinite
<1>4. lengths[i] = lengths[j]
  BY <1>1, <1>2, <1>3
<1> DEFINE T == Of(lengths[i])
<1>5. i \in T /\ j \in T /\ T \subseteq H!Symbols /\ i \in Nat /\ j \in Nat
  BY <1>4, UsedIs
<1>6. Rank(T, i) = Rank(T, j) /\ Rank(T, i) \in Nat
  <2>1. Cardinality(Below(lengths[i])) \in Nat
    <3>1. Below(lengths[i]) \subseteq H!Symbols
      BY DEF Below, H!Used
    <3> QED BY <3>1, SetsAreFinite
  <2>2. Rank(T, i) \in Nat /\ Rank(T, j) \in Nat
    BY <1>5, RankIs
  <2>3. /\ H!Place(lengths, i) = Cardinality(Below(lengths[i])) + Rank(T, i)
        /\ H!Place(lengths, j) = Cardinality(Below(lengths[i])) + Rank(T, j)
    BY <1>4, PlaceIs
  <2> DEFINE c == Cardinality(Below(lengths[i]))
             x == Rank(T, i)
             y == Rank(T, j)
  <2>4. c + x = c + y
    BY <2>3
  <2>5. c \in Nat /\ x \in Nat /\ y \in Nat
    BY <2>1, <2>2
  <2> HIDE DEF c, x, y
  <2>6. x = y
    BY <2>4, <2>5
  <2> QED BY <2>5, <2>6 DEF x, y
<1> HIDE DEF T
<1>7. ~(i < j) /\ ~(j < i)
  <2>1. (i < j => Rank(T, i) < Rank(T, j)) /\ (j < i => Rank(T, j) < Rank(T, i))
    BY <1>5, RankIs
  <2> QED BY <1>6, <2>1
<1> QED BY <1>5, <1>7

\* The table has at the r-th slot of a length the r-th symbol of that length.
LEMMA SlotIs ==
  ASSUME Lengths, NEW l \in 1..MaxLen, NEW r \in Nat, r < H!Count(lengths)[l]
  PROVE  LET i == H!Built(lengths).symbol[Cardinality(Below(l)) + r]
         IN i \in H!Used(lengths) /\ lengths[i] = l /\ Rank(Of(l), i) = r
<1> DEFINE q == Cardinality(Below(l)) + r
           U == H!Used(lengths)
<1>1. PICK i \in Of(l) : Rank(Of(l), i) = r
  <2>1. l \in 0..MaxLen /\ Of(l) \subseteq H!Symbols
    BY DEF Of
  <2>2. r < Cardinality(Of(l))
    BY <2>1, CountIs
  <2> QED BY <2>1, <2>2, RankOnto
<1>2. i \in U /\ lengths[i] = l
  BY <1>1 DEF Of, H!Used
<1>3. H!Place(lengths, i) = q
  BY <1>1, <1>2, PlaceIs
<1>4. H!Built(lengths).symbol
        = [x \in {H!Place(lengths, j) : j \in U} |-> CHOOSE j \in U : H!Place(lengths, j) = x]
  BY Zenon DEF H!Built
<1> HIDE DEF q, U
<1>5. H!Built(lengths).symbol[q] = CHOOSE j \in U : H!Place(lengths, j) = q
  BY <1>2, <1>3, <1>4
<1>6. (CHOOSE j \in U : H!Place(lengths, j) = q) = i
  BY <1>2, <1>3, PlaceOnce DEF U
<1> QED BY <1>1, <1>2, <1>5, <1>6 DEF q, U

\* A code word counts the codes before it at its length.
LEMMA CodeWordIs ==
  ASSUME Lengths, NEW i \in H!Used(lengths)
  PROVE  H!CodeWord(i) = 2 * Taken(lengths[i] - 1) + Rank(Of(lengths[i]), i)
<1> DEFINE l == lengths[i]
           S == {k \in H!Used(lengths) : H!Before(k, i)}
           T == {j \in Of(l) : j < i}
           f == [j \in S |-> H!TwoTo[l - lengths[j]]]
           g == [j \in H!Symbols |-> H!TwoTo[l - lengths[j]]]
<1>1. l \in 1..MaxLen /\ l \in 0..MaxLen
  BY UsedIs
<1>2. S = Below(l) \cup T /\ Below(l) \cap T = {} /\ T \subseteq Of(l)
  <2>1. \A k \in H!Used(lengths) : lengths[k] \in 1..MaxLen
    BY UsedIs
  <2> QED BY <1>1, <2>1 DEF Below, Of, H!Used, H!Before
<1>3. S \subseteq H!Symbols
  BY DEF H!Used
<1>4. H!CodeWord(i) = SumFunctionOnSet(f, S)
  <2>1. DOMAIN f = S
    OBVIOUS
  <2>2. H!CodeWord(i) = H!SumFunction(f)
    BY Zenon DEF H!CodeWord
  <2> QED BY <2>1, <2>2, SameSum
<1>5. SumFunctionOnSet(f, S) = SumFunctionOnSet(g, S)
  <2>1. \A j \in S : f[j] = g[j]
    BY <1>3
  <2>2. IsFiniteSet(S)
    BY <1>3, SetsAreFinite
  <2> HIDE DEF f, g, S
  <2> QED BY <2>1, <2>2, SumSame
<1>6. SumFunctionOnSet(g, S) = At(l, S)
  BY DEF At
<1>7. At(l, S) = At(l, Below(l)) + At(l, T)
  <2>1. Below(l) \subseteq Below(l + 1) /\ T \subseteq Below(l + 1)
    BY <1>1, <1>2, BelowNext
  <2> HIDE DEF S, T
  <2> QED BY <1>1, <1>2, <2>1, AtUnion
<1>8. At(l, T) = Rank(Of(l), i)
  BY <1>1, <1>2, AtSame DEF Rank
<1>9. At(l, Below(l)) = 2 * Taken(l - 1)
  BY <1>1, AtShorter
<1> QED BY <1>4, <1>5, <1>6, <1>7, <1>8, <1>9

----------------------------------------------------------------------------
(* The number that bits read so far stand for. *)

Bit == {0, 1}

\* Number as a sum over the positions of the bits.
LEMMA NumberSum ==
  ASSUME NEW bs \in Seq(Bit)
  PROVE  H!Number(bs) = SumFunctionOnSet([k \in 1..Len(bs) |-> bs[k] * H!TwoTo[Len(bs) - k]], 1..Len(bs))
<1> DEFINE f == [k \in DOMAIN bs |-> bs[k] * H!TwoTo[Len(bs) - k]]
<1>1. H!Number(bs) = H!SumFunction(f)
  BY Zenon DEF H!Number
<1>2. DOMAIN f = DOMAIN bs /\ DOMAIN bs = 1..Len(bs)
  OBVIOUS
<1>3. H!SumFunction(f) = SumFunctionOnSet(f, 1..Len(bs))
  BY <1>2, SameSum
<1>4. f = [k \in 1..Len(bs) |-> bs[k] * H!TwoTo[Len(bs) - k]]
  BY <1>2
<1> QED BY <1>1, <1>3, <1>4

\* No bits stand for 0.
LEMMA NumberEmpty == H!Number(<<>>) = 0
<1> DEFINE e == <<>>
<1>1. e \in Seq(Bit) /\ 1..Len(e) = {}
  OBVIOUS
<1> HIDE DEF e
<1>2. H!Number(e) = SumFunctionOnSet([k \in 1..Len(e) |-> e[k] * H!TwoTo[Len(e) - k]], {})
  BY <1>1, NumberSum
<1> QED BY <1>2, SumEmpty DEF e

\* One more bit.
LEMMA NumberAppend ==
  ASSUME NEW bs \in Seq(Bit), Len(bs) < MaxLen, NEW x \in Bit
  PROVE  /\ H!Number(bs) \in Nat
         /\ H!Number(Append(bs, x)) = 2 * H!Number(bs) + x
<1> DEFINE n == Len(bs)
           cs == Append(bs, x)
           f == [k \in 1..n |-> bs[k] * H!TwoTo[n - k]]
           g == [k \in 1..(n + 1) |-> cs[k] * H!TwoTo[n + 1 - k]]
<1>1. n \in Nat /\ n + 1 <= MaxLen
  BY MaxLenAssumption
<1>2. /\ cs \in Seq(Bit) /\ Len(cs) = n + 1 /\ cs[n + 1] = x
      /\ \A k \in 1..n : cs[k] = bs[k] /\ bs[k] \in Bit
  OBVIOUS
<1>3. H!Number(bs) = SumFunctionOnSet(f, 1..n) /\ H!Number(cs) = SumFunctionOnSet(g, 1..(n + 1))
  <2> HIDE DEF cs
  <2>1. H!Number(cs)
          = SumFunctionOnSet([k \in 1..Len(cs) |-> cs[k] * H!TwoTo[Len(cs) - k]], 1..Len(cs))
    BY <1>2, NumberSum
  <2>2. H!Number(cs) = SumFunctionOnSet(g, 1..(n + 1))
    BY <1>2, <2>1
  <2> QED BY <2>2, NumberSum
<1> HIDE DEF n, cs
<1>4. ASSUME NEW k \in 1..n PROVE f[k] \in Nat /\ g[k] = 2 * f[k]
  <2>1. n - k \in Int
    BY <1>1
  <2>2. f[k] = bs[k] * H!TwoTo[n - k] /\ g[k] = bs[k] * H!TwoTo[n + 1 - k]
    <3>1. k \in 1..(n + 1) /\ cs[k] = bs[k]
      BY <1>1, <1>2
    <3> QED BY <3>1
  <2>3. H!TwoTo[n + 1 - k] = 2 * H!TwoTo[n - k] /\ H!TwoTo[n - k] \in Nat
    <3> DEFINE a == n - k
               b == n + 1 - k
    <3>1. a \in 0..MaxLen /\ b \in 1..MaxLen /\ b - 1 = a
      BY <1>1, MaxLenAssumption
    <3> HIDE DEF a, b
    <3>2. H!TwoTo[b] = 2 * H!TwoTo[a] /\ H!TwoTo[a] \in Nat
      BY <3>1, MaxLenAssumption, PowersOfTwo
    <3> QED BY <3>2 DEF a, b
  <2>4. bs[k] = 0 \/ bs[k] = 1
    BY <1>2 DEF Bit
  <2> HIDE DEF f, g
  <2>5. CASE bs[k] = 0
    BY <2>2, <2>3, <2>5
  <2>6. CASE bs[k] = 1
    BY <2>2, <2>3, <2>6
  <2> QED BY <2>4, <2>5, <2>6
<1>5. g[n + 1] = x /\ x \in Int
  <2>1. n + 1 \in 1..(n + 1) /\ n + 1 - (n + 1) = 0
    BY <1>1
  <2>2. g[n + 1] = cs[n + 1] * H!TwoTo[0]
    BY <2>1
  <2>3. x = 0 \/ x = 1
    BY DEF Bit
  <2> HIDE DEF g
  <2> QED BY <1>2, <2>2, <2>3, PowersOfTwo
<1>6. IsFiniteSet(1..n) /\ IsFiniteSet(1..(n + 1))
  BY <1>1, FS_Interval
<1> HIDE DEF f, g
<1>7. SumFunctionOnSet(g, 1..n) = 2 * SumFunctionOnSet(f, 1..n)
  <2>1. \A k \in 1..n : f[k] \in Int /\ g[k] = 2 * f[k]
    BY <1>4
  <2> QED BY <1>6, <2>1, SumTwice
<1>8. SumFunctionOnSet(f, 1..n) \in Nat
  BY <1>4, <1>6, SumNat
<1>9. SumFunctionOnSet(g, 1..(n + 1)) = g[n + 1] + SumFunctionOnSet(g, (1..(n + 1)) \ {n + 1})
  <2>1. n + 1 \in 1..(n + 1) /\ \A k \in 1..(n + 1) : k \in 1..n \/ k = n + 1
    BY <1>1
  <2>2. \A k \in 1..n : g[k] \in Int
    BY <1>4
  <2>3. \A k \in 1..(n + 1) : g[k] \in Int
    BY <1>5, <2>1, <2>2
  <2> QED BY <1>6, <2>1, <2>3, SumTakeOut
<1>10. (1..(n + 1)) \ {n + 1} = 1..n
  BY <1>1
<1>11. H!Number(cs) = 2 * H!Number(bs) + x
  <2> DEFINE p == SumFunctionOnSet(f, 1..n)
             q == SumFunctionOnSet(g, 1..n)
             r == SumFunctionOnSet(g, 1..(n + 1))
  <2>1. r = x + q /\ q = 2 * p /\ p \in Nat
    BY <1>5, <1>7, <1>8, <1>9, <1>10
  <2>2. H!Number(bs) = p /\ H!Number(cs) = r
    BY <1>3
  <2> HIDE DEF p, q, r
  <2> QED BY <1>5, <2>1, <2>2
<1> QED BY <1>3, <1>8, <1>11 DEF cs

\* The first bits of what has been read stay the first bits.
LEMMA FirstBits ==
  ASSUME NEW bs \in Seq(Bit), NEW x \in Bit
  PROVE  /\ \A l \in 1..Len(bs) : SubSeq(Append(bs, x), 1, l) = SubSeq(bs, 1, l)
         /\ SubSeq(bs, 1, Len(bs)) = bs
OBVIOUS

----------------------------------------------------------------------------
(* The decoder. *)

NumberRead(l) == H!Number(SubSeq(read, 1, l))

\* While it reads, the running numbers of the decoder count the codes below the
\* current length: the bits read so far lie beyond all of them.
Running ==
  /\ len = Len(read) + 1 /\ len <= MaxLen
  /\ code = 2 * H!Number(read)
  /\ \A l \in 1..MaxLen : l = len => first = 2 * Taken(l - 1) /\ index = Cardinality(Below(l))

BeyondShorter == \A l \in 1..Len(read) : Taken(l) <= NumberRead(l)

DecoderInv ==
  /\ Lengths /\ h = H!Built(lengths)
  /\ read \in Seq(Bit) /\ Len(read) <= MaxLen
  /\ result \in {Reading, NoCode, NoInput} \cup H!Symbols
  /\ H!Number(read) \in 0..(H!TwoTo[Len(read)] - 1)
  /\ result \notin H!Symbols => BeyondShorter
  /\ result = Reading => Running
  /\ result = NoCode => Len(read) = MaxLen
  /\ \A i \in H!Symbols : result = i =>
       i \in H!Used(lengths) /\ lengths[i] = Len(read) /\ H!Number(read) = H!CodeWord(i)

\* A code that begins is at length 1, before all others.
LEMMA BeginInv == Lengths /\ h = H!Built(lengths) /\ H!Begin => DecoderInv
<1> SUFFICES ASSUME Lengths, h = H!Built(lengths), H!Begin PROVE DecoderInv
  OBVIOUS
<1>1. /\ len = 1 /\ code = 0 /\ first = 0 /\ index = 0 /\ read = <<>> /\ result = Reading
      /\ result \notin H!Symbols /\ Reading \notin {NoCode, NoInput}
  BY ResultAssumption DEF H!Begin, H!Symbols
<1>2. read \in Seq(Bit) /\ Len(read) = 0
  BY <1>1
<1>3. H!Number(read) = 0 /\ H!TwoTo[0] = 1
  BY <1>1, NumberEmpty, PowersOfTwo
<1>4. Running
  <2>1. Cardinality(Below(1)) = 0
    BY NoneBelow, FS_EmptySet
  <2>2. Taken(0) = 0
    BY TakenIs
  <2>3. \A l \in 1..MaxLen : l = len => first = 2 * Taken(l - 1) /\ index = Cardinality(Below(l))
    <3> SUFFICES first = 2 * Taken(1 - 1) /\ index = Cardinality(Below(1))
      BY <1>1
    <3> QED BY <1>1, <2>1, <2>2
  <2> QED BY <1>1, <1>2, <1>3, <2>3, MaxLenAssumption DEF Running
<1>5. BeyondShorter
  BY <1>2 DEF BeyondShorter
<1>6. H!Number(read) \in 0..(H!TwoTo[Len(read)] - 1)
  BY <1>2, <1>3
<1> QED BY <1>1, <1>2, <1>4, <1>5, <1>6, MaxLenAssumption DEF DecoderInv

\* What the lengths determine stays when they do.
LEMMA LengthsStay ==
  ASSUME UNCHANGED lengths
  PROVE  /\ Lengths' <=> Lengths
         /\ H!Built(lengths') = H!Built(lengths)
         /\ H!Used(lengths') = H!Used(lengths)
         /\ \A l : Below(l)' = Below(l) /\ Taken(l)' = Taken(l)
         /\ \A i : H!CodeWord(i)' = H!CodeWord(i)
<1>1. lengths' = lengths
  OBVIOUS
<1>2. Lengths' <=> Lengths
  BY <1>1 DEF Lengths
<1>3. H!Built(lengths') = H!Built(lengths) /\ H!Used(lengths') = H!Used(lengths)
  BY <1>1
<1>4. \A l : Below(l)' = Below(l)
  BY <1>1 DEF Below, H!Used
<1>5. \A l : Taken(l)' = Taken(l)
  BY <1>1, <1>4 DEF Taken, At
<1>6. \A i : H!CodeWord(i)' = H!CodeWord(i)
  BY <1>1 DEF H!CodeWord, H!Used, H!Before
<1> QED BY <1>2, <1>3, <1>4, <1>5, <1>6

\* The next bit: either it completes the code of the symbol the table has for
\* it, or the bits are beyond the codes of this length too.
LEMMA DecodeBitInv ==
  ASSUME DecoderInv, NEW b \in Bit, H!Step(b)
  PROVE  DecoderInv' /\ result' # NoInput
<1> DEFINE n == Len(read)
           c == code + b
           d == H!Count(lengths)[n + 1]
           t == Taken(n)
<1>1. /\ Lengths /\ h = H!Built(lengths) /\ read \in Seq(Bit)
      /\ H!Number(read) \in 0..(H!TwoTo[n] - 1)
  BY DEF DecoderInv
<1>2. /\ result = Reading /\ read' = Append(read, b)
      /\ UNCHANGED <<lengths, h>>
  BY DEF H!Step
<1>3. result \notin H!Symbols /\ BeyondShorter /\ Running
  BY <1>2, ResultAssumption DEF DecoderInv, H!Symbols
<1>4. /\ len = n + 1 /\ n + 1 \in 1..MaxLen /\ n \in 0..MaxLen /\ n \in Nat /\ n + 1 - 1 = n
      /\ code = 2 * H!Number(read) /\ first = 2 * t /\ index = Cardinality(Below(n + 1))
  <2>1. n \in Nat /\ len = n + 1 /\ len <= MaxLen
    BY <1>1, <1>3 DEF Running
  <2> HIDE DEF n
  <2>2. n + 1 \in 1..MaxLen /\ n \in 0..MaxLen /\ n + 1 - 1 = n
    BY <2>1, MaxLenAssumption
  <2>3. code = 2 * H!Number(read)
    BY <1>3 DEF Running
  <2>4. first = 2 * Taken(n + 1 - 1) /\ index = Cardinality(Below(n + 1))
    BY <1>3, <2>1, <2>2 DEF Running
  <2> QED BY <2>1, <2>2, <2>3, <2>4
<1>5. read' \in Seq(Bit) /\ Len(read') = n + 1
  BY <1>1, <1>2
<1>6. /\ t \in Nat /\ d \in Nat /\ Taken(n + 1) = 2 * t + d
  BY <1>1, <1>4, TakenIs, CountIs
<1>7. H!Number(read') = c /\ c \in Nat /\ c <= H!TwoTo[n + 1] - 1 /\ H!Number(read) \in Nat
      /\ H!TwoTo[n + 1] \in Nat
  <2>1. H!Number(read) \in Nat /\ H!Number(Append(read, b)) = 2 * H!Number(read) + b
    <3>1. Len(read) < MaxLen
      BY <1>4, MaxLenAssumption
    <3> QED BY <1>1, <3>1, NumberAppend
  <2>2. H!TwoTo[n + 1] = 2 * H!TwoTo[n] /\ H!TwoTo[n] \in Nat
    BY <1>4, PowersOfTwo
  <2>3. b \in 0..1
    BY DEF Bit
  <2> HIDE DEF n
  <2>4. c = 2 * H!Number(read) + b
    BY <1>4
  <2> QED BY <1>1, <1>2, <2>1, <2>2, <2>3, <2>4
<1>8. t <= H!Number(read)
  <2>1. CASE n = 0
    BY <1>1, <1>7, <2>1, TakenIs
  <2>2. CASE n # 0
    <3>1. n \in 1..Len(read) /\ SubSeq(read, 1, n) = read
      BY <1>1, <1>4, <2>2
    <3> QED BY <1>3, <3>1 DEF BeyondShorter, NumberRead
  <2> QED BY <2>1, <2>2
<1>9. /\ Lengths' /\ h' = H!Built(lengths') /\ H!Used(lengths') = H!Used(lengths)
      /\ \A l : Below(l)' = Below(l) /\ Taken(l)' = Taken(l)
      /\ \A i : H!CodeWord(i)' = H!CodeWord(i)
  BY <1>1, <1>2, LengthsStay
<1>10. (H!Number(read) \in 0..(H!TwoTo[Len(read)] - 1))'
  <2>1. c \in 0..(H!TwoTo[n + 1] - 1)
    <3> HIDE DEF n, c
    <3> QED BY <1>4, <1>7
  <2>2. H!Number(read') \in 0..(H!TwoTo[Len(read')] - 1)
    BY <1>5, <1>7, <2>1
  <2> QED BY <2>2
<1>11. d = h.count[len]
  BY <1>1, <1>4 DEF H!Built
<1> HIDE DEF n, c, d, t
<1>12. CASE c - first < d
  <2> DEFINE r == c - first
             i == h.symbol[index + r]
  <2>1. r \in Nat /\ r < d
    BY <1>4, <1>6, <1>7, <1>8, <1>12 DEF Bit, c
  <2>2. i \in H!Used(lengths) /\ lengths[i] = n + 1 /\ Rank(Of(n + 1), i) = r
    <3> HIDE DEF r
    <3> QED BY <1>1, <1>4, <2>1, SlotIs DEF d
  <2>3. result' = i
    BY <1>11, <1>12 DEF H!Step, c, r
  <2>4. H!CodeWord(i) = c
    <3>1. H!CodeWord(i) = 2 * Taken(lengths[i] - 1) + Rank(Of(lengths[i]), i)
      BY <1>1, <2>2, CodeWordIs
    <3>2. H!CodeWord(i) = 2 * t + r
      BY <1>4, <2>2, <3>1 DEF t
    <3> HIDE DEF i
    <3> QED BY <1>4, <1>6, <1>7, <3>2
  <2> HIDE DEF i, r
  <2>5. i \in H!Symbols /\ i \notin {Reading, NoCode, NoInput}
    BY <2>2, ResultAssumption DEF H!Used, H!Symbols
  <2>6. ASSUME NEW j \in H!Symbols, result' = j
        PROVE  /\ j \in H!Used(lengths') /\ lengths'[j] = Len(read')
               /\ H!Number(read') = H!CodeWord(j)'
    <3>1. j = i
      BY <2>3, <2>6
    <3>2. H!CodeWord(j)' = c
      BY <1>9, <2>4, <3>1
    <3> QED BY <1>2, <1>5, <1>7, <1>9, <2>2, <3>1, <3>2
  <2>7. Len(read') <= MaxLen
    BY <1>4, <1>5, MaxLenAssumption
  <2> QED BY <1>5, <1>9, <1>10, <2>2, <2>3, <2>5, <2>6, <2>7 DEF DecoderInv
<1>13. CASE ~(c - first < d)
  <2>1. /\ index' = index + d /\ first' = 2 * (first + d) /\ code' = 2 * c /\ len' = len + 1
        /\ result' = IF len = MaxLen THEN NoCode ELSE Reading
    BY <1>11, <1>13 DEF H!Step, c
  <2>2. Taken(n + 1) = first + d /\ Taken(n + 1) <= c
    BY <1>4, <1>6, <1>7, <1>13 DEF c
  <2>3. BeyondShorter'
    <3>1. \A l \in 1..n : SubSeq(read', 1, l) = SubSeq(read, 1, l)
      BY <1>1, <1>2, FirstBits DEF n
    <3>2. SubSeq(read', 1, n + 1) = read'
      BY <1>5
    <3>3. \A l \in 1..n : Taken(l) <= H!Number(SubSeq(read', 1, l))
      BY <1>3, <3>1 DEF BeyondShorter, NumberRead, n
    <3>4. Taken(n + 1) <= H!Number(SubSeq(read', 1, n + 1))
      BY <1>7, <2>2, <3>2
    <3>5. \A l \in 1..(n + 1) : Taken(l) <= H!Number(SubSeq(read', 1, l))
      BY <1>4, <3>3, <3>4
    <3>6. \A l \in 1..(n + 1) : Taken(l)' <= H!Number(SubSeq(read', 1, l))
      BY <1>9, <3>5
    <3> QED BY <1>5, <3>6 DEF BeyondShorter, NumberRead
  <2>4. ASSUME len # MaxLen PROVE Running'
    <3>1. n + 1 + 1 <= MaxLen /\ n + 1 + 1 - 1 = n + 1
      BY <1>4, <2>4, MaxLenAssumption
    <3>2. Cardinality(Below(n + 1 + 1)) = Cardinality(Below(n + 1)) + d
      <4> DEFINE m == n + 1
      <4>1. m \in 0..MaxLen /\ m \in 1..MaxLen
        BY <1>4
      <4> HIDE DEF m
      <4>2. d = Cardinality(Of(m))
        BY <1>1, <4>1, CountIs DEF d, m
      <4>3. Cardinality(Below(m + 1)) = Cardinality(Below(m)) + Cardinality(Of(m))
        BY <1>1, <4>1, BelowNext, CountApart
      <4> QED BY <4>2, <4>3 DEF m
    <3>3. len' = Len(read') + 1 /\ len' <= MaxLen
      BY <1>4, <1>5, <2>1, <3>1
    <3>4. code' = 2 * H!Number(read')
      BY <1>7, <2>1
    <3>5. first' = 2 * Taken(n + 1) /\ index' = Cardinality(Below(n + 1 + 1))
      BY <1>4, <2>1, <2>2, <3>2
    <3>6. ASSUME NEW l \in 1..MaxLen, l = len'
          PROVE  first' = 2 * Taken(l - 1)' /\ index' = Cardinality(Below(l)')
      <4>1. l - 1 = n + 1 /\ l = n + 1 + 1
        BY <1>4, <2>1, <3>6
      <4>2. Taken(l - 1)' = Taken(l - 1) /\ Below(l)' = Below(l)
        BY <1>9
      <4> QED BY <3>5, <4>1, <4>2
    <3> QED BY <3>3, <3>4, <3>6 DEF Running
  <2>5. Len(read') <= MaxLen /\ (len = MaxLen => Len(read') = MaxLen)
    BY <1>4, <1>5, MaxLenAssumption
  <2>6. result' \in {NoCode, Reading} /\ result' \notin H!Symbols /\ result' # NoInput
        /\ (result' = Reading => len # MaxLen) /\ (result' = NoCode => len = MaxLen)
    BY <2>1, ResultAssumption DEF H!Symbols
  <2> QED BY <1>5, <1>9, <1>10, <2>3, <2>4, <2>5, <2>6 DEF DecoderInv
<1> QED BY <1>12, <1>13

\* The decoder's part of DecodesTheCode follows.
LEMMA DecoderIsRight ==
  ASSUME DecoderInv
  PROVE  /\ H!BuildAcceptsKraft /\ H!DecodesCodeWord
         /\ H!FailsOnlyOffCode /\ H!LookupInBounds
<1>1. Lengths /\ h = H!Built(lengths) /\ read \in Seq(Bit)
  BY DEF DecoderInv
<1>2. H!BuildAcceptsKraft
  BY <1>1, BuildsKraft DEF H!BuildAcceptsKraft
<1>3. H!DecodesCodeWord
  BY DEF DecoderInv, H!DecodesCodeWord
<1>4. H!FailsOnlyOffCode
  <2> SUFFICES ASSUME result = NoCode
               PROVE  ~(\E i \in H!Symbols : H!IsPrefix(i)) /\ H!Space < H!TwoTo[MaxLen]
    BY DEF H!FailsOnlyOffCode
  <2>1. Len(read) = MaxLen /\ BeyondShorter
    BY ResultAssumption DEF DecoderInv, H!Symbols
  <2>2. ASSUME NEW i \in H!Symbols, H!IsPrefix(i) PROVE FALSE
    <3> DEFINE l == lengths[i]
               r == Rank(Of(l), i)
               t == Taken(l - 1)
               d == H!Count(lengths)[l]
    <3>1. i \in H!Used(lengths) /\ H!Number(SubSeq(read, 1, l)) = H!CodeWord(i)
      BY <2>2 DEF H!IsPrefix
    <3>2. l \in 1..MaxLen /\ r \in 0..(d - 1)
      BY <1>1, <3>1, UsedIs
    <3>3. H!CodeWord(i) = 2 * t + r
      BY <1>1, <3>1, CodeWordIs
    <3>4. Taken(l) = 2 * t + d /\ t \in Nat /\ d \in Nat
      <4>1. l \in 0..MaxLen /\ l - 1 \in 0..MaxLen
        BY <3>2, MaxLenAssumption
      <4> QED BY <1>1, <3>2, <4>1, TakenIs, CountIs
    <3>5. Taken(l) <= H!CodeWord(i)
      BY <2>1, <3>1, <3>2 DEF BeyondShorter, NumberRead
    <3> HIDE DEF l, r, t, d
    <3> QED BY <3>2, <3>3, <3>4, <3>5
  <2>3. H!Space < H!TwoTo[MaxLen]
    <3>1. SubSeq(read, 1, MaxLen) = read /\ MaxLen \in 1..Len(read) /\ MaxLen \in 0..MaxLen
      BY <1>1, <2>1, MaxLenAssumption
    <3>2. Taken(MaxLen) <= H!Number(read)
      BY <2>1, <3>1 DEF BeyondShorter, NumberRead
    <3>3. H!Number(read) \in 0..(H!TwoTo[MaxLen] - 1)
      BY <2>1 DEF DecoderInv
    <3>4. H!TwoTo[MaxLen] \in Nat /\ Taken(MaxLen) \in Nat
      BY <1>1, <3>1, PowersOfTwo, TakenIs
    <3>5. H!Space = Taken(MaxLen)
      BY <1>1, SpaceIsTaken
    <3> QED BY <3>2, <3>3, <3>4, <3>5
  <2> QED BY <2>2, <2>3
<1>5. H!LookupInBounds
  <2> SUFFICES ASSUME result = Reading
               PROVE  first <= code
                        /\ index = H!Cardinality({i \in H!Used(lengths) : lengths[i] < len})
    BY DEF H!LookupInBounds
  <2> DEFINE n == Len(read)
  <2>1. Running /\ BeyondShorter /\ H!Number(read) \in 0..(H!TwoTo[n] - 1)
    BY ResultAssumption DEF DecoderInv, H!Symbols
  <2>2. n \in Nat /\ n \in 0..MaxLen /\ n + 1 \in 1..MaxLen /\ len = n + 1 /\ n + 1 - 1 = n
    <3>1. n \in Nat /\ len = n + 1 /\ len <= MaxLen
      BY <1>1, <2>1 DEF Running
    <3> HIDE DEF n
    <3> QED BY <3>1, MaxLenAssumption
  <2>3. /\ code = 2 * H!Number(read) /\ first = 2 * Taken(n)
        /\ index = Cardinality(Below(n + 1))
    <3>1. first = 2 * Taken(n + 1 - 1) /\ index = Cardinality(Below(n + 1))
      BY <2>1, <2>2 DEF Running
    <3> QED BY <2>1, <2>2, <3>1 DEF Running
  <2>4. Taken(n) <= H!Number(read)
    <3>1. CASE n = 0
      BY <1>1, <2>1, <3>1, PowersOfTwo, TakenIs
    <3>2. CASE n # 0
      <4>1. n \in 1..Len(read) /\ SubSeq(read, 1, n) = read
        BY <1>1, <2>2, <3>2
      <4> QED BY <2>1, <4>1 DEF BeyondShorter, NumberRead
    <3> QED BY <3>1, <3>2
  <2>5. first <= code
    <3>1. Taken(n) \in Nat /\ H!TwoTo[n] \in Nat
      BY <1>1, <2>2, TakenIs, PowersOfTwo
    <3> HIDE DEF n
    <3> QED BY <2>1, <2>3, <2>4, <3>1
  <2>6. index = H!Cardinality({i \in H!Used(lengths) : lengths[i] < len})
    BY <2>2, <2>3, SameCount DEF Below
  <2> QED BY <2>5, <2>6
<1> QED BY <1>2, <1>3, <1>4, <1>5

----------------------------------------------------------------------------
(* The two together. *)

\* A code is read from where it begins, bit after bit of the stream.
Following ==
  /\ \A k \in 1..Len(read) : read[k] = Src!StreamBit(from + k - 1)
  /\ ~failed => dstats_pos = from + Len(read)

SymbolInv ==
  /\ IInv /\ DecoderInv
  /\ from \in Nat
  /\ read # <<>> => Following
  /\ result = NoInput => dstats_pos = 8 * InLen

\* A walk begins with a code to be read, whatever the lengths.
LEMMA SymbolInitInv == SymbolInit => SymbolInv
<1> SUFFICES ASSUME SymbolInit PROVE SymbolInv
  OBVIOUS
<1>1. IInv
  BY InitIInv DEF SymbolInit
<1>2. Lengths /\ h = H!Built(lengths) /\ H!Begin /\ from = 0
  BY DEF SymbolInit, H!Init, Lengths
<1>3. read = <<>> /\ result # NoInput
  BY <1>2, ResultAssumption DEF H!Begin
<1> QED BY <1>1, <1>2, <1>3, BeginInv DEF SymbolInv

\* The position is inside the stream.
LEMMA PosInStream == ASSUME IInv PROVE dstats_pos \in 0..(8 * InLen)
BY LenAssumption DEF IInv, Bounds, dstats_pos

\* A bit for the decoder is the next one of the stream.
LEMMA DecodeBitStep ==
  ASSUME SymbolInv, DecodeBit
  PROVE  SymbolInv'
<1>1. /\ Bits(1) /\ 1 \in Needs /\ IInv /\ from \in Nat /\ DecoderInv /\ 1 \in Nat
      /\ read # <<>> => Following
  BY BitAssumption DEF DecodeBit, SymbolInv
<1>2. /\ IInv' /\ dstats_pos' = dstats_pos + 1 /\ val' = Src!BitsAt(dstats_pos, 1)
      /\ dstats_pos + 1 <= 8 * InLen
  BY <1>1, BitsStep
<1>3. ~failed /\ failed' = failed
  BY DEF DecodeBit, Bits, MayAsk
<1>4. dstats_pos \in Nat /\ dstats_pos \in 0..(8 * InLen - 1) /\ dstats_pos + 0 = dstats_pos
  BY <1>1, <1>2, PosInStream, LenAssumption
<1>5. val'[0] = Src!StreamBit(dstats_pos) /\ val'[0] \in Bit
  <2>1. 0 \in 0..(1 - 1)
    OBVIOUS
  <2>2. val'[0] = Src!StreamBit(dstats_pos + 0)
    BY <1>2, <2>1 DEF Src!BitsAt
  <2> QED BY <1>4, <2>2, StreamBitType DEF Bit
<1>6. PICK b \in Bit : b = val'[0] /\ H!Step(b)
  BY <1>5 DEF DecodeBit
<1>7. DecoderInv'
  BY <1>1, <1>6, DecodeBitInv
<1>8. read \in Seq(Bit) /\ read' = Append(read, b) /\ result' # NoInput
  <2>1. read \in Seq(Bit)
    BY <1>1 DEF DecoderInv
  <2>2. read' = Append(read, b) /\ result' # NoInput
    BY <1>1, <1>6, DecodeBitInv DEF H!Step
  <2> QED BY <2>1, <2>2
<1>9. from' \in Nat /\ Following'
  <2>1. from' = IF read = <<>> THEN dstats_pos ELSE from
    BY DEF DecodeBit
  <2>2. from' \in Nat /\ dstats_pos = from' + Len(read)
        /\ \A k \in 1..Len(read) : read[k] = Src!StreamBit(from' + k - 1)
    <3>1. CASE read = <<>>
      BY <1>4, <2>1, <3>1
    <3>2. CASE read # <<>>
      BY <1>1, <1>3, <2>1, <3>2 DEF Following
    <3> QED BY <3>1, <3>2
  <2>3. Len(read') = Len(read) + 1 /\ Len(read) \in Nat /\ read'[Len(read) + 1] = b
        /\ \A k \in 1..Len(read) : read'[k] = read[k]
    BY <1>8
  <2>4. dstats_pos' = from' + Len(read')
    BY <1>2, <1>4, <2>2, <2>3
  <2>5. ASSUME NEW k \in 1..Len(read') PROVE read'[k] = Src!StreamBit(from' + k - 1)
    <3>1. CASE k \in 1..Len(read)
      BY <2>2, <2>3, <3>1
    <3>2. CASE k = Len(read) + 1
      <4>1. from' + k - 1 = dstats_pos
        BY <2>2, <2>3, <3>2
      <4> QED BY <1>5, <1>6, <2>3, <3>2, <4>1
    <3> QED BY <2>3, <3>1, <3>2
  <2> QED BY <2>2, <2>4, <2>5 DEF Following, Src!StreamBit
<1> QED BY <1>2, <1>7, <1>8, <1>9 DEF SymbolInv

\* A bit is refused only at the end of the stream.
LEMMA DecodeFailsStep ==
  ASSUME SymbolInv, DecodeFails
  PROVE  SymbolInv'
<1>1. /\ BitsFail(1) /\ 1 \in Needs /\ IInv /\ from \in Nat /\ DecoderInv
      /\ read # <<>> => Following
      /\ result = Reading /\ result' = NoInput
      /\ UNCHANGED <<lengths, h, len, code, first, index, read, from>>
  BY BitAssumption DEF DecodeFails, SymbolInv, H!InputEnds
<1>2. IInv' /\ dstats_pos' = dstats_pos /\ dstats_pos + 1 > 8 * InLen
  BY <1>1, BitsFailStep
<1>3. dstats_pos' = 8 * InLen
  BY <1>1, <1>2, PosInStream, LenAssumption
<1>4. DecoderInv'
  <2>1. NoInput \notin H!Symbols /\ NoInput # Reading /\ NoInput # NoCode
        /\ Reading \notin H!Symbols
    BY ResultAssumption DEF H!Symbols
  <2>2. BeyondShorter /\ (BeyondShorter' <=> BeyondShorter)
    <3>1. \A l : Taken(l)' = Taken(l)
      BY <1>1, LengthsStay
    <3>2. BeyondShorter
      BY <1>1, <2>1 DEF DecoderInv
    <3> QED BY <1>1, <3>1, <3>2 DEF BeyondShorter, NumberRead
  <2>3. Lengths' /\ h' = H!Built(lengths')
    BY <1>1, LengthsStay DEF DecoderInv
  <2>4. /\ (read \in Seq(Bit) /\ Len(read) <= MaxLen)'
        /\ (H!Number(read) \in 0..(H!TwoTo[Len(read)] - 1))'
    BY <1>1 DEF DecoderInv
  <2>5. \A i \in H!Symbols : result' # i
    BY <1>1, <2>1
  <2> QED BY <1>1, <2>1, <2>2, <2>3, <2>4, <2>5 DEF DecoderInv
<1>5. read' # <<>> => Following'
  BY <1>1, <1>2 DEF Following, Src!StreamBit, BitsFail
<1> QED BY <1>1, <1>2, <1>3, <1>4, <1>5 DEF SymbolInv

\* The next code begins.
LEMMA DecodedStep ==
  ASSUME SymbolInv, Decoded
  PROVE  SymbolInv'
<1>1. /\ UNCHANGED <<lengths, h, in_pos, bitcnt, bitbuf, val, failed, from>>
      /\ H!Begin' /\ IInv /\ from \in Nat /\ Lengths /\ h = H!Built(lengths)
  BY DEF Decoded, H!Again, H!Begin, readerVars, SymbolInv, DecoderInv
<1>2. IInv'
  BY <1>1, NextIInv DEF vars
<1>3. (Lengths /\ h = H!Built(lengths) /\ H!Begin)'
  BY <1>1, LengthsStay
<1>4. DecoderInv'
  BY <1>3, BeginInv, PTL
<1>5. read' = <<>> /\ result' # NoInput
  BY <1>1, ResultAssumption DEF H!Begin
<1> QED BY <1>1, <1>2, <1>4, <1>5 DEF SymbolInv

\* The invariant of the decoder stays when it does.
LEMMA DecoderStays ==
  ASSUME DecoderInv, UNCHANGED decoderVars
  PROVE  DecoderInv'
<1>1. UNCHANGED <<lengths, h, len, code, first, index, read, result>>
  BY DEF decoderVars
<1>2. /\ Lengths' /\ h' = H!Built(lengths')
      /\ \A l : Below(l)' = Below(l) /\ Taken(l)' = Taken(l)
      /\ \A i : H!CodeWord(i)' = H!CodeWord(i)
  BY <1>1, LengthsStay DEF DecoderInv
<1>3. BeyondShorter' <=> BeyondShorter
  BY <1>1, <1>2 DEF BeyondShorter, NumberRead
<1>4. Running' <=> Running
  BY <1>1, <1>2 DEF Running
<1>5. (\A i \in H!Symbols : result = i =>
         i \in H!Used(lengths) /\ lengths[i] = Len(read) /\ H!Number(read) = H!CodeWord(i))'
  BY <1>1, <1>2 DEF DecoderInv
<1>6. /\ (read \in Seq(Bit) /\ Len(read) <= MaxLen)'
      /\ (result \in {Reading, NoCode, NoInput} \cup H!Symbols)'
      /\ (H!Number(read) \in 0..(H!TwoTo[Len(read)] - 1))'
      /\ (result = NoCode => Len(read) = MaxLen)'
  BY <1>1 DEF DecoderInv
<1>7. (result \notin H!Symbols => BeyondShorter)' /\ (result = Reading => Running)'
  BY <1>1, <1>3, <1>4 DEF DecoderInv
<1> QED BY <1>2, <1>5, <1>6, <1>7 DEF DecoderInv

\* Other reads leave the decoder alone, and no code is under way.
LEMMA OtherReadStep ==
  ASSUME SymbolInv, OtherRead
  PROVE  SymbolInv'
<1>1. /\ result = Reading /\ read = <<>> /\ UNCHANGED decoderVars /\ from' = from
      /\ \/ \E need \in Needs : Bits(need) \/ BitsFail(need)
         \/ \E n \in 0..InLen : Stored(n)
      /\ IInv /\ DecoderInv /\ from \in Nat
  BY DEF OtherRead, SymbolInv
<1>2. IInv'
  BY <1>1, NextIInv DEF Next
<1>3. read' = <<>> /\ result' # NoInput
  BY <1>1, ResultAssumption DEF decoderVars
<1> QED BY <1>1, <1>2, <1>3, DecoderStays DEF SymbolInv

\* Every step of the two keeps their invariant.
LEMMA SymbolNextInv ==
  SymbolInv /\ [SymbolNext]_<<readerVars, decoderVars, from>> => SymbolInv'
<1> SUFFICES ASSUME SymbolInv, [SymbolNext]_<<readerVars, decoderVars, from>>
             PROVE  SymbolInv'
  OBVIOUS
<1>1. CASE UNCHANGED <<readerVars, decoderVars, from>>
  <2>1. /\ IInv /\ DecoderInv /\ UNCHANGED <<vars, decoderVars, from, read, result>>
        /\ UNCHANGED <<in_pos, bitcnt, failed>>
    BY <1>1 DEF readerVars, decoderVars, vars, SymbolInv
  <2>2. IInv' /\ DecoderInv'
    BY <2>1, NextIInv, DecoderStays
  <2>3. Following' <=> Following
    BY <2>1 DEF Following, Src!StreamBit, dstats_pos
  <2> QED BY <2>1, <2>2, <2>3 DEF SymbolInv, dstats_pos
<1> QED BY <1>1, DecodeBitStep, DecodeFailsStep, DecodedStep, OtherReadStep DEF SymbolNext

\* So it always holds.
LEMMA SymbolInductive == SymbolSpec => []SymbolInv
BY SymbolInitInv, SymbolNextInv, PTL DEF SymbolSpec

\* For all lengths and every stream: lengths are refused exactly if their codes do
\* not fit; what dstats_decode returns is the symbol whose code word stands where
\* the read began, with no bit after it consumed; it gives up only on bits that
\* begin with no code word or at the end of the stream, and the table is read
\* inside the slots of the current length only.
THEOREM DecoderIsExact == SymbolSpec => []DecodesTheCode
<1>1. SymbolInv => DecodesTheCode
  <2> SUFFICES ASSUME SymbolInv PROVE DecodesTheCode
    OBVIOUS
  <2>1. DecoderInv /\ IInv /\ (read # <<>> => Following)
        /\ (result = NoInput => dstats_pos = 8 * InLen)
    BY DEF SymbolInv
  <2>2. DOMAIN read = 1..Len(read)
    BY <2>1 DEF DecoderInv
  <2>3. read # <<>> => /\ \A k \in DOMAIN read : read[k] = Src!StreamBit(from + k - 1)
                       /\ ~failed => dstats_pos = from + Len(read)
    BY <2>1, <2>2 DEF Following
  <2>4. result = NoInput => 8 * InLen - dstats_pos = 0
    <3>1. 8 * InLen \in Nat
      BY LenAssumption
    <3> QED BY <2>1, <3>1
  <2> QED BY <2>1, <2>3, <2>4, DecoderIsRight DEF DecodesTheCode
<1> QED BY <1>1, SymbolInductive, PTL

\* What holds of the reader holds of it here: the decoder asks it for bits only.
LEMMA SymbolReads == SymbolSpec => Spec
<1>1. SymbolInit => Init
  BY DEF SymbolInit
<1>2. [SymbolNext]_<<readerVars, decoderVars, from>> => [Next]_vars
  BY BitAssumption, Zenon DEF SymbolNext, DecodeBit, DecodeFails, Decoded, OtherRead, Next,
     vars, readerVars
<1> QED BY <1>1, <1>2, PTL DEF SymbolSpec, Spec

\* So under the decoder too the buffer is the stream, and the reader a BitSource.
COROLLARY DecoderReadsStream == SymbolSpec => []NoBitLost /\ ImplementsBitSource
BY SymbolReads, BufferIsStream, ReaderImplementsSource, PTL
=============================================================================
