------------------------- MODULE BenchmarkMainProofs -------------------------
(***************************************************************************)
(* Proofs about Registration and BenchmarkMain, for corpora, codecs, ladders *)
(* and filters of any size and in any number.                               *)
(*                                                                         *)
(* RegInv says what is registered as a set of names, AllNames, and that no   *)
(* two benchmarks have one: what the nested loops of the three functions     *)
(* that register list is compared with a set of names by Lists, which goes   *)
(* through concatenation and through loops over ladders.  From it follow     *)
(* what a selection of types selects, what a corpus file gets and that a     *)
(* place in the charts belongs to one benchmark.                            *)
(*                                                                         *)
(* IInv and ShowInv are about the reporter: when the machine has rested, and *)
(* which reports have been shown.                                           *)
(***************************************************************************)
EXTENDS BenchmarkMain, FoldTheorems

\* The words and the parts that names are made of.
Words      == {"", "data"} \cup AllTypes \cup ToSet(Dirs) \cup ToSet(Names)
Ops        == {"codec_crc32", "codec_adler32", "codec_deflate", "codec_inflate"}
Strategies == {""} \cup UNION {ToSet(c.strategies) : c \in Codecs}

AnyName == [op : Ops, label : Words \X Words, dist : Int, level : Int,
            strategy : Strategies, wbits : Int, size : Int, chunk : Int]

----------------------------------------------------------------------------
(* What the operators on sequences give. *)

\* A ladder as a function on its positions, and the set of what is on it.
LEMMA LadderIs ==
  ASSUME NEW S, NEW s \in Ladders(S)
  PROVE  /\ s \in Seq(S) /\ IsInjective(s) /\ Len(s) \in Nat /\ DOMAIN s = 1..Len(s)
         /\ \A i \in 1..Len(s) : s[i] \in S /\ s[i] \in ToSet(s)
         /\ ToSet(s) = {s[i] : i \in 1..Len(s)} /\ ToSet(s) \subseteq S
<1>1. s \in Seq(S) /\ IsInjective(s) /\ Len(s) \in Nat /\ DOMAIN s = 1..Len(s)
  BY DEF Ladders
<1>2. ToSet(s) = {s[i] : i \in 1..Len(s)}
  BY <1>1, Zenon DEF ToSet
<1>3. \A i \in 1..Len(s) : s[i] \in S /\ s[i] \in ToSet(s)
  BY <1>1, <1>2
<1> QED BY <1>1, <1>2, <1>3

\* A ladder is one over every set that has all it holds.
LEMMA LadderOf ==
  ASSUME NEW S, NEW T, NEW s \in Ladders(S), ToSet(s) \subseteq T
  PROVE  s \in Ladders(S \cap T)
<1>1. \A i \in 1..Len(s) : s[i] \in S \cap T
  BY LadderIs
<1>2. s \in Seq(S \cap T)
  BY <1>1, LadderIs
<1> QED BY <1>2, LadderIs DEF Ladders

\* What is not empty has a first element.
LEMMA LadderFirst ==
  ASSUME NEW S, NEW s \in Ladders(S), s # <<>>
  PROVE  s[1] \in ToSet(s)
<1>1. s \in Seq(S) /\ Len(s) \in Nat
  BY LadderIs
<1>2. Len(s) # 0
  BY <1>1
<1> QED BY <1>1, <1>2, LadderIs

\* Select keeps the order and drops what P has not.
LEMMA SelectIs ==
  ASSUME NEW S, NEW s \in Ladders(S), NEW P
  PROVE  Select(s, P) \in Ladders(S \cap P) /\ ToSet(Select(s, P)) = ToSet(s) \cap P
<1> DEFINE t == [i \in 1..Len(s) |-> IF s[i] \in P THEN <<s[i]>> ELSE <<>>]
<1>0. s \in Seq(S) /\ IsInjective(s) /\ Len(s) \in Nat /\ DOMAIN s = 1..Len(s)
  BY DEF Ladders
<1>1. t \in [1..Len(s) -> Seq(S \cap P)]
  <2>1. ASSUME NEW i \in 1..Len(s) PROVE t[i] \in Seq(S \cap P)
    <3>1. s[i] \in S
      BY <1>0
    <3>2. CASE s[i] \in P
      <4>1. s[i] \in S \cap P
        BY <3>1, <3>2
      <4>2. <<s[i]>> \in Seq(S \cap P)
        BY <4>1
      <4> QED BY <3>2, <4>2
    <3>3. CASE s[i] \notin P
      <4>1. <<>> \in Seq(S \cap P)
        OBVIOUS
      <4> QED BY <3>3, <4>1
    <3> QED BY <3>2, <3>3
  <2> QED BY <2>1
<1>2. Select(s, P) = FlattenSeq(t)
  BY DEF Select, ForEach
<1>3. \A i \in 1..Len(s) : ToSet(t[i]) = {s[i]} \cap P
  BY DEF ToSet
<1>4. ToSet(s) \cap P = UNION {{s[i]} \cap P : i \in 1..Len(s)}
  BY <1>0 DEF ToSet
<1>5. Apart(t, Len(s))
  <2>1. \A i \in 1..Len(s) : IsInjective(t[i])
    BY DEF IsInjective
  <2>2. \A i, j \in 1..Len(s) : i # j => s[i] # s[j]
    BY <1>0 DEF IsInjective
  <2> HIDE DEF t
  <2> QED BY <1>3, <2>1, <2>2 DEF Apart
<1>6. /\ ToSet(FlattenSeq(t)) = UNION {ToSet(t[i]) : i \in 1..Len(s)}
      /\ FlattenSeq(t) \in Seq(S \cap P) /\ IsInjective(FlattenSeq(t))
  <2> HIDE DEF t
  <2> QED BY <1>0, <1>1, <1>5, FlattenProperties
<1> HIDE DEF t
<1> QED BY <1>2, <1>3, <1>4, <1>6 DEF Ladders

\* Flattening one sequence gives it back.
LEMMA FlattenOne == ASSUME NEW S, NEW s \in Seq(S) PROVE FlattenSeq(<<s>>) = s
<1> DEFINE o == <<s>>
<1>1. Len(o) = 1 /\ o[1] = s
  OBVIOUS
<1> HIDE DEF o
<1>0. Len(o) \in Nat \ {0}
  BY <1>1
<1>2. PICK g : g = Flat(g, o) /\ FlattenSeq(o) = g[Len(o)]
  BY <1>0, FlattenHasIter
<1>3. Flat(g, o)[1] = s
  BY <1>1 DEF Flat
<1> QED BY <1>1, <1>2, <1>3 DEF o

\* s has the names of T, each once.
Lists(s, T) == s \in Ladders(AnyName) /\ ToSet(s) = T

\* Nothing is listed by the empty sequence.
LEMMA ListsNone == Lists(<<>>, {})
BY DEF Lists, Ladders, IsInjective, ToSet

\* One name.
LEMMA ListsOne == ASSUME NEW n \in AnyName PROVE Lists(<<n>>, {n})
<1>1. <<n>> \in Seq(AnyName)
  OBVIOUS
<1>2. IsInjective(<<n>>) /\ ToSet(<<n>>) = {n}
  BY DEF IsInjective, ToSet
<1> QED BY <1>1, <1>2 DEF Lists, Ladders

\* Two names.
LEMMA ListsTwo ==
  ASSUME NEW n \in AnyName, NEW m \in AnyName, n # m
  PROVE  Lists(<<n, m>>, {n, m})
<1>1. <<n, m>> \in Seq(AnyName)
  OBVIOUS
<1>2. IsInjective(<<n, m>>) /\ ToSet(<<n, m>>) = {n, m}
  BY DEF IsInjective, ToSet
<1> QED BY <1>1, <1>2 DEF Lists, Ladders

\* What is registered first and then what is registered next, if they share no
\* name.
LEMMA ListsConcat ==
  ASSUME NEW s, NEW S, NEW t, NEW T, Lists(s, S), Lists(t, T), S \cap T = {}
  PROVE  Lists(s \o t, S \cup T)
<1>1. IsInjective(s \o t) /\ ToSet(s \o t) = S \cup T
  BY InjectiveConcat, ToSetConcat DEF Lists, Ladders
<1>2. s \o t \in Seq(AnyName)
  BY DEF Lists, Ladders
<1> QED BY <1>1, <1>2 DEF Lists, Ladders

\* One ladder after the other, for every rung of a ladder.
LEMMA EachRung ==
  ASSUME NEW S, NEW X, NEW s \in Ladders(S), NEW f, NEW F,
         \A x \in ToSet(s) : f[x] \in Ladders(X) /\ ToSet(f[x]) = F[x],
         \A x, y \in ToSet(s) : x # y => F[x] \cap F[y] = {}
  PROVE  LET r == FlattenSeq([i \in 1..Len(s) |-> f[s[i]]])
         IN r \in Ladders(X) /\ ToSet(r) = UNION {F[x] : x \in ToSet(s)}
<1> DEFINE t == [i \in 1..Len(s) |-> f[s[i]]]
<1>1. Len(s) \in Nat /\ DOMAIN s = 1..Len(s) /\ IsInjective(s)
  BY DEF Ladders
<1>2. ToSet(s) = {s[i] : i \in 1..Len(s)}
  BY <1>1, Zenon DEF ToSet
<1>3. \A i \in 1..Len(s) : t[i] \in Seq(X) /\ IsInjective(t[i]) /\ ToSet(t[i]) = F[s[i]]
  BY <1>2 DEF Ladders
<1>4. t \in [1..Len(s) -> Seq(X)]
  BY <1>3
<1>6. \A i, j \in 1..Len(s) : i # j => s[i] # s[j]
  BY <1>1 DEF IsInjective
<1> HIDE DEF t
<1>7. Apart(t, Len(s))
  BY <1>2, <1>3, <1>6 DEF Apart
<1>8. UNION {ToSet(t[i]) : i \in 1..Len(s)} = UNION {F[x] : x \in ToSet(s)}
  <2>1. {ToSet(t[i]) : i \in 1..Len(s)} = {F[s[i]] : i \in 1..Len(s)}
    BY <1>3
  <2>2. {F[x] : x \in ToSet(s)} = {F[s[i]] : i \in 1..Len(s)}
    BY <1>2
  <2> QED BY <2>1, <2>2
<1>9. FlattenSeq(t) \in Ladders(X) /\ ToSet(FlattenSeq(t)) = UNION {F[x] : x \in ToSet(s)}
  BY <1>1, <1>4, <1>7, <1>8, FlattenProperties DEF Ladders
<1> QED BY <1>9 DEF t

\* A loop over a ladder lists what its bodies list, if no two of them list one
\* name.
LEMMA ListsEach ==
  ASSUME NEW S, NEW s \in Ladders(S), NEW f, NEW F,
         \A x \in ToSet(s) : Lists(f[x], F[x]),
         \A x, y \in ToSet(s) : x # y => F[x] \cap F[y] = {}
  PROVE  Lists(FlattenSeq([i \in 1..Len(s) |-> f[s[i]]]), UNION {F[x] : x \in ToSet(s)})
<1>1. \A x \in ToSet(s) : f[x] \in Ladders(AnyName) /\ ToSet(f[x]) = F[x]
  BY DEF Lists
<1>2. LET r == FlattenSeq([i \in 1..Len(s) |-> f[s[i]]])
      IN r \in Ladders(AnyName) /\ ToSet(r) = UNION {F[x] : x \in ToSet(s)}
  BY <1>1, EachRung
<1> QED BY <1>2 DEF Lists

\* One name for every rung of a ladder.
LEMMA OneEach ==
  ASSUME NEW S, NEW s \in Ladders(S), NEW f,
         \A x \in ToSet(s) : f[x] \in AnyName,
         \A x, y \in ToSet(s) : f[x] = f[y] => x = y
  PROVE  Lists(FlattenSeq([i \in 1..Len(s) |-> <<f[s[i]]>>]), {f[x] : x \in ToSet(s)})
<1> DEFINE g == [x \in ToSet(s) |-> <<f[x]>>]
           G == [x \in ToSet(s) |-> {f[x]}]
<1>1. \A x \in ToSet(s) : g[x] \in Ladders(AnyName) /\ ToSet(g[x]) = G[x]
  BY ListsOne DEF Lists
<1>2. \A x, y \in ToSet(s) : x # y => G[x] \cap G[y] = {}
  OBVIOUS
<1>3. \A i \in 1..Len(s) : s[i] \in ToSet(s)
  BY DEF ToSet, Ladders
<1>4. [i \in 1..Len(s) |-> g[s[i]]] = [i \in 1..Len(s) |-> <<f[s[i]]>>]
  BY <1>3
<1>5. UNION {G[x] : x \in ToSet(s)} = {f[x] : x \in ToSet(s)}
  OBVIOUS
<1> HIDE DEF g, G
<1>6. Lists(FlattenSeq([i \in 1..Len(s) |-> g[s[i]]]), UNION {G[x] : x \in ToSet(s)})
  BY <1>1, <1>2, EachRung DEF Lists
<1> QED BY <1>4, <1>5, <1>6

\* A ladder of levels gives one name for each.
LEMMA ListsAtLevels ==
  ASSUME NEW n \in AnyName, NEW levels \in Ladders(Int)
  PROVE  Lists(AtLevels(n, levels), {[n EXCEPT !.level = l] : l \in ToSet(levels)})
<1> DEFINE at(l) == [n EXCEPT !.level = l]
           a == [l \in 1..Len(levels) |-> at(levels[l])]
<1>0. /\ Len(levels) \in Nat /\ DOMAIN levels = 1..Len(levels) /\ AtLevels(n, levels) = a
      /\ \A l \in 1..Len(levels) : levels[l] \in Int
  BY DEF AtLevels, Ladders
<1>1. \A l \in Int : at(l) \in AnyName /\ at(l).level = l
  BY DEF AnyName
<1> HIDE DEF at
<1>2. a \in [1..Len(levels) -> AnyName]
  BY <1>0, <1>1
<1>3. a \in Seq(AnyName)
  BY <1>0, <1>2
<1>4. IsInjective(a)
  <2>1. IsInjective(levels)
    BY DEF Ladders
  <2> QED BY <1>0, <1>1, <2>1 DEF IsInjective
<1>5. ToSet(a) = {at(l) : l \in ToSet(levels)}
  <2>1. ToSet(a) = {at(levels[l]) : l \in 1..Len(levels)}
    BY Zenon DEF ToSet
  <2>2. ToSet(levels) = {levels[l] : l \in 1..Len(levels)}
    BY <1>0, Zenon DEF ToSet
  <2> QED BY <2>1, <2>2
<1> QED BY <1>0, <1>3, <1>4, <1>5 DEF at, Lists, Ladders

\* A fresh name has all its parts.
LEMMA NameIs ==
  ASSUME NEW op \in Ops, NEW label \in Words \X Words
  PROVE  Name(op, label) \in AnyName
<1>1. 0 \in Int /\ -1 \in Int /\ "" \in Strategies
  BY DEF Strategies
<1> QED BY <1>1 DEF Name, AnyName

----------------------------------------------------------------------------
(* The names of the three functions that register. *)

ChecksumNames(c) ==
  {[Name("codec_crc32", NoCorpus) EXCEPT !.size = z] : z \in IF c.crc32 THEN ToSet(Sizes) ELSE {}}
    \cup {[Name("codec_adler32", NoCorpus) EXCEPT !.size = z] :
            z \in IF c.adler32 THEN ToSet(Sizes) ELSE {}}

TypeNames(c, t) ==
  {[Name("codec_deflate", <<"data", t>>) EXCEPT !.level = l] : l \in ToSet(c.levels)}
    \cup {[Name("codec_inflate", <<"data", t>>) EXCEPT !.size = z] :
            z \in IF c.inflate THEN {0, 1} ELSE {}}

DistDeflates(c, d) ==
  {[Name("codec_deflate", <<"data", "dist">>) EXCEPT !.dist = d, !.level = l] :
     l \in ToSet(c.levels) \ {0}}
DistNames(c) ==
  {[Name("codec_inflate", <<"data", "dist">>) EXCEPT !.dist = d] :
     d \in IF c.inflate THEN ToSet(InflateDists) ELSE {}}
    \cup UNION {DistDeflates(c, d) : d \in ToSet(DeflateDists)}

SyntheticNames(c, m) ==
  (UNION {TypeNames(c, t) : t \in ToSet(types) \cap m}) \cup (IF "dist" \in m THEN DistNames(c) ELSE {})

StrategyNames(cf, s) ==
  {[Name("codec_deflate", cf) EXCEPT !.strategy = s, !.level = l] : l \in ToSet(StrategyLevels(s))}
FileNames(c, cf) ==
  {[Name("codec_deflate", cf) EXCEPT !.level = l] : l \in ToSet(c.levels)}
    \cup (UNION {StrategyNames(cf, s) : s \in ToSet(c.strategies)})
    \cup {[Name("codec_deflate", cf) EXCEPT !.level = 6, !.wbits = w] : w \in ToSet(c.wbits)}
    \cup {n \in {Name("codec_inflate", cf)} : c.inflate}
    \cup {[Name("codec_inflate", cf) EXCEPT !.chunk = k] :
            k \in IF c.inflate /\ c.chunked THEN ToSet(Chunks) ELSE {}}

\* What the assumptions say of the ladders and of a backend.
LEMMA LaddersAre ==
  ASSUME NEW c \in Codecs
  PROVE  /\ Sizes \in Ladders(Int) /\ Chunks \in Ladders(Int)
         /\ InflateDists \in Ladders(Int) /\ DeflateDists \in Ladders(Int)
         /\ c.levels \in Ladders(Int) /\ c.wbits \in Ladders(Int)
         /\ c.strategies \in Ladders(Strategies \ {""})
         /\ 0 \notin ToSet(Chunks) \cup ToSet(InflateDists) \cup ToSet(DeflateDists) \cup ToSet(c.wbits)
         /\ ToSet(c.levels) \subseteq Nat /\ ToSet(c.levels) \ {0} # {} /\ ToSet(DeflateDists) # {}
         /\ {c.crc32, c.adler32, c.inflate, c.chunked} \subseteq BOOLEAN
<1>1. \A s : s \in Ladders(Nat) \/ s \in Ladders(Nat \ {0}) => s \in Ladders(Int)
  BY DEF Ladders
<1>2. \A S, s : s \in Ladders(S) => ToSet(s) \subseteq S
  BY DEF Ladders, ToSet
<1>3. /\ Sizes \in Ladders(Nat \ {0}) /\ Chunks \in Ladders(Nat \ {0})
      /\ InflateDists \in Ladders(Nat \ {0}) /\ DeflateDists \in Ladders(Nat \ {0})
      /\ c.levels \in Ladders(Nat) /\ c.wbits \in Ladders(Nat \ {0})
      /\ ToSet(c.levels) \ {0} # {} /\ DeflateDists # <<>>
      /\ {c.crc32, c.adler32, c.inflate, c.chunked} \subseteq BOOLEAN
      /\ c.strategies \in Ladders(STRING \ {""})
  BY LaddersAssumption, CodecsAssumption
<1>4. c.strategies \in Ladders(Strategies \ {""})
  <2>1. ToSet(c.strategies) \subseteq Strategies
    BY DEF Strategies
  <2>2. c.strategies \in Ladders((STRING \ {""}) \cap Strategies)
    BY <1>3, <2>1, LadderOf
  <2>3. \A S, T, s : s \in Ladders(S) /\ S \subseteq T => s \in Ladders(T)
    BY DEF Ladders
  <2>4. (STRING \ {""}) \cap Strategies \subseteq Strategies \ {""}
    OBVIOUS
  <2> QED BY <2>2, <2>3, <2>4, Zenon
<1>5. ToSet(DeflateDists) # {}
  BY <1>3, LadderFirst
<1>6. 0 \notin ToSet(Chunks) /\ 0 \notin ToSet(InflateDists) /\ 0 \notin ToSet(DeflateDists) /\ 0 \notin ToSet(c.wbits)
  BY <1>2, <1>3
<1>7. ToSet(c.levels) \subseteq Nat
  BY <1>2, <1>3
<1> QED BY <1>1, <1>3, <1>4, <1>5, <1>6, <1>7

\* What registration may name.
LEMMA WordsAre ==
  /\ NoCorpus \in Words \X Words /\ ToSet(Dirs) \X ToSet(Names) \subseteq Words \X Words
  /\ \A t \in AllTypes : <<"data", t>> \in Words \X Words
BY DEF Words, NoCorpus

\* The data types: "dist", and those with a table of their own, once each.
LEMMA TypesAre ==
  /\ AllTypes = ToSet(types) \cup {"dist"} /\ "dist" \notin ToSet(types)
  /\ types \in Ladders(AllTypes) /\ "text" \in AllTypes /\ "" \notin AllTypes
<1>1. ToSet(types) = {"text", "short_match", "dna", "random", "literals", "mixed",
           "realistic_rgb", "phased", "runs", "striped_rgb", "far_match", "records"}
  BY DEF types, ToSet
<1>2. AllTypes = {"text", "short_match", "dna", "random", "literals", "mixed",
          "realistic_rgb", "striped_rgb", "phased", "runs", "far_match",
          "records", "dist"}
  BY DEF Enum, AllTypes, ToSet
<1>3. IsInjective(types)
  BY DEF types, IsInjective
<1>4. types \in Seq(AllTypes)
  <2>1. types \in Seq({"text", "short_match", "dna", "random", "literals", "mixed",
           "realistic_rgb", "phased", "runs", "striped_rgb", "far_match", "records"})
    BY DEF types
  <2> QED BY <2>1, <1>2
<1> QED BY <1>1, <1>2, <1>3, <1>4 DEF Ladders

\* The checksum benchmarks of a backend, each once.
LEMMA ChecksumsAre ==
  ASSUME codec \in Codecs PROVE Lists(Checksums, ChecksumNames(codec))
<1> DEFINE crc(z) == [Name("codec_crc32", NoCorpus) EXCEPT !.size = z]
           adler(z) == [Name("codec_adler32", NoCorpus) EXCEPT !.size = z]
           C1(z) == {crc(y) : y \in IF codec.crc32 THEN {z} ELSE {}}
           C2(z) == {adler(y) : y \in IF codec.adler32 THEN {z} ELSE {}}
           s1(z) == IF codec.crc32 THEN <<crc(z)>> ELSE <<>>
           s2(z) == IF codec.adler32 THEN <<adler(z)>> ELSE <<>>
           f == [z \in ToSet(Sizes) |-> s1(z) \o s2(z)]
           F == [z \in ToSet(Sizes) |-> C1(z) \cup C2(z)]
<1>1. Sizes \in Ladders(Int) /\ ToSet(Sizes) \subseteq Int
  BY LaddersAre, LadderIs
<1>2. \A z \in Int : /\ crc(z) \in AnyName /\ crc(z).size = z /\ crc(z).op = "codec_crc32"
                     /\ adler(z) \in AnyName /\ adler(z).size = z /\ adler(z).op = "codec_adler32"
  <2>1. Name("codec_crc32", NoCorpus) \in AnyName /\ Name("codec_adler32", NoCorpus) \in AnyName
    BY NameIs, WordsAre DEF Ops
  <2>2. /\ Name("codec_crc32", NoCorpus).op = "codec_crc32"
        /\ Name("codec_adler32", NoCorpus).op = "codec_adler32"
    BY DEF Name
  <2> QED BY <2>1, <2>2 DEF AnyName
<1> HIDE DEF crc, adler
<1>3. \A z \in ToSet(Sizes) : Lists(s1(z), C1(z)) /\ Lists(s2(z), C2(z)) /\ C1(z) \cap C2(z) = {}
  <2> SUFFICES ASSUME NEW z \in ToSet(Sizes)
               PROVE  Lists(s1(z), C1(z)) /\ Lists(s2(z), C2(z)) /\ C1(z) \cap C2(z) = {}
    OBVIOUS
  <2>1. Lists(<<crc(z)>>, {crc(z)}) /\ Lists(<<adler(z)>>, {adler(z)}) /\ Lists(<<>>, {})
    BY <1>1, <1>2, ListsOne, ListsNone
  <2>2. C1(z) = (IF codec.crc32 THEN {crc(z)} ELSE {}) /\ C2(z) = (IF codec.adler32 THEN {adler(z)} ELSE {})
    OBVIOUS
  <2>3. crc(z) # adler(z)
    BY <1>1, <1>2
  <2> QED BY <2>1, <2>2, <2>3
<1>4. \A y, z \in ToSet(Sizes) : y # z => (C1(y) \cup C2(y)) \cap (C1(z) \cup C2(z)) = {}
  BY <1>1, <1>2
<1>5. Checksums = FlattenSeq([i \in 1..Len(Sizes) |-> s1(Sizes[i]) \o s2(Sizes[i])])
  BY DEF Checksums, ForEach, crc, adler
<1>6. UNION {C1(z) \cup C2(z) : z \in ToSet(Sizes)} = ChecksumNames(codec)
  BY DEF ChecksumNames, crc, adler
<1> HIDE DEF s1, s2, C1, C2
<1>7. \A i \in 1..Len(Sizes) : f[Sizes[i]] = s1(Sizes[i]) \o s2(Sizes[i])
  BY <1>1, LadderIs
<1>8. \A z \in ToSet(Sizes) : Lists(f[z], F[z])
  BY <1>3, ListsConcat
<1>9. \A y, z \in ToSet(Sizes) : y # z => F[y] \cap F[z] = {}
  BY <1>4
<1>10. UNION {F[z] : z \in ToSet(Sizes)} = ChecksumNames(codec)
  BY <1>6
<1> HIDE DEF f, F
<1>11. [i \in 1..Len(Sizes) |-> f[Sizes[i]]] = [i \in 1..Len(Sizes) |-> s1(Sizes[i]) \o s2(Sizes[i])]
  BY <1>7
<1>12. Lists(FlattenSeq([i \in 1..Len(Sizes) |-> f[Sizes[i]]]), UNION {F[z] : z \in ToSet(Sizes)})
  BY <1>1, <1>8, <1>9, ListsEach
<1> QED BY <1>5, <1>10, <1>11, <1>12

\* What is only registered under a condition.
LEMMA ListsIf ==
  ASSUME NEW c, NEW s, NEW T, Lists(s, T)
  PROVE  Lists(IF c THEN s ELSE <<>>, IF c THEN T ELSE {})
BY ListsNone

\* The parts of a fresh name, and of one that has parts changed.
LEMMA NameParts ==
  ASSUME NEW op \in Ops, NEW label \in Words \X Words
  PROVE  LET n == Name(op, label)
         IN /\ n \in AnyName /\ n.op = op /\ n.label = label /\ n.dist = 0 /\ n.level = -1
            /\ n.strategy = "" /\ n.wbits = 0 /\ n.size = 0 /\ n.chunk = 0
BY NameIs DEF Name

\* Every type in its own table: deflate at every level, inflate twice.
LEMMA OfTypeAre ==
  ASSUME codec \in Codecs, NEW t \in AllTypes
  PROVE  Lists(OfType(t), TypeNames(codec, t))
<1> DEFINE d == Name("codec_deflate", <<"data", t>>)
           i == Name("codec_inflate", <<"data", t>>)
           D == {[d EXCEPT !.level = l] : l \in ToSet(codec.levels)}
           I == {[i EXCEPT !.size = z] : z \in IF codec.inflate THEN {0, 1} ELSE {}}
<1>1. /\ d \in AnyName /\ d.op = "codec_deflate"
      /\ i \in AnyName /\ i.op = "codec_inflate" /\ i.size = 0
  BY WordsAre, NameParts DEF Ops
<1>2. codec.levels \in Ladders(Int) /\ ToSet(codec.levels) \subseteq Int
  <2>1. codec.levels \in Ladders(Int)
    BY LaddersAre
  <2> QED BY <2>1, LadderIs
<1> HIDE DEF d, i
<1>3. Lists(AtLevels(d, codec.levels), D)
  BY <1>1, <1>2, ListsAtLevels
<1>4. Lists(<<i, [i EXCEPT !.size = 1]>>, {i, [i EXCEPT !.size = 1]})
  <2> DEFINE j == [i EXCEPT !.size = 1]
  <2>1. j \in AnyName /\ j.size = 1
    BY <1>1 DEF AnyName
  <2> HIDE DEF j
  <2>2. i # j
    BY <1>1, <2>1
  <2> QED BY <1>1, <2>1, <2>2, ListsTwo DEF j
<1>5. [i EXCEPT !.size = 0] = i
  BY <1>1 DEF AnyName
<1>6. I = IF codec.inflate THEN {i, [i EXCEPT !.size = 1]} ELSE {}
  BY <1>5
<1>7. Lists(IF codec.inflate THEN <<i, [i EXCEPT !.size = 1]>> ELSE <<>>, I)
  BY <1>4, <1>6, ListsIf
<1>8. D \cap I = {}
  <2>1. \A n \in D : n.op = "codec_deflate"
    BY <1>1, <1>2 DEF AnyName
  <2>2. \A n \in I : n.op = "codec_inflate"
    BY <1>1 DEF AnyName
  <2> HIDE DEF D, I
  <2> QED BY <2>1, <2>2
<1>9. /\ OfType(t) = AtLevels(d, codec.levels) \o
           (IF codec.inflate THEN <<i, [i EXCEPT !.size = 1]>> ELSE <<>>)
      /\ TypeNames(codec, t) = D \cup I
  BY DEF OfType, TypeNames, d, i
<1> HIDE DEF D, I
<1> QED BY <1>3, <1>7, <1>8, <1>9, ListsConcat

\* The "dist" ladders.
LEMMA OfDistAre ==
  ASSUME codec \in Codecs PROVE Lists(OfDist, DistNames(codec))
<1> DEFINE d == Name("codec_deflate", <<"data", "dist">>)
           i == Name("codec_inflate", <<"data", "dist">>)
           at(x) == [i EXCEPT !.dist = x]
           from(x) == [d EXCEPT !.dist = x]
           levels == Select(codec.levels, Int \ {0})
<1>1. /\ d \in AnyName /\ d.op = "codec_deflate"
      /\ i \in AnyName /\ i.op = "codec_inflate" /\ i.dist = 0
  BY WordsAre, TypesAre, NameParts DEF Ops
<1>2. /\ InflateDists \in Ladders(Int) /\ ToSet(InflateDists) \subseteq Int
      /\ DeflateDists \in Ladders(Int) /\ ToSet(DeflateDists) \subseteq Int
      /\ levels \in Ladders(Int) /\ ToSet(levels) = ToSet(codec.levels) \ {0}
  <2>1. /\ InflateDists \in Ladders(Int) /\ DeflateDists \in Ladders(Int)
        /\ codec.levels \in Ladders(Int) /\ ToSet(codec.levels) \subseteq Nat
    BY LaddersAre
  <2>2. levels \in Ladders(Int \cap (Int \ {0})) /\ ToSet(levels) = ToSet(codec.levels) \cap (Int \ {0})
    BY <2>1, SelectIs
  <2>3. levels \in Ladders(Int)
    BY <2>2 DEF Ladders
  <2> HIDE DEF levels
  <2> QED BY <2>1, <2>2, <2>3, LadderIs
<1> HIDE DEF d, i, levels
<1>3. \A x \in Int : /\ at(x) \in AnyName /\ at(x).op = "codec_inflate" /\ at(x).dist = x
                     /\ from(x) \in AnyName /\ from(x).op = "codec_deflate" /\ from(x).dist = x
  BY <1>1 DEF AnyName
<1> HIDE DEF at, from
<1>4. Lists(FlattenSeq([k \in 1..Len(InflateDists) |-> <<at(InflateDists[k])>>]),
            {at(x) : x \in ToSet(InflateDists)})
  <2> DEFINE f == [x \in ToSet(InflateDists) |-> at(x)]
  <2>1. /\ \A x \in ToSet(InflateDists) : f[x] \in AnyName
        /\ \A x, y \in ToSet(InflateDists) : f[x] = f[y] => x = y
    BY <1>2, <1>3
  <2>2. \A k \in 1..Len(InflateDists) : f[InflateDists[k]] = at(InflateDists[k])
    BY <1>2, LadderIs
  <2>3. {f[x] : x \in ToSet(InflateDists)} = {at(x) : x \in ToSet(InflateDists)}
    OBVIOUS
  <2> HIDE DEF f
  <2>4. Lists(FlattenSeq([k \in 1..Len(InflateDists) |-> <<f[InflateDists[k]]>>]),
              {f[x] : x \in ToSet(InflateDists)})
    BY <1>2, <2>1, OneEach
  <2>5. [k \in 1..Len(InflateDists) |-> <<f[InflateDists[k]]>>]
           = [k \in 1..Len(InflateDists) |-> <<at(InflateDists[k])>>]
    BY <2>2
  <2> QED BY <2>3, <2>4, <2>5
<1>5. Lists(FlattenSeq([k \in 1..Len(DeflateDists) |-> AtLevels(from(DeflateDists[k]), levels)]),
            UNION {{[from(x) EXCEPT !.level = l] : l \in ToSet(levels)} : x \in ToSet(DeflateDists)})
  <2> DEFINE G(x) == {[from(x) EXCEPT !.level = l] : l \in ToSet(levels)}
             g == [x \in ToSet(DeflateDists) |-> AtLevels(from(x), levels)]
             F == [x \in ToSet(DeflateDists) |-> G(x)]
  <2>1. \A x \in ToSet(DeflateDists) : Lists(AtLevels(from(x), levels), G(x))
    BY <1>2, <1>3, ListsAtLevels
  <2>2. \A x, y \in ToSet(DeflateDists) : x # y => G(x) \cap G(y) = {}
    <3>1. \A x \in Int, l \in Int : [from(x) EXCEPT !.level = l].dist = x
      BY <1>3 DEF AnyName
    <3>2. ToSet(levels) \subseteq Int
      BY <1>2, LadderIs
    <3>3. \A x \in ToSet(DeflateDists) : \A n \in G(x) : n.dist = x
      BY <1>2, <3>1, <3>2
    <3> HIDE DEF G
    <3> QED BY <3>3
  <2> HIDE DEF G
  <2>3. \A k \in 1..Len(DeflateDists) : g[DeflateDists[k]] = AtLevels(from(DeflateDists[k]), levels)
    BY <1>2, LadderIs
  <2>4. UNION {F[x] : x \in ToSet(DeflateDists)} = UNION {G(x) : x \in ToSet(DeflateDists)}
    OBVIOUS
  <2>5. \A x \in ToSet(DeflateDists) : Lists(g[x], F[x])
    BY <2>1
  <2>6. \A x, y \in ToSet(DeflateDists) : x # y => F[x] \cap F[y] = {}
    BY <2>2
  <2> HIDE DEF g, F
  <2>7. Lists(FlattenSeq([k \in 1..Len(DeflateDists) |-> g[DeflateDists[k]]]),
              UNION {F[x] : x \in ToSet(DeflateDists)})
    BY <1>2, <2>5, <2>6, ListsEach
  <2>8. [k \in 1..Len(DeflateDists) |-> g[DeflateDists[k]]]
          = [k \in 1..Len(DeflateDists) |-> AtLevels(from(DeflateDists[k]), levels)]
    BY <2>3
  <2> QED BY <2>4, <2>7, <2>8 DEF G
<1> DEFINE A == FlattenSeq([k \in 1..Len(InflateDists) |-> <<at(InflateDists[k])>>])
           B == FlattenSeq([k \in 1..Len(DeflateDists) |-> AtLevels(from(DeflateDists[k]), levels)])
           SA == {at(x) : x \in ToSet(InflateDists)}
           SB == UNION {{[from(x) EXCEPT !.level = l] : l \in ToSet(levels)} : x \in ToSet(DeflateDists)}
<1>6. SA \cap SB = {}
  <2>1. \A x \in Int, l \in Int : [from(x) EXCEPT !.level = l].op = "codec_deflate"
    BY <1>3 DEF AnyName
  <2>2. ToSet(levels) \subseteq Int
    BY <1>2, LadderIs
  <2>3. \A n \in SB : n.op = "codec_deflate"
    <3>1. \A x \in ToSet(DeflateDists), l \in ToSet(levels) : [from(x) EXCEPT !.level = l].op = "codec_deflate"
      BY <1>2, <2>1, <2>2
    <3> SUFFICES ASSUME NEW n \in SB PROVE n.op = "codec_deflate"
      OBVIOUS
    <3>2. PICK x \in ToSet(DeflateDists) : n \in {[from(x) EXCEPT !.level = l] : l \in ToSet(levels)}
      OBVIOUS
    <3>3. PICK l \in ToSet(levels) : n = [from(x) EXCEPT !.level = l]
      BY <3>2
    <3> QED BY <3>1, <3>3
  <2>4. \A n \in SA : n.op = "codec_inflate"
    BY <1>2, <1>3
  <2> HIDE DEF SA, SB
  <2> QED BY <2>3, <2>4
<1>7. OfDist = (IF codec.inflate THEN A ELSE <<>>) \o B
  BY DEF OfDist, ForEach, levels, at, from, d, i
<1>8. DistNames(codec) = (IF codec.inflate THEN SA ELSE {}) \cup SB
  <2>1. \A x, l : [[d EXCEPT !.dist = x] EXCEPT !.level = l] = [d EXCEPT !.dist = x, !.level = l]
    OBVIOUS
  <2>2. \A x \in ToSet(DeflateDists) :
          DistDeflates(codec, x) = {[from(x) EXCEPT !.level = l] : l \in ToSet(levels)}
    BY <1>2, <2>1 DEF DistDeflates, from, d
  <2>3. UNION {DistDeflates(codec, x) : x \in ToSet(DeflateDists)} = SB
    BY <2>2
  <2>4. {[Name("codec_inflate", <<"data", "dist">>) EXCEPT !.dist = x] :
           x \in IF codec.inflate THEN ToSet(InflateDists) ELSE {}} = (IF codec.inflate THEN SA ELSE {})
    BY DEF at, i
  <2> QED BY <2>3, <2>4 DEF DistNames
<1> HIDE DEF A, B, SA, SB
<1>9. Lists(IF codec.inflate THEN A ELSE <<>>, IF codec.inflate THEN SA ELSE {})
  BY <1>4, ListsIf DEF A, SA
<1>10. Lists(B, SB) /\ (IF codec.inflate THEN SA ELSE {}) \cap SB = {}
  BY <1>5, <1>6 DEF B, SB
<1> QED BY <1>7, <1>8, <1>9, <1>10, ListsConcat

\* The sweep over distances has a label of its own.
LEMMA DistNamesAre ==
  ASSUME NEW c PROVE \A n \in DistNames(c) : n.label = <<"data", "dist">>
<1> SUFFICES ASSUME NEW n \in DistNames(c) PROVE n.label = <<"data", "dist">>
  OBVIOUS
<1>1. CASE \E d : n = [Name("codec_inflate", <<"data", "dist">>) EXCEPT !.dist = d]
  BY <1>1 DEF Name
<1>2. CASE \E d : n \in DistDeflates(c, d)
  BY <1>2 DEF DistDeflates, Name
<1>3. (\E d : n = [Name("codec_inflate", <<"data", "dist">>) EXCEPT !.dist = d]) \/ \E d : n \in DistDeflates(c, d)
  BY DEF DistNames
<1> QED BY <1>1, <1>2, <1>3

\* What registering the selected types adds.
LEMMA SyntheticAre ==
  ASSUME codec \in Codecs, NEW m \in SUBSET AllTypes
  PROVE  Lists(codec_register_data_types(m), SyntheticNames(codec, m))
<1> DEFINE s == Select(types, m)
           f == [t \in ToSet(s) |-> OfType(t)]
           F == [t \in ToSet(s) |-> TypeNames(codec, t)]
           T == UNION {TypeNames(codec, t) : t \in ToSet(types) \cap m}
           D == IF "dist" \in m THEN DistNames(codec) ELSE {}
<1>1. s \in Ladders(AllTypes \cap m) /\ ToSet(s) = ToSet(types) \cap m
  BY TypesAre, SelectIs
<1> HIDE DEF s
<1>2. \A t \in ToSet(s) : Lists(f[t], F[t])
  BY <1>1, OfTypeAre
<1>3. \A c, t : \A n \in TypeNames(c, t) : n.label = <<"data", t>> /\ n.dist = 0
  BY DEF TypeNames, Name
<1>4. \A t, u \in ToSet(s) : t # u => F[t] \cap F[u] = {}
  BY <1>3
<1>5. \A k \in 1..Len(s) : f[s[k]] = OfType(s[k])
  BY <1>1, LadderIs
<1>6. UNION {F[t] : t \in ToSet(s)} = T
  BY <1>1
<1>7. Lists(IF "dist" \in m THEN OfDist ELSE <<>>, D)
  BY OfDistAre, ListsIf
<1>8. T \cap D = {}
  <2>1. \A n \in T : n.label # <<"data", "dist">>
    <3> SUFFICES ASSUME NEW n \in T PROVE n.label # <<"data", "dist">>
      OBVIOUS
    <3>1. PICK t \in ToSet(types) : n \in TypeNames(codec, t)
      OBVIOUS
    <3>2. t # "dist"
      BY TypesAre
    <3>3. n.label[2] # "dist"
      BY <1>3, <3>1, <3>2
    <3> HIDE DEF T
    <3> QED BY <3>3
  <2>2. \A n \in D : n.label = <<"data", "dist">>
    BY DistNamesAre
  <2> HIDE DEF T, D
  <2> QED BY <2>1, <2>2
<1> HIDE DEF f, F, T, D
<1>9. [k \in 1..Len(s) |-> f[s[k]]] = [k \in 1..Len(s) |-> OfType(s[k])]
  BY <1>5
<1>10. Lists(FlattenSeq([k \in 1..Len(s) |-> f[s[k]]]), UNION {F[t] : t \in ToSet(s)})
  BY <1>1, <1>2, <1>4, ListsEach
<1>11. Lists(FlattenSeq([k \in 1..Len(s) |-> OfType(s[k])]), T)
  BY <1>6, <1>9, <1>10
<1>12. codec_register_data_types(m)
         = FlattenSeq([k \in 1..Len(s) |-> OfType(s[k])]) \o (IF "dist" \in m THEN OfDist ELSE <<>>)
  BY DEF codec_register_data_types, ForEach, s
<1>13. SyntheticNames(codec, m) = T \cup D
  BY Zenon DEF SyntheticNames, T, D
<1> QED BY <1>7, <1>8, <1>11, <1>12, <1>13, ListsConcat

\* The levels a strategy walks.
LEMMA StrategyLevelsAre == ASSUME NEW s PROVE StrategyLevels(s) \in Ladders(Int)
<1>1. [l \in 1..9 |-> l] \in Ladders(Int)
  <2>1. [l \in 1..9 |-> l] \in Seq(Int)
    OBVIOUS
  <2> QED BY <2>1 DEF Ladders, IsInjective
<1>2. <<7, 9>> \in Ladders(Int)
  BY DEF Ladders, IsInjective
<1>3. <<1, 6, 9>> \in Ladders(Int)
  BY DEF Ladders, IsInjective
<1> QED BY <1>1, <1>2, <1>3 DEF StrategyLevels

\* The benchmarks of one corpus file, each once.
LEMMA OfFileAre ==
  ASSUME codec \in Codecs, NEW cf \in Words \X Words
  PROVE  Lists(OfFile(cf), FileNames(codec, cf))
<1> DEFINE d == Name("codec_deflate", cf)
           i == Name("codec_inflate", cf)
           by(s) == [d EXCEPT !.strategy = s]
           window(w) == [d EXCEPT !.level = 6, !.wbits = w]
           in(k) == [i EXCEPT !.chunk = k]
           s1 == AtLevels(d, codec.levels)
           s2 == FlattenSeq([k \in 1..Len(codec.strategies) |->
                   AtLevels(by(codec.strategies[k]), StrategyLevels(codec.strategies[k]))])
           s3 == FlattenSeq([k \in 1..Len(codec.wbits) |-> <<window(codec.wbits[k])>>])
           s4 == IF codec.inflate THEN <<i>> ELSE <<>>
           s5 == FlattenSeq([k \in 1..Len(Chunks) |-> <<in(Chunks[k])>>])
           s6 == IF codec.inflate /\ codec.chunked THEN s5 ELSE <<>>
           S1 == {[d EXCEPT !.level = l] : l \in ToSet(codec.levels)}
           S2 == UNION {StrategyNames(cf, s) : s \in ToSet(codec.strategies)}
           S3 == {window(w) : w \in ToSet(codec.wbits)}
           S4 == IF codec.inflate THEN {i} ELSE {}
           S5 == {in(k) : k \in ToSet(Chunks)}
           S6 == IF codec.inflate /\ codec.chunked THEN S5 ELSE {}
<1>1. /\ d \in AnyName /\ d.op = "codec_deflate" /\ d.strategy = "" /\ d.wbits = 0
      /\ i \in AnyName /\ i.op = "codec_inflate" /\ i.chunk = 0
  BY NameParts DEF Ops
<1>2. /\ codec.levels \in Ladders(Int) /\ ToSet(codec.levels) \subseteq Int
      /\ codec.wbits \in Ladders(Int) /\ ToSet(codec.wbits) \subseteq Int \ {0}
      /\ Chunks \in Ladders(Int) /\ ToSet(Chunks) \subseteq Int \ {0}
      /\ codec.strategies \in Ladders(Strategies \ {""})
      /\ ToSet(codec.strategies) \subseteq Strategies \ {""}
  <2>1. /\ codec.levels \in Ladders(Int) /\ codec.wbits \in Ladders(Int)
        /\ Chunks \in Ladders(Int) /\ codec.strategies \in Ladders(Strategies \ {""})
        /\ 0 \notin ToSet(Chunks) /\ 0 \notin ToSet(codec.wbits)
    BY LaddersAre
  <2>2. /\ ToSet(codec.levels) \subseteq Int /\ ToSet(codec.wbits) \subseteq Int
        /\ ToSet(Chunks) \subseteq Int /\ ToSet(codec.strategies) \subseteq Strategies \ {""}
    BY <2>1, LadderIs
  <2> QED BY <2>1, <2>2
<1>3. OfFile(cf) = s1 \o s2 \o s3 \o s4 \o s6
  BY DEF OfFile, ForEach
<1>4. FileNames(codec, cf) = S1 \cup S2 \cup S3 \cup S4 \cup S6
  BY DEF FileNames
<1>5. \A s : StrategyNames(cf, s) = {[by(s) EXCEPT !.level = l] : l \in ToSet(StrategyLevels(s))}
  <2>1. \A s, l : [[d EXCEPT !.strategy = s] EXCEPT !.level = l] = [d EXCEPT !.strategy = s, !.level = l]
    OBVIOUS
  <2> QED BY <2>1 DEF StrategyNames
<1> HIDE DEF d, i
<1>6. \A s \in Strategies : by(s) \in AnyName /\ by(s).op = "codec_deflate" /\ by(s).strategy = s
  BY <1>1 DEF AnyName
<1>7. \A w \in Int : /\ window(w) \in AnyName /\ window(w).op = "codec_deflate"
                     /\ window(w).strategy = "" /\ window(w).wbits = w
  <2> SUFFICES ASSUME NEW w \in Int
               PROVE  /\ window(w) \in AnyName /\ window(w).op = "codec_deflate"
                      /\ window(w).strategy = "" /\ window(w).wbits = w
    OBVIOUS
  <2>1. 6 \in Int
    OBVIOUS
  <2>2. window(w) \in AnyName /\ window(w).wbits = w
    BY <1>1, <2>1 DEF AnyName
  <2>3. window(w).op = d.op /\ window(w).strategy = d.strategy
    BY <1>1 DEF AnyName
  <2> QED BY <1>1, <2>2, <2>3
<1>8. \A k \in Int : in(k) \in AnyName /\ in(k).op = "codec_inflate" /\ in(k).chunk = k
  BY <1>1 DEF AnyName
<1>9. \A n \in S1 : n.op = "codec_deflate" /\ n.strategy = "" /\ n.wbits = 0
  BY <1>1, <1>2 DEF AnyName
<1> HIDE DEF by, window, in
<1>10. \A s \in ToSet(codec.strategies) : \A n \in StrategyNames(cf, s) :
         n.op = "codec_deflate" /\ n.strategy = s
  <2> SUFFICES ASSUME NEW s \in ToSet(codec.strategies), NEW n \in StrategyNames(cf, s)
               PROVE  n.op = "codec_deflate" /\ n.strategy = s
    OBVIOUS
  <2>1. ToSet(StrategyLevels(s)) \subseteq Int
    BY StrategyLevelsAre, LadderIs
  <2>2. PICK l \in Int : n = [by(s) EXCEPT !.level = l]
    BY <1>5, <2>1
  <2>3. by(s) \in AnyName /\ by(s).op = "codec_deflate" /\ by(s).strategy = s
    BY <1>2, <1>6
  <2> QED BY <2>2, <2>3 DEF AnyName
<1>11. Lists(s1, S1)
  BY <1>1, <1>2, ListsAtLevels
<1>12. Lists(s2, S2)
  <2> DEFINE s == codec.strategies
             f == [x \in ToSet(s) |-> AtLevels(by(x), StrategyLevels(x))]
             F == [x \in ToSet(s) |-> StrategyNames(cf, x)]
  <2>0. s \in Ladders(Strategies \ {""}) /\ ToSet(s) \subseteq Strategies
    BY <1>2
  <2>1. \A x \in ToSet(s) : Lists(AtLevels(by(x), StrategyLevels(x)), StrategyNames(cf, x))
    <3> SUFFICES ASSUME NEW x \in ToSet(s)
                 PROVE  Lists(AtLevels(by(x), StrategyLevels(x)), StrategyNames(cf, x))
      OBVIOUS
    <3>1. by(x) \in AnyName
      BY <1>6, <2>0
    <3> QED BY <1>5, <3>1, StrategyLevelsAre, ListsAtLevels
  <2>2. \A x \in ToSet(s) : Lists(f[x], F[x])
    BY <2>1
  <2>3. \A x, y \in ToSet(s) : x # y => F[x] \cap F[y] = {}
    BY <1>10
  <2>4. UNION {F[x] : x \in ToSet(s)} = S2
    OBVIOUS
  <2>5. s2 = FlattenSeq([k \in 1..Len(s) |-> AtLevels(by(s[k]), StrategyLevels(s[k]))])
    OBVIOUS
  <2> HIDE DEF s, F, s2, S2
  <2>6. \A k \in 1..Len(s) : f[s[k]] = AtLevels(by(s[k]), StrategyLevels(s[k]))
    BY <2>0, LadderIs
  <2> HIDE DEF f
  <2>7. [k \in 1..Len(s) |-> f[s[k]]] = [k \in 1..Len(s) |-> AtLevels(by(s[k]), StrategyLevels(s[k]))]
    BY <2>6
  <2>8. Lists(FlattenSeq([k \in 1..Len(s) |-> f[s[k]]]), UNION {F[x] : x \in ToSet(s)})
    <3> DEFINE T == Strategies \ {""}
    <3>1. s \in Ladders(T)
      BY <2>0
    <3> HIDE DEF T
    <3> QED BY <2>2, <2>3, <3>1, ListsEach
  <2> QED BY <2>4, <2>5, <2>7, <2>8
<1>13. Lists(s3, S3)
  <2> DEFINE s == codec.wbits
             f == [x \in ToSet(s) |-> window(x)]
  <2>0. s \in Ladders(Int) /\ ToSet(s) \subseteq Int
    BY <1>2
  <2>1. s3 = FlattenSeq([k \in 1..Len(s) |-> <<window(s[k])>>]) /\ S3 = {f[x] : x \in ToSet(s)}
    OBVIOUS
  <2> HIDE DEF s, s3, S3
  <2>2. (\A x \in ToSet(s) : f[x] \in AnyName) /\ \A x, y \in ToSet(s) : f[x] = f[y] => x = y
    <3>1. \A x \in ToSet(s) : f[x] = window(x) /\ window(x) \in AnyName /\ window(x).wbits = x
      BY <1>7, <2>0
    <3> HIDE DEF f
    <3> QED BY <3>1
  <2>3. \A k \in 1..Len(s) : f[s[k]] = window(s[k])
    BY <2>0, LadderIs
  <2> HIDE DEF f
  <2>4. [k \in 1..Len(s) |-> <<f[s[k]]>>] = [k \in 1..Len(s) |-> <<window(s[k])>>]
    BY <2>3
  <2>5. Lists(FlattenSeq([k \in 1..Len(s) |-> <<f[s[k]]>>]), {f[x] : x \in ToSet(s)})
    BY <2>0, <2>2, OneEach
  <2> QED BY <2>1, <2>4, <2>5
<1>14. Lists(s4, S4)
  BY <1>1, ListsOne, ListsIf
<1>15. Lists(s5, S5)
  <2> DEFINE f == [x \in ToSet(Chunks) |-> in(x)]
  <2>1. (\A x \in ToSet(Chunks) : f[x] \in AnyName) /\ \A x, y \in ToSet(Chunks) : f[x] = f[y] => x = y
    <3>1. \A x \in ToSet(Chunks) : f[x] = in(x) /\ in(x) \in AnyName /\ in(x).chunk = x
      BY <1>2, <1>8
    <3> HIDE DEF f
    <3> QED BY <3>1
  <2>2. \A k \in 1..Len(Chunks) : f[Chunks[k]] = in(Chunks[k])
    BY <1>2, LadderIs
  <2>3. {f[x] : x \in ToSet(Chunks)} = S5
    OBVIOUS
  <2> HIDE DEF f
  <2>4. [k \in 1..Len(Chunks) |-> <<f[Chunks[k]]>>] = [k \in 1..Len(Chunks) |-> <<in(Chunks[k])>>]
    BY <2>2
  <2>5. Lists(FlattenSeq([k \in 1..Len(Chunks) |-> <<f[Chunks[k]]>>]), {f[x] : x \in ToSet(Chunks)})
    BY <1>2, <2>1, OneEach
  <2> QED BY <2>3, <2>4, <2>5
<1>16. Lists(s6, S6)
  BY <1>15, ListsIf
<1>17. \A n \in S2 : n.op = "codec_deflate" /\ n.strategy # ""
  <2> SUFFICES ASSUME NEW n \in S2 PROVE n.op = "codec_deflate" /\ n.strategy # ""
    OBVIOUS
  <2>1. PICK s \in ToSet(codec.strategies) : n \in StrategyNames(cf, s)
    OBVIOUS
  <2>2. s # ""
    BY <1>2
  <2> QED BY <1>10, <2>1, <2>2
<1>18. \A n \in S3 : n.op = "codec_deflate" /\ n.strategy = "" /\ n.wbits # 0
  <2> SUFFICES ASSUME NEW n \in S3 PROVE n.op = "codec_deflate" /\ n.strategy = "" /\ n.wbits # 0
    OBVIOUS
  <2>1. PICK w \in ToSet(codec.wbits) : n = window(w)
    OBVIOUS
  <2>2. w \in Int /\ w # 0
    BY <1>2
  <2> QED BY <1>7, <2>1, <2>2
<1>19. \A n \in S4 : n.op = "codec_inflate" /\ n.chunk = 0
  BY <1>1
<1>20. \A n \in S6 : n.op = "codec_inflate" /\ n.chunk # 0
  <2>1. \A k \in ToSet(Chunks) : k \in Int /\ k # 0
    BY <1>2
  <2>2. \A n \in S5 : n.op = "codec_inflate" /\ n.chunk # 0
    BY <1>8, <2>1
  <2> HIDE DEF S5
  <2> QED BY <2>2
<1> HIDE DEF s1, s2, s3, s4, s5, s6, S1, S2, S3, S4, S5, S6
<1>21. Lists(s1 \o s2, S1 \cup S2)
  <2>1. S1 \cap S2 = {}
    BY <1>9, <1>17
  <2> QED BY <1>11, <1>12, <2>1, ListsConcat
<1>22. Lists(s1 \o s2 \o s3, S1 \cup S2 \cup S3)
  <2>1. (S1 \cup S2) \cap S3 = {}
    BY <1>9, <1>17, <1>18
  <2> QED BY <1>13, <1>21, <2>1, ListsConcat
<1>23. Lists(s1 \o s2 \o s3 \o s4, S1 \cup S2 \cup S3 \cup S4)
  <2>1. (S1 \cup S2 \cup S3) \cap S4 = {}
    BY <1>9, <1>17, <1>18, <1>19
  <2> QED BY <1>14, <1>22, <2>1, ListsConcat
<1>24. (S1 \cup S2 \cup S3 \cup S4) \cap S6 = {}
  BY <1>9, <1>17, <1>18, <1>19, <1>20
<1> QED BY <1>3, <1>4, <1>16, <1>23, <1>24, ListsConcat

\* What is registered for a corpus file is labelled with it.
LEMMA FileNamesAre ==
  ASSUME NEW c, NEW cf PROVE \A n \in FileNames(c, cf) : n.label = cf
<1>1. \A s : \A n \in StrategyNames(cf, s) : n.label = cf
  BY DEF StrategyNames, Name
<1>2. \A o, l : [Name(o, cf) EXCEPT !.level = l].label = cf /\ [Name(o, cf) EXCEPT !.chunk = l].label = cf
  BY DEF Name
<1>3. \A o, w : [Name(o, cf) EXCEPT !.level = 6, !.wbits = w].label = cf /\ Name(o, cf).label = cf
  BY DEF Name
<1> SUFFICES ASSUME NEW n \in FileNames(c, cf) PROVE n.label = cf
  OBVIOUS
<1>4. \/ \E l : n = [Name("codec_deflate", cf) EXCEPT !.level = l]
      \/ \E s : n \in StrategyNames(cf, s)
      \/ \E w : n = [Name("codec_deflate", cf) EXCEPT !.level = 6, !.wbits = w]
      \/ n = Name("codec_inflate", cf)
      \/ \E k : n = [Name("codec_inflate", cf) EXCEPT !.chunk = k]
  BY DEF FileNames
<1> QED BY <1>1, <1>2, <1>3, <1>4

\* What is to be found below CORPORA_DIR.
Files(t) ==
  {q \in (ToSet(Dirs) \ Hidden) \X (ToSet(Names) \ Hidden) :
     t.dir[q[1]] = "dir" /\ t.file[q[1], q[2]] = "regular"}

\* discover_corpora finds what is there and not hidden, each file once.
LEMMA DiscoverIs ==
  /\ discover_corpora \in Ladders(ToSet(Dirs) \X ToSet(Names))
  /\ ToSet(discover_corpora) = Files(tree)
<1> DEFINE X == ToSet(Dirs) \X ToSet(Names)
           D == {d \in ToSet(Dirs) \ Hidden : tree.dir[d] = "dir"}
           N(d) == {n \in ToSet(Names) \ Hidden : tree.file[d, n] = "regular"}
           s == Select(Dirs, D)
           f == [d \in ToSet(s) |-> list_files(d)]
           F == [d \in ToSet(s) |-> {<<d, n>> : n \in N(d)}]
<1> DEFINE S == STRING \ {""}
<1>0. Dirs \in Ladders(S) /\ Names \in Ladders(S)
  BY NamesAssumption
<1> HIDE DEF S
<1>1. s \in Ladders(S \cap D) /\ ToSet(s) = D
  BY <1>0, SelectIs
<1> HIDE DEF s
<1>2. ASSUME NEW d \in ToSet(Dirs)
      PROVE  list_files(d) \in Ladders(X) /\ ToSet(list_files(d)) = {<<d, n>> : n \in N(d)}
  <2> DEFINE P == N(d)
             g == Select(Names, P)
             r == [i \in 1..Len(g) |-> <<d, g[i]>>]
  <2>0. P \subseteq ToSet(Names) /\ list_files(d) = r
    BY DEF list_files
  <2> HIDE DEF P
  <2>8. g \in Ladders(S \cap P) /\ ToSet(g) = ToSet(Names) \cap P
    BY <1>0, SelectIs
  <2>1. g \in Ladders(S \cap P) /\ ToSet(g) = P
    <3> HIDE DEF g
    <3> QED BY <2>0, <2>8
  <2> DEFINE T == S \cap P
  <2>2. g \in Ladders(T)
    BY <2>1
  <2> HIDE DEF g, T
  <2>3. /\ Len(g) \in Nat /\ IsInjective(g) /\ DOMAIN g = 1..Len(g) /\ P = {g[i] : i \in 1..Len(g)}
        /\ \A i \in 1..Len(g) : g[i] \in P
    BY <2>1, <2>2, LadderIs
  <2>4. \A i \in 1..Len(g) : <<d, g[i]>> \in X
    BY <2>0, <2>3
  <2>5. r \in Seq(X)
    <3> HIDE DEF X
    <3> QED BY <2>3, <2>4
  <2>6. IsInjective(r)
    BY <2>3 DEF IsInjective
  <2>7. ToSet(r) = {<<d, n>> : n \in P}
    <3>1. ToSet(r) = {<<d, g[i]>> : i \in 1..Len(g)}
      BY Zenon DEF ToSet
    <3> QED BY <2>3, <3>1
  <2> HIDE DEF r
  <2> QED BY <2>0, <2>5, <2>6, <2>7 DEF Ladders, P
<1>3. \A d \in ToSet(s) : f[d] \in Ladders(X) /\ ToSet(f[d]) = F[d]
  BY <1>1, <1>2
<1>4. \A d, e \in ToSet(s) : d # e => F[d] \cap F[e] = {}
  <2>1. ASSUME NEW d \in ToSet(s), NEW q \in F[d] PROVE q[1] = d
    <3>1. F[d] = {<<d, n>> : n \in N(d)}
      OBVIOUS
    <3>2. PICK n : q = <<d, n>>
      BY <3>1
    <3> QED BY <3>2
  <2> HIDE DEF F
  <2> QED BY <2>1
<1>5. \A k \in 1..Len(s) : f[s[k]] = list_files(s[k])
  BY <1>1, LadderIs
<1>6. UNION {F[d] : d \in ToSet(s)} = Files(tree)
  <2>1. UNION {F[d] : d \in ToSet(s)} \subseteq Files(tree)
    <3>2. \A d \in D : F[d] = {<<d, n>> : n \in N(d)}
      BY <1>1
    <3> HIDE DEF F, D, N
    <3> SUFFICES ASSUME NEW q \in UNION {F[d] : d \in ToSet(s)} PROVE q \in Files(tree)
      OBVIOUS
    <3>3. PICK d \in ToSet(s) : q \in F[d]
      OBVIOUS
    <3>4. PICK n \in N(d) : q = <<d, n>>
      BY <1>1, <3>2, <3>3
    <3>1. d \in ToSet(Dirs) \ Hidden /\ tree.dir[d] = "dir" /\ n \in ToSet(Names) \ Hidden
          /\ tree.file[d, n] = "regular"
      BY <1>1 DEF D, N
    <3>5. q \in (ToSet(Dirs) \ Hidden) \X (ToSet(Names) \ Hidden) /\ q[1] = d /\ q[2] = n
      BY <3>1, <3>4
    <3> QED BY <3>1, <3>5, Zenon DEF Files
  <2>2. ASSUME NEW q \in Files(tree) PROVE q \in UNION {F[d] : d \in ToSet(s)}
    <3>1. q[1] \in D /\ q[2] \in N(q[1]) /\ q = <<q[1], q[2]>>
      <4>1. PICK d \in ToSet(Dirs) \ Hidden, n \in ToSet(Names) \ Hidden : q = <<d, n>>
        <5>1. q \in (ToSet(Dirs) \ Hidden) \X (ToSet(Names) \ Hidden)
          BY Zenon DEF Files
        <5> QED BY <5>1
      <4>2. q[1] = d /\ q[2] = n
        BY <4>1
      <4>3. tree.dir[q[1]] = "dir" /\ tree.file[q[1], q[2]] = "regular"
        BY DEF Files
      <4> QED BY <4>1, <4>2, <4>3
    <3>2. q \in F[q[1]] /\ q[1] \in ToSet(s)
      BY <1>1, <3>1
    <3> QED BY <3>2
  <2> QED BY <2>1, <2>2
<1> HIDE DEF f, F, X
<1>7. [k \in 1..Len(s) |-> f[s[k]]] = [k \in 1..Len(s) |-> list_files(s[k])]
  BY <1>5
<1>8. LET r == FlattenSeq([k \in 1..Len(s) |-> f[s[k]]])
      IN r \in Ladders(X) /\ ToSet(r) = UNION {F[d] : d \in ToSet(s)}
  <2> DEFINE T == S \cap D
  <2>1. s \in Ladders(T)
    BY <1>1
  <2> HIDE DEF T
  <2> QED BY <1>3, <1>4, <2>1, EachRung
<1>9. discover_corpora = FlattenSeq([k \in 1..Len(s) |-> list_files(s[k])])
  BY DEF discover_corpora, ForEach, list_subdirs, s
<1> QED BY <1>6, <1>7, <1>8, <1>9 DEF X

\* The benchmarks of the files, each once.
LEMMA EveryFileAre ==
  ASSUME codec \in Codecs, NEW s \in Ladders(ToSet(Dirs) \X ToSet(Names))
  PROVE  Lists(ForEach(s, OfFile), UNION {FileNames(codec, cf) : cf \in ToSet(s)})
<1> DEFINE f == [cf \in ToSet(s) |-> OfFile(cf)]
           F == [cf \in ToSet(s) |-> FileNames(codec, cf)]
<1>1. \A cf \in ToSet(s) : Lists(f[cf], F[cf])
  <2>1. ToSet(s) \subseteq Words \X Words
    <3> DEFINE T == ToSet(Dirs) \X ToSet(Names)
    <3>1. s \in Ladders(T) /\ T \subseteq Words \X Words
      BY WordsAre
    <3> HIDE DEF T
    <3> QED BY <3>1, LadderIs
  <2> QED BY <2>1, OfFileAre
<1>2. \A x, y \in ToSet(s) : x # y => F[x] \cap F[y] = {}
  BY FileNamesAre
<1>3. \A k \in 1..Len(s) : f[s[k]] = OfFile(s[k])
  BY LadderIs
<1>4. UNION {F[cf] : cf \in ToSet(s)} = UNION {FileNames(codec, cf) : cf \in ToSet(s)}
  OBVIOUS
<1> HIDE DEF f, F
<1>5. [k \in 1..Len(s) |-> f[s[k]]] = [k \in 1..Len(s) |-> OfFile(s[k])]
  BY <1>3
<1>6. Lists(FlattenSeq([k \in 1..Len(s) |-> f[s[k]]]), UNION {F[x] : x \in ToSet(s)})
  BY <1>1, <1>2, ListsEach
<1> QED BY <1>4, <1>5, <1>6 DEF ForEach

\* With one hook the types are registered once.
LEMMA HookIs ==
  ASSUME codec \in Codecs, NEW m \in SUBSET AllTypes
  PROVE  ForEach([i \in 1..1 |-> m], codec_register_data_types) = codec_register_data_types(m)
<1> DEFINE r == codec_register_data_types(m)
           s == [i \in 1..1 |-> m]
<1>1. Len(s) = 1 /\ s[1] = m
  OBVIOUS
<1>2. ForEach(s, codec_register_data_types) = FlattenSeq([i \in 1..1 |-> r])
  <2>1. [i \in 1..Len(s) |-> codec_register_data_types(s[i])] = [i \in 1..1 |-> r]
    BY <1>1
  <2> QED BY <2>1 DEF ForEach
<1>3. r \in Seq(AnyName)
  BY SyntheticAre DEF Lists, Ladders
<1> HIDE DEF r
<1>4. [i \in 1..1 |-> r] = <<r>>
  OBVIOUS
<1> QED BY <1>2, <1>3, <1>4, FlattenOne DEF r

----------------------------------------------------------------------------
(* The inductive invariant of registration. *)

\* What is found, where the hook stands, and how far the option is read.
Found ==
  /\ corpora_files \in Ladders(ToSet(Dirs) \X ToSet(Names))
  /\ ToSet(corpora_files) =
       IF pc \in {"checksum_init", "codec_data_types", "codec_init"} THEN {} ELSE Files(tree)

Hooked == hooks = IF pc \in {"checksum_init", "codec_data_types"} THEN 0 ELSE 1

Parsed ==
  /\ pc \in {"checksum_init", "codec_data_types", "codec_init", "main"} => p = 1
  /\ pc = "parse" =>
       /\ list \in Seq(STRING) /\ list # <<>> /\ list \notin {NULL, <<"">>, <<"all">>}
       /\ p \in 1..(Len(list) + 1)
       /\ mask = {list[i] : i \in 1..(p - 1)} /\ mask \subseteq AllTypes
  /\ pc = "register" =>
       \/ mask = Asked /\ Asked \subseteq AllTypes /\ Asked # {}
       \/ mask = {} /\ ~(Asked \subseteq AllTypes)
  /\ pc = "run" => mask = Asked /\ Asked \subseteq AllTypes
  /\ pc = "EXIT_FAILURE" => ~(Asked \subseteq AllTypes)

\* The benchmarks that are registered at this point.
AllNames ==
  (IF pc = "checksum_init" THEN {} ELSE ChecksumNames(codec))
    \cup (UNION {FileNames(codec, cf) : cf \in ToSet(corpora_files)})
    \cup (IF pc = "run" THEN SyntheticNames(codec, mask) ELSE {})

Registered ==
  /\ registered \in Seq(AnyName) /\ ToSet(registered) = AllNames
  /\ NoDataCorpus => IsInjective(registered)

RegInv ==
  /\ pc \in {"checksum_init", "codec_data_types", "codec_init", "main", "parse",
             "register", "run", "EXIT_FAILURE"}
  /\ codec \in Codecs /\ tree \in Trees
  /\ Found /\ Hooked /\ Parsed /\ Registered

\* A sequence that is not empty, its last element and the others.
LEMMA FrontIs ==
  ASSUME NEW S, NEW s \in Seq(S), s # <<>>
  PROVE  /\ Len(s) \in Nat \ {0} /\ DOMAIN s = 1..Len(s)
         /\ Last(s) = s[Len(s)] /\ ToSet(s) = {s[i] : i \in 1..Len(s)}
         /\ ToSet(Front(s)) = {s[i] : i \in 1..(Len(s) - 1)}
<1>1. Len(s) \in Nat \ {0} /\ DOMAIN s = 1..Len(s)
  OBVIOUS
<1>2. Last(s) = s[Len(s)] /\ Front(s) = SubSeq(s, 1, Len(s) - 1)
  BY DEF Last, Front
<1>3. ToSet(s) = {s[i] : i \in 1..Len(s)}
  BY <1>1, Zenon DEF ToSet
<1>4. ToSet(SubSeq(s, 1, Len(s) - 1)) = {s[i] : i \in 1..(Len(s) - 1)}
  <2> DEFINE r == SubSeq(s, 1, Len(s) - 1)
  <2>1. DOMAIN r = 1..(Len(s) - 1) /\ \A i \in 1..(Len(s) - 1) : r[i] = s[i]
    BY <1>1
  <2> HIDE DEF r
  <2>2. ToSet(r) = {r[i] : i \in 1..(Len(s) - 1)}
    BY <2>1, Zenon DEF ToSet
  <2>3. {r[i] : i \in 1..(Len(s) - 1)} = {s[i] : i \in 1..(Len(s) - 1)}
    BY <2>1
  <2> QED BY <2>2, <2>3 DEF r
<1> QED BY <1>1, <1>2, <1>3, <1>4

\* A list asks for its names, without the empty one a last comma leaves.
LEMMA AskedIs ==
  ASSUME list \in Seq(STRING), list # <<>>, list \notin {NULL, <<"">>, <<"all">>}
  PROVE  LET n == IF list[Len(list)] = "" THEN Len(list) - 1 ELSE Len(list)
         IN Asked = {list[i] : i \in 1..n}
<1>1. Asked = ToSet(IF Last(list) = "" THEN Front(list) ELSE list)
  BY DEF Asked
<1>2. /\ Last(list) = list[Len(list)] /\ ToSet(list) = {list[i] : i \in 1..Len(list)}
      /\ ToSet(Front(list)) = {list[i] : i \in 1..(Len(list) - 1)}
  BY FrontIs
<1> QED BY <1>1, <1>2

\* Before static initialisation nothing is found, hooked or registered.
LEMMA InitRegInv == Init => RegInv
<1> SUFFICES ASSUME Init PROVE RegInv
  OBVIOUS
<1>1. <<>> \in Ladders(ToSet(Dirs) \X ToSet(Names)) /\ ToSet(<<>>) = {} /\ IsInjective(<<>>)
  BY DEF Ladders, IsInjective, ToSet
<1>2. <<>> \in Seq(AnyName)
  OBVIOUS
<1>3. pc = "checksum_init" /\ codec \in Codecs /\ tree \in Trees /\ hooks = 0
      /\ corpora_files = <<>> /\ registered = <<>> /\ p = 1
  BY DEF Init
<1>4. AllNames = {}
  BY <1>1, <1>3 DEF AllNames
<1> QED BY <1>1, <1>2, <1>3, <1>4 DEF RegInv, Found, Hooked, Parsed, Registered

\* Where registered does not change, what it has stays.
LEMMA RegisteredStays ==
  ASSUME Registered, UNCHANGED <<codec, corpora_files, registered>>,
         pc # "checksum_init", pc # "run", pc' # "checksum_init", pc' # "run"
  PROVE  Registered'
<1>1. AllNames' = AllNames
  BY DEF AllNames
<1>2. NoDataCorpus' = NoDataCorpus
  BY DEF NoDataCorpus
<1> QED BY <1>1, <1>2 DEF Registered

\* Names of a part that is not there yet come behind the others.
LEMMA RegisteredGrows ==
  ASSUME Registered, NEW s, NEW T, Lists(s, T), registered' = registered \o s,
         AllNames' = AllNames \cup T, NoDataCorpus' => NoDataCorpus /\ AllNames \cap T = {}
  PROVE  Registered'
<1>1. s \in Seq(AnyName) /\ IsInjective(s) /\ ToSet(s) = T
  BY DEF Lists, Ladders
<1>2. registered' \in Seq(AnyName) /\ ToSet(registered)' = AllNames'
  BY <1>1, ToSetConcat DEF Registered
<1>3. ASSUME NoDataCorpus' PROVE IsInjective(registered)'
  <2>1. IsInjective(registered \o s)
    BY <1>1, <1>3, InjectiveConcat DEF Registered
  <2> QED BY <2>1
<1> QED BY <1>2, <1>3 DEF Registered

\* No corpus file has a name of a checksum, and none of a data type unless its
\* corpus is called "data".
LEMMA NamesApart ==
  /\ \A c : \A n \in ChecksumNames(c) : n.op \in {"codec_crc32", "codec_adler32"} /\ n.label = NoCorpus
  /\ \A c, cf : \A n \in FileNames(c, cf) : n.op \in {"codec_deflate", "codec_inflate"} /\ n.label = cf
  /\ \A c, m : \A n \in SyntheticNames(c, m) :
       n.op \in {"codec_deflate", "codec_inflate"} /\ n.label[1] = "data"
<1>1. \A c : \A n \in ChecksumNames(c) : n.op \in {"codec_crc32", "codec_adler32"} /\ n.label = NoCorpus
  BY DEF ChecksumNames, Name
<1>2. \A c, cf, s : \A n \in StrategyNames(cf, s) : n.op = "codec_deflate"
  BY DEF StrategyNames, Name
<1>3. ASSUME NEW c, NEW cf, NEW n \in FileNames(c, cf) PROVE n.op \in {"codec_deflate", "codec_inflate"}
  <2>1. \/ \E l : n = [Name("codec_deflate", cf) EXCEPT !.level = l]
        \/ \E s : n \in StrategyNames(cf, s)
        \/ \E w : n = [Name("codec_deflate", cf) EXCEPT !.level = 6, !.wbits = w]
        \/ n = Name("codec_inflate", cf)
        \/ \E k : n = [Name("codec_inflate", cf) EXCEPT !.chunk = k]
    BY DEF FileNames
  <2>2. CASE \E l : n = [Name("codec_deflate", cf) EXCEPT !.level = l]
    BY <2>2 DEF Name
  <2>3. CASE \E s : n \in StrategyNames(cf, s)
    BY <1>2, <2>3
  <2>4. CASE \E w : n = [Name("codec_deflate", cf) EXCEPT !.level = 6, !.wbits = w]
    BY <2>4 DEF Name
  <2>5. CASE n = Name("codec_inflate", cf)
    BY <2>5 DEF Name
  <2>6. CASE \E k : n = [Name("codec_inflate", cf) EXCEPT !.chunk = k]
    BY <2>6 DEF Name
  <2> QED BY <2>1, <2>2, <2>3, <2>4, <2>5, <2>6
<1>4. ASSUME NEW c, NEW t, NEW n \in TypeNames(c, t)
      PROVE  n.op \in {"codec_deflate", "codec_inflate"} /\ n.label = <<"data", t>>
  <2>1. \/ \E l : n = [Name("codec_deflate", <<"data", t>>) EXCEPT !.level = l]
        \/ \E z : n = [Name("codec_inflate", <<"data", t>>) EXCEPT !.size = z]
    BY DEF TypeNames
  <2>2. CASE \E l : n = [Name("codec_deflate", <<"data", t>>) EXCEPT !.level = l]
    BY <2>2 DEF Name
  <2>3. CASE \E z : n = [Name("codec_inflate", <<"data", t>>) EXCEPT !.size = z]
    BY <2>3 DEF Name
  <2> QED BY <2>1, <2>2, <2>3
<1>5. ASSUME NEW c, NEW n \in DistNames(c) PROVE n.op \in {"codec_deflate", "codec_inflate"}
  <2>1. \/ \E d : n = [Name("codec_inflate", <<"data", "dist">>) EXCEPT !.dist = d]
        \/ \E d : n \in DistDeflates(c, d)
    BY DEF DistNames
  <2>2. CASE \E d : n = [Name("codec_inflate", <<"data", "dist">>) EXCEPT !.dist = d]
    BY <2>2 DEF Name
  <2>3. CASE \E d : n \in DistDeflates(c, d)
    BY <2>3 DEF DistDeflates, Name
  <2> QED BY <2>1, <2>2, <2>3
<1>6. ASSUME NEW c, NEW m, NEW n \in SyntheticNames(c, m)
      PROVE  n.op \in {"codec_deflate", "codec_inflate"} /\ n.label[1] = "data"
  <2>1. (\E t : n \in TypeNames(c, t)) \/ n \in DistNames(c)
    BY DEF SyntheticNames
  <2>2. n.op \in {"codec_deflate", "codec_inflate"} /\ \E t : n.label = <<"data", t>>
    BY <1>4, <1>5, <2>1, DistNamesAre
  <2>3. PICK t : n.label = <<"data", t>>
    BY <2>2
  <2> QED BY <2>2, <2>3
<1> QED BY <1>1, <1>3, <1>6, FileNamesAre

\* A sequence of one element.
LEMMA OneElement ==
  ASSUME NEW S, NEW s \in Seq(S), NEW e, Len(s) = 1, s[1] = e PROVE s = <<e>>
OBVIOUS

\* The mask of a list that ended is what the list asks for.
LEMMA ListEnded ==
  ASSUME pc = "parse", Parsed, ListEnds
  PROVE  mask = Asked /\ Asked \subseteq AllTypes /\ Asked # {}
<1> DEFINE n == IF list[Len(list)] = "" THEN Len(list) - 1 ELSE Len(list)
<1>1. list \in Seq(STRING) /\ list # <<>> /\ list \notin {NULL, <<"">>, <<"all">>}
  BY DEF Parsed
<1>2. p \in 1..(Len(list) + 1) /\ mask = {list[i] : i \in 1..(p - 1)} /\ mask \subseteq AllTypes
  BY DEF Parsed
<1>3. Asked = {list[i] : i \in 1..n}
  BY <1>1, AskedIs
<1>4. Len(list) \in Nat \ {0}
  BY <1>1, FrontIs
<1>5. list \in Seq(STRING) /\ list # <<"">>
  BY <1>1
<1>6. p - 1 = n
  <2>1. CASE p > Len(list)
    <3>1. p - 1 = Len(list)
      BY <1>2, <1>4, <2>1
    <3>2. list[Len(list)] \in mask
      BY <1>2, <1>4, <3>1
    <3>3. list[Len(list)] # ""
      BY <1>2, <3>2, TypesAre
    <3> QED BY <3>1, <3>3
  <2>2. CASE p = Len(list) /\ list[p] = ""
    BY <2>2
  <2> QED BY <2>1, <2>2 DEF ListEnds
<1>7. n # 0
  <2> SUFFICES ASSUME n = 0 PROVE FALSE
    OBVIOUS
  <2>3. n = Len(list) - 1 /\ list[Len(list)] = ""
    <3>1. CASE list[Len(list)] = ""
      BY <3>1, Zenon
    <3>2. CASE list[Len(list)] # ""
      <4>1. n = Len(list)
        BY <3>2, Zenon
      <4> HIDE DEF n
      <4> QED BY <1>4, <4>1
    <3> QED BY <3>1, <3>2
  <2>5. n = Len(list) - 1 /\ n = 0
    BY <2>3, Zenon
  <2> HIDE DEF n
  <2>4. Len(list) = 1
    BY <1>4, <2>5
  <2>1. Len(list) = 1 /\ list[1] = ""
    BY <2>3, <2>4
  <2>2. list = <<"">>
    BY <1>5, <2>1, OneElement, Zenon
  <2> QED BY <1>5, <2>2
<1>8. list[1] \in mask
  <2>1. n = Len(list) - 1 \/ n = Len(list)
    BY Zenon
  <2> HIDE DEF n
  <2>3. 1 \in 1..(p - 1)
    BY <1>4, <1>6, <1>7, <2>1
  <2> QED BY <1>2, <2>3
<1> QED BY <1>2, <1>3, <1>6, <1>8

\* Every step of static initialisation and of main preserves the invariant.
LEMMA NextRegInv == RegInv /\ [Next]_vars => RegInv'
<1> SUFFICES ASSUME RegInv, [Next]_vars PROVE RegInv'
  OBVIOUS
<1> USE DEF RegInv
<1>1. CASE UNCHANGED vars
  <2>1. AllNames' = AllNames /\ NoDataCorpus' = NoDataCorpus /\ Asked' = Asked
    BY <1>1 DEF vars, AllNames, NoDataCorpus, Asked
  <2> QED BY <1>1, <2>1 DEF vars, Found, Hooked, Parsed, Registered
<1>2. CASE register_checksum_benchmarks
  <2>1. /\ pc = "checksum_init" /\ pc' = "codec_data_types" /\ registered' = registered \o Checksums
        /\ UNCHANGED <<codec, tree, hooks, corpora_files, list, p, mask>>
    BY <1>2 DEF register_checksum_benchmarks
  <2>2. ToSet(corpora_files) = {} /\ AllNames = {} /\ AllNames' = AllNames \cup ChecksumNames(codec)
    BY <2>1 DEF Found, AllNames
  <2>3. Registered'
    <3>1. NoDataCorpus' = NoDataCorpus
      BY <2>1 DEF NoDataCorpus
    <3>2. Lists(Checksums, ChecksumNames(codec)) /\ Registered
      BY ChecksumsAre
    <3> QED BY <2>1, <2>2, <3>1, <3>2, RegisteredGrows
  <2> QED BY <2>1, <2>3 DEF Found, Hooked, Parsed
<1>3. CASE benchmark_data_types_hook
  <2>1. /\ pc = "codec_data_types" /\ pc' = "codec_init"
        /\ hooks' = IF hooks < MAX_HOOKS THEN hooks + 1 ELSE hooks
        /\ UNCHANGED <<codec, tree, corpora_files, list, p, mask, registered>>
    BY <1>3 DEF benchmark_data_types_hook
  <2>2. hooks' = 1
    BY <2>1, HooksAssumption DEF Hooked
  <2>3. Registered'
    BY <2>1, RegisteredStays
  <2> QED BY <2>1, <2>2, <2>3 DEF Found, Hooked, Parsed
<1>4. CASE register_codec_benchmarks
  <2> DEFINE T == UNION {FileNames(codec, cf) : cf \in ToSet(corpora_files')}
  <2>1. /\ pc = "codec_init" /\ pc' = "main" /\ corpora_files' = discover_corpora
        /\ registered' = registered \o ForEach(corpora_files', OfFile)
        /\ UNCHANGED <<codec, tree, hooks, list, p, mask>>
    BY <1>4 DEF register_codec_benchmarks
  <2>2. /\ corpora_files' \in Ladders(ToSet(Dirs) \X ToSet(Names))
        /\ ToSet(corpora_files') = Files(tree)
    BY <2>1, DiscoverIs
  <2>3. Lists(ForEach(corpora_files', OfFile), T)
    BY <2>2, EveryFileAre
  <2>4. ToSet(corpora_files) = {}
    BY <2>1 DEF Found
  <2>5. AllNames = ChecksumNames(codec) /\ AllNames' = ChecksumNames(codec) \cup T
    BY <2>1, <2>4 DEF AllNames
  <2>6. NoDataCorpus
    <3>1. DOMAIN corpora_files = {}
      BY <2>4 DEF ToSet
    <3> QED BY <3>1 DEF NoDataCorpus
  <2>7. ChecksumNames(codec) \cap T = {}
    <3>1. \A n \in T : n.op \in {"codec_deflate", "codec_inflate"}
      BY NamesApart
    <3>2. \A n \in ChecksumNames(codec) : n.op \in {"codec_crc32", "codec_adler32"}
      BY NamesApart
    <3> HIDE DEF T
    <3> QED BY <3>1, <3>2
  <2> HIDE DEF T
  <2>8. Registered'
    <3>1. Registered
      OBVIOUS
    <3> DEFINE s == ForEach(corpora_files', OfFile)
    <3>2. registered' = registered \o s /\ Lists(s, T)
      BY <2>1, <2>3
    <3> HIDE DEF s
    <3> QED BY <2>5, <2>6, <2>7, <3>1, <3>2, RegisteredGrows
  <2>9. Found'
    BY <2>1, <2>2 DEF Found, Files
  <2> QED BY <2>1, <2>8, <2>9 DEF Hooked, Parsed
<1>5. CASE ParseStart
  <2>1. /\ pc = "main" /\ list' \in Options
        /\ IF list' \in {NULL, <<"">>} THEN pc' = "register" /\ mask' = {"text"}
           ELSE IF list' = <<"all">> THEN pc' = "register" /\ mask' = AllTypes
           ELSE pc' = "parse" /\ mask' = {}
        /\ UNCHANGED <<codec, tree, hooks, corpora_files, p, registered>>
    BY <1>5 DEF ParseStart
  <2>2. p = 1
    BY <2>1 DEF Parsed
  <2>3. Parsed'
    <3>1. CASE list' \in {NULL, <<"">>}
      <4>1. Asked' = {"text"} /\ {"text"} \subseteq AllTypes
        BY <3>1, TypesAre DEF Asked
      <4> QED BY <2>1, <3>1, <4>1 DEF Parsed
    <3>2. CASE list' \notin {NULL, <<"">>} /\ list' = <<"all">>
      <4>1. Asked' = AllTypes /\ AllTypes # {}
        BY <3>2, TypesAre DEF Asked
      <4> QED BY <2>1, <3>2, <4>1 DEF Parsed
    <3>3. CASE list' \notin {NULL, <<"">>, <<"all">>}
      <4>1. list' \in Seq(STRING) \ {<<>>}
        BY <2>1, <3>3, OptionsAssumption
      <4>2. list' \in Seq(STRING) /\ list' # <<>>
        BY <4>1
      <4>3. Len(list') \in Nat \ {0}
        BY <4>2, FrontIs
      <4>4. pc' = "parse" /\ mask' = {} /\ p' = 1
        BY <2>1, <2>2, <3>3
      <4>5. {list'[i] : i \in 1..(p' - 1)} = {}
        BY <4>4
      <4>6. p' \in 1..(Len(list') + 1)
        BY <4>3, <4>4
      <4> QED BY <3>3, <4>2, <4>4, <4>5, <4>6 DEF Parsed
    <3> QED BY <3>1, <3>2, <3>3
  <2>4. pc' \in {"register", "parse"}
    BY <2>1
  <2>5. Registered'
    BY <2>1, <2>4, RegisteredStays
  <2> QED BY <2>1, <2>3, <2>4, <2>5 DEF Found, Hooked, Files
<1>6. CASE ParseToken
  <2>1. /\ pc = "parse" /\ ~ListEnds
        /\ IF list[p] \in AllTypes
           THEN mask' = mask \cup {list[p]} /\ p' = p + 1 /\ UNCHANGED pc
           ELSE mask' = {} /\ pc' = "register" /\ UNCHANGED p
        /\ UNCHANGED <<codec, tree, hooks, corpora_files, list, registered>>
    BY <1>6 DEF ParseToken
  <2>2. list \in Seq(STRING) /\ list # <<>> /\ list \notin {NULL, <<"">>, <<"all">>}
    BY <2>1 DEF Parsed
  <2>9. p \in 1..(Len(list) + 1) /\ mask = {list[i] : i \in 1..(p - 1)} /\ mask \subseteq AllTypes
    BY <2>1 DEF Parsed
  <2>3. Len(list) \in Nat \ {0}
    BY <2>2, FrontIs
  <2>4. p \in 1..Len(list) /\ ~(p = Len(list) /\ list[p] = "")
    <3>1. ~(p > Len(list)) /\ ~(p = Len(list) /\ list[p] = "")
      BY <2>1, Zenon DEF ListEnds
    <3>2. ~(p > Len(list))
      BY <3>1
    <3>3. p \in 1..Len(list)
      BY <2>3, <2>9, <3>2
    <3> QED BY <3>1, <3>3, Zenon
  <2>10. p \in 1..Len(list)
    BY <2>4, Zenon
  <2>5. Asked' = Asked
    BY <2>1 DEF Asked
  <2>6. Parsed'
    <3>1. CASE list[p] \in AllTypes
      <4>1. {list[i] : i \in 1..((p + 1) - 1)} = {list[i] : i \in 1..(p - 1)} \cup {list[p]}
        <5>1. 1..((p + 1) - 1) = 1..(p - 1) \cup {p}
          BY <2>3, <2>10
        <5> QED BY <5>1
      <4>2. p + 1 \in 1..(Len(list) + 1)
        BY <2>3, <2>10
      <4>3. mask' = {list[i] : i \in 1..(p' - 1)} /\ mask' \subseteq AllTypes
        BY <2>1, <2>9, <3>1, <4>1
      <4>4. p' \in 1..(Len(list) + 1) /\ pc' = "parse" /\ list' = list
        BY <2>1, <3>1, <4>2
      <4> QED BY <2>2, <4>3, <4>4 DEF Parsed
    <3>2. CASE list[p] \notin AllTypes
      <4>1. list[p] \in Asked
        <5> DEFINE n == IF list[Len(list)] = "" THEN Len(list) - 1 ELSE Len(list)
        <5>1. Asked = {list[i] : i \in 1..n}
          BY <2>2, AskedIs
        <5>2. (n = Len(list) - 1 /\ p # Len(list)) \/ n = Len(list)
          BY <2>4, Zenon
        <5> HIDE DEF n
        <5>3. p \in 1..n
          BY <2>3, <2>10, <5>2
        <5> QED BY <5>1, <5>3
      <4> QED BY <2>1, <2>5, <3>2, <4>1 DEF Parsed
    <3> QED BY <3>1, <3>2
  <2>7. pc' \in {"register", "parse"}
    BY <2>1
  <2>8. Registered'
    BY <2>1, <2>7, RegisteredStays
  <2> QED BY <2>1, <2>6, <2>7, <2>8 DEF Found, Hooked, Files
<1>7. CASE ParseEnd
  <2>1. /\ pc = "parse" /\ ListEnds /\ pc' = "register"
        /\ UNCHANGED <<codec, tree, hooks, corpora_files, list, p, mask, registered>>
    BY <1>7 DEF ParseEnd
  <2>2. Registered'
    BY <2>1, RegisteredStays
  <2>3. Asked' = Asked
    BY <2>1 DEF Asked
  <2>4. Parsed'
    BY <2>1, <2>3, ListEnded DEF Parsed
  <2> QED BY <2>1, <2>2, <2>4 DEF Found, Hooked, Files
<1>8. CASE benchmark_data_types_register
  <2>1. /\ pc = "register" /\ UNCHANGED <<codec, tree, hooks, corpora_files, list, p, mask>>
    BY <1>8 DEF benchmark_data_types_register
  <2>2. Asked' = Asked /\ hooks = 1
    BY <2>1 DEF Asked, Hooked
  <2>3. CASE mask = {}
    <3>1. pc' = "EXIT_FAILURE" /\ UNCHANGED registered
      BY <1>8, <2>3 DEF benchmark_data_types_register
    <3>2. Registered'
      BY <2>1, <3>1, RegisteredStays
    <3> QED BY <2>1, <2>2, <2>3, <3>1, <3>2 DEF Found, Hooked, Parsed, Files
  <2>4. CASE mask # {}
    <3> DEFINE s == codec_register_data_types(mask)
    <3>1. mask = Asked /\ mask \subseteq AllTypes
      BY <2>1, <2>4 DEF Parsed
    <3>2. Lists(s, SyntheticNames(codec, mask))
      BY <3>1, SyntheticAre
    <3>3. ForEach([i \in 1..hooks |-> mask], codec_register_data_types) = s
      BY <2>2, <3>1, HookIs
    <3>4. pc' = "run" /\ registered' = registered \o s
      BY <1>8, <2>4, <3>3 DEF benchmark_data_types_register
    <3>5. AllNames' = AllNames \cup SyntheticNames(codec, mask)
      BY <2>1, <3>4 DEF AllNames
    <3>6. ASSUME NoDataCorpus' PROVE NoDataCorpus /\ AllNames \cap SyntheticNames(codec, mask) = {}
      <4>1. NoDataCorpus
        BY <2>1, <3>6 DEF NoDataCorpus
      <4>2. \A cf \in ToSet(corpora_files) : cf[1] # "data"
        BY <4>1 DEF NoDataCorpus, ToSet
      <4>3. \A n \in SyntheticNames(codec, mask) :
              n.op \in {"codec_deflate", "codec_inflate"} /\ n.label[1] = "data"
        BY NamesApart
      <4>4. AllNames = ChecksumNames(codec) \cup UNION {FileNames(codec, cf) : cf \in ToSet(corpora_files)}
        BY <2>1 DEF AllNames
      <4>5. \A n \in ChecksumNames(codec) : n.op \in {"codec_crc32", "codec_adler32"}
        BY NamesApart
      <4>6. \A cf \in ToSet(corpora_files) : \A n \in FileNames(codec, cf) : n.label[1] # "data"
        BY <4>2, FileNamesAre
      <4> QED BY <4>1, <4>3, <4>4, <4>5, <4>6
    <3> HIDE DEF s
    <3>7. Registered'
      <4>1. Registered
        OBVIOUS
      <4> QED BY <3>2, <3>4, <3>5, <3>6, <4>1, RegisteredGrows
    <3> QED BY <2>1, <2>2, <3>1, <3>4, <3>7 DEF Found, Hooked, Parsed, Files
  <2> QED BY <2>3, <2>4
<1> QED BY <1>1, <1>2, <1>3, <1>4, <1>5, <1>6, <1>7, <1>8 DEF Next

----------------------------------------------------------------------------
(* What the invariant says of the selection and of the corpora. *)

\* The binary keeps it too: Google Benchmark registers nothing.
LEMMA MainRegInv == MainSpec => []RegInv
<1>1. MainInit => RegInv
  BY InitRegInv DEF MainInit
<1>2. RegInv /\ [MainNext]_<<vars, runVars>> => RegInv'
  <2>1. [MainNext]_<<vars, runVars>> => [Next]_vars
    BY DEF MainNext, RunSpecifiedBenchmarks
  <2> QED BY <2>1, NextRegInv
<1> QED BY <1>1, <1>2, PTL DEF MainSpec

\* Every selected type has a benchmark, and no other.
LEMMA SyntheticLabels ==
  ASSUME NEW c \in Codecs, NEW m \in SUBSET AllTypes
  PROVE  {n.label[2] : n \in SyntheticNames(c, m)} = m
<1>1. ASSUME NEW t \in AllTypes, NEW n \in TypeNames(c, t) PROVE n.label = <<"data", t>>
  <2>1. \/ \E l : n = [Name("codec_deflate", <<"data", t>>) EXCEPT !.level = l]
        \/ \E z : n = [Name("codec_inflate", <<"data", t>>) EXCEPT !.size = z]
    BY DEF TypeNames
  <2>2. CASE \E l : n = [Name("codec_deflate", <<"data", t>>) EXCEPT !.level = l]
    BY <2>2 DEF Name
  <2>3. CASE \E z : n = [Name("codec_inflate", <<"data", t>>) EXCEPT !.size = z]
    BY <2>3 DEF Name
  <2> QED BY <2>1, <2>2, <2>3
<1>2. \A n \in SyntheticNames(c, m) : n.label[2] \in m
  <2> SUFFICES ASSUME NEW n \in SyntheticNames(c, m) PROVE n.label[2] \in m
    OBVIOUS
  <2>1. (\E t \in ToSet(types) \cap m : n \in TypeNames(c, t)) \/ (n \in DistNames(c) /\ "dist" \in m)
    BY DEF SyntheticNames
  <2>2. CASE \E t \in ToSet(types) \cap m : n \in TypeNames(c, t)
    <3>1. PICK t \in ToSet(types) \cap m : n \in TypeNames(c, t)
      BY <2>2
    <3>2. n.label = <<"data", t>>
      BY <1>1, <3>1
    <3> QED BY <3>1, <3>2
  <2>3. CASE n \in DistNames(c) /\ "dist" \in m
    <3>1. n.label = <<"data", "dist">>
      BY <2>3, DistNamesAre
    <3> QED BY <2>3, <3>1
  <2> QED BY <2>1, <2>2, <2>3
<1>3. ASSUME NEW t \in m PROVE \E n \in SyntheticNames(c, m) : n.label[2] = t
  <2>1. PICK l \in ToSet(c.levels) : l # 0
    BY LaddersAre
  <2>2. CASE t \in ToSet(types)
    <3> DEFINE n == [Name("codec_deflate", <<"data", t>>) EXCEPT !.level = l]
    <3>1. n \in TypeNames(c, t)
      BY <2>1 DEF TypeNames
    <3>2. n \in SyntheticNames(c, m)
      BY <2>2, <3>1 DEF SyntheticNames
    <3>3. n.label = <<"data", t>>
      BY DEF Name
    <3> HIDE DEF n
    <3> QED BY <3>2, <3>3
  <2>3. CASE t = "dist"
    <3>1. PICK d \in ToSet(DeflateDists) : TRUE
      BY LaddersAre
    <3> DEFINE n == [Name("codec_deflate", <<"data", "dist">>) EXCEPT !.dist = d, !.level = l]
    <3>2. n \in DistDeflates(c, d)
      BY <2>1 DEF DistDeflates
    <3>3. n \in SyntheticNames(c, m)
      BY <2>3, <3>1, <3>2 DEF SyntheticNames, DistNames
    <3>4. n.label = <<"data", "dist">>
      BY DEF Name
    <3> HIDE DEF n
    <3> QED BY <2>3, <3>3, <3>4
  <2> QED BY <2>2, <2>3, TypesAre
<1> QED BY <1>2, <1>3

\* What the checksums and the files add is not called "data", if no corpus is.
LEMMA OfData ==
  ASSUME RegInv, NoDataCorpus
  PROVE  {n \in ToSet(registered) : n.label[1] = "data"}
           = IF pc = "run" THEN SyntheticNames(codec, mask) ELSE {}
<1>1. ToSet(registered) = AllNames
  BY DEF RegInv, Registered
<1>2. \A n \in ChecksumNames(codec) : n.label[1] # "data"
  <2>1. \A n \in ChecksumNames(codec) : n.label = NoCorpus
    BY NamesApart
  <2>2. NoCorpus[1] # "data"
    BY DEF NoCorpus
  <2> QED BY <2>1, <2>2
<1>3. \A cf \in ToSet(corpora_files) : cf[1] # "data"
  BY DEF NoDataCorpus, ToSet
<1>4. \A cf \in ToSet(corpora_files) : \A n \in FileNames(codec, cf) : n.label[1] # "data"
  BY <1>3, FileNamesAre
<1>5. \A n \in SyntheticNames(codec, mask) : n.label[1] = "data"
  BY NamesApart
<1> QED BY <1>1, <1>2, <1>4, <1>5 DEF AllNames

\* Whatever the option names, a binary that runs has benchmarks for exactly
\* these data types, and it does not run if one of them is unknown.
THEOREM SelectedTypes == MainSpec => []SelectionExact
<1>1. RegInv => SelectionExact
  <2> SUFFICES ASSUME RegInv, NoDataCorpus PROVE SelectionExact
    BY DEF SelectionExact
  <2> DEFINE ofData == {n \in ToSet(registered) : n.label[1] = "data"}
  <2>1. ofData = IF pc = "run" THEN SyntheticNames(codec, mask) ELSE {}
    BY OfData
  <2> HIDE DEF ofData
  <2>2. CASE pc = "run"
    <3>1. mask = Asked /\ Asked \subseteq AllTypes /\ codec \in Codecs
      BY <2>2 DEF RegInv, Parsed
    <3>2. {n.label[2] : n \in ofData} = Asked
      BY <2>1, <2>2, <3>1, SyntheticLabels
    <3> QED BY <2>2, <3>1, <3>2 DEF SelectionExact, ofData
  <2>3. CASE pc = "EXIT_FAILURE"
    <3>1. ~(Asked \subseteq AllTypes)
      BY <2>3 DEF RegInv, Parsed
    <3>2. {n.label[2] : n \in ofData} = {}
      BY <2>1, <2>3
    <3> QED BY <2>3, <3>1, <3>2 DEF SelectionExact, ofData
  <2> QED BY <2>2, <2>3 DEF SelectionExact
<1> QED BY <1>1, MainRegInv, PTL

\* Only a backend that inflates has benchmarks that do.
LEMMA InflatesOnly ==
  /\ \A c, cf : \A n \in FileNames(c, cf) : n.op = "codec_inflate" => c.inflate
  /\ \A c, m : \A n \in SyntheticNames(c, m) : n.op = "codec_inflate" => c.inflate
<1>1. ASSUME NEW c, NEW cf, NEW n \in FileNames(c, cf), ~c.inflate PROVE n.op = "codec_deflate"
  <2>1. \/ \E l : n = [Name("codec_deflate", cf) EXCEPT !.level = l]
        \/ \E s : n \in StrategyNames(cf, s)
        \/ \E w : n = [Name("codec_deflate", cf) EXCEPT !.level = 6, !.wbits = w]
    BY <1>1 DEF FileNames
  <2>2. CASE \E l : n = [Name("codec_deflate", cf) EXCEPT !.level = l]
    BY <2>2 DEF Name
  <2>3. CASE \E s : n \in StrategyNames(cf, s)
    BY <2>3 DEF StrategyNames, Name
  <2>4. CASE \E w : n = [Name("codec_deflate", cf) EXCEPT !.level = 6, !.wbits = w]
    BY <2>4 DEF Name
  <2> QED BY <2>1, <2>2, <2>3, <2>4
<1>2. ASSUME NEW c, NEW m, NEW n \in SyntheticNames(c, m), ~c.inflate PROVE n.op = "codec_deflate"
  <2>1. (\E t : n \in TypeNames(c, t)) \/ n \in DistNames(c)
    BY DEF SyntheticNames
  <2>2. CASE \E t : n \in TypeNames(c, t)
    <3>1. \E t, l : n = [Name("codec_deflate", <<"data", t>>) EXCEPT !.level = l]
      BY <1>2, <2>2 DEF TypeNames
    <3> QED BY <3>1 DEF Name
  <2>3. CASE n \in DistNames(c)
    <3>1. \E d : n \in DistDeflates(c, d)
      BY <1>2, <2>3 DEF DistNames
    <3> QED BY <3>1 DEF DistDeflates, Name
  <2> QED BY <2>1, <2>2, <2>3
<1> QED BY <1>1, <1>2

\* Every corpus file with something in it is deflated at every level and
\* inflated where the backend can, whatever else is selected; nothing that is
\* hidden, empty or not a file is.
THEOREM EveryFileRegistered == MainSpec => []CorpusComplete
<1>1. RegInv => CorpusComplete
  <2> SUFFICES ASSUME RegInv, pc = "run", NEW d \in ToSet(Dirs), NEW n \in ToSet(Names)
               PROVE  LET here == {m \in ToSet(registered) : m.label = <<d, n>>}
                          plain == {m.level : m \in {k \in here :
                                      k.op = "codec_deflate" /\ k.strategy = "" /\ k.wbits = 0}}
                      IN IF d \notin Hidden /\ n \notin Hidden
                              /\ tree.dir[d] = "dir" /\ tree.file[d, n] = "regular"
                         THEN ToSet(codec.levels) \subseteq plain
                                /\ (Name("codec_inflate", <<d, n>>) \in here <=> codec.inflate)
                         ELSE d # "data" => here = {}
    BY DEF CorpusComplete
  <2> DEFINE cf == <<d, n>>
             here == {m \in ToSet(registered) : m.label = cf}
             plain == {m.level : m \in {k \in here :
                         k.op = "codec_deflate" /\ k.strategy = "" /\ k.wbits = 0}}
             visible == /\ d \notin Hidden /\ n \notin Hidden
                      /\ tree.dir[d] = "dir" /\ tree.file[d, n] = "regular"
  <2>1. ToSet(registered) = ChecksumNames(codec)
          \cup (UNION {FileNames(codec, g) : g \in Files(tree)}) \cup SyntheticNames(codec, mask)
    BY DEF RegInv, Registered, Found, AllNames
  <2>2. codec \in Codecs /\ {codec.inflate} \subseteq BOOLEAN
    BY CodecsAssumption DEF RegInv
  <2>3. visible <=> cf \in Files(tree)
    <3>1. cf[1] = d /\ cf[2] = n /\ cf \in ToSet(Dirs) \X ToSet(Names)
      OBVIOUS
    <3>2. cf \in (ToSet(Dirs) \ Hidden) \X (ToSet(Names) \ Hidden) <=> d \notin Hidden /\ n \notin Hidden
      OBVIOUS
    <3>3. visible <=> cf \in (ToSet(Dirs) \ Hidden) \X (ToSet(Names) \ Hidden)
                      /\ tree.dir[cf[1]] = "dir" /\ tree.file[cf[1], cf[2]] = "regular"
      BY <3>1, <3>2
    <3> HIDE DEF cf
    <3> QED BY <3>3, Zenon DEF Files
  <2>4. cf # NoCorpus
    <3>1. Dirs \in Ladders(STRING \ {""})
      BY NamesAssumption
    <3>2. ToSet(Dirs) \subseteq STRING \ {""}
      BY <3>1, LadderIs
    <3>3. d # "" /\ NoCorpus[1] = "" /\ cf[1] = d
      BY <3>2 DEF NoCorpus
    <3> QED BY <3>3
  <2> HIDE DEF cf, visible
  <2>5. CASE visible
    <3>1. FileNames(codec, cf) \subseteq ToSet(registered)
      BY <2>1, <2>3, <2>5
    <3>2. ASSUME NEW l \in ToSet(codec.levels) PROVE l \in plain
      <4> DEFINE m == [Name("codec_deflate", cf) EXCEPT !.level = l]
      <4>1. m \in FileNames(codec, cf)
        BY DEF FileNames
      <4>2. m.label = cf /\ m.level = l /\ m.op = "codec_deflate" /\ m.strategy = "" /\ m.wbits = 0
        BY DEF Name
      <4> HIDE DEF m
      <4> QED BY <3>1, <4>1, <4>2
    <3>3. ASSUME codec.inflate PROVE Name("codec_inflate", cf) \in here
      <4>1. Name("codec_inflate", cf) \in FileNames(codec, cf)
        BY <3>3 DEF FileNames
      <4>2. Name("codec_inflate", cf).label = cf
        BY DEF Name
      <4> QED BY <3>1, <4>1, <4>2
    <3>4. ASSUME Name("codec_inflate", cf) \in here PROVE codec.inflate
      <4> DEFINE m == Name("codec_inflate", cf)
      <4>1. m.op = "codec_inflate" /\ m \in ToSet(registered)
        BY <3>4 DEF Name
      <4> HIDE DEF m
      <4>2. m \notin ChecksumNames(codec)
        BY <4>1, NamesApart
      <4> QED BY <2>1, <4>1, <4>2, InflatesOnly
    <3> HIDE DEF here, plain
    <3>5. ToSet(codec.levels) \subseteq plain /\ (Name("codec_inflate", cf) \in here <=> codec.inflate)
      BY <2>2, <3>2, <3>3, <3>4
    <3> QED BY <2>5, <3>5 DEF here, plain, cf, visible
  <2>6. CASE ~visible
    <3>1. ASSUME d # "data", NEW m \in here PROVE FALSE
      <4>1. m \in ToSet(registered) /\ m.label = cf
        OBVIOUS
      <4>2. m \notin ChecksumNames(codec)
        BY <2>4, <4>1, NamesApart
      <4>3. m \notin UNION {FileNames(codec, g) : g \in Files(tree)}
        BY <2>3, <2>6, <4>1, FileNamesAre
      <4>4. m \notin SyntheticNames(codec, mask)
        <5>1. cf[1] # "data"
          BY <3>1 DEF cf
        <5> QED BY <4>1, <5>1, NamesApart
      <4> QED BY <2>1, <4>1, <4>2, <4>3, <4>4
    <3> HIDE DEF here
    <3>2. d # "data" => here = {}
      BY <3>1
    <3> QED BY <2>6, <3>2 DEF here, cf, visible
  <2> QED BY <2>5, <2>6
<1> QED BY <1>1, MainRegInv, PTL

----------------------------------------------------------------------------
(* A place in the charts belongs to one benchmark. *)

\* The name a place stands for.
NameAt(q) ==
  LET k == q[2]
      l == q[3]
  IN CASE q[1] = "checksum"     -> [Name(k[1], l) EXCEPT !.size = k[2]]
       [] q[1] = "dist"         -> [Name(k[1], l) EXCEPT !.dist = k[2], !.level = k[3]]
       [] q[1] = "deflate_data" -> [Name("codec_deflate", l) EXCEPT !.level = k[2]]
       [] q[1] = "inflate_data" -> [Name("codec_inflate", l) EXCEPT !.size = k[2]]
       [] q[1] = "deflate"      -> [Name("codec_deflate", l) EXCEPT !.strategy = k[2], !.level = k[1]]
       [] q[1] = "wbits"        -> [Name("codec_deflate", l) EXCEPT !.level = k[1], !.wbits = k[2]]
       [] q[1] = "chunked"      -> [Name("codec_inflate", l) EXCEPT !.chunk = k[1]]
       [] OTHER                 -> Name("codec_inflate", l)

\* A checksum benchmark is placed by its function, its size and its corpus.
LEMMA ChecksumPlace ==
  ASSUME NEW op \in {"codec_crc32", "codec_adler32"}, NEW l, NEW z, NEW n,
         n = [Name(op, l) EXCEPT !.size = z]
  PROVE  PlaceOf(n) = <<"checksum", <<op, z>>, l>> /\ NameAt(PlaceOf(n)) = n
<1>1. n.op = op /\ n.label = l /\ n.size = z
  BY DEF Name
<1>a. Rows!Group(n, {n.label}) = "checksum"
  BY <1>1 DEF Rows!Group
<1>b. Rows!Key(n, "checksum") = <<op, z>>
  BY <1>1 DEF Rows!Key
<1>2. PlaceOf(n) = <<"checksum", <<op, z>>, l>>
  BY <1>1, <1>a, <1>b DEF PlaceOf
<1> QED BY <1>2 DEF NameAt

\* A benchmark of the distance sweep by its direction, distance and level.
LEMMA DistPlace ==
  ASSUME NEW op \in {"codec_deflate", "codec_inflate"}, NEW l, NEW d \in Int \ {0}, NEW v, NEW n,
         n = [Name(op, l) EXCEPT !.dist = d, !.level = v]
  PROVE  NameAt(PlaceOf(n)) = n
<1>1. n.op = op /\ n.label = l /\ n.dist = d /\ n.level = v /\ n.chunk = 0
  BY DEF Name
<1>a. Rows!Group(n, {n.label}) = "dist"
  BY <1>1 DEF Rows!Group
<1>b. Rows!Key(n, "dist") = <<op, d, v>>
  BY <1>1 DEF Rows!Key
<1>2. PlaceOf(n) = <<"dist", <<op, d, v>>, l>>
  BY <1>1, <1>a, <1>b DEF PlaceOf
<1> DEFINE q == <<"dist", <<op, d, v>>, l>>
<1>3. q[1] = "dist" /\ q[2][1] = op /\ q[2][2] = d /\ q[2][3] = v /\ q[3] = l
  OBVIOUS
<1> HIDE DEF q
<1>4. NameAt(q) = [Name(op, l) EXCEPT !.dist = d, !.level = v]
  BY <1>3 DEF NameAt
<1> QED BY <1>2, <1>4 DEF q

\* A benchmark of a synthetic data type by its type and its level or size.
LEMMA TypePlace ==
  ASSUME NEW t, NEW x, NEW n,
         \/ n = [Name("codec_deflate", <<"data", t>>) EXCEPT !.level = x]
         \/ n = [Name("codec_inflate", <<"data", t>>) EXCEPT !.size = x]
  PROVE  NameAt(PlaceOf(n)) = n
<1>1. CASE n = [Name("codec_deflate", <<"data", t>>) EXCEPT !.level = x]
  <2>1. /\ n.op = "codec_deflate" /\ n.label = <<"data", t>> /\ n.dist = 0 /\ n.chunk = 0 /\ n.level = x
        /\ n.label[1] = "data" /\ n.label[2] = t
    BY <1>1 DEF Name
  <2>a. Rows!Group(n, {n.label}) = "deflate_data"
    BY <2>1 DEF Rows!Group
  <2>b. Rows!Key(n, "deflate_data") = <<t, x>>
    BY <2>1 DEF Rows!Key
  <2>2. PlaceOf(n) = <<"deflate_data", <<t, x>>, <<"data", t>>>>
    BY <2>1, <2>a, <2>b DEF PlaceOf
  <2> QED BY <1>1, <2>2 DEF NameAt
<1>2. CASE n = [Name("codec_inflate", <<"data", t>>) EXCEPT !.size = x]
  <2>1. /\ n.op = "codec_inflate" /\ n.label = <<"data", t>> /\ n.dist = 0 /\ n.chunk = 0 /\ n.size = x
        /\ n.label[1] = "data" /\ n.label[2] = t
    BY <1>2 DEF Name
  <2>a. Rows!Group(n, {n.label}) = "inflate_data"
    BY <2>1 DEF Rows!Group
  <2>b. Rows!Key(n, "inflate_data") = <<t, x>>
    BY <2>1 DEF Rows!Key
  <2>2. PlaceOf(n) = <<"inflate_data", <<t, x>>, <<"data", t>>>>
    BY <2>1, <2>a, <2>b DEF PlaceOf
  <2> QED BY <1>2, <2>2 DEF NameAt
<1> QED BY <1>1, <1>2

\* The strategy of a name that has none may be left alone.
LEMMA LevelOnly ==
  ASSUME NEW n \in AnyName, n.strategy = "", NEW x
  PROVE  [n EXCEPT !.level = x] = [n EXCEPT !.strategy = "", !.level = x]
<1>1. n = [n EXCEPT !.strategy = ""]
  BY DEF AnyName
<1> QED BY <1>1

\* So may the level of a name that has none.
LEMMA DistOnly ==
  ASSUME NEW n \in AnyName, n.level = -1, NEW x \in Int
  PROVE  [n EXCEPT !.dist = x] = [n EXCEPT !.dist = x, !.level = -1]
<1> DEFINE m == [n EXCEPT !.dist = x]
<1>1. m \in AnyName /\ m.level = -1
  BY DEF AnyName
<1> HIDE DEF m
<1>2. m = [m EXCEPT !.level = -1]
  BY <1>1 DEF AnyName
<1> QED BY <1>2 DEF m

\* A deflate benchmark of a corpus file by its strategy and its level.
LEMMA StrategyPlace ==
  ASSUME NEW cf, cf[1] # "data", NEW x, NEW s, NEW n,
         n = [Name("codec_deflate", cf) EXCEPT !.strategy = s, !.level = x]
  PROVE  NameAt(PlaceOf(n)) = n
<1>1. /\ n.op = "codec_deflate" /\ n.label = cf /\ n.dist = 0 /\ n.chunk = 0 /\ n.wbits = 0
      /\ n.level = x /\ n.strategy = s
  BY DEF Name
<1>a. Rows!Group(n, {n.label}) = "deflate"
  BY <1>1 DEF Rows!Group
<1>b. Rows!Key(n, "deflate") = <<x, s>>
  BY <1>1 DEF Rows!Key
<1>2. PlaceOf(n) = <<"deflate", <<x, s>>, cf>>
  BY <1>1, <1>a, <1>b DEF PlaceOf
<1> DEFINE q == <<"deflate", <<x, s>>, cf>>
<1>3. q[1] = "deflate" /\ q[2][1] = x /\ q[2][2] = s /\ q[3] = cf
  OBVIOUS
<1> HIDE DEF q
<1>4. NameAt(q) = [Name("codec_deflate", cf) EXCEPT !.strategy = s, !.level = x]
  BY <1>3 DEF NameAt
<1> QED BY <1>2, <1>4 DEF q

\* The benchmarks of a corpus file for a window size, a chunk size, or neither.
LEMMA FilePlace ==
  ASSUME NEW cf, cf[1] # "data", NEW k \in Int \ {0}, NEW n,
         \/ n = [Name("codec_deflate", cf) EXCEPT !.level = 6, !.wbits = k]
         \/ n = [Name("codec_inflate", cf) EXCEPT !.chunk = k]
         \/ n = Name("codec_inflate", cf)
  PROVE  NameAt(PlaceOf(n)) = n
<1>2. CASE n = [Name("codec_deflate", cf) EXCEPT !.level = 6, !.wbits = k]
  <2>1. /\ n.op = "codec_deflate" /\ n.label = cf /\ n.dist = 0 /\ n.chunk = 0 /\ n.wbits = k /\ n.level = 6
    BY <1>2 DEF Name
  <2>a. Rows!Group(n, {n.label}) = "wbits"
    BY <2>1 DEF Rows!Group
  <2>b. Rows!Key(n, "wbits") = <<6, k>>
    BY <2>1 DEF Rows!Key
  <2>2. PlaceOf(n) = <<"wbits", <<6, k>>, cf>>
    BY <2>1, <2>a, <2>b DEF PlaceOf
  <2> DEFINE q == <<"wbits", <<6, k>>, cf>>
  <2>3. q[1] = "wbits" /\ q[2][1] = 6 /\ q[2][2] = k /\ q[3] = cf
    OBVIOUS
  <2> HIDE DEF q
  <2>4. NameAt(q) = [Name("codec_deflate", cf) EXCEPT !.level = 6, !.wbits = k]
    BY <2>3 DEF NameAt
  <2> QED BY <1>2, <2>2, <2>4 DEF q
<1>3. CASE n = [Name("codec_inflate", cf) EXCEPT !.chunk = k]
  <2>1. n.op = "codec_inflate" /\ n.label = cf /\ n.chunk = k
    BY <1>3 DEF Name
  <2>a. Rows!Group(n, {n.label}) = "chunked"
    BY <2>1 DEF Rows!Group
  <2>b. Rows!Key(n, "chunked") = <<k>>
    BY <2>1 DEF Rows!Key
  <2>2. PlaceOf(n) = <<"chunked", <<k>>, cf>>
    BY <2>1, <2>a, <2>b DEF PlaceOf
  <2> QED BY <1>3, <2>2 DEF NameAt
<1>4. CASE n = Name("codec_inflate", cf)
  <2>1. n.op = "codec_inflate" /\ n.label = cf /\ n.dist = 0 /\ n.chunk = 0
    BY <1>4 DEF Name
  <2>a. Rows!Group(n, {n.label}) = "inflate"
    BY <2>1 DEF Rows!Group
  <2>b. Rows!Key(n, "inflate") = <<>>
    BY <2>1 DEF Rows!Key
  <2>2. PlaceOf(n) = <<"inflate", <<>>, cf>>
    BY <2>1, <2>a, <2>b DEF PlaceOf
  <2> QED BY <1>4, <2>2 DEF NameAt
<1> QED BY <1>2, <1>3, <1>4

\* A ladder of n names has n places, if no two of them share one.
LEMMA PlacesCounted ==
  ASSUME NEW s \in Ladders(AnyName), \A n \in ToSet(s) : NameAt(PlaceOf(n)) = n
  PROVE  Cardinality({PlaceOf(n) : n \in ToSet(s)}) = Len(s)
<1> DEFINE T == {PlaceOf(n) : n \in ToSet(s)}
           f == [i \in 1..Len(s) |-> PlaceOf(s[i])]
<1>1. /\ Len(s) \in Nat /\ IsInjective(s) /\ DOMAIN s = 1..Len(s)
      /\ ToSet(s) = {s[i] : i \in 1..Len(s)} /\ \A i \in 1..Len(s) : s[i] \in ToSet(s)
  BY LadderIs
<1>2. f \in [1..Len(s) -> T]
  BY <1>1
<1>3. ASSUME NEW i \in 1..Len(s), NEW j \in 1..Len(s), f[i] = f[j] PROVE i = j
  <2>1. PlaceOf(s[i]) = PlaceOf(s[j])
    BY <1>3
  <2>2. NameAt(PlaceOf(s[i])) = s[i] /\ NameAt(PlaceOf(s[j])) = s[j]
    BY <1>1
  <2>3. s[i] = s[j]
    BY <2>1, <2>2
  <2> QED BY <1>1, <2>3 DEF IsInjective
<1>4. \A t \in T : \E i \in 1..Len(s) : f[i] = t
  BY <1>1
<1> HIDE DEF T, f
<1>5. f \in Bijection(1..Len(s), T)
  <2>1. DOMAIN f = 1..Len(s)
    BY <1>2
  <2>2. IsInjective(f)
    BY <1>3, <2>1 DEF IsInjective
  <2> QED BY <1>2, <1>4, <2>2 DEF Bijection, Injection, Surjection
<1>6. ExistsBijection(1..Len(s), T)
  BY <1>5 DEF ExistsBijection
<1> QED BY <1>1, <1>6, FS_CountingElements DEF T

\* No two of a binary's benchmarks get into one place of a chart, whatever its
\* tables, ladders and corpora are.
THEOREM EveryPlaceOnce == MainSpec => []OnePlaceEach
<1>1. RegInv => OnePlaceEach
  <2> SUFFICES ASSUME RegInv, NoDataCorpus
               PROVE  Cardinality({PlaceOf(n) : n \in ToSet(registered)}) = Len(registered)
    BY DEF OnePlaceEach
  <2>1. registered \in Ladders(AnyName) /\ ToSet(registered) = AllNames
    BY DEF RegInv, Registered, Ladders
  <2>2. codec \in Codecs
    BY DEF RegInv
  <2>3. ASSUME NEW n \in ChecksumNames(codec) PROVE NameAt(PlaceOf(n)) = n
    BY ChecksumPlace DEF ChecksumNames
  <2>4. ASSUME NEW cf \in ToSet(corpora_files), NEW n \in FileNames(codec, cf) PROVE NameAt(PlaceOf(n)) = n
    <3>1. cf[1] # "data"
      BY DEF NoDataCorpus, ToSet
    <3>2. \/ \E l \in ToSet(codec.levels) : n = [Name("codec_deflate", cf) EXCEPT !.level = l]
          \/ \E s : n \in StrategyNames(cf, s)
          \/ \E w \in ToSet(codec.wbits) : n = [Name("codec_deflate", cf) EXCEPT !.level = 6, !.wbits = w]
          \/ n = Name("codec_inflate", cf)
          \/ \E k \in ToSet(Chunks) : n = [Name("codec_inflate", cf) EXCEPT !.chunk = k]
      BY DEF FileNames
    <3>3. CASE \E l \in ToSet(codec.levels) : n = [Name("codec_deflate", cf) EXCEPT !.level = l]
      <4>1. PICK l \in ToSet(codec.levels) : n = [Name("codec_deflate", cf) EXCEPT !.level = l]
        BY <3>3
      <4>2. n = [Name("codec_deflate", cf) EXCEPT !.strategy = "", !.level = l]
        <5> DEFINE d == Name("codec_deflate", cf)
        <5>1. cf \in Words \X Words
          <6> DEFINE T == ToSet(Dirs) \X ToSet(Names)
          <6>1. corpora_files \in Ladders(T) /\ T \subseteq Words \X Words
            BY WordsAre DEF RegInv, Found
          <6> HIDE DEF T
          <6> QED BY <6>1, LadderIs
        <5>2. d \in AnyName /\ d.strategy = ""
          BY <5>1, NameParts DEF Ops
        <5>3. n = [d EXCEPT !.level = l]
          BY <4>1
        <5> HIDE DEF d
        <5>4. n = [d EXCEPT !.strategy = "", !.level = l]
          BY <5>2, <5>3, LevelOnly
        <5> QED BY <5>4 DEF d
      <4> QED BY <3>1, <4>2, StrategyPlace
    <3>4. CASE \E s : n \in StrategyNames(cf, s)
      <4>1. PICK s, l : n = [Name("codec_deflate", cf) EXCEPT !.strategy = s, !.level = l]
        BY <3>4 DEF StrategyNames
      <4> QED BY <3>1, <4>1, StrategyPlace
    <3>5. CASE \E w \in ToSet(codec.wbits) : n = [Name("codec_deflate", cf) EXCEPT !.level = 6, !.wbits = w]
      <4>1. PICK w \in ToSet(codec.wbits) : n = [Name("codec_deflate", cf) EXCEPT !.level = 6, !.wbits = w]
        BY <3>5
      <4>2. w \in Int \ {0}
        <5>1. codec.wbits \in Ladders(Int) /\ 0 \notin ToSet(codec.wbits)
          BY <2>2, LaddersAre
        <5> QED BY <4>1, <5>1, LadderIs
      <4> QED BY <3>1, <4>1, <4>2, FilePlace
    <3>6. CASE n = Name("codec_inflate", cf)
      <4>1. 1 \in Int \ {0}
        OBVIOUS
      <4> QED BY <3>1, <3>6, <4>1, FilePlace
    <3>7. CASE \E k \in ToSet(Chunks) : n = [Name("codec_inflate", cf) EXCEPT !.chunk = k]
      <4>1. PICK k \in ToSet(Chunks) : n = [Name("codec_inflate", cf) EXCEPT !.chunk = k]
        BY <3>7
      <4>2. k \in Int \ {0}
        <5>1. Chunks \in Ladders(Int) /\ 0 \notin ToSet(Chunks)
          BY <2>2, LaddersAre
        <5> QED BY <4>1, <5>1, LadderIs
      <4> QED BY <3>1, <4>1, <4>2, FilePlace
    <3> QED BY <3>2, <3>3, <3>4, <3>5, <3>6, <3>7
  <2>5. ASSUME NEW n \in SyntheticNames(codec, mask) PROVE NameAt(PlaceOf(n)) = n
    <3>1. (\E t : n \in TypeNames(codec, t)) \/ n \in DistNames(codec)
      BY DEF SyntheticNames
    <3>2. CASE \E t : n \in TypeNames(codec, t)
      <4>1. PICK t, x : \/ n = [Name("codec_deflate", <<"data", t>>) EXCEPT !.level = x]
                        \/ n = [Name("codec_inflate", <<"data", t>>) EXCEPT !.size = x]
        BY <3>2 DEF TypeNames
      <4> QED BY <4>1, TypePlace
    <3>3. CASE n \in DistNames(codec)
      <4>1. \/ \E d \in ToSet(InflateDists) : n = [Name("codec_inflate", <<"data", "dist">>) EXCEPT !.dist = d]
            \/ \E d \in ToSet(DeflateDists) : n \in DistDeflates(codec, d)
        BY <3>3 DEF DistNames
      <4>2. CASE \E d \in ToSet(InflateDists) : n = [Name("codec_inflate", <<"data", "dist">>) EXCEPT !.dist = d]
        <5>1. PICK d \in ToSet(InflateDists) : n = [Name("codec_inflate", <<"data", "dist">>) EXCEPT !.dist = d]
          BY <4>2
        <5>3. d \in Int \ {0}
          <6>1. InflateDists \in Ladders(Int) /\ 0 \notin ToSet(InflateDists)
            BY <2>2, LaddersAre
          <6> QED BY <5>1, <6>1, LadderIs
        <5>2. n = [Name("codec_inflate", <<"data", "dist">>) EXCEPT !.dist = d, !.level = -1]
          <6> DEFINE i == Name("codec_inflate", <<"data", "dist">>)
          <6>1. i \in AnyName /\ i.level = -1
            BY WordsAre, TypesAre, NameParts DEF Ops
          <6>2. n = [i EXCEPT !.dist = d]
            BY <5>1
          <6> HIDE DEF i
          <6>3. n = [i EXCEPT !.dist = d, !.level = -1]
            BY <5>3, <6>1, <6>2, DistOnly
          <6> QED BY <6>3 DEF i
        <5> QED BY <5>2, <5>3, DistPlace
      <4>3. CASE \E d \in ToSet(DeflateDists) : n \in DistDeflates(codec, d)
        <5>0. PICK d \in ToSet(DeflateDists) : n \in DistDeflates(codec, d)
          BY <4>3
        <5>1. PICK l :
                n = [Name("codec_deflate", <<"data", "dist">>) EXCEPT !.dist = d, !.level = l]
          BY <5>0 DEF DistDeflates
        <5>2. d \in Int \ {0}
          <6>1. DeflateDists \in Ladders(Int) /\ 0 \notin ToSet(DeflateDists)
            BY <2>2, LaddersAre
          <6> QED BY <5>0, <6>1, LadderIs
        <5> QED BY <5>1, <5>2, DistPlace
      <4> QED BY <4>1, <4>2, <4>3
    <3> QED BY <3>1, <3>2, <3>3
  <2>6. \A n \in ToSet(registered) : NameAt(PlaceOf(n)) = n
    BY <2>1, <2>3, <2>4, <2>5 DEF AllNames
  <2> QED BY <2>1, <2>6, PlacesCounted
<1> QED BY <1>1, MainRegInv, PTL

----------------------------------------------------------------------------
(* The machine rests. *)

TypeOK ==
  /\ b \in Nat \ {0} /\ slept \in Nat
  /\ running \in {"off", "run", "report", "done"}
  /\ running = "off" => b = 1

\* The first report of the second benchmark follows one of the first; before
\* what the queue of a later one has lost there was a sleep.
Rested ==
  /\ b >= 2 => ~first_report_
  /\ running = "report" /\ queue # C!Reports(ok) =>
       ~first_report_ /\ (b >= 2 /\ cooldown => slept >= 1)
  /\ running = "run" /\ b >= 3 /\ cooldown => slept >= 1

IInv == TypeOK /\ Rested

\* Google Benchmark reports something of every benchmark.
LEMMA ReportsNotEmpty == ASSUME NEW good PROVE C!Reports(good) # <<>>
<1>1. CASE good >= 2
  <2> DEFINE s == IF aggOnly /\ good >= 2 THEN <<>> ELSE <<"runs">>
  <2>1. s \in Seq({"runs", "aggregates"}) /\ <<"aggregates">> \in Seq({"runs", "aggregates"})
    <3>1. <<>> \in Seq({"runs", "aggregates"}) /\ <<"runs">> \in Seq({"runs", "aggregates"})
      OBVIOUS
    <3>2. <<"aggregates">> \in Seq({"runs", "aggregates"})
      OBVIOUS
    <3> QED BY <3>1, <3>2
  <2>2. C!Reports(good) = s \o <<"aggregates">>
    BY <1>1 DEF C!Reports
  <2> HIDE DEF s
  <2>3. Len(s \o <<"aggregates">>) = Len(s) + 1 /\ Len(s) \in Nat
    BY <2>1, ConcatProperties
  <2> QED BY <2>2, <2>3
<1>2. CASE ~(good >= 2)
  <2>1. C!Reports(good) = <<"runs">> \o <<>>
    BY <1>2 DEF C!Reports
  <2>2. <<"runs">> \in Seq({"runs"}) /\ <<>> \in Seq({"runs"})
    OBVIOUS
  <2>3. Len(<<"runs">> \o <<>>) = 1
    BY <2>2, ConcatProperties
  <2> QED BY <2>1, <2>3
<1> QED BY <1>1, <1>2

\* Registration comes before the first benchmark.
LEMMA InitIInv == MainInit => IInv
BY DEF MainInit, C!Init, IInv, TypeOK, Rested

\* Every step of Google Benchmark and of the reporter.
LEMMA NextIInv == IInv /\ [MainNext]_<<vars, runVars>> => IInv'
<1> SUFFICES ASSUME IInv, [MainNext]_<<vars, runVars>> PROVE IInv'
  OBVIOUS
<1>1. CASE UNCHANGED runVars
  <2>1. C!Reports(ok)' = C!Reports(ok)
    BY <1>1 DEF C!Reports, runVars
  <2> QED BY <1>1, <2>1 DEF IInv, TypeOK, Rested, runVars
<1>2. CASE RunSpecifiedBenchmarks
  BY <1>2 DEF IInv, TypeOK, Rested, RunSpecifiedBenchmarks, C!Start
<1>3. CASE C!Repetition
  BY <1>3 DEF IInv, TypeOK, Rested, C!Repetition, C!options
<1>4. CASE C!EndBenchmark
  <2>1. /\ running' = "report" /\ queue' = C!Reports(ok) /\ slept' = 0
        /\ UNCHANGED <<b, first_report_>>
    BY <1>4 DEF C!EndBenchmark
  <2>2. C!Reports(ok)' = C!Reports(ok)
    BY <1>4 DEF C!EndBenchmark, C!options, C!Reports
  <2> QED BY <2>1, <2>2 DEF IInv, TypeOK, Rested
<1>5. CASE C!NextBenchmark
  <2>1. /\ running = "report" /\ queue = <<>>
        /\ UNCHANGED <<cooldown, first_report_, slept>>
    BY <1>5 DEF C!NextBenchmark, C!options
  <2>2. ~first_report_ /\ (b >= 2 /\ cooldown => slept >= 1)
    BY <2>1, ReportsNotEmpty DEF IInv, Rested
  <2>3. (running' = "run" /\ b' = b + 1) \/ (running' = "done" /\ b' = b)
    BY <1>5 DEF C!NextBenchmark
  <2> QED BY <2>1, <2>2, <2>3 DEF IInv, TypeOK, Rested
<1>6. CASE C!ReportRuns
  <2>1. /\ running = "report" /\ running' = "report"
        /\ slept' = IF cooldown /\ ~first_report_ THEN slept + 1 ELSE slept
        /\ first_report_' = FALSE
        /\ UNCHANGED <<cooldown, b, ok>>
    BY <1>6 DEF C!ReportRuns, C!options
  <2>2. b >= 2 /\ cooldown => slept' >= 1
    BY <2>1 DEF IInv, TypeOK, Rested
  <2> QED BY <2>1, <2>2 DEF IInv, TypeOK, Rested
<1> QED BY <1>1, <1>2, <1>3, <1>4, <1>5, <1>6 DEF MainNext, C!Next, runVars

\* CooldownReporter sleeps before every report but the first one, which is
\* enough from the third benchmark on, for any number of benchmarks and
\* repetitions.
THEOREM MachineRests == MainSpec => []LaterBenchmarksRested
<1>1. IInv => LaterBenchmarksRested
  BY DEF IInv, Rested, LaterBenchmarksRested, C!LaterBenchmarksRested
<1> QED BY <1>1, InitIInv, NextIInv, PTL DEF MainSpec

----------------------------------------------------------------------------
(* Every benchmark is shown. *)

Seen(i) == \E k \in 1..Len(shown) : shown[k][1] = i

Ordered ==
  \A j, k \in 1..Len(shown) :
    j < k => \/ shown[j][1] < shown[k][1]
             \/ shown[j][1] = shown[k][1] /\ shown[j][2] = "runs" /\ shown[k][2] = "aggregates"

\* Before the reports of b, between its runs and its aggregates, and after.
NotYet == \A k \in 1..Len(shown) : shown[k][1] < b
Between ==
  /\ queue = <<"aggregates">> /\ Seen(b)
  /\ \A k \in 1..Len(shown) : shown[k][1] = b => shown[k][2] = "runs"

ShowInv ==
  /\ matched \in Seq(AnyName) /\ b \in Nat \ {0}
  /\ shown \in Seq(Nat \X {"runs", "aggregates"})
  /\ running \in {"off", "run", "report", "done"}
  /\ running = "off" => b = 1 /\ shown = <<>>
  /\ running \in {"run", "report"} => b <= Len(matched)
  /\ running = "run" => NotYet
  /\ running = "report" =>
       \/ NotYet /\ queue \in {<<"runs">>, <<"aggregates">>, <<"runs", "aggregates">>}
       \/ Between
       \/ Seen(b) /\ queue = <<>>
  /\ \A k \in 1..Len(shown) : shown[k][1] <= b
  /\ \A i \in 1..(b - 1) : Seen(i)
  /\ running = "done" => \A i \in 1..Len(matched) : Seen(i)
  /\ Ordered

\* A selection has names of what it is taken from, which may have some twice.
LEMMA SelectNames ==
  ASSUME NEW S, NEW s \in Seq(S), NEW P
  PROVE  Select(s, P) \in Seq(S)
<1> DEFINE t == [i \in 1..Len(s) |-> IF s[i] \in P THEN <<s[i]>> ELSE <<>>]
<1>1. Len(s) \in Nat
  OBVIOUS
<1>2. t \in [1..Len(s) -> Seq(S)]
  <2>1. ASSUME NEW i \in 1..Len(s) PROVE t[i] \in Seq(S)
    <3>1. s[i] \in S
      OBVIOUS
    <3>2. <<s[i]>> \in Seq(S) /\ <<>> \in Seq(S)
      BY <3>1
    <3> QED BY <3>2
  <2> QED BY <2>1
<1>3. Select(s, P) = FlattenSeq(t)
  BY DEF Select, ForEach
<1> HIDE DEF t
<1> QED BY <1>1, <1>2, <1>3, FlattenProperties

\* Two sequences of one element.
LEMMA ConcatTwo ==
  ASSUME NEW S, NEW x \in S, NEW y \in S PROVE <<x>> \o <<y>> = <<x, y>>
<1>1. <<x>> \in Seq(S) /\ <<y>> \in Seq(S)
  OBVIOUS
<1> DEFINE s == <<x>>
           t == <<y>>
           u == s \o t
<1>2. u \in Seq(S) /\ Len(u) = 2 /\ u[1] = x /\ u[2] = y
  <2>1. s \in Seq(S) /\ t \in Seq(S) /\ Len(s) = 1 /\ Len(t) = 1 /\ s[1] = x /\ t[1] = y
    BY <1>1
  <2> HIDE DEF s, t
  <2>2. /\ s \o t \in Seq(S) /\ Len(s \o t) = Len(s) + Len(t)
        /\ \A i \in 1..Len(s) + Len(t) :
             (s \o t)[i] = IF i <= Len(s) THEN s[i] ELSE t[i - Len(s)]
    BY <2>1, ConcatProperties
  <2>3. Len(s \o t) = 2
    BY <2>1, <2>2
  <2>4. (s \o t)[1] = s[1] /\ (s \o t)[2] = t[1]
    BY <2>1, <2>2
  <2> QED BY <2>1, <2>2, <2>3, <2>4
<1> HIDE DEF u
<1>3. u = <<x, y>>
  BY <1>2
<1> QED BY <1>3 DEF u

\* Google Benchmark reports the runs, their aggregates, or one after the other.
LEMMA ReportsAre ==
  ASSUME NEW good PROVE C!Reports(good) \in {<<"runs">>, <<"aggregates">>, <<"runs", "aggregates">>}
<1> DEFINE S == {"runs", "aggregates"}
<1>1. "runs" \in S /\ "aggregates" \in S
  OBVIOUS
<1>2. <<"runs">> \in Seq(S) /\ <<"aggregates">> \in Seq(S)
  BY <1>1
<1> HIDE DEF S
<1>3. <<>> \o <<"aggregates">> = <<"aggregates">> /\ <<"runs">> \o <<>> = <<"runs">>
  BY <1>2, ConcatEmptySeq
<1>4. <<"runs">> \o <<"aggregates">> = <<"runs", "aggregates">>
  BY <1>1, ConcatTwo
<1> QED BY <1>3, <1>4 DEF C!Reports

\* Before the first benchmark there is nothing to show.
LEMMA InitShowInv == MainInit => ShowInv
<1> SUFFICES ASSUME MainInit PROVE ShowInv
  OBVIOUS
<1>1. matched = <<>> /\ shown = <<>> /\ b = 1 /\ running = "off"
  BY DEF MainInit, C!Init
<1>2. <<>> \in Seq(AnyName) /\ <<>> \in Seq(Nat \X {"runs", "aggregates"}) /\ Len(<<>>) = 0
  OBVIOUS
<1> QED BY <1>1, <1>2 DEF ShowInv, NotYet, Ordered

\* What is seen depends on the reports shown.
LEMMA SeenStays == ASSUME UNCHANGED shown PROVE \A i : Seen(i)' <=> Seen(i)
BY DEF Seen

\* What is left to report tells where the reports of b are.
LEMMA QueueIs ==
  ASSUME ShowInv, running = "report"
  PROVE  /\ queue = <<>> => Seen(b)
         /\ queue # <<>> =>
              /\ Head(queue) \in {"runs", "aggregates"}
              /\ \/ queue = <<"runs", "aggregates">> /\ Head(queue) = "runs" /\ NotYet
                    /\ Tail(queue) = <<"aggregates">>
                 \/ (NotYet \/ (Between /\ Head(queue) = "aggregates")) /\ Tail(queue) = <<>>
<1>1. \/ NotYet /\ queue \in {<<"runs">>, <<"aggregates">>, <<"runs", "aggregates">>}
      \/ Between /\ queue = <<"aggregates">>
      \/ Seen(b) /\ queue = <<>>
  BY DEF ShowInv, Between
<1>2. CASE queue = <<"runs">>
  <2>1. queue # <<>> /\ Head(queue) = "runs" /\ Tail(queue) = <<>>
    BY <1>2
  <2> QED BY <1>1, <1>2, <2>1
<1>3. CASE queue = <<"aggregates">>
  <2>1. queue # <<>> /\ Head(queue) = "aggregates" /\ Tail(queue) = <<>>
    BY <1>3
  <2> QED BY <1>1, <1>3, <2>1
<1>4. CASE queue = <<"runs", "aggregates">>
  <2>1. queue # <<>> /\ Head(queue) = "runs" /\ Tail(queue) = <<"aggregates">>
    BY <1>4
  <2>2. queue # <<"aggregates">>
    BY <1>4
  <2> QED BY <1>1, <1>4, <2>1, <2>2
<1>5. CASE Seen(b) /\ queue = <<>>
  BY <1>5
<1> QED BY <1>1, <1>2, <1>3, <1>4, <1>5

\* Every step of Google Benchmark and of the reporter preserves the invariant; what
\* is matched are names of what is registered.
LEMMA NextShowInv == RegInv /\ ShowInv /\ [MainNext]_<<vars, runVars>> => ShowInv'
<1> SUFFICES ASSUME RegInv, ShowInv, [MainNext]_<<vars, runVars>> PROVE ShowInv'
  OBVIOUS
<1>0. Len(shown) \in Nat /\ Len(matched) \in Nat
  BY DEF ShowInv
<1>1. CASE UNCHANGED runVars
  <2>1. UNCHANGED <<matched, running, b, queue, shown>>
    BY <1>1 DEF runVars
  <2>2. /\ \A i : Seen(i)' <=> Seen(i)
        /\ Ordered' = Ordered /\ NotYet' = NotYet /\ Between' = Between
    BY <2>1, SeenStays DEF Ordered, NotYet, Between, Seen
  <2> QED BY <2>1, <2>2 DEF ShowInv
<1>2. CASE RunSpecifiedBenchmarks
  <2>1. PICK pattern \in Patterns : C!Start(Select(registered, pattern))
    BY <1>2 DEF RunSpecifiedBenchmarks
  <2>2. Select(registered, pattern) \in Seq(AnyName)
    BY SelectNames DEF RegInv, Registered
  <2>3. /\ running = "off" /\ matched' = Select(registered, pattern)
        /\ running' = (IF matched' = <<>> THEN "done" ELSE "run")
        /\ UNCHANGED <<b, queue, shown>>
    BY <2>1 DEF C!Start
  <2>4. b = 1 /\ shown = <<>> /\ Len(shown) = 0
    BY <2>3 DEF ShowInv
  <2>5. matched' \in Seq(AnyName) /\ Len(matched') \in Nat
        /\ (matched' # <<>> => Len(matched') >= 1) /\ (matched' = <<>> => Len(matched') = 0)
    BY <2>2, <2>3
  <2> QED BY <2>3, <2>4, <2>5 DEF ShowInv, NotYet, Ordered
<1>3. CASE C!Repetition
  <2>1. /\ running = "run" /\ running' = "run" /\ UNCHANGED <<matched, b, queue, shown>>
    BY <1>3 DEF C!Repetition, C!options
  <2>2. (\A i : Seen(i)' <=> Seen(i)) /\ Ordered' = Ordered /\ NotYet' = NotYet
    BY <2>1, SeenStays DEF Ordered, NotYet
  <2> QED BY <2>1, <2>2 DEF ShowInv
<1>4. CASE C!EndBenchmark
  <2>1. /\ running = "run" /\ running' = "report" /\ queue' = C!Reports(ok)
        /\ UNCHANGED <<matched, b, shown>>
    BY <1>4 DEF C!EndBenchmark, C!options
  <2>2. queue' \in {<<"runs">>, <<"aggregates">>, <<"runs", "aggregates">>}
    BY <2>1, ReportsAre
  <2>3. NotYet'
    BY <2>1 DEF ShowInv, NotYet
  <2>4. (\A i : Seen(i)' <=> Seen(i)) /\ Ordered' = Ordered
    BY <2>1, SeenStays DEF Ordered
  <2> QED BY <2>1, <2>2, <2>3, <2>4 DEF ShowInv
<1>5. CASE C!NextBenchmark
  <2>1. /\ running = "report" /\ queue = <<>> /\ UNCHANGED <<matched, queue, shown>>
        /\ IF b < Len(matched) THEN running' = "run" /\ b' = b + 1
                               ELSE running' = "done" /\ b' = b
    BY <1>5 DEF C!NextBenchmark, C!options
  <2>2. Seen(b)
    BY <2>1, QueueIs
  <2>3. (\A i : Seen(i)' <=> Seen(i)) /\ Ordered' = Ordered
    BY <2>1, SeenStays DEF Ordered
  <2>4. \A i \in 1..b : Seen(i)
    BY <2>2 DEF ShowInv
  <2>5. CASE b < Len(matched)
    <3>1. NotYet'
      BY <2>1, <2>5 DEF ShowInv, NotYet
    <3> QED BY <2>1, <2>3, <2>4, <2>5, <3>1 DEF ShowInv
  <2>6. CASE ~(b < Len(matched))
    <3>1. b = Len(matched)
      BY <2>1, <2>6 DEF ShowInv
    <3> QED BY <2>1, <2>3, <2>4, <2>6, <3>1 DEF ShowInv
  <2> QED BY <2>5, <2>6
<1>6. CASE C!ReportRuns
  <2>1. /\ running = "report" /\ queue # <<>> /\ running' = "report"
        /\ shown' = Append(shown, <<b, Head(queue)>>) /\ queue' = Tail(queue)
        /\ UNCHANGED <<matched, b>>
    BY <1>6 DEF C!ReportRuns, C!options
  <2>2. /\ Head(queue) \in {"runs", "aggregates"}
        /\ \/ queue = <<"runs", "aggregates">> /\ Head(queue) = "runs" /\ NotYet
              /\ Tail(queue) = <<"aggregates">>
           \/ (NotYet \/ (Between /\ Head(queue) = "aggregates")) /\ Tail(queue) = <<>>
    BY <2>1, QueueIs
  <2>3. /\ shown' \in Seq(Nat \X {"runs", "aggregates"}) /\ Len(shown') = Len(shown) + 1
        /\ \A k \in 1..Len(shown) : shown'[k] = shown[k]
        /\ shown'[Len(shown) + 1] = <<b, Head(queue)>>
    <3> DEFINE T == Nat \X {"runs", "aggregates"}
               e == <<b, Head(queue)>>
    <3>1. shown \in Seq(T) /\ e \in T
      BY <2>2 DEF ShowInv
    <3> HIDE DEF T
    <3>2. /\ Append(shown, e) \in Seq(T) /\ Len(Append(shown, e)) = Len(shown) + 1
          /\ \A k \in 1..Len(shown) : Append(shown, e)[k] = shown[k]
          /\ Append(shown, e)[Len(shown) + 1] = e
      BY <3>1
    <3> QED BY <2>1, <3>2 DEF T
  <2>4. Seen(b)' /\ \A i : Seen(i) => Seen(i)'
    <3>1. 1..Len(shown) \subseteq 1..Len(shown') /\ Len(shown) + 1 \in 1..Len(shown')
      BY <1>0, <2>3
    <3>2. shown'[Len(shown) + 1][1] = b
      BY <2>3
    <3>3. Seen(b)'
      BY <2>1, <3>1, <3>2 DEF Seen
    <3> QED BY <2>3, <3>1, <3>3 DEF Seen
  <2>5. \A k \in 1..Len(shown') : shown'[k][1] <= b
    <3> TAKE k \in 1..Len(shown')
    <3>1. CASE k \in 1..Len(shown)
      BY <2>3, <3>1 DEF ShowInv
    <3>2. CASE k = Len(shown) + 1
      BY <2>3, <3>2 DEF ShowInv
    <3> QED BY <1>0, <2>3, <3>1, <3>2
  <2>6. Ordered'
    <3> SUFFICES ASSUME NEW j \in 1..Len(shown'), NEW k \in 1..Len(shown'), j < k
                 PROVE  \/ shown'[j][1] < shown'[k][1]
                        \/ shown'[j][1] = shown'[k][1] /\ shown'[j][2] = "runs"
                           /\ shown'[k][2] = "aggregates"
      BY DEF Ordered
    <3>1. j \in 1..Len(shown) /\ shown'[j] = shown[j]
      BY <1>0, <2>3
    <3>2. CASE k \in 1..Len(shown)
      <4>1. \/ shown[j][1] < shown[k][1]
            \/ shown[j][1] = shown[k][1] /\ shown[j][2] = "runs" /\ shown[k][2] = "aggregates"
        BY <3>1, <3>2 DEF ShowInv, Ordered
      <4>2. shown'[j] = shown[j] /\ shown'[k] = shown[k]
        BY <2>3, <3>1, <3>2
      <4> QED BY <4>1, <4>2, Zenon
    <3>3. CASE k = Len(shown) + 1
      <4>1. shown'[k][1] = b /\ shown'[k][2] = Head(queue)
        BY <2>3, <3>3
      <4>2. shown[j] \in Nat \X {"runs", "aggregates"} /\ b \in Nat /\ shown[j][1] <= b
        BY <3>1 DEF ShowInv
      <4>3. \/ shown[j][1] < b
            \/ shown[j][1] = b /\ shown[j][2] = "runs" /\ Head(queue) = "aggregates"
        BY <2>2, <3>1, <4>2 DEF NotYet, Between
      <4>4. shown'[j][1] = shown[j][1] /\ shown'[j][2] = shown[j][2]
        BY <3>1
      <4>5. CASE shown[j][1] < b
        <5>1. shown'[j][1] < shown'[k][1]
          BY <4>1, <4>4, <4>5
        <5> QED BY <5>1
      <4>6. CASE shown[j][1] = b /\ shown[j][2] = "runs" /\ Head(queue) = "aggregates"
        BY <4>1, <4>4, <4>6, Zenon
      <4> QED BY <4>3, <4>5, <4>6
    <3>4. k \in 1..Len(shown) \/ k = Len(shown) + 1
      BY <1>0, <2>3
    <3> QED BY <3>2, <3>3, <3>4
  <2>7. (Between \/ (Seen(b) /\ queue = <<>>))'
    <3>1. CASE queue = <<"runs", "aggregates">> /\ Head(queue) = "runs" /\ NotYet
               /\ Tail(queue) = <<"aggregates">>
      <4>1. ASSUME NEW k \in 1..Len(shown'), shown'[k][1] = b
            PROVE  shown'[k][2] = "runs"
        <5>1. CASE k \in 1..Len(shown)
          <6>1. shown[k] \in Nat \X {"runs", "aggregates"} /\ shown[k][1] < b /\ b \in Nat
            BY <3>1, <5>1 DEF NotYet, ShowInv
          <6> QED BY <2>3, <4>1, <5>1, <6>1
        <5>2. CASE k = Len(shown) + 1
          BY <2>3, <3>1, <5>2
        <5> QED BY <1>0, <2>3, <5>1, <5>2
      <4> QED BY <2>1, <2>4, <3>1, <4>1 DEF Between
    <3>2. CASE Tail(queue) = <<>>
      BY <2>1, <2>4, <3>2
    <3> QED BY <2>2, <3>1, <3>2
  <2> QED BY <2>1, <2>3, <2>4, <2>5, <2>6, <2>7 DEF ShowInv
<1> QED BY <1>1, <1>2, <1>3, <1>4, <1>5, <1>6 DEF MainNext, C!Next, runVars

\* Whatever fails and however results are aggregated, every benchmark the filter
\* lets through gets to the reporter CooldownReporter wraps, once, in the order
\* of registration, runs before aggregates.
THEOREM EachIsReported == MainSpec => []EveryBenchmarkShown
<1>1. ShowInv => EveryBenchmarkShown
  <2> SUFFICES ASSUME ShowInv PROVE C!EveryBenchmarkShown
    BY DEF EveryBenchmarkShown
  <2>1. DOMAIN matched = 1..Len(matched) /\ DOMAIN shown = 1..Len(shown)
    BY DEF ShowInv
  <2> QED BY <2>1 DEF ShowInv, Ordered, Seen, C!EveryBenchmarkShown
<1> QED BY <1>1, InitShowInv, NextShowInv, MainRegInv, PTL DEF MainSpec
=============================================================================
