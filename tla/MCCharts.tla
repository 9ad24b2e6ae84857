------------------------------ MODULE MCCharts ------------------------------
(* Small inputs for each of the scripts that draw.                           *)
EXTENDS Charts, Integers, SequencesExt

\* Tar archives with directories, empty and unaligned members, and no archive.
Entry(regular, size) == [regular |-> regular, size |-> size]
MCArchives ==
  {<<>>, <<Entry(TRUE, 5), Entry(FALSE, 0), Entry(TRUE, 3)>>,
   <<Entry(TRUE, 2), Entry(TRUE, 0), Entry(TRUE, 6)>>, <<Entry(TRUE, 9), Entry(TRUE, 0)>>}
MCLengths  == 3..32
MCInserted == {0..40, {x \in 0..40 : x % 3 = 0}, {x \in 0..40 : x % 5 \in {1, 2}}, {}}

\* All files of up to eleven bytes, of two values.
MCFiles    == UNION {[1..n -> {0, 1}] : n \in 1..11}
MCDistCaps == <<1, 2>>
MCLenCaps  == <<2, 3, 99>>

----------------------------------------------------------------------------
(* Rows of results, by name. *)

Named(op, label) == [op |-> op, label |-> label, dist |-> 0, level |-> -1,
                     strategy |-> "", wbits |-> 0, size |-> 0, chunk |-> 0]
Tar  == {<<"tars", "x">>}
FG   == {<<"c", "f">>, <<"c", "g">>}
GH   == {<<"c", "g">>, <<"c", "h">>}
MCFilters == {Tar \cup FG \cup GH}

Deflate(labels, lvls) ==
  {[Named("codec_deflate", l) EXCEPT !.level = v] : l \in labels, v \in lvls}
Rle(labels)     == {[n EXCEPT !.strategy = "rle"] : n \in Deflate(labels, {6})}
Inflate(labels) == {Named("codec_inflate", l) : l \in labels}

Deflates == {Deflate(Tar, {0}), Deflate(Tar \cup FG, {6, 9}), Deflate(GH, {0, 6, 9}),
             Deflate(FG, {1, 6}) \cup Rle(FG), Rle(Tar), {}}
Inflates == {{}, Inflate(Tar), Inflate(FG), Inflate(Tar \cup GH)}
Wbits    == {[n EXCEPT !.wbits = 15] : n \in Deflate(FG, {6})}
Chunked  == {[n EXCEPT !.chunk = 4096] : n \in Inflate(FG \cup Tar)}
Sums     == {[Named(op, <<"", "">>) EXCEPT !.size = 64] : op \in {"codec_crc32", "codec_adler32"}}
Types    == Deflate({"data"} \X {"text", "dna", "runs"}, {0, 1}) \cup Inflate({<<"data", "text">>})
Periods  == {[n EXCEPT !.dist = 4] : n \in Deflate({<<"data", "dist">>}, {1, 6})
                                           \cup Inflate({<<"data", "dist">>})}
Extras   == {{}, Chunked, Wbits, Wbits \cup Chunked, Sums, Types, Sums \cup Types \cup Periods,
             Wbits \cup Chunked \cup Sums \cup Types \cup Periods}

\* Stream counters: none, the same at all levels, and differing ones.
None  == [l \in {0, 1, 6, 9} |-> <<0, 0, 0>>]
Equal == [l \in {0, 1, 6, 9} |-> <<50, 20, 30>>]
Some  == [l \in {0, 1, 6, 9} |-> <<50 + l, 20 - l, 30 + l>>]

Result(n, names, syms, mem) == [name |-> n, rows |-> names, syms |-> syms, mem |-> mem, cp |-> mem]

MCResults ==
  {<<Result("a", d \cup i \cup x, s, m),
     Result("madler_zlib", e \cup Inflate(Tar \cup GH) \cup x, s, m)>>
     : d \in Deflates, e \in Deflates, i \in {{}, Inflate(FG)}, x \in Extras,
       s \in {None, Equal, Some}, m \in BOOLEAN}
  \cup {<<Result("a", d \cup i, Some, TRUE), Result("b", e \cup Inflate(GH) \cup Wbits \cup Types, Some, FALSE),
          Result("c", f \cup i \cup Sums, None, TRUE)>>
          : d \in Deflates, e \in Deflates, f \in Deflates, i \in Inflates}
  \cup {<<Result("a", Deflate(Tar, {6}) \cup Inflate(FG), None, TRUE),
          Result("b", Deflate(Tar, {6}) \cup Inflate(GH), None, TRUE),
          Result("c", Deflate(Tar, {6}) \cup Inflate({<<"c", "f">>, <<"c", "h">>}), None, TRUE)>>}
  \cup {[q \in 1..n |-> Result("a", Deflate(Tar \cup FG, {6, 9}), None, TRUE)] : n \in {1, 10, 11}}

\* compare_levels.py looks at deflate rows alone.
MCLadders ==
  {<<Result("a", d, None, TRUE), Result("b", e, None, TRUE)>> : d \in Deflates, e \in Deflates}
  \cup {<<Result("a", d, None, TRUE), Result("b", e, None, TRUE), Result("c", f, None, TRUE)>>
          : d \in Deflates, e \in Deflates, f \in Deflates}
  \cup {[q \in 1..n |-> Result("a", Deflate(Tar, {6, 9}), None, TRUE)] : n \in {1, 11}}
MCKept ==
  {[strategies |-> s, levels |-> l]
     : s \in {ALL, {"default"}, {"rle"}, {"fixed"}}, l \in {ALL, {6, 9}, {0}, {2}}}

----------------------------------------------------------------------------
(* Two runs with times around the noise of 1 and of 3 percent. *)

Row(name, size, time, cv) == [name |-> name, size |-> size, time |-> time, cv |-> cv]
At(l, v)  == [Named("codec_deflate", l) EXCEPT !.level = v]
Text      == <<"data", "text">>
Measures  == {<<1000, 100, 0>>, <<1000, 99, 0>>, <<999, 97, 1>>, <<1001, 98, 0>>, <<0, 100, 0>>}
OfText(m, n) == {Row(At(Text, 1), m[1], m[2], m[3]), Row(At(Text, 6), n[1], n[2], n[3])}
Others    == {{}, {Row(At(<<"c", "f">>, 6), 500, 50, 0), Row([At(<<"data", "dist">>, 6) EXCEPT !.dist = 4], 7, 7, 0)},
              {Row(At(<<"c", "f">>, 1), 500, 60, 0), Row([At(<<"c", "f">>, 6) EXCEPT !.wbits = 15], 1, 1, 0)}}
MCPairs   ==
  {<<OfText(m, n) \cup o, OfText(j, k) \cup p>>
     : m \in Measures, n \in Measures, j \in Measures, k \in Measures, o \in Others, p \in Others}
MCLabels  == {<<Text, 0>>, <<<<"c", "f">>, 0>>, <<<<"data", "dist">>, 4>>}
MCCalls   ==
  {[script |-> "inputs", filter |-> MCLabels, levels |-> l, columns |-> 1, width |-> w]
     : l \in {ALL, {6}}, w \in {60, 400}}
  \cup {[script |-> "inputs", filter |-> {<<Text, 0>>}, levels |-> {1}, columns |-> 1, width |-> 60]}
  \cup {[script |-> "frontier", filter |-> f, levels |-> ALL, columns |-> c, width |-> 60]
          : f \in {MCLabels, {<<Text, 0>>}}, c \in {0, 2}}

----------------------------------------------------------------------------
MCSlots == UNION {[s -> 0..7] : s \in SUBSET (1..4)}
MCDots  == UNION {[1..n -> {<<0, 0>>, <<3, 0>>, <<5, 0>>, <<0, 9>>}] : n \in 1..5}
=============================================================================
