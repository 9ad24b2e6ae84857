-------------------------- MODULE MCBenchmarkMain --------------------------
(* Three backends with the macros of benchmark_codec.h (zlib-ng), isal.h and *)
(* slz.h, the level ladders shortened; one tree for every kind of entry.     *)
EXTENDS BenchmarkMain

MCCodecs ==
  {[crc32 |-> TRUE, adler32 |-> TRUE, inflate |-> TRUE, chunked |-> TRUE,
    levels |-> <<0, 1, 6>>, strategies |-> <<"filtered", "huffman", "rle", "fixed">>,
    wbits |-> <<8, 15>>],
   [crc32 |-> TRUE, adler32 |-> TRUE, inflate |-> TRUE, chunked |-> FALSE,
    levels |-> <<0, 3>>, strategies |-> <<>>, wbits |-> <<>>],
   [crc32 |-> TRUE, adler32 |-> TRUE, inflate |-> FALSE, chunked |-> FALSE,
    levels |-> <<1>>, strategies |-> <<>>, wbits |-> <<>>]}

MCDirs  == <<".git", "a", "data">>
MCNames == <<".x", "f", "text">>

MCTrees ==
  {[dir |-> [d \in ToSet(MCDirs) |-> IF d = "data" THEN k ELSE "dir"],
    file |-> [q \in ToSet(MCDirs) \X ToSet(MCNames) |->
                IF q[2] = "f" THEN f ELSE IF q[2] = "text" THEN g ELSE "regular"]]
     : k \in {"none", "dir", "other"}, f \in {"none", "regular", "other"},
       g \in {"regular", "empty"}}

Tokens == {"", "text", "striped_rgb", "dist", "all", "bogus"}
MCOptions == {NULL} \cup Tokens \X Tokens \cup {<<t>> : t \in Tokens}
               \cup {<<"text", "dist", t>> : t \in Tokens}
MCSizes == <<64, 2097152>>
MCChunks == <<4096, 65536>>
MCInflateDists == <<1, 40, 258>>
MCDeflateDists == <<1, 258>>

\* The deflate rows of one data type, one to three of them or none.
MCPatterns ==
  {{[Name("codec_deflate", <<"data", "striped_rgb">>) EXCEPT !.level = v] : v \in {0, 1, 3, 6}}}
=============================================================================
