----------------------------- MODULE MCRunClean -----------------------------
(* Two benchmarks, the name of one a prefix of the other's, as               *)
(* .../level:1 and .../level:1/strategy:rle are.                             *)
EXTENDS RunClean

MCLonger(n) == IF n = "level:1" THEN {"level:1/rle"} ELSE {}
=============================================================================
