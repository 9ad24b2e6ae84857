--------------------------- MODULE MCDeflateWalker ---------------------------
(* Codes of 7 bits, as the end-of-block code of the fixed tree is: eight     *)
(* bytes hold a dynamic header whose 258 lengths are two runs of symbol 18   *)
(* and an empty block, or a fixed block with four matches.                  *)
EXTENDS DeflateWalker

MCExtras(e) == IF e = 7 THEN {109, 127} ELSE {0, Pow2[e + 1] - 1}
=============================================================================
