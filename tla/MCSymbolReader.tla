--------------------------- MODULE MCSymbolReader ---------------------------
(* Three bytes, without a period so that a bit taken from the wrong place    *)
(* shows: 13 bits at a time leave one to read across all of them.  The first *)
(* two hold every run of four bits.                                          *)
EXTENDS SymbolReader

Bits8(n) == [k \in 0..7 |-> (n \div 2^k) % 2]
MCIn == [i \in 0..2 |-> Bits8(<<144, 245, 77>>[i + 1])]
=============================================================================
