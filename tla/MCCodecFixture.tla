--------------------------- MODULE MCCodecFixture ---------------------------
(* A corpus file shared by a deflate and an inflate benchmark, a synthetic   *)
(* deflate and a synthetic inflate benchmark, and a checksum.  With Width 4  *)
(* the file fits the 32-bit length fields and the synthetic inputs, one byte *)
(* longer than Width, wrap to a length of 1.                                *)
EXTENDS CodecFixture

CONSTANTS f1, d1, d2, i1, i2, k1

MCKind == [b \in {d1, d2, i1, i2, k1} |->
             CASE b \in {d1, d2} -> "deflate" [] b = k1 -> "checksum" [] OTHER -> "inflate"]
MCCf   == [b \in {d1, d2, i1, i2, k1} |-> IF b \in {d1, i1} THEN f1 ELSE b]
MCSize == [s \in {f1, d1, d2, i1, i2, k1} |-> IF s = f1 THEN 3 ELSE 5]
=============================================================================
