---------------------------- MODULE SymbolReader ----------------------------
(***************************************************************************)
(* The bit reader and the symbol decoder of src/deflate_stats.h together:   *)
(* dstats_decode takes its bits from dstats_bits one at a time, between the *)
(* other reads of the walk and the steps over stored blocks.                *)
(***************************************************************************)
EXTENDS BitReader, Sequences

CONSTANTS NSyms, MaxLen, Reading, NoCode, NoInput

ASSUME NSymsAssumption  == NSyms \in Nat \ {0}
ASSUME MaxLenAssumption == MaxLen \in Nat \ {0}
ASSUME BitAssumption    == 1 \in Needs
ASSUME ResultAssumption == /\ Reading \notin {NoCode, NoInput} /\ NoCode # NoInput
                           /\ {Reading, NoCode, NoInput} \cap (0..(NSyms - 1)) = {}

VARIABLES
  lengths, h, len, code, first, index, read, result, (* as in HuffmanCode   *)
  from                             (* history: where the code begins        *)

readerVars  == <<in_pos, bitcnt, bitbuf, val, failed>>
decoderVars == <<lengths, h, len, code, first, index, read, result>>

H == INSTANCE HuffmanCode

SymbolInit == Init /\ H!Init /\ from = 0

DecodeBit ==
  /\ Bits(1) /\ H!Step(val'[0])
  /\ from' = IF read = <<>> THEN dstats_pos ELSE from

DecodeFails == BitsFail(1) /\ H!InputEnds /\ UNCHANGED from

\* dstats_decode has returned a symbol; the walk asks for something else.
Decoded == H!Again /\ UNCHANGED <<readerVars, from>>

\* Other reads, between two symbols; there are none if a table did not build.
OtherRead ==
  /\ h.ok /\ result = Reading /\ read = <<>>
  /\ \/ \E need \in Needs : Bits(need) \/ BitsFail(need)
     \/ \E n \in 0..InLen : Stored(n)
  /\ UNCHANGED <<decoderVars, from>>

SymbolNext == DecodeBit \/ DecodeFails \/ Decoded \/ OtherRead

SymbolSpec == SymbolInit /\ [][SymbolNext]_<<readerVars, decoderVars, from>>

----------------------------------------------------------------------------
(* Code lengths are refused exactly when their codes do not fit the tree.    *)
(* With lengths that do, what dstats_decode returns is the symbol whose code *)
(* word stands in the stream where the read began, and no bit after it has   *)
(* been consumed; it gives up only on bits that begin with no code word or   *)
(* where the stream ends, and never reads its table outside the slots of the *)
(* length it has come to.                                                   *)
DecodesTheCode ==
  /\ H!BuildAcceptsKraft
  /\ H!DecodesCodeWord /\ H!FailsOnlyOffCode /\ H!LookupInBounds
  /\ read # <<>> =>
       /\ \A k \in DOMAIN read : read[k] = Src!StreamBit(from + k - 1)
       /\ ~failed => dstats_pos = from + Len(read)
  /\ result = NoInput => 8 * InLen - dstats_pos = 0
=============================================================================
