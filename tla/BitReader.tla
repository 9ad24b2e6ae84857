------------------------------ MODULE BitReader ------------------------------
(***************************************************************************)
(* The bit reader of src/deflate_stats.h: dstats_state, dstats_pos,         *)
(* dstats_bits, and the way the walker steps over a stored block.           *)
(*                                                                         *)
(* bitbuf is kept as the function from 0..bitcnt-1 to the bits it holds:    *)
(* or-ing a byte in at bitcnt appends its eight bits, the mask takes the    *)
(* first need of them and the shift drops these.  That is what the C        *)
(* expressions do as long as no bit is shifted out of the 32 (NoBitLost).   *)
(***************************************************************************)
EXTENDS Integers

CONSTANTS in, InLen, Needs, Fail

Byte == [0..7 -> {0, 1}]

ASSUME LenAssumption   == InLen \in Nat
ASSUME InAssumption    == in \in [0..(InLen - 1) -> Byte]
ASSUME NeedsAssumption == Needs \subseteq 0..13
ASSUME FailAssumption  == \A m \in 0..13 : Fail \notin [0..(m - 1) -> {0, 1}]

VARIABLES
  in_pos,   (* bytes taken from the input                                  *)
  bitcnt,   (* bits of them not yet consumed                               *)
  bitbuf,   (* these bits                                                  *)
  val,      (* what the last call returned                                 *)
  failed    (* whether a call has failed: the walk is about to return -1   *)

vars == <<in_pos, bitcnt, bitbuf, val, failed>>

\* Bits consumed so far.
dstats_pos == in_pos * 8 - bitcnt

----------------------------------------------------------------------------
\* Bytes the loop of dstats_bits fetches to have need bits.
Wanted(need) == IF bitcnt >= need THEN 0 ELSE (need - bitcnt + 7) \div 8

\* bitbuf after n more bytes.
Filled(n) ==
  [k \in 0..(bitcnt + 8 * n - 1) |->
     IF k < bitcnt THEN bitbuf[k]
     ELSE in[in_pos + (k - bitcnt) \div 8][(k - bitcnt) % 8]]

\* The walker looks at a result before the next call, except that it reads the
\* two fields of a block header and the three of a tree header together.
MayAsk(need) == failed => need \in {2, 4, 5}

Init == in_pos = 0 /\ bitcnt = 0 /\ bitbuf = <<>> /\ val = <<>> /\ failed = FALSE

\* Mutant: the consumed bits stay in the buffer.
BitsNoShift(need) ==
  LET n == Wanted(need) IN
  /\ MayAsk(need)
  /\ in_pos + n <= InLen
  /\ in_pos' = in_pos + n
  /\ val' = [k \in 0..(need - 1) |-> Filled(n)[k]]
  /\ bitcnt' = bitcnt + 8 * n - need
  /\ bitbuf' = [k \in 0..(bitcnt + 8 * n - need - 1) |-> Filled(n)[k]]
  /\ UNCHANGED failed

\* dstats_bits when the input lasts.
Bits(need) ==
  LET n == Wanted(need) IN
  /\ MayAsk(need)
  /\ in_pos + n <= InLen
  /\ in_pos' = in_pos + n
  /\ val' = [k \in 0..(need - 1) |-> Filled(n)[k]]
  /\ bitcnt' = bitcnt + 8 * n - need
  /\ bitbuf' = [k \in 0..(bitcnt + 8 * n - need - 1) |-> Filled(n)[k + need]]
  /\ UNCHANGED failed

\* Mutant: the bits of a read that fails are gone.
BitsFailDrops(need) ==
  /\ MayAsk(need)
  /\ Wanted(need) > InLen - in_pos
  /\ in_pos' = InLen
  /\ bitcnt' = 0 /\ bitbuf' = <<>>
  /\ val' = Fail /\ failed' = TRUE

\* dstats_bits when it does not: what is left has been fetched by then.
BitsFail(need) ==
  LET left == InLen - in_pos IN
  /\ MayAsk(need)
  /\ Wanted(need) > left
  /\ in_pos' = InLen
  /\ bitcnt' = bitcnt + 8 * left
  /\ bitbuf' = Filled(left)
  /\ val' = Fail /\ failed' = TRUE

\* A stored block: bitbuf and bitcnt are dropped, then in_pos steps over the
\* header and the data once both are known to be inside the input.
Stored(n) ==
  /\ ~failed
  /\ in_pos + n <= InLen
  /\ in_pos' = in_pos + n
  /\ bitcnt' = 0 /\ bitbuf' = <<>>
  /\ val' = <<>>
  /\ UNCHANGED failed

Next ==
  \/ \E need \in Needs : Bits(need) \/ BitsFail(need)
  \/ \E n \in 0..InLen : Stored(n)

Spec == Init /\ [][Next]_vars

----------------------------------------------------------------------------
TypeOK ==
  /\ in_pos \in 0..InLen
  /\ bitcnt \in Nat
  /\ bitbuf \in [0..(bitcnt - 1) -> {0, 1}]
  /\ failed \in BOOLEAN
  /\ val = Fail \/ \E m \in 0..13 : val \in [0..(m - 1) -> {0, 1}]

Src == INSTANCE BitSource WITH pos <- dstats_pos

(* Between calls the buffer holds less than one byte.  A stored block drops  *)
(* the buffer whole to align itself: with a byte or more in it that would    *)
(* lose input and shift every count of the walk.                            *)
LessThanAByte == ~failed => bitcnt < 8

(* Whatever mix of reads, failures and stored blocks, the buffer holds the   *)
(* bits of the stream from dstats_pos on, and never more than fit the 32     *)
(* bits of bitbuf with a byte to spare for the next shift.                  *)
NoBitLost ==
  /\ bitcnt <= 24
  /\ \A k \in 0..(bitcnt - 1) : bitbuf[k] = Src!StreamBit(dstats_pos + k)

(* The reader implements BitSource: every call returns the next bits of the  *)
(* stream, or fails without consuming any.                                  *)
ImplementsBitSource == Src!Spec
=============================================================================
