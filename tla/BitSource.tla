------------------------------ MODULE BitSource ------------------------------
(***************************************************************************)
(* What the bit reader of src/deflate_stats.h promises its callers: the     *)
(* input is one sequence of bits, low bit of each byte first, and a read of *)
(* need bits yields the next need of them or, when fewer are left, fails    *)
(* and takes none.                                                         *)
(***************************************************************************)
EXTENDS Integers

CONSTANTS
  in,       (* the input: a function from 0..InLen-1 to bytes, and a byte  *)
  InLen,    (* is a function from 0..7 to {0, 1}                           *)
  Needs,    (* the numbers of bits callers ask for                         *)
  Fail      (* the value -1                                                *)

VARIABLES pos, val

TotalBits == 8 * InLen
StreamBit(i) == in[i \div 8][i % 8]

\* The bits from p on, need of them.
BitsAt(p, need) == [k \in 0..(need - 1) |-> StreamBit(p + k)]

Init == pos = 0 /\ val = <<>>

Take(need) ==
  /\ pos + need <= TotalBits
  /\ pos' = pos + need
  /\ val' = BitsAt(pos, need)

Refuse(need) ==
  /\ pos + need > TotalBits
  /\ val' = Fail
  /\ UNCHANGED pos

\* To the next byte boundary and over n bytes, all of them there.
SkipBytes(n) ==
  LET aligned == 8 * ((pos + 7) \div 8) IN
  /\ aligned + 8 * n <= TotalBits
  /\ pos' = aligned + 8 * n
  /\ val' = <<>>

Next ==
  \/ \E need \in Needs : Take(need) \/ Refuse(need)
  \/ \E n \in 0..InLen : SkipBytes(n)

Spec == Init /\ [][Next]_<<pos, val>>
=============================================================================
