---------------------------- MODULE Measurement ----------------------------
(***************************************************************************)
(* What one process of the benchmark promises its reader, with no word on   *)
(* buffers, codecs or caches: benchmarks run one at a time, and a run ends  *)
(* either in an error or in a number that stands for every byte of its      *)
(* input.  Two numbers for the same corpus file stand for the same bytes,   *)
(* otherwise they could not be compared.                                    *)
(*                                                                         *)
(* CodecFixture implements this specification.                              *)
(***************************************************************************)
EXTENDS Integers

CONSTANTS
  Benches,  (* the registered benchmarks                                   *)
  Files,    (* the corpus files, shared by the benchmarks that read them   *)
  Cf,       (* the input of a benchmark: a corpus file, or its own data    *)
  Size,     (* the size of every input                                     *)
  Errors,   (* the messages a run can be skipped with                      *)
  None

VARIABLES
  running,  (* the benchmark being measured, or None                       *)
  report    (* the last result of every benchmark                          *)

mvars == <<running, report>>

\* A result for all `Size` bytes of some version of the input of b.
Whole(b, r) ==
  /\ r.res = "ok"
  /\ r.bytes.src = Cf[b]
  /\ r.bytes.n = Size[Cf[b]]

\* No other benchmark holds a result for different bytes of the same file.
Agrees(b, r) ==
  \A c \in Benches :
    (Cf[b] \in Files /\ Cf[c] = Cf[b] /\ report[c].res = "ok")
      => report[c].bytes = r.bytes

Init ==
  /\ running = None
  /\ report = [b \in Benches |-> [res |-> "none", bytes |-> None]]

Begin(b) ==
  /\ running = None
  /\ running' = b
  /\ UNCHANGED report

Finish(b) ==
  /\ running = b
  /\ running' = None
  /\ \A c \in Benches \ {b} : report'[c] = report[c]
  /\ \/ report'[b].res \in Errors
     \/ Whole(b, report'[b]) /\ Agrees(b, report'[b])

Next == \E b \in Benches : Begin(b) \/ Finish(b)

Spec == Init /\ [][Next]_mvars
=============================================================================
