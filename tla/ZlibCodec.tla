------------------------------ MODULE ZlibCodec ------------------------------
(***************************************************************************)
(* The zlib-style codec wrappers: zng_codec_compressor and _decompressor of *)
(* src/codecs/zlib_ng.h, the shim of src/codecs/zlib_shim.c, and the        *)
(* allocation counter of src/codecs/mem_count.h both give the library.      *)
(*                                                                         *)
(* One wrapper is opened, called and ended, again and again.  The library   *)
(* below it is external: it may take and return blocks whenever it is       *)
(* running (the window of inflate is taken by the first call that needs     *)
(* it), and it inflates a stream given by the number of bytes it decodes to *)
(* and by what happens there.                                               *)
(***************************************************************************)
EXTENDS Integers, FiniteSets, Functions

CONSTANTS
  Blocks,    (* the addresses malloc returns                               *)
  MaxBytes,  (* bound on items * size of one request                       *)
  MaxOut,    (* bound on out_size, on the length of a stream and on chunk  *)
  Width      (* 2^32 in the code, the modulus of avail_in and avail_out    *)

ASSUME BytesAssumption == MaxBytes \in Nat \ {0}
ASSUME OutAssumption   == MaxOut \in Nat
ASSUME WidthAssumption == Width \in Nat \ {0}
ASSUME BlocksAssumption == IsFiniteSet(Blocks)

VARIABLES
  state,   (* "closed", "init", "failing", "open" or "chunks"              *)
  mc,      (* the counter: live and peak                                   *)
  block,   (* the length kept in front of every block, 0 when it is free   *)
  most,    (* history: the most bytes held at once since init              *)
  call,    (* the call being made: stream, out_size and chunk              *)
  done,    (* total_out                                                    *)
  taken,   (* history: inflate has been called once for input alone        *)
  reach,   (* history: end of the furthest window lent to inflate          *)
  result   (* what the last call returned                                  *)

lib  == <<mc, block, most>>
loop == <<call, done, taken, reach, result>>
zlibVars == <<state, lib, loop>>

Lesser(a, b)  == IF a < b THEN a ELSE b
Greater(a, b) == IF a > b THEN a ELSE b

\* A stream decodes to n bytes and then ends, is corrupt, or breaks off.
Streams == [n : 0..MaxOut, end : {"end", "corrupt", "cut"}]
Calls   == [stream : Streams, out_size : 0..MaxOut, chunk : 0..MaxOut]
NoCall  == [stream |-> [n |-> 0, end |-> "end"], out_size |-> 0, chunk |-> 0]

Trunc(n) == n % Width
Held     == SumFunction(block)

ZlibInit ==
  /\ state = "closed"
  /\ mc = [live |-> 0, peak |-> 0] /\ most = 0
  /\ block = [a \in Blocks |-> 0]
  /\ call = NoCall /\ done = 0 /\ taken = FALSE /\ reach = 0 /\ result = 0

----------------------------------------------------------------------------
(* mem_count.h, called by the library. *)

\* Mutant: the peak is raised by what is asked for, as if nothing were freed.
mem_count_allocSums(mcs, bytes) ==
  [live |-> mcs.live + bytes, peak |-> mcs.peak + bytes]

\* The counter after mem_count_alloc has found room for so many bytes.
mem_count_alloc(mcs, bytes) ==
  [live |-> mcs.live + bytes, peak |-> Greater(mcs.peak, mcs.live + bytes)]

\* The counter after mem_count_free of a block with this length in front.
mem_count_free(mcs, bytes) == [mcs EXCEPT !.live = @ - bytes]

Running == state \in {"init", "chunks"}

\* malloc may also fail: then nothing changes.
Alloc ==
  /\ Running
  /\ \E a \in Blocks, bytes \in 1..MaxBytes :
       /\ block[a] = 0
       /\ block' = [block EXCEPT ![a] = bytes]
       /\ mc' = mem_count_alloc(mc, bytes)
  /\ most' = Greater(most, SumFunction(block'))
  /\ UNCHANGED <<state, loop>>

Free ==
  /\ state \in {"init", "chunks", "failing", "ending"}
  /\ \E a \in Blocks :
       /\ block[a] # 0
       /\ block' = [block EXCEPT ![a] = 0]
       /\ mc' = mem_count_free(mc, block[a])
  /\ UNCHANGED <<state, most, loop>>

----------------------------------------------------------------------------
(* The life of a wrapper. *)

\* init, or shim_stream_new, whose calloc may fail: the counter starts at 0.
Open ==
  /\ state = "closed" /\ state' = "init"
  /\ mc' = [live |-> 0, peak |-> 0] /\ most' = 0
  /\ UNCHANGED <<block, loop>>

\* deflateInit2 or inflateInit2 returns Z_OK, or gives back what it took; the
\* shim then frees the wrapper, zlib_ng.h leaves it as it is.
InitOk   == state = "init" /\ state' = "open" /\ UNCHANGED <<lib, loop>>
InitFail == state = "init" /\ state' = "failing" /\ UNCHANGED <<lib, loop>>

\* deflateEnd or inflateEnd.
End == state = "open" /\ state' = "ending" /\ UNCHANGED <<lib, loop>>

Closed ==
  /\ state \in {"failing", "ending"} /\ Held = 0
  /\ state' = "closed"
  /\ call' = NoCall /\ done' = 0 /\ taken' = FALSE /\ reach' = 0 /\ result' = 0
  /\ UNCHANGED lib

----------------------------------------------------------------------------
(* inflate: external. *)

\* What inflate may return when it has a window of avail bytes, and its new
\* total_out.  An end needs no room; bytes may come before the data error that
\* follows them; a call that neither takes nor gives anything is an error.
inflate(s, total, avail) ==
  LET out == Lesser(s.n, total + avail)
      more == IF out > total \/ ~taken THEN {"Z_OK"} ELSE {"Z_BUF_ERROR"}
      ret == IF out < s.n THEN more
             ELSE CASE s.end = "end"     -> {"Z_STREAM_END"}
                    [] s.end = "corrupt" -> more \cup {"Z_DATA_ERROR"}
                    [] s.end = "cut"     -> more
  IN [out : {out}, ret : ret]

\* decompress: one call for the whole buffer, with Z_FINISH.
decompress(c) ==
  IF c.stream.end = "end" /\ c.stream.n <= Trunc(c.out_size) THEN c.stream.n ELSE 0

\* decompress_chunked up to its loop; inflateReset may fail.
Start ==
  /\ state = "open"
  /\ \E c \in Calls :
       \/ state' = "chunks" /\ call' = c /\ UNCHANGED result
       \/ result' = 0 /\ call' = NoCall /\ UNCHANGED state
  /\ done' = 0 /\ taken' = FALSE /\ reach' = 0
  /\ UNCHANGED lib

\* Mutant: what is done already is not counted.
WindowWhole(c, d) == Trunc(Lesser(c.chunk, c.out_size))

\* avail_out of the next call.
Window(c, d) == Trunc(Lesser(c.chunk, c.out_size - d))

\* Mutant: a full buffer counts as the end of the stream.
ResultFull(r, c) ==
  IF r.ret = "Z_STREAM_END" \/ r.out >= c.out_size THEN r.out ELSE 0

\* What the loop returns when it does.
Result(r, c) == IF r.ret = "Z_STREAM_END" THEN r.out ELSE 0

\* Mutant: only the end of the stream and a full buffer end the loop.
ReturnsLate(r, c) == r.ret = "Z_STREAM_END" \/ r.out >= c.out_size

Returns(r, c) == r.ret # "Z_OK" \/ r.out >= c.out_size

\* One pass of the loop of decompress_chunked.
Pass ==
  /\ state = "chunks"
  /\ LET avail == Window(call, done) IN
       /\ reach' = Greater(reach, done + avail)
       /\ \E r \in inflate(call.stream, done, avail) :
            /\ done' = r.out
            /\ taken' = (taken \/ r.out = done)
            /\ IF Returns(r, call) THEN state' = "open" /\ result' = Result(r, call)
               ELSE UNCHANGED <<state, result>>
  /\ UNCHANGED <<call, lib>>

ZlibNext ==
  \/ Alloc \/ Free \/ Open \/ InitOk \/ InitFail \/ End \/ Closed
  \/ Start \/ Pass

\* The call is the caller's own code: once begun it goes on.
ZlibSpec == ZlibInit /\ [][ZlibNext]_zlibVars /\ WF_zlibVars(Pass)

----------------------------------------------------------------------------
(* The counter of a stream is what the stream holds, and the mem it reports  *)
(* is the most it ever held, over all its calls and nothing before its init. *)
MemIsExact ==
  state # "closed" => mc.live = Held /\ mc.peak = most

(* Inflating through windows gives what one call for the whole buffer gives, *)
(* for streams that fit, that are too long, that break off or are corrupt.   *)
(* (A length of Width or more does not fit one call.)                       *)
ChunkedAgrees ==
  state = "open" /\ call.out_size < Width /\ Trunc(call.chunk) > 0
    => result = decompress(call)

(* No window reaches past the output buffer, and what was written before is  *)
(* never lent again.                                                        *)
StaysInside == reach <= call.out_size /\ done <= reach

(* Every call returns, also when it is given no room or the input ends.      *)
CallReturns == state = "chunks" ~> state = "open"
=============================================================================
