---------------------------- MODULE CodecFixture ----------------------------
(***************************************************************************)
(* The benchmark fixtures of src/benchmark_codec.cc: codec_deflate,         *)
(* codec_inflate_base and codec_checksum with their subclasses, the corpus  *)
(* cache of src/benchmark_corpora.h they share, and the zlib-ng calls of    *)
(* src/codecs/zlib_ng.h that make the reference stream and verify output.   *)
(*                                                                         *)
(* Google Benchmark calls SetUp, BenchmarkCase and TearDown of a fixture in *)
(* that order, again and again, for estimates and repetitions.  Every       *)
(* resource a call asks for may be refused, the backend under test may      *)
(* return anything, and corpus files may change on disk meanwhile.          *)
(*                                                                         *)
(* Byte strings are abstract: the first n bytes of version ver of a source. *)
(* A raw deflate stream is named by the bytes it decodes to, or Junk.  The  *)
(* 32-bit length fields of the zlib-style streams wrap at Width.            *)
(***************************************************************************)
EXTENDS Integers

CONSTANTS
  Files,    (* corpora_files, found by discover_corpora                    *)
  Benches,  (* the registered fixtures                                     *)
  Kind,     (* "deflate", "inflate" or "checksum", for every fixture       *)
  Cf,       (* cf: a shared corpus file, or the fixture itself for synth   *)
  Size,     (* cf->size, fixed when the file was discovered                *)
  Width,    (* 2^32 in the code, the modulus of avail_in and avail_out     *)
  MaxVer,   (* bound on the rewrites of a file on disk                     *)
  NULL, Junk, None

Kinds   == {"deflate", "inflate", "checksum"}
Sources == Files \cup Benches

ASSUME FilesAssumption == Files \cap Benches = {}
ASSUME KindAssumption  == Kind \in [Benches -> Kinds]
ASSUME CfAssumption    == Cf \in [Benches -> Sources]
                          /\ \A b \in Benches : Cf[b] \in Files \cup {b}
ASSUME SizeAssumption  == Size \in [Sources -> Nat \ {0}]
ASSUME WidthAssumption == Width \in Nat \ {0}
ASSUME MaxVerAssumption == MaxVer \in Nat

VARIABLES
  phase,       (* "idle", "ready" after SetUp, "done" after BenchmarkCase  *)
  cur,         (* the fixture being run, None when idle                    *)
  disk,        (* the corpus files: version, and whether Size bytes read   *)
  data,        (* cf->data of every source: its bytes, or NULL             *)
  compressed,  (* the reference stream of an inflate fixture, or NULL      *)
  outbuff,     (* whether the outbuff pointer of a fixture is not NULL     *)
  codec_init,  (* comp_init and decomp_init                                *)
  heap,        (* blocks allocated and not yet freed, for every pointer    *)
  refused,     (* history: SetUp was refused a resource in this run        *)
  report       (* the last result of every fixture                         *)

vars == <<phase, cur, disk, data, compressed, outbuff, codec_init, heap,
          refused, report>>

\* Mutant: every input is released after its run.
SynthAlways(b) == Cf[b] \in Sources

\* The subclasses with a corpus_file of their own override release_data.
Synth(b)  == Cf[b] \in Benches
SetupFailed == "setup failed"
Errors == {SetupFailed, "compress failed", "roundtrip verification failed",
           "decompress failed", "output does not match original",
           "checksum does not match zlib-ng"}

Bytes == [src : Sources, ver : 0..MaxVer, n : Nat]
ASSUME NullAssumption == /\ NULL \notin Bytes /\ Junk \notin Bytes
                         /\ None \notin Benches
Slots == ({"data"} \X Sources)
           \cup ({"outbuff", "compressed", "codec"} \X Benches)

----------------------------------------------------------------------------
(* Pure parts. *)

\* (uint32_t)in_size: what a zlib-style stream is told of a length.
Trunc(n) == n % Width

\* The bytes that generating or reading the whole of s yields now.
Contents(s) ==
  [src |-> s, ver |-> IF s \in Files THEN disk[s].ver ELSE 0, n |-> Size[s]]

\* Mutant: every SetUp reads the file again.
AcquiredAnew(b, avail) ==
  IF avail /\ (Cf[b] \in Files => disk[Cf[b]].whole) THEN Contents(Cf[b]) ELSE NULL

\* cf->data after acquire_data: the cached block if there is one, otherwise a
\* new one when memory is available and the file opens and reads in full.
Acquired(b, avail) ==
  LET s == Cf[b] IN
  IF s \in Files /\ data[s] # NULL THEN data[s]
  ELSE IF avail /\ (s \in Files => disk[s].whole) THEN Contents(s)
  ELSE NULL

\* The pointer acquire_data has filled with a new block, if any.
AcquiredSlots(b, d) ==
  IF d # NULL /\ (Synth(b) \/ data[Cf[b]] = NULL) THEN {<<"data", Cf[b]>>} ELSE {}

Alloc(h, ps) == [p \in Slots |-> IF p \in ps THEN h[p] + 1 ELSE h[p]]
Free(h, ps)  == [p \in Slots |-> IF p \in ps THEN h[p] - 1 ELSE h[p]]

\* reference_compress: avail_in wraps, so the stream holds the first
\* Size % Width bytes only.  zlib-ng itself is trusted.
RefStream(d) == [d EXCEPT !.n = Trunc(d.n)]

\* What zlib-ng writes when it inflates s into out_size bytes: avail_out wraps
\* too, and a stream that does not end inside it counts as a failure.
ZngInflate(s, out_size) ==
  IF s # Junk /\ s.n <= Trunc(out_size) THEN s ELSE Junk

\* memcmp of a buffer whose first got.n bytes were just written against all of
\* d.  The rest of a malloc'd buffer may still hold an earlier copy of d.
Matches(got, d, stale) ==
  /\ got # Junk
  /\ got.src = d.src /\ got.ver = d.ver
  /\ got.n = d.n \/ stale

\* Mutant: whatever length came out, only the bytes are compared.
VerifiedBytesOnly(s, d, stale) ==
  Matches(ZngInflate(s, d.n), d, stale)

\* verify_compressed, when its own buffer and stream can be had.
Verified(s, d, stale) ==
  LET got == ZngInflate(s, d.n) IN
  /\ got # Junk /\ got.n = d.n
  /\ Matches(got, d, stale)

\* Every output a backend may produce from d: nothing sensible, or any prefix
\* (zlib-style backends stop at Trunc(d.n)).
Outputs(d) == {Junk} \cup {[d EXCEPT !.n = k] : k \in 0..d.n}

Ok(r) == [res |-> "ok", bytes |-> r]
Skipped(msg) == [res |-> msg, bytes |-> None]

----------------------------------------------------------------------------
Init ==
  /\ phase = "idle" /\ cur = None
  /\ disk = [f \in Files |-> [ver |-> 0, whole |-> TRUE]]
  /\ data = [s \in Sources |-> NULL]
  /\ compressed = [b \in Benches |-> NULL]
  /\ outbuff = [b \in Benches |-> FALSE]
  /\ codec_init = [b \in Benches |-> FALSE]
  /\ heap = [p \in Slots |-> 0]
  /\ refused = FALSE
  /\ report = [b \in Benches |-> [res |-> "none", bytes |-> None]]

\* Somebody replaces, truncates or restores a corpus file.
Rewrite(f) ==
  /\ disk[f].ver < MaxVer
  /\ \E whole \in BOOLEAN :
       disk' = [disk EXCEPT ![f] = [ver |-> @.ver + 1, whole |-> whole]]
  /\ UNCHANGED <<phase, cur, data, compressed, outbuff, codec_init, heap,
                 refused, report>>

Start(b) ==
  /\ phase = "idle"
  /\ phase' = "ready" /\ cur' = b

\* codec_deflate::SetUp: data, then the compressor, then the output buffer,
\* with a return at the first that is refused.
SetUpDeflateWith(b, avail, init, room) ==
  LET d      == Acquired(b, avail)
      opened == d # NULL /\ init
      filled == opened /\ room
  IN /\ data' = [data EXCEPT ![Cf[b]] = d]
     /\ codec_init' = [codec_init EXCEPT ![b] = IF d = NULL THEN @ ELSE init]
     /\ outbuff' = [outbuff EXCEPT ![b] = IF opened THEN room ELSE @]
     /\ heap' = Alloc(heap, AcquiredSlots(b, d)
                              \cup (IF opened THEN {<<"codec", b>>} ELSE {})
                              \cup (IF filled THEN {<<"outbuff", b>>} ELSE {}))
     /\ refused' = ~filled

SetUpDeflate(b) ==
  /\ Kind[b] = "deflate" /\ Start(b)
  /\ \E avail, init, room \in BOOLEAN : SetUpDeflateWith(b, avail, init, room)
  /\ UNCHANGED <<disk, compressed, report>>

\* codec_inflate_base::SetUp: past the data, all three requests are made
\* whatever became of the others.
SetUpInflateWith(b, avail, ref, room, init) ==
  LET d   == Acquired(b, avail)
      got == d # NULL
  IN /\ data' = [data EXCEPT ![Cf[b]] = d]
     /\ compressed' = [compressed EXCEPT ![b] =
                         IF got THEN (IF ref THEN RefStream(d) ELSE NULL) ELSE @]
     /\ outbuff' = [outbuff EXCEPT ![b] = IF got THEN room ELSE @]
     /\ codec_init' = [codec_init EXCEPT ![b] = IF got THEN init ELSE @]
     /\ heap' = Alloc(heap, AcquiredSlots(b, d)
                        \cup (IF got /\ ref THEN {<<"compressed", b>>} ELSE {})
                        \cup (IF got /\ room THEN {<<"outbuff", b>>} ELSE {})
                        \cup (IF got /\ init THEN {<<"codec", b>>} ELSE {}))
     /\ refused' = ~(got /\ ref /\ room /\ init)

SetUpInflate(b) ==
  /\ Kind[b] = "inflate" /\ Start(b)
  /\ \E avail, ref, room, init \in BOOLEAN : SetUpInflateWith(b, avail, ref, room, init)
  /\ UNCHANGED <<disk, report>>

\* codec_checksum::SetUp: random data of the benchmark's size.
SetUpChecksum(b) ==
  /\ Kind[b] = "checksum" /\ Start(b)
  /\ \E avail \in BOOLEAN :
       LET d == Acquired(b, avail) IN
          /\ data' = [data EXCEPT ![Cf[b]] = d]
          /\ heap' = Alloc(heap, AcquiredSlots(b, d))
          /\ refused' = (d = NULL)
  /\ UNCHANGED <<disk, compressed, outbuff, codec_init, report>>

SetUp(b) == SetUpDeflate(b) \/ SetUpInflate(b) \/ SetUpChecksum(b)

----------------------------------------------------------------------------
Measure(b, r) ==
  /\ phase = "ready" /\ cur = b
  /\ phase' = "done"
  /\ report' = [report EXCEPT ![b] = r]
  /\ UNCHANGED <<cur, disk, data, compressed, outbuff, codec_init, heap, refused>>

\* Mutant: the output buffer is not looked at.
DeflateReadyNoBuffer(b) == data[Cf[b]] # NULL /\ codec_init[b]

DeflateReady(b) == data[Cf[b]] # NULL /\ codec_init[b] /\ outbuff[b]

\* codec_deflate::BenchmarkCase.  The loop leaves the output of its last
\* iteration in outbuff, or stops at an iteration that returned 0.
BenchmarkDeflate(b) ==
  /\ Kind[b] = "deflate"
  /\ \/ ~DeflateReady(b) /\ Measure(b, Skipped(SetupFailed))
     \/ DeflateReady(b) /\ Measure(b, Skipped("compress failed"))
     \/ /\ DeflateReady(b)
        /\ \E out \in Outputs(data[Cf[b]]), avail, stale \in BOOLEAN :
             Measure(b, IF avail /\ Verified(out, data[Cf[b]], stale)
                        THEN Ok(out)
                        ELSE Skipped("roundtrip verification failed"))

InflateReady(b) == compressed[b] # NULL /\ outbuff[b] /\ codec_init[b]

\* codec_inflate_base::BenchmarkCase.  Every iteration must return cf->size;
\* the last one's bytes are compared with the original.
BenchmarkInflate(b) ==
  /\ Kind[b] = "inflate"
  /\ \/ ~InflateReady(b) /\ Measure(b, Skipped(SetupFailed))
     \/ /\ InflateReady(b)
        /\ \E out \in Outputs(compressed[b]), stale \in BOOLEAN :
             Measure(b, IF out = Junk \/ out.n # Size[Cf[b]]
                          THEN Skipped("decompress failed")
                        ELSE IF ~Matches(out, data[Cf[b]], stale)
                          THEN Skipped("output does not match original")
                        ELSE Ok(out))
     \/ /\ InflateReady(b)
        /\ Measure(b, Skipped("output does not match original"))

\* codec_checksum::BenchmarkCase: compared with zlib-ng before the timed loop.
BenchmarkChecksum(b) ==
  /\ Kind[b] = "checksum"
  /\ IF data[Cf[b]] = NULL
     THEN Measure(b, Skipped(SetupFailed))
     ELSE \/ Measure(b, Skipped("checksum does not match zlib-ng"))
          \/ Measure(b, Ok(data[Cf[b]]))

BenchmarkCase(b) == BenchmarkDeflate(b) \/ BenchmarkInflate(b) \/ BenchmarkChecksum(b)

----------------------------------------------------------------------------
\* Mutant: the reference stream is forgotten.
ReleasedNoStream(b) ==
  {p \in Slots :
     \/ p = <<"codec", b>>   /\ codec_init[b]
     \/ p = <<"outbuff", b>> /\ outbuff[b]
     \/ p = <<"data", Cf[b]>> /\ Synth(b) /\ data[Cf[b]] # NULL}

\* The pointers TearDown passes to end() or to free(), when they are not NULL.
\* release_data frees synthetic data; a corpus file stays cached.
Released(b) ==
  {p \in Slots :
     \/ p = <<"codec", b>>      /\ codec_init[b]
     \/ p = <<"outbuff", b>>    /\ outbuff[b]
     \/ p = <<"compressed", b>> /\ compressed[b] # NULL
     \/ p = <<"data", Cf[b]>>   /\ Synth(b) /\ data[Cf[b]] # NULL}

\* Mutant: release_data is not called.
TearDownKeepsData(b) ==
  /\ phase = "done" /\ cur = b
  /\ phase' = "idle" /\ cur' = None
  /\ heap' = Free(heap, Released(b) \ {<<"data", Cf[b]>>})
  /\ codec_init' = [codec_init EXCEPT ![b] = FALSE]
  /\ outbuff' = [outbuff EXCEPT ![b] = FALSE]
  /\ compressed' = [compressed EXCEPT ![b] = NULL]
  /\ refused' = FALSE
  /\ UNCHANGED <<data, disk, report>>

\* TearDown of a fixture; the pointers it frees are reset.
TearDown(b) ==
  /\ phase = "done" /\ cur = b
  /\ phase' = "idle" /\ cur' = None
  /\ heap' = Free(heap, Released(b))
  /\ codec_init' = [codec_init EXCEPT ![b] = FALSE]
  /\ outbuff' = [outbuff EXCEPT ![b] = FALSE]
  /\ compressed' = [compressed EXCEPT ![b] = NULL]
  /\ data' = [data EXCEPT ![Cf[b]] = IF Synth(b) THEN NULL ELSE @]
  /\ refused' = FALSE
  /\ UNCHANGED <<disk, report>>

Next ==
  \/ \E f \in Files : Rewrite(f)
  \/ \E b \in Benches : SetUp(b) \/ BenchmarkCase(b) \/ TearDown(b)

Spec == Init /\ [][Next]_vars

----------------------------------------------------------------------------
(* Properties. *)

TypeOK ==
  /\ phase \in {"idle", "ready", "done"}
  /\ cur \in Benches \cup {None}
  /\ disk \in [Files -> [ver : 0..MaxVer, whole : BOOLEAN]]
  /\ data \in [Sources -> Bytes \cup {NULL}]
  /\ compressed \in [Benches -> Bytes \cup {NULL}]
  /\ outbuff \in [Benches -> BOOLEAN]
  /\ codec_init \in [Benches -> BOOLEAN]
  /\ heap \in [Slots -> Int]
  /\ refused \in BOOLEAN
  /\ report \in [Benches -> [res : Errors \cup {"none", "ok"}, bytes : Bytes \cup {None}]]

\* The pointers that are not NULL (for a codec: that were initialised).
Held ==
  {p \in Slots :
     \/ p[1] = "data" /\ data[p[2]] # NULL
     \/ p[1] = "outbuff" /\ outbuff[p[2]]
     \/ p[1] = "compressed" /\ compressed[p[2]] # NULL
     \/ p[1] = "codec" /\ codec_init[p[2]]}

(* Every pointer that is not NULL owns exactly one live block and every      *)
(* other owns none: no SetUp overwrites a pointer it should have freed, no   *)
(* TearDown frees twice or leaves a dangling pointer, whichever requests     *)
(* were refused in whichever order over all the runs of all the fixtures.   *)
HeapBalanced == \A p \in Slots : heap[p] = IF p \in Held THEN 1 ELSE 0

(* Between two runs the process holds the cached corpus files and nothing    *)
(* else: neither a buffer nor a codec of a run that failed half way through  *)
(* its SetUp survives it.                                                   *)
OnlyCorporaStay == phase = "idle" => Held \subseteq {"data"} \X Files

(* "setup failed" is reported by exactly the runs whose SetUp was refused a  *)
(* resource: no stale flag or pointer of an earlier run makes a later run    *)
(* fail, or lets one that was refused its buffer go on and use it.          *)
SetupFailureIsReal ==
  phase = "done" => (report[cur].res = SetupFailed <=> refused)

(* A number is only ever reported for an output that decodes to all Size     *)
(* bytes of the input, never for the first Size % Width of them that a       *)
(* 32-bit length field lets through, and for a corpus file it is the bytes   *)
(* every other benchmark of that file was given.                            *)
ReportedIsWhole ==
  \A b \in Benches : report[b].res = "ok" =>
    /\ report[b].bytes.src = Cf[b]
    /\ report[b].bytes.n = Size[Cf[b]]
    /\ Cf[b] \in Files => report[b].bytes = data[Cf[b]]

(* Once a corpus file has been read its bytes stay the same for the whole    *)
(* process, whatever happens to the file on disk.                           *)
CorpusIsStable ==
  [][\A f \in Files : data[f] # NULL => data'[f] = data[f]]_vars

M == INSTANCE Measurement
       WITH running <- IF phase = "ready" THEN cur ELSE None

(* The fixtures implement Measurement: one run at a time, each ends in an    *)
(* error or a number for the whole input, numbers for one file agree.       *)
ImplementsMeasurement == M!Spec
=============================================================================
