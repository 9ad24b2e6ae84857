------------------------- MODULE CodecFixtureProofs -------------------------
(***************************************************************************)
(* Proofs about CodecFixture for any set of corpus files and fixtures, any  *)
(* sizes and any width of the length fields.                                *)
(***************************************************************************)
EXTENDS CodecFixture, TLAPS

USE FilesAssumption, KindAssumption, CfAssumption, SizeAssumption,
    WidthAssumption, MaxVerAssumption, NullAssumption

\* A benchmark has an input, which is not empty.
LEMMA InputTyped == ASSUME NEW b \in Benches
                    PROVE  Cf[b] \in Sources /\ Size[Cf[b]] \in Nat \ {0}
BY DEF Sources

\* What a source holds are bytes.
LEMMA ContentsTyped == ASSUME TypeOK, NEW s \in Sources
                       PROVE  Contents(s) \in Bytes
<1>1. s \in Files => disk[s].ver \in 0..MaxVer
  BY DEF TypeOK
<1>2. QED
  BY <1>1 DEF Contents, Bytes, Sources

\* An input is acquired or is not.
LEMMA AcquiredTyped == ASSUME TypeOK, NEW b \in Benches, NEW avail \in BOOLEAN
                       PROVE  Acquired(b, avail) \in Bytes \cup {NULL}
BY InputTyped, ContentsTyped DEF Acquired, TypeOK

\* A length is cut to its field's width.
LEMMA TruncTyped == \A n \in Nat : Trunc(n) \in Nat
BY DEF Trunc

\* The reference stream of bytes are bytes.
LEMMA RefStreamTyped == ASSUME NEW d \in Bytes PROVE RefStream(d) \in Bytes
BY TruncTyped DEF RefStream, Bytes

\* A codec puts out junk or bytes of its input.
LEMMA OutputsTyped == ASSUME NEW d \in Bytes, NEW out \in Outputs(d), out # Junk
                      PROVE  out \in Bytes /\ out.src = d.src /\ out.ver = d.ver
BY DEF Outputs, Bytes

\* A prefix of d that is as long as d is d.
LEMMA WholePrefix == ASSUME NEW d \in Bytes, NEW out \in Bytes,
                            out.src = d.src, out.ver = d.ver, out.n = d.n
                     PROVE  out = d
BY DEF Bytes

\* Counting blocks stays within the integers.
LEMMA HeapTyped == ASSUME NEW h \in [Slots -> Int], NEW ps
                   PROVE  Alloc(h, ps) \in [Slots -> Int] /\ Free(h, ps) \in [Slots -> Int]
BY DEF Alloc, Free

----------------------------------------------------------------------------
\* SetUp keeps the types.
LEMMA SetUpTyped == ASSUME TypeOK, NEW b \in Benches, SetUp(b) PROVE TypeOK'
<1>1. CASE SetUpDeflate(b)
  <2>1. PICK avail \in BOOLEAN, init \in BOOLEAN, room \in BOOLEAN :
          SetUpDeflateWith(b, avail, init, room)
    BY <1>1 DEF SetUpDeflate
  <2>2. heap' \in [Slots -> Int]
    BY <2>1, HeapTyped DEF SetUpDeflateWith, TypeOK
  <2>3. data' \in [Sources -> Bytes \cup {NULL}]
    BY <2>1, AcquiredTyped DEF SetUpDeflateWith, TypeOK
  <2>4. outbuff' \in [Benches -> BOOLEAN] /\ codec_init' \in [Benches -> BOOLEAN]
    BY <2>1 DEF SetUpDeflateWith, TypeOK
  <2>5. refused' \in BOOLEAN
    BY <2>1 DEF SetUpDeflateWith
  <2>6. QED
    BY <1>1, <2>2, <2>3, <2>4, <2>5 DEF SetUpDeflate, Start, TypeOK
<1>2. CASE SetUpInflate(b)
  <2>1. PICK avail \in BOOLEAN, ref \in BOOLEAN, room \in BOOLEAN, init \in BOOLEAN :
          SetUpInflateWith(b, avail, ref, room, init)
    BY <1>2 DEF SetUpInflate
  <2>2. heap' \in [Slots -> Int]
    BY <2>1, HeapTyped DEF SetUpInflateWith, TypeOK
  <2>3. data' \in [Sources -> Bytes \cup {NULL}]
    BY <2>1, AcquiredTyped DEF SetUpInflateWith, TypeOK
  <2>4. compressed' \in [Benches -> Bytes \cup {NULL}]
    BY <2>1, AcquiredTyped, RefStreamTyped DEF SetUpInflateWith, TypeOK
  <2>5. outbuff' \in [Benches -> BOOLEAN] /\ codec_init' \in [Benches -> BOOLEAN]
    BY <2>1 DEF SetUpInflateWith, TypeOK
  <2>6. refused' \in BOOLEAN
    BY <2>1 DEF SetUpInflateWith
  <2>7. QED
    BY <1>2, <2>2, <2>3, <2>4, <2>5, <2>6 DEF SetUpInflate, Start, TypeOK
<1>3. CASE SetUpChecksum(b)
  <2>1. PICK avail \in BOOLEAN :
          LET d == Acquired(b, avail) IN
          /\ data' = [data EXCEPT ![Cf[b]] = d]
          /\ heap' = Alloc(heap, AcquiredSlots(b, d))
          /\ refused' = (d = NULL)
    BY <1>3 DEF SetUpChecksum
  <2>2. heap' \in [Slots -> Int]
    BY <2>1, HeapTyped DEF TypeOK
  <2>3. data' \in [Sources -> Bytes \cup {NULL}]
    BY <2>1, AcquiredTyped DEF TypeOK
  <2>4. QED
    BY <1>3, <2>1, <2>2, <2>3 DEF SetUpChecksum, Start, TypeOK
<1>4. QED
  BY <1>1, <1>2, <1>3 DEF SetUp

\* So does the measurement.
LEMMA BenchmarkTyped == ASSUME TypeOK, NEW b \in Benches, BenchmarkCase(b) PROVE TypeOK'
<1> DEFINE Result == [res : Errors \cup {"none", "ok"}, bytes : Bytes \cup {None}]
<1>1. \A msg \in Errors : Skipped(msg) \in Result
  BY DEF Skipped
<1>2. \A r \in Bytes : Ok(r) \in Result
  BY DEF Ok
<1>3. SUFFICES \E r \in Result : Measure(b, r)
  BY DEF Measure, TypeOK
<1> USE InputTyped, <1>1, <1>2 DEF Errors, SetupFailed
<1>4. CASE BenchmarkDeflate(b)
  <2>1. CASE DeflateReady(b)
    <3>1. data[Cf[b]] \in Bytes
      BY <2>1 DEF DeflateReady, TypeOK
    <3>2. ASSUME NEW out \in Outputs(data[Cf[b]]), NEW stale \in BOOLEAN,
                 Verified(out, data[Cf[b]], stale)
          PROVE  out \in Bytes
      BY <3>1, <3>2, OutputsTyped DEF Verified, ZngInflate
    <3>3. QED
      BY <1>4, <2>1, <3>2 DEF BenchmarkDeflate
  <2>2. CASE ~DeflateReady(b)
    BY <1>4, <2>2 DEF BenchmarkDeflate
  <2>3. QED
    BY <2>1, <2>2
<1>5. CASE BenchmarkInflate(b)
  <2>1. CASE InflateReady(b)
    <3>1. compressed[b] \in Bytes
      BY <2>1 DEF InflateReady, TypeOK
    <3>2. \A out \in Outputs(compressed[b]) : out # Junk => out \in Bytes
      BY <3>1, OutputsTyped
    <3>3. QED
      BY <1>5, <2>1, <3>2 DEF BenchmarkInflate
  <2>2. CASE ~InflateReady(b)
    BY <1>5, <2>2 DEF BenchmarkInflate
  <2>3. QED
    BY <2>1, <2>2
<1>6. CASE BenchmarkChecksum(b)
  <2>1. data[Cf[b]] \in Bytes \cup {NULL}
    BY DEF TypeOK
  <2>2. QED
    BY <1>6, <2>1 DEF BenchmarkChecksum
<1>7. QED
  BY <1>4, <1>5, <1>6 DEF BenchmarkCase

\* So does TearDown.
LEMMA TearDownTyped == ASSUME TypeOK, NEW b \in Benches, TearDown(b) PROVE TypeOK'
<1>1. heap' \in [Slots -> Int]
  BY HeapTyped DEF TearDown, TypeOK
<1>2. QED
  BY <1>1, InputTyped DEF TearDown, TypeOK

(* Type correctness of the fixtures and the corpus cache.                    *)
THEOREM TypeCorrect == Spec => []TypeOK
<1>1. Init => TypeOK
  <2> SUFFICES ASSUME Init PROVE TypeOK
    OBVIOUS
  <2>1. disk \in [Files -> [ver : 0..MaxVer, whole : BOOLEAN]]
    BY DEF Init
  <2>2. report \in [Benches -> [res : Errors \cup {"none", "ok"}, bytes : Bytes \cup {None}]]
    BY DEF Init
  <2>3. heap \in [Slots -> Int]
    BY DEF Init
  <2>4. QED
    BY <2>1, <2>2, <2>3 DEF Init, TypeOK
<1>2. TypeOK /\ [Next]_vars => TypeOK'
  <2> SUFFICES ASSUME TypeOK, [Next]_vars PROVE TypeOK'
    OBVIOUS
  <2>1. ASSUME NEW f \in Files, Rewrite(f) PROVE TypeOK'
    BY <2>1 DEF Rewrite, TypeOK
  <2>2. CASE UNCHANGED vars
    BY <2>2 DEF vars, TypeOK
  <2>3. QED
    BY <2>1, <2>2, SetUpTyped, BenchmarkTyped, TearDownTyped DEF Next
<1>3. QED
  BY <1>1, <1>2, PTL DEF Spec

----------------------------------------------------------------------------
(* The inductive invariant behind the safety properties. *)

\* Only the fixture being run holds anything of its own.
OneAtATime ==
  /\ phase = "idle" => cur = None
  /\ phase # "idle" => cur \in Benches
  /\ \A b \in Benches :
       b # cur => /\ compressed[b] = NULL /\ ~outbuff[b] /\ ~codec_init[b]
                  /\ data[b] = NULL
  /\ \A b \in Benches : ~Synth(b) => data[b] = NULL

\* Input data is never partial, and a reference stream is made from it.
InputsWhole ==
  /\ \A s \in Sources : data[s] # NULL => data[s].src = s /\ data[s].n = Size[s]
  /\ \A b \in Benches : compressed[b] # NULL =>
       data[Cf[b]] # NULL /\ compressed[b] = RefStream(data[Cf[b]])

\* What BenchmarkCase looks at before it starts to measure.
Ready(b) ==
  \/ Kind[b] = "deflate"  /\ DeflateReady(b)
  \/ Kind[b] = "inflate"  /\ InflateReady(b)
  \/ Kind[b] = "checksum" /\ data[Cf[b]] # NULL

\* A reported number names the bytes it was measured on.
ReportedNamed == \A b \in Benches : report[b].res = "ok" => report[b].bytes \in Bytes

RefusalSeen == phase = "ready" => (refused <=> ~Ready(cur))

IInv == /\ OneAtATime /\ InputsWhole /\ RefusalSeen /\ ReportedNamed
        /\ HeapBalanced /\ SetupFailureIsReal /\ ReportedIsWhole

\* The balance, pointer by pointer.
Balanced ==
  /\ \A s \in Sources : heap[<<"data", s>>] = IF data[s] # NULL THEN 1 ELSE 0
  /\ \A b \in Benches :
       /\ heap[<<"outbuff", b>>] = IF outbuff[b] THEN 1 ELSE 0
       /\ heap[<<"compressed", b>>] = IF compressed[b] # NULL THEN 1 ELSE 0
       /\ heap[<<"codec", b>>] = IF codec_init[b] THEN 1 ELSE 0

\* A block on the heap belongs to an input or to a benchmark.
LEMMA SlotCases == \A p \in Slots :
  \/ \E s \in Sources : p = <<"data", s>>
  \/ \E b \in Benches : p = <<"outbuff", b>> \/ p = <<"compressed", b>> \/ p = <<"codec", b>>
BY DEF Slots

\* The heap is balanced when every one of its slots is.
LEMMA BalancedSlots == HeapBalanced <=> Balanced
<1>1. HeapBalanced => Balanced
  BY DEF HeapBalanced, Balanced, Held, Slots
<1>2. ASSUME Balanced, NEW p \in Slots
      PROVE  heap[p] = IF p \in Held THEN 1 ELSE 0
  <2>1. CASE \E s \in Sources : p = <<"data", s>>
    BY <1>2, <2>1 DEF Balanced, Held
  <2>2. CASE \E b \in Benches :
               p = <<"outbuff", b>> \/ p = <<"compressed", b>> \/ p = <<"codec", b>>
    <3>1. PICK b \in Benches : p = <<"outbuff", b>> \/ p = <<"compressed", b>> \/ p = <<"codec", b>>
      BY <2>2
    <3>2. CASE p = <<"outbuff", b>>
      BY <1>2, <3>2 DEF Balanced, Held
    <3>3. CASE p = <<"compressed", b>>
      BY <1>2, <3>3 DEF Balanced, Held
    <3>4. CASE p = <<"codec", b>>
      BY <1>2, <3>4 DEF Balanced, Held
    <3>5. QED
      BY <3>1, <3>2, <3>3, <3>4
  <2>3. QED
    BY <2>1, <2>2, SlotCases
<1>3. QED
  BY <1>1, <1>2 DEF HeapBalanced

\* So it is after a step.
LEMMA BalancedSlotsNext == Balanced' => HeapBalanced'
BY BalancedSlots, PTL

\* What is acquired is the whole input.
LEMMA AcquiredWhole ==
  ASSUME TypeOK, InputsWhole, NEW b \in Benches, NEW avail \in BOOLEAN,
         Acquired(b, avail) # NULL
  PROVE  Acquired(b, avail).src = Cf[b] /\ Acquired(b, avail).n = Size[Cf[b]]
BY InputTyped DEF Acquired, Contents, InputsWhole

\* SetUp of a deflate benchmark keeps IInv, where it refuses as well.
LEMMA StepSetUpDeflate ==
  ASSUME TypeOK, IInv, NEW b \in Benches, SetUpDeflate(b)
  PROVE  IInv'
<1> DEFINE s == Cf[b]
<1>1. PICK avail \in BOOLEAN, init \in BOOLEAN, room \in BOOLEAN :
        SetUpDeflateWith(b, avail, init, room)
  BY DEF SetUpDeflate
<1> DEFINE d == Acquired(b, avail)
           opened == d # NULL /\ init
           filled == opened /\ room
           ps == AcquiredSlots(b, d) \cup (IF opened THEN {<<"codec", b>>} ELSE {})
                   \cup (IF filled THEN {<<"outbuff", b>>} ELSE {})
<1>2. /\ phase = "idle" /\ phase' = "ready" /\ cur = None /\ cur' = b /\ Kind[b] = "deflate"
      /\ UNCHANGED <<disk, compressed, report>>
  BY DEF SetUpDeflate, Start, IInv, OneAtATime
<1>3. /\ data' = [data EXCEPT ![s] = d]
      /\ codec_init' = [codec_init EXCEPT ![b] = IF d = NULL THEN @ ELSE init]
      /\ outbuff' = [outbuff EXCEPT ![b] = IF opened THEN room ELSE @]
      /\ heap' = Alloc(heap, ps)
      /\ refused' = ~filled
  BY <1>1 DEF SetUpDeflateWith
<1>4. ~outbuff[b] /\ ~codec_init[b] /\ compressed[b] = NULL /\ data[b] = NULL
  BY <1>2 DEF IInv, OneAtATime
<1>5. s \in Sources /\ s \in Files \cup {b} /\ (Synth(b) <=> s = b) /\ b \notin Files
  BY InputTyped DEF Synth
<1>6. s \in Files /\ data[s] # NULL => d = data[s]
  BY DEF Acquired
<1>7. OneAtATime'
  BY <1>2, <1>3, <1>5 DEF IInv, OneAtATime, TypeOK, Synth
<1>8. InputsWhole'
  <2>1. \A t \in Sources : data'[t] # NULL => data'[t].src = t /\ data'[t].n = Size[t]
    BY <1>3, <1>5, AcquiredWhole DEF IInv, InputsWhole, TypeOK
  <2>2. ASSUME NEW c \in Benches PROVE compressed'[c] = NULL
    BY <1>2 DEF IInv, OneAtATime
  <2>3. QED
    BY <2>1, <2>2 DEF InputsWhole
<1>9. RefusalSeen'
  BY <1>2, <1>3, <1>4, <1>5 DEF RefusalSeen, Ready, DeflateReady, TypeOK
<1>10. HeapBalanced'
  <2>1. Balanced
    BY BalancedSlots DEF IInv
  <2>2. ASSUME NEW t \in Sources
        PROVE  heap'[<<"data", t>>] = IF data'[t] # NULL THEN 1 ELSE 0
    BY <1>3, <1>4, <1>5, <1>6, <2>1 DEF Balanced, TypeOK, Alloc, AcquiredSlots, Slots
  <2>3. ASSUME NEW c \in Benches
        PROVE  /\ heap'[<<"outbuff", c>>] = IF outbuff'[c] THEN 1 ELSE 0
               /\ heap'[<<"compressed", c>>] = IF compressed'[c] # NULL THEN 1 ELSE 0
               /\ heap'[<<"codec", c>>] = IF codec_init'[c] THEN 1 ELSE 0
    BY <1>2, <1>3, <1>4, <2>1 DEF Balanced, TypeOK, Alloc, AcquiredSlots, Slots
  <2>4. QED
    BY <2>2, <2>3, BalancedSlotsNext DEF Balanced
<1>11. SetupFailureIsReal'
  BY <1>2 DEF SetupFailureIsReal
<1>12. ReportedIsWhole'
  <2>1. \A f \in Files : data[f] # NULL => data'[f] = data[f]
    BY <1>3, <1>5, <1>6 DEF TypeOK, Sources
  <2>2. ASSUME NEW c \in Benches, report'[c].res = "ok", Cf[c] \in Files
        PROVE  report'[c].bytes = data'[Cf[c]]
    <3>1. report[c].bytes = data[Cf[c]] /\ report[c].bytes \in Bytes
      BY <1>2, <2>2 DEF IInv, ReportedIsWhole, ReportedNamed
    <3>2. QED
      BY <1>2, <2>1, <2>2, <3>1
  <2>3. QED
    BY <1>2, <2>2 DEF IInv, ReportedIsWhole
<1>13. ReportedNamed'
  BY <1>2 DEF IInv, ReportedNamed
<1>14. QED
  BY <1>7, <1>8, <1>9, <1>10, <1>11, <1>12, <1>13 DEF IInv

\* So does that of an inflate benchmark.
LEMMA StepSetUpInflate ==
  ASSUME TypeOK, IInv, NEW b \in Benches, SetUpInflate(b)
  PROVE  IInv'
<1> DEFINE s == Cf[b]
<1>1. PICK avail \in BOOLEAN, ref \in BOOLEAN, room \in BOOLEAN, init \in BOOLEAN :
        SetUpInflateWith(b, avail, ref, room, init)
  BY DEF SetUpInflate
<1> DEFINE d == Acquired(b, avail)
           got == d # NULL
           ps == AcquiredSlots(b, d)
                   \cup (IF got /\ ref THEN {<<"compressed", b>>} ELSE {})
                   \cup (IF got /\ room THEN {<<"outbuff", b>>} ELSE {})
                   \cup (IF got /\ init THEN {<<"codec", b>>} ELSE {})
<1>2. /\ phase = "idle" /\ phase' = "ready" /\ cur = None /\ cur' = b /\ Kind[b] = "inflate"
      /\ UNCHANGED <<disk, report>>
  BY DEF SetUpInflate, Start, IInv, OneAtATime
<1>3. /\ data' = [data EXCEPT ![s] = d]
      /\ compressed' = [compressed EXCEPT ![b] =
                          IF got THEN (IF ref THEN RefStream(d) ELSE NULL) ELSE @]
      /\ outbuff' = [outbuff EXCEPT ![b] = IF got THEN room ELSE @]
      /\ codec_init' = [codec_init EXCEPT ![b] = IF got THEN init ELSE @]
      /\ heap' = Alloc(heap, ps)
      /\ refused' = ~(got /\ ref /\ room /\ init)
  BY <1>1 DEF SetUpInflateWith
<1>4. ~outbuff[b] /\ ~codec_init[b] /\ compressed[b] = NULL /\ data[b] = NULL
  BY <1>2 DEF IInv, OneAtATime
<1>5. s \in Sources /\ s \in Files \cup {b} /\ (Synth(b) <=> s = b) /\ b \notin Files
  BY InputTyped DEF Synth
<1>6. s \in Files /\ data[s] # NULL => d = data[s]
  BY DEF Acquired
<1>7. got => RefStream(d) # NULL
  BY AcquiredTyped, RefStreamTyped
<1>8. OneAtATime'
  BY <1>2, <1>3, <1>5 DEF IInv, OneAtATime, TypeOK, Synth
<1>9. InputsWhole'
  <2>1. \A t \in Sources : data'[t] # NULL => data'[t].src = t /\ data'[t].n = Size[t]
    BY <1>3, <1>5, AcquiredWhole DEF IInv, InputsWhole, TypeOK
  <2>2. \A c \in Benches : c # b => compressed'[c] = NULL
    BY <1>2, <1>3 DEF IInv, OneAtATime, TypeOK
  <2>3. compressed'[b] # NULL => data'[s] # NULL /\ compressed'[b] = RefStream(data'[s])
    BY <1>3, <1>4, <1>5 DEF TypeOK
  <2>4. QED
    BY <2>1, <2>2, <2>3 DEF InputsWhole
<1>10. RefusalSeen'
  BY <1>2, <1>3, <1>4, <1>5, <1>7 DEF RefusalSeen, Ready, InflateReady, TypeOK
<1>11. HeapBalanced'
  <2>1. Balanced
    BY BalancedSlots DEF IInv
  <2>2. ASSUME NEW t \in Sources
        PROVE  heap'[<<"data", t>>] = IF data'[t] # NULL THEN 1 ELSE 0
    BY <1>3, <1>4, <1>5, <1>6, <2>1 DEF Balanced, TypeOK, Alloc, AcquiredSlots, Slots
  <2>3. ASSUME NEW c \in Benches
        PROVE  /\ heap'[<<"outbuff", c>>] = IF outbuff'[c] THEN 1 ELSE 0
               /\ heap'[<<"compressed", c>>] = IF compressed'[c] # NULL THEN 1 ELSE 0
               /\ heap'[<<"codec", c>>] = IF codec_init'[c] THEN 1 ELSE 0
    BY <1>2, <1>3, <1>4, <1>7, <2>1 DEF Balanced, TypeOK, Alloc, AcquiredSlots, Slots
  <2>4. QED
    BY <2>2, <2>3, BalancedSlotsNext DEF Balanced
<1>12. SetupFailureIsReal'
  BY <1>2 DEF SetupFailureIsReal
<1>13. ReportedIsWhole'
  <2>1. \A f \in Files : data[f] # NULL => data'[f] = data[f]
    BY <1>3, <1>5, <1>6 DEF TypeOK, Sources
  <2>2. ASSUME NEW c \in Benches, report'[c].res = "ok", Cf[c] \in Files
        PROVE  report'[c].bytes = data'[Cf[c]]
    <3>1. report[c].bytes = data[Cf[c]] /\ report[c].bytes \in Bytes
      BY <1>2, <2>2 DEF IInv, ReportedIsWhole, ReportedNamed
    <3>2. QED
      BY <1>2, <2>1, <2>2, <3>1
  <2>3. QED
    BY <1>2, <2>2 DEF IInv, ReportedIsWhole
<1>14. ReportedNamed'
  BY <1>2 DEF IInv, ReportedNamed
<1>15. QED
  BY <1>8, <1>9, <1>10, <1>11, <1>12, <1>13, <1>14 DEF IInv

\* So does that of a checksum benchmark.
LEMMA StepSetUpChecksum ==
  ASSUME TypeOK, IInv, NEW b \in Benches, SetUpChecksum(b)
  PROVE  IInv'
<1> DEFINE s == Cf[b]
<1>1. PICK avail \in BOOLEAN :
        LET d == Acquired(b, avail) IN
        /\ data' = [data EXCEPT ![Cf[b]] = d]
        /\ heap' = Alloc(heap, AcquiredSlots(b, d))
        /\ refused' = (d = NULL)
  BY DEF SetUpChecksum
<1> DEFINE d == Acquired(b, avail)
<1>2. /\ phase = "idle" /\ phase' = "ready" /\ cur = None /\ cur' = b /\ Kind[b] = "checksum"
      /\ UNCHANGED <<disk, compressed, outbuff, codec_init, report>>
  BY DEF SetUpChecksum, Start, IInv, OneAtATime
<1>3. data' = [data EXCEPT ![s] = d] /\ heap' = Alloc(heap, AcquiredSlots(b, d))
      /\ refused' = (d = NULL)
  BY <1>1
<1>4. data[b] = NULL
  BY <1>2 DEF IInv, OneAtATime
<1>5. s \in Sources /\ s \in Files \cup {b} /\ (Synth(b) <=> s = b) /\ b \notin Files
  BY InputTyped DEF Synth
<1>6. s \in Files /\ data[s] # NULL => d = data[s]
  BY DEF Acquired
<1>7. OneAtATime'
  BY <1>2, <1>3, <1>5 DEF IInv, OneAtATime, TypeOK, Synth
<1>8. InputsWhole'
  <2>1. \A t \in Sources : data'[t] # NULL => data'[t].src = t /\ data'[t].n = Size[t]
    BY <1>3, <1>5, AcquiredWhole DEF IInv, InputsWhole, TypeOK
  <2>2. \A c \in Benches : compressed'[c] = NULL
    BY <1>2 DEF IInv, OneAtATime
  <2>3. QED
    BY <2>1, <2>2 DEF InputsWhole
<1>9. RefusalSeen'
  BY <1>2, <1>3, <1>5 DEF RefusalSeen, Ready, TypeOK
<1>10. HeapBalanced'
  <2>1. Balanced
    BY BalancedSlots DEF IInv
  <2>2. ASSUME NEW t \in Sources
        PROVE  heap'[<<"data", t>>] = IF data'[t] # NULL THEN 1 ELSE 0
    BY <1>3, <1>4, <1>5, <1>6, <2>1 DEF Balanced, TypeOK, Alloc, AcquiredSlots, Slots
  <2>3. ASSUME NEW c \in Benches
        PROVE  /\ heap'[<<"outbuff", c>>] = IF outbuff'[c] THEN 1 ELSE 0
               /\ heap'[<<"compressed", c>>] = IF compressed'[c] # NULL THEN 1 ELSE 0
               /\ heap'[<<"codec", c>>] = IF codec_init'[c] THEN 1 ELSE 0
    BY <1>2, <1>3, <2>1 DEF Balanced, TypeOK, Alloc, AcquiredSlots, Slots
  <2>4. QED
    BY <2>2, <2>3, BalancedSlotsNext DEF Balanced
<1>11. SetupFailureIsReal'
  BY <1>2 DEF SetupFailureIsReal
<1>12. ReportedIsWhole'
  <2>1. \A f \in Files : data[f] # NULL => data'[f] = data[f]
    BY <1>3, <1>5, <1>6 DEF TypeOK, Sources
  <2>2. ASSUME NEW c \in Benches, report'[c].res = "ok", Cf[c] \in Files
        PROVE  report'[c].bytes = data'[Cf[c]]
    <3>1. report[c].bytes = data[Cf[c]] /\ report[c].bytes \in Bytes
      BY <1>2, <2>2 DEF IInv, ReportedIsWhole, ReportedNamed
    <3>2. QED
      BY <1>2, <2>1, <2>2, <3>1
  <2>3. QED
    BY <1>2, <2>2 DEF IInv, ReportedIsWhole
<1>13. ReportedNamed'
  BY <1>2 DEF IInv, ReportedNamed
<1>14. QED
  BY <1>7, <1>8, <1>9, <1>10, <1>11, <1>12, <1>13 DEF IInv

----------------------------------------------------------------------------
(* What one BenchmarkCase may report. *)
Sound(b, r) ==
  /\ r.res \in Errors \cup {"ok"}
  /\ r.res = SetupFailed <=> ~Ready(b)
  /\ r.res = "ok" => /\ r.bytes \in Bytes /\ r.bytes.src = Cf[b] /\ r.bytes.n = Size[Cf[b]]
                     /\ r.bytes = data[Cf[b]]

\* A benchmark that is skipped for an error is sound.
LEMMA SkippedSound ==
  ASSUME NEW b \in Benches, NEW msg \in Errors, msg = SetupFailed <=> ~Ready(b)
  PROVE  Sound(b, Skipped(msg))
BY DEF Sound, Skipped, Errors, SetupFailed

\* A benchmark that measured its own input is sound.
LEMMA OkSound ==
  ASSUME TypeOK, IInv, NEW b \in Benches, Ready(b), data[Cf[b]] # NULL
  PROVE  Sound(b, Ok(data[Cf[b]]))
<1>1. data[Cf[b]] \in Bytes
  BY InputTyped DEF TypeOK
<1>2. QED
  BY <1>1, InputTyped DEF Sound, Ok, SetupFailed, IInv, InputsWhole

\* A deflate benchmark is measured on its input, or skipped for an error.
LEMMA DeflateSound ==
  ASSUME TypeOK, IInv, NEW b \in Benches, BenchmarkDeflate(b)
  PROVE  \E r : Measure(b, r) /\ Sound(b, r)
<1>1. Ready(b) <=> DeflateReady(b)
  BY DEF BenchmarkDeflate, Ready
<1>2. CASE ~DeflateReady(b)
  <2>1. Sound(b, Skipped(SetupFailed))
    BY <1>1, <1>2, SkippedSound DEF Errors
  <2>2. QED
    BY <1>2, <2>1 DEF BenchmarkDeflate
<1>3. CASE DeflateReady(b)
  <2> DEFINE d == data[Cf[b]]
  <2>1. d \in Bytes /\ d # NULL
    BY <1>3, InputTyped DEF DeflateReady, TypeOK
  <2>2. Sound(b, Skipped("compress failed")) /\ Sound(b, Skipped("roundtrip verification failed"))
    BY <1>1, <1>3, SkippedSound DEF Errors, SetupFailed
  <2>3. ASSUME NEW out \in Outputs(d), NEW stale \in BOOLEAN, Verified(out, d, stale)
        PROVE  Sound(b, Ok(out))
    <3>1. out \in Bytes /\ out.src = d.src /\ out.ver = d.ver /\ out.n = d.n
      BY <2>1, <2>3, OutputsTyped DEF Verified, ZngInflate
    <3>2. out = d
      BY <2>1, <3>1, WholePrefix
    <3>3. QED
      BY <1>1, <1>3, <2>1, <3>2, OkSound
  <2>4. QED
    BY <1>3, <2>2, <2>3 DEF BenchmarkDeflate
<1>4. QED
  BY <1>2, <1>3

\* So is an inflate benchmark.
LEMMA InflateSound ==
  ASSUME TypeOK, IInv, NEW b \in Benches, BenchmarkInflate(b)
  PROVE  \E r : Measure(b, r) /\ Sound(b, r)
<1>1. Ready(b) <=> InflateReady(b)
  BY DEF BenchmarkInflate, Ready
<1>2. CASE ~InflateReady(b)
  <2>1. Sound(b, Skipped(SetupFailed))
    BY <1>1, <1>2, SkippedSound DEF Errors
  <2>2. QED
    BY <1>2, <2>1 DEF BenchmarkInflate
<1>3. CASE InflateReady(b)
  <2> DEFINE d == data[Cf[b]]
  <2>1. d \in Bytes /\ d # NULL /\ compressed[b] = RefStream(d) /\ d.n = Size[Cf[b]]
    BY <1>3, InputTyped DEF InflateReady, TypeOK, IInv, InputsWhole
  <2>2. Sound(b, Skipped("decompress failed"))
        /\ Sound(b, Skipped("output does not match original"))
    BY <1>1, <1>3, SkippedSound DEF Errors, SetupFailed
  <2>3. ASSUME NEW out \in Outputs(compressed[b]), out # Junk, out.n = Size[Cf[b]]
        PROVE  Sound(b, Ok(out))
    <3>1. compressed[b] \in Bytes /\ compressed[b].src = d.src /\ compressed[b].ver = d.ver
      BY <2>1, RefStreamTyped DEF RefStream, Bytes
    <3>2. out \in Bytes /\ out.src = d.src /\ out.ver = d.ver
      BY <2>3, <3>1, OutputsTyped
    <3>3. out = d
      BY <2>1, <2>3, <3>2, WholePrefix
    <3>4. QED
      BY <1>1, <1>3, <2>1, <3>3, OkSound
  <2>4. QED
    BY <1>3, <2>2, <2>3 DEF BenchmarkInflate
<1>4. QED
  BY <1>2, <1>3

\* So is a checksum benchmark.
LEMMA ChecksumSound ==
  ASSUME TypeOK, IInv, NEW b \in Benches, BenchmarkChecksum(b)
  PROVE  \E r : Measure(b, r) /\ Sound(b, r)
<1>1. Ready(b) <=> data[Cf[b]] # NULL
  BY DEF BenchmarkChecksum, Ready
<1>2. CASE data[Cf[b]] = NULL
  <2>1. Sound(b, Skipped(SetupFailed))
    BY <1>1, <1>2, SkippedSound DEF Errors
  <2>2. QED
    BY <1>2, <2>1 DEF BenchmarkChecksum
<1>3. CASE data[Cf[b]] # NULL
  <2>1. Sound(b, Skipped("checksum does not match zlib-ng"))
    BY <1>1, <1>3, SkippedSound DEF Errors, SetupFailed
  <2>2. Sound(b, Ok(data[Cf[b]]))
    BY <1>1, <1>3, OkSound
  <2>3. QED
    BY <1>3, <2>1, <2>2 DEF BenchmarkChecksum
<1>4. QED
  BY <1>2, <1>3

\* So is any benchmark.
LEMMA BenchmarkSound ==
  ASSUME TypeOK, IInv, NEW b \in Benches, BenchmarkCase(b)
  PROVE  \E r : Measure(b, r) /\ Sound(b, r)
BY DeflateSound, InflateSound, ChecksumSound DEF BenchmarkCase

\* The measurement keeps IInv.
LEMMA StepBenchmark ==
  ASSUME TypeOK, IInv, NEW b \in Benches, BenchmarkCase(b)
  PROVE  IInv'
<1>1. PICK r : Measure(b, r) /\ Sound(b, r)
  BY BenchmarkSound
<1>2. /\ phase = "ready" /\ phase' = "done" /\ cur = b /\ cur' = b
      /\ report' = [report EXCEPT ![b] = r]
      /\ UNCHANGED <<disk, data, compressed, outbuff, codec_init, heap, refused>>
  BY <1>1 DEF Measure
<1>3. OneAtATime'
  BY <1>2 DEF IInv, OneAtATime
<1>4. InputsWhole'
  BY <1>2 DEF IInv, InputsWhole
<1>5. RefusalSeen'
  BY <1>2 DEF RefusalSeen
<1>6. HeapBalanced'
  BY <1>2 DEF IInv, HeapBalanced, Held
<1>7. SetupFailureIsReal'
  BY <1>1, <1>2 DEF IInv, SetupFailureIsReal, RefusalSeen, Sound, TypeOK
<1>8. ReportedIsWhole' /\ ReportedNamed'
  BY <1>1, <1>2 DEF IInv, ReportedIsWhole, ReportedNamed, Sound, TypeOK
<1>9. QED
  BY <1>3, <1>4, <1>5, <1>6, <1>7, <1>8 DEF IInv

\* TearDown keeps IInv.
LEMMA StepTearDown ==
  ASSUME TypeOK, IInv, NEW b \in Benches, TearDown(b)
  PROVE  IInv'
<1> DEFINE s == Cf[b]
<1>1. /\ phase' = "idle" /\ cur = b /\ cur' = None /\ heap' = Free(heap, Released(b))
      /\ codec_init' = [codec_init EXCEPT ![b] = FALSE]
      /\ outbuff' = [outbuff EXCEPT ![b] = FALSE]
      /\ compressed' = [compressed EXCEPT ![b] = NULL]
      /\ data' = [data EXCEPT ![s] = IF Synth(b) THEN NULL ELSE @]
      /\ UNCHANGED <<disk, report>>
  BY DEF TearDown
<1>2. s \in Sources /\ s \in Files \cup {b} /\ (Synth(b) <=> s = b) /\ b \notin Files
  BY InputTyped DEF Synth
<1>3. OneAtATime'
  <2>1. ~Synth(b) => data[b] = NULL
    BY DEF IInv, OneAtATime
  <2>2. QED
    BY <1>1, <1>2, <2>1 DEF IInv, OneAtATime, TypeOK, Synth
<1>4. InputsWhole'
  <2>1. \A t \in Sources : data'[t] # NULL => data'[t] = data[t]
    BY <1>1, <1>2 DEF TypeOK
  <2>2. \A c \in Benches : compressed'[c] = NULL
    BY <1>1 DEF IInv, OneAtATime, TypeOK
  <2>3. QED
    BY <2>1, <2>2 DEF IInv, InputsWhole
<1>5. RefusalSeen' /\ SetupFailureIsReal'
  BY <1>1 DEF RefusalSeen, SetupFailureIsReal
<1>6. HeapBalanced'
  <2>1. Balanced
    BY BalancedSlots DEF IInv
  <2>2. ASSUME NEW t \in Sources
        PROVE  heap'[<<"data", t>>] = IF data'[t] # NULL THEN 1 ELSE 0
    BY <1>1, <1>2, <2>1 DEF Balanced, TypeOK, Free, Released, Slots
  <2>3. ASSUME NEW c \in Benches
        PROVE  /\ heap'[<<"outbuff", c>>] = IF outbuff'[c] THEN 1 ELSE 0
               /\ heap'[<<"compressed", c>>] = IF compressed'[c] # NULL THEN 1 ELSE 0
               /\ heap'[<<"codec", c>>] = IF codec_init'[c] THEN 1 ELSE 0
    BY <1>1, <2>1 DEF Balanced, TypeOK, Free, Released, Slots
  <2>4. QED
    BY <2>2, <2>3, BalancedSlotsNext DEF Balanced
<1>7. ReportedIsWhole' /\ ReportedNamed'
  <2>1. \A f \in Files : data'[f] = data[f]
    BY <1>1, <1>2 DEF TypeOK, Sources
  <2>2. QED
    BY <1>1, <2>1 DEF IInv, ReportedIsWhole, ReportedNamed
<1>8. QED
  BY <1>3, <1>4, <1>5, <1>6, <1>7 DEF IInv

\* SetUp keeps IInv.
LEMMA StepSetUp ==
  ASSUME TypeOK, IInv, NEW b \in Benches, SetUp(b)
  PROVE  IInv'
BY StepSetUpDeflate, StepSetUpInflate, StepSetUpChecksum DEF SetUp

\* A corpus file that is rewritten keeps IInv.
LEMMA StepRewrite ==
  ASSUME IInv, NEW f \in Files, Rewrite(f)
  PROVE  IInv'
<1>1. UNCHANGED <<phase, cur, data, compressed, outbuff, codec_init, heap, refused, report>>
  BY DEF Rewrite
<1>2. OneAtATime' /\ InputsWhole'
  BY <1>1 DEF IInv, OneAtATime, InputsWhole
<1>3. RefusalSeen'
  BY <1>1 DEF IInv, RefusalSeen, Ready, DeflateReady, InflateReady
<1>4. HeapBalanced'
  BY <1>1 DEF IInv, HeapBalanced, Held
<1>5. SetupFailureIsReal' /\ ReportedIsWhole' /\ ReportedNamed'
  BY <1>1 DEF IInv, SetupFailureIsReal, ReportedIsWhole, ReportedNamed
<1>6. QED
  BY <1>2, <1>3, <1>4, <1>5 DEF IInv

\* IInv is an invariant.
LEMMA Invariance == Spec => []IInv
<1>1. Init => IInv
  <2> SUFFICES ASSUME Init PROVE IInv
    OBVIOUS
  <2>1. OneAtATime /\ InputsWhole /\ RefusalSeen /\ ReportedNamed
    BY DEF Init, OneAtATime, InputsWhole, RefusalSeen, ReportedNamed, Sources
  <2>2. HeapBalanced
    <3>1. Balanced
      BY DEF Init, Balanced, Slots, Sources
    <3>2. QED
      BY <3>1, BalancedSlots
  <2>3. SetupFailureIsReal /\ ReportedIsWhole
    BY DEF Init, SetupFailureIsReal, ReportedIsWhole
  <2>4. QED
    BY <2>1, <2>2, <2>3 DEF IInv
<1>2. TypeOK /\ IInv /\ [Next]_vars => IInv'
  <2> SUFFICES ASSUME TypeOK, IInv, [Next]_vars PROVE IInv'
    OBVIOUS
  <2>1. CASE UNCHANGED vars
    BY <2>1 DEF vars, IInv, OneAtATime, InputsWhole, RefusalSeen, ReportedNamed, Ready,
                DeflateReady, InflateReady, HeapBalanced, Held, SetupFailureIsReal,
                ReportedIsWhole
  <2>2. QED
    BY <2>1, StepSetUp, StepBenchmark, StepTearDown, StepRewrite DEF Next
<1>3. QED
  BY <1>1, <1>2, TypeCorrect, PTL DEF Spec

----------------------------------------------------------------------------
(* Whatever requests are refused over all runs, no pointer of a fixture is   *)
(* leaked, freed twice or left dangling.                                     *)
THEOREM HeapSafety == Spec => []HeapBalanced
BY Invariance, PTL DEF IInv

(* Between two runs nothing but the cached corpus files is held.             *)
THEOREM IdleHoldsOnlyCorpora == Spec => []OnlyCorporaStay
<1>1. TypeOK /\ IInv => OnlyCorporaStay
  BY DEF IInv, OneAtATime, OnlyCorporaStay, Held, Slots, Sources
<1>2. QED
  BY <1>1, Invariance, TypeCorrect, PTL

(* A run reports "setup failed" exactly when its own SetUp was refused.      *)
THEOREM SetupFailuresAreReal == Spec => []SetupFailureIsReal
BY Invariance, PTL DEF IInv

(* A reported number stands for all the bytes of the input, for every size   *)
(* and every width of the length fields.                                     *)
THEOREM ReportsAreWhole == Spec => []ReportedIsWhole
BY Invariance, PTL DEF IInv

(* The bytes of a corpus file never change once they have been read.         *)
THEOREM StableCorpus == Spec => CorpusIsStable
<1>1. TypeOK /\ IInv /\ [Next]_vars
        => [\A f \in Files : data[f] # NULL => data'[f] = data[f]]_vars
  <2> SUFFICES ASSUME TypeOK, IInv, [Next]_vars, NEW f \in Files, data[f] # NULL,
                      ~UNCHANGED vars
               PROVE  data'[f] = data[f]
    OBVIOUS
  <2>1. ASSUME NEW b \in Benches, NEW avail \in BOOLEAN,
               data' = [data EXCEPT ![Cf[b]] = Acquired(b, avail)]
        PROVE  data'[f] = data[f]
    <3>1. CASE Cf[b] = f
      BY <2>1, <3>1, InputTyped DEF TypeOK, Acquired
    <3>2. CASE Cf[b] # f
      BY <2>1, <3>2, InputTyped DEF TypeOK, Sources
    <3>3. QED
      BY <3>1, <3>2
  <2>2. ASSUME NEW b \in Benches, SetUp(b) PROVE data'[f] = data[f]
    BY <2>1, <2>2 DEF SetUp, SetUpDeflate, SetUpDeflateWith, SetUpInflate, SetUpInflateWith,
                      SetUpChecksum
  <2>3. ASSUME NEW b \in Benches, BenchmarkCase(b) PROVE data'[f] = data[f]
    BY <2>3, BenchmarkSound DEF Measure
  <2>4. ASSUME NEW b \in Benches, TearDown(b) PROVE data'[f] = data[f]
    BY <2>4, InputTyped DEF TearDown, TypeOK, Synth, Sources
  <2>5. ASSUME NEW g \in Files, Rewrite(g) PROVE data'[f] = data[f]
    BY <2>5 DEF Rewrite
  <2>6. QED
    BY <2>2, <2>3, <2>4, <2>5 DEF Next
<1>2. QED
  BY <1>1, TypeCorrect, Invariance, PTL DEF Spec, CorpusIsStable

(* The fixtures, their shared cache and their failing resources implement    *)
(* Measurement: every run is an error or a number for its whole input, and   *)
(* numbers held for one corpus file are for the same bytes.                  *)
THEOREM FixturesImplementMeasurement == Spec => ImplementsMeasurement
<1>1. Init => M!Init
  BY DEF Init, M!Init
<1>2. TypeOK /\ IInv /\ [Next]_vars => [M!Next]_M!mvars
  <2> SUFFICES ASSUME TypeOK, IInv, [Next]_vars
               PROVE  M!Next \/ UNCHANGED M!mvars
    OBVIOUS
  <2>1. ASSUME NEW b \in Benches, SetUp(b) PROVE M!Begin(b)
    <3>1. phase = "idle" /\ phase' = "ready" /\ cur' = b /\ UNCHANGED report
      BY <2>1 DEF SetUp, SetUpDeflate, SetUpInflate, SetUpChecksum, Start
    <3>2. QED
      BY <3>1 DEF M!Begin
  <2>2. ASSUME NEW b \in Benches, BenchmarkCase(b) PROVE M!Finish(b)
    <3>1. PICK r : Measure(b, r) /\ Sound(b, r)
      BY <2>2, BenchmarkSound
    <3>2. /\ phase = "ready" /\ phase' = "done" /\ cur = b
          /\ report' = [report EXCEPT ![b] = r]
      BY <3>1 DEF Measure
    <3>3. report'[b] = r /\ \A c \in Benches \ {b} : report'[c] = report[c]
      BY <3>2 DEF TypeOK
    <3>4. r.res = "ok" => M!Whole(b, r) /\ M!Agrees(b, r)
      BY <3>1 DEF Sound, M!Whole, M!Agrees, IInv, ReportedIsWhole
    <3>5. QED
      BY <3>1, <3>2, <3>3, <3>4 DEF M!Finish, Sound
  <2>3. ASSUME NEW b \in Benches, TearDown(b) PROVE UNCHANGED M!mvars
    BY <2>3 DEF TearDown, M!mvars
  <2>4. ASSUME NEW f \in Files, Rewrite(f) PROVE UNCHANGED M!mvars
    BY <2>4 DEF Rewrite, M!mvars
  <2>5. CASE UNCHANGED vars
    BY <2>5 DEF vars, M!mvars
  <2>6. QED
    BY <2>1, <2>2, <2>3, <2>4, <2>5 DEF Next, M!Next
<1>3. QED
  BY <1>1, <1>2, TypeCorrect, Invariance, PTL DEF Spec, M!Spec, ImplementsMeasurement
=============================================================================
