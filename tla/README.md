# Specifications of codecbench

codecbench measures compression backends. A C++ binary is built per backend
(`CMakeLists.txt`); it registers fixtures with Google Benchmark, runs them over
corpus files and synthetic inputs and writes JSON. Python scripts rerun, merge,
compare and draw these results, and two of them build and run other revisions of
zlib-ng. The modules here model the parts in which a wrong number can come about
without anything failing: what a fixture holds and reports, how a stream is
walked and counted, how rows of several runs are put together, which revision a
comparison is of, and which rows become which point of a chart.

Source lines are written `file:line`; scripts are under `src/scripts`, the rest
under `src`.

## 1. The system

| component | state | operations | meets |
|---|---|---|---|
| codec fixtures, `benchmark_codec.cc` | input, output buffer, reference stream, codec flags, per fixture and across runs | `SetUp`, `BenchmarkCase`, `TearDown`, `acquire_data`, `release_data` | Google Benchmark calls them, they call a backend and the corpus cache |
| corpora, `benchmark_corpora.h` | `corpora_files` with a cached `data` each | `list_subdirs`, `list_files`, `discover_corpora`, `load_corpus_file` | shared by all fixtures of a file; the file system below |
| registration, `benchmark_codec.cc:437-643`, `benchmark_data_types.cc`, `test_data.h` | hooks, mask of data types, list of benchmarks | static initialisers, option parser, hook call | runs before and inside `main` |
| main, `benchmark_main.cc` | `CooldownReporter::first_report_` | option handling, `ReportRuns` | wraps the display reporter |
| deflate walker, `deflate_stats.h` | bit buffer, Huffman tables, counters | `dstats_bits`, `dstats_build`, `dstats_decode`, `dstats_block`, `deflate_stream_stats` | called once per compressed output to fill counters |
| codec wrappers, `codecs/*.h`, `zlib_shim.c`, `mem_count.h` | a stream, its allocation counter | init, compress, decompress, chunked decompress, reset, end | below the fixtures, above a library |
| `run_clean.py` | the document in memory, two files | wait for idle, run, retry, splice, write | starts the binary, shares only files with it |
| `merge_runs.py`, `compare_runs.py` | the `rows` dict; two loaded documents | merge, load, compare, overall mean | read documents of any mix of runs |
| `bench_pr.py`, `insert_map.py` (building) | a clone, worktrees, builds and results in a work directory that outlives a call | checkout, patch, build, bench, trace | git, cmake, the binary, `run_clean.py`; an upstream that moves |
| `insert_map.py` (drawing) | tar members, pixels, the table | members, densities, shares | the bits a traced zlib-ng wrote |
| `profile_corpus.py` | ranges, position, table of keys, counters | sampling, greedy parse, stacked rows | a corpus file |
| `graph_runs.py`, `compare_levels.py` | points of each run, panels placed so far | collect, aggregate, a section after the other, markers | documents |
| `compare_inputs.py`, `frontier.py` | rows by input and level, grids or rings | select, judge or beat, draw | documents |
| `stream_anatomy.py`, `symbol_cost.py` | none | shares of the walker's counters, drawn | documents |

The binary is one thread; what makes it hard is not concurrency inside it but
**long sequences of calls over state that outlives a run**. Google Benchmark
alternates `SetUp`/`TearDown` of many fixtures over pointers in objects that live
as long as the process, any request for memory may be refused, a corpus file may
be rewritten between discovery, first read and later use, and lengths pass
through 32-bit fields. Around the binary there is real interleaving: the
scripts, the binary, the load of the machine, pushes upstream and Ctrl-C meet in
files that survive all of them. The walker, the pixels of the map and the greedy
parse are arithmetic with many boundaries that no test pins down. And the charts
take whatever mix of rows interrupted and filtered runs have left.

What makes each part correct:

- fixtures: every pointer owns one block or none whatever was refused; a number
  stands for the whole input; "setup failed" means a refusal of this run; numbers
  for one corpus file stand for the same bytes.
- walker: no bit is lost or read twice; every bit is in exactly one counter, and
  every match in one of each kind, but for a length that turns out to have no
  distance; the decoder decodes the canonical code; it ends.
- wrappers: the counter is what the stream holds; chunked and one-shot inflate
  agree; no window leaves the buffer.
- registration: each result has a place of its own, the option selects exactly
  what it names, no corpus file is lost; what is run is reported.
- `run_clean.py`: rows of different runs are not mixed, clean rows are not
  replaced, and the retry loop ends.
- merging and comparing: a rerun wins, nothing is lost or doubled, a mean is over
  the same benchmarks on both sides.
- the work directory: what is compared or drawn is of the revisions this call
  fetched, whatever earlier calls left there, but for files in a tree whose
  checkout was interrupted.
- charts: runs are compared over the same inputs, what the runs have measured has
  its point, line or cell, and nothing is drawn over anything else.

The hazards, each at its line with the properties that watch it, are listed in
`PROJECT.json`.

## 2. Modules

| module | code | state and actions |
|---|---|---|
| `Measurement` | what the binary promises | abstract: which benchmark runs, the last result of each |
| `CodecFixture` | `benchmark_codec.cc:39-432`, cache of `benchmark_corpora.h`, `zlib_ng.h:125-162` | `SetUp`, `BenchmarkCase`, `TearDown` of deflate, inflate and checksum fixtures, `Rewrite` of a file on disk. `heap` counts the live blocks of every pointer |
| `BitSource` | what the bit reader promises | abstract: a position in a sequence of bits |
| `BitReader` | `deflate_stats.h:42-72`, `:204-218` | `Bits`, `BitsFail`, `Stored` |
| `HuffmanCode` | `deflate_stats.h:74-120` | `Built` as a function of the lengths; `Step`, `InputEnds`, `Again` of the decoder |
| `SymbolReader` | the calls of `dstats_bits` from `dstats_decode` | composes `BitReader` and `HuffmanCode`: a step of the decoder takes a bit of the reader, between other reads |
| `DeflateWalker` | `deflate_stats.h:122-296` | an action per block type, tree code, literal, end of block, length and distance; `BadBlock` for a block that fails after it was counted, and `Reject` for every other failure |
| `Registration` | `benchmark_codec.cc:437-643`, `benchmark_data_types.cc`, `benchmark_corpora.h:42-160` | an action per static initialiser, token and hook call |
| `Cooldown` | `benchmark_main.cc:25-61` | `ReportRuns` inside Google Benchmark's loop |
| `BenchmarkMain` | `main` of `benchmark_main.cc` | composes `Registration`, `Cooldown` and the naming of `ResultRows`: a binary from static initialisation to its last report |
| `ZlibCodec` | `zlib_ng.h`, `zlib_shim.c`, `mem_count.h` | open, init that fails half way, allocations, one-shot and chunked inflate, end |
| `RunClean` | `run_clean.py` | the script step by step; the binary, the machine and Ctrl-C are its environment |
| `Runs` | rows as Google Benchmark writes them; `load` | no state |
| `MergeRuns`, `CompareRuns` | `merge_runs.py`, `compare_runs.py` | a file merged, a benchmark compared, the overall line |
| `Reports` | the two scripts in a row | composes `MergeRuns` and `CompareRuns`: what one wrote the other reads |
| `PrWorkdir` | `bench_pr.py`, `insert_map.py:131-237`, `:431-459` | both scripts over one work directory: an action per command, `Upstream` between any two, `Fail` at each |
| `ResultRows` | `collect` of `graph_runs.py` | no state: groups and keys of rows, common labels, panels of a page |
| `InsertMap` | drawing of `insert_map.py` | a tar header, a block, a row of the table |
| `GreedyParse` | `profile_corpus.py` | a preamble, a match, a literal, the stacked rows |
| `GraphRuns` | `graph_runs.py` | `Aggregate`, then an action per section of the chart |
| `CompareLevels` | `compare_levels.py` | load and narrow, chart, a table after the other |
| `CompareInputs` | `compare_inputs.py`, `frontier.py` | select, then two grids, or a panel after the other |
| `Markers` | `dodge_markers` of `graph_runs.py`, dots of `compare_levels.py` | a series into its cluster, a dot |
| `Charts` | a call of any script that draws | composes the six modules above |

`MCScripts` runs `Reports` and `PrWorkdir` side by side: as they share no state, it lets one
move while the other has not begun.

How they fit: `CodecFixture` implements `Measurement` through an `INSTANCE` whose
mapping shows a run as going on from the end of `SetUp` to the end of
`BenchmarkCase`. `BitReader` implements `BitSource`, and `DeflateWalker` is
written over positions in a stream of bits, that is over `BitSource`: what it
needs of the reader is what the refinement shows. It needs of a Huffman code that
a symbol is some number of bits, which `DecodesTheCode` says of the bits the reader
gives. `ZlibCodec` models the calls `CodecFixture` takes as given.
`BenchmarkMain` and `Reports` are compositions with the variables of two modules
side by side: a step of one leaves the other's alone, except those that hand
over, `RunSpecifiedBenchmarks` the registered names and `StartCompare` the merged
rows. In `PrWorkdir` the two scripts share the variables because they share the
directory. In `Charts` they do so because a process runs one of them; the
scripts themselves are independent.

Abstractions worth knowing:

- a byte string is "the first n bytes of version v of a source", and a stream is
  named by what it decodes to, or `Junk`. A backend may return anything;
- the 2^32 of `avail_in` and `avail_out` is the constant `Width`;
- in `DeflateWalker` the stream is whatever a read finds: each action is enabled
  for every symbol and extra bits there could be. Only the number of code
  lengths of a dynamic tree is kept, not the lengths. A length is counted in the
  step that reads it, before its distance (`mlen` is that length), so a walk that
  fails in between leaves half a match in the counters, as the code does;
- in `CompareRuns` times are powers of two given by their exponent, so that the
  geometric mean is exact; 0 stands for the time of a row with an error, which
  is zero in the JSON and is skipped by `geomean`. The names both documents have are
  compared in some order, as no property tells the sorted one apart;
- a benchmark name is a record of its parts. `RunClean` keeps one fact of the
  strings: whether a name is a prefix of another, which an unanchored filter
  would confuse;
- in `PrWorkdir` a revision is a place in the history, a tree its revision (HEAD),
  the files patched in it and the other revisions that files in it may be of
  (`stray`), a build the tree it was made of. Only files git tracks are meant.
  A checkout that is killed has written some files of its target and not moved
  HEAD (`HalfParked`); the next one of `bench_pr.py`, which does not force it,
  fails if it would overwrite such a file and carries it over if not
  (`Leftovers`); that of `insert_map.py` resets everything. A lock that a killed
  git leaves behind makes the next command fail, which `Fail` covers;
- a point or a sum of a chart stands for the labels it is a mean of, a panel for
  all that is drawn in it, by its rectangle in pixels of the page;
- in `CompareInputs` changes and noise are kept as integers and compared by
  multiplying out, so that what the two scripts decide with a quotient and with
  a comparison can be told apart exactly;
- in `CompareLevels` the tables come in some order of the strategies, as no property
  tells the one of `graph_runs.py:60` apart.

## 3. Runs

Each passing run explores its state space to the end.

| run | question | instance |
|---|---|---|
| `fixtures` | do the fixtures keep their books and their word? | two deflate, two inflate and a checksum fixture, of which a deflate and an inflate share a corpus file of 3 bytes; synthetic inputs of 5 bytes; `Width` 4; one rewrite of the file |
| `decode` | is a bit lost or repeated, and is it the canonical code? | all lengths up to 4 of four symbols, decoded from three aperiodic bytes between reads of 0 to 13 bits and stored blocks of any length |
| `walker` | do the counters add up, and does the walk end? | eight bytes, codes of 7 bits |
| `zlib_codec` | are the counter and the windows right? | two blocks, requests of up to 2 bytes, streams, buffers and chunks of up to 4 with `Width` 4 |
| `binary` | what gets registered, run and reported? | three backends, eighteen corpus trees, 49 options; four filters, up to three repetitions, each may fail |
| `retries` | what may a finished `run_clean.py` have written? | two benchmarks, two calls with two retries, two polls |
| `scripts` | does the comparison see the right rows, and of the right revisions? | `merge_runs.py` and `compare_runs.py`: two benchmarks, up to two files merged, one to compare with; `bench_pr.py` and `insert_map.py`: three calls of either, one commit and one more push upstream, a failure or a kill at every step |
| `charts` | does each script show what it is given? | tars cut to 3 to 32 bytes, all files of up to 11 bytes of two values, results of two or three runs in every mix of seven kinds of rows, ten and eleven runs, measurements around the noise |
| `retries_stale`, `compare_overall`, `cooldown_first`, `workdir_mixed` | see "Disagreements" | as the runs above; `retries_stale` with one retry |

Why these bounds are enough for the question:

- *fixtures*: a shared file needs two users to matter, wrapping needs a length
  above `Width` and one below, and the checksum fixture is the third kind. A
  refusal may hit every request of every run, and runs repeat without bound: the
  state space is finite because a report replaces the last. The theorems cover
  any number of files, fixtures and sizes.
- *decode*: reads of 13 bits leave a decoder to start at every bit of the three
  bytes and to run out of them in every state; the first two bytes hold every
  run of four bits, so each code word of each code occurs. Four symbols at four
  levels contain over- and under-subscribed codes, gaps, and equal lengths next
  to each other. The theorems cover every input and every set of lengths.
- *walker*: with codes of seven bits eight bytes hold a dynamic header whose 258
  lengths are two runs of symbol 18 and an empty block, or a fixed block with
  four matches. The symbols chosen reach each copy
  arm, distances below, between and above 16, 32 and 64 with longer and shorter
  matches, and the shortest and longest match. No action takes a bad symbol (a
  length from 29 or a distance from 30 on): each, and every other way to fail, is
  the one step `Reject`, possible in every state, between a length and its
  distance too. The 1032 bytes out of one that `OutputBounded` allows are not reached with such
  codes; that bound is proved.
- *zlib_codec*: with `Width` 4 a length of 4 is the overflow, and one of 0 to 3
  is not; chunk sizes run from 0 to past the buffer, so the last window is full,
  partial and empty.
- *binary*: a tree for each kind of entry, an option for each way a list can end,
  a backend for each set of macros, and the first, the second and a later
  benchmark, which the cooldown tells apart.
- *retries*: leftovers need an earlier call, and a second retry is what splices
  into rows that were spliced already. More benchmarks only repeat the pair of a
  name and one it is a prefix of.
- *scripts*, reports: a row is lost or doubled by two files already; two names are what a
  mean needs to be over different sets. Each document has times of its own, so
  the document a row came from shows in the result.
- *scripts*, work directory: what is left over needs one earlier call, of the same script or the
  other, and a tree with files of two revisions needs two, one that parks it and
  one that is killed parking it elsewhere; a push during a call and one between
  two calls are the two ways to be stale; a rebase needs a commit to go to. The
  theorems cover any number of each.
- *charts*: blocks and bytes of 4 put members and pixels at every offset from
  each other. With a window of 2, a scan of 3 and two blocks a file of 10 is one
  range and one of 11 two, and matches reach the cut-off, both buckets of
  distance and all of length. Results come with every section present and
  absent, next to sections that set what a later one reads; three runs can share
  inputs pairwise and not together; two share one input at two levels and another
  at one, so that "at some level" and "at all levels" differ. Four series or five dots hold chains longer
  than a pair. The theorems cover any results, options, series and dots.

Bounds that exist only for the model: `MaxVer` (rewrites of a file), `MaxCalls`
and `MaxPolls` (the timeout of 600 s over 15 s is forty polls), `MaxDocs`,
`MaxBytes`, `MaxOut`, `MaxReps`, `MaxDevelop` and `MaxPushes`.

Deadlock is not checked where the program stops: a walk that has returned, a
script that may not be started again or has written its chart, a `main` that is
over. It is checked for `fixtures` and `zlib_codec`, which go on for ever.

### Properties

- `CodecFixture`: `HeapBalanced` (no leak, double free or dangling pointer over
  any sequence of runs and refusals), `OnlyCorporaStay`, `SetupFailureIsReal`,
  `ReportedIsWhole`, `CorpusIsStable`, `ImplementsMeasurement`.
- `SymbolReader`: `NoBitLost` and `ImplementsBitSource` of the reader, and
  `DecodesTheCode`, against RFC 1951's definition of the code words and the bits
  that stand in the stream.
- `DeflateWalker`: `BitsAccounted`, `MatchesPartitioned`, `OutputBounded`,
  `Terminates`; its `TypeOK` contains `n <= total <= 320`, which is what keeps
  the repeat codes inside `lengths[320]`.
- `ZlibCodec`: `MemIsExact`, `ChunkedAgrees`, `StaysInside`, `CallReturns`.
- `BenchmarkMain`: `OnePlaceEach` (no two benchmarks of a binary meet in a chart,
  nor have they one name), `SelectionExact`, `CorpusComplete`,
  `EveryBenchmarkShown`, `LaterBenchmarksRested`.
- `RunClean`: `OutputIsOwn`, `OneRunPerName`, `OnlyDirtyReplaced`,
  `DirtyOnlyWithReason`, `Terminates`.
- `Reports`: `RowsPartition`, `RerunWins`, `OverallOfGoodRuns`.
- `PrWorkdir`: `ComparedAsFetched`, `TracedAsFetched`; `BuiltOfOneRevision`, which
  the code does not keep.
- `Charts`: `MapAddsUp`, `ParseAccounts`, `SameInputs`, `NothingHidden`,
  `NothingMissing`, `ChartIsWritten`, `RingsSound`. `NothingMissing` says what has to
  be shown without the scripts' own selection: from the rows of the runs and the
  options (`Found` and `Asked`, `Measured` and `Comparable`).

Some modules hold definitions under a comment that begins "Mutant:". They are
faulty variants of the definition that follows, one for each property, listed in
`PROJECT.json`: with the variant in its place the property must fail, which shows
that it says something of the code.

### Fairness

Three properties are of liveness, each under the weakest assumption the code
supports:

- `DeflateWalker!Spec` has `WF_vars(Next)`: it is one sequential function, which
  runs on until it returns. What is shown is that no stream keeps it.
- `RunClean!Spec` has `WF_vars(Step)`: the script and the child it waits for go
  on, or are killed. Nobody has to start the script, and nothing is assumed of
  the machine: `Terminates` holds with a machine that is never idle, because
  `wait_idle` has a timeout, and with benchmarks that are never clean, because
  retries are counted.
- `ZlibSpec` of `ZlibCodec` has `WF_zlibVars(Pass)`: the loop of a chunked inflate is a call
  that was begun. The library may return `Z_OK` without output only for input it
  has taken, which it does once per call here.

## 4. Theorems

Proved for all values of the constants, from the named assumptions of the
modules, by TLAPS. All of them are of safety.

**`CodecFixtureProofs`.** `TypeCorrect` first; it is inductive as it stands. The
others follow from one invariant `IInv`. `HeapBalanced` is not inductive: that a
`SetUp` overwrites no pointer needs `OneAtATime`, that between two runs every
fixture is as empty as after construction and that in a run only the current one
is not. `ReportedIsWhole` needs `InputsWhole`: cached data are always all bytes of
a source, since `load_corpus_file` frees a short read, and a reference stream is
made of them. `SetupFailureIsReal` needs `RefusalSeen`: a run was refused something
exactly when `BenchmarkCase` will find it not ready. `ReportedNamed`, that a number
names the bytes it was measured on, gives reports a type to compare. Each kind of
`SetUp` and of `BenchmarkCase` has its lemma, and the invariant is proved by one
step per action. `StableCorpus` and `FixturesImplementMeasurement` are action
properties over this invariant: a `BenchmarkCase` maps to `Finish`, whose `Agrees`
follows as all numbers for a file are for `data[f]`, which never changes.

**`SymbolReaderProofs`.** The reader first. `NoBitLost` says the buffer is the next
bits of the stream; it is inductive together with `Bounds`, which relates `bitcnt`
to `in_pos` and keeps it below a byte while nothing has failed, and below 13 after.
`FilledIsStream` is the lemma behind both: the bytes or-ed in continue the stream
where the buffer ends. `BufferIsShort` (the byte alignment of a stored block drops
no input), `BufferIsStream` and `ReaderImplementsSource` follow, for reads of up to
13 bits; `DecoderReadsStream` carries them over to the reader with a decoder on top.

`DecoderIsExact` then is `DecodesTheCode` for alphabets, lengths and longest codes of
any size. The argument is one number: `Taken(l)`, the space the codes of length l
and less take of a tree of depth l. It doubles from one length to the next and
grows by the codes of that length (`TakenIs`), so what `dstats_build` counts down is
2^l less it (`LeftIs`), and since what is left never recovers from being negative,
the test at every length is the one at the last (`BuildsKraft`). A code word of
RFC 1951, a sum over all symbols before it, is `2 * Taken(l - 1)` and the rank of
its symbol among those of its length (`CodeWordIs`); the table is entered by the
same rank, one symbol to a slot (`PlaceOnce`, `SlotIs`). `DecoderInv` says what the
three running numbers of `dstats_decode` are: `first` is `2 * Taken(len - 1)`, `code`
twice the number read, `index` the count of shorter codes; and that the bits read
so far are, at each length, at least `Taken` (`BeyondShorter`), so that they begin
with no code word. A hit is then a rank, and running out of lengths leaves room in
the tree. `DecodesTheCode` is not inductive without these. What is read is put
together with where it stands in the stream by `Following`.

**`StreamProofs`, the walker.** The invariant is `TypeOK`, `BitsAccounted`,
`MatchesPartitioned` and two rates, `MatchRate` (at most 258 bytes for a match, and at
least two bits but for one without its distance) and `OutputRate` (at most 129 bytes
out for each bit consumed), which `OutputBounded` is too weak to be inductive without.
All of it holds when the walk fails, too. That needs some care, as a length may have
been counted for a single bit and then have no distance: the 258 bytes of that half
match are paid for by the three bits of its block's header, which nothing else has used
(`Credit`), and there can be only one such length, since the walk ends with it. One
lemma per action; `LengthStep` counts the first half of a match and `DistanceStep` the
second. `LenTable` and `DistTable` bound what the tables can give. The theorems
`TypeCorrect`, `EveryBitAccounted`, `PartitionsAgree` and `OutputWithinLimits`
hold of inputs of every length and of every choice of symbols.

**`ScriptProofs`, the reports.** `MergeInvariant`: after any number of files the
rows have each key once and are, as a set, the newest row of every key of the files
merged (`Newest`), where a file is what a binary can write (`WellFormed`: a mean comes
with a median, a row carries the number of its file). It is inductive. The rows of a
file are merged, and loaded, by a fold of an operator over a sequence, which is a
function chosen for satisfying a recursion on sets of indices; `PutFold` and
`LoadFold` show that one does (`FoldExists`), so that such a fold can be spoken of by the values
it goes through (`PutSteps`, `LoadSteps`), one step each. `RowsPartitionHolds` and
`RerunWinsHolds` follow: `LoadIs` says what any list of rows loads as, the median if
there is one and else the first iteration.

`OverallOfGoodRunsHolds` needs `CompareInv`: the times collected are those of the names
the loop has passed, in one order of the names (`Listed`), and that order is a
bijection (`SetToSeqIs`). If all of them are positive `geomean` leaves nothing out
(`MeanOfAll`), both means have the same number of terms, and the sum over places is
the sum over names (`SumReindex`, `SumDifference`). Assumed are that names are strings
and times are positive.

**`ScriptProofs`, the work directory.** Neither property is inductive, for what they say of the
last step rests on every one before. `IInv` says at each place of a call what
the call itself has made sure of: that the clone is a clone and its refs are
what was fetched (`Refs`), that the tree at hand is of its revision, patched as
far as the step says (`MapSteps`), that both trees, then both binaries, then
both results are of theirs (`BenchSteps`). Of what an earlier call left it says only
that the clone is a clone: trees may be patched half way, hold files of other revisions
or be no trees at all. `insert_map.py` resets its tree, so its trees, builds and traces are
of the revision and nothing else (`Ready`, `BuiltAs`, `Drawn`). `bench_pr.py` does not,
so its trees are at the revision (`Parked`), and what is built and measured holds
what strayed into the tree and no more (`BuiltOf`, `Measured`): that nothing had
strayed is what cannot be proved (section 5). `CallIsOfItsRevisions` is this invariant,
`ComparedAreFetched` and `TracedAreFetched` follow. The assumptions are only
that upstream's bounds are numbers. `TreesApart` (the two trees of `bench_pr.py`
have different names) is what lets the second park leave the first alone; `ParkPuts` is
all they need to know of a checkout.

**`RunCleanProofs`.** `OneRunPerName` needs that every readable document, in
memory or in either file, has one run per name (`Together`); the splice keeps that
because it drops by name (`SpliceIs`). `OutputIsOwn` needs `Fresh`: as long as no
run has left its output unopened, a file about to be read has rows of exactly
the names the run was given, all of this call. With `Reason` for the ways out of
the loop this gives `RowsStayTogether`, `FinishedIsOwn`, `DirtyHasReason` and, as an
action property, `CleanRowsStay`, for any names, retries, calls and kills.

**`BenchmarkMainProofs`.** `MachineRests`: the sleep belongs to the report of the
benchmark before, so the invariant follows the flag of the first report and
the queue of a benchmark, of which something is always reported
(`ReportsNotEmpty`).

`SelectedTypes`, `EveryFileRegistered` and `EveryPlaceOnce` are about what is
registered, for any hooks, options, codecs and corpora. Assumed are what the
tables of the code are: names that are not empty and lists of levels, window sizes
and names without a repetition (`Ladders`), and room for at least one hook. The
invariant `RegInv` says at each place of `main` which corpora were found (`Found`),
which hooks are in (`Hooked`), what of the option has been read (`Parsed`) and that
the benchmarks registered are, as a set, `AllNames`, each of them once but for the
corpus directory named `data` (`Registered`). The list that nested loops make is
compared with a set of names by `Lists`, which goes through concatenation and loops
over ladders, a family of benchmarks at a time; that two families share no name is
the core of `EveryPlaceOnce`.

`EachIsReported`: by `ShowInv` every benchmark before the current one has been shown
(`Seen`), the current one has not, is between its two reports, or has just been, as
the queue says (`NotYet`, `Between`), and what was shown is in order (`Ordered`).

**`StreamProofs`, the wrapper.** `WindowsStayInside` and `WindowsAgree`, for lengths and a
`Width` of any size. The invariant `Progress` says what is true when the loop
goes round again: there is room left but in a first pass without any, and if a
pass has given nothing with output outstanding then a length did not fit
(`WindowIs`, from what truncation does, `TruncIs`). `PeakIsExact`, for any blocks of
any size, rests on `Counted`: the counter is the sum of the sizes of the live
blocks, of which an alloc or a free changes one term (`SumExcept`).

**`ChartsProofs`.** All of it is for any results, files, filters and options. Assumed
are what `collect` and the parsers of the scripts give: finite sets of rows of one of the four
operations, sizes, times and noise that are natural numbers, levels from -1 on,
finitely many series at whole heights, and that `NULL` is no number.

`SameInputsHolds` needs only that the points are aggregated once of what was loaded
(`GraphPoints`, `LevelRows`); that they are then the same labels for every run is what
`Shared` and `Summed` do (`SummedAlike`). It is about the sums of `compare_levels.py`, the
deflate and window size points, and the inflate bars of runs that share a file. Of bars
that fall back to a run's own files and of streaming windows it says nothing: for those it
is false (section 5).

`ChartIsWrittenHolds` and `GraphApartHolds` are about a page whose sections are placed one
after the other from two running numbers. Neither is inductive: `PanelsApart` speaks of
the finished page alone. `GraphInv` says what the two numbers and the places of the script are (`GraphPlaces`), that the panels
drawn so far are `Laid`, apart and on the page above that line (`GraphLayout`), and for
which answers the script has raised (`GraphReasons`). What is drawn below a line
disturbs nothing above it (`LaidBelow`, with `LaidPanel`, `LaidFacets` and `LaidTypes` for
the three shapes a section can have); only the large panel and the chunked one lie beside
another (`LaidJoin`). The chunked panel takes the row of the window sizes, so the
invariant keeps where that row starts and that its panel ends to the left of the other.

`MarkersApartHolds`: series are gathered into clusters from the top down. `MarksInv`
(`Dodging`) says that what has been moved is further above all the rest than what
counts as near, so that no later series can be near it; that each member of a cluster
of more than one is near another; and, of those moved already, what `MarkersSeen`
says of all. For the dots it says of each how many it lies on (`Dotted`).

`NothingHiddenHolds` puts these together with the grids and panels of the other two
scripts. `InputsInv` says that what is shown is a function of the two inputs
(`InputsChosen`), which grids are built (`Gridded`), which panels are drawn and where
(`Ringed`, `PanelAt`). Panel k has column `k % cols` and row `k \div cols`: two panels
with both the same are the same one (`QuotientAndRest`), and otherwise do not touch.

`RingsSoundHolds` is arithmetic of three comparisons: `ClearlyFasterIsFaster`, that the ring
is a point of the other run with the properties claimed (`RingAt`), that the fastest point of a
panel cannot be beaten as what beats it is faster still, and that a change which is
clear by a product is real by the quotient the grids show, but for equality (`RungSound`).

`NothingMissingHolds` compares what is shown with the rows of the runs. For the grids: what
a script has of a run is what the run has measured (`RowsAre`), so what both have and the
options keep is `Comparable` (`ComparableRows`), and this is what is chosen
(`ChosenIsComparable`): each place has its cell, with the change from a row of one run to
one of the other (`CellOfRows`, `GridsAgree`), and a median stands where two inputs have the
level (`MoreThanOne`). For the tables: a ladder that has any files in common has every level
and strategy its run has rows of (`LaddersAre`), so the lines drawn are those asked for
(`LinesAre`); `LevelsInv` says of the tables drawn so far that they are `Tabled`, each below
the one before, in an order of the strategies that misses none, and of a call that ended
without them that there was `NothingToShow`.

`MapAddsUpHolds` is about pixels that are no divisor of a member and members that are no
multiple of a pixel. `MapInv` says which rows there are (`MapTyped`) and what the densities
are made of at each place of the script (`MapStage`). That a list of densities is `Exact`
is `DensitiesExact`, by induction over the pixels: the first k of them cover the first
k times the length of one, or all of the span (`Covered`, from `UpBounds`), and what is
shifted and masked out of the bytes around a pixel are the bits marked in it, at any
alignment (`MaskedSlice`). A pixel that lies in a member is among
those its row takes in (`WholePixels`). Assumed are that a file and the entries of a tar
have natural numbers for their lengths (`MapAssumption`).

`ParseAccountsHolds` is an account that is kept over all ranges of a file and closed at the
end. `ParseInv` says, between two ranges, that the matches are copies inside of the ranges
done (`Copies`) and that what was counted is what was due in them (`Due`) but for up to
`MIN_MATCH` bytes a range; and while a range is scanned (`Scanning`) that what was counted since is exactly
how far the position has come, and that the table leads from a key to a place of the range in front of
the position where that key stands (`Headed`). A match is a copy by two facts: its first
bytes are the key (`SameKey`), the others were compared (`LengthAgrees`). Both counters
grow by its length because the last bucket takes what no other did (`CountedOnce`). The
ranges are apart because a step is at least as long as a range (`SampleRanges`), the scan
covers what is due of each (`ScanStart`), and the bars of a row join as what is left out is
zero (`StackedFills`). The assumption on the constants, `ParseAssumption`, is what the proof
needs of the window, the scan, the shortest match and the last bucket of each list; the numbers at the
top of `profile_corpus.py` satisfy it with room to spare (a scan is twice a window). Were a scan
shorter than a window, a key of the history could reach past the end of the range.

**`FoldTheorems`** is what the other modules share. The prover has no rule of
induction, and the library's take an operator as a parameter, which it cannot
instantiate; but a well-founded order can be handed to it as a set.
`NatInductionSet` has induction with a set of numbers for the predicate, from
the least number outside it (`NatMinimum`), and `SmallestSubset` does the same for
finite sets. From these follow that a function defined by recursion exists
(`Recursion`), that sums over a finite set can be taken apart in any order (`SumTakeOut`,
`SumUnion`, `SumTwice`, `SumExcept` and others), and what the concatenation of a
sequence of sequences contains, and when it has no repetition (`FlattenProperties`),
and that a fold from the left can be had step by step (`FoldExists`); the union and the
image of finite sets are finite (`FiniteUnion`, `FiniteImage`). Facts about sums over an
interval, quotients and multiples that several proofs need stand at its end.

A proof found one thing to correct in the model: the groups of rows of `ResultRows`
were a `CASE` whose guards overlap, which in TLA+ leaves open which arm is taken;
`Group` is now a chain of conditions in the order of the code.

Only model-checked:

- `Terminates` (twice) and `CallReturns`: liveness is beyond the prover.

Every other property a passing run checks is the conclusion of a theorem here.

## 5. Disagreements between the code and what it says

- `retries_stale`: `run_clean.py:60` does not look at how the binary ended and
  reads what is in the file. A binary that refuses its arguments
  (`benchmark_main.cc:122-125`) never opens it, and the result of an earlier call
  is then checked, spliced and written back as new. `OutputIsOwn` is what holds.
- `compare_overall`: `geomean` (`compare_runs.py:79-85`) leaves out times that are
  not positive on each side for itself. A benchmark that failed in one run only
  is in one of the two means, and the last line is no mean of ratios.
  `OverallOfGoodRuns` is what holds.
- `cooldown_first`: the sleep comes before a report and not before the first
  (`benchmark_main.cc:41-53`), so it follows the benchmark it is meant to
  precede: nothing rests the machine between the first and the second.
  `LaterBenchmarksRested` is what holds.
- `workdir_mixed`: an existing tree is parked without `--force` (`bench_pr.py:60`).
  Ctrl-C in a checkout from A to B leaves HEAD at A and some files of B; a later
  call for A has nothing to switch, and builds and measures the mix as A, where
  `bench_pr.py:4-8` speaks of a build of the one and a build of the other revision.
  `insert_map.py:160` forces its checkout. `ComparedAsFetched` is what holds.

Smaller ones, without a run of their own, most of them the conditions a property
carries:

- A benchmark that is skipped with an error has no aggregates, so `dirty_rows`
  (`run_clean.py:68-82`) does not list it and it is never retried.
- `merge_runs.py` keys rows by name and aggregate: a rerun without aggregates
  leaves the older median in place, which `load` prefers, hence the condition in
  `RerunWins`.
- The walker does not compare NLEN with LEN (`deflate_stats.h:210`) nor a distance
  with the output so far (`:169`), so it returns 0 for some streams RFC 1951
  forbids. The harness's 32-bit `avail_in` bounds what any wrapper sees of a file
  of 4 GiB or more.
- A corpus directory named `data` would give names like those of the synthetic
  inputs, hence the condition in `OnePlaceEach`.
- `bench_pr.py --base develop` resolves the branch of the clone, which stays where
  cloning left it, not what was fetched; `--base origin/develop` is current.
  `ComparedAsFetched` therefore takes the base as it was resolved.
- `insert_map.py` divides by zero for an empty member with `--per-file`, and for a
  member a truncated file ends before (`:268-269`); `MapAddsUp` names both cases.
  The share of a member is the mean of its pixels, the last of which may be
  shorter than the others.
- `profile_corpus.py` fails when every file of a corpus is empty. A file no longer
  than the scan is parsed without a preamble.
- `graph_runs.py` raises at its eleventh run (there are ten colours), at chunked
  rows without windowBits rows (`:1112` reads what only that section sets), and
  at stream counters that are the same at all levels of all runs (`:1377-1383`).
  `ChartIsWritten` says there is no fourth way in what is modelled (section 6 names
  two more raises, which no result of the binary reaches).
- If the run sizes are relative to has no level 9 its panel is only a caption, and
  the next section is drawn over it; hence the condition in `PanelsApart`.
- `aggregate` of `graph_runs.py` promises means "over the corpus files common to the
  runs", "so codecs summarize identical inputs" (`:164-165`), and streaming windows
  "pinned to the tar aggregates when any run has them" (`:304-305`). The loop looks
  for tars run by run (`:307`), so with a tar in one run only that run's point is of the
  tar and the other's of the files. Inflate bars fall back to a run's own files where
  nothing is common (`:242`). `SameInputs` leaves these two out.
- The footnote counts the corpus files of a geometric mean (`:1561-1567`) also
  where the points are of tars alone.
- `load` of `graph_runs.py` (`:79-101`) keeps the first iteration row of a
  benchmark: if that repetition failed and there are no aggregates the benchmark
  is dropped, though later repetitions are good.
- `compare_levels.py:266-267` wants each of several coincident dots smaller than
  the one below; from the fourth on they have one size.
- `frontier.py:43` counts a difference of just the noise as clear, and `judge`
  (`compare_levels.py:99`) does not; `RingsSound` allows for that one case.

## 6. Not modelled

- `stream_anatomy.py` and `symbol_cost.py`: straight-line layout of shares of
  counters that `DeflateWalker` accounts for, over the rows `CompareInputs` selects
  in the same way. They keep no state and nothing in them can come in another
  order.
- The generators of `test_data.h` beyond their names: their output is a byte string
  to all the rest.
- Processor affinity and priorities in `benchmark_main.cc`: single system calls.
- In the large panel of `graph_runs.py`, the minimum over no points (`:720-722`) and
  the look-up of a strategy its tables do not name (`:754`): both would raise, and
  neither can happen with what the binary writes.
- What a checkout does to files git does not track, and the hooks and settings of a
  user's git.
- The layout of labels, axes and printed tables, and the entropies of
  `profile_corpus.py`, sums of floating-point numbers.
- `CMakeLists.txt` (no state at run time) and the rendered files under `profiles/`
  and `results/`.
- The backends other than the zlib-style ones appear as what a fixture may get
  from them; their wrappers keep no state of interest.

## 7. Plan

Done, in this order: fixtures with `Measurement`; the walker with `BitSource` and
its codes; wrappers; registration and cooldown, then the binary as a whole;
`run_clean.py`; merging and comparing; the work directory; the charts; and the
theorems of section 4. What is left is worth less:

1. An abstract specification of `Reports` (a result per benchmark, a merge as an
   update), and `Reports` shown to implement it.
2. The counters the fixtures put beside a result, composed with `DeflateWalker`.
