---------------------------- MODULE Registration ----------------------------
(***************************************************************************)
(* What a codecbench binary registers, and when.  Static initialisation of  *)
(* src/benchmark_codec.cc registers the checksum benchmarks, hooks the      *)
(* synthetic data types and walks the corpora (src/benchmark_corpora.h);    *)
(* main of src/benchmark_main.cc then parses --benchmark_data_types and     *)
(* has the hooks called (src/benchmark_data_types.cc).                      *)
(*                                                                         *)
(* A benchmark's name is a record of its parts, since "/" and ":" separate  *)
(* them in the string; 0 or "" stands for a part that is not there.  The    *)
(* option is the sequence of what its commas separate.                      *)
(***************************************************************************)
EXTENDS Integers, SequencesExt, FiniteSets

CONSTANTS
  Codecs,      (* the backends, each a record of its CODEC_ macros         *)
  Dirs, Names, (* names in CORPORA_DIR and below it, sorted as std::sort   *)
  Trees,       (* states of CORPORA_DIR: name -> kind, path -> kind        *)
  Options,     (* values of --benchmark_data_types                         *)
  Sizes, Chunks, InflateDists, DeflateDists, (* the ladders in the source  *)
  MAX_HOOKS,
  NULL

\* A ladder of the source: no rung twice.
Ladders(S) == {s \in Seq(S) : IsInjective(s)}

ASSUME NamesAssumption == {Dirs, Names} \subseteq Ladders(STRING \ {""})
ASSUME DirsAssumption  == \A t \in Trees : t.dir \in [ToSet(Dirs) -> {"none", "dir", "other"}]
ASSUME FilesAssumption == \A t \in Trees : t.file \in
  [ToSet(Dirs) \X ToSet(Names) -> {"none", "regular", "empty", "other"}]
ASSUME CodecsAssumption == \A c \in Codecs :
  /\ {c.crc32, c.adler32, c.inflate, c.chunked} \subseteq BOOLEAN
  /\ c.levels \in Ladders(Nat) /\ ToSet(c.levels) \ {0} # {}
  /\ c.strategies \in Ladders(STRING \ {""}) /\ c.wbits \in Ladders(Nat \ {0})
ASSUME LaddersAssumption ==
  /\ {Sizes, Chunks, InflateDists, DeflateDists} \subseteq Ladders(Nat \ {0})
  /\ DeflateDists # <<>>
ASSUME HooksAssumption == MAX_HOOKS \in Nat \ {0}
ASSUME OptionsAssumption == NULL \in Options
          /\ \A o \in Options \ {NULL} : o \in Seq(STRING) \ {<<>>}

VARIABLES
  pc,          (* the next step of static initialisation or of main        *)
  codec,       (* the backend this binary is compiled for                  *)
  tree,        (* the corpora below CORPORA_DIR                            *)
  hooks,
  corpora_files,
  list, p,     (* the option and how far it is parsed                      *)
  mask,
  registered   (* the benchmarks, in the order they were registered        *)

vars == <<pc, codec, tree, hooks, corpora_files, list, p, mask, registered>>

----------------------------------------------------------------------------
(* Names and tables. *)

Enum == <<"text", "short_match", "dna", "random", "literals", "mixed",
          "realistic_rgb", "striped_rgb", "phased", "runs", "far_match",
          "records", "dist">>

types == <<"text", "short_match", "dna", "random", "literals", "mixed",
           "realistic_rgb", "phased", "runs", "striped_rgb", "far_match",
           "records">>

AllTypes == ToSet(Enum)
Hidden   == {".git", ".x"}
NoCorpus == <<"", "">>

Name(op, label) == [op |-> op, label |-> label, dist |-> 0, level |-> -1,
                    strategy |-> "", wbits |-> 0, size |-> 0, chunk |-> 0]

AtLevels(name, levels) ==
  [l \in 1..Len(levels) |-> [name EXCEPT !.level = levels[l]]]

\* One sequence after the other, for every element of s.
ForEach(s, Op(_)) == FlattenSeq([i \in 1..Len(s) |-> Op(s[i])])

\* The elements of s that P has, in their order.
Select(s, P) == ForEach(s, LAMBDA x : IF x \in P THEN <<x>> ELSE <<>>)

----------------------------------------------------------------------------
(* The file system, as readdir and stat show it. *)

list_subdirs ==
  Select(Dirs, {d \in ToSet(Dirs) \ Hidden : tree.dir[d] = "dir"})

\* Mutant: empty files are listed.
ListFilesEmpty(d) ==
  LET shown == {n \in ToSet(Names) \ Hidden : tree.file[d, n] \in {"regular", "empty"}}
      files == Select(Names, shown)
  IN [i \in 1..Len(files) |-> <<d, files[i]>>]

list_files(d) ==
  LET shown == {n \in ToSet(Names) \ Hidden : tree.file[d, n] = "regular"}
      files == Select(Names, shown)
  IN [i \in 1..Len(files) |-> <<d, files[i]>>]

discover_corpora == ForEach(list_subdirs, list_files)

----------------------------------------------------------------------------
(* The three functions that register. *)

Checksums ==
  LET at(size) ==
        (IF codec.crc32 THEN <<[Name("codec_crc32", NoCorpus) EXCEPT !.size = size]>> ELSE <<>>)
        \o (IF codec.adler32 THEN <<[Name("codec_adler32", NoCorpus) EXCEPT !.size = size]>> ELSE <<>>)
  IN ForEach(Sizes, at)

\* Inflate, in cache and from memory.  1 stands for CODEC_DATA_LARGE_SIZE.
OfType(t) ==
  AtLevels(Name("codec_deflate", <<"data", t>>), codec.levels)
    \o (IF codec.inflate
        THEN <<Name("codec_inflate", <<"data", t>>),
               [Name("codec_inflate", <<"data", t>>) EXCEPT !.size = 1]>>
        ELSE <<>>)

OfDist ==
  LET inflate(d) == <<[Name("codec_inflate", <<"data", "dist">>) EXCEPT !.dist = d]>>
      deflate(d) == AtLevels([Name("codec_deflate", <<"data", "dist">>) EXCEPT !.dist = d],
                             Select(codec.levels, Int \ {0}))
  IN (IF codec.inflate THEN ForEach(InflateDists, inflate) ELSE <<>>)
       \o ForEach(DeflateDists, deflate)

codec_register_data_types(m) ==
  ForEach(Select(types, m), OfType)
    \o (IF "dist" \in m THEN OfDist ELSE <<>>)

\* The fixed strategy walks levels 1-9.  Filtered skips 1 and swaps 6 for 7.
StrategyLevels(s) ==
  IF s = "fixed" THEN [l \in 1..9 |-> l]
  ELSE IF s = "filtered" THEN <<7, 9>>
  ELSE <<1, 6, 9>>

OfFile(cf) ==
  LET deflate == Name("codec_deflate", cf)
      inflate == Name("codec_inflate", cf)
      strategy(s) == AtLevels([deflate EXCEPT !.strategy = s], StrategyLevels(s))
      wbits(w) == <<[deflate EXCEPT !.level = 6, !.wbits = w]>>
      chunk(c) == <<[inflate EXCEPT !.chunk = c]>>
  IN AtLevels(deflate, codec.levels)
       \o ForEach(codec.strategies, strategy)
       \o ForEach(codec.wbits, wbits)
       \o (IF codec.inflate THEN <<inflate>> ELSE <<>>)
       \o (IF codec.inflate /\ codec.chunked THEN ForEach(Chunks, chunk) ELSE <<>>)

----------------------------------------------------------------------------
Init ==
  /\ pc = "checksum_init" /\ codec \in Codecs /\ tree \in Trees
  /\ hooks = 0 /\ corpora_files = <<>> /\ registered = <<>>
  /\ list = NULL /\ p = 1 /\ mask = {}

register_checksum_benchmarks ==
  /\ pc = "checksum_init" /\ pc' = "codec_data_types"
  /\ registered' = registered \o Checksums
  /\ UNCHANGED <<codec, tree, hooks, corpora_files, list, p, mask>>

\* benchmark_data_types_hook: hooks past the limit are not stored.
benchmark_data_types_hook ==
  /\ pc = "codec_data_types" /\ pc' = "codec_init"
  /\ hooks' = IF hooks < MAX_HOOKS THEN hooks + 1 ELSE hooks
  /\ UNCHANGED <<codec, tree, corpora_files, list, p, mask, registered>>

register_codec_benchmarks ==
  /\ pc = "codec_init" /\ pc' = "main"
  /\ corpora_files' = discover_corpora
  /\ registered' = registered \o ForEach(corpora_files', OfFile)
  /\ UNCHANGED <<codec, tree, hooks, list, p, mask>>

\* benchmark_data_types_parse up to its loop.
ParseStart ==
  /\ pc = "main"
  /\ list' \in Options
  /\ IF list' \in {NULL, <<"">>} THEN pc' = "register" /\ mask' = {"text"}
     ELSE IF list' = <<"all">> THEN pc' = "register" /\ mask' = AllTypes
     ELSE pc' = "parse" /\ mask' = {}
  /\ UNCHANGED <<codec, tree, hooks, corpora_files, p, registered>>

\* The loop ends where the string does, so nothing is looked up past a comma
\* that is its last character.
ListEnds == p > Len(list) \/ (p = Len(list) /\ list[p] = "")

\* Mutant: a name that is not known is passed over.
ParseTokenLenient ==
  /\ pc = "parse" /\ ~ListEnds
  /\ mask' = mask \cup ({list[p]} \cap AllTypes)
  /\ p' = p + 1
  /\ UNCHANGED <<pc, codec, tree, hooks, corpora_files, list, registered>>

ParseToken ==
  /\ pc = "parse" /\ ~ListEnds
  /\ IF list[p] \in AllTypes
     THEN mask' = mask \cup {list[p]} /\ p' = p + 1 /\ UNCHANGED pc
     ELSE mask' = {} /\ pc' = "register" /\ UNCHANGED p
  /\ UNCHANGED <<codec, tree, hooks, corpora_files, list, registered>>

ParseEnd ==
  /\ pc = "parse" /\ ListEnds
  /\ pc' = "register"
  /\ UNCHANGED <<codec, tree, hooks, corpora_files, list, p, mask, registered>>

\* main leaves when the mask is 0; benchmark_data_types_register calls the hooks.
benchmark_data_types_register ==
  /\ pc = "register"
  /\ IF mask = {} THEN pc' = "EXIT_FAILURE" /\ UNCHANGED registered
     ELSE /\ pc' = "run"
          /\ registered' = registered
               \o ForEach([i \in 1..hooks |-> mask], codec_register_data_types)
  /\ UNCHANGED <<codec, tree, hooks, corpora_files, list, p, mask>>

Next ==
  \/ register_checksum_benchmarks \/ benchmark_data_types_hook
  \/ register_codec_benchmarks \/ ParseStart \/ ParseToken \/ ParseEnd
  \/ benchmark_data_types_register

Spec == Init /\ [][Next]_vars

----------------------------------------------------------------------------
\* No corpus is called "data", like the synthetic inputs.
NoDataCorpus == \A i \in DOMAIN corpora_files : corpora_files[i][1] # "data"

\* What a list of names asks for.
Asked ==
  IF list \in {NULL, <<"">>} THEN {"text"}
  ELSE IF list = <<"all">> THEN AllTypes
  ELSE ToSet(IF Last(list) = "" THEN Front(list) ELSE list)

(* A binary that runs has benchmarks for exactly the data types the option   *)
(* asked for, and one that was asked for anything unknown, wherever in the   *)
(* list it stands, does not run.                                            *)
SelectionExact ==
  NoDataCorpus =>
    LET ofData == {n \in ToSet(registered) : n.label[1] = "data"}
        synthetic == {n.label[2] : n \in ofData}
    IN /\ pc = "run" => synthetic = Asked /\ Asked \subseteq AllTypes
       /\ pc = "EXIT_FAILURE" => ~(Asked \subseteq AllTypes) /\ synthetic = {}

(* Every file with something in it, in every corpus, is deflated at every    *)
(* level of the backend and inflated if the backend can, whichever data      *)
(* types are selected; hidden, empty and nested entries never are.          *)
CorpusComplete ==
  pc = "run" =>
    \A d \in ToSet(Dirs), n \in ToSet(Names) :
      LET here == {m \in ToSet(registered) : m.label = <<d, n>>}
          plain == {m.level : m \in {k \in here : k.op = "codec_deflate" /\ k.strategy = "" /\ k.wbits = 0}}
      IN IF d \notin Hidden /\ n \notin Hidden
              /\ tree.dir[d] = "dir" /\ tree.file[d, n] = "regular"
         THEN ToSet(codec.levels) \subseteq plain
                /\ (Name("codec_inflate", <<d, n>>) \in here <=> codec.inflate)
         ELSE d # "data" => here = {}
=============================================================================
