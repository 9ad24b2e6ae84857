------------------------------ MODULE InsertMap ------------------------------
(***************************************************************************)
(* The drawing half of src/scripts/insert_map.py: the members of the input  *)
(* are found if it is a tar, then the share of inserted positions is drawn  *)
(* pixel by pixel, over the whole file or one member at a time, with a row  *)
(* of the printed table for each.  A density is a pair <<inserted, span>>.  *)
(***************************************************************************)
EXTENDS Integers, SequencesExt, FiniteSets

CONSTANTS
  Archives,  (* the entries of an input, as [regular, size]; <<>> for no tar *)
  Lengths,   (* lengths the input file may have, cut off or padded          *)
  Inserted,  (* sets of positions the trace may have marked                 *)
  Pixels,    (* bytes per pixel, powers of two                              *)
  BLOCK, BYTE

VARIABLES
  pc,
  archive, n, bits, perFile, (* the input, its bits and --per-file           *)
  off, entry,  (* tar_members: the next header                              *)
  members,
  pixel, dens, (* the pixels of the whole file                              *)
  todo,        (* regions to draw                                           *)
  table        (* rows: the region and the densities of its share            *)

vars == <<pc, archive, n, bits, perFile, off, entry, members, pixel, dens, todo, table>>

----------------------------------------------------------------------------
Up(a, b) == (a + b - 1) \div b

\* Mutant: the last byte of a pixel that does not end on a byte is not read.
SliceShort(p, span) == {x \in bits : x >= BYTE * (p \div BYTE) /\ x < BYTE * ((p + span) \div BYTE)}

\* The bytes a pixel lies in.
Slice(p, span) == {x \in bits : x >= BYTE * (p \div BYTE) /\ x < BYTE * Up(p + span, BYTE)}

\* densities: the bytes as a number, shifted down to the pixel and masked.
densities(start, size, px) ==
  [i \in 1..Up(size, px) |->
     LET p == start + (i - 1) * px
         span == IF px < start + size - p THEN px ELSE start + size - p
         v == {(x - BYTE * (p \div BYTE)) - (p % BYTE) : x \in Slice(p, span)}
     IN <<Cardinality({x \in v : x \in 0..span - 1}), span>>]

Regions == IF members = <<>> THEN <<[start |-> 0, size |-> n]>> ELSE members

\* The pixels [a, b) of a region of the whole map.
SpanOf(r) ==
  LET a == r.start \div pixel
      e == (r.start + r.size) \div pixel
  IN <<a, IF e > a THEN e ELSE a + 1>>

\* base[a:b], which ends where base does.
ShareOf(r) == LET s == SpanOf(r) IN SubSeq(dens, s[1] + 1, IF s[2] < Len(dens) THEN s[2] ELSE Len(dens))

----------------------------------------------------------------------------
Init ==
  /\ pc = "members" /\ archive \in Archives /\ n \in Lengths
  /\ bits \in {b \cap 0..n - 1 : b \in Inserted} /\ perFile \in BOOLEAN
  /\ off = 0 /\ entry = 1 /\ members = <<>> /\ pixel \in Pixels
  /\ dens = <<>> /\ todo = <<>> /\ table = <<>>

\* tar_members ends at the file's end or at a block of zeros.
MoreHeaders == off + BLOCK <= n /\ entry <= Len(archive)

Member ==
  /\ pc = "members" /\ MoreHeaders
  /\ LET e == archive[entry] IN
     /\ members' = IF e.regular THEN Append(members, [start |-> off + BLOCK, size |-> e.size])
                   ELSE members
     /\ off' = off + BLOCK + Up(e.size, BLOCK) * BLOCK
  /\ entry' = entry + 1
  /\ UNCHANGED <<pc, archive, n, bits, perFile, pixel, dens, todo, table>>

\* render up to its loop.  One region is drawn as a whole file.
StartRender ==
  /\ pc = "members" /\ ~MoreHeaders
  /\ todo' = Regions
  /\ IF perFile /\ Len(Regions) > 1 THEN pc' = "blocks" /\ UNCHANGED dens
     ELSE pc' = "map" /\ dens' = densities(0, n, pixel)
  /\ UNCHANGED <<archive, n, bits, perFile, off, entry, members, pixel, table>>

\* A row of the table: share divides by the number of pixels.
AddRow(r, shown) ==
  IF shown = <<>> THEN pc' = "raised" /\ UNCHANGED <<todo, table>>
  ELSE /\ table' = Append(table, [start |-> r.start, size |-> r.size, shown |-> shown])
       /\ todo' = Tail(todo) /\ UNCHANGED pc

\* --per-file: a block for the member, at a scale of its own.
Block ==
  /\ pc = "blocks" /\ todo # <<>>
  /\ \E px \in Pixels : pixel' = px /\ AddRow(Head(todo), densities(Head(todo).start, Head(todo).size, px))
  /\ UNCHANGED <<archive, n, bits, perFile, off, entry, members, dens>>

\* The row beside the whole map.
MapRow ==
  /\ pc = "map" /\ todo # <<>>
  /\ AddRow(Head(todo), ShareOf(Head(todo)))
  /\ UNCHANGED <<archive, n, bits, perFile, off, entry, members, pixel, dens>>

Written ==
  /\ pc \in {"blocks", "map"} /\ todo = <<>> /\ pc' = "written"
  /\ UNCHANGED <<archive, n, bits, perFile, off, entry, members, pixel, dens, todo, table>>

Next == Member \/ StartRender \/ Block \/ MapRow \/ Written

----------------------------------------------------------------------------
Inside(r) == {x \in bits : x >= r.start /\ x < r.start + r.size}

Exact(ds, r) ==
  /\ SumFunction([i \in DOMAIN ds |-> ds[i][1]]) = Cardinality(Inside(r))
  /\ SumFunction([i \in DOMAIN ds |-> ds[i][2]]) = r.size

(* The pixels of a map or of a member count each marked position once, at    *)
(* any alignment; a member's row takes in every pixel that lies in it; and   *)
(* the script divides by zero only for a member that is empty or that the    *)
(* file breaks off before.                                                  *)
MapAddsUp ==
  /\ pc = "map" => Exact(dens, [start |-> 0, size |-> n])
  /\ pc \in {"blocks", "written"} /\ dens = <<>> =>
       \A i \in DOMAIN table : Exact(table[i].shown, table[i])
  /\ pc = "map" => \A r \in ToSet(members) :
       {q \in 0..Len(dens) - 1 : q * pixel >= r.start /\ (q + 1) * pixel <= r.start + r.size}
         \subseteq SpanOf(r)[1]..SpanOf(r)[2] - 1
  /\ pc = "raised" => LET r == Head(todo) IN IF dens = <<>> THEN r.size = 0 ELSE r.start >= n
=============================================================================
