----------------------------- MODULE ResultRows -----------------------------
(***************************************************************************)
(* What the chart scripts of src/scripts read a result by: collect of       *)
(* graph_runs.py, which sorts the rows of a run into groups by their names. *)
(* A name is a record of its parts, as in Registration; the rows a run has  *)
(* are the set of their names.  Also the notions all charts share: the      *)
(* labels of a group, the tar files alone, and panels of a page.            *)
(***************************************************************************)
EXTENDS Integers, FiniteSets

\* Mutant: rows of a window size are taken for the plain ladder.
GroupNoWbits(n, kept) ==
  IF n.op \in {"codec_crc32", "codec_adler32"} THEN "checksum"
  ELSE IF n.chunk # 0 THEN "chunked"
  ELSE IF n.dist # 0 THEN "dist"
  ELSE IF n.label[1] = "data" THEN IF n.op = "codec_inflate" THEN "inflate_data" ELSE "deflate_data"
  ELSE IF n.label \notin kept THEN "none"
  ELSE IF n.op = "codec_deflate" THEN "deflate"
  ELSE "inflate"

\* The branches of collect, in order: --filter keeps or drops corpus labels,
\* but not those of a chunked inflate.
Group(n, kept) ==
  IF n.op \in {"codec_crc32", "codec_adler32"} THEN "checksum"
  ELSE IF n.chunk # 0 THEN "chunked"
  ELSE IF n.dist # 0 THEN "dist"
  ELSE IF n.label[1] = "data" THEN IF n.op = "codec_inflate" THEN "inflate_data" ELSE "deflate_data"
  ELSE IF n.label \notin kept THEN "none"
  ELSE IF n.op = "codec_deflate" THEN IF n.wbits # 0 THEN "wbits" ELSE "deflate"
  ELSE "inflate"

Collected(names, g, kept) == {n \in names : Group(n, kept) = g}

\* The key of a row in its group; its label is the rest.
Key(n, g) ==
  CASE g = "deflate"      -> <<n.level, n.strategy>>
    [] g = "wbits"        -> <<n.level, n.wbits>>
    [] g = "checksum"     -> <<n.op, n.size>>
    [] g = "dist"         -> <<n.op, n.dist, n.level>>
    [] g = "deflate_data" -> <<n.label[2], n.level>>
    [] g = "inflate_data" -> <<n.label[2], n.size>>
    [] g = "chunked"      -> <<n.chunk>>
    [] OTHER              -> <<>>

Keys(names, g)    == {Key(n, g) : n \in names}
LabelsOf(names)   == {n.label : n \in names}
Common(sets)      == {l \in UNION sets : \A s \in sets : l \in s}

Tars(labels) == {l \in labels : l[1] = "tars"}

\* A tar holds its corpus files: it stands for them where there is one.
Summed(labels) == IF Tars(labels) # {} THEN Tars(labels) ELSE labels

\* The labels of the panels by file: beside tars, or more than one.
FilesAlone(labels) ==
  IF Tars(labels) # {} THEN labels \ Tars(labels)
  ELSE IF Cardinality(labels) > 1 THEN labels ELSE {}

----------------------------------------------------------------------------
\* A panel from its caption, 18 above top and 10 high, to what is below it.
Panel(x, w, top, below) == [x0 |-> x, x1 |-> x + w, y0 |-> top - 28, y1 |-> top + below]

Disjoint(p, q) == p.x1 <= q.x0 \/ q.x1 <= p.x0 \/ p.y1 <= q.y0 \/ q.y1 <= p.y0

Apart(page) == \A i, j \in DOMAIN page : i # j => Disjoint(page[i], page[j])
Within(page, width, height) ==
  \A i \in DOMAIN page : /\ page[i].x0 >= 0 /\ page[i].x1 <= width
                         /\ page[i].y0 >= 0 /\ page[i].y1 <= height
=============================================================================
