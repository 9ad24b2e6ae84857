----------------------------- MODULE MCReports -----------------------------
(* Each binary measures a time of its own.                                   *)
EXTENDS Reports

MCNames == <<"a", "b">>
MCTimes(d) == {d + 1}
=============================================================================
