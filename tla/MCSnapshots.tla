---------------------------- MODULE MCSnapshots ----------------------------
(***************************************************************************)
(* Instance of Snapshots for TLC: a file the scan sees, one it skips, and  *)
(* an empty and a non-empty text.                                          *)
(***************************************************************************)
EXTENDS Snapshots, TLC

MCText == {<<>>, <<"a">>}
MCBare == [l \in {"a"} |-> l]

Symmetry == Permutations(Id)
=============================================================================
