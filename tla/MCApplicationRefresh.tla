------------------------- MODULE MCApplicationRefresh -------------------------
(***************************************************************************)
(* Small instances of ApplicationRefresh for TLC.                          *)
(***************************************************************************)
EXTENDS ApplicationRefresh, TLC

CONSTANTS o1, o2

\* No specification is named.
Symmetry == Permutations(Owner)
=============================================================================
