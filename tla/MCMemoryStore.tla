--------------------------- MODULE MCMemoryStore ---------------------------
(***************************************************************************)
(* Small instances of MemoryStore for TLC.                                 *)
(***************************************************************************)
EXTENDS MemoryStore, TLC

CONSTANTS u1, u2, u3, h1, h2, k1, k2, pa, pb, fa, fb

\* pa declares a fact, pb declares another one derived from it.
MCDeclares == [p \in Payload |-> IF p = pa THEN {fa} ELSE {fb}]
MCDerives == [p \in Payload |-> IF p = pa THEN {} ELSE {fa}]

\* One fact population: a generation differs from the next in its payload only.
MCNoDerives == [p \in Payload |-> {}]

Symmetry == Permutations(Handle) \union Permutations(Universe) \union Permutations(Key)
=============================================================================
