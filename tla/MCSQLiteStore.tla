---------------------------- MODULE MCSQLiteStore ----------------------------
(***************************************************************************)
(* Small instances of SQLiteStore for TLC.                                 *)
(***************************************************************************)
EXTENDS SQLiteStore, TLC

CONSTANTS u1, u2, p1, p2, h1, h2, k1, k2, pa, pb, fa, fb

\* Every payload declares a fact of its own.
MCDeclares == [p \in Payload |-> IF p = pa THEN {fa} ELSE {fb}]

\* Payloads with facts of their own and no derivations.
MCNoDerives == [p \in Payload |-> {}]

\* Readers in a process of their own, so that writers of the other one collect under them.
MCReader == [h \in Handle |-> p1]

\* Bounds: three commits of both universes together; the last one meets no other writer.
FewCommits ==
  /\ current[u1] + current[u2] <= 3
  /\ current[u1] + current[u2] = 2 => \E p \in Process : ~Busy(p)

UniverseSymmetry == Permutations(Universe)
=============================================================================
