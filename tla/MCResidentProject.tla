-------------------------- MODULE MCResidentProject --------------------------
(***************************************************************************)
(* A small instance of ResidentProject for TLC: two universes where the    *)
(* store keeps one, so that one is dropped when a project moves on.        *)
(***************************************************************************)
EXTENDS ResidentProject

CONSTANTS u1, u2, s1, r1, h1

MCMaxCalls == [refresh |-> 3, open |-> 1, replace |-> 1]
=============================================================================
