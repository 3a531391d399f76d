--------------------------- MODULE MCNativeLineage ---------------------------
(***************************************************************************)
(* Small instances of NativeLineage for TLC.                               *)
(***************************************************************************)
EXTENDS NativeLineage

CONSTANTS u1, u2, s1, s2, r1, r2

\* The kept session is not interrupted, and every operation that edits it is well formed.
MCFault ==
  [r \in Restarting |-> {"crash", "busy", "project", "foreign"}
                         \union (IF r THEN {"abort", "shape"} ELSE {})]
MCMaxEdits == [r \in Restarting |-> IF r THEN 3 ELSE 2]
MCMaxUpsets == [r \in Restarting |-> IF r THEN 1 ELSE 2]
=============================================================================
