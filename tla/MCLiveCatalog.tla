----------------------------- MODULE MCLiveCatalog -----------------------------
(***************************************************************************)
(* Small instances of LiveCatalog for TLC: a provider with a resource and  *)
(* an implementation file, and a consumer with an anchor.                  *)
(***************************************************************************)
EXTENDS LiveCatalog, TLC

CONSTANTS p, c, r1, i1, a2

MCOwnerOf == (r1 :> p) @@ (i1 :> p) @@ (a2 :> c)
MCKindOf == (r1 :> "resource") @@ (i1 :> "code") @@ (a2 :> "anchor")
Imported == (p :> {p}) @@ (c :> {c, p})
=============================================================================
