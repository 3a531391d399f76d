--------------------------- MODULE MCPassPipeline ---------------------------
(***************************************************************************)
(* Instances of PassPipeline: pass A reads the native namespace m, pass B   *)
(* reads n and what A derives.                                             *)
(***************************************************************************)
EXTENDS PassPipeline, TLC

Facets(m, n) == "source" :> 0 @@ "m" :> m @@ "n" :> n
MCText == {Facets(0, 0), Facets(1, 0), Facets(0, 1)}
Interchangeable == Permutations(Universe) \cup Permutations(Source)

MCOrder == <<"A", "B">>
MCInputs == "A" :> {"m"} @@ "B" :> {"n", "A"}
MCRequires == "A" :> {} @@ "B" :> {"A"}
MCSelects == "A" :> {} @@ "B" :> {}
=============================================================================
