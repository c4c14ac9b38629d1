-------------------------- MODULE MCCasFileSystem --------------------------
(* A small instance of the content addressed stores.  The manifest names   *)
(* one object twice; writers and temporary names are interchangeable.      *)
EXTENDS S3Store, TLC

ManifestsMC == {<<"h1", "h2", "h1">>}
Symmetry == Permutations(Putters) \cup Permutations(TempNames)
=============================================================================
