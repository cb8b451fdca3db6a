------------------------------ MODULE MCRepoSync ------------------------------
(* TLC instances of RepoSync.  Names 1 and 2 have slugs of their own; with *)
(* three names, 2 and 3 differ only in what slugify drops.                 *)
EXTENDS RepoSync, TLC

DistinctSlugs == [n \in Names |-> n]

CollidingSlugs == [n \in Names |-> IF n = 3 THEN 2 ELSE n]

Symmetry == Permutations(Procs)
=============================================================================
