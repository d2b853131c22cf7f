----------------------------- MODULE MCDirCache -----------------------------
(* Instances of DirCache for TLC. *)
EXTENDS DirCache, TLC

CONSTANTS h1, h2, h3

\* One directory changes twice, the other one only takes its place in the cache.
MCMaxChanges == [x \in Dirs |-> IF x = "d" THEN 2 ELSE 0]

\* The addresses are alike.
Symmetry == Permutations(Nfsdirs)
=============================================================================
