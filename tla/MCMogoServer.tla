---------------------------- MODULE MCMogoServer ----------------------------
(* MogoServer for TLC: jobs, uploads and paths are interchangeable.        *)
EXTENDS MogoServer, TLC

Symmetry == Permutations(Jobs) \cup Permutations(Uploads) \cup Permutations(Paths)

=============================================================================
