------------------------------ MODULE MCStudio ------------------------------
(* Studio for TLC: uploads, paths, polls and posts are interchangeable.    *)
EXTENDS Studio, TLC

StudioSymmetry ==
    Permutations(Jobs) \cup Permutations(Uploads) \cup Permutations(Paths)
       \cup Permutations(Polls) \cup Permutations(Posts)

=============================================================================
