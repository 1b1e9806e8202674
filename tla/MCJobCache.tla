----------------------------- MODULE MCJobCache -----------------------------
(* Two hook runs at a time over two files.  Processes are alike and so are *)
(* contents.                                                               *)
EXTENDS JobCache, TLC

MCSymmetry == Permutations(Proc) \cup Permutations(Content)
=============================================================================
