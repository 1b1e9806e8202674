------------------------------ MODULE MCInstall ------------------------------
(* Two processes, two hooks, two binaries.  Worktrees ask for other hooks, *)
(* for another binary, with and without a unit and --takeover.             *)
EXTENDS Install

CONSTANTS p1, p2, b1, b2

MCRequests ==
  { [hooks |-> {1, 2}, bin |-> b1, takeover |-> TRUE, unit |-> TRUE],
    [hooks |-> {1}, bin |-> b1, takeover |-> FALSE, unit |-> FALSE],
    [hooks |-> {2}, bin |-> b2, takeover |-> TRUE, unit |-> FALSE] }

MCSymmetry == Permutations({p1, p2})
=============================================================================
