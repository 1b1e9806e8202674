---------------------------- MODULE MCLockServer ----------------------------
(* A client that asks twice and one that asks once, or three that ask once;*)
(* a mutex, and a key that nobody may have.                                *)
EXTENDS LockServer

CONSTANTS c1, c2, c3

LockKey(name, permits) == [name |-> name, permits |-> permits]

MCClient == {c1, c2, c3}
MCKey == {LockKey("a", 1), LockKey("b", 0)}
MCBudgets == { (c1 :> 2) @@ (c2 :> 1) @@ (c3 :> 0), (c1 :> 1) @@ (c2 :> 1) @@ (c3 :> 1) }
=============================================================================
