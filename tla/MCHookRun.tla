------------------------------ MODULE MCHookRun ------------------------------
(* Two worktrees of one repository; a file the user is committing and one  *)
(* he is not.                                                              *)
EXTENDS HookRun, TLC

CONSTANTS w1, w2, f1, f2

MCWorktree == {w1, w2}
MCFile == {f1, f2}

Contents(h, i, k) == [head |-> h, index |-> i, work |-> k]

Pair(a, b) ==
  [head |-> f1 :> a.head @@ f2 :> b.head,
   index |-> f1 :> a.index @@ f2 :> b.index,
   work |-> f1 :> a.work @@ f2 :> b.work]

IsStaged == Contents("old", "new", "new")
IsAdded == Contents("none", "new", "new")
IsUnstaged == Contents("old", "old", "mine")
IsUntracked == Contents("none", "none", "mine")
IsPartly == Contents("old", "new", "mine")
IsClean == Contents("old", "old", "old")

(* The first worktree goes through every case, the second is a rival that  *)
(* has its own stash to push and pop.                                      *)
MCTrees ==
  w1 :> {Pair(IsStaged, IsUntracked), Pair(IsAdded, IsUnstaged),
         Pair(IsPartly, IsClean)}
  @@ w2 :> {Pair(IsStaged, IsUntracked)}

AHook(s, x, t) == [stash_untracked |-> s, stage_fixed |-> x, touches |-> t]

MCHooks ==
  w1 :> {AHook(TRUE, TRUE, {f1}), AHook(TRUE, FALSE, {f1, f2}),
         AHook(FALSE, TRUE, {f1, f2})}
  @@ w2 :> {AHook(TRUE, FALSE, {})}
=============================================================================
