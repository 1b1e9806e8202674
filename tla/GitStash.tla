------------------------------ MODULE GitStash ------------------------------
(***************************************************************************)
(* What git does to one worktree when betterhook runs `git stash push` and *)
(* `git stash pop`.  git is not part of the repository; the operators say  *)
(* what git 2.39 does for exactly the arguments that git/stash.rs passes.  *)
(*                                                                         *)
(* A tree gives each file three contents: in HEAD, in the index and in the *)
(* work tree.  Contents are told apart only as far as a merge and the      *)
(* question "is this still the user's work?" need.                         *)
(***************************************************************************)
EXTENDS Sequences

CONSTANT File

(* "old" is committed, "new" the user has staged, "mine" the user has not  *)
(* staged; a tool turns each into its "fixed" form or writes a file that   *)
(* was not there ("generated"); "foreign" came from somebody else's stash; *)
(* "merged" is a clean textual merge, "conflict" a file with markers in    *)
(* it, "unmerged" the index entry of such a file.                          *)
Content == {"none", "old", "new", "mine", "old fixed", "new fixed",
            "mine fixed", "foreign", "generated", "merged", "conflict",
            "unmerged"}

Tree == [head : [File -> Content],
         index : [File -> Content],
         work : [File -> Content]]

Tracked(t) == {f \in File : t.index[f] # "none"}
Staged(t) == {f \in File : t.index[f] # t.head[f]}
Unstaged(t) == {f \in Tracked(t) : t.work[f] # t.index[f]}
Untracked(t) == {f \in File \ Tracked(t) : t.work[f] # "none"}
Unmerged(t) == \E f \in File : t.index[f] = "unmerged"

(* What a stash commit records; `run` is the message it is found by.       *)
Entry(t, run) ==
  [run |-> run, base |-> t.head, work |-> t.work,
   tracked |-> Tracked(t), untracked |-> Untracked(t)]

(* git stash push --keep-index --include-untracked: the work tree becomes  *)
(* the index.                                                              *)
AfterPush(t) == [t EXCEPT !.work = t.index]

(* The contents a three-way merge of one file may come to.  Edits of       *)
(* different lines merge cleanly, edits of the same lines do not; a file   *)
(* that one side lacks never merges with a changed one.                    *)
Merge(base, ours, theirs) ==
  IF ours = base THEN {theirs}
  ELSE IF "none" \in {base, ours, theirs} THEN {"conflict"}
  ELSE {"merged", "conflict"}

(* The tracked files a pop has to change: those the entry changed, unless  *)
(* the index has the same change already.                                  *)
ToMerge(t, e) ==
  {f \in e.tracked : e.work[f] \notin {e.base[f], t.index[f]}}

(* A local edit of a file to merge stops the merge before it begins.       *)
Blocked(t, e) == \E f \in ToMerge(t, e) : t.work[f] # t.index[f]

Merges(t, e) ==
  {m \in [ToMerge(t, e) -> Content] :
     \A f \in ToMerge(t, e) : m[f] \in Merge(e.base[f], t.index[f], e.work[f])}

Conflicts(m) == \E f \in DOMAIN m : m[f] = "conflict"

(***************************************************************************)
(* git stash pop, without --index, given the outcome m of the merge.  The  *)
(* untracked files come back even when the merge fails, except where a     *)
(* file is in the way.  A clean merge leaves the index alone; one with     *)
(* conflicts leaves everything it merged staged.                           *)
(***************************************************************************)
AfterPop(t, e, m) ==
  LET changed == IF Blocked(t, e) THEN {} ELSE DOMAIN m
      free == {f \in e.untracked : t.work[f] = "none"}
      indexed(f) == IF m[f] = "conflict" THEN "unmerged" ELSE m[f]
  IN  [t EXCEPT
         !.work = [f \in File |-> IF f \in changed THEN m[f]
                                  ELSE IF f \in free THEN e.work[f]
                                  ELSE t.work[f]],
         !.index = [f \in File |-> IF f \in changed /\ Conflicts(m)
                                   THEN indexed(f) ELSE t.index[f]]]

(* Whether git reports success and drops the entry.                        *)
PopSucceeds(t, e, m) ==
  /\ ~Blocked(t, e)
  /\ ~Conflicts(m)
  /\ \A f \in e.untracked : t.work[f] = "none"
=============================================================================
