----------------------------- MODULE MCJobExec -----------------------------
(* Two jobs, of one run or of two in different worktrees.                  *)
EXTENDS JobExec

MCHook(parallel, fail_fast) == [parallel |-> parallel, fail_fast |-> fail_fast]
MCHooks == [r \in Run |->
  IF r = 1 THEN {MCHook(TRUE, TRUE), MCHook(FALSE, FALSE)}
  ELSE {MCHook(TRUE, FALSE)}]

Long == [run |-> 1, key |-> "tool", timed |-> TRUE, stage_fixed |-> TRUE,
         writes |-> {"new"}, commands |-> 2]
Locked(run) == [run |-> run, key |-> "tool", timed |-> FALSE,
                stage_fixed |-> FALSE, writes |-> {}, commands |-> 1]
Fixer == [run |-> 1, key |-> Unlocked, timed |-> FALSE, stage_fixed |-> TRUE,
          writes |-> {"new", "same"}, commands |-> 1]

(* A long job beside one with its key, in its run or in another; and two   *)
(* jobs whose fixes are staged side by side.                               *)
MCJobs == {<<Long, Locked(1)>>, <<Long, Locked(2)>>, <<Fixer, Fixer>>}

MCUnstaged == [r \in Run |-> IF r = 1 THEN {{}, {1}} ELSE {{}}]
=============================================================================
