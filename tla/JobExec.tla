------------------------------ MODULE JobExec ------------------------------
(***************************************************************************)
(* What a job task does between being spawned and ending:                  *)
(* execute_job_in_dag of runner/executor.rs with the helpers of stage.rs   *)
(* and run_command of proc.rs, for the jobs of several hook runs that      *)
(* share isolation locks; and the loop of run_sequential, which takes the  *)
(* same steps one job at a time and without a Cancel.                      *)
(*                                                                         *)
(* Which jobs a parallel run spawns, and when, is module Scheduler's       *)
(* business: here any job may begin at any time.  The tee, the diagnostics *)
(* and the cache write at the end change nothing that is kept here.        *)
(***************************************************************************)
EXTENDS Integers, FiniteSets

CONSTANTS
  Run,          \* hook runs, each a process in a worktree of its own
  Job,          \* numbers; those of one run are in declaration order
  Hooks,        \* per run, the settings that its hook may have
  Jobs,         \* the settings that all jobs may have, a set of functions
  Unstaged,     \* per run, the sets of files that may be unstaged at first
  Unlocked,     \* the key of a job without `isolate`
  Free          \* nobody holds a lock

HookSetting == [parallel : BOOLEAN, fail_fast : BOOLEAN]

ASSUME JobAssumption == Job \subseteq Nat
ASSUME FreeAssumption == Free \notin Job
ASSUME SettingsAssumption ==
  /\ \A r \in Run : Hooks[r] \subseteq HookSetting
  /\ \A r \in Run : Unstaged[r] \subseteq SUBSET Job
  /\ \A s \in Jobs : \A j \in Job :
       /\ s[j].run \in Run
       /\ s[j].timed \in BOOLEAN /\ s[j].stage_fixed \in BOOLEAN
       /\ s[j].writes \subseteq {"new", "same"}
       /\ s[j].commands \in Nat \ {0}

Key == {s[j].key : s \in Jobs, j \in Job} \ {Unlocked}

VARIABLES
  hook,        \* per run, its settings
  job,         \* per job, its settings
  pc,          \* per job, where its task is
  result,      \* per job, how its task ended
  ran,         \* per job, commands started
  bad,         \* per job, whether a command of it failed (job_failed)
  child,       \* per job, the `sh` of its current command
  orphans,     \* per job, descendants of its commands that outlived sh:
               \* "piping" hold the pipes being drained, "loose" do not
  before,      \* per job, the files unstaged before it began
  newly,       \* per job, the files its git add stages
  holder,      \* per key, the job that holds its lock file
  git_lock,    \* per run, the job that holds the git index mutex
  index_lock,  \* per run, the job whose git holds .git/index.lock
  dirty,       \* per run, unstaged files; each job rewrites one, its own
  stat,        \* per run, a file was rewritten with what it had: the index
               \* has its old stat data
  cancel,      \* per run, the Cancel: "no", "stored" or "notified"
  seen,        \* per job, what its Notified was created after
  dropped      \* per run, whether its JoinSet was dropped

settings == <<hook, job>>
task == <<pc, result, ran, bad, before, newly, seen>>
procs == <<child, orphans>>
locks == <<holder, git_lock, index_lock>>
tree == <<dirty, stat>>
vars == <<settings, task, procs, locks, tree, cancel, dropped>>

(* "check", "create", "recheck" and "await" are the steps of               *)
(* Cancel::cancelled inside the select of wait_for_outcome.                *)
Selecting == {"check", "create", "recheck", "await"}
PC == {"waiting", "snapshot", "locking", "spawning", "drain", "diff", "mutex",
       "adding", "over"} \cup Selecting

TypeOK ==
  /\ pc \in [Job -> PC]
  /\ result \in [Job -> {"none", "ok", "failed", "error", "aborted"}]
  /\ ran \in [Job -> Nat] /\ \A j \in Job : ran[j] <= job[j].commands
  /\ bad \in [Job -> BOOLEAN]
  /\ child \in [Job -> {"none", "running", "passed", "failed", "killed"}]
  /\ orphans \in [Job -> SUBSET {"piping", "loose"}]
  /\ before \in [Job -> SUBSET Job]
  /\ newly \in [Job -> SUBSET Job]
  /\ holder \in [Key -> Job \cup {Free}]
  /\ git_lock \in [Run -> Job \cup {Free}]
  /\ index_lock \in [Run -> Job \cup {Free}]
  /\ dirty \in [Run -> SUBSET Job]
  /\ stat \in [Run -> BOOLEAN]
  /\ cancel \in [Run -> {"no", "stored", "notified"}]
  /\ seen \in [Job -> {"no", "stored", "notified"}]
  /\ dropped \in [Run -> BOOLEAN]

Init ==
  /\ hook \in {h \in [Run -> HookSetting] : \A r \in Run : h[r] \in Hooks[r]}
  /\ job \in Jobs
  /\ pc = [j \in Job |-> "waiting"]
  /\ result = [j \in Job |-> "none"]
  /\ ran = [j \in Job |-> 0]
  /\ bad = [j \in Job |-> FALSE]
  /\ child = [j \in Job |-> "none"]
  /\ orphans = [j \in Job |-> {}]
  /\ before = [j \in Job |-> {}]
  /\ newly = [j \in Job |-> {}]
  /\ holder = [k \in Key |-> Free]
  /\ git_lock = [r \in Run |-> Free]
  /\ index_lock = [r \in Run |-> Free]
  /\ dirty \in {d \in [Run -> SUBSET Job] : \A r \in Run : d[r] \in Unstaged[r]}
  /\ stat = [r \in Run |-> FALSE]
  /\ cancel = [r \in Run |-> "no"]
  /\ seen = [j \in Job |-> "no"]
  /\ dropped = [r \in Run |-> FALSE]

-----------------------------------------------------------------------------
(* Beginning and ending.                                                   *)

Goto(j, next) == pc' = [pc EXCEPT ![j] = next]

(* run_sequential comes to a job when those before it are over, and stops  *)
(* at an error or, under fail_fast, at a failure.                          *)
TurnOf(j) ==
  LET earlier == {k \in Job : job[k].run = job[j].run /\ k < j}
  IN  \A k \in earlier :
        \/ result[k] = "ok"
        \/ result[k] = "failed" /\ ~hook[job[j].run].fail_fast

Begin(j) ==
  /\ pc[j] = "waiting"
  /\ IF hook[job[j].run].parallel
     THEN ~dropped[job[j].run] /\ cancel[job[j].run] = "no"
     ELSE TurnOf(j)
  /\ Goto(j, IF job[j].stage_fixed THEN "snapshot" ELSE "locking")
  /\ UNCHANGED <<settings, result, ran, bad, before, newly, seen, procs, locks,
                 tree, cancel, dropped>>

(* The task's guards go when it ends, in whatever way.                     *)
End(j, how) ==
  /\ Goto(j, "over")
  /\ result' = [result EXCEPT ![j] = how]
  /\ holder' = [k \in Key |-> IF holder[k] = j THEN Free ELSE holder[k]]
  /\ git_lock' = [r \in Run |-> IF git_lock[r] = j THEN Free ELSE git_lock[r]]

(* An operation of the task fails and `?` ends it: a git diff, spawning sh *)
(* or waiting for it.                                                      *)
Fail(j) ==
  /\ pc[j] \in {"snapshot", "spawning", "await", "diff"}
  /\ index_lock[job[j].run] # j
  /\ End(j, "error")
  /\ child' = [child EXCEPT ![j] = IF @ = "running" THEN "killed" ELSE @]
  /\ UNCHANGED <<settings, ran, bad, before, newly, seen, orphans, index_lock,
                 tree, cancel, dropped>>

-----------------------------------------------------------------------------
(* git diff, before the job and after it.                                  *)

(* When a file was rewritten with what it had, git diff refreshes the      *)
(* index on its way, under .git/index.lock and not under git_lock.         *)
RefreshIndex(j) ==
  LET r == job[j].run
  IN  /\ pc[j] \in {"snapshot", "diff"}
      /\ stat[r] /\ index_lock[r] = Free
      /\ index_lock' = [index_lock EXCEPT ![r] = j]
      /\ UNCHANGED <<settings, task, procs, holder, git_lock, tree, cancel,
                     dropped>>

EndRefresh(j) ==
  LET r == job[j].run
  IN  IF index_lock[r] = j
      THEN /\ index_lock' = [index_lock EXCEPT ![r] = Free]
           /\ stat' = [stat EXCEPT ![r] = FALSE]
      ELSE UNCHANGED <<index_lock, stat>>

Snapshot(j) ==
  /\ pc[j] = "snapshot"
  /\ before' = [before EXCEPT ![j] = dirty[job[j].run]]
  /\ EndRefresh(j)
  /\ Goto(j, "locking")
  /\ UNCHANGED <<settings, result, ran, bad, newly, seen, procs, holder,
                 git_lock, dirty, cancel, dropped>>

-----------------------------------------------------------------------------
(* The isolation lock.                                                     *)

(* Mutant: the guard is dropped as soon as it is there.                    *)
MutLock(j) ==
  /\ pc[j] = "locking"
  /\ job[j].key # Unlocked => holder[job[j].key] = Free
  /\ UNCHANGED holder
  /\ Goto(j, "spawning")
  /\ UNCHANGED <<settings, result, ran, bad, before, newly, seen, procs,
                 git_lock, index_lock, tree, cancel, dropped>>

(* acquire_if_isolated blocks a thread until the lock file is free.  (An   *)
(* error there makes it run unlocked, which is a job without a key.)       *)
Lock(j) ==
  /\ pc[j] = "locking"
  /\ IF job[j].key = Unlocked THEN UNCHANGED holder
     ELSE /\ holder[job[j].key] = Free
          /\ holder' = [holder EXCEPT ![job[j].key] = j]
  /\ Goto(j, "spawning")
  /\ UNCHANGED <<settings, result, ran, bad, before, newly, seen, procs,
                 git_lock, index_lock, tree, cancel, dropped>>

-----------------------------------------------------------------------------
(* A command.                                                              *)

Spawn(j) ==
  /\ pc[j] = "spawning"
  /\ child' = [child EXCEPT ![j] = "running"]
  /\ ran' = [ran EXCEPT ![j] = @ + 1]
  /\ Goto(j, "check")
  /\ UNCHANGED <<settings, result, bad, before, newly, seen, orphans, locks,
                 tree, cancel, dropped>>

(* A formatter writes the job's file anew: changed, or the same as it was. *)
Touch(j) ==
  LET r == job[j].run
  IN  /\ child[j] = "running" \/ orphans[j] # {}
      /\ \/ /\ "new" \in job[j].writes
            /\ dirty' = [dirty EXCEPT ![r] = @ \cup {j}]
            /\ UNCHANGED stat
         \/ /\ "same" \in job[j].writes
            /\ stat' = [stat EXCEPT ![r] = TRUE]
            /\ UNCHANGED dirty
      /\ UNCHANGED <<settings, task, procs, locks, cancel, dropped>>

ChildExits(j) ==
  /\ child[j] = "running"
  /\ \E how \in {"passed", "failed"}, left \in {{}, {"piping"}, {"loose"}} :
       /\ child' = [child EXCEPT ![j] = how]
       /\ orphans' = [orphans EXCEPT ![j] = @ \cup left]
  /\ UNCHANGED <<settings, task, locks, tree, cancel, dropped>>

OrphanDies(j) ==
  /\ "piping" \in orphans[j]
  /\ orphans' = [orphans EXCEPT ![j] = @ \ {"piping"}]
  /\ UNCHANGED <<settings, task, child, locks, tree, cancel, dropped>>

(* A parallel job stops at its first failure; a sequential one only under  *)
(* fail_fast.                                                              *)
MoreCommands(j, failing) ==
  /\ ran[j] < job[j].commands
  /\ failing => ~hook[job[j].run].parallel /\ ~hook[job[j].run].fail_fast

(* What follows a command: the next one, the diff, or the end.             *)
AfterCommand(j, failing) ==
  /\ bad' = [bad EXCEPT ![j] = @ \/ failing]
  /\ IF MoreCommands(j, failing)
     THEN Goto(j, "spawning") /\ UNCHANGED <<result, holder, git_lock>>
     ELSE IF job[j].stage_fixed
     THEN Goto(j, "diff") /\ UNCHANGED <<result, holder, git_lock>>
     ELSE End(j, IF bad'[j] THEN "failed" ELSE "ok")
  /\ UNCHANGED <<settings, ran, before, newly, seen, index_lock, tree, cancel,
                 dropped>>

(* resolve_exit kills sh and reaps it; drain_readers then drops the pipes, *)
(* so that what sh leaves behind holds up nobody.                          *)
Kill(j) ==
  \E left \in {{}, {"loose"}} :
    /\ child' = [child EXCEPT ![j] = IF @ = "running" THEN "killed" ELSE @]
    /\ orphans' = [orphans EXCEPT ![j] =
                     (@ \ {"piping"})
                       \cup (IF "piping" \in @ THEN {"loose"} ELSE {})
                       \cup (IF child[j] = "running" THEN left ELSE {})]

Cancelled(j) == Kill(j) /\ AfterCommand(j, TRUE)

-----------------------------------------------------------------------------
(* The select of wait_for_outcome.  It is biased: the Cancel is polled     *)
(* first, then the timer, then the child.                                  *)

Flag(j) == cancel[job[j].run] # "no"

SelectStep(j, from, to) ==
  /\ pc[j] = from
  /\ ~Flag(j)
  /\ Goto(j, to)
  /\ UNCHANGED <<settings, result, ran, bad, before, newly, seen, procs, locks,
                 tree, cancel, dropped>>

Check(j) ==
  \/ SelectStep(j, "check", "create")
  \/ pc[j] = "check" /\ Flag(j) /\ Cancelled(j)

(* A Notified wakes for a notify_waiters that comes after its creation.    *)
CreateNotified(j) ==
  /\ pc[j] = "create"
  /\ seen' = [seen EXCEPT ![j] = cancel[job[j].run]]
  /\ Goto(j, "recheck")
  /\ UNCHANGED <<settings, result, ran, bad, before, newly, procs, locks, tree,
                 cancel, dropped>>

(* Mutant: the flag is not read again once the Notified is there.          *)
MutRecheck(j) ==
  /\ pc[j] = "recheck"
  /\ Goto(j, "await")
  /\ UNCHANGED <<settings, result, ran, bad, before, newly, seen, procs, locks,
                 tree, cancel, dropped>>

Recheck(j) ==
  \/ SelectStep(j, "recheck", "await")
  \/ pc[j] = "recheck" /\ Flag(j) /\ Cancelled(j)

Wakes(j) == cancel[job[j].run] = "notified" /\ seen[j] # "notified"

Woken(j) == pc[j] = "await" /\ Wakes(j) /\ Cancelled(j)

(* Mutant: the readers are not aborted, only awaited.                      *)
MutTimedOut(j) ==
  /\ pc[j] = "await" /\ ~Wakes(j)
  /\ job[j].timed
  /\ child' = [child EXCEPT ![j] = "killed"]
  /\ orphans' = [orphans EXCEPT ![j] = @ \cup {"piping"}]
  /\ Goto(j, "drain")
  /\ UNCHANGED <<settings, result, ran, bad, before, newly, seen, locks, tree,
                 cancel, dropped>>

TimedOut(j) ==
  /\ pc[j] = "await" /\ ~Wakes(j)
  /\ job[j].timed
  /\ Kill(j)
  /\ AfterCommand(j, TRUE)

Finished(j) ==
  /\ pc[j] = "await" /\ ~Wakes(j)
  /\ child[j] \in {"passed", "failed"}
  /\ Goto(j, "drain")
  /\ UNCHANGED <<settings, result, ran, bad, before, newly, seen, procs, locks,
                 tree, cancel, dropped>>

(* The readers come to the end of the pipes when nobody has them open.     *)
Drain(j) ==
  /\ pc[j] = "drain"
  /\ "piping" \notin orphans[j]
  /\ AfterCommand(j, child[j] # "passed")
  /\ UNCHANGED procs

-----------------------------------------------------------------------------
(* apply_stage_fixed, after the last command and still under the lock.     *)

Ending(j) == IF bad[j] THEN "failed" ELSE "ok"

(* Mutant: fixes of a job that failed are left unstaged.                   *)
MutDiff(j) ==
  /\ pc[j] = "diff"
  /\ newly' = [newly EXCEPT ![j] = dirty[job[j].run] \ before[j]]
  /\ EndRefresh(j)
  /\ IF newly'[j] = {} \/ bad[j] THEN End(j, Ending(j))
     ELSE Goto(j, "mutex") /\ UNCHANGED <<result, holder, git_lock>>
  /\ UNCHANGED <<settings, ran, bad, before, seen, procs, dirty, cancel,
                 dropped>>

Diff(j) ==
  /\ pc[j] = "diff"
  /\ newly' = [newly EXCEPT ![j] = dirty[job[j].run] \ before[j]]
  /\ EndRefresh(j)
  /\ IF newly'[j] = {} THEN End(j, Ending(j))
     ELSE Goto(j, "mutex") /\ UNCHANGED <<result, holder, git_lock>>
  /\ UNCHANGED <<settings, ran, bad, before, seen, procs, dirty, cancel,
                 dropped>>

LockGit(j) ==
  LET r == job[j].run
  IN  /\ pc[j] = "mutex"
      /\ git_lock[r] = Free
      /\ git_lock' = [git_lock EXCEPT ![r] = j]
      /\ Goto(j, "adding")
      /\ UNCHANGED <<settings, result, ran, bad, before, newly, seen, procs,
                     holder, index_lock, tree, cancel, dropped>>

(* git add takes .git/index.lock or fails at once.                         *)
AddStarts(j) ==
  LET r == job[j].run
  IN  /\ pc[j] = "adding"
      /\ index_lock[r] = Free
      /\ index_lock' = [index_lock EXCEPT ![r] = j]
      /\ UNCHANGED <<settings, task, procs, holder, git_lock, tree, cancel,
                     dropped>>

AddFails(j) ==
  /\ pc[j] = "adding"
  /\ index_lock[job[j].run] \notin {Free, j}
  /\ End(j, "error")
  /\ UNCHANGED <<settings, ran, bad, before, newly, seen, procs, index_lock,
                 tree, cancel, dropped>>

(* git add is done: its files are staged and the index unlocked.           *)
Staged(j) ==
  LET r == job[j].run
  IN  /\ index_lock[r] = j
      /\ index_lock' = [index_lock EXCEPT ![r] = Free]
      /\ dirty' = [dirty EXCEPT ![r] = @ \ newly[j]]

AddEnds(j) ==
  /\ pc[j] = "adding"
  /\ Staged(j)
  /\ End(j, Ending(j))
  /\ UNCHANGED <<settings, ran, bad, before, newly, seen, procs, stat, cancel,
                 dropped>>

-----------------------------------------------------------------------------
(* What run_parallel does to its tasks.                                    *)

StoreCancel(r) ==
  /\ hook[r].parallel /\ hook[r].fail_fast
  /\ cancel[r] = "no" /\ ~dropped[r]
  /\ \E j \in Job : job[j].run = r /\ result[j] = "failed"
  /\ cancel' = [cancel EXCEPT ![r] = "stored"]
  /\ UNCHANGED <<settings, task, procs, locks, tree, dropped>>

Notify(r) ==
  /\ cancel[r] = "stored"
  /\ cancel' = [cancel EXCEPT ![r] = "notified"]
  /\ UNCHANGED <<settings, task, procs, locks, tree, dropped>>

(* An error returns from the loop, which drops the JoinSet; the drain      *)
(* after a cancel discards errors.                                         *)
DropSet(r) ==
  /\ hook[r].parallel
  /\ cancel[r] = "no" /\ ~dropped[r]
  /\ \E j \in Job : job[j].run = r /\ result[j] = "error"
  /\ dropped' = [dropped EXCEPT ![r] = TRUE]
  /\ UNCHANGED <<settings, task, procs, locks, tree, cancel>>

(* A dropped task is aborted: kill_on_drop kills sh, the guards go.  A git *)
(* of its own runs on.  A thread that waits for the lock file takes it     *)
(* later and drops it at once, which changes nothing.                      *)
Abort(j) ==
  /\ dropped[job[j].run]
  /\ pc[j] \notin {"waiting", "over"}
  /\ Kill(j)
  /\ End(j, "aborted")
  /\ UNCHANGED <<settings, ran, bad, before, newly, seen, index_lock, tree,
                 cancel, dropped>>

DetachedGitEnds(j) ==
  /\ pc[j] = "over"
  /\ Staged(j)
  /\ UNCHANGED <<settings, task, procs, holder, git_lock, stat, cancel,
                 dropped>>

Step(j) ==
  \/ Snapshot(j) \/ Lock(j) \/ Spawn(j)
  \/ Check(j) \/ CreateNotified(j) \/ Recheck(j) \/ Woken(j)
  \/ TimedOut(j) \/ Finished(j) \/ Drain(j)
  \/ Diff(j) \/ LockGit(j) \/ AddStarts(j) \/ AddFails(j) \/ AddEnds(j)
  \/ Abort(j) \/ DetachedGitEnds(j)

Next ==
  \/ \E j \in Job :
       \/ Step(j)
       \/ Begin(j) \/ Fail(j) \/ RefreshIndex(j)
       \/ Touch(j) \/ ChildExits(j) \/ OrphanDies(j)
  \/ \E r \in Run : StoreCancel(r) \/ Notify(r) \/ DropSet(r)

Spec == Init /\ [][Next]_vars

(* The runtime keeps polling every task that can move, timers fire, git    *)
(* ends, and cancel() goes on to its second statement.  No command has to  *)
(* end, nor anything it leaves behind.                                     *)
FairSpec == Spec /\ \A j \in Job : WF_vars(Step(j))
                 /\ \A r \in Run : WF_vars(Notify(r))

-----------------------------------------------------------------------------
(* Two commands never run under one isolation key at a time, in whatever   *)
(* worktrees, whatever becomes of the tasks.                               *)
IsolationHolds ==
  \A j, k \in Job :
    /\ j # k /\ job[j].key = job[k].key /\ job[j].key # Unlocked
    => ~(child[j] = "running" /\ child[k] = "running")

(* What a stage_fixed job rewrote is staged when its task has ended, also  *)
(* if a command failed, unless the file was unstaged before; something the *)
(* job left running is beyond that.                                        *)
FixesAreStaged ==
  \A j \in Job :
    /\ result[j] \in {"ok", "failed"}
    /\ job[j].stage_fixed
    /\ j \notin before[j]
    /\ orphans[j] = {}
    => j \notin dirty[job[j].run]

(* Once the flag is stored every command that is being waited for, or      *)
(* about to be, is let go of, although no command ever has to end.         *)
CancelReaches ==
  \A j \in Job :
    cancel[job[j].run] # "no" /\ pc[j] \in Selecting ~> pc[j] \notin Selecting

(* A timed job ends, unless its sh has ended by itself and left somebody   *)
(* behind with the pipes: those are drained without a timeout.             *)
TimedJobsEnd ==
  \A j \in Job :
    job[j].timed /\ pc[j] \in Selecting
      ~> \/ pc[j] = "over"
         \/ "piping" \in orphans[j] /\ child[j] \in {"passed", "failed"}
=============================================================================
