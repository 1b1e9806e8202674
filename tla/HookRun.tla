------------------------------- MODULE HookRun -------------------------------
(***************************************************************************)
(* run_hook_with_options of runner/executor.rs, as several worktrees of    *)
(* one repository go through it at the same time: the repo-stash lock, the *)
(* stash pushed before the jobs and popped after them, plan resolution,    *)
(* stage_fixed, the errors that leave early, crashes, and a user who works *)
(* on the shared stash from a worktree of his own.                         *)
(*                                                                         *)
(* The jobs of a run are one phase here: they rewrite some files and then  *)
(* end.  Scheduler and JobExec look inside that phase.                     *)
(***************************************************************************)
EXTENDS GitStash, Integers, FiniteSets

CONSTANTS
  Worktree,
  Hooks,          \* per worktree, the hooks that it may run
  Trees,          \* per worktree, the states that it may be in at first
  MaxRuns,        \* bound: runs per worktree
  MaxOutsider,    \* bound: moves of the outsider on the stash
  NoRun           \* a stash message that is none of betterhook's

(* touches: the files the hook's jobs rewrite.                             *)
Hook == [stash_untracked : BOOLEAN,
         stage_fixed : BOOLEAN,
         touches : SUBSET File]

ASSUME HooksAssumption == Hooks \in [Worktree -> SUBSET Hook]
ASSUME TreesAssumption ==
  \A w \in Worktree : \A t \in Trees[w] :
    t \in Tree /\ \A f \in File : t.index[f] \notin {"mine", "mine fixed"}
ASSUME BoundsAssumption == MaxRuns \in Nat /\ MaxOutsider \in Nat

(* unique_message: a run is known by its worktree and number.              *)
Run == Worktree \X (1..MaxRuns)
ASSUME NoRunAssumption == NoRun \notin Worktree \X (0..MaxRuns)

StashEntry == [run : Run \cup {NoRun}, base : [File -> Content],
               work : [File -> Content], tracked : SUBSET File,
               untracked : SUBSET File]

VARIABLES
  pc,           \* per worktree, where its run is
  runs,         \* per worktree, the runs started
  hook,         \* per worktree, the hook it runs
  tree,         \* per worktree, HEAD, index and work tree
  holders,      \* the worktrees that hold the flock on repo-stash.lock
  stash,        \* the repository's stash list, newest first
  guard,        \* per worktree, whether the run has a live StashGuard
  before,       \* per worktree, files already unstaged before the jobs
  exec,         \* per worktree, exec_res
  restore_err,  \* per worktree, stash_restore_err
  result,       \* per worktree, what the last run returned
  given,        \* history: the tree as the user handed it to the run
  owed,         \* history: user work that must never be lost
  taken,        \* history: entries the outsider removed from the list
  raced,        \* history: a run whose pop the outsider got in before
  outsider      \* how many moves the outsider has made

local == <<pc, runs, hook, guard, before, exec, restore_err, result>>
history == <<given, owed, taken, raced, outsider>>
vars == <<local, tree, holders, stash, history>>

PC == {"idle", "locking", "pushing", "resolving", "running", "finding",
       "popping", "returning"}
Result == {"none", "ok", "failed", "error", "crashed"}

TypeOK ==
  /\ pc \in [Worktree -> PC]
  /\ runs \in [Worktree -> 0..MaxRuns]
  /\ hook \in [Worktree -> Hook]
  /\ tree \in [Worktree -> Tree]
  /\ holders \subseteq Worktree
  /\ stash \in Seq(StashEntry)
  /\ guard \in [Worktree -> BOOLEAN]
  /\ before \in [Worktree -> SUBSET File]
  /\ exec \in [Worktree -> {"none", "ok", "failed", "error"}]
  /\ restore_err \in [Worktree -> BOOLEAN]
  /\ result \in [Worktree -> Result]
  /\ given \in [Worktree -> Tree]
  /\ owed \subseteq Worktree \X File \X Content
  /\ taken \subseteq StashEntry
  /\ raced \in [Worktree -> BOOLEAN]
  /\ outsider \in 0..MaxOutsider

ThisRun(w) == <<w, runs[w]>>

Init ==
  /\ pc = [w \in Worktree |-> "idle"]
  /\ runs = [w \in Worktree |-> 0]
  /\ tree \in {t \in [Worktree -> UNION {Trees[w] : w \in Worktree}] :
               \A w \in Worktree : t[w] \in Trees[w]}
  /\ hook \in {h \in [Worktree -> UNION {Hooks[w] : w \in Worktree}] :
               \A w \in Worktree : h[w] \in Hooks[w]}
  /\ holders = {}
  /\ stash = <<>>
  /\ guard = [w \in Worktree |-> FALSE]
  /\ before = [w \in Worktree |-> {}]
  /\ exec = [w \in Worktree |-> "none"]
  /\ restore_err = [w \in Worktree |-> FALSE]
  /\ result = [w \in Worktree |-> "none"]
  /\ given = tree
  /\ owed = {}
  /\ taken = {}
  /\ raced = [w \in Worktree |-> FALSE]
  /\ outsider = 0

-----------------------------------------------------------------------------
(* One run.                                                                *)

(* What of t only the user has: contents that HEAD does not.               *)
UserWork(w, t) ==
  {<<w, f, t.work[f]>> : f \in {g \in File : t.work[g] \notin {"none", t.head[g]}}}
    \cup {<<w, f, t.index[f]>> : f \in Staged(t)}

(* git starts the hook, which it does not do with unmerged files about.    *)
Start(w) ==
  /\ pc[w] = "idle"
  /\ runs[w] < MaxRuns
  /\ ~Unmerged(tree[w])
  /\ pc' = [pc EXCEPT ![w] = IF hook[w].stash_untracked THEN "locking"
                             ELSE "resolving"]
  /\ runs' = [runs EXCEPT ![w] = @ + 1]
  /\ exec' = [exec EXCEPT ![w] = "none"]
  /\ restore_err' = [restore_err EXCEPT ![w] = FALSE]
  /\ result' = [result EXCEPT ![w] = "none"]
  /\ given' = [given EXCEPT ![w] = tree[w]]
  /\ owed' = owed \cup UserWork(w, tree[w])
  /\ UNCHANGED <<hook, guard, before, tree, holders, stash, taken, raced,
                 outsider>>

(* acquire_repo_stash_lock blocks until the flock is free.                 *)
Lock(w) ==
  /\ pc[w] = "locking"
  /\ holders = {}
  /\ holders' = {w}
  /\ pc' = [pc EXCEPT ![w] = "pushing"]
  /\ UNCHANGED <<runs, hook, guard, before, exec, restore_err, result, tree,
                 stash, history>>

(* git status --porcelain says anything at all.                            *)
HasDirty(t) == Staged(t) \cup Unstaged(t) \cup Untracked(t) # {}

(* A tracked file is both staged and edited again.                         *)
HasPartiallyStaged(t) == Staged(t) \cap Unstaged(t) # {}

(* Mutant: the flock is held for the push only.                            *)
MutPush(w) ==
  /\ pc[w] = "pushing"
  /\ ~HasPartiallyStaged(tree[w])
  /\ guard' = [guard EXCEPT ![w] = TRUE]
  /\ tree' = [tree EXCEPT ![w] = AfterPush(@)]
  /\ stash' = <<Entry(tree[w], ThisRun(w))>> \o stash
  /\ pc' = [pc EXCEPT ![w] = "resolving"]
  /\ holders' = {}
  /\ UNCHANGED <<runs, hook, before, exec, restore_err, result, history>>

(* StashGuard::push: nothing to do when git status is clean; refused when  *)
(* a tracked file is staged and edited again.                              *)
Push(w) ==
  /\ pc[w] = "pushing"
  /\ ~HasPartiallyStaged(tree[w])
  /\ guard' = [guard EXCEPT ![w] = HasDirty(tree[w])]
  /\ IF HasDirty(tree[w])
     THEN /\ tree' = [tree EXCEPT ![w] = AfterPush(@)]
          /\ stash' = <<Entry(tree[w], ThisRun(w))>> \o stash
     ELSE UNCHANGED <<tree, stash>>
  /\ pc' = [pc EXCEPT ![w] = "resolving"]
  /\ UNCHANGED <<runs, hook, before, exec, restore_err, result, holders,
                 history>>

(* Mutant: the flock is not released on an early return.                   *)
MutEarlyError(w) ==
  /\ pc[w] \in {"locking", "pushing", "resolving"}
  /\ result' = [result EXCEPT ![w] = "error"]
  /\ pc' = [pc EXCEPT ![w] = "idle"]
  /\ guard' = [guard EXCEPT ![w] = FALSE]
  /\ UNCHANGED <<runs, hook, before, exec, restore_err, tree, holders, stash,
                 history>>

(* The `?` before the jobs: the lock file, git status or git stash push    *)
(* failed, the push was refused, or resolve_job_plan failed (git, or a     *)
(* glob of the job that does not compile, which loading the config does    *)
(* not check).  The function returns; the flock goes with its guard, and   *)
(* a StashGuard that is dropped pops nothing.                              *)
EarlyError(w) ==
  /\ pc[w] \in {"locking", "pushing", "resolving"}
  /\ result' = [result EXCEPT ![w] = "error"]
  /\ pc' = [pc EXCEPT ![w] = "idle"]
  /\ guard' = [guard EXCEPT ![w] = FALSE]
  /\ holders' = holders \ {w}
  /\ UNCHANGED <<runs, hook, before, exec, restore_err, tree, stash, history>>

(* snapshot_unstaged_if_needed of a stage_fixed job.                       *)
Snapshot(w) == IF hook[w].stage_fixed THEN Unstaged(tree[w]) ELSE {}

(* Every plan is resolved, and a job notes what is unstaged before it.     *)
Resolve(w) ==
  /\ pc[w] = "resolving"
  /\ before' = [before EXCEPT ![w] = Snapshot(w)]
  /\ pc' = [pc EXCEPT ![w] = "running"]
  /\ UNCHANGED <<runs, hook, guard, exec, restore_err, result, tree, holders,
                 stash, history>>

-----------------------------------------------------------------------------
(* The jobs and what follows them.                                         *)

Fixed(c) ==
  CASE c = "none" -> "generated"
    [] c = "old" -> "old fixed"
    [] c = "new" -> "new fixed"
    [] c = "mine" -> "mine fixed"
    [] OTHER -> c

(* A job's command rewrites a file.  After an error the JoinSet is dropped *)
(* with tasks in it, and a command of theirs may write on until it is      *)
(* killed, while the stash is being popped or after.                       *)
Touch(w, f) ==
  /\ \/ pc[w] = "running"
     \/ pc[w] \in {"finding", "popping", "returning"} /\ exec[w] = "error"
  /\ f \in hook[w].touches
  /\ tree' = [tree EXCEPT ![w].work[f] = Fixed(@)]
  /\ tree' # tree
  /\ UNCHANGED <<local, holders, stash, history>>

(* Mutant: stages whatever is unstaged.                                    *)
MutStageFixed(w) ==
  [tree[w] EXCEPT !.index = [f \in File |-> IF f \in Unstaged(tree[w])
                                            THEN tree[w].work[f] ELSE @[f]]]

(* apply_stage_fixed: git add what is unstaged now and was not before.     *)
StageFixed(w) ==
  LET newly == Unstaged(tree[w]) \ before[w]
  IN  [tree[w] EXCEPT !.index = [f \in File |-> IF f \in newly
                                               THEN tree[w].work[f] ELSE @[f]]]

(* Mutant: an error of the jobs returns at once, without a pop.            *)
MutEndJobs(w) ==
  /\ pc[w] = "running"
  /\ \E r \in {"ok", "failed", "error"} :
       /\ exec' = [exec EXCEPT ![w] = r]
       /\ pc' = [pc EXCEPT ![w] = IF guard[w] /\ r # "error" THEN "finding"
                                  ELSE "returning"]
  /\ UNCHANGED <<runs, hook, guard, before, restore_err, result, tree, holders,
                 stash, history>>

(* The jobs are over: all passed, some failed, or one ended in an error,   *)
(* which skips its staging.                                                *)
EndJobs(w) ==
  /\ pc[w] = "running"
  /\ \E r \in {"ok", "failed", "error"} :
       /\ exec' = [exec EXCEPT ![w] = r]
       /\ tree' = IF hook[w].stage_fixed /\ r # "error"
                  THEN [tree EXCEPT ![w] = StageFixed(w)] ELSE tree
  /\ pc' = [pc EXCEPT ![w] = IF guard[w] THEN "finding" ELSE "returning"]
  /\ UNCHANGED <<runs, hook, guard, before, restore_err, result, holders,
                 stash, history>>

(* find_stash_index, in one git command: go on only with the run's entry   *)
(* on top.                                                                 *)
FindStash(w) ==
  /\ pc[w] = "finding"
  /\ LET onTop == stash # <<>> /\ stash[1].run = ThisRun(w)
     IN  /\ pc' = [pc EXCEPT ![w] = IF onTop THEN "popping" ELSE "returning"]
         /\ restore_err' = [restore_err EXCEPT ![w] = ~onTop]
         /\ guard' = [guard EXCEPT ![w] = onTop]
  /\ UNCHANGED <<runs, hook, before, exec, result, tree, holders, stash,
                 history>>

(* Mutant: drops the entry even when it could not be applied in full.      *)
MutPopStash(w) ==
  /\ pc[w] = "popping"
  /\ stash # <<>>
  /\ \E m \in Merges(tree[w], stash[1]) :
       tree' = [tree EXCEPT ![w] = AfterPop(@, stash[1], m)]
  /\ stash' = Tail(stash)
  /\ guard' = [guard EXCEPT ![w] = FALSE]
  /\ pc' = [pc EXCEPT ![w] = "returning"]
  /\ UNCHANGED <<runs, hook, before, exec, restore_err, result, holders,
                 history>>

(* git stash pop stash@{0}, in the next git command: it pops whatever is   *)
(* on top by now.                                                          *)
PopStash(w) ==
  /\ pc[w] = "popping"
  /\ IF stash = <<>>
     THEN /\ restore_err' = [restore_err EXCEPT ![w] = TRUE]
          /\ UNCHANGED <<tree, stash>>
     ELSE \E m \in Merges(tree[w], stash[1]) :
            LET ok == PopSucceeds(tree[w], stash[1], m)
            IN  /\ tree' = [tree EXCEPT ![w] = AfterPop(@, stash[1], m)]
                /\ stash' = IF ok THEN Tail(stash) ELSE stash
                /\ restore_err' = [restore_err EXCEPT ![w] = ~ok]
  /\ guard' = [guard EXCEPT ![w] = FALSE]
  /\ pc' = [pc EXCEPT ![w] = "returning"]
  /\ UNCHANGED <<runs, hook, before, exec, result, holders, history>>

(* Either of the two git commands fails outright: say, because a git add   *)
(* of an aborted job still holds the index.                                *)
GitFails(w) ==
  /\ pc[w] \in {"finding", "popping"}
  /\ restore_err' = [restore_err EXCEPT ![w] = TRUE]
  /\ guard' = [guard EXCEPT ![w] = FALSE]
  /\ pc' = [pc EXCEPT ![w] = "returning"]
  /\ UNCHANGED <<runs, hook, before, exec, result, tree, holders, stash,
                 history>>

(* Mutant: a failed pop does not count.                                    *)
MutReturn(w) ==
  /\ pc[w] = "returning"
  /\ result' = [result EXCEPT ![w] = exec[w]]
  /\ pc' = [pc EXCEPT ![w] = "idle"]
  /\ holders' = holders \ {w}
  /\ UNCHANGED <<runs, hook, guard, before, exec, restore_err, tree, stash,
                 history>>

(* `exec_res?` first, then the restore error, then the report; the flock   *)
(* is dropped last.                                                        *)
Return(w) ==
  /\ pc[w] = "returning"
  /\ result' = [result EXCEPT ![w] = IF restore_err[w] THEN "error"
                                     ELSE exec[w]]
  /\ pc' = [pc EXCEPT ![w] = "idle"]
  /\ holders' = holders \ {w}
  /\ UNCHANGED <<runs, hook, guard, before, exec, restore_err, tree, stash,
                 history>>

-----------------------------------------------------------------------------
(* The world around a run.                                                 *)

(* git commits the index after a hook that passed.                         *)
Commit(w) ==
  /\ pc[w] = "idle" /\ result[w] = "ok"
  /\ ~Unmerged(tree[w])
  /\ Staged(tree[w]) # {}
  /\ tree' = [tree EXCEPT ![w].head = tree[w].index]
  /\ UNCHANGED <<local, holders, stash, history>>

(* The process is killed: the kernel frees its flock, the entry stays.     *)
Crash(w) ==
  /\ pc[w] # "idle"
  /\ pc' = [pc EXCEPT ![w] = "idle"]
  /\ guard' = [guard EXCEPT ![w] = FALSE]
  /\ result' = [result EXCEPT ![w] = "crashed"]
  /\ holders' = holders \ {w}
  /\ UNCHANGED <<runs, hook, before, exec, restore_err, tree, stash, history>>

(* Somebody uses git stash in another worktree: runs between their check   *)
(* of the top entry and their pop are raced.                               *)
OutsiderMove ==
  /\ outsider < MaxOutsider
  /\ outsider' = outsider + 1
  /\ raced' = [w \in Worktree |-> raced[w] \/ pc[w] = "popping"]
  /\ UNCHANGED <<local, tree, holders, given, owed>>

OutsiderPush(f) ==
  /\ OutsiderMove
  /\ stash' = <<[run |-> NoRun,
                 base |-> [g \in File |-> "old"],
                 work |-> [[g \in File |-> "old"] EXCEPT ![f] = "foreign"],
                 tracked |-> File, untracked |-> {}]>> \o stash
  /\ UNCHANGED taken

(* They pop or drop the top entry: it is theirs from then on.              *)
OutsiderTake ==
  /\ OutsiderMove
  /\ stash # <<>>
  /\ stash' = Tail(stash)
  /\ taken' = taken \cup {stash[1]}

RunStep(w) ==
  \/ Start(w) \/ Lock(w) \/ Push(w) \/ EarlyError(w) \/ Resolve(w)
  \/ \E f \in File : Touch(w, f)
  \/ EndJobs(w) \/ FindStash(w) \/ PopStash(w) \/ GitFails(w) \/ Return(w)

Outside == (\E f \in File : OutsiderPush(f)) \/ OutsiderTake

(* Every worktree has had its runs.                                        *)
AllRun ==
  /\ \A w \in Worktree : pc[w] = "idle"
  /\ UNCHANGED vars

Next ==
  \/ \E w \in Worktree : RunStep(w) \/ Commit(w) \/ Crash(w)
  \/ Outside
  \/ AllRun

(* A run that has begun goes on: its commands end and its git commands     *)
(* answer.  Nothing forces a user to start one, and a run blocked on the   *)
(* flock must be let in by the holder, not saved by an error.              *)
Proceed(w) == Lock(w) \/ (pc[w] \notin {"idle", "locking"} /\ RunStep(w))

Fairness == \A w \in Worktree : WF_vars(Proceed(w))

Spec == Init /\ [][Next]_vars /\ Fairness

-----------------------------------------------------------------------------
(* Properties.                                                             *)

(* The places where a content c of file f of worktree w may be found, as   *)
(* it was or worked over by a tool, a merge or git's conflict markers.     *)
Kept(w, f, c) ==
  LET forms == {c, Fixed(c), "merged", "conflict"}
  IN  \/ {tree[w].head[f], tree[w].index[f], tree[w].work[f]} \cap forms # {}
      \/ \E e \in taken \cup {stash[i] : i \in DOMAIN stash} :
           e.run \in {w} \X (1..runs[w]) /\ e.work[f] \in forms

(* Whatever happens, crashes, early errors and outsiders included, what    *)
(* the user had not committed is still in the worktree or in a stash entry *)
(* of a run of that worktree (stash.rs 1-13: the stash is "reversible").   *)
(* A raced pop may put it into another worktree.                           *)
UserWorkSurvives ==
  (\A w \in Worktree : ~raced[w]) =>
    \A o \in owed : Kept(o[1], o[2], o[3])

(* While a run's stash is out, no other run of betterhook puts an entry on *)
(* top of it: above it only the outsider's are (executor.rs 120-122: the   *)
(* lock is held for "the full push->run->pop lifecycle").                  *)
NoRunBuriesAnother ==
  \A w \in Worktree, i \in DOMAIN stash :
    guard[w] /\ stash[i].run = ThisRun(w) =>
      \A j \in 1..(i - 1) : stash[j].run = NoRun

(* A run that returned a report, of success or of failure, has put back    *)
(* the work tree and index it was given, but for the files its jobs        *)
(* rewrite, and has left no stash entry; unless the outsider got between   *)
(* the check and the pop (stash.rs 95-98).                                 *)
ReportMeansRestored ==
  \A w \in Worktree :
    pc[w] = "idle" /\ result[w] \in {"ok", "failed"} /\ ~raced[w] =>
      /\ \A i \in DOMAIN stash : stash[i].run # ThisRun(w)
      /\ \A f \in File \ hook[w].touches :
           /\ tree[w].work[f] = given[w].work[f]
           /\ tree[w].index[f] = given[w].index[f]

(* An entry left behind by a run whose jobs ran was reported to the user,  *)
(* the jobs' own error notwithstanding (executor.rs 173-185).              *)
EntryLeftIsReported ==
  \A w \in Worktree, i \in DOMAIN stash :
    /\ pc[w] = "idle" /\ result[w] # "crashed" /\ ~raced[w]
    /\ exec[w] # "none" /\ stash[i].run = ThisRun(w)
    => restore_err[w]

(* What the user has not staged does not get staged for him: stage_fixed   *)
(* leaves it alone, and so does a pop, unless it ends in conflicts, which  *)
(* forbid a commit (stage.rs 101-102).                                     *)
NoUnstagedWorkIsStaged ==
  \A w \in Worktree, f \in File :
    tree[w].index[f] \in {"mine", "mine fixed"} => Unmerged(tree[w])

(* A run that was started returns: it is never stuck on the lock.          *)
EveryRunReturns ==
  \A w \in Worktree : pc[w] # "idle" ~> pc[w] = "idle"

(* Said of the program: the stash is popped even on error (executor.rs     *)
(* 173-174), so that an entry that stays was reported.                     *)
AlwaysTriesToPop ==
  \A w \in Worktree, i \in DOMAIN stash :
    /\ pc[w] = "idle" /\ result[w] # "crashed" /\ ~raced[w]
    /\ stash[i].run = ThisRun(w)
    => restore_err[w]
=============================================================================
