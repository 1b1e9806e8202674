--------------------------- MODULE JobExecProofs ---------------------------
(***************************************************************************)
(* Theorems about module JobExec, for any runs, any jobs with any settings *)
(* and any isolation keys.                                                 *)
(***************************************************************************)
EXTENDS JobExec, TLAPS

(* Where a task has its isolation lock, if it needs one.                   *)
Guarded == Selecting \cup {"spawning", "drain", "diff", "mutex", "adding"}

(* Where a task has commands yet to start.                                 *)
Ahead == {"waiting", "snapshot", "locking", "spawning"}

SettingsInv == job \in Jobs

(* The sh of a command runs only while its task selects.                   *)
ChildInv == \A j \in Job : child[j] = "running" => pc[j] \in Selecting

(* A task keeps its guard until its last command is dead and staged.       *)
GuardInv ==
  \A j \in Job :
    pc[j] \in Guarded /\ job[j].key # Unlocked => holder[job[j].key] = j

CommandInv == \A j \in Job : pc[j] \in Ahead => ran[j] < job[j].commands

IInv == TypeOK /\ SettingsInv /\ ChildInv /\ GuardInv /\ CommandInv

(* What a member of Jobs gives each job.                                   *)
LEMMA JobFacts ==
  ASSUME SettingsInv, NEW j \in Job
  PROVE  /\ job[j].run \in Run
         /\ job[j].key # Unlocked => job[j].key \in Key
         /\ job[j].commands \in Nat \ {0}
  BY SettingsAssumption DEF SettingsInv, Key

LEMMA InitIInv == Init => IInv
  <1> SUFFICES ASSUME Init PROVE IInv
    OBVIOUS
  <1>1. SettingsInv
    BY DEF Init, SettingsInv
  <1>2. TypeOK
    BY <1>1, JobFacts, SettingsAssumption DEF Init, TypeOK, PC, Selecting
  <1>3. ChildInv /\ GuardInv
    BY DEF Init, ChildInv, GuardInv, Guarded, Selecting
  <1>4. CommandInv
    BY <1>1, JobFacts DEF Init, CommandInv
  <1>5. QED
    BY <1>1, <1>2, <1>3, <1>4 DEF IInv

-----------------------------------------------------------------------------
(* Steps shared by several actions.                                        *)

(* A task that ends leaves the guards of the others alone.                 *)
LEMMA EndStep ==
  ASSUME IInv, NEW j \in Job, NEW how \in {"ok", "failed", "error", "aborted"},
         End(j, how), UNCHANGED settings,
         UNCHANGED <<ran, before, seen, cancel, dropped>>,
         index_lock' \in [Run -> Job \cup {Free}],
         bad' \in [Job -> BOOLEAN], newly' \in [Job -> SUBSET Job],
         child' \in [Job -> {"none", "running", "passed", "failed", "killed"}],
         orphans' \in [Job -> SUBSET {"piping", "loose"}],
         dirty' \in [Run -> SUBSET Job], stat' \in [Run -> BOOLEAN],
         child'[j] # "running",
         \A k \in Job \ {j} : child'[k] = child[k]
  PROVE  IInv'
  <1>1. SettingsInv'
    BY DEF IInv, SettingsInv, settings
  <1>2. TypeOK'
    BY DEF IInv, TypeOK, End, Goto, PC, settings
  <1>3. ChildInv'
    BY DEF IInv, ChildInv, TypeOK, End, Goto
  <1>4. GuardInv'
    <2> SUFFICES ASSUME NEW k \in Job, pc'[k] \in Guarded,
                        job[k].key # Unlocked
                 PROVE  holder'[job[k].key] = k
      BY DEF GuardInv, settings
    <2>1. k # j /\ pc[k] \in Guarded
      BY DEF IInv, TypeOK, End, Goto, Guarded, Selecting
    <2>2. job[k].key \in Key /\ holder[job[k].key] = k
      BY <2>1, JobFacts DEF IInv, GuardInv
    <2>3. QED
      BY <2>1, <2>2 DEF End
  <1>5. CommandInv'
    BY DEF IInv, TypeOK, CommandInv, Ahead, End, Goto, settings
  <1>6. QED
    BY <1>1, <1>2, <1>3, <1>4, <1>5 DEF IInv

(* A step that leaves locks and children alone and moves one task to a     *)
(* place that asks for no more than the one it leaves.                     *)
LEMMA MoveStep ==
  ASSUME IInv, NEW j \in Job, NEW to \in PC, TypeOK',
         Goto(j, to), UNCHANGED <<settings, holder>>,
         \A k \in Job : ran'[k] = ran[k],
         \A k \in Job : child'[k] = "running" => child[k] = "running",
         to \in Guarded => pc[j] \in Guarded,
         child'[j] = "running" => to \in Selecting,
         to \in Ahead => ran[j] < job[j].commands
  PROVE  IInv'
  <1>1. pc' = [pc EXCEPT ![j] = to] /\ pc \in [Job -> PC]
    BY DEF Goto, IInv, TypeOK
  <1>2. SettingsInv' /\ ChildInv'
    BY <1>1 DEF IInv, SettingsInv, ChildInv, settings
  <1>3. GuardInv'
    BY <1>1 DEF IInv, GuardInv, settings
  <1>4. CommandInv'
    BY <1>1 DEF IInv, CommandInv, settings
  <1>5. QED
    BY <1>2, <1>3, <1>4 DEF IInv

(* A step that moves no task and starts no child.                          *)
LEMMA StillStep ==
  ASSUME IInv, TypeOK',
         UNCHANGED <<settings, pc, holder>>,
         \A k \in Job : ran'[k] = ran[k],
         \A k \in Job : child'[k] = "running" => child[k] = "running"
  PROVE  IInv'
  BY DEF IInv, SettingsInv, ChildInv, GuardInv, CommandInv, settings

-----------------------------------------------------------------------------
(* One lemma per action.                                                   *)

LEMMA BeginStep ==
  ASSUME IInv, NEW j \in Job, Begin(j) PROVE IInv'
  <1> DEFINE to == IF job[j].stage_fixed THEN "snapshot" ELSE "locking"
  <1>1. to \in PC /\ to \notin Guarded /\ pc[j] = "waiting"
    BY DEF PC, Guarded, Selecting, Begin
  <1>2. TypeOK'
    BY <1>1 DEF IInv, TypeOK, Begin, Goto, settings, procs, locks, tree
  <1>3. /\ Goto(j, to) /\ ran[j] < job[j].commands /\ child[j] # "running"
    BY <1>1 DEF Begin, IInv, CommandInv, ChildInv, Ahead, Selecting
  <1> HIDE DEF to
  <1>4. QED
    BY <1>1, <1>2, <1>3, MoveStep DEF Begin, procs, locks

LEMMA FailStep ==
  ASSUME IInv, NEW j \in Job, Fail(j) PROVE IInv'
  <1>1. /\ child' = [child EXCEPT ![j] = IF @ = "running" THEN "killed" ELSE @]
        /\ child \in [Job -> {"none", "running", "passed", "failed", "killed"}]
    BY DEF Fail, IInv, TypeOK
  <1>2. /\ child' \in [Job -> {"none", "running", "passed", "failed", "killed"}]
        /\ child'[j] # "running"
        /\ \A k \in Job \ {j} : child'[k] = child[k]
    BY <1>1
  <1>3. /\ UNCHANGED <<settings, ran, bad, before, newly, seen, orphans>>
        /\ UNCHANGED <<index_lock, dirty, stat, cancel, dropped>>
        /\ End(j, "error")
    BY DEF Fail, tree
  <1>4. /\ index_lock' \in [Run -> Job \cup {Free}]
        /\ bad' \in [Job -> BOOLEAN] /\ newly' \in [Job -> SUBSET Job]
        /\ orphans' \in [Job -> SUBSET {"piping", "loose"}]
        /\ dirty' \in [Run -> SUBSET Job] /\ stat' \in [Run -> BOOLEAN]
    BY <1>3 DEF IInv, TypeOK
  <1>5. QED
    BY <1>2, <1>3, <1>4, EndStep

LEMMA RefreshIndexStep ==
  ASSUME IInv, NEW j \in Job, RefreshIndex(j) PROVE IInv'
  <1> DEFINE r == job[j].run
  <1>a. index_lock' = [index_lock EXCEPT ![r] = j]
    BY DEF RefreshIndex
  <1> HIDE DEF r
  <1>b. index_lock \in [Run -> Job \cup {Free}]
    BY DEF IInv, TypeOK
  <1>c. index_lock' \in [Run -> Job \cup {Free}]
    BY <1>a, <1>b
  <1>1. TypeOK'
    BY <1>c DEF IInv, TypeOK, RefreshIndex, settings, task, procs, tree
  <1>2. QED
    BY <1>1, StillStep DEF RefreshIndex, task, procs

(* A git diff that is over keeps the index and its lock in their types.    *)
LEMMA EndRefreshType ==
  ASSUME IInv, NEW j \in Job, EndRefresh(j)
  PROVE  /\ index_lock' \in [Run -> Job \cup {Free}]
         /\ stat' \in [Run -> BOOLEAN]
  <1> DEFINE r == job[j].run
  <1>1. /\ index_lock \in [Run -> Job \cup {Free}]
        /\ stat \in [Run -> BOOLEAN]
    BY DEF IInv, TypeOK
  <1>2. \/ /\ index_lock' = [index_lock EXCEPT ![r] = Free]
           /\ stat' = [stat EXCEPT ![r] = FALSE]
        \/ UNCHANGED <<index_lock, stat>>
    BY DEF EndRefresh
  <1> HIDE DEF r
  <1>3. QED
    BY <1>1, <1>2

LEMMA SnapshotStep ==
  ASSUME IInv, NEW j \in Job, Snapshot(j) PROVE IInv'
  <1> DEFINE files == dirty[job[j].run]
  <1>a. files \in SUBSET Job
    BY JobFacts DEF IInv, TypeOK
  <1>b. before' = [before EXCEPT ![j] = files] /\ EndRefresh(j)
    BY DEF Snapshot
  <1> HIDE DEF files
  <1>c. before \in [Job -> SUBSET Job]
    BY DEF IInv, TypeOK
  <1>d. before' \in [Job -> SUBSET Job]
    BY <1>a, <1>b, <1>c
  <1>e. pc' \in [Job -> PC]
    BY DEF IInv, TypeOK, Snapshot, Goto, PC
  <1>1. TypeOK'
    BY <1>b, <1>d, <1>e, EndRefreshType DEF IInv, TypeOK, Snapshot, settings,
       procs
  <1>2. ran[j] < job[j].commands /\ child[j] # "running"
    BY DEF Snapshot, IInv, CommandInv, ChildInv, Ahead, Selecting
  <1>3. QED
    BY <1>1, <1>2, MoveStep DEF Snapshot, procs, PC, Guarded, Selecting

(* The one action that takes a guard: nobody else has it.                  *)
LEMMA LockStep ==
  ASSUME IInv, NEW j \in Job, Lock(j) PROVE IInv'
  <1>a. holder \in [Key -> Job \cup {Free}]
    BY DEF IInv, TypeOK
  <1>b. holder' \in [Key -> Job \cup {Free}]
    BY <1>a DEF Lock
  <1>c. pc' \in [Job -> PC]
    BY DEF IInv, TypeOK, Lock, Goto, PC
  <1>1. TypeOK'
    BY <1>b, <1>c DEF IInv, TypeOK, Lock, settings, procs, tree
  <1>2. SettingsInv'
    BY DEF IInv, SettingsInv, Lock, settings
  <1>3. ChildInv'
    BY DEF IInv, TypeOK, ChildInv, Lock, Goto, procs, Selecting
  <1>4. GuardInv'
    <2> SUFFICES ASSUME NEW k \in Job, pc'[k] \in Guarded,
                        job[k].key # Unlocked
                 PROVE  holder'[job[k].key] = k
      BY DEF GuardInv, Lock, settings
    <2>1. job[k].key \in Key /\ holder \in [Key -> Job \cup {Free}]
      BY JobFacts DEF IInv, TypeOK
    <2>2. CASE k = j
      BY <2>1, <2>2 DEF Lock
    <2>3. CASE k # j
      <3>1. pc[k] \in Guarded
        BY <2>3 DEF Lock, Goto, IInv, TypeOK
      <3>2. holder[job[k].key] = k /\ k # Free
        BY <3>1, FreeAssumption DEF IInv, GuardInv
      <3>3. QED
        BY <2>1, <3>2 DEF Lock
    <2>4. QED
      BY <2>2, <2>3
  <1>5. CommandInv'
    BY DEF IInv, TypeOK, CommandInv, Ahead, Lock, Goto, settings
  <1>6. QED
    BY <1>1, <1>2, <1>3, <1>4, <1>5 DEF IInv

LEMMA SpawnStep ==
  ASSUME IInv, NEW j \in Job, Spawn(j) PROVE IInv'
  <1>1. ran[j] < job[j].commands /\ ran[j] \in Nat /\ job[j].commands \in Nat
    BY JobFacts DEF Spawn, IInv, CommandInv, TypeOK, Ahead
  <1>2. ran' = [ran EXCEPT ![j] = ran[j] + 1] /\ ran[j] + 1 <= job[j].commands
    BY <1>1 DEF Spawn
  <1>3. TypeOK'
    BY <1>1, <1>2 DEF IInv, TypeOK, Spawn, Goto, PC, Selecting, settings, locks,
                      tree
  <1>4. QED
    BY <1>3 DEF IInv, TypeOK, SettingsInv, ChildInv, GuardInv, CommandInv,
                Spawn, Goto, Guarded, Selecting, Ahead, settings, locks

LEMMA TouchStep ==
  ASSUME IInv, NEW j \in Job, Touch(j) PROVE IInv'
  <1>1. dirty' \in [Run -> SUBSET Job] /\ stat' \in [Run -> BOOLEAN]
    <2> DEFINE r == job[j].run
    <2>1. dirty \in [Run -> SUBSET Job] /\ stat \in [Run -> BOOLEAN]
      BY DEF IInv, TypeOK
    <2>2. \/ dirty' = [dirty EXCEPT ![r] = @ \cup {j}] /\ stat' = stat
          \/ stat' = [stat EXCEPT ![r] = TRUE] /\ dirty' = dirty
      BY DEF Touch
    <2> HIDE DEF r
    <2>3. QED
      BY <2>1, <2>2
  <1>2. TypeOK'
    BY <1>1 DEF IInv, TypeOK, Touch, settings, task, procs, locks
  <1>3. QED
    BY <1>2, StillStep DEF Touch, task, procs, locks

LEMMA ChildExitsStep ==
  ASSUME IInv, NEW j \in Job, ChildExits(j) PROVE IInv'
  <1> PICK how \in {"passed", "failed"}, left \in {{}, {"piping"}, {"loose"}} :
        /\ child' = [child EXCEPT ![j] = how]
        /\ orphans' = [orphans EXCEPT ![j] = @ \cup left]
    BY DEF ChildExits
  <1>1. TypeOK'
    BY DEF IInv, TypeOK, ChildExits, settings, task, locks, tree
  <1>2. \A k \in Job : child'[k] = "running" => child[k] = "running"
    BY DEF IInv, TypeOK
  <1>3. QED
    BY <1>1, <1>2, StillStep DEF ChildExits, task, locks

LEMMA OrphanDiesStep ==
  ASSUME IInv, NEW j \in Job, OrphanDies(j) PROVE IInv'
  <1>1. TypeOK'
    BY DEF IInv, TypeOK, OrphanDies, settings, task, locks, tree
  <1>2. QED
    BY <1>1, StillStep DEF OrphanDies, task, locks

(* What follows a command that is over, by itself or by a kill.            *)
LEMMA AfterCommandStep ==
  ASSUME IInv, NEW j \in Job, NEW failing \in BOOLEAN,
         pc[j] \in Guarded, AfterCommand(j, failing),
         child' \in [Job -> {"none", "running", "passed", "failed", "killed"}],
         orphans' \in [Job -> SUBSET {"piping", "loose"}],
         child'[j] # "running",
         \A k \in Job \ {j} : child'[k] = child[k]
  PROVE  IInv'
  <1>1. bad' \in [Job -> BOOLEAN]
    BY DEF IInv, TypeOK, AfterCommand
  <1>2. CASE MoreCommands(j, failing)
    <2>1. Goto(j, "spawning") /\ UNCHANGED <<result, holder, git_lock>>
      BY <1>2 DEF AfterCommand
    <2>2. TypeOK'
      BY <1>1, <2>1 DEF IInv, TypeOK, AfterCommand, Goto, PC, settings, tree
    <2>3. ran[j] < job[j].commands /\ "spawning" \in PC
      BY <1>2 DEF MoreCommands, PC
    <2>4. QED
      BY <2>1, <2>2, <2>3, MoveStep DEF AfterCommand
  <1>3. CASE ~MoreCommands(j, failing) /\ job[j].stage_fixed
    <2>1. Goto(j, "diff") /\ UNCHANGED <<result, holder, git_lock>>
      BY <1>3 DEF AfterCommand
    <2>2. TypeOK'
      BY <1>1, <2>1 DEF IInv, TypeOK, AfterCommand, Goto, PC, settings, tree
    <2>3. "diff" \in PC /\ "diff" \notin Ahead
      BY DEF PC, Ahead
    <2>4. QED
      BY <2>1, <2>2, <2>3, MoveStep DEF AfterCommand
  <1>4. CASE ~MoreCommands(j, failing) /\ ~job[j].stage_fixed
    <2>1. PICK how \in {"ok", "failed", "error", "aborted"} : End(j, how)
      BY <1>4 DEF AfterCommand
    <2>2. /\ newly' \in [Job -> SUBSET Job]
          /\ index_lock' \in [Run -> Job \cup {Free}]
          /\ dirty' \in [Run -> SUBSET Job] /\ stat' \in [Run -> BOOLEAN]
      BY DEF IInv, TypeOK, AfterCommand, tree
    <2>3. UNCHANGED settings /\ UNCHANGED <<ran, before, seen, cancel, dropped>>
      BY DEF AfterCommand
    <2>4. QED
      BY <1>1, <2>1, <2>2, <2>3, EndStep
  <1>5. QED
    BY <1>2, <1>3, <1>4

(* After a kill nothing of the task runs, and nobody else's is touched.    *)
LEMMA KillFacts ==
  ASSUME IInv, NEW j \in Job, Kill(j)
  PROVE  /\ child' \in [Job -> {"none", "running", "passed", "failed", "killed"}]
         /\ orphans' \in [Job -> SUBSET {"piping", "loose"}]
         /\ child'[j] # "running"
         /\ \A k \in Job \ {j} : child'[k] = child[k]
  BY DEF Kill, IInv, TypeOK

LEMMA CancelledStep ==
  ASSUME IInv, NEW j \in Job, pc[j] \in Guarded, Cancelled(j) PROVE IInv'
  BY KillFacts, AfterCommandStep DEF Cancelled

LEMMA SelectMoves ==
  ASSUME IInv, NEW j \in Job, NEW from \in Selecting, NEW to \in Selecting,
         SelectStep(j, from, to)
  PROVE  IInv'
  <1>1. to \in PC /\ to \notin Ahead /\ pc[j] \in Guarded
    BY DEF PC, Ahead, Selecting, Guarded, SelectStep
  <1>2. TypeOK'
    BY <1>1 DEF IInv, TypeOK, SelectStep, Goto, settings, procs, locks, tree
  <1>3. QED
    BY <1>1, <1>2, MoveStep DEF SelectStep, procs, locks

LEMMA CheckStep ==
  ASSUME IInv, NEW j \in Job, Check(j) PROVE IInv'
  BY SelectMoves, CancelledStep DEF Check, Selecting, Guarded

LEMMA CreateNotifiedStep ==
  ASSUME IInv, NEW j \in Job, CreateNotified(j) PROVE IInv'
  <1>1. TypeOK'
    BY JobFacts DEF IInv, TypeOK, CreateNotified, Goto, PC, Selecting, settings,
                    procs, locks, tree
  <1>2. QED
    BY <1>1, MoveStep
       DEF CreateNotified, PC, Selecting, Guarded, Ahead, procs, locks

LEMMA RecheckStep ==
  ASSUME IInv, NEW j \in Job, Recheck(j) PROVE IInv'
  BY SelectMoves, CancelledStep DEF Recheck, Selecting, Guarded

LEMMA WokenStep ==
  ASSUME IInv, NEW j \in Job, Woken(j) PROVE IInv'
  BY CancelledStep DEF Woken, Selecting, Guarded

LEMMA TimedOutStep ==
  ASSUME IInv, NEW j \in Job, TimedOut(j) PROVE IInv'
  BY KillFacts, AfterCommandStep DEF TimedOut, Selecting, Guarded

LEMMA FinishedStep ==
  ASSUME IInv, NEW j \in Job, Finished(j) PROVE IInv'
  <1>1. TypeOK'
    BY DEF IInv, TypeOK, Finished, Goto, PC, settings, procs, locks, tree
  <1>2. QED
    BY <1>1, MoveStep DEF Finished, PC, Selecting, Guarded, Ahead, procs, locks

LEMMA DrainStep ==
  ASSUME IInv, NEW j \in Job, Drain(j) PROVE IInv'
  <1>1. child[j] # "running"
    BY DEF Drain, IInv, ChildInv, Selecting
  <1>2. QED
    BY <1>1, AfterCommandStep DEF Drain, Guarded, procs, IInv, TypeOK

LEMMA DiffStep ==
  ASSUME IInv, NEW j \in Job, Diff(j) PROVE IInv'
  <1>1. /\ newly' \in [Job -> SUBSET Job]
        /\ index_lock' \in [Run -> Job \cup {Free}]
        /\ stat' \in [Run -> BOOLEAN]
    <2> DEFINE files == dirty[job[j].run] \ before[j]
    <2>1. files \in SUBSET Job
      BY JobFacts DEF IInv, TypeOK
    <2>2. newly' = [newly EXCEPT ![j] = files] /\ EndRefresh(j)
      BY DEF Diff
    <2> HIDE DEF files
    <2>3. newly \in [Job -> SUBSET Job]
      BY DEF IInv, TypeOK
    <2>4. newly' \in [Job -> SUBSET Job]
      BY <2>1, <2>2, <2>3
    <2>5. QED
      BY <2>2, <2>4, EndRefreshType
  <1>2. child[j] # "running"
    BY DEF Diff, IInv, ChildInv, Selecting
  <1>3. CASE newly'[j] = {}
    <2>1. PICK how \in {"ok", "failed", "error", "aborted"} : End(j, how)
      BY <1>3 DEF Diff, Ending
    <2>2. /\ bad' \in [Job -> BOOLEAN]
          /\ child' \in [Job -> {"none", "running", "passed", "failed", "killed"}]
          /\ orphans' \in [Job -> SUBSET {"piping", "loose"}]
          /\ dirty' \in [Run -> SUBSET Job]
      BY DEF IInv, TypeOK, Diff, procs
    <2>3. UNCHANGED settings /\ UNCHANGED <<ran, before, seen, cancel, dropped>>
      BY DEF Diff
    <2>4. QED
      BY <1>1, <1>2, <2>1, <2>2, <2>3, EndStep DEF Diff, procs
  <1>4. CASE newly'[j] # {}
    <2>1. Goto(j, "mutex") /\ UNCHANGED <<result, holder, git_lock>>
      BY <1>4 DEF Diff
    <2>2. TypeOK'
      BY <1>1, <2>1 DEF IInv, TypeOK, Diff, Goto, PC, settings, procs
    <2>3. QED
      BY <1>2, <2>1, <2>2, MoveStep
         DEF Diff, PC, Guarded, Selecting, Ahead, procs
  <1>5. QED
    BY <1>3, <1>4

LEMMA LockGitStep ==
  ASSUME IInv, NEW j \in Job, LockGit(j) PROVE IInv'
  <1>1. TypeOK'
    BY JobFacts DEF IInv, TypeOK, LockGit, Goto, PC, settings, procs, tree
  <1>2. child[j] # "running"
    BY DEF LockGit, IInv, ChildInv, Selecting
  <1>3. QED
    BY <1>1, <1>2, MoveStep DEF LockGit, PC, Guarded, Selecting, Ahead, procs

LEMMA AddStartsStep ==
  ASSUME IInv, NEW j \in Job, AddStarts(j) PROVE IInv'
  <1>1. TypeOK'
    BY JobFacts DEF IInv, TypeOK, AddStarts, settings, task, procs, tree
  <1>2. QED
    BY <1>1, StillStep DEF AddStarts, task, procs

LEMMA AddFailsStep ==
  ASSUME IInv, NEW j \in Job, AddFails(j) PROVE IInv'
  <1>1. child[j] # "running"
    BY DEF AddFails, IInv, ChildInv, Selecting
  <1>2. QED
    BY <1>1, EndStep DEF AddFails, procs, tree, IInv, TypeOK

(* Both a task and a git that outlived its task may end a git add.         *)
LEMMA StagedType ==
  ASSUME IInv, NEW j \in Job, Staged(j)
  PROVE  /\ index_lock' \in [Run -> Job \cup {Free}]
         /\ dirty' \in [Run -> SUBSET Job]
  BY JobFacts DEF Staged, IInv, TypeOK

LEMMA AddEndsStep ==
  ASSUME IInv, NEW j \in Job, AddEnds(j) PROVE IInv'
  <1>1. child[j] # "running"
    BY DEF AddEnds, IInv, ChildInv, Selecting
  <1>2. PICK how \in {"ok", "failed", "error", "aborted"} : End(j, how)
    BY DEF AddEnds, Ending
  <1>3. /\ bad' \in [Job -> BOOLEAN] /\ newly' \in [Job -> SUBSET Job]
        /\ child' \in [Job -> {"none", "running", "passed", "failed", "killed"}]
        /\ orphans' \in [Job -> SUBSET {"piping", "loose"}]
        /\ stat' \in [Run -> BOOLEAN]
    BY DEF IInv, TypeOK, AddEnds, procs
  <1>4. QED
    BY <1>1, <1>2, <1>3, StagedType, EndStep DEF AddEnds, procs

LEMMA AbortStep ==
  ASSUME IInv, NEW j \in Job, Abort(j) PROVE IInv'
  <1>1. /\ UNCHANGED <<settings, ran, bad, before, newly, seen>>
        /\ UNCHANGED <<index_lock, dirty, stat, cancel, dropped>>
        /\ Kill(j) /\ End(j, "aborted")
    BY DEF Abort, tree
  <1>2. /\ index_lock' \in [Run -> Job \cup {Free}]
        /\ bad' \in [Job -> BOOLEAN] /\ newly' \in [Job -> SUBSET Job]
        /\ dirty' \in [Run -> SUBSET Job] /\ stat' \in [Run -> BOOLEAN]
    BY <1>1 DEF IInv, TypeOK
  <1>3. QED
    BY <1>1, <1>2, KillFacts, EndStep

LEMMA DetachedGitEndsStep ==
  ASSUME IInv, NEW j \in Job, DetachedGitEnds(j) PROVE IInv'
  <1>1. TypeOK'
    <2>1. /\ UNCHANGED <<settings, task, procs, holder, git_lock, stat>>
          /\ UNCHANGED <<cancel, dropped>> /\ Staged(j)
      BY DEF DetachedGitEnds
    <2>2. /\ index_lock' \in [Run -> Job \cup {Free}]
          /\ dirty' \in [Run -> SUBSET Job]
      BY <2>1, StagedType
    <2>3. QED
      BY <2>1, <2>2 DEF IInv, TypeOK, settings, task, procs
  <1>2. QED
    BY <1>1, StillStep DEF DetachedGitEnds, task, procs

LEMMA RunLevelStep ==
  ASSUME IInv, NEW r \in Run, StoreCancel(r) \/ Notify(r) \/ DropSet(r)
  PROVE  IInv'
  <1>a. /\ cancel' \in [Run -> {"no", "stored", "notified"}]
        /\ dropped' \in [Run -> BOOLEAN]
    BY DEF IInv, TypeOK, StoreCancel, Notify, DropSet
  <1>b. UNCHANGED <<settings, task, procs, locks, tree>>
    BY DEF StoreCancel, Notify, DropSet
  <1>1. TypeOK'
    BY <1>a, <1>b DEF IInv, TypeOK, settings, task, procs, locks, tree
  <1>2. QED
    BY <1>1, StillStep DEF StoreCancel, Notify, DropSet, task, procs, locks

LEMMA NextIInv == IInv /\ [Next]_vars => IInv'
  <1> SUFFICES ASSUME IInv, [Next]_vars PROVE IInv'
    OBVIOUS
  <1>1. ASSUME NEW j \in Job, Step(j) PROVE IInv'
    BY <1>1, SnapshotStep, LockStep, SpawnStep, CheckStep, CreateNotifiedStep,
       RecheckStep, WokenStep, TimedOutStep, FinishedStep, DrainStep, DiffStep,
       LockGitStep, AddStartsStep, AddFailsStep, AddEndsStep, AbortStep,
       DetachedGitEndsStep
       DEF Step
  <1>2. CASE UNCHANGED vars
    <2>1. TypeOK'
      BY <1>2 DEF vars, IInv, TypeOK, settings, task, procs, locks, tree
    <2>2. QED
      BY <1>2, <2>1, StillStep DEF vars, task, procs, locks
  <1>3. QED
    BY <1>1, <1>2, BeginStep, FailStep, RefreshIndexStep, TouchStep,
       ChildExitsStep, OrphanDiesStep, RunLevelStep
       DEF Next

(* The invariant holds in every state of every behaviour.                  *)
THEOREM Invariance == Spec => []IInv
  BY InitIInv, NextIInv, PTL DEF Spec

-----------------------------------------------------------------------------
(* Every variable keeps its type; in particular no job starts more         *)
(* commands than it has (executor.rs 558-575).                             *)
THEOREM TypeCorrect == Spec => []TypeOK
  <1>1. IInv => TypeOK
    BY DEF IInv
  <1>2. QED
    BY <1>1, Invariance, PTL

(* However tasks are cancelled, timed out, failed or aborted, and in       *)
(* however many runs, two commands never run under one isolation key.      *)
THEOREM Isolation == Spec => []IsolationHolds
  <1>1. IInv => IsolationHolds
    <2> SUFFICES ASSUME IInv, NEW j \in Job, NEW k \in Job,
                        job[j].key = job[k].key, job[j].key # Unlocked,
                        child[j] = "running", child[k] = "running"
                 PROVE  j = k
      BY DEF IsolationHolds
    <2>1. pc[j] \in Guarded /\ pc[k] \in Guarded
      BY DEF IInv, ChildInv, Guarded
    <2>2. QED
      BY <2>1 DEF IInv, GuardInv
  <1>2. QED
    BY <1>1, Invariance, PTL

-----------------------------------------------------------------------------
(* Fixes.  Until its git add a file that a job has rewritten is among      *)
(* those to add; only what sh leaves behind may rewrite it later, and that *)
(* was seen to by then.                                                    *)
Pipes == Selecting \cup {"drain"}

FixInv(j) ==
  /\ result[j] # "none" => pc[j] = "over"
  /\ "piping" \in orphans[j] => pc[j] \in Pipes \/ result[j] \in {"error", "aborted"}
  /\ /\ job[j].stage_fixed /\ j \notin before[j] /\ orphans[j] = {}
     /\ j \in dirty[job[j].run]
     => /\ pc[j] \in {"mutex", "adding"} => j \in newly[j]
        /\ result[j] \notin {"ok", "failed"}

(* What a step of one task does not do to another.                         *)
SameFix(j) ==
  /\ job' = job /\ pc'[j] = pc[j] /\ result'[j] = result[j]
  /\ orphans'[j] = orphans[j] /\ before'[j] = before[j] /\ newly'[j] = newly[j]
  /\ j \in dirty'[job[j].run] => j \in dirty[job[j].run]

LEMMA SameKeepsFix ==
  ASSUME NEW j \in Job, FixInv(j), SameFix(j)
  PROVE  FixInv(j)'
  BY DEF FixInv, SameFix

LEMMA OthersFix ==
  ASSUME IInv, NEW j \in Job, NEW k \in Job \ {j},
         \/ Step(j) \/ Begin(j) \/ Fail(j) \/ RefreshIndex(j)
         \/ Touch(j) \/ ChildExits(j) \/ OrphanDies(j)
  PROVE  SameFix(k)
  <1>0. /\ pc \in [Job -> PC] /\ DOMAIN result = Job /\ DOMAIN orphans = Job
        /\ DOMAIN before = Job /\ DOMAIN newly = Job /\ DOMAIN dirty = Run
        /\ job[j].run \in Run /\ job[k].run \in Run
    BY JobFacts DEF IInv, TypeOK
  <1>a. ASSUME NEW how, End(j, how)
        PROVE  pc'[k] = pc[k] /\ result'[k] = result[k]
    BY <1>0, <1>a DEF End, Goto
  <1>b. ASSUME NEW to, Goto(j, to)
        PROVE  pc'[k] = pc[k]
    BY <1>0, <1>b DEF Goto
  <1>c. ASSUME Kill(j)
        PROVE  orphans'[k] = orphans[k]
    BY <1>0, <1>c DEF Kill
  <1>d. ASSUME NEW f \in BOOLEAN, AfterCommand(j, f)
        PROVE  /\ pc'[k] = pc[k] /\ result'[k] = result[k] /\ job' = job
               /\ before' = before /\ newly' = newly /\ dirty' = dirty
    BY <1>a, <1>b, <1>d DEF AfterCommand, settings, tree
  <1>e. ASSUME NEW from, NEW to, SelectStep(j, from, to)
        PROVE  SameFix(k)
    BY <1>b, <1>e DEF SelectStep, SameFix, settings, procs, tree
  <1>f. ASSUME Cancelled(j)
        PROVE  SameFix(k)
    BY <1>c, <1>d, <1>f DEF Cancelled, SameFix
  <1>g. ASSUME Staged(j)
        PROVE  k \in dirty'[job[k].run] => k \in dirty[job[k].run]
    BY <1>0, <1>g DEF Staged
  <1>1. CASE Snapshot(j)
    BY <1>0, <1>1, <1>b DEF Snapshot, SameFix, settings, procs
  <1>2. CASE Lock(j) \/ Spawn(j) \/ CreateNotified(j) \/ Finished(j) \/ Begin(j)
    BY <1>2, <1>b
       DEF Lock, Spawn, CreateNotified, Finished, Begin, SameFix, settings, procs, tree
  <1>3. CASE Check(j) \/ Recheck(j) \/ Woken(j)
    BY <1>3, <1>e, <1>f DEF Check, Recheck, Woken
  <1>4. CASE TimedOut(j)
    BY <1>4, <1>c, <1>d DEF TimedOut, SameFix
  <1>5. CASE Drain(j)
    BY <1>5, <1>d DEF Drain, SameFix, procs
  <1>6. CASE Diff(j)
    BY <1>0, <1>6, <1>a, <1>b DEF Diff, SameFix, settings, procs
  <1>7. CASE LockGit(j) \/ AddStarts(j) \/ RefreshIndex(j)
    BY <1>7, <1>b DEF LockGit, AddStarts, RefreshIndex, SameFix, settings, task, procs, tree
  <1>8. CASE AddFails(j) \/ Fail(j)
    BY <1>8, <1>a DEF AddFails, Fail, SameFix, settings, procs, tree
  <1>9. CASE AddEnds(j)
    BY <1>9, <1>a, <1>g DEF AddEnds, SameFix, settings, procs
  <1>10. CASE Abort(j)
    BY <1>10, <1>a, <1>c DEF Abort, SameFix, settings, tree
  <1>11. CASE DetachedGitEnds(j)
    BY <1>11, <1>g DEF DetachedGitEnds, SameFix, settings, task, procs
  <1>12. CASE Touch(j)
    BY <1>0, <1>12 DEF Touch, SameFix, settings, task, procs
  <1>13. CASE ChildExits(j) \/ OrphanDies(j)
    BY <1>0, <1>13 DEF ChildExits, OrphanDies, SameFix, settings, task, tree
  <1> QED
    BY <1>1, <1>2, <1>3, <1>4, <1>5, <1>6, <1>7, <1>8, <1>9, <1>10, <1>11,
       <1>12, <1>13 DEF Step

(* A command that ends leaves nobody with the pipes.                       *)
LEMMA AfterCommandFix ==
  ASSUME IInv, NEW j \in Job, FixInv(j), NEW f \in BOOLEAN, AfterCommand(j, f),
         pc[j] \in Pipes,
         orphans' \in [Job -> SUBSET {"piping", "loose"}],
         "piping" \notin orphans'[j]
  PROVE  FixInv(j)'
  <1>0. /\ pc \in [Job -> PC] /\ DOMAIN result = Job /\ job' = job
        /\ result[j] = "none"
    BY DEF IInv, TypeOK, AfterCommand, settings, FixInv, Pipes, Selecting
  <1>1. CASE MoreCommands(j, f)
    <2>1. pc'[j] = "spawning" /\ result'[j] = result[j]
      BY <1>0, <1>1 DEF AfterCommand, Goto
    <2> QED BY <1>0, <2>1 DEF FixInv
  <1>2. CASE ~MoreCommands(j, f) /\ job[j].stage_fixed
    <2>1. pc'[j] = "diff" /\ result'[j] = result[j]
      BY <1>0, <1>2 DEF AfterCommand, Goto
    <2> QED BY <1>0, <2>1 DEF FixInv
  <1>3. CASE ~MoreCommands(j, f) /\ ~job[j].stage_fixed
    <2>1. pc'[j] = "over"
      BY <1>0, <1>3 DEF AfterCommand, End, Goto
    <2> QED BY <1>0, <1>3, <2>1 DEF FixInv
  <1> QED BY <1>1, <1>2, <1>3

LEMMA KillPipes ==
  ASSUME IInv, NEW j \in Job, Kill(j)
  PROVE  /\ orphans' \in [Job -> SUBSET {"piping", "loose"}]
         /\ "piping" \notin orphans'[j]
  BY DEF IInv, TypeOK, Kill

LEMMA OwnFix ==
  ASSUME IInv, NEW j \in Job, FixInv(j),
         \/ Step(j) \/ Begin(j) \/ Fail(j) \/ RefreshIndex(j)
         \/ Touch(j) \/ ChildExits(j) \/ OrphanDies(j)
  PROVE  FixInv(j)'
  <1>0. /\ pc \in [Job -> PC] /\ DOMAIN result = Job
        /\ orphans \in [Job -> SUBSET {"piping", "loose"}]
        /\ DOMAIN before = Job /\ DOMAIN newly = Job /\ DOMAIN dirty = Run
        /\ job[j].run \in Run
        /\ child[j] = "running" => pc[j] \in Selecting
    BY JobFacts DEF IInv, TypeOK, ChildInv
  <1>a. ASSUME NEW how, End(j, how)
        PROVE  pc'[j] = "over" /\ result'[j] = how
    BY <1>0, <1>a DEF End, Goto
  <1>b. ASSUME NEW to, Goto(j, to)
        PROVE  pc'[j] = to
    BY <1>0, <1>b DEF Goto
  <1>c. ASSUME NEW f \in BOOLEAN, Kill(j), AfterCommand(j, f), pc[j] \in Pipes
        PROVE  FixInv(j)'
    BY <1>c, KillPipes, AfterCommandFix
  <1>d. ASSUME NEW from \in Selecting, NEW to \in Selecting, SelectStep(j, from, to)
        PROVE  FixInv(j)'
    BY <1>b, <1>d DEF SelectStep, FixInv, Pipes, Selecting, settings, procs, tree
  <1>1. CASE Snapshot(j)
    <2>1. pc[j] = "snapshot" /\ pc'[j] = "locking" /\ result' = result /\ orphans' = orphans
      BY <1>1, <1>b DEF Snapshot, procs
    <2> QED BY <2>1 DEF FixInv, Pipes, Selecting
  <1>2. CASE Lock(j) \/ Spawn(j) \/ CreateNotified(j) \/ Finished(j) \/ Begin(j)
    <2>1. /\ pc[j] \in {"locking", "spawning", "create", "await", "waiting"}
          /\ pc'[j] \in {"snapshot", "locking", "spawning", "check", "recheck", "drain"}
          /\ pc[j] \in Pipes => pc'[j] \in Pipes
          /\ result' = result /\ orphans' = orphans
      BY <1>2, <1>b DEF Lock, Spawn, CreateNotified, Finished, Begin, procs, Pipes, Selecting
    <2> QED BY <2>1 DEF FixInv
  <1>3. CASE Check(j) \/ Recheck(j) \/ Woken(j)
    BY <1>3, <1>c, <1>d DEF Check, Recheck, Woken, Cancelled, Pipes, Selecting
  <1>4. CASE TimedOut(j)
    BY <1>4, <1>c DEF TimedOut, Pipes, Selecting
  <1>5. CASE Drain(j)
    BY <1>0, <1>5, AfterCommandFix DEF Drain, procs, Pipes
  <1>6. CASE Diff(j)
    <2>1. /\ pc[j] = "diff" /\ dirty' = dirty /\ before' = before /\ orphans' = orphans
          /\ job' = job /\ newly'[j] = dirty[job[j].run] \ before[j]
      BY <1>0, <1>6 DEF Diff, settings, procs
    <2>2. CASE newly'[j] = {}
      <3>1. pc'[j] = "over"
        BY <1>6, <1>a, <2>2 DEF Diff
      <3> QED BY <2>1, <2>2, <3>1 DEF FixInv, Pipes, Selecting
    <2>3. CASE newly'[j] # {}
      <3>1. pc'[j] = "mutex" /\ result' = result
        BY <1>6, <1>b, <2>3 DEF Diff
      <3> QED BY <2>1, <3>1 DEF FixInv, Pipes, Selecting
    <2> QED BY <2>2, <2>3
  <1>7. CASE LockGit(j)
    <2>1. /\ pc[j] = "mutex" /\ pc'[j] = "adding" /\ result' = result /\ job' = job
          /\ orphans' = orphans /\ dirty' = dirty /\ newly' = newly /\ before' = before
      BY <1>7, <1>b DEF LockGit, settings, procs, tree
    <2> QED BY <2>1 DEF FixInv, Pipes, Selecting
  <1>8. CASE AddStarts(j) \/ RefreshIndex(j)
    BY <1>8, SameKeepsFix DEF AddStarts, RefreshIndex, SameFix, settings, task, procs, tree
  <1>9. CASE AddFails(j) \/ Fail(j)
    <2>1. pc'[j] = "over" /\ result'[j] = "error"
      BY <1>9, <1>a DEF AddFails, Fail
    <2> QED BY <2>1 DEF FixInv
  <1>10. CASE AddEnds(j)
    <2>1. /\ pc[j] = "adding" /\ pc'[j] = "over" /\ orphans' = orphans /\ job' = job
          /\ before' = before /\ dirty'[job[j].run] = dirty[job[j].run] \ newly[j]
      BY <1>0, <1>10, <1>a DEF AddEnds, Staged, settings, procs
    <2> QED BY <2>1 DEF FixInv, Pipes, Selecting
  <1>11. CASE Abort(j)
    <2>1. pc'[j] = "over" /\ result'[j] = "aborted"
      BY <1>11, <1>a DEF Abort
    <2> QED BY <2>1 DEF FixInv
  <1>12. CASE DetachedGitEnds(j)
    <2>1. dirty'[job[j].run] \subseteq dirty[job[j].run]
      BY <1>0, <1>12 DEF DetachedGitEnds, Staged
    <2> QED BY <1>12, <2>1, SameKeepsFix DEF DetachedGitEnds, SameFix, settings, task, procs
  <1>13. CASE Touch(j)
    <2>1. UNCHANGED <<settings, task, procs>>
      BY <1>13 DEF Touch
    <2>2. CASE child[j] = "running"
      BY <1>0, <2>1, <2>2 DEF FixInv, Pipes, Selecting, settings, task, procs
    <2>3. CASE orphans[j] # {}
      BY <2>1, <2>3 DEF FixInv, settings, task, procs
    <2> QED BY <1>13, <2>2, <2>3 DEF Touch
  <1>14. CASE ChildExits(j)
    <2>1. pc[j] \in Selecting /\ pc' = pc /\ result' = result
      BY <1>0, <1>14 DEF ChildExits, task
    <2> QED BY <2>1 DEF FixInv, Pipes, Selecting
  <1>15. CASE OrphanDies(j)
    <2>1. /\ "piping" \in orphans[j] /\ "piping" \notin orphans'[j]
          /\ pc' = pc /\ result' = result
      BY <1>0, <1>15 DEF OrphanDies, task
    <2> QED BY <2>1 DEF FixInv, Pipes, Selecting
  <1> QED
    BY <1>1, <1>2, <1>3, <1>4, <1>5, <1>6, <1>7, <1>8, <1>9, <1>10, <1>11,
       <1>12, <1>13, <1>14, <1>15 DEF Step

(* What a stage_fixed job rewrote is staged when its task has ended, also  *)
(* if a command failed (executor.rs 532-545, stage.rs 101-102).            *)
THEOREM FixesGetStaged == Spec => []FixesAreStaged
  <1> DEFINE Fixes == \A j \in Job : FixInv(j)
  <1>1. Init => Fixes
    BY DEF Init, FixInv
  <1>2. ASSUME IInv, Fixes, [Next]_vars PROVE Fixes'
    <2>1. ASSUME NEW j \in Job,
                 \/ Step(j) \/ Begin(j) \/ Fail(j) \/ RefreshIndex(j)
                 \/ Touch(j) \/ ChildExits(j) \/ OrphanDies(j)
          PROVE  Fixes'
      <3> SUFFICES ASSUME NEW k \in Job PROVE FixInv(k)'
        OBVIOUS
      <3>1. CASE k = j
        BY <1>2, <2>1, <3>1, OwnFix
      <3>2. CASE k # j
        BY <1>2, <2>1, <3>2, OthersFix, SameKeepsFix
      <3> QED BY <3>1, <3>2
    <2>2. CASE \/ \E r \in Run : StoreCancel(r) \/ Notify(r) \/ DropSet(r)
               \/ UNCHANGED vars
      <3>1. \A k \in Job : SameFix(k)
        BY <2>2 DEF StoreCancel, Notify, DropSet, vars, SameFix, settings, task, procs, tree
      <3> QED BY <1>2, <3>1, SameKeepsFix
    <2> QED BY <1>2, <2>1, <2>2 DEF Next
  <1>3. Fixes => FixesAreStaged
    BY DEF FixInv, FixesAreStaged
  <1> QED BY <1>1, <1>2, <1>3, Invariance, PTL DEF Spec
=============================================================================
