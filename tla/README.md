# betterhook in TLA+

betterhook is a git hooks manager.  A hook run loads a configuration, pushes the
user's uncommitted work onto the git stash, runs the hook's jobs in parallel
under a graph of conflicts, re-stages what formatters changed, pops the stash
and reports.  Around it there are lock files that keep tools of several
worktrees apart, a daemon that hands out locks, a cache of job results, and an
installer.  This directory holds TLA+ models of those parts, the TLC
configurations that check them and the theorems TLAPS proves.  All paths below
are relative to the repository; `src/apps/betterhook/src` is shortened to `bh`.

## 1. Inventory

### 1.1 Components

| component | source | state it keeps | operations |
|---|---|---|---|
| capability DAG | `bh/runner/dag.rs` | none: a function of the jobs | `build_dag`, `pair_conflicts`, `globsets_overlap`, `order` |
| parallel scheduler | `bh/runner/executor.rs` 307-493 | parent counters, `started`, ready heap, `JoinSet`, `Cancel`, counters of the report | pop, skip, replay from the cache, spawn, join, release children, fail_fast drain |
| sequential runner | `bh/runner/executor.rs` 232-300 | position in the job list | run, skip, stop under fail_fast |
| hook run | `bh/runner/executor.rs` 96-195 | flock guard, `StashGuard`, results of jobs and of the restore | lock, push, resolve plans, run, pop, report |
| stash | `bh/git/stash.rs` | the repository's stash list (shared by worktrees) | `push`, `find_stash_index`, `pop` |
| staging | `bh/runner/stage.rs` | snapshot of unstaged files, git index mutex | snapshot, `git add` of the newly unstaged |
| job execution | `bh/runner/executor.rs` 506-620, `bh/runner/proc.rs` | the child, its pipes, the `Cancel`'s waiters | lock, spawn, select over cancel, timeout and exit, kill, drain |
| isolation locks | `bh/lock/flock.rs`, `bh/lock/client.rs` | one lock file per key | blocking acquire, release on drop |
| lock daemon | `bh/daemon/server.rs`, `registry.rs`, `bh/lock/protocol.rs` | semaphores by key, `held` map per connection, count of connections, idle timer, socket file | accept, Acquire, Release, Hello, Ping, Status, disconnect, idle exit |
| result cache | `bh/cache/*` | one JSON file per key, memoised tool hashes | lookup, freshness, put, clear, stats, verify |
| configuration | `bh/config/*` | none: files in, a `Config` out; the stack and the `seen` set of one resolution | parse four formats, resolve `extends`, lay the local file over it, lower |
| importers | `bh/config/import/*` | none: another tool's files in, a `betterhook` file out | pick the source, convert hooks and commands |
| dispatch and packages | `bh/dispatch.rs`, `src/apps/cli/src/commands/{dispatch,run,fix}.rs` | none | find the hook, soft misses, package buckets and merge |
| plans | `bh/runner/plan.rs`, `bh/git/fileset.rs` | none | files of a job, templates, chunks, filters |
| install | `bh/install/*`, `bh/daemon/lifecycle.rs` | hooks directory, manifest, unit file, `core.hooksPath` | install, take over, uninstall |
| speculative runner | `bh/daemon/speculative.rs`, `watcher.rs` | debounce table, queue, statistics | event, debounce, enqueue, prewarm |
| output | `bh/runner/output.rs`, readers of `proc.rs`, the tee of `executor.rs` | two bounded channels, the capture | read pipes, tee, send, write, replay, summarise |
| builtins, diagnostics | `bh/builtins/*`, `bh/runner/diagnostics.rs` | none | parse a tool's output |
| status, doctor, explain | `bh/status.rs`, `src/apps/cli/src/commands/*` | none | read and print |
| development tools | `src/xtask`, `bh/fuzz_harnesses.rs`, benches | none | |

### 1.2 Who talks to whom

* git starts the hook wrapper; the wrapper starts `betterhook __dispatch`; that
  calls `run_hook_with_options`.  A run is a process of its own.  Runs of
  different worktrees meet in three places: the stash list (under the
  `repo-stash.lock` flock), the isolation lock files, the cache directory.
* Inside a run the scheduler is one async task.  Job tasks run beside it on the
  runtime's threads and talk to it by being joined; it talks to them by
  `Cancel`, an atomic flag and a `Notify`.
* Job tasks meet in the worktree, in `.git/index` (git takes
  `.git/index.lock`, betterhook an in-process mutex) and in the isolation locks.
* What a job says goes from its pipes through two reader tasks, for a parallel job
  through a local channel and a tee that keeps a copy for the cache, into the one
  bounded channel of the run, to the one writer.
* Installs and uninstalls of all worktrees write the same hook files and the same
  manifest, and lock nothing.
* Clients of the daemon talk to it by frames on a Unix socket; the end of the
  stream is a message too.  The hook runner itself is not a client: it uses lock
  files only.
* The user edits files, touches the stash, upgrades tools and clears the cache
  at any time.

### 1.3 What is hard here, and what makes each part correct

The complete list, with a line for each, is under `hazards` in `PROJECT.json`.
In short:

| part | hard behaviour | correct when |
|---|---|---|
| scheduler | counters kept on three paths (skip, replay, join); fail_fast drain; error return with tasks alive | conflicting jobs never overlap; slots never idle; everything is counted once; no failure is lost; it returns |
| hook run | every step may fail; a crash loses the guard but not the stash; worktrees share the stash; somebody else uses it | user work is never lost; a report means a restored tree; a left entry is reported; nothing the user did not stage gets staged |
| job execution | cancel against registration of the waiter; timeout against exit; descendants holding pipes; abort while git runs; blocking flock | a key is never shared; fixes are staged whichever way a command ended; no cancel is slept through; timed jobs end |
| lock daemon | timeout against grant; client gone between grant and reply; pipelined frames; idle timer against new connections | permits are conserved; no lost wakeup; exclusion; exit serves nobody; dead clients let go |
| cache | files change between hash, stat, run and store; concurrent runs, clear and upgrade | a hit answers for what a command really saw; a stored result is found again |
| install | files changed one after the other, killed in between; two processes on the same files, truncate before write; users who edit | equal installs do not race; uninstall keeps the manifest until all it lists is gone; what the user saved is spared |
| daemon socket | two daemons and one path | at most one is reachable; nobody removes another's socket |
| configuration | diamonds, repetitions and cycles of `extends`; overlay order; priority lists that stand in another file than the jobs; chunks at the argument limit; packages nested in packages | the last writer wins; only cycles and bad files fail; jobs run in their order with all their files |
| output | three channels in a row, each of which may be full; readers that outlive the command; capture against print | a transcript is a run of the job; the capture is what was printed; a report comes last; back pressure never blocks for ever |

## 2. The modules

| module | models | role |
|---|---|---|
| `JobDag` | `dag.rs` | pure operators used by `Scheduler` and `Dispatch` |
| `ConflictSchedule` | the comment on `run_parallel` | abstract specification: what the scheduler promises |
| `Scheduler` | `run_parallel` | detailed specification; implements `ConflictSchedule` |
| `SchedulerProofs` | | theorems about `Scheduler` |
| `GitStash` | git's `stash push` and `stash pop` (external) | pure operators used by `HookRun` |
| `HookRun` | `run_hook_with_options`, `stash.rs`, `stage.rs`, repo lock | several worktrees over one stash |
| `HookRunProofs` | | theorems about `HookRun` |
| `JobExec` | `execute_job_in_dag`, `run_sequential`, `proc.rs`, `stage.rs`, isolation locks | what is inside one job |
| `JobExecProofs` | | theorems about `JobExec` |
| `LockServer` | `server.rs`, `registry.rs` | the daemon and its clients |
| `LockServerProofs` | | theorems about `LockServer` |
| `JobCache` | `cache/*` and its use by the executor | lookup, run, store against a changing disk |
| `JobCacheProofs` | | theorems about `JobCache` |
| `Install` | `install/*`, `wrapper.rs`, `manifest.rs`, verdicts of `doctor` and `status` | processes and users over shared hook files |
| `InstallProofs` | | theorems about `Install` |
| `HookConfig` | `schema.rs`, `kdl.rs`, `parse.rs`, package part of `dispatch.rs` | pure operators: overlay, KDL, lowering, package merge |
| `ConfigImport` | `import/*` | pure operators: from lefthook, husky, hk, pre-commit |
| `JobPlan` | `plan.rs`, `fileset.rs` | pure operators: files, templates, chunks of a job |
| `Dispatch` | `extends.rs`, `dispatch.rs`, the commands | from the command line to the plans; uses the three above and `JobDag` |
| `DispatchProofs` | | theorems about `Dispatch` |
| `Output` | `output.rs`, readers, tee | channels between a job and the terminal |
| `OutputProofs` | | theorems about `Output` |
| `MC*` | | instances for TLC |

The three views of a hook run fit together as follows.  `HookRun` has one phase
for all jobs; `Scheduler` looks into that phase and has one state for all that a
task does; `JobExec` looks into the task and lets any job begin at any time,
which is more than any schedule allows.  Every operation of one that the other
abstracts is a nondeterministic choice there, so that a property shown at one
level does not depend on luck at another.  `Dispatch` ends where `HookRun` begins, with
the plans; `Output` looks at the same job tasks as `JobExec`, for what they say
instead of what they hold, and again lets any job begin at any time.

### 2.1 JobDag, Scheduler, ConflictSchedule

A job is its position in the list and the capabilities the resolver reads.  Globs
are opaque: the constant `ProbeHit` says which pattern's representative file
name is matched by which other pattern, an arbitrary relation, so that the model
is right for any quality of the probe heuristic.  `BuildDag` gives the same edges
as the pairwise loop of `build_dag`.

| state | code |
|---|---|
| `pc` | the nested loops of `run_parallel`: `fill` (346-425), `join` (426-436), `drain` (437-445), `returned` |
| `pending`, `started`, `ready` | `pending`, `started`, the `BinaryHeap` |
| `set`, `running` | the `JoinSet`, the counter `running` |
| `task` | per job, what became of it; `live` while its task runs |
| `cancel`, `failed`, `jobs_run`, `jobs_skipped`, `result` | same names; `result` is the `RunReport` |

One action per pass: `Skip` (no plan), `Replay` (cache hit, also of a failure),
`Spawn`, `EndFill`, `JoinError`, `JoinRelease`, `JoinFailFast`, `Drain`,
`EndDrain`; `Finish` and `Abort` are the tasks' own steps.  `release_child` is
part of the three actions that call it.  The heap is a set; that a node is never
in it twice is part of the proved invariant.

`ConflictSchedule` says only this: a job begins, or is passed over, when all
before it are over, at most `slots` jobs run, and the hook may stop starting
jobs.  `Scheduler!ImplementsSchedule` instantiates it with
`stage <- Stage`, a function of `task`.

### 2.2 GitStash, HookRun

A tree gives each file a content in HEAD, index and work tree.  Contents are
symbols that tell apart committed, staged, unstaged, formatted, merged and
conflicting; a three-way merge of two changed sides may be clean or not, both
are explored.  What `git stash push --keep-index --include-untracked` and
`git stash pop` do was taken from git 2.39 for exactly these arguments: a pop is
refused when a tracked file in its way is edited, restores untracked files even
when the merge fails, and keeps the entry unless all went well.

`Start`, `Lock`, `Push`, `EarlyError`, `Resolve`, `Touch`, `EndJobs`,
`FindStash`, `PopStash`, `GitFails`, `Return` are the steps of
`run_hook_with_options` in its order; `EarlyError` stands for every `?` before
the jobs.  The check of the top entry and the pop are two git commands, so they
are two actions; an outsider may get between them.  `Crash` may come at any
point: the kernel drops the flock, the entry stays.  `Commit` is git's commit
after a hook that passed.  The history variables `given`, `owed`, `taken` and
`raced` only serve the properties.

### 2.3 JobExec

Per job the steps are those of `execute_job_in_dag`: `Snapshot`, `Lock`, then
per command `Spawn`, the select of `wait_for_outcome`, `Kill` or `Drain`, then
`Diff`, `LockGit`, `AddStarts`, `AddEnds` or `AddFails`.  `Cancel::cancelled`
keeps its four steps, because a cancel may fall between any two of them: test
the flag, create the `Notified`, test again, await.  `StoreCancel` and `Notify`
are the two statements of `Cancel::cancel`.  The select is biased, and so is the
model: `TimedOut` and `Finished` are only enabled when the `Cancel` is not.

Descendants of a command are `piping` (they hold its pipes open) or `loose`.
git's `.git/index.lock` is kept apart from the mutex `git_lock`, since `git diff`
refreshes the index under the one and not the other.  `DropSet` and `Abort` are
the error return of the scheduler: the task goes away, its `sh` is killed
(`kill_on_drop`), a git of its own runs on (`DetachedGitEnds`).  A sequential
hook goes through the same actions with `TurnOf` as its guard and no cancel.

### 2.4 LockServer

`loop` is the accept loop's `select!`; `poll` is the moment in which
`idle_timer` reads the count, `timing` and `waiting` are its two outcomes.  A
connection is a handler: it reads a frame, handles it, replies, reads the next.
While it waits in a semaphore it reads nothing.  `avail` and `queue` are tokio's
fair semaphore; a released permit goes to the head of the queue, which then is
`assigned` until it runs.  `held` is the handler's map, `owns` what the client
believes, which changes only with the reply.  `Drop` is the RAII release of any
set of permits, used by `Release` and by `Hangup`.

### 2.5 JobCache

Processes look up, run and store; the user saves, touches, upgrades the tool and
clears the store in between.  Hashing a file set, checking freshness, stat'ing
and the command's own reading walk over the files one step per file.  A hash is
the value it is taken of.  An entry carries, for the properties alone, what its
command saw and under which version.  `raced` tells whether somebody else
changed something between the start of the command and the store.  `put` is
`Create` (a temporary file) and `Persist` (rename, or a warning when `clear`
removed it).

### 2.6 Install

One process per call of `betterhook install` or `uninstall`, at most `Cardinality(Proc)` at a
time.  Each file operation is an action of its own, and `fs::write` is two
(`Truncate` and `Fill`, `TruncateManifest` and `FillManifest`), because another
process may read, write or be killed in between; `Put` says what two writers of
one file leave in it.  `Stop` ends a process after any step, by a kill or by an
error that nothing cleans up.  `Probe` and `Unset` are the check of
`core.hooksPath` and `--takeover`, `MakeExecutable` the mode bits, `WriteUnit` and
`RemoveUnit` the launchd or systemd unit, `CheckHook` and `RemoveHook` the two
steps of `uninstall` between which the user may save a hook of his own.
A wrapper is named by the binary in it, since nothing else in it differs; the sha
in the manifest is the same name.  `DoctorOk` and `ReadInstalled` translate what `doctor`
and `status` say of an installation.  `saved`, `raced`, `installs` and `twins`
only serve the properties.

### 2.7 Dispatch, HookConfig, JobPlan, ConfigImport

`Dispatch` is a sequential program over a disk that does not change.  A state
machine was chosen over one recursive operator because the program's
errors, early returns and soft misses are its control: `FindConfig`, `Enter`,
`Return` (`resolve_impl` with its stack made explicit: `seen` is shared by all
activations, an overlay is laid on at each return), `ApplyLocal`, `LowerConfig`,
`Select`, `SelectRun`, `SelectFix`, `NoSuchHook`, `Show`, `PlanJob`.  `Import` comes before: the
commands find what the importer wrote.  A configuration is data in the shape of
`RawConfig`: only what a file sets is there, so that merging is laying one map over
another (`Laid`), and `Bad` stands for whatever does not parse.  A command is the templates in it and a length in bytes, which is
what `expand_template` decides by.  Files are paths as sequences of components; the glob of
a job is the set of files it matches.

The properties have reference definitions that go another way than the code:
`Layers` flattens the graph of files without merging anything (`LayersWithin` n steps
down; there are never more files below each other than files) and
`LastWriterWins` asks of every setting for the last layer that has it; `OnACycle`
is reachability, `Below` the least set of files closed under `extends`; `GoesFirst`
compares two names without sorting.

`sort_by` and `retain` are `Sorted` and `Kept`: an element of a sorted list stands where
there are as many elements up to it, and what is kept stands in the order of its old
positions.  They say what the sort and the filter of the code compute, for orders that
are total on what is sorted (names tell jobs of one priority apart), and unlike the
standard `SortSeq` and `SelectSeq` they have definitions a proof can expand.  `Joined`
and the chunks of `ExpandTemplate` are functions defined by recursion on the number of files
so far, as the loop has it.  `IsRawConfig`, `IsHooks` and `IsJob` are the shape of what
parses; that shape is assumed of the constants only, and proved of what importers
write and overlays make.

### 2.8 Output

Per job the task with its command, the two readers, the local channel and the
tee; for the run the event channel, the writer and the scheduler's part
(`Start`, `Hit`, `Replay`, `Join`, `SendSummary`, `Return`).  A send needs room, so each
of `ReadLine`, `TeeForward`, `CommandStarted`, ... may block, and what blocks whom is
the point of `RunEnds`.  `TaskFails` and `ChildAborted` are the error and the kill in
the middle of all this: readers and tee go on after the task is gone.  When the
hook failed fast, tasks that are still alive may print after the others; the
scheduler waits for them before the summary.

A job found in the cache is replayed event by event: `ReplayStarted`, `ReplayLine` and
`ReplayFinished` send a recording without its being stored, the two streams of a command in any
interleaving, since that is what a tee may have captured.  Only clean runs are stored, so a
recording ends with "ok".  `Said` are the events of a job's run in a sequence: the k-th of
them is the one with k - 1 before it (`Rank`).

## 3. The runs

Twelve runs; `PROJECT.json` gives the properties of each and a mutation of the
code that breaks each property.

| run | instance | states | shows |
|---|---|---|---|
| `scheduler` | 3 jobs, 6 kinds of job in all combinations, 3 priority orders, fail_fast or not, limit 0 or 2 | 372 k | exclusion, no idle slot, complete and truthful report, no task after a report, no double release, refinement, termination |
| `hook_run` | 2 worktrees, 2 files, one run each, 1 outsider move | 177 k | user work survives, a report means restored, left entries are reported, nothing unstaged is staged, every run returns |
| `stash_leak` | the same | | finding 1 |
| `job_exec` | 2 jobs with one key in one or two runs, or 2 fixers side by side | 324 k | isolation, fixes staged, cancel reaches, timed jobs end |
| `lock_server` | 3 clients that ask once, or 2 of which one asks twice; a mutex and a key of zero permits | 162 k | conservation, no lost wakeup, exclusion, exit serves nobody; timed acquires are answered, dead clients let go |
| `job_cache` | 2 processes, 2 files, 2 contents, 2 tool versions, 4 runs and writes together | 1.4 M | a hit was earned, a clean recommit hits |
| `cache_stale` | the same | | finding 2 |
| `install` | 2 processes, 2 hooks, 2 binaries, 3 kinds of request, 3 calls, 1 move of the user | 513 k | equal installs do not race, uninstall forgets nothing, edits survive it |
| `install_orphans` | the same with 2 calls and no user | | finding 4 |
| `dispatch` | 5 523 cases: 420 graphs of files, 12 job sets under 6 commands with listings and options, packages, imports | 34 k | last writer wins, only what is wrong fails, order, coverage, packages, imports |
| `dispatch_panic` | the same | | finding 3 |
| `output` | 2 jobs (a cached one with a builtin, one of two commands), channels of room one | 916 k | transcripts, capture, report last, termination |

### 3.1 Bounds and why they are enough

* **Scheduler.**  Three jobs are the least with a chain, a fork and a join in the
  graph, and with a slot to compete for.  The six kinds give writer/writer,
  writer/reader and network conflicts, cacheable jobs (replay) and a job without
  files (skip).  Limit 0 is defaulted to 1 by the code; 2 leaves one job waiting
  for a slot.  The theorems hold for any number of jobs.
* **HookRun** (`MaxRuns`, `MaxOutsider`).  One worktree goes through all kinds of
  files: staged, added, unstaged, untracked, partly staged, clean; the other is
  a rival with a stash of its own.  One outsider move is enough to get between
  the check and the pop, to bury an entry or to take it.
* **JobExec.**  Two jobs are what an exclusion property speaks about; one of them
  has two commands, so that a cancel or timeout may come before, in and after
  each.  Two runs are needed for keys shared by worktrees.
* **LockServer** (`Budgets`: requests per client).  Two requests of one client
  are acquire and release, acquire twice (wait for oneself), and any of them
  pipelined; three clients that ask once give a queue of two behind a holder.  A
  client that reconnects is another client.  The theorems hold for any clients,
  keys and budgets.
* **JobCache** (`MaxMoves`, `MaxTool`).  Runs and writes share a budget of four:
  three runs and a write (two that overlap and store, one that looks up), or two
  runs and two writes (a formatter's own and the user's).
* **Install** (`MaxCalls`, `MaxUser`).  Two installs side by side after one that
  was killed, or an uninstall beside an install after one that went well, need three
  calls; the move of the user falls between any two steps.  The requests differ
  in hooks, in binary, in `--takeover` and in the unit.  The theorems hold for any
  number of each.
* **Dispatch.**  Three files and the local ones have diamonds, repetitions,
  cycles of one, two and three and a missing file.  The job sets are chosen by
  what the plan tells apart: two templates, no template, a list that is longer
  than `MaxArg`, filtered lists that become empty, repeated names in `priority`,
  builtins, values that do not parse.  `MaxArg` of 12 bytes splits the three files.
* **Output** (`Room`, `LocalRoom`).  Room for one event makes every send block
  that can block; with more room fewer behaviours block.  Two lines on one
  stream are the least that have an order; the cached job has a line on either stream,
  which a replay may send in either order.

Symmetry is used where model values are alike and the run has no liveness
property (`job_cache`, `cache_stale`, `install`, `install_orphans`).  Deadlock is
checked for `Scheduler`, `HookRun`, `LockServer`, `Dispatch` and `Output`, whose ends
are explicit steps (`Terminated`, `AllRun`, `Rest`, `Done`, `Ended`).  It is off for
`JobExec`, `JobCache` and `Install`: there everything may be over, or waiting for a command
that never ends, or for a user who does nothing.

### 3.2 Fairness

* `Scheduler`: the runtime polls the scheduler task and the job tasks.  That a
  task ends is an assumption there; `JobExec` says when it is true.
* `HookRun`: a run that has begun goes on.  No user has to start one, and a run
  that waits for the flock must be let in by its holder: an error of its own
  does not count as progress.
* `JobExec`: the runtime polls every task that can move, timers fire, git ends,
  `cancel()` reaches its second statement.  No command has to end, nor does
  anything it leaves behind: that is what timeouts and cancels are for.
* `LockServer`: the loop, each handler and each timer run.  Clients owe nothing.
* `Output`: the scheduler task, the writer, and of each job its task with its
  readers, and its tee, are polled; commands end and pipes are closed (`JobExec` has
  those that do not).
* `Dispatch` is one sequential process and goes on.
* `JobCache` and `Install` have only safety and action properties and no fairness.

## 4. What is proved

All proofs are checked by TLAPS, for every value of the constants that satisfies the
named assumptions, and none uses fairness.

### 4.1 SchedulerProofs

For every number of jobs, every overlap relation between patterns and every set
of hooks:

| theorem | says |
|---|---|
| `Invariance` | `Spec => []IInv` |
| `TypeCorrect` | `Spec => []TypeOK` |
| `Exclusion` | `Spec => []ConflictsNeverOverlap` |
| `WorkConserving` | `Spec => []NoIdleSlot` |
| `ReleaseIsSafe` | `Spec => ReleaseAssertionsHold`: the `debug_assert`s of `release_child` hold |
| `ReportIsLast` | `Spec => []NoTaskOutlivesReport` |
| `FailuresAreReported` | `Spec => []NoFailureIsLost` |
| `ReportsAreComplete` | `Spec => []ReportIsComplete` |
| `Refinement` | `Spec => ImplementsSchedule` |

Assumptions: `NumJobs` is a natural number, `ProbeHit` a relation on patterns,
each hook of `Hooks` is a hook (`NumJobsAssumption`, `ProbeHitAssumption`,
`HooksAssumption`).

The inductive invariant is
`IInv == TypeOK /\ GraphInv /\ TaskInv /\ HeapInv /\ RunningInv /\ OrderInv`.
`ConflictsNeverOverlap` is not inductive: that two conflicting jobs are never
live follows from `OrderInv`, a started node has its parents behind it; a pop
keeps that only because what is in the heap has no unsettled parent, which is
`HeapInv`, the counter of a node equals the number of its parents that are not
settled.  A counter can be kept equal to that number only if each node is
released exactly once, which is why `TaskInv` ties `started`, the `JoinSet` and
the tasks to each other.  `RunningInv` says that the counter `running` is the
size of the `JoinSet` and within the limit; work conservation and the bound on
slots of the refinement need it.  One lemma per action shows that it keeps
`IInv`; `ReleaseKeepsHeap` is shared by the three actions that release children.

`ReportsAreComplete` adds `CountInv`: what is skipped and what is run are together
the settled nodes.  That nothing is left out when the loop ends (`NothingLeft`) is
the scheduler's freedom from deadlock: with the `JoinSet` and the heap empty, the
first of the nodes not started, in the order of (priority, index), would have all
its parents settled, and so be in the heap.

The refinement proof uses `IInv` for the two guards of the abstract `Begin`:
everything before the job is over, and a slot is free.

### 4.2 JobExecProofs

For any runs, any jobs with any settings and any keys:

| theorem | says |
|---|---|
| `Invariance` | `Spec => []IInv` |
| `TypeCorrect` | `Spec => []TypeOK`, with it that no job starts more commands than it has |
| `Isolation` | `Spec => []IsolationHolds` |
| `FixesGetStaged` | `Spec => []FixesAreStaged` |

Assumptions: jobs are numbers, `Free` is none of them, and the settings are
settings (`JobAssumption`, `FreeAssumption`, `SettingsAssumption`).
`IsolationHolds` speaks of running commands and lock files are held by tasks, so
the invariant has to tie them: a command runs only while its task selects
(`ChildInv`), and from taking the lock to its end a task is the holder of its
key (`GuardInv`).  The second survives the end of another task only because
that gives back no guard but its own (`EndStep`); the first survives cancel,
timeout, error and abort because each of them kills `sh` before the guard goes
(`KillFacts`).  It says nothing of what a killed `sh` leaves running, see 5.

`FixesGetStaged` adds `FixInv`: as long as the file that a job has rewritten is unstaged,
its task is not over, and from the `git diff` to the end of `git add` the file is
among those to be added.  What could rewrite it after that `git diff` is only a process
that a command has left behind; the pipes are closed by then, and one that
holds none of them is an orphan, which the property excepts.

### 4.3 LockServerProofs

For any clients, any keys with any number of permits, any mixture of patient and timed
requests and any budgets:

| theorem | says |
|---|---|
| `Invariance` | `Spec => []IInv` |
| `TypeCorrect` | `Spec => []TypeOK` |
| `Conservation` | `Spec => []PermitsConserved`: free, assigned and held permits add up to the capacity |
| `NoLostWakeup` | `Spec => []NobodyWaitsForAFreePermit` |
| `Exclusion` | `Spec => []MutualExclusion`: what clients believe to hold is within the capacity |
| `ExitIsSafe` | `Spec => []ExitServesNobody` |

Assumptions: `KeyAssumption`, `PatienceAssumption`, `BudgetsAssumption`, which only say of what
kind the constants are.  The inductive invariant is
`IInv == TypeOK /\ PoolInv /\ OwnInv /\ FrameInv /\ LoopInv`.  Conservation equates
a capacity with a sum of cardinalities: free permits, permits assigned to a waiter
that has not run yet, permits held.  A step that hands a permit over moves one
element from one set to another, which is a step of one because no token is given out
twice (`TokenInv`), the sets are finite (`FiniteInv`), nobody is in a queue twice
(`OnceInv`) or waits for another key than that of his queue (`WaitInv`), and a handler
that waits or was assigned a permit knows for what (`BusyInv`).  The timeout that
races a grant is where this could fail: a handler that gives up after a permit was
assigned to it has to pass it on.  `OwnInv` says that what a client believes
to have the server holds for it; it survives because a Release under way names a token the
client has given up (`FrameInv`).  `LoopInv`: the idle timer runs, and the daemon ends,
with no connection to serve.

### 4.4 InstallProofs

For any processes, hook types, binaries, requests and numbers of calls and moves:

| theorem | says |
|---|---|
| `Invariance` | `Spec => []IInv` |
| `TypeCorrect` | `Spec => []TypeOK` |
| `NothingForgotten` | `Spec => UninstallForgetsNothing` |
| `EditsSurvive` | `Spec => EditsSurviveUninstall` |
| `TwinsAgree` | `Spec => []TwinsDoNotRace` |

Assumptions: a binary is none of the other contents (`BinAssumption`), requests are
requests, bounds are numbers (`RequestsAssumption`, `BoundsAssumption`).
`IInv == TypeOK /\ \A p \in Proc : Asked(p) /\ Placed(p) /\ Spared(p) /\ Accounted(p)`.  `Accounted`
is what carries `NothingForgotten`: while no install has written since an
uninstall began, the manifest is what that uninstall read or gone, and each hook
of it that is still ours is one it has not dealt with yet.  It survives the steps
of a second uninstall because those only remove, and of a user because what he saves
is not ours.  `Spared` says that a hook at which an uninstall is about to act
is a wrapper unless the user saved it since the uninstall looked.

`TwinsAgree` adds `TwinInv`, about installs of one request that began alone.  Nobody
else is at work (`Same`), so a hook that one of them has truncated is the wrapper, or is
empty with the one at work that will fill it (`HookKept`): the last to write leaves it
whole.  The manifest goes the same way (`ManifestKept`), the modes and the unit are only
ever set, and `core.hooksPath` only unset.  An install that stops halfway ends
this, which is why the property asks for none.

### 4.5 HookRunProofs

For any worktrees, any hooks, any trees that a worktree may be in at first, and any
numbers of runs and of moves of the outsider:

| theorem | says |
|---|---|
| `Invariance` | `Spec => []IInv` |
| `TypeCorrect` | `Spec => []TypeOK` |
| `NothingIsLost` | `Spec => []UserWorkSurvives` |
| `FlockCoversTheStash` | `Spec => []NoRunBuriesAnother` |
| `ReportsAreTrue` | `Spec => []ReportMeansRestored` |
| `LeftEntriesAreReported` | `Spec => []EntryLeftIsReported` |
| `OnlyTheStagedIsStaged` | `Spec => []NoUnstagedWorkIsStaged` |

Assumptions: hooks are hooks, trees are trees in whose index nothing is that the
user has not staged, bounds are numbers, and the message of an entry that is not
betterhook's is no run's (`HooksAssumption`, `TreesAssumption`,
`BoundsAssumption`, `NoRunAssumption`).  What git's stash does is `GitStash`; a
theorem here is a theorem about betterhook on such a git.

`IInv == TypeOK /\ FlockInv /\ UniqueInv /\ (\A w : RunInv(w)) /\ KeptInv`, where
`RunInv` has five parts:

* `Control`: who has a guard holds the flock, from push to pop.  With `FlockInv`, one
  holder, this is why nobody else of betterhook pushes while an entry is out.
* `NumberInv` and `UniqueInv`: entries are told apart by their runs, and there are none
  of runs to come, so that the entry a run finds is its own.
* `EntryInv`: where the run's entry is at each step, that it is still what the run was
  given, that above it only the outsider's are, and that it is gone or reported in the end.
* `TreeInv`: what the run has made of the tree: outside the files its jobs rewrite, the
  index is untouched and the work tree is the index while the stash is out; a pop of the
  run's own entry over it cannot conflict there and brings back what was given.
* `StageInv`: what `stage_fixed` may come to stage is what was clean before the jobs,
  which is never the user's unstaged work.

`KeptInv` strengthens `UserWorkSurvives`: HEAD counts as a place where a content is
kept only while the index is unmerged, because a commit that follows may overwrite it, and
what it overwrites is then in the index.  Most of the proof is about git's operators
(`PushTree` and `PopTree` say what they leave of a tree); each action then has one lemma, and the lemmas
`OtherRun` and `EntriesStay` say why a step of one run leaves the others alone.

### 4.6 JobCacheProofs

For any processes, any number of files, any contents, and any number of runs, writes and
versions of the tool:

| theorem | says |
|---|---|
| `Invariance` | `Spec => []IInv` |
| `TypeCorrect` | `Spec => []TypeOK` |
| `HitsHold` | `Spec => HitsAreEarned` |
| `CleanRecommitsHit` | `Spec => CleanRecommitHits` |

Assumptions: there is a file and a version of the tool at least, bounds are numbers, and 0 is
no process (`FilesAssumption`, `BoundsAssumption`, `ProcAssumption`).
`IInv == TypeOK /\ ClockInv /\ StoreInv /\ SettledInv /\ \A p \in Proc : ProcInv(p)`.

`StoreInv` is the heart: an entry is `Sound`, that is, a file which still has the
mtime the entry recorded is what the command saw.  A write cannot break that, because
it gives the file an mtime later than every one so far (`ClockInv`; the model's one
assumption about time).  An upgrade cannot either, since the entry is found under its own tool
hash only.  A new entry is sound because what an undisturbed process has seen and measured
is still what is on disk (`SawInv`), and because the lengths of its walks say for which
files it has (`WalkInv`).  `FoundInv` carries soundness from the lookup to the freshness
check, through `clear` and overwriting.  For `CleanRecommitsHit`, `SettledInv` says that the entry
for what is on disk is in the store, with today's mtimes, and `SteadyInv` that a
process which began like that walks over nothing else.

### 4.7 OutputProofs

For any jobs, any commands with any number of lines, and channels of any size:

| theorem | says |
|---|---|
| `Invariance` | `Spec => []IInv` |
| `TypeCorrect` | `Spec => []TypeOK` |
| `TranscriptsRun` | `Spec => []TranscriptsAreRuns` |
| `CaptureIsFaithful` | `Spec => []CaptureIsWhatIsPrinted` |
| `ReportComplete` | `Spec => []ReportMeansPrinted` |

Assumptions: a plan has a command or more and a command some lines on either stream
(`WorkAssumption`), a channel has room for one event (`RoomAssumption`).

`IInv == TypeOK /\ MainInv /\ \A j \in Job : JobInv(j)`.  It follows the events of a job on their way.  What the job has said so far, in the
order said, is what is written of it, then its part of the event channel, then what
its tee holds, then its local channel.  That sequence is a run (`IsRun`), and the task's own
state says how far it has got: which command, which lines are out (`unread`), whether
the end is.  A step of a task or reader appends one event, and the lemmas about
`IsRun` say when that makes a longer run; a step of a tee or of the writer moves the boundary between
two parts and changes nothing of the whole.  `TranscriptsAreRuns` is then that the beginning of a
run is one.  Two readers of one command append independently, which is why `IsRun` counts
lines per stream, and why a `Finished` that is not of an abort has to know that both readers
are through (`DrainReaders`).  The same invariant with the replay's position in place of the
task's carries a job that was found in the cache.  Selecting a job's events from the common channel is by rank: `Rank` of a
longer sequence is that of the shorter one or one more, by cardinality of finite sets, so that
no induction is needed.

### 4.8 DispatchProofs

For any finite set of files that extend each other in any way, any contents, jobs, packages,
lists of files and options, and any command:

| theorem | says |
|---|---|
| `Invariance` | `Spec => []IInv`: the activations on the stack are calls of one another, `seen` is their files, and nothing is resolved inside itself |
| `ResolutionIsExact` | `Spec => []OnlyCyclesAndBadFilesFail` |
| `MergeIsByLayers` | `Spec => []LastWriterWins` |
| `PlanningInvariance` | `Spec => []PInv`: what is planned and shown is the configuration that was resolved, its plans following the jobs asked for |
| `NoFileIsLost` | `Spec => []CommandsCoverTheFiles` |
| `OneOrderForAll` | `Spec => []JobsRunInOrder` |
| `FilesFallToPackages` | `Spec => []PackagesPartition` |

Assumptions: there are finitely many files and a candidate among them (`FilesAssumption`);
what a file holds, if it parses, is a `RawConfig`, what git lists are files, and what
can be read of another tool's file has that importer's shape (`CasesAssumption`); a
builtin's defaults are fields of a job (`BuiltinAssumption`); a file's name has a length and
the argument limit is a number (`BytesAssumption`).  A `RawConfig` here has finitely
many jobs in a hook and finitely many packages, with numbers for names as everywhere in the model, priorities in lists,
templates in commands and files in patterns; which fields are set, and whether a value
makes sense (`Bad`), is free, except that a file's `extends` is a list.

`ResolutionIsExact` has two directions.  A failure has a cause: `Enter` fails on a
file in `seen`, and since each frame is a call made by the one below it, the file of that
frame extends itself through those above.  A success has none: a call that returns has seen everything below
its file return before (`ReturnSound`), so that a bad file would have
stopped it; and a cycle through the returning file would lead through a file whose call has returned
already, though its own calls include one for a file on the stack, which `Enter` refuses.

For `MergeIsByLayers` the invariant says of each frame that its `merged` agrees with the layers of
the extends it is through with: the same settings, each with the value of the last layer
that has it.  `OverlaySettings` is the lemma that carries a return: after an overlay the
settings are those of both sides, and each is the upper side's where that has it, through
packages, hooks, jobs and flags.  `DepthBound` shows that `Layers` looks deep enough: the files of
a chain of calls are different, so that there are at most `Cardinality(File)`.

`LayersWithin` is a recursive function on the naturals.  That it satisfies its equation is proved
here (`NatRecursion`) and not taken on trust: partial solutions exist for each n, agree, and
together are one.  The induction in this is over a concrete set of numbers, of which
the least that fails is refuted, since induction theorems with an operator for a
parameter cannot be used.  `BoundedRecursion` gets the same for functions on `0..n`, which is what
`Joined` and `ExpandTemplate` are.

`PInv` adds to `IInv` that every configuration on the stack and `raw` is a `RawConfig`
(`IsRawConfig(raw)`, `FramesAreRaw`), that `config` is `Lower(raw)` from the moment anything is
selected, planned or shown, and how far planning is: there is a map `at` from the plans
to positions in the list of chosen jobs, increasing, over those already looked
at, that leaves out only jobs that are filtered (`PlansAre`).  `JobsRunInOrder` is not inductive without it,
since it compares plans of the end with a set of jobs that no state keeps.  The lemmas, from the
bottom up:

* *Files to commands.*  `AddFileIs`: a file more goes to the end of the last chunk or to a chunk of
  its own, so that the chunks in a row are the files so far, and none with more than
  one file is too large.  `ExpandIs` is the induction on the number of files,
  `ResolvedPlanIs` the early returns around it.
* *Sorting.*  With a total order an element's rank is a bijection onto `1..n`, so that
  putting each element at its rank sorts (`RankIs`, `SortingIs`): by cardinality of finite
  sets, with no induction.  `KeptIs` and `SortedJobs` are its two uses.
* *Merging.*  `OverlayIsRaw`: one configuration over another is a configuration, because a
  job keeps whole fields of one of the two.  The importers make configurations too
  (`ImportedFile`), each with a lemma of its own.
* *Lowering.*  `LowerHookIs`: each job once, with its builtin's defaults under its own
  fields, and with the priority that the last place of its name gives it.
  `BeforeIsFirst` is the heart: the code's order by (priority, name), with `priority` the
  index of the name or more than any index, is the order that `GoesFirst` reads from the settings.
* *Showing.*  `EdgesAreInOrder` and `ConflictsHaveEdges`: an edge of the DAG leads from the
  lower index, hence from the job that goes first, and jobs of which one writes
  what the other touches have one.  `HookFits` sums this up for dry-run, explain and status.
* *Packages.*  `DeepestPackage`: packages are tried from the longest path down, and the first
  that is above a file is the deepest.  `BucketsPartition` and `MergedJobs` are the
  two halves of `PackagesPartition`.

### 4.9 Only model-checked

* `RunReturns`, `EveryRunReturns`, `CancelReaches`, `TimedJobsEnd`,
  `TimedAcquireIsAnswered`, `DeadClientsLetGo`, `RunEnds`: liveness under fairness is beyond
  the prover.
* `ImportsLoad`: what it says of an import depends on the foreign files of `Cases`, which name
  the jobs they are expected to become; and that lowering does not refuse it would need `Bad`
  to be apart from every record, of which TLA+ has no set to say it of.  What is general in it is
  proved: an import is a `RawConfig` that extends nothing (`ImportedFile`).

## 5. Findings

Each is a run that must end in a violation; the counterexample is a behaviour of
the code.

1. **`stash_leak`** (`bh/runner/executor.rs:151`).  When plan resolution fails,
   after the stash was pushed, the run returns without a pop and without a word.
   Line 173 says the stash is popped "even on error".
2. **`cache_stale`** (`bh/runner/executor.rs:593`).  Key and mtimes are taken
   after the command ran; what was edited meanwhile is stored as checked.
3. **`dispatch_panic`** (`src/apps/cli/src/commands/dispatch.rs:49`).  `resolve` lets a hook
   through that only a package declares, and the command expects it among the
   root's hooks: every commit panics.
4. **`install_orphans`** (`bh/install/mod.rs:235`).  The manifest of an install
   replaces the one before; wrappers of other hooks, or for another binary, are
   then in no manifest and `uninstall` leaves them.

Differences between code and words that were met and have no run:

*Hook run and jobs*

* `stash.rs:95-98` says that the index in the stash is what is staged at the time of the pop;
  `stage_fixed` has moved it, and a file that was only staged can end up
  unmerged.
* `stash.rs:10-13`: the index of the entry is checked before the pop; the pop is
  another command, and somebody else may push in between.
* `stage.rs:15-17`: the git index mutex covers `git add` but not the `git diff`
  before and after, which may write the index too.
* `proc.rs:315-326`: a clean exit drains the pipes without a timeout.  The model
  has it (`TimedJobsEnd` excepts it).
* A killed `sh` may leave descendants that run on after the isolation lock has been
  given back (`orphans` in `JobExec`); `IsolationHolds` speaks of `sh` itself.
* `dag.rs:26-31, 229-233`: "never allow unsafe parallelism" does not hold for
  patterns whose probe name no other pattern matches although some real file would
  match both; and the module's second rule and line 186 differ on network jobs of
  which one is concurrent_safe.
* `executor.rs:578-584`: findings of a builtin are only sent in a parallel hook.
* After an error of a task the run returns without waiting for the writer; a
  task that ends in an error while the hook fails fast may print after the others.
* `fileset.rs:118-125`: a command with two templates gets the files twice, and the
  limit counts them once; `substitute_once` also replaces in the file names it
  has just put in.

*Lock daemon*

* `server.rs:129`: a handler that waits without a timeout does not notice that its
  client is gone; its other permits stay taken, possibly for ever
  (`registry.rs:4-6` says they are given back).
* `server.rs:59`: the idle timer is armed when a connection is accepted and never
  when the last one leaves; the daemon stays.  `IDLE_LINGER` is 24 hours
  (`lifecycle.rs:21`), the documents say 60 seconds.
* `registry.rs:37` keys semaphores by the whole `LockKey`, permits included, while
  `protocol.rs:26-29` says a request with other permits is rejected: it is not, two
  capacities of one name are two locks.
* `isolation.mdx` says the runner asks the daemon for locks; it uses lock files.

*Cache*

* `lookup.rs:48-49` promises that everything that affects the subprocess is hashed;
  `root`, the directory it runs in and `builtin` are not.
* `store.rs:73-75` promises on a hit the output of the run; diagnostics are not captured.
* `executor.rs:592`: nothing is stored for a job without files, though it is looked up.
* `lookup.rs:110`: mtimes are compared in whole seconds.

*Install*

* `mod.rs:241` never records the previous `core.hooksPath`; `uninstall.mdx:18` and
  `manifest.rs:27-29` say that it is restored.
* An install with `--skip-unit` forgets the unit of an earlier one.
* `doctor` and `status` compare a hook's bytes and not its mode, so that a
  wrapper git will not run is reported as fine (`doctor.mdx:33`).

*Configuration and commands*

* `resolve_packages` and `hook_for_match` are called by no command; `monorepo.mdx`
  describes a run per package.  `merge_hooks` orders by the priorities the jobs got in
  their own lists, and `skip = true` (`monorepo.mdx:49`) removes nothing.
* KDL has no node for packages, and a negative `slots` in it is taken as not given.
* `run --dry-run` lists all jobs, whatever `--skip` and `--only` say.
* The pre-commit importer keeps one of two hooks of a name and says nothing, and takes
  regular expressions for globs; the husky one makes a job of each line, ordered
  by command, where `README.md:180` says one `run` block.

*Speculation*

* `speculative.rs:152-161`: the debouncer keeps the first event of a burst, not
  the last; `queue_depth` is always published as 0; no command starts the runner.

## 6. What is not modelled

* **The daemon's socket**: `LockServer` begins with a bound socket; two daemons that find
  one stale socket are in the plan.
* **The speculative runner and the watcher**: a library that no command starts; `doctor` and
  `status` read its statistics, which nobody writes.
* **Syntax**: the four surface formats are serde's and kdl's business, as are the
  foreign formats of the importers.  What KDL does with nodes is modelled, since it is
  written by hand.
* **Builtins' parsers, layout of the output, doctor's checks of the machine**: they parse,
  print or look and change no state that others read.
* **init, cache stats and verify, builtins, serve, completions, migrate**: they write a
  template, print, or call what is modelled.
* **Hashes**: taken as injective.  **Time**: a timeout may come at any moment while
  its timer is armed; writes to files come in different seconds (within one
  second the mtime gate cannot work, which is a hazard listed without a property).
* **A job that waits for a lock file** waits in a blocking thread out of reach of
  cancel and timeout; how long another worktree keeps the file is outside the
  program, so the liveness properties begin where the lock has been taken.
* **Benches, fuzzing, xtask, packaging**: development tools.

## 7. Plan

Done: `JobDag`, `ConflictSchedule`, `Scheduler`, `HookRun` with `GitStash`, `JobExec`,
`LockServer`, `JobCache`, `Install`, `Dispatch` with `HookConfig`, `JobPlan` and `ConfigImport`,
`Output`; the proofs about `Scheduler`, `JobExec`, `LockServer`, `Install`, `HookRun`,
`JobCache`, `Output` and `Dispatch`.

Every invariant that a run checks has a theorem, and every action property but `ImportsLoad`.

Next, in this order:

1. `DaemonSocket`: daemons that race for one socket path, composed with
   `LockServer`'s idle exit.
2. An abstract `Mutex` specification that `JobExec` (per isolation key) and
   `LockServer` (per lock key) both implement.
3. `Speculative`, once a command starts it.
