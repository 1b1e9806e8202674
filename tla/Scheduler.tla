------------------------------ MODULE Scheduler ------------------------------
(***************************************************************************)
(* run_parallel of runner/executor.rs: the scheduler task of one hook run, *)
(* its ready heap, its JoinSet and the job tasks it spawns.                *)
(*                                                                         *)
(* The scheduler is one async task and takes one pass of its loops per     *)
(* action; the spawned job tasks run beside it on the runtime's workers    *)
(* and end in any order.  What a job task does between being spawned and   *)
(* ending is the business of module JobExec.                               *)
(***************************************************************************)
EXTENDS JobDag, FiniteSets

CONSTANT Hooks   \* the hook configurations run_parallel is called with

(* A resolved hook: its jobs, which of them have a plan (a job whose glob  *)
(* matched no file has none), fail_fast and parallel_limit, the latter     *)
(* already defaulted by default_parallel_limit.                            *)
Hook == [jobs : [Node -> Job],
         planned : [Node -> BOOLEAN],
         fail_fast : BOOLEAN,
         parallel_limit : Nat]

ASSUME HooksAssumption == Hooks \subseteq Hook

VARIABLES
  hook,          \* the hook being run; never changes
  graph,         \* its DAG, built before the first job starts
  pc,            \* where the scheduler task is
  pending,       \* per node, its parents not yet released
  started,       \* nodes popped from the heap
  ready,         \* the ready heap
  set,           \* nodes whose task is in the JoinSet
  task,          \* per node, what has become of it
  cancel,        \* the shared Cancel latch
  running,       \* the scheduler's count of its tasks
  failed,
  jobs_run,
  jobs_skipped,
  result         \* what run_parallel returned

vars == <<hook, graph, pc, pending, started, ready, set, task, cancel, running,
          failed, jobs_run, jobs_skipped, result>>

TaskState == {"none", "live", "ok", "failed", "error", "aborted",
              "skipped", "replayed", "replayed_failure"}

TypeOK ==
  /\ hook \in Hook
  /\ graph \subseteq Node \X Node
  /\ pc \in {"fill", "join", "drain", "returned"}
  /\ pending \in [Node -> Nat]
  /\ started \subseteq Node
  /\ ready \subseteq Node
  /\ set \subseteq Node
  /\ task \in [Node -> TaskState]
  /\ cancel \in BOOLEAN
  /\ running \in Nat
  /\ failed \in BOOLEAN
  /\ jobs_run \in Nat
  /\ jobs_skipped \in Nat
  /\ result \in {"none", "ok", "failed", "error"}

(* The limit, at least one job at a time.                                  *)
Limit == IF hook.parallel_limit = 0 THEN 1 ELSE hook.parallel_limit

Live == {n \in Node : task[n] = "live"}

(* Tasks of the JoinSet that have ended and can be joined.                 *)
Joinable == {n \in set : task[n] \in {"ok", "failed", "error"}}

Init ==
  /\ hook \in Hooks
  /\ graph = BuildDag(hook.jobs)
  /\ pc = "fill"
  /\ pending = [n \in Node |-> Cardinality(Parents(graph, n))]
  /\ started = {}
  /\ ready = {n \in Node : Parents(graph, n) = {}}
  /\ set = {}
  /\ task = [n \in Node |-> "none"]
  /\ cancel = FALSE
  /\ running = 0
  /\ failed = FALSE
  /\ jobs_run = 0
  /\ jobs_skipped = 0
  /\ result = "none"

(* Mutant: walks the parents instead of the children, without the guard.   *)
MutReleased(n) ==
  [c \in Node |-> IF c \in Parents(graph, n) THEN pending[c] - 1
                  ELSE pending[c]]

(***************************************************************************)
(* release_child on every child of n: its counter goes down by one and, on *)
(* reaching zero, the child enters the heap.  The two early returns (the   *)
(* counter already at zero, the child already started) are kept.           *)
(***************************************************************************)
Released(n) ==
  [c \in Node |-> IF c \in Children(graph, n) /\ pending[c] > 0
                  THEN pending[c] - 1
                  ELSE pending[c]]

(* Mutant: a child is ready as soon as one parent is.                      *)
MutNewlyReady(n) ==
  {c \in Children(graph, n) : pending[c] > 0 /\ c \notin started}

NewlyReady(n) ==
  {c \in Children(graph, n) : pending[c] = 1 /\ c \notin started}

-----------------------------------------------------------------------------
(* The fill loop.                                                          *)

(* Mutant: off by one in the loop condition.                               *)
MutCanPop == running + 1 < Limit /\ ready # {}

CanPop == running < Limit /\ ready # {}

(* ready.pop(): the ready node of lowest (priority, index).  The heap is a *)
(* set because a node enters it only when its counter reaches zero; a      *)
(* started node is never found in it (HeapInv), so the code's              *)
(* `if started[idx] { continue }` is a guard here.                         *)
Pop(n) ==
  /\ pc = "fill"
  /\ CanPop
  /\ n \in ready
  /\ \A m \in ready \ {n} : OrderFirst(hook.jobs, n, m)
  /\ n \notin started
  /\ started' = started \cup {n}

(* A job without a plan is over at once.                                   *)
Skip(n) ==
  /\ Pop(n)
  /\ ~hook.planned[n]
  /\ task' = [task EXCEPT ![n] = "skipped"]
  /\ jobs_skipped' = jobs_skipped + 1
  /\ pending' = Released(n)
  /\ ready' = (ready \ {n}) \cup NewlyReady(n)
  /\ UNCHANGED <<hook, graph, pc, set, cancel, running, failed, jobs_run,
                 result>>

(* Mutant: a cache hit forgets to release the children.                    *)
MutReplay(n, outcome) ==
  /\ Pop(n)
  /\ hook.planned[n]
  /\ hook.jobs[n].concurrent_safe
  /\ task' = [task EXCEPT ![n] = outcome]
  /\ failed' = (failed \/ outcome = "replayed_failure")
  /\ cancel' = (cancel \/ (outcome = "replayed_failure" /\ hook.fail_fast))
  /\ jobs_run' = jobs_run + 1
  /\ ready' = ready \ {n}
  /\ UNCHANGED <<hook, graph, pc, pending, set, running, jobs_skipped,
                 result>>

(* A concurrent_safe job with a fresh cache entry is replayed.  An entry   *)
(* that records a failure latches `cancel` under fail_fast, but the loop   *)
(* goes on and the children are released all the same.                     *)
Replay(n, outcome) ==
  /\ Pop(n)
  /\ hook.planned[n]
  /\ hook.jobs[n].concurrent_safe
  /\ task' = [task EXCEPT ![n] = outcome]
  /\ failed' = (failed \/ outcome = "replayed_failure")
  /\ cancel' = (cancel \/ (outcome = "replayed_failure" /\ hook.fail_fast))
  /\ jobs_run' = jobs_run + 1
  /\ pending' = Released(n)
  /\ ready' = (ready \ {n}) \cup NewlyReady(n)
  /\ UNCHANGED <<hook, graph, pc, set, running, jobs_skipped, result>>
(* Mutant: children are released when their parent starts.                 *)
MutSpawn(n) ==
  /\ Pop(n)
  /\ hook.planned[n]
  /\ task' = [task EXCEPT ![n] = "live"]
  /\ set' = set \cup {n}
  /\ running' = running + 1
  /\ pending' = Released(n)
  /\ ready' = (ready \ {n}) \cup NewlyReady(n)
  /\ UNCHANGED <<hook, graph, pc, cancel, failed, jobs_run, jobs_skipped,
                 result>>

Spawn(n) ==
  /\ Pop(n)
  /\ hook.planned[n]
  /\ task' = [task EXCEPT ![n] = "live"]
  /\ set' = set \cup {n}
  /\ running' = running + 1
  /\ ready' = ready \ {n}
  /\ UNCHANGED <<hook, graph, pc, pending, cancel, failed, jobs_run,
                 jobs_skipped, result>>

Summary == IF failed THEN "failed" ELSE "ok"

(* Nothing more to pop: await a task, or return when there is none.        *)
EndFill ==
  /\ pc = "fill"
  /\ ~CanPop
  /\ \/ set # {} /\ pc' = "join" /\ UNCHANGED result
     \/ set = {} /\ pc' = "returned" /\ result' = Summary
  /\ UNCHANGED <<hook, graph, pending, started, ready, set, task, cancel,
                 running, failed, jobs_run, jobs_skipped>>

-----------------------------------------------------------------------------
(* join_next and what follows it.                                          *)

(* A task that ended in an error ends the run there and then (`?`); the    *)
(* JoinSet is dropped, which aborts the tasks still in it.                 *)
JoinError(n) ==
  /\ pc = "join"
  /\ n \in Joinable
  /\ task[n] = "error"
  /\ set' = {}
  /\ pc' = "returned"
  /\ result' = "error"
  /\ UNCHANGED <<hook, graph, pending, started, ready, task, cancel, running,
                 failed, jobs_run, jobs_skipped>>
(* Mutant: the last outcome overwrites the ones before it.                 *)
MutJoined(n) ==
  /\ pc = "join"
  /\ n \in Joinable
  /\ task[n] # "error"
  /\ set' = set \ {n}
  /\ running' = running - 1
  /\ jobs_run' = jobs_run + 1
  /\ failed' = (task[n] = "failed")
  /\ UNCHANGED <<hook, graph, started, task, jobs_skipped, result>>

Joined(n) ==
  /\ pc = "join"
  /\ n \in Joinable
  /\ task[n] # "error"
  /\ set' = set \ {n}
  /\ running' = running - 1
  /\ jobs_run' = jobs_run + 1
  /\ failed' = (failed \/ task[n] = "failed")
  /\ UNCHANGED <<hook, graph, started, task, jobs_skipped, result>>

JoinRelease(n) ==
  /\ Joined(n)
  /\ ~(task[n] = "failed" /\ hook.fail_fast)
  /\ pending' = Released(n)
  /\ ready' = ready \cup NewlyReady(n)
  /\ pc' = "fill"
  /\ UNCHANGED cancel

JoinFailFast(n) ==
  /\ Joined(n)
  /\ task[n] = "failed" /\ hook.fail_fast
  /\ cancel' = TRUE
  /\ pc' = "drain"
  /\ UNCHANGED <<pending, ready>>

(* Mutant: the drain loop never takes a task out of the set.               *)
MutDrain(n) == pc = "drain" /\ n \in Joinable /\ UNCHANGED vars

(* After a fail-fast failure every remaining task is awaited, its outcome  *)
(* ignored and not counted.                                                *)
Drain(n) ==
  /\ pc = "drain"
  /\ n \in Joinable
  /\ set' = set \ {n}
  /\ UNCHANGED <<hook, graph, pc, pending, started, ready, task, cancel,
                 running, failed, jobs_run, jobs_skipped, result>>
(* Mutant: the run returns after the failure without draining.             *)
MutEndDrain ==
  /\ pc = "drain"
  /\ pc' = "returned"
  /\ result' = Summary
  /\ UNCHANGED <<hook, graph, pending, started, ready, set, task, cancel,
                 running, failed, jobs_run, jobs_skipped>>

EndDrain ==
  /\ pc = "drain"
  /\ set = {}
  /\ pc' = "returned"
  /\ result' = Summary
  /\ UNCHANGED <<hook, graph, pending, started, ready, set, task, cancel,
                 running, failed, jobs_run, jobs_skipped>>

-----------------------------------------------------------------------------
(* The job tasks.  A task ends in any of the three ways; one that was      *)
(* cancelled mostly fails (exit 130), but its command may have won.        *)
Finish(n, outcome) ==
  /\ task[n] = "live"
  /\ n \in set
  /\ task' = [task EXCEPT ![n] = outcome]
  /\ UNCHANGED <<hook, graph, pc, pending, started, ready, set, cancel,
                 running, failed, jobs_run, jobs_skipped, result>>

(* A task of a dropped JoinSet stops at its next await, which nobody       *)
(* waits for.                                                              *)
Abort(n) ==
  /\ task[n] = "live"
  /\ n \notin set
  /\ task' = [task EXCEPT ![n] = "aborted"]
  /\ UNCHANGED <<hook, graph, pc, pending, started, ready, set, cancel,
                 running, failed, jobs_run, jobs_skipped, result>>

FinishAny(n) == \E outcome \in {"ok", "failed", "error"} : Finish(n, outcome)

ReplayAny(n) ==
  \E outcome \in {"replayed", "replayed_failure"} : Replay(n, outcome)

SchedulerStep ==
  \/ \E n \in Node : Skip(n)
  \/ \E n \in Node : ReplayAny(n)
  \/ \E n \in Node : Spawn(n)
  \/ EndFill
  \/ \E n \in Node : JoinError(n)
  \/ \E n \in Node : JoinRelease(n)
  \/ \E n \in Node : JoinFailFast(n)
  \/ \E n \in Node : Drain(n)
  \/ EndDrain

TaskStep == \E n \in Node : FinishAny(n) \/ Abort(n)

(* The run is over and every task has stopped.                             *)
Terminated == pc = "returned" /\ Live = {} /\ UNCHANGED vars

Next == SchedulerStep \/ TaskStep \/ Terminated

(* The runtime polls the scheduler task and every job task; that a job's   *)
(* commands come to an end is an assumption (a job may have no timeout).   *)
Fairness ==
  /\ WF_vars(SchedulerStep)
  /\ \A n \in Node : WF_vars(FinishAny(n)) /\ WF_vars(Abort(n))

Spec == Init /\ [][Next]_vars /\ Fairness

-----------------------------------------------------------------------------
(* Properties.                                                             *)

(* Two jobs whose capabilities conflict are never in flight at the same    *)
(* time, whatever the outcome of other jobs, cache hits or fail-fast       *)
(* (executor.rs 299-301: "conflicting jobs serialize in priority order").  *)
ConflictsNeverOverlap ==
  \A m, n \in Node :
    m # n /\ PairConflicts(hook.jobs[m], hook.jobs[n]) =>
      ~({m, n} \subseteq Live)

(* When the scheduler sits down to wait with a slot to spare, no job that  *)
(* could run is left behind: each job not started has a conflicting        *)
(* predecessor that is still unfinished (executor.rs 424-428).             *)
NoIdleSlot ==
  pc = "join" /\ running < Limit =>
    \A n \in Node \ started : ~(Parents(graph, n) \subseteq started \ set)

(* A run that returns a report has considered every job, unless fail_fast  *)
(* cut it short, and its two counters add up to the jobs it settled: a     *)
(* drained task is not counted (executor.rs 437-457).                      *)
ReportIsComplete ==
  result \in {"ok", "failed"} =>
    /\ result = "ok" \/ ~hook.fail_fast => started = Node
    /\ jobs_skipped = Cardinality({n \in Node : task[n] = "skipped"})
    /\ jobs_run + jobs_skipped <= Cardinality(started)
    /\ ~hook.fail_fast => jobs_run + jobs_skipped = NumJobs

(* The report says ok exactly when no job of the run failed: neither a     *)
(* drained task nor a replayed failure is forgotten.                       *)
NoFailureIsLost ==
  result \in {"ok", "failed"} =>
    (result = "ok" <=>
       \A n \in Node : task[n] \notin {"failed", "error", "replayed_failure"})

(* When a run returns a report, no job of it is still running; only the    *)
(* error return leaves tasks behind, to be aborted (executor.rs 431-444).  *)
NoTaskOutlivesReport ==
  result \in {"ok", "failed"} => Live = {}

(* Nodes the scheduler is done with: skipped, replayed or joined.          *)
Settled == started \ set

(* The two debug_asserts of release_child never fire: when a node settles, *)
(* none of its children has been counted down already, nor started         *)
(* (executor.rs 481-484, 492-495).                                         *)
ReleaseAssertionsHold ==
  [][\A n \in Node, c \in Node :
       /\ pc \in {"fill", "join"}
       /\ n \in Settled' \ Settled /\ c \in Children(graph, n)
       => pending[c] > 0 /\ c \notin started]_vars

(* Every run returns, and every task it spawned stops.                     *)
RunReturns == <>(pc = "returned" /\ Live = {})

(* How far each job has come, as ConflictSchedule sees it.                 *)
Stage ==
  [n \in Node |-> IF task[n] = "none" THEN "waiting"
                  ELSE IF task[n] = "live" THEN "running"
                  ELSE "over"]

Schedule ==
  INSTANCE ConflictSchedule WITH before <- graph, slots <- Limit, stage <- Stage

(* The executor implements ConflictSchedule: a job starts, is passed over  *)
(* or ends only as that specification allows (executor.rs 299-301).        *)
ImplementsSchedule == Schedule!Spec
=============================================================================
