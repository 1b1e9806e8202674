--------------------------- MODULE SchedulerProofs ---------------------------
(***************************************************************************)
(* Theorems about module Scheduler, for any number of jobs, any patterns   *)
(* and any set of hook configurations.                                     *)
(***************************************************************************)
EXTENDS Scheduler, FiniteSetTheorems, WellFoundedInduction, TLAPS

-----------------------------------------------------------------------------
(* The graph.                                                              *)

(* Any two jobs are ordered one way, and only one, by (priority, index).   *)
LEMMA OrderIsTotal ==
  ASSUME NEW jobs \in [Node -> Job], NEW m \in Node, NEW n \in Node, m # n
  PROVE  OrderFirst(jobs, m, n) <=> ~OrderFirst(jobs, n, m)
  <1>1. jobs[m].priority \in Nat /\ jobs[n].priority \in Nat
    BY DEF Job
  <1>2. m \in Nat /\ n \in Nat
    BY DEF Node
  <1>3. QED
    BY <1>1, <1>2 DEF OrderFirst

(* Whether two jobs conflict does not depend on which is named first.      *)
LEMMA ConflictIsSymmetric ==
  ASSUME NEW a, NEW b
  PROVE  PairConflicts(a, b) <=> PairConflicts(b, a)
  BY DEF PairConflicts, NetworkConflict

(* build_dag joins any two conflicting jobs by an edge.                    *)
LEMMA ConflictHasEdge ==
  ASSUME NEW jobs \in [Node -> Job], NEW m \in Node, NEW n \in Node, m # n,
         PairConflicts(jobs[m], jobs[n])
  PROVE  <<m, n>> \in BuildDag(jobs) \/ <<n, m>> \in BuildDag(jobs)
  BY OrderIsTotal, ConflictIsSymmetric DEF BuildDag

(* No job is its own parent.                                               *)
LEMMA DagIsIrreflexive ==
  ASSUME NEW jobs, NEW n \in Node
  PROVE  <<n, n>> \notin BuildDag(jobs)
  BY DEF BuildDag

-----------------------------------------------------------------------------
(* Counting.                                                               *)

LEMMA NodeSets ==
  ASSUME NEW S, S \subseteq Node
  PROVE  /\ IsFiniteSet(S)
         /\ Cardinality(S) \in Nat
         /\ Cardinality(S) = 0 <=> S = {}
  <1>1. IsFiniteSet(Node)
    BY FS_Interval, NumJobsAssumption DEF Node
  <1>2. IsFiniteSet(S)
    BY <1>1, FS_Subset
  <1>3. QED
    BY <1>2, FS_CardinalityType, FS_EmptySet

LEMMA RemoveNode ==
  ASSUME NEW S, S \subseteq Node, NEW n
  PROVE  /\ n \in S => /\ Cardinality(S) > 0
                       /\ Cardinality(S \ {n}) = Cardinality(S) - 1
         /\ n \notin S => Cardinality(S \ {n}) = Cardinality(S)
  <1>1. IsFiniteSet(S) /\ Cardinality(S) \in Nat
    BY NodeSets
  <1>2. CASE n \in S
    <2>1. Cardinality(S \ {n}) = Cardinality(S) - 1
      BY <1>1, <1>2, FS_RemoveElement
    <2>2. Cardinality(S) # 0
      BY <1>2, NodeSets
    <2>3. QED
      BY <1>1, <1>2, <2>1, <2>2
  <1>3. CASE n \notin S
    <2>1. S \ {n} = S
      BY <1>3
    <2>2. QED
      BY <1>3, <2>1
  <1>4. QED
    BY <1>2, <1>3

LEMMA AddNode ==
  ASSUME NEW S, S \subseteq Node, NEW n \in Node, n \notin S
  PROVE  Cardinality(S \cup {n}) = Cardinality(S) + 1
  BY NodeSets, FS_AddElement

-----------------------------------------------------------------------------
(* The inductive invariant.                                                *)

(* The graph is the DAG of the hook's jobs.                                *)
GraphInv == graph = BuildDag(hook.jobs)

(* A node is started once something has become of it; the JoinSet holds    *)
(* started nodes that were spawned, every live one until the run returns.  *)
TaskInv ==
  /\ \A n \in Node : n \in started <=> task[n] # "none"
  /\ \A n \in set : task[n] \in {"live", "ok", "failed", "error"}
  /\ pc # "returned" => Live \subseteq set

Scheduling == pc \in {"fill", "join"}

Unreleased(n) == Parents(graph, n) \ Settled

(* While it schedules, each counter is the number of parents not settled,  *)
(* and the heap holds the nodes whose counter is at zero.                  *)
HeapInv ==
  Scheduling =>
    /\ \A n \in Node : pending[n] = Cardinality(Unreleased(n))
    /\ ready = {n \in Node \ started : pending[n] = 0}
    /\ \A n \in started : pending[n] = 0

(* Its count of tasks is the size of the JoinSet, within the limit.        *)
RunningInv ==
  Scheduling => running = Cardinality(set) /\ running <= Limit

(* A started node has all its parents behind it, whatever comes after.     *)
OrderInv ==
  \A n \in started : \A m \in Parents(graph, n) : task[m] \notin {"none", "live"}

IInv ==
  /\ TypeOK
  /\ GraphInv
  /\ TaskInv
  /\ HeapInv
  /\ RunningInv
  /\ OrderInv

-----------------------------------------------------------------------------
LEMMA LimitType == TypeOK => Limit \in Nat \ {0}
  BY DEF TypeOK, Limit, Hook

LEMMA InitIInv == Init => IInv
  <1> SUFFICES ASSUME Init PROVE IInv
    OBVIOUS
  <1>1. hook \in Hook /\ graph \subseteq Node \X Node
    BY HooksAssumption DEF Init, BuildDag
  <1>2. \A n \in Node : Parents(graph, n) \subseteq Node
    BY DEF Parents
  <1>3. \A n \in Node : /\ Cardinality(Parents(graph, n)) \in Nat
                       /\ Cardinality(Parents(graph, n)) = 0
                            <=> Parents(graph, n) = {}
    BY <1>2, NodeSets
  <1>4. TypeOK
    <2>1. pending \in [Node -> Nat]
      <3> DEFINE parentCount(n) == Cardinality(Parents(graph, n))
      <3>1. \A n \in Node : parentCount(n) \in Nat
        BY <1>2, NodeSets
      <3>2. pending = [n \in Node |-> parentCount(n)]
        BY DEF Init
      <3> HIDE DEF parentCount
      <3>3. QED
        BY <3>1, <3>2
    <2>2. task \in [Node -> TaskState]
      BY DEF Init, TaskState
    <2>3. QED
      BY <1>1, <2>1, <2>2 DEF Init, TypeOK
  <1>5. GraphInv
    BY DEF Init, GraphInv
  <1>6. TaskInv
    BY DEF Init, TaskInv, Live
  <1>7. HeapInv
    <2>1. \A n \in Node : Unreleased(n) = Parents(graph, n)
      BY DEF Init, Unreleased, Settled
    <2>2. QED
      BY <1>3, <2>1 DEF Init, HeapInv
  <1>8. RunningInv
    BY <1>4, LimitType, FS_EmptySet DEF Init, RunningInv
  <1>9. OrderInv
    BY DEF Init, OrderInv
  <1>10. QED
    BY <1>4, <1>5, <1>6, <1>7, <1>8, <1>9 DEF IInv

(* What releasing the children of a node does to counters and heap, when   *)
(* that node is the one that becomes settled.                              *)
LEMMA ReleaseKeepsHeap ==
  ASSUME TypeOK, GraphInv, HeapInv, Scheduling,
         NEW n \in Node, n \notin Settled, pending[n] = 0,
         graph' = graph, Settled' = Settled \cup {n},
         started' = started \cup {n},
         pending' = Released(n),
         ready' = (ready \ {n}) \cup NewlyReady(n)
  PROVE  /\ HeapInv'
         /\ pending' \in [Node -> Nat]
         /\ ready' \subseteq Node
  <1>1. \A c \in Node : pending[c] = Cardinality(Unreleased(c))
    BY DEF HeapInv
  <1>2. \A c \in Node : Unreleased(c) \subseteq Node
    BY DEF Unreleased, Parents
  <1>3. \A c \in Node : Unreleased(c)' = Unreleased(c) \ {n}
    BY DEF Unreleased, Parents
  <1>4. \A c \in Node : n \in Unreleased(c) <=> c \in Children(graph, n)
    BY DEF Unreleased, Parents, Children
  <1>5. \A c \in Node : pending'[c] = Cardinality(Unreleased(c)')
    <2> TAKE c \in Node
    <2>1. CASE c \in Children(graph, n)
      <3>1. Cardinality(Unreleased(c)) > 0
        BY <1>2, <1>4, <2>1, RemoveNode
      <3>2. pending'[c] = pending[c] - 1
        BY <1>1, <2>1, <3>1 DEF Released
      <3>3. Cardinality(Unreleased(c)') = Cardinality(Unreleased(c)) - 1
        BY <1>2, <1>3, <1>4, <2>1, RemoveNode
      <3>4. QED
        BY <1>1, <3>2, <3>3
    <2>2. CASE c \notin Children(graph, n)
      <3>1. pending'[c] = pending[c]
        BY <2>2 DEF Released
      <3>2. Unreleased(c)' = Unreleased(c)
        BY <1>3, <1>4, <2>2
      <3>3. QED
        BY <1>1, <3>1, <3>2
    <2>3. QED
      BY <2>1, <2>2
  <1>6. pending \in [Node -> Nat]
    BY DEF TypeOK
  <1>7. pending' \in [Node -> Nat]
    BY <1>6 DEF Released
  <1>8. \A c \in started' : pending'[c] = 0
    BY <1>6 DEF HeapInv, Released, TypeOK
  <1>9. n \notin Children(graph, n)
    BY DagIsIrreflexive DEF GraphInv, Children
  <1>10. ready' = {c \in Node \ started' : pending'[c] = 0}
    <2>1. \A c \in Children(graph, n) : c \in Node /\ pending[c] > 0
      <3> TAKE c \in Children(graph, n)
      <3>1. c \in Node
        BY DEF Children
      <3>2. Cardinality(Unreleased(c)) > 0
        BY <1>2, <1>4, <3>1, RemoveNode
      <3>3. QED
        BY <1>1, <3>1, <3>2
    <2>2. ready = {c \in Node \ started : pending[c] = 0}
      BY DEF HeapInv
    <2>3. \A c \in Node : pending'[c] = 0 <=>
                           \/ c \in Children(graph, n) /\ pending[c] = 1
                           \/ pending[c] = 0
      BY <1>6, <2>1 DEF Released
    <2>4. NewlyReady(n) = {c \in Node \ started' : /\ c \in Children(graph, n)
                                                  /\ pending[c] = 1}
      BY <1>9, <2>1 DEF NewlyReady
    <2>5. QED
      BY <2>2, <2>3, <2>4
  <1>11. ready' \subseteq Node
    BY <1>10
  <1>12. QED
    BY <1>5, <1>7, <1>8, <1>10, <1>11 DEF HeapInv

(* Steps that release: the popped node settles at once (Skip, Replay), or  *)
(* a joined one leaves the JoinSet.                                        *)
LEMMA PopFacts ==
  ASSUME IInv, NEW n \in Node, Pop(n)
  PROVE  /\ pc = "fill" /\ Scheduling
         /\ pending[n] = 0
         /\ n \notin started /\ n \notin set /\ n \notin Settled
         /\ task[n] = "none"
         /\ \A m \in Parents(graph, n) : task[m] \notin {"none", "live"}
  <1>1. Scheduling /\ pc = "fill" /\ n \in ready /\ n \notin started
    BY DEF Pop, Scheduling
  <1>2. pending[n] = 0
    BY <1>1 DEF IInv, HeapInv
  <1>3. n \notin set /\ task[n] = "none"
    BY <1>1 DEF IInv, TaskInv
  <1>4. Parents(graph, n) \subseteq Settled
    <2>1. Unreleased(n) \subseteq Node
      BY DEF Unreleased, Parents
    <2>2. Cardinality(Unreleased(n)) = 0
      BY <1>1, <1>2 DEF IInv, HeapInv
    <2>3. Unreleased(n) = {}
      BY <2>1, <2>2, NodeSets
    <2>4. QED
      BY <2>3 DEF Unreleased
  <1>5. \A m \in Settled : task[m] \notin {"none", "live"}
    BY <1>1 DEF IInv, TaskInv, TypeOK, Settled, Live
  <1>6. QED
    BY <1>1, <1>2, <1>3, <1>4, <1>5 DEF Settled

LEMMA SkipStep ==
  ASSUME IInv, NEW n \in Node, Skip(n)
  PROVE  IInv'
  <1>1. Pop(n)
    BY DEF Skip
  <1>2. /\ pc = "fill" /\ Scheduling /\ pending[n] = 0
        /\ n \notin started /\ n \notin set /\ n \notin Settled
        /\ task[n] = "none"
        /\ \A m \in Parents(graph, n) : task[m] \notin {"none", "live"}
    BY <1>1, PopFacts
  <1>3. started' = started \cup {n} /\ Settled' = Settled \cup {n}
    BY <1>1, <1>2 DEF Pop, Skip, Settled
  <1>4. HeapInv' /\ pending' \in [Node -> Nat] /\ ready' \subseteq Node
    BY <1>2, <1>3, ReleaseKeepsHeap DEF IInv, Skip
  <1>5. TypeOK'
    <2>1. task' \in [Node -> TaskState]
      BY DEF IInv, TypeOK, Skip, TaskState
    <2>2. started' \subseteq Node
      BY <1>3 DEF IInv, TypeOK
    <2>3. QED
      BY <1>4, <2>1, <2>2 DEF IInv, TypeOK, Skip
  <1>6. GraphInv'
    BY DEF IInv, GraphInv, Skip
  <1>7. TaskInv'
    BY <1>2, <1>3 DEF IInv, TypeOK, TaskInv, Skip, Live
  <1>8. RunningInv'
    BY DEF IInv, RunningInv, Skip, Scheduling, Limit
  <1>9. OrderInv'
    BY <1>2, <1>3 DEF IInv, TypeOK, TaskInv, OrderInv, Skip, Parents
  <1>10. QED
    BY <1>4, <1>5, <1>6, <1>7, <1>8, <1>9 DEF IInv

LEMMA ReplayStep ==
  ASSUME IInv, NEW n \in Node,
         NEW outcome \in {"replayed", "replayed_failure"}, Replay(n, outcome)
  PROVE  IInv'
  <1>1. Pop(n)
    BY DEF Replay
  <1>2. /\ pc = "fill" /\ Scheduling /\ pending[n] = 0
        /\ n \notin started /\ n \notin set /\ n \notin Settled
        /\ task[n] = "none"
        /\ \A m \in Parents(graph, n) : task[m] \notin {"none", "live"}
    BY <1>1, PopFacts
  <1>3. started' = started \cup {n} /\ Settled' = Settled \cup {n}
    BY <1>1, <1>2 DEF Pop, Replay, Settled
  <1>4. HeapInv' /\ pending' \in [Node -> Nat] /\ ready' \subseteq Node
    BY <1>2, <1>3, ReleaseKeepsHeap DEF IInv, Replay
  <1>5. TypeOK'
    <2>1. cancel' \in BOOLEAN /\ failed' \in BOOLEAN
      BY Zenon DEF IInv, TypeOK, Replay
    <2>2. task' \in [Node -> TaskState]
      BY DEF IInv, TypeOK, Replay, TaskState
    <2>3. started' \subseteq Node
      BY <1>3 DEF IInv, TypeOK
    <2>4. QED
      BY <1>4, <2>1, <2>2, <2>3 DEF IInv, TypeOK, Replay
  <1>6. GraphInv'
    BY DEF IInv, GraphInv, Replay
  <1>7. TaskInv'
    BY <1>2, <1>3 DEF IInv, TypeOK, TaskInv, Replay, Live
  <1>8. RunningInv'
    BY DEF IInv, RunningInv, Replay, Scheduling, Limit
  <1>9. OrderInv'
    BY <1>2, <1>3 DEF IInv, TypeOK, TaskInv, OrderInv, Replay, Parents
  <1>10. QED
    BY <1>4, <1>5, <1>6, <1>7, <1>8, <1>9 DEF IInv

LEMMA SpawnStep ==
  ASSUME IInv, NEW n \in Node, Spawn(n)
  PROVE  IInv'
  <1>1. Pop(n)
    BY DEF Spawn
  <1>2. /\ pc = "fill" /\ Scheduling /\ pending[n] = 0
        /\ n \notin started /\ n \notin set /\ n \notin Settled
        /\ task[n] = "none"
        /\ \A m \in Parents(graph, n) : task[m] \notin {"none", "live"}
    BY <1>1, PopFacts
  <1>3. started' = started \cup {n} /\ set' = set \cup {n} /\ Settled' = Settled
    BY <1>1, <1>2 DEF Pop, Spawn, Settled
  <1>4. TypeOK'
    BY <1>3 DEF IInv, TypeOK, Spawn, TaskState
  <1>5. GraphInv'
    BY DEF IInv, GraphInv, Spawn
  <1>6. TaskInv'
    BY <1>2, <1>3 DEF IInv, TypeOK, TaskInv, Spawn, Live
  <1>7. HeapInv'
    <2>1. \A c \in Node : Unreleased(c)' = Unreleased(c)
      BY <1>3 DEF Unreleased, Parents, Spawn
    <2>2. QED
      BY <1>2, <1>3, <2>1 DEF IInv, HeapInv, Spawn, Scheduling
  <1>8. RunningInv'
    <2>1. Cardinality(set') = Cardinality(set) + 1
      BY <1>2, <1>3, AddNode DEF IInv, TypeOK
    <2>2. running < Limit
      BY <1>1 DEF Pop, CanPop
    <2>3. QED
      BY <1>2, <2>1, <2>2, LimitType
         DEF IInv, TypeOK, RunningInv, Spawn, Scheduling, Limit
  <1>9. OrderInv'
    BY <1>2, <1>3 DEF IInv, TypeOK, TaskInv, OrderInv, Spawn, Parents
  <1>10. QED
    BY <1>4, <1>5, <1>6, <1>7, <1>8, <1>9 DEF IInv

(* Steps of the scheduler that leave the counters and the heap alone.      *)
LEMMA EndFillStep ==
  ASSUME IInv, EndFill
  PROVE  IInv'
  <1>1. TypeOK' /\ GraphInv' /\ TaskInv' /\ OrderInv'
    BY DEF IInv, TypeOK, GraphInv, TaskInv, OrderInv, EndFill, Summary, Live, Parents
  <1>2. HeapInv' /\ RunningInv'
    BY DEF IInv, HeapInv, RunningInv, EndFill, Scheduling, Unreleased,
           Settled, Parents, Limit
  <1>3. QED
    BY <1>1, <1>2 DEF IInv

LEMMA JoinErrorStep ==
  ASSUME IInv, NEW n \in Node, JoinError(n)
  PROVE  IInv'
  BY DEF IInv, TypeOK, GraphInv, TaskInv, OrderInv, HeapInv, RunningInv,
         JoinError, Scheduling, Parents

LEMMA JoinReleaseStep ==
  ASSUME IInv, NEW n \in Node, JoinRelease(n)
  PROVE  IInv'
  <1>1. /\ pc = "join" /\ Scheduling /\ n \in set /\ n \in started
        /\ n \notin Settled /\ pending[n] = 0 /\ n \notin ready
        /\ task[n] \in {"ok", "failed"}
    BY DEF IInv, TypeOK, TaskInv, HeapInv, JoinRelease, Joined, Joinable,
           Scheduling, Settled
  <1>2. /\ set' = set \ {n} /\ started' = started /\ graph' = graph
        /\ hook' = hook /\ task' = task /\ pc' = "fill"
    BY DEF JoinRelease, Joined
  <1>3. started' = started \cup {n} /\ Settled' = Settled \cup {n}
    BY <1>1, <1>2 DEF Settled
  <1>4. ready' = (ready \ {n}) \cup NewlyReady(n) /\ pending' = Released(n)
    BY <1>1 DEF JoinRelease
  <1>5. HeapInv' /\ pending' \in [Node -> Nat] /\ ready' \subseteq Node
    BY <1>1, <1>2, <1>3, <1>4, ReleaseKeepsHeap DEF IInv
  <1>6. RunningInv' /\ running' \in Nat
    <2>1. /\ Cardinality(set) > 0
          /\ Cardinality(set') = Cardinality(set) - 1
          /\ Cardinality(set) \in Nat
      BY <1>1, <1>2, RemoveNode, NodeSets DEF IInv, TypeOK
    <2>2. running = Cardinality(set) /\ running <= Limit
      BY <1>1 DEF IInv, RunningInv
    <2>3. running' = running - 1 /\ Limit' = Limit
      BY DEF JoinRelease, Joined, Limit
    <2>4. QED
      BY <2>1, <2>2, <2>3, LimitType DEF IInv, RunningInv
  <1>7. TypeOK'
    <2>1. failed' \in BOOLEAN
      BY Zenon DEF IInv, TypeOK, JoinRelease, Joined
    <2>2. QED
      BY <1>2, <1>5, <1>6, <2>1 DEF IInv, TypeOK, JoinRelease, Joined
  <1>8. GraphInv' /\ TaskInv' /\ OrderInv'
    BY <1>1, <1>2 DEF IInv, GraphInv, TaskInv, OrderInv, Live, Parents
  <1>9. QED
    BY <1>5, <1>6, <1>7, <1>8 DEF IInv

LEMMA JoinFailFastStep ==
  ASSUME IInv, NEW n \in Node, JoinFailFast(n)
  PROVE  IInv'
  <1>1. /\ set' = set \ {n} /\ started' = started /\ graph' = graph
        /\ hook' = hook /\ task' = task /\ pc = "join" /\ pc' = "drain"
        /\ n \in set /\ task[n] = "failed"
    BY DEF JoinFailFast, Joined, Joinable
  <1>2. running' \in Nat
    <2>1. Cardinality(set) > 0 /\ Cardinality(set) \in Nat
      BY <1>1, RemoveNode, NodeSets DEF IInv, TypeOK
    <2>2. running = Cardinality(set) /\ running' = running - 1
      BY <1>1 DEF IInv, RunningInv, Scheduling, JoinFailFast, Joined
    <2>3. QED
      BY <2>1, <2>2
  <1>3. TypeOK'
    <2>1. failed' \in BOOLEAN
      BY Zenon DEF IInv, TypeOK, JoinFailFast, Joined
    <2>2. QED
      BY <1>1, <1>2, <2>1 DEF IInv, TypeOK, JoinFailFast, Joined
  <1>4. GraphInv' /\ TaskInv' /\ OrderInv'
    BY <1>1 DEF IInv, GraphInv, TaskInv, OrderInv, Live, Parents
  <1>5. HeapInv' /\ RunningInv'
    BY <1>1 DEF HeapInv, RunningInv, Scheduling
  <1>6. QED
    BY <1>3, <1>4, <1>5 DEF IInv

LEMMA DrainStep ==
  ASSUME IInv, NEW n \in Node, Drain(n)
  PROVE  IInv'
  BY DEF IInv, TypeOK, GraphInv, TaskInv, OrderInv, HeapInv, RunningInv,
         Drain, Joinable, Scheduling, Live, Parents

LEMMA EndDrainStep ==
  ASSUME IInv, EndDrain
  PROVE  IInv'
  BY DEF IInv, TypeOK, GraphInv, TaskInv, OrderInv, HeapInv, RunningInv,
         EndDrain, Summary, Scheduling, Parents

(* Steps of the job tasks.                                                 *)
LEMMA FinishStep ==
  ASSUME IInv, NEW n \in Node, NEW outcome \in {"ok", "failed", "error"},
         Finish(n, outcome)
  PROVE  IInv'
  <1>1. TypeOK' /\ GraphInv' /\ TaskInv'
    BY DEF IInv, TypeOK, TaskState, GraphInv, TaskInv, Finish, Live
  <1>2. HeapInv' /\ RunningInv'
    BY DEF IInv, HeapInv, RunningInv, Finish, Scheduling, Unreleased,
           Settled, Parents, Limit
  <1>3. OrderInv'
    BY DEF IInv, TypeOK, OrderInv, Finish, Parents
  <1>4. QED
    BY <1>1, <1>2, <1>3 DEF IInv

LEMMA AbortStep ==
  ASSUME IInv, NEW n \in Node, Abort(n)
  PROVE  IInv'
  <1>1. TypeOK' /\ GraphInv' /\ TaskInv'
    BY DEF IInv, TypeOK, TaskState, GraphInv, TaskInv, Abort, Live
  <1>2. HeapInv' /\ RunningInv'
    BY DEF IInv, HeapInv, RunningInv, Abort, Scheduling, Unreleased,
           Settled, Parents, Limit
  <1>3. OrderInv'
    BY DEF IInv, TypeOK, OrderInv, Abort, Parents
  <1>4. QED
    BY <1>1, <1>2, <1>3 DEF IInv

LEMMA NextIInv == IInv /\ [Next]_vars => IInv'
  <1> SUFFICES ASSUME IInv, [Next]_vars PROVE IInv'
    OBVIOUS
  <1>1. CASE SchedulerStep
    BY <1>1, SkipStep, ReplayStep, SpawnStep, EndFillStep, JoinErrorStep,
       JoinReleaseStep, JoinFailFastStep, DrainStep, EndDrainStep
       DEF SchedulerStep, ReplayAny
  <1>2. CASE TaskStep
    BY <1>2, FinishStep, AbortStep DEF TaskStep, FinishAny
  <1>3. CASE UNCHANGED vars
    BY <1>3 DEF vars, IInv, TypeOK, GraphInv, TaskInv, OrderInv, HeapInv,
                RunningInv, Scheduling, Unreleased, Settled, Parents, Live, Limit
  <1>4. QED
    BY <1>1, <1>2, <1>3 DEF Next, Terminated

(* The invariant holds in every state of every run.                        *)
THEOREM Invariance == Spec => []IInv
  BY InitIInv, NextIInv, PTL DEF Spec

-----------------------------------------------------------------------------
(* Every variable keeps its type.                                          *)
THEOREM TypeCorrect == Spec => []TypeOK
  <1>1. IInv => TypeOK
    BY DEF IInv
  <1>2. QED
    BY <1>1, Invariance, PTL

(* Two conflicting jobs are never in flight at the same time.              *)
THEOREM Exclusion == Spec => []ConflictsNeverOverlap
  <1>1. IInv => ConflictsNeverOverlap
    <2> SUFFICES ASSUME IInv, NEW m \in Node, NEW n \in Node, m # n,
                        PairConflicts(hook.jobs[m], hook.jobs[n]),
                        m \in Live, n \in Live
                 PROVE  FALSE
      BY DEF ConflictsNeverOverlap
    <2>1. hook.jobs \in [Node -> Job]
      BY DEF IInv, TypeOK, Hook
    <2>2. <<m, n>> \in graph \/ <<n, m>> \in graph
      BY <2>1, ConflictHasEdge DEF IInv, GraphInv
    <2>3. m \in started /\ n \in started
      BY DEF IInv, TaskInv, Live
    <2>4. QED
      BY <2>2, <2>3 DEF IInv, OrderInv, Parents, Live
  <1>2. QED
    BY <1>1, Invariance, PTL

(* No child is released twice, or after it was started.                    *)
THEOREM ReleaseIsSafe == Spec => ReleaseAssertionsHold
  <1> DEFINE Asserted ==
        \A n \in Node, c \in Node :
          /\ pc \in {"fill", "join"}
          /\ n \in Settled' \ Settled /\ c \in Children(graph, n)
          => pending[c] > 0 /\ c \notin started
  <1>1. IInv => Asserted
    <2> SUFFICES ASSUME IInv, NEW n \in Node, NEW c \in Node,
                        Scheduling, n \notin Settled, c \in Children(graph, n)
                 PROVE  pending[c] > 0 /\ c \notin started
      BY DEF Scheduling
    <2>1. n \in Unreleased(c)
      BY DEF Children, Unreleased, Parents
    <2>2. /\ Cardinality(Unreleased(c)) \in Nat
          /\ Cardinality(Unreleased(c)) # 0
      <3>1. Unreleased(c) \subseteq Node
        BY DEF Unreleased, Parents
      <3>2. QED
        BY <2>1, <3>1, NodeSets
    <2>3. pending[c] = Cardinality(Unreleased(c))
      BY DEF IInv, HeapInv
    <2>4. QED
      BY <2>2, <2>3 DEF IInv, HeapInv
  <1>2. IInv /\ [Next]_vars => [Asserted]_vars
    BY <1>1
  <1>3. QED
    BY <1>2, Invariance, PTL DEF Spec, ReleaseAssertionsHold

(* The scheduler never waits with a free slot while a job could run.       *)
THEOREM WorkConserving == Spec => []NoIdleSlot
  <1> DEFINE Filled == pc = "join" => ~CanPop
  <1>1. IInv /\ Filled => NoIdleSlot
    <2> SUFFICES ASSUME IInv, Filled, pc = "join", running < Limit,
                        NEW n \in Node \ started,
                        Parents(graph, n) \subseteq started \ set
                 PROVE  FALSE
      BY DEF NoIdleSlot
    <2>1. Unreleased(n) = {}
      BY DEF Unreleased, Settled
    <2>2. pending[n] = 0
      BY <2>1, FS_EmptySet DEF IInv, HeapInv, Scheduling
    <2>3. n \in ready
      BY <2>2 DEF IInv, HeapInv, Scheduling
    <2>4. QED
      BY <2>3 DEF CanPop
  <1>2. Init => Filled
    BY DEF Init
  <1>3. IInv /\ Filled /\ [Next]_vars => Filled'
    <2> SUFFICES ASSUME IInv, Filled, [Next]_vars PROVE Filled'
      OBVIOUS
    <2>1. CASE SchedulerStep
      BY <2>1 DEF SchedulerStep, Skip, ReplayAny, Replay, Spawn, Pop, EndFill,
                  JoinError, JoinRelease, JoinFailFast, Drain, EndDrain, CanPop, Limit
    <2>2. CASE TaskStep
      BY <2>2 DEF TaskStep, FinishAny, Finish, Abort, CanPop, Limit
    <2>3. CASE UNCHANGED vars
      BY <2>3 DEF vars, CanPop, Limit
    <2>4. QED
      BY <2>1, <2>2, <2>3 DEF Next, Terminated
  <1>4. QED
    BY <1>1, <1>2, <1>3, Invariance, PTL DEF Spec

(* A run that returns a report leaves no task running.                     *)
THEOREM ReportIsLast == Spec => []NoTaskOutlivesReport
  <1> DEFINE Inv == (pc # "returned" => result = "none") /\ NoTaskOutlivesReport
  <1>1. Init => Inv
    BY DEF Init, NoTaskOutlivesReport
  <1>2. IInv /\ Inv /\ [Next]_vars => Inv'
    <2> SUFFICES ASSUME IInv, Inv, [Next]_vars PROVE Inv'
      OBVIOUS
    <2> USE DEF NoTaskOutlivesReport
    <2>1. ASSUME set = {}, pc # "returned" PROVE Live = {}
      BY <2>1 DEF IInv, TaskInv
    <2>2. CASE EndFill
      BY <2>1, <2>2 DEF EndFill, Live
    <2>3. CASE EndDrain
      BY <2>1, <2>3 DEF EndDrain, Live
    <2>4. CASE \E n \in Node : \/ Skip(n) \/ ReplayAny(n) \/ Spawn(n)
                              \/ JoinRelease(n) \/ JoinFailFast(n) \/ Drain(n)
      BY <2>4 DEF Skip, ReplayAny, Replay, Spawn, Pop, JoinRelease,
                  JoinFailFast, Joined, Drain
    <2>5. CASE \E n \in Node : JoinError(n)
      BY <2>5 DEF JoinError
    <2>6. CASE TaskStep
      BY <2>6 DEF TaskStep, FinishAny, Finish, Abort, Live
    <2>7. CASE UNCHANGED vars
      BY <2>7 DEF vars, Live
    <2>8. QED
      BY <2>2, <2>3, <2>4, <2>5, <2>6, <2>7 DEF Next, SchedulerStep, Terminated
  <1>3. QED
    BY <1>1, <1>2, Invariance, PTL DEF Spec

(* The report says ok exactly when nothing the run started has failed.     *)
THEOREM FailuresAreReported == Spec => []NoFailureIsLost
  <1> DEFINE Failure == {"failed", "error", "replayed_failure"}
             Known == failed <=> \E n \in Settled : task[n] \in Failure
             Verdict == /\ pc # "returned" => result = "none"
                        /\ pc # "returned" => Known
                        /\ pc = "drain" => failed
                        /\ NoFailureIsLost
  <1>1. Init => Verdict
    BY DEF Init, NoFailureIsLost, Settled
  <1>2. IInv /\ NoTaskOutlivesReport /\ Verdict /\ [Next]_vars => Verdict'
    <2> SUFFICES ASSUME IInv, NoTaskOutlivesReport, Verdict, [Next]_vars
                 PROVE  Verdict'
      OBVIOUS
    <2>1. ASSUME set = {}, Known
          PROVE  failed <=> \E n \in Node : task[n] \in Failure
      <3>1. \A n \in Node : task[n] \in Failure => n \in Settled
        BY <2>1 DEF IInv, TaskInv, Settled
      <3>2. Settled \subseteq Node
        BY DEF IInv, TypeOK, Settled
      <3>3. QED
        BY <2>1, <3>1, <3>2
    <2>2. CASE EndFill
      BY <2>1, <2>2 DEF EndFill, Summary, NoFailureIsLost, Settled
    <2>3. CASE EndDrain
      BY <2>1, <2>3 DEF EndDrain, Summary, NoFailureIsLost, Settled
    <2>4. ASSUME NEW n \in Node, Skip(n) PROVE Verdict'
      <3>1. Settled' = Settled \cup {n} /\ n \notin Settled
        BY <2>4, PopFacts DEF Skip, Pop, Settled
      <3>2. QED
        BY <2>4, <3>1 DEF Skip, Pop, NoFailureIsLost, IInv, TypeOK, Settled
    <2>5. ASSUME NEW n \in Node, ReplayAny(n) PROVE Verdict'
      <3> PICK outcome \in {"replayed", "replayed_failure"} : Replay(n, outcome)
        BY <2>5 DEF ReplayAny
      <3>1. Settled' = Settled \cup {n} /\ n \notin Settled
        BY PopFacts DEF Replay, Pop, Settled
      <3>2. /\ task' = [task EXCEPT ![n] = outcome]
            /\ failed' = (failed \/ outcome = "replayed_failure")
            /\ pc = "fill" /\ pc' = pc /\ result' = result
        BY DEF Replay, Pop
      <3>3. task'[n] = outcome /\ \A m \in Settled : task'[m] = task[m]
        BY <3>1, <3>2 DEF IInv, TypeOK, Settled
      <3>4. outcome \in Failure <=> outcome = "replayed_failure"
        OBVIOUS
      <3>5. (failed' <=> \E m \in Settled' : task'[m] \in Failure)
              <=> (failed <=> \E m \in Settled : task[m] \in Failure)
              \/ outcome = "replayed_failure"
        BY <3>1, <3>2, <3>3, <3>4
      <3>6. QED
        BY <3>2, <3>5 DEF NoFailureIsLost
    <2>6. ASSUME NEW n \in Node, Spawn(n) PROVE Verdict'
      <3>1. Settled' = Settled /\ n \notin Settled
        BY <2>6, PopFacts DEF Spawn, Pop, Settled
      <3>2. QED
        BY <2>6, <3>1 DEF Spawn, Pop, NoFailureIsLost, IInv, TypeOK, Settled
    <2>7. ASSUME NEW n \in Node, JoinError(n) PROVE Verdict'
      BY <2>7 DEF JoinError, NoFailureIsLost
    <2>8. ASSUME NEW n \in Node, JoinRelease(n) \/ JoinFailFast(n) PROVE Verdict'
      <3>1. /\ Joined(n) /\ task[n] \in {"ok", "failed"} /\ n \in started
            /\ pc' # "returned" /\ (pc' = "drain" => task[n] = "failed")
        BY <2>8 DEF JoinRelease, JoinFailFast, Joined, Joinable, IInv, TaskInv
      <3>2. Settled' = Settled \cup {n}
        BY <3>1 DEF Joined, Joinable, Settled
      <3>3. QED
        <4>1. result' = "none" /\ task' = task
          BY <3>1 DEF Joined
        <4>2. Known'
          <5>1. failed' <=> failed \/ task[n] = "failed"
            BY <3>1, Zenon DEF Joined
          <5>2. pc # "returned"
            BY <3>1 DEF Joined
          <5>3. QED
            BY <3>1, <3>2, <4>1, <5>1, <5>2
        <4>3. pc' = "drain" => failed'
          BY <3>1 DEF Joined
        <4>4. QED
          BY <3>1, <4>1, <4>2, <4>3 DEF NoFailureIsLost
    <2>9. ASSUME NEW n \in Node, Drain(n) PROVE Verdict'
      <3>1. Settled \subseteq Settled' /\ failed /\ pc = "drain"
        BY <2>9 DEF Drain, Settled
      <3>2. QED
        BY <2>9, <3>1 DEF Drain, NoFailureIsLost
    <2>10. ASSUME NEW n \in Node, n \in Live, FinishAny(n) \/ Abort(n)
           PROVE  Verdict'
      <3>1. result \notin {"ok", "failed"} /\ result' = result
        BY <2>10 DEF NoTaskOutlivesReport, FinishAny, Finish, Abort
      <3>2. n \in set \/ pc = "returned"
        BY <2>10 DEF IInv, TaskInv
      <3>3. pc # "returned" => Settled' = Settled /\ n \notin Settled
        BY <2>10, <3>2 DEF FinishAny, Finish, Abort, Settled
      <3>4. \A m \in Settled : m # n => task'[m] = task[m]
        BY <2>10 DEF FinishAny, Finish, Abort, IInv, TypeOK, Settled
      <3>5. pc' = pc /\ failed' = failed
        BY <2>10 DEF FinishAny, Finish, Abort
      <3>6. QED
        BY <3>1, <3>3, <3>4, <3>5 DEF NoFailureIsLost
    <2>11. CASE UNCHANGED vars
      BY <2>11 DEF vars, NoFailureIsLost, Settled
    <2>12. \A n \in Node : FinishAny(n) \/ Abort(n) => n \in Live
      BY DEF FinishAny, Finish, Abort, Live
    <2>13. QED
      BY <2>2, <2>3, <2>4, <2>5, <2>6, <2>7, <2>8, <2>9, <2>10, <2>11, <2>12
         DEF Next, SchedulerStep, TaskStep, Terminated
  <1>3. QED
    BY <1>1, <1>2, Invariance, ReportIsLast, PTL DEF Spec

-----------------------------------------------------------------------------
(* The report is complete.                                                 *)

LEMMA LeastNatural ==
  ASSUME NEW T, T \subseteq Nat, T # {}
  PROVE  \E x \in T : \A y \in T : x <= y
  <1> DEFINE Less == {e \in Nat \X Nat : e[1] < e[2]}
  <1>1. IsWellFoundedOn(Less, Nat)
    BY NatLessThanWellFounded DEF OpToRel
  <1>2. \E x \in T : \A y \in T : <<y, x>> \notin Less
    <2> HIDE DEF Less
    <2> QED BY <1>1, WFMin
  <1>3. PICK x \in T : \A y \in T : <<y, x>> \notin Less
    BY <1>2
  <1>4. ASSUME NEW y \in T PROVE x <= y
    <2>1. x \in Nat /\ y \in Nat /\ ~(y < x)
      BY <1>3
    <2> QED BY <2>1
  <1> QED BY <1>4

(* Of any jobs there is one that nothing among them goes before.           *)
LEMMA LeastNode ==
  ASSUME NEW jobs \in [Node -> Job], NEW U, U \subseteq Node, U # {}
  PROVE  \E m \in U : \A n \in U : ~OrderFirst(jobs, n, m)
  <1>1. \A n \in U : n \in Nat /\ jobs[n].priority \in Nat
    BY DEF Node, Job
  <1> DEFINE P == {jobs[n].priority : n \in U}
  <1>2. PICK p \in P : \A q \in P : p <= q
    <2>1. P \subseteq Nat /\ P # {}
      BY <1>1
    <2> HIDE DEF P
    <2> QED BY <2>1, LeastNatural
  <1> DEFINE V == {n \in U : jobs[n].priority = p}
  <1>3. PICK m \in V : \A n \in V : m <= n
    <2>1. V \subseteq Nat /\ V # {}
      BY <1>1, <1>2
    <2> HIDE DEF V
    <2> QED BY <2>1, LeastNatural
  <1>4. ASSUME NEW n \in U PROVE ~OrderFirst(jobs, n, m)
    <2>1. p <= jobs[n].priority /\ jobs[m].priority = p
      BY <1>2, <1>3
    <2>2. jobs[n].priority = p => m <= n
      BY <1>3
    <2> QED BY <1>1, <1>3, <2>1, <2>2 DEF OrderFirst
  <1> QED BY <1>3, <1>4

(* With nothing to join and nothing to pop, every job was started: the     *)
(* first of those that were not would have all its parents behind it.      *)
LEMMA NothingLeft ==
  ASSUME IInv, pc = "fill", set = {}, ~CanPop
  PROVE  started = Node
  <1> SUFFICES ASSUME Node \ started # {} PROVE FALSE
    BY DEF IInv, TypeOK
  <1>1. hook.jobs \in [Node -> Job]
    BY DEF IInv, TypeOK, Hook
  <1>2. PICK m \in Node \ started :
          \A n \in Node \ started : ~OrderFirst(hook.jobs, n, m)
    BY <1>1, LeastNode
  <1>3. Unreleased(m) = {}
    <2>1. \A n \in Parents(graph, m) : n \in Node /\ OrderFirst(hook.jobs, n, m)
      BY DEF Parents, IInv, GraphInv, BuildDag
    <2> QED BY <1>2, <2>1 DEF Unreleased, Settled
  <1>4. pending[m] = 0
    BY <1>2, <1>3, NodeSets DEF IInv, HeapInv, Scheduling
  <1>5. m \in ready
    BY <1>2, <1>4 DEF IInv, HeapInv, Scheduling
  <1>6. running < Limit
    <2>1. running = 0
      BY NodeSets DEF IInv, RunningInv, Scheduling
    <2> QED BY <2>1, LimitType DEF IInv
  <1> QED BY <1>5, <1>6 DEF CanPop

Passed == {n \in Node : task[n] = "skipped"}

(* The counters, step by step.                                             *)
CountInv ==
  /\ pc # "returned" => result = "none"
  /\ pc = "drain" => hook.fail_fast /\ failed
  /\ jobs_skipped = Cardinality(Passed)
  /\ Scheduling => jobs_run + jobs_skipped = Cardinality(Settled)
  /\ jobs_run + jobs_skipped <= Cardinality(started)
  /\ (result = "ok" \/ (result = "failed" /\ ~hook.fail_fast))
       => started = Node /\ jobs_run + jobs_skipped = NumJobs

(* A step that settles a node counts it, as passed over or as run.         *)
LEMMA Counted ==
  ASSUME IInv, CountInv, Scheduling, IInv', NEW n \in Node,
         pc' \in {"fill", "join", "drain"}, hook' = hook, result' = result,
         pc' = "drain" => hook.fail_fast /\ failed',
         n \notin Settled, Settled' = Settled \cup {n},
         \/ /\ Passed' = Passed
            /\ jobs_skipped' = jobs_skipped /\ jobs_run' = jobs_run + 1
         \/ /\ n \notin Passed /\ Passed' = Passed \cup {n}
            /\ jobs_skipped' = jobs_skipped + 1 /\ jobs_run' = jobs_run
  PROVE  CountInv'
  <1>1. /\ Settled \subseteq Node /\ Passed \subseteq Node
        /\ jobs_run \in Nat /\ jobs_skipped \in Nat
    BY DEF IInv, TypeOK, Settled, Passed
  <1>2. jobs_skipped' = Cardinality(Passed')
    BY <1>1, AddNode DEF CountInv
  <1>3. jobs_run' + jobs_skipped' = Cardinality(Settled')
    <2>1. Cardinality(Settled') = Cardinality(Settled) + 1
      BY <1>1, AddNode
    <2>2. /\ jobs_run + jobs_skipped = Cardinality(Settled)
          /\ Cardinality(Settled) \in Nat
      BY <1>1, NodeSets DEF CountInv
    <2> QED BY <1>1, <2>1, <2>2
  <1>4. Cardinality(Settled') <= Cardinality(started')
    <2>1. Settled' \subseteq started' /\ started' \subseteq Node
      BY DEF IInv, TypeOK, Settled
    <2> QED BY <2>1, NodeSets, FS_Subset
  <1>5. result' = "none"
    BY DEF CountInv, Scheduling
  <1> QED BY <1>2, <1>3, <1>4, <1>5 DEF CountInv

LEMMA StartedCount ==
  ASSUME IInv
  PROVE  /\ Cardinality(Settled) \in Nat /\ Cardinality(started) \in Nat
         /\ Cardinality(Settled) <= Cardinality(started)
         /\ Cardinality(Node) = NumJobs
  <1>1. Settled \subseteq started /\ started \subseteq Node
    BY DEF IInv, TypeOK, Settled
  <1>2. IsFiniteSet(started) /\ Cardinality(started) \in Nat /\ Cardinality(Settled) \in Nat
    BY <1>1, NodeSets
  <1>3. Cardinality(Node) = NumJobs
    <2>1. Cardinality(1..NumJobs) = IF 1 > NumJobs THEN 0 ELSE NumJobs - 1 + 1
      BY FS_Interval, NumJobsAssumption
    <2> QED BY <2>1, NumJobsAssumption DEF Node
  <1> QED BY <1>1, <1>2, <1>3, FS_Subset

LEMMA CountStep == IInv /\ CountInv /\ [Next]_vars => CountInv'
  <1> SUFFICES ASSUME IInv, CountInv, [Next]_vars PROVE CountInv'
    OBVIOUS
  <1>0. IInv'
    BY NextIInv
  <1>1. ASSUME NEW n \in Node, Skip(n) PROVE CountInv'
    <2>1. /\ Settled' = Settled \cup {n} /\ n \notin Settled
          /\ n \notin Passed /\ Passed' = Passed \cup {n}
      BY <1>1, PopFacts DEF Skip, Pop, Settled, Passed, IInv, TypeOK, TaskInv
    <2> QED BY <1>0, <1>1, <2>1, Counted DEF Skip, Pop, Scheduling
  <1>2. ASSUME NEW n \in Node, ReplayAny(n) PROVE CountInv'
    <2> PICK outcome \in {"replayed", "replayed_failure"} : Replay(n, outcome)
      BY <1>2 DEF ReplayAny
    <2>1. /\ Settled' = Settled \cup {n} /\ n \notin Settled /\ Passed' = Passed
      BY PopFacts DEF Replay, Pop, Settled, Passed, IInv, TypeOK, TaskInv
    <2> QED BY <1>0, <2>1, Counted DEF Replay, Pop, Scheduling
  <1>3. ASSUME NEW n \in Node, JoinRelease(n) \/ JoinFailFast(n) PROVE CountInv'
    <2>1. /\ Joined(n) /\ n \in started /\ n \in set
          /\ pc' = "fill" \/ (pc' = "drain" /\ hook.fail_fast /\ task[n] = "failed")
      BY <1>3 DEF JoinRelease, JoinFailFast, Joined, Joinable, IInv, TaskInv
    <2>2. /\ Settled' = Settled \cup {n} /\ n \notin Settled /\ Passed' = Passed
      BY <2>1 DEF Joined, Settled, Passed
    <2>3. failed' <=> failed \/ task[n] = "failed"
      BY <2>1, Zenon DEF Joined
    <2> QED BY <1>0, <2>1, <2>2, <2>3, Counted DEF Joined, Scheduling
  <1>4. ASSUME NEW n \in Node, Spawn(n) PROVE CountInv'
    <2>1. /\ Settled' = Settled /\ n \notin started /\ Passed' = Passed
          /\ started' = started \cup {n} /\ started \subseteq Node
      BY <1>4, PopFacts DEF Spawn, Pop, Settled, Passed, IInv, TypeOK, TaskInv
    <2>2. Cardinality(started') = Cardinality(started) + 1
      BY <2>1, AddNode
    <2> QED BY <1>4, <2>1, <2>2, StartedCount
            DEF Spawn, Pop, CountInv, Scheduling, IInv, TypeOK
  <1>5. CASE EndFill
    <2>1. Settled' = Settled /\ Passed' = Passed
      BY <1>5 DEF EndFill, Settled, Passed
    <2>2. CASE pc' = "join"
      BY <1>5, <2>1, <2>2 DEF EndFill, CountInv, Scheduling
    <2>3. CASE set = {} /\ pc' = "returned"
      <3>1. started = Node /\ Settled = Node
        BY <1>5, <2>3, NothingLeft DEF EndFill, Settled
      <3> QED BY <1>5, <2>1, <2>3, <3>1, StartedCount DEF EndFill, CountInv, Scheduling
    <2> QED BY <1>5, <2>2, <2>3 DEF EndFill
  <1>6. CASE EndDrain
    BY <1>6 DEF EndDrain, Summary, CountInv, Passed, Scheduling
  <1>7. CASE \E n \in Node : JoinError(n) \/ Drain(n)
    BY <1>7 DEF JoinError, Drain, CountInv, Passed, Scheduling
  <1>8. CASE TaskStep
    <2>1. Passed' = Passed /\ Settled' = Settled
      BY <1>8 DEF TaskStep, FinishAny, Finish, Abort, Passed, Settled, IInv, TypeOK
    <2> QED BY <1>8, <2>1 DEF TaskStep, FinishAny, Finish, Abort, CountInv, Scheduling
  <1>9. CASE UNCHANGED vars
    BY <1>9 DEF vars, CountInv, Passed, Settled, Scheduling
  <1> QED BY <1>1, <1>2, <1>3, <1>4, <1>5, <1>6, <1>7, <1>8, <1>9
          DEF Next, SchedulerStep, Terminated

(* A run that returns a report, and was not cut short by fail_fast, has    *)
(* started and counted every job; none is counted twice.                   *)
THEOREM ReportsAreComplete == Spec => []ReportIsComplete
  <1>1. Init => CountInv
    <2> SUFFICES ASSUME Init PROVE CountInv
      OBVIOUS
    <2>1. Passed = {} /\ Settled = {} /\ started = {}
      BY DEF Init, Passed, Settled
    <2> QED BY <2>1, FS_EmptySet DEF Init, CountInv
  <1>2. IInv /\ CountInv => ReportIsComplete
    BY DEF CountInv, ReportIsComplete, Passed
  <1> QED BY <1>1, <1>2, CountStep, Invariance, PTL DEF Spec

-----------------------------------------------------------------------------
(* The executor implements ConflictSchedule.                               *)

(* ConflictSchedule's own instance of FiniteSets counts as this one does.  *)
LEMMA SameCardinality == \A S : Schedule!Cardinality(S) = Cardinality(S)
  BY DEF Schedule!Cardinality, Cardinality

LEMMA InitRefines == Init => Schedule!Init
  <1> SUFFICES ASSUME Init PROVE Schedule!Init
    OBVIOUS
  <1>1. TypeOK
    BY InitIInv DEF IInv
  <1>2. graph \subseteq Node \X Node /\ Limit \in Nat \ {0}
    BY <1>1, LimitType DEF TypeOK
  <1>3. Stage = [n \in Node |-> "waiting"]
    BY DEF Init, Stage
  <1>4. QED
    BY <1>2, <1>3 DEF Schedule!Init

(* What a pop of n leaves to show about the abstract job n.                *)
LEMMA PopCanGo ==
  ASSUME IInv, NEW n \in Node, Pop(n)
  PROVE  /\ Schedule!CanGo(n)
         /\ Cardinality(Schedule!Running) < Limit
  <1>1. task[n] = "none" /\ \A m \in Parents(graph, n) : task[m] \notin {"none", "live"}
    BY PopFacts
  <1>2. Schedule!CanGo(n)
    BY <1>1 DEF Schedule!CanGo, Stage, Parents
  <1>3. Schedule!Running = Live
    BY DEF Schedule!Running, Stage, Live
  <1>4. Live \subseteq set /\ set \subseteq Node
    BY DEF IInv, TypeOK, TaskInv, Pop
  <1>5. IsFiniteSet(set)
    BY <1>4, NodeSets
  <1>6. Cardinality(Live) <= Cardinality(set)
    BY <1>4, <1>5, FS_Subset
  <1>7. Cardinality(set) < Limit
    BY DEF IInv, RunningInv, Scheduling, Pop, CanPop
  <1>8. Cardinality(Live) \in Nat /\ Cardinality(set) \in Nat /\ Limit \in Nat
    BY <1>4, NodeSets, LimitType DEF IInv
  <1>9. QED
    BY <1>2, <1>3, <1>6, <1>7, <1>8

LEMMA NextRefines == IInv /\ [Next]_vars => [Schedule!Next]_(Schedule!vars)
  <1> SUFFICES ASSUME IInv, [Next]_vars
               PROVE  Schedule!Next \/ UNCHANGED <<graph, Limit, Stage>>
    BY DEF Schedule!vars
  <1>0. Limit' = Limit /\ graph' = graph
    BY DEF Next, SchedulerStep, TaskStep, Terminated, Skip, ReplayAny, Replay,
           Spawn, EndFill, JoinError, JoinRelease, JoinFailFast, Joined, Drain,
           EndDrain, FinishAny, Finish, Abort, vars, Limit
  <1>1. ASSUME NEW n \in Node, Skip(n)
        PROVE  Schedule!Next
    <2>1. Schedule!CanGo(n)
      BY <1>1, PopCanGo DEF Skip
    <2>2. Stage' = [Stage EXCEPT ![n] = "over"]
      BY <1>1 DEF Skip, Stage, IInv, TypeOK
    <2>3. Schedule!Pass(n)
      BY <1>0, <2>1, <2>2 DEF Schedule!Pass
    <2>4. QED
      BY <2>3 DEF Schedule!Next
  <1>2. ASSUME NEW n \in Node, ReplayAny(n)
        PROVE  Schedule!Next
    <2> PICK outcome \in {"replayed", "replayed_failure"} : Replay(n, outcome)
      BY <1>2 DEF ReplayAny
    <2>1. Schedule!CanGo(n)
      BY PopCanGo DEF Replay
    <2>2. Stage' = [Stage EXCEPT ![n] = "over"]
      BY DEF Replay, Stage, IInv, TypeOK
    <2>3. Schedule!Pass(n)
      BY <1>0, <2>1, <2>2 DEF Schedule!Pass
    <2>4. QED
      BY <2>3 DEF Schedule!Next
  <1>3. ASSUME NEW n \in Node, Spawn(n)
        PROVE  Schedule!Next
    <2>1. Schedule!CanGo(n) /\ Cardinality(Schedule!Running) < Limit
      BY <1>3, PopCanGo DEF Spawn
    <2>2. Stage' = [Stage EXCEPT ![n] = "running"]
      BY <1>3 DEF Spawn, Stage, IInv, TypeOK
    <2>3. UNCHANGED <<graph, Limit>>
      BY <1>0
    <2>4. Schedule!Begin(n)
      BY <2>1, <2>2, <2>3, SameCardinality DEF Schedule!Begin
    <2>5. QED
      BY <2>4 DEF Schedule!Next
  <1>4. ASSUME NEW n \in Node, NEW outcome \in TaskState \ {"none", "live"},
               task[n] = "live", task' = [task EXCEPT ![n] = outcome]
        PROVE  Schedule!Next
    <2>1. Stage[n] = "running" /\ Stage' = [Stage EXCEPT ![n] = "over"]
      BY <1>4 DEF Stage, IInv, TypeOK
    <2>2. Schedule!End(n)
      BY <1>0, <2>1 DEF Schedule!End
    <2>3. QED
      BY <2>2 DEF Schedule!Next
  <1>5. CASE TaskStep
    BY <1>4, <1>5 DEF TaskStep, FinishAny, Finish, Abort, TaskState
  <1>6. ASSUME UNCHANGED task
        PROVE  UNCHANGED <<graph, Limit, Stage>>
    BY <1>0, <1>6 DEF Stage
  <1>7. CASE SchedulerStep
    BY <1>1, <1>2, <1>3, <1>6, <1>7
       DEF SchedulerStep, EndFill, JoinError, JoinRelease, JoinFailFast, Joined,
           Drain, EndDrain
  <1>8. CASE UNCHANGED vars
    BY <1>6, <1>8 DEF vars
  <1>9. QED
    BY <1>5, <1>7, <1>8 DEF Next, Terminated

THEOREM Refinement == Spec => ImplementsSchedule
  BY InitRefines, NextRefines, Invariance, PTL
     DEF Spec, ImplementsSchedule, Schedule!Spec
=============================================================================
