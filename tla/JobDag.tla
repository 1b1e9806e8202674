------------------------------- MODULE JobDag -------------------------------
(***************************************************************************)
(* The capability DAG of runner/dag.rs: which pairs of a hook's jobs must  *)
(* not overlap, and which of the two goes first.                           *)
(*                                                                         *)
(* A job is known here by its position in the job list (`Node`) and by the *)
(* capabilities the resolver reads.  Glob patterns are opaque: ProbeHit    *)
(* holds the pairs <<p, q>> such that the representative file name that    *)
(* probe_filename makes of pattern p is matched by pattern q.              *)
(***************************************************************************)
EXTENDS Naturals

CONSTANTS
  NumJobs,    \* number of jobs of the hook that survive --skip / --only
  Pattern,    \* glob patterns
  ProbeHit    \* the probe relation between patterns

ASSUME NumJobsAssumption == NumJobs \in Nat
ASSUME ProbeHitAssumption == ProbeHit \subseteq Pattern \X Pattern

Node == 1..NumJobs

Job == [priority : Nat,
        reads : SUBSET Pattern,
        writes : SUBSET Pattern,
        network : BOOLEAN,
        concurrent_safe : BOOLEAN]

(***************************************************************************)
(* globsets_overlap: a probe of one side of the pair hits the other side.  *)
(* A writer without patterns has no globset and overlaps nothing.          *)
(***************************************************************************)
GlobsetsOverlap(writer, reader) ==
  \E w \in writer.writes, p \in reader.reads \cup reader.writes :
    <<p, w>> \in ProbeHit \/ <<w, p>> \in ProbeHit

(* Two network jobs serialise unless both are concurrent_safe.             *)
NetworkConflict(a, b) ==
  a.network /\ b.network /\ ~(a.concurrent_safe /\ b.concurrent_safe)

PairConflicts(a, b) ==
  NetworkConflict(a, b) \/ GlobsetsOverlap(a, b) \/ GlobsetsOverlap(b, a)

(* Lower priority value first, ties broken by position in the list.        *)
OrderFirst(jobs, a, b) ==
  \/ jobs[a].priority < jobs[b].priority
  \/ jobs[a].priority = jobs[b].priority /\ a < b

(***************************************************************************)
(* build_dag visits each pair of positions once and adds one edge to a     *)
(* conflicting pair.  PairConflicts is symmetric, so it does not matter    *)
(* which of the two the code calls a.  A graph is its set of edges.        *)
(***************************************************************************)
BuildDag(jobs) ==
  {e \in Node \X Node : /\ e[1] # e[2]
                        /\ PairConflicts(jobs[e[1]], jobs[e[2]])
                        /\ OrderFirst(jobs, e[1], e[2])}

Parents(graph, n) == {m \in Node : <<m, n>> \in graph}

Children(graph, n) == {m \in Node : <<n, m>> \in graph}
=============================================================================
