----------------------------- MODULE MCScheduler -----------------------------
(***************************************************************************)
(* Three jobs of every mix of the kinds below, in list order, in reverse   *)
(* priority order and with equal priorities.                               *)
(***************************************************************************)
EXTENDS Scheduler

CONSTANTS src, gen   \* two glob patterns that do not overlap

MCPattern == {src, gen}
MCProbeHit == {<<p, p>> : p \in MCPattern}

Kind(reads, writes, network, safe, planned) ==
  [reads |-> reads, writes |-> writes, network |-> network,
   concurrent_safe |-> safe, planned |-> planned]

Kinds ==
  {Kind({}, {src}, FALSE, FALSE, TRUE),       \* a formatter
   Kind({src}, {gen}, FALSE, FALSE, TRUE),    \* a generator
   Kind({src, gen}, {}, FALSE, TRUE, TRUE),   \* a cacheable linter
   Kind({gen}, {}, TRUE, FALSE, TRUE),        \* a network job
   Kind({}, {}, TRUE, TRUE, TRUE),            \* a cacheable network job
   Kind({src}, {src}, FALSE, FALSE, FALSE)}   \* a job without files

Priorities == {<<0, 1, 2>>, <<1, 1, 1>>, <<2, 1, 0>>}

MCHooks ==
  {[jobs |-> [n \in Node |->
                [priority |-> priority[n], reads |-> kind[n].reads,
                 writes |-> kind[n].writes, network |-> kind[n].network,
                 concurrent_safe |-> kind[n].concurrent_safe]],
    planned |-> [n \in Node |-> kind[n].planned],
    fail_fast |-> fail_fast,
    parallel_limit |-> limit] :
     kind \in [Node -> Kinds], priority \in Priorities,
     fail_fast \in BOOLEAN, limit \in {0, 2}}
=============================================================================
