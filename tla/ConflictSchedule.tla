-------------------------- MODULE ConflictSchedule --------------------------
(***************************************************************************)
(* What the parallel executor promises about the jobs of one hook, with no *)
(* word on how (runner/executor.rs, the comment on run_parallel: "Jobs     *)
(* whose capability sets are disjoint run in parallel; conflicting jobs    *)
(* serialize in priority order").                                          *)
(*                                                                         *)
(* `before` is the order imposed on conflicting jobs.  A job may run once, *)
(* or be passed over without running, only when every job before it is     *)
(* over; never more than `slots` jobs run at a time; and at any point the  *)
(* hook may simply start nothing more.                                     *)
(***************************************************************************)
EXTENDS Naturals, FiniteSets

CONSTANT Node

VARIABLES
  before,  \* the set of pairs <<a, b>> such that job a goes before job b
  slots,   \* how many jobs may run at a time
  stage    \* the stage each job has reached

vars == <<before, slots, stage>>

TypeOK ==
  /\ before \subseteq Node \X Node
  /\ slots \in Nat \ {0}
  /\ stage \in [Node -> {"waiting", "running", "over"}]

Running == {n \in Node : stage[n] = "running"}

CanGo(n) ==
  /\ stage[n] = "waiting"
  /\ \A m \in Node : <<m, n>> \in before => stage[m] = "over"

Init ==
  /\ before \subseteq Node \X Node
  /\ slots \in Nat \ {0}
  /\ stage = [n \in Node |-> "waiting"]

Begin(n) ==
  /\ CanGo(n)
  /\ Cardinality(Running) < slots
  /\ stage' = [stage EXCEPT ![n] = "running"]
  /\ UNCHANGED <<before, slots>>

Pass(n) ==
  /\ CanGo(n)
  /\ stage' = [stage EXCEPT ![n] = "over"]
  /\ UNCHANGED <<before, slots>>

End(n) ==
  /\ stage[n] = "running"
  /\ stage' = [stage EXCEPT ![n] = "over"]
  /\ UNCHANGED <<before, slots>>

Next == \E n \in Node : Begin(n) \/ Pass(n) \/ End(n)

Spec == Init /\ [][Next]_vars

-----------------------------------------------------------------------------
(* Jobs of an ordered pair never run at the same time.                     *)
Exclusion ==
  \A m, n \in Node : <<m, n>> \in before => ~({m, n} \subseteq Running)

(* A job that has left "waiting" has everything before it behind it.       *)
Ordered ==
  \A m, n \in Node :
    <<m, n>> \in before /\ stage[n] # "waiting" => stage[m] = "over"
=============================================================================
