------------------------------ MODULE MCOutput ------------------------------
(* Two jobs, one of two commands, over channels that are soon full.        *)
EXTENDS Output

MCWork ==
  <<[commands |-> <<[out |-> 1, err |-> 1]>>, builtin |-> TRUE, cached |-> TRUE],
    [commands |-> <<[out |-> 0, err |-> 2], [out |-> 0, err |-> 0]>>,
     builtin |-> FALSE, cached |-> FALSE]>>
=============================================================================
