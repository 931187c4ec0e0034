---------------------------- MODULE MCAutoscaler ----------------------------
(* Instances of Autoscaler: names are the functions' own, or all the same. *)
EXTENDS Autoscaler, TLC

OwnNames   == [f \in Functions |-> f]
SharedName == [f \in Functions |-> CHOOSE n \in Names : TRUE]

Symmetry == Permutations(Configs)
=============================================================================
