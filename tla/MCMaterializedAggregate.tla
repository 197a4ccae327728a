----------------------- MODULE MCMaterializedAggregate -----------------------
(* A small instance of MaterializedAggregate: two inputs of two contents.   *)
EXTENDS MaterializedAggregate, TLC

ComposeOrder == [i \in Input |-> IF i = Core THEN 1 ELSE 2]
Symmetry == Permutations(Writer) \union Permutations(Value)
=============================================================================
