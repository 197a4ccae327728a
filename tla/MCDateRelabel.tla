---------------------------- MODULE MCDateRelabel ----------------------------
EXTENDS DateRelabel, TLC

WorkerSymmetry == Permutations(Worker) \union Permutations(Owner)

(* Bound: until the first audit both workers collect and a relabel may     *)
(* have either policy; then one worker collects at a time and a relabel    *)
(* overwrites.                                                             *)
Collecting == {w \in Worker : token[w] # NoToken \/ admitted[w] # NoToken
                              \/ sampled[w] # NotSampled}
Explored ==
    audits # <<>> => Cardinality(Collecting) < 2 /\ operator.policy # "reject"
=============================================================================
