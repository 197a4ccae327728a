------------------------- MODULE MCManualCollection -------------------------
(* Small instances of ManualCollection: "ranking" stands for               *)
(* industry-ranking, "turnover" for sector-turnover, which needs it, and   *)
(* "core" for the dataset whose committer moves the task atomically.       *)
EXTENDS ManualCollection, TLC

ChainDepends == [d \in Dataset |-> IF d = "turnover" THEN {"ranking"} ELSE {}]
CanonicalRank == [d \in Dataset |-> CASE d = "core" -> 1 [] d = "ranking" -> 2
                                      [] OTHER -> 3]
ChainRequests == {{"turnover"}}
AllRequests == {Dataset}

Symmetry == Permutations(Run) \union Permutations(Executor)
=============================================================================
