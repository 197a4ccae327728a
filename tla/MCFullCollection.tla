--------------------------- MODULE MCFullCollection ---------------------------
(* Small instances of FullCollection: "ranking" stands for                 *)
(* industry-ranking, "turnover" for sector-turnover, which needs it.       *)
EXTENDS FullCollection, TLC

ChainDepends == [d \in Dataset |-> IF d = "turnover" THEN {"ranking"} ELSE {}]
CanonicalRank == [d \in Dataset |-> IF d = "ranking" THEN 1 ELSE 2]

Symmetry == Permutations(Reader) \union Permutations(Executor)
=============================================================================
