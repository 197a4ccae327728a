--------------------------- MODULE MCLimitEcosystem ---------------------------
(* A small instance of LimitEcosystem: the date, the session before it, and  *)
(* one beyond the revision; the previous session is read again at the end.   *)
EXTENDS LimitEcosystem, TLC

MCReads == <<1, 2, 3, 2>>
(* All dates have evidence, or the previous session has none.                *)
MCStored == {[d \in Date |-> v] : v \in Value}
            \union {[d \in Date |-> IF d = 2 THEN Missing ELSE v] : v \in Value}
Symmetry == Permutations(Thread) \union Permutations(Value)
===============================================================================
