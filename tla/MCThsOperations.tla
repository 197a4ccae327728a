-------------------------- MODULE MCThsOperations --------------------------
(* A small instance: a backfill that finds an earlier bar; two that share   *)
(* one; one of a sector that a catalog may list first; two catalogs of one  *)
(* revision; two imports.                                                   *)
EXTENDS ThsOperations

MCKind == [b1 |-> "backfill", b2 |-> "backfill", b3 |-> "backfill", b4 |-> "backfill",
           c1 |-> "catalog", c2 |-> "catalog", m1 |-> "import", m2 |-> "import"]
MCOperation == DOMAIN MCKind
MCTogether == {{"b1"}, {"b2", "b3"}, {"b4", "c1"}, {"c1", "c2"}, {"m1", "m2"}}

Catalog == <<{"rank1", "rank2"}, {"member"}>>
MCPlan == [b1 |-> <<{"bar1"}, {"bar2"}>>, b2 |-> <<{"bar1"}>>,
           b3 |-> <<{"bar1", "bar3"}>>, b4 |-> <<{"bar4"}>>,
           c1 |-> Catalog, c2 |-> Catalog, m1 |-> <<{"day1", "day2"}>>, m2 |-> <<{"day1"}>>]
MCBudget == [o \in MCOperation |-> 2]

MCKey == {"bar1", "bar2", "bar3", "bar4",
          "rank1", "rank2", "member", "day1", "day2"}
MCCodeOf == [k \in MCKey |-> IF k \in {"bar4", "rank2"} THEN "s2" ELSE "s1"]
MCEarlier == [k \in MCKey |-> IF k = "bar2" THEN "a" ELSE Absent]
=============================================================================
