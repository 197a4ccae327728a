---------------------------- MODULE MCMarketStore ----------------------------
(* A small instance: a page of each kind, a day of trading and a day off.   *)
EXTENDS MarketStore, TLC

MCPinned == [breadth |-> {"summary"}, limits |-> {"limits", "evidence"}, rankings |-> {}]
MCPaged == [breadth |-> "history", limits |-> Nothing, rankings |-> "rankings"]
MCResource == DOMAIN MCPinned
MCSectionOf == [breadth |-> "breadth", limits |-> "limits", rankings |-> "sectors"]
MCEffective == [thu |-> "thu", fri |-> "fri", sat |-> "fri"]
MCDate == DOMAIN MCEffective

Symmetry == Permutations(Call)
=============================================================================
