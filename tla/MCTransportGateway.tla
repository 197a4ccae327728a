-------------------------- MODULE MCTransportGateway --------------------------
(* Small instances of TransportGateway. *)
EXTENDS TransportGateway, TLC

Symmetry == Permutations(Caller) \union Permutations(Request)
=============================================================================
