-------------------------- MODULE MCSnapshotRefresh --------------------------
(* A small instance: two requests of one process and one of another.        *)
EXTENDS SnapshotRefresh

MCProcessOf == [r1 |-> "p", r2 |-> "p", r3 |-> "q"]
MCReader == DOMAIN MCProcessOf
=============================================================================
