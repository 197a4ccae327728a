--------------------------- MODULE LeaseOwnership ---------------------------
(***************************************************************************)
(* What a dataset/date refresh lease promises, with no clock, no table and *)
(* no token: ownership passes from owner to owner in numbered epochs, an   *)
(* epoch starts only when nobody is entitled to the previous one, and an   *)
(* epoch that was left behind never comes back.                            *)
(*                                                                         *)
(* "held" says whether the newest epoch is in force.  It can lapse, it can *)
(* be resumed by its own holder (a renewal that was computed before the    *)
(* lapse and reached the database after it), and a grant computed from an  *)
(* old clock reading can even be born lapsed.                              *)
(***************************************************************************)
EXTENDS Sequences

CONSTANT Owner      \* identities a lease is granted to (collection task ids)

VARIABLES
    epochs,         \* epochs[n] is the owner of the n-th epoch
    held            \* the newest epoch is in force

ownershipVars == <<epochs, held>>

Init ==
    /\ epochs = <<>>
    /\ held = FALSE

Grant(o) ==
    /\ ~held
    /\ epochs' = Append(epochs, o)
    /\ held' \in BOOLEAN

Lapse ==
    /\ held
    /\ held' = FALSE
    /\ UNCHANGED epochs

Resume ==
    /\ ~held
    /\ epochs # <<>>
    /\ held' = TRUE
    /\ UNCHANGED epochs

Next == Lapse \/ Resume \/ \E o \in Owner : Grant(o)

Spec == Init /\ [][Next]_ownershipVars
=============================================================================
