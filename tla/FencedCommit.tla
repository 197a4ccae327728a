---------------------------- MODULE FencedCommit ----------------------------
(***************************************************************************)
(* Fenced writes to the snapshot of one dataset/date.  A writer opens a    *)
(* READ COMMITTED transaction, assert_valid compares its token with the    *)
(* lease row by a plain SELECT (no row lock), the writer callback runs,    *)
(* and the transaction commits.  Nothing keeps the lease row from changing *)
(* between the SELECT and the COMMIT, so the two are separate steps here.  *)
(*                                                                         *)
(* Two entry points: execute_fenced inside a unit of work (the dataset     *)
(* committers) and _assert_lease in the store's own methods (put,          *)
(* set_refresh_warning).  They differ in what happens to the audit event   *)
(* of a refused write.                                                     *)
(***************************************************************************)
EXTENDS RefreshLease

VARIABLES
    admitted,       \* the token an open write transaction was admitted with
    stored,         \* generation of the lease the stored snapshot was written under
    unaudited       \* refused generations whose lease_fence_events row is missing

commitVars == <<admitted, stored, unaudited>>
vars == <<leaseVars, commitVars>>

CommitTypeOK ==
    /\ TypeOK
    /\ admitted \in [Worker -> Token \union {NoToken}]
    /\ stored \in Nat
    /\ unaudited \in SUBSET Nat

Init ==
    /\ LeaseInit
    /\ admitted = [w \in Worker |-> NoToken]
    /\ stored = 0
    /\ unaudited = {}

(* Mutant: the fence compares owner and expiry and forgets the generation. *)
FenceOnOwner(w) == row # NoToken /\ row.owner = token[w].owner /\ LiveAt(sampled[w])

(* assert_valid: owner, generation and token agree and the row is unexpired *)
(* at the caller's clock reading.                                           *)
FenceHolds(w) == RowMatches(token[w]) /\ LiveAt(sampled[w])

Attempts(w) ==
    /\ admitted[w] = NoToken
    /\ token[w] # NoToken
    /\ ReadLease(w)

BeginFencedWrite(w) ==
    /\ Attempts(w)
    /\ FenceHolds(w)
    /\ admitted' = [admitted EXCEPT ![w] = token[w]]
    /\ UNCHANGED <<stored, unaudited>>

(* put and set_refresh_warning record the event on a second connection,    *)
(* which commits on its own, so the refusal leaves its audit row.          *)
RefusedInStore(w) ==
    /\ Attempts(w)
    /\ ~FenceHolds(w)
    /\ UNCHANGED commitVars

(* execute_fenced inserts the event on the connection of the unit of work  *)
(* and re-raises; the committers let the error leave the "with" block, and *)
(* __exit__ rolls the transaction back, event included.                    *)
RefusedInUnitOfWork(w) ==
    /\ Attempts(w)
    /\ ~FenceHolds(w)
    /\ unaudited' = unaudited \union {token[w].generation}
    /\ UNCHANGED <<admitted, stored>>

CommitWrite(w) ==
    /\ admitted[w] # NoToken
    /\ stored' = admitted[w].generation
    /\ admitted' = [admitted EXCEPT ![w] = NoToken]
    /\ UNCHANGED <<leaseVars, unaudited>>

(* The writer callback raised, or the connection was lost. *)
RollbackWrite(w) ==
    /\ admitted[w] # NoToken
    /\ admitted' = [admitted EXCEPT ![w] = NoToken]
    /\ UNCHANGED <<leaseVars, stored, unaudited>>

(* A worker inside a write transaction makes no other store call; it can   *)
(* only finish the transaction or die, which rolls it back.                *)
WriteStep(w) ==
    \/ BeginFencedWrite(w)
    \/ RefusedInStore(w)
    \/ RefusedInUnitOfWork(w)
    \/ CommitWrite(w)
    \/ RollbackWrite(w)

FreeLeaseStep(w) ==
    /\ admitted[w] = NoToken
    /\ LeaseStep(w)
    /\ UNCHANGED commitVars

CrashInWrite(w) ==
    /\ admitted[w] # NoToken
    /\ CrashWorker(w)
    /\ admitted' = [admitted EXCEPT ![w] = NoToken]
    /\ UNCHANGED <<stored, unaudited>>

Next ==
    \/ Tick /\ UNCHANGED commitVars
    \/ \E w \in Worker : FreeLeaseStep(w) \/ WriteStep(w) \/ CrashInWrite(w)

Spec == Init /\ [][Next]_vars

-----------------------------------------------------------------------------
(* A write is admitted only under the newest generation ever issued: a     *)
(* superseded token is refused even when its holder's clock reading is old *)
(* and the row it came from has been released, pruned and re-acquired.     *)
OnlyNewestGenerationAdmitted ==
    [][ \A w \in Worker :
            admitted'[w] # NoToken /\ admitted'[w] # admitted[w]
            => admitted'[w].generation = Len(issued) ]_vars

(* Whatever is stored was written under a generation that had been issued, *)
(* and an open transaction belongs to the owner of its generation.         *)
WritersAreGrantees ==
    /\ stored <= Len(issued)
    /\ \A w \in Worker : admitted[w] # NoToken =>
            /\ admitted[w].generation \in 1 .. Len(issued)
            /\ issued[admitted[w].generation] = admitted[w].owner

(* The next two are what the documents say and the code does not do; the   *)
(* README tells how (Disagreements).                                       *)

(* openspec postgresql-runtime-storage: "an expired or superseded lease    *)
(* owner attempts a fenced write ... the write is rejected".  If that held *)
(* up to the commit, a snapshot could not be replaced by one written under *)
(* an older generation.                                                    *)
StoredGenerationNeverRegresses == [][stored' >= stored]_vars

(* The same scenario continues: "and the persisted lease-fence audit       *)
(* records the rejection".                                                 *)
RefusalsAreAudited == unaudited = {}
=============================================================================
