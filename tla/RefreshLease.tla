---------------------------- MODULE RefreshLease ----------------------------
(***************************************************************************)
(* The lease of one dataset/date: a row of refresh_leases, the generation  *)
(* ledger refresh_lease_fences that survives the row, and the tokens the   *)
(* workers carry.  Rows of different dataset/date keys never interact, so  *)
(* one key is modelled.                                                    *)
(*                                                                         *)
(* Every store call is one transaction.  A call that depends on the time   *)
(* reads the wall clock in Python, before it waits for a pooled connection *)
(* and for row or advisory locks, so the reading and the transaction are   *)
(* two steps and the transaction may use an old reading.                   *)
(***************************************************************************)
EXTENDS Integers, Sequences

CONSTANTS
    Worker,         \* request and executor threads, CLI processes
    Owner,          \* task ids that leases are taken for
    Durations,      \* the lease_seconds the callers pass, in ticks
    NoToken,        \* None: no row, or no token in a worker's hands
    MaxTime,        \* bound: the clock stops here
    MaxGeneration   \* bound: no acquisition beyond this generation

Token == [owner : Owner, generation : Nat, expires : Nat]

ASSUME LeaseAssumption ==
    /\ Durations \subseteq Nat \ {0}
    /\ MaxTime \in Nat
    /\ MaxGeneration \in Nat
    /\ NoToken \notin Token

VARIABLES
    now,            \* wall clock
    row,            \* the refresh_leases row, or NoToken
    ledger,         \* refresh_lease_fences.generation, 0 when absent
    token,          \* the token in each worker's hands
    sampled,        \* each worker's pending clock reading, or NotSampled
    issued          \* history: the owner each generation was issued to

leaseVars == <<now, row, ledger, token, sampled, issued>>

NotSampled == -1

TypeOK ==
    /\ now \in Nat
    /\ row \in Token \union {NoToken}
    /\ ledger \in Nat
    /\ token \in [Worker -> Token \union {NoToken}]
    /\ sampled \in [Worker -> Nat \union {NotSampled}]
    /\ issued \in Seq(Owner)

LeaseInit ==
    /\ now = 0
    /\ row = NoToken
    /\ ledger = 0
    /\ token = [w \in Worker |-> NoToken]
    /\ sampled = [w \in Worker |-> NotSampled]
    /\ issued = <<>>

(* The row is unexpired for a caller that read the clock at time "at". *)
LiveAt(at) == row # NoToken /\ row.expires > at

(* owner, generation and token columns agree with the worker's token; the  *)
(* token string embeds the generation, so the generation stands for it.    *)
RowMatches(t) ==
    /\ row # NoToken
    /\ row.owner = t.owner
    /\ row.generation = t.generation

ExpiresAt(at, seconds) == at + seconds

Larger(a, b) == IF a >= b THEN a ELSE b

NextGeneration ==
    1 + Larger(ledger, IF row = NoToken THEN 0 ELSE row.generation)

-----------------------------------------------------------------------------
Tick ==
    /\ now < MaxTime
    /\ now' = now + 1
    /\ UNCHANGED <<row, ledger, token, sampled, issued>>

(* current = (now or utc_now()): the reading the next call will use. *)
ReadClock(w) ==
    /\ sampled[w] = NotSampled
    /\ sampled' = [sampled EXCEPT ![w] = now]
    /\ UNCHANGED <<now, row, ledger, token, issued>>

Done(w) == sampled' = [sampled EXCEPT ![w] = NotSampled]

(* Mutant: the row is replaced without looking at its expiry. *)
AcquireAnyway(w, o, seconds) ==
    /\ sampled[w] # NotSampled
    /\ NextGeneration <= MaxGeneration
    /\ row' = [owner |-> o, generation |-> NextGeneration,
               expires |-> ExpiresAt(sampled[w], seconds)]
    /\ ledger' = NextGeneration
    /\ token' = [token EXCEPT ![w] = row']
    /\ issued' = Append(issued, o)
    /\ Done(w)
    /\ UNCHANGED now

AcquireLease(w, o, seconds) ==
    /\ sampled[w] # NotSampled
    /\ ~LiveAt(sampled[w])
    /\ NextGeneration <= MaxGeneration
    /\ row' = [owner |-> o, generation |-> NextGeneration,
               expires |-> ExpiresAt(sampled[w], seconds)]
    /\ ledger' = NextGeneration
    /\ token' = [token EXCEPT ![w] = row']
    /\ issued' = Append(issued, o)
    /\ Done(w)
    /\ UNCHANGED now

AcquireRefused(w) ==
    /\ sampled[w] # NotSampled
    /\ LiveAt(sampled[w])
    /\ token' = [token EXCEPT ![w] = NoToken]
    /\ Done(w)
    /\ UNCHANGED <<now, row, ledger, issued>>

(* get_lease_token(dataset, as_of, owner=o) looks at neither expiry nor    *)
(* clock: a recovering submitter picks up the row of its own task id.      *)
GetLeaseToken(w, o) ==
    /\ token' = [token EXCEPT ![w] =
                    IF row # NoToken /\ row.owner = o THEN row ELSE NoToken]
    /\ UNCHANGED <<now, row, ledger, sampled, issued>>

(* The coordinator renews for max(lease_seconds, remaining), so that what  *)
(* is left of a longer reservation is kept.                                *)
RenewLease(w, seconds) ==
    /\ sampled[w] # NotSampled
    /\ token[w] # NoToken
    /\ RowMatches(token[w]) /\ LiveAt(sampled[w])
    /\ row' = [row EXCEPT !.expires =
                  Larger(ExpiresAt(sampled[w], seconds), token[w].expires)]
    /\ token' = [token EXCEPT ![w] = row']
    /\ Done(w)
    /\ UNCHANGED <<now, ledger, issued>>

RenewRefused(w) ==
    /\ sampled[w] # NotSampled
    /\ token[w] # NoToken
    /\ ~(RowMatches(token[w]) /\ LiveAt(sampled[w]))
    /\ token' = [token EXCEPT ![w] = NoToken]
    /\ Done(w)
    /\ UNCHANGED <<now, row, ledger, issued>>

(* DELETE ... WHERE owner, generation and token match, expired or not. *)
ReleaseLease(w) ==
    /\ token[w] # NoToken
    /\ row' = IF RowMatches(token[w]) THEN NoToken ELSE row
    /\ token' = [token EXCEPT ![w] = NoToken]
    /\ UNCHANGED <<now, ledger, sampled, issued>>

Prune(w) ==
    /\ sampled[w] # NotSampled
    /\ row' = IF LiveAt(sampled[w]) THEN row ELSE NoToken
    /\ Done(w)
    /\ UNCHANGED <<now, ledger, token, issued>>

(* The calls that only SELECT the row and compare it with a clock reading: *)
(* assert_valid, has_active_lease, active_lease_datasets.                  *)
ReadLease(w) ==
    /\ sampled[w] # NotSampled
    /\ Done(w)
    /\ UNCHANGED <<now, row, ledger, token, issued>>

(* The worker's process dies: what it held in memory is gone, rows stay. *)
CrashWorker(w) ==
    /\ token' = [token EXCEPT ![w] = NoToken]
    /\ Done(w)
    /\ UNCHANGED <<now, row, ledger, issued>>

LeaseStep(w) ==
    \/ ReadClock(w)
    \/ \E o \in Owner, seconds \in Durations : AcquireLease(w, o, seconds)
    \/ AcquireRefused(w)
    \/ \E o \in Owner : GetLeaseToken(w, o)
    \/ \E seconds \in Durations : RenewLease(w, seconds)
    \/ RenewRefused(w)
    \/ ReleaseLease(w)
    \/ Prune(w)
    \/ ReadLease(w)
    \/ CrashWorker(w)

LeaseNext == Tick \/ \E w \in Worker : LeaseStep(w)

LeaseSpec == LeaseInit /\ [][LeaseNext]_leaseVars

-----------------------------------------------------------------------------
(* Generations are fencing tokens only if no two acquisitions ever share   *)
(* one.  The ledger is what remembers them once release_lease or prune has *)
(* deleted the row: two workers that hold tokens of the same generation    *)
(* hold tokens of the same owner, however many releases, prunes and        *)
(* expiries lie between the acquisitions.                                  *)
GenerationNamesOneOwner ==
    \A w, v \in Worker :
        /\ token[w] # NoToken /\ token[v] # NoToken
        /\ token[w].generation = token[v].generation
        => token[w].owner = token[v].owner

(* acquire_lease takes a lease over only after it has really expired, even *)
(* though the comparison uses a clock reading taken before the transaction *)
(* got its locks: a live row changes generation only by being deleted by a *)
(* holder first.                                                           *)
NoTakeoverOfLiveLease ==
    [][ row # NoToken /\ row' # NoToken /\ row'.generation # row.generation
        => row.expires <= now ]_leaseVars

(* The detailed lease implements the abstract ownership: generations are   *)
(* the epochs, and the newest is in force while its row is unexpired.      *)
Ownership == INSTANCE LeaseOwnership
    WITH epochs <- issued, held <- LiveAt(now)

ImplementsOwnership == Ownership!Spec
=============================================================================
