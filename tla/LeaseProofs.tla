----------------------------- MODULE LeaseProofs -----------------------------
(***************************************************************************)
(* Proofs about RefreshLease, FencedCommit and DateRelabel, each of which  *)
(* extends the one before: what is proved of the lease carries over to the *)
(* writes it fences, and from those to the operator who relabels a date.   *)
(***************************************************************************)
EXTENDS DateRelabel, TLAPS

(***************************************************************************)
(* RefreshLease: type correctness, the generation argument, no takeover of *)
(* a live lease, and the refinement of LeaseOwnership.                     *)
(***************************************************************************)
(* The ledger counts the generations issued, the row (if any) is the last  *)
(* of them and belongs to the owner it was issued to.                      *)
LedgerCounts ==
    /\ ledger = Len(issued)
    /\ row # NoToken => /\ row.generation = ledger
                        /\ ledger >= 1
                        /\ row.owner = issued[ledger]

(* A token in a worker's hands, however old, names a generation that was   *)
(* issued, and its owner.                                                  *)
TokensWereIssued ==
    \A w \in Worker : token[w] # NoToken =>
        /\ token[w].generation \in 1 .. Len(issued)
        /\ issued[token[w].generation] = token[w].owner

(* A clock reading is never ahead of the clock. *)
ReadingsArePast ==
    \A w \in Worker : sampled[w] # NotSampled => sampled[w] <= now

LeaseInv == TypeOK /\ LedgerCounts /\ TokensWereIssued /\ ReadingsArePast

-----------------------------------------------------------------------------
(* A generation keeps its owner when a further one is issued. *)
LEMMA AppendKeepsOwners ==
    ASSUME NEW S, NEW s \in Seq(S), NEW x \in S
    PROVE  /\ Append(s, x) \in Seq(S)
           /\ Len(Append(s, x)) = Len(s) + 1
           /\ Append(s, x)[Len(s) + 1] = x
           /\ \A i \in 1 .. Len(s) : Append(s, x)[i] = s[i]
  OBVIOUS

(* Under the invariant the next generation is one more than the ledger:    *)
(* the row never knows a generation the ledger does not.                   *)
LEMMA NextGenerationIsFresh ==
    ASSUME LeaseInv
    PROVE  NextGeneration = Len(issued) + 1
  <1>1. ledger \in Nat /\ ledger = Len(issued)
    BY DEF LeaseInv, TypeOK, LedgerCounts
  <1>2. Larger(ledger, IF row = NoToken THEN 0 ELSE row.generation) = ledger
    BY <1>1 DEF LeaseInv, LedgerCounts, Larger
  <1> QED
    BY <1>1, <1>2 DEF NextGeneration

(* Nothing has been issued at the start, and nobody holds a token. *)
LEMMA InitEstablishesLeaseInv == LeaseInit => LeaseInv
  BY LeaseAssumption
     DEF LeaseInit, LeaseInv, TypeOK, LedgerCounts, TokensWereIssued,
         ReadingsArePast, NotSampled

(* An acquisition extends the history and hands the new row to one worker; *)
(* every older token still names its own entry.                            *)
LEMMA AcquireKeepsLeaseInv ==
    ASSUME LeaseInv, NEW w \in Worker, NEW o \in Owner,
           NEW seconds \in Durations, AcquireLease(w, o, seconds)
    PROVE  LeaseInv'
  <1> DEFINE t == [owner |-> o, generation |-> Len(issued) + 1,
                   expires |-> sampled[w] + seconds]
  <1>1. /\ row' = t
        /\ ledger' = Len(issued) + 1
        /\ token' = [token EXCEPT ![w] = t]
        /\ issued' = Append(issued, o)
        /\ sampled' = [sampled EXCEPT ![w] = NotSampled]
        /\ now' = now
    BY NextGenerationIsFresh DEF AcquireLease, ExpiresAt, Done
  <1>2. issued \in Seq(Owner) /\ Len(issued) \in Nat
    BY DEF LeaseInv, TypeOK
  <1>3. /\ issued' \in Seq(Owner)
        /\ Len(issued') = Len(issued) + 1
        /\ issued'[Len(issued) + 1] = o
        /\ \A i \in 1 .. Len(issued) : issued'[i] = issued[i]
    BY <1>1, <1>2, AppendKeepsOwners
  <1>4. sampled[w] \in Nat /\ seconds \in Nat
    BY LeaseAssumption DEF AcquireLease, ExpiresAt, LeaseInv, TypeOK
  <1>5. t \in Token
    BY <1>2, <1>4 DEF Token
  <1>6. TypeOK'
    BY <1>1, <1>2, <1>3, <1>5 DEF LeaseInv, TypeOK, NotSampled
  <1>7. LedgerCounts'
    BY <1>1, <1>2, <1>3 DEF LedgerCounts
  <1>8. TokensWereIssued'
    <2> SUFFICES ASSUME NEW v \in Worker, token'[v] # NoToken
                 PROVE  /\ token'[v].generation \in 1 .. Len(issued')
                        /\ issued'[token'[v].generation] = token'[v].owner
      BY DEF TokensWereIssued
    <2>1. CASE v = w
      <3>1. token'[v] = t
        BY <2>1, <1>1 DEF LeaseInv, TypeOK
      <3> QED
        BY <3>1, <1>2, <1>3
    <2>2. CASE v # w
      <3>1. token'[v] = token[v]
        BY <2>2, <1>1 DEF LeaseInv, TypeOK
      <3>2. /\ token[v].generation \in 1 .. Len(issued)
            /\ issued[token[v].generation] = token[v].owner
        BY <3>1 DEF LeaseInv, TokensWereIssued
      <3> QED
        BY <3>1, <3>2, <1>2, <1>3
    <2> QED
      BY <2>1, <2>2
  <1>9. ReadingsArePast'
    BY <1>1 DEF LeaseInv, TypeOK, ReadingsArePast
  <1> QED
    BY <1>6, <1>7, <1>8, <1>9 DEF LeaseInv

(* A renewal changes the expiry only, in the row and in the token. *)
LEMMA RenewKeepsLeaseInv ==
    ASSUME LeaseInv, NEW w \in Worker, NEW seconds \in Durations,
           RenewLease(w, seconds)
    PROVE  LeaseInv'
  <1> DEFINE e == Larger(sampled[w] + seconds, token[w].expires)
  <1>1. row \in Token /\ token[w] \in Token
    BY DEF RenewLease, ExpiresAt, LeaseInv, TypeOK, RowMatches
  <1>2. sampled[w] \in Nat /\ seconds \in Nat /\ token[w].expires \in Nat
    BY <1>1, LeaseAssumption DEF RenewLease, ExpiresAt, LeaseInv, TypeOK, Token
  <1>3. e \in Nat
    BY <1>2 DEF Larger
  <1>4. row' = [row EXCEPT !.expires = e]
    BY DEF RenewLease, ExpiresAt
  <1>5. row' \in Token /\ row'.generation = row.generation /\ row'.owner = row.owner
    BY <1>1, <1>3, <1>4 DEF Token
  <1>6. row' # NoToken /\ row # NoToken
    BY <1>1, <1>5, LeaseAssumption
  <1>7. /\ token' = [token EXCEPT ![w] = row']
        /\ sampled' = [sampled EXCEPT ![w] = NotSampled]
        /\ now' = now /\ ledger' = ledger /\ issued' = issued
    BY DEF RenewLease, Done
  <1>8. TypeOK'
    BY <1>5, <1>7 DEF LeaseInv, TypeOK, NotSampled
  <1>9. LedgerCounts'
    BY <1>5, <1>6, <1>7 DEF LeaseInv, LedgerCounts
  <1>10. TokensWereIssued'
    <2> SUFFICES ASSUME NEW v \in Worker, token'[v] # NoToken
                 PROVE  /\ token'[v].generation \in 1 .. Len(issued)
                        /\ issued[token'[v].generation] = token'[v].owner
      BY <1>7 DEF TokensWereIssued
    <2>1. CASE v = w
      BY <2>1, <1>5, <1>6, <1>7 DEF LeaseInv, TypeOK, LedgerCounts
    <2>2. CASE v # w
      BY <2>2, <1>7 DEF LeaseInv, TypeOK, TokensWereIssued
    <2> QED
      BY <2>1, <2>2
  <1>11. ReadingsArePast'
    BY <1>7 DEF LeaseInv, TypeOK, ReadingsArePast
  <1> QED
    BY <1>8, <1>9, <1>10, <1>11 DEF LeaseInv

(* Every other step of a worker leaves the history alone, keeps the row or  *)
(* deletes it, and puts into the worker's hands the row, its old token or   *)
(* nothing.                                                                 *)
LEMMA QuietStepKeepsLeaseInv ==
    ASSUME LeaseInv, NEW w \in Worker,
           UNCHANGED <<now, ledger, issued>>,
           row' \in {row, NoToken},
           NEW t \in {token[w], row, NoToken},
           token' = [token EXCEPT ![w] = t],
           NEW r \in {sampled[w], now, NotSampled},
           sampled' = [sampled EXCEPT ![w] = r]
    PROVE  LeaseInv'
  <1>1. TypeOK'
    BY DEF LeaseInv, TypeOK
  <1>2. LedgerCounts'
    BY DEF LeaseInv, LedgerCounts
  <1>3. TokensWereIssued'
    <2> SUFFICES ASSUME NEW v \in Worker, token'[v] # NoToken
                 PROVE  /\ token'[v].generation \in 1 .. Len(issued)
                        /\ issued[token'[v].generation] = token'[v].owner
      BY DEF TokensWereIssued
    <2>1. CASE v = w /\ t = row
      BY <2>1 DEF LeaseInv, TypeOK, LedgerCounts
    <2>2. CASE ~(v = w /\ t = row)
      BY <2>2 DEF LeaseInv, TypeOK, TokensWereIssued
    <2> QED
      BY <2>1, <2>2
  <1>4. ReadingsArePast'
    BY DEF LeaseInv, TypeOK, ReadingsArePast
  <1> QED
    BY <1>1, <1>2, <1>3, <1>4 DEF LeaseInv

(* LeaseInv is inductive: one case per action. *)
LEMMA StepKeepsLeaseInv == LeaseInv /\ [LeaseNext]_leaseVars => LeaseInv'
  <1> SUFFICES ASSUME LeaseInv, [LeaseNext]_leaseVars
               PROVE  LeaseInv'
    OBVIOUS
  <1>0. /\ token \in [Worker -> Token \union {NoToken}]
        /\ sampled \in [Worker -> Nat \union {NotSampled}]
        /\ \A w \in Worker : /\ token = [token EXCEPT ![w] = token[w]]
                             /\ sampled = [sampled EXCEPT ![w] = sampled[w]]
    BY DEF LeaseInv, TypeOK
  <1>1. CASE Tick
    BY <1>1 DEF Tick, LeaseInv, TypeOK, LedgerCounts, TokensWereIssued,
                ReadingsArePast, NotSampled
  <1>2. ASSUME NEW w \in Worker, LeaseStep(w)
        PROVE  LeaseInv'
    <2>1. CASE ReadClock(w)
      BY <2>1, <1>0, QuietStepKeepsLeaseInv DEF ReadClock
    <2>2. ASSUME NEW o \in Owner, NEW seconds \in Durations,
                 AcquireLease(w, o, seconds)
          PROVE  LeaseInv'
      BY <2>2, AcquireKeepsLeaseInv
    <2>3. CASE AcquireRefused(w)
      BY <2>3, QuietStepKeepsLeaseInv DEF AcquireRefused, Done
    <2>4. ASSUME NEW o \in Owner, GetLeaseToken(w, o)
          PROVE  LeaseInv'
      <3> DEFINE t == IF row # NoToken /\ row.owner = o THEN row ELSE NoToken
      <3>1. t \in {token[w], row, NoToken} /\ token' = [token EXCEPT ![w] = t]
        BY <2>4 DEF GetLeaseToken
      <3> QED
        BY <2>4, <3>1, <1>0, QuietStepKeepsLeaseInv DEF GetLeaseToken
    <2>5. ASSUME NEW seconds \in Durations, RenewLease(w, seconds)
          PROVE  LeaseInv'
      BY <2>5, RenewKeepsLeaseInv
    <2>6. CASE RenewRefused(w)
      BY <2>6, QuietStepKeepsLeaseInv DEF RenewRefused, Done
    <2>7. CASE ReleaseLease(w)
      BY <2>7, <1>0, QuietStepKeepsLeaseInv DEF ReleaseLease
    <2>8. CASE Prune(w)
      BY <2>8, <1>0, QuietStepKeepsLeaseInv DEF Prune, Done
    <2>9. CASE CrashWorker(w)
      BY <2>9, QuietStepKeepsLeaseInv DEF CrashWorker, Done
    <2>10. CASE ReadLease(w)
      BY <2>10, <1>0, QuietStepKeepsLeaseInv DEF ReadLease, Done
    <2> QED
      BY <1>2, <2>1, <2>2, <2>3, <2>4, <2>5, <2>6, <2>7, <2>8, <2>9, <2>10
         DEF LeaseStep
  <1>3. CASE UNCHANGED leaseVars
    BY <1>3 DEF leaseVars, LeaseInv, TypeOK, LedgerCounts, TokensWereIssued,
                ReadingsArePast
  <1> QED
    BY <1>1, <1>2, <1>3 DEF LeaseNext

(* In every reachable state the row, the ledger, the history and all the   *)
(* tokens agree, for any number of workers, owners and durations.          *)
THEOREM LeaseInvariant == LeaseSpec => []LeaseInv
  BY InitEstablishesLeaseInv, StepKeepsLeaseInv, PTL DEF LeaseSpec

(* The variables keep their types. *)
THEOREM LeaseTypeCorrect == LeaseSpec => []TypeOK
  <1>1. LeaseInv => TypeOK
    BY DEF LeaseInv
  <1> QED
    BY <1>1, LeaseInvariant, PTL

(* Two tokens of one generation name the same entry of the history. *)
LEMMA InvNamesOneOwner == LeaseInv => GenerationNamesOneOwner
  BY DEF LeaseInv, TokensWereIssued, GenerationNamesOneOwner

(* acquire_lease never issues a generation twice, so equal generations     *)
(* mean equal owners, whatever was released or pruned in between.          *)
THEOREM GenerationsAreFencingTokens == LeaseSpec => []GenerationNamesOneOwner
  BY InvNamesOneOwner, LeaseInvariant, PTL

-----------------------------------------------------------------------------
(* A row changes its generation only in acquire_lease, which requires the  *)
(* old row to be expired at a reading that is not ahead of the clock.      *)
LEMMA StepTakesOverOnlyExpired ==
    ASSUME LeaseInv, [LeaseNext]_leaseVars,
           row # NoToken, row' # NoToken, row'.generation # row.generation
    PROVE  row.expires <= now
  <1>1. row \in Token /\ row.expires \in Nat /\ now \in Nat
    BY DEF LeaseInv, TypeOK, Token
  <1>2. row' # row
    OBVIOUS
  <1>3. ASSUME NEW w \in Worker, NEW o \in Owner, NEW seconds \in Durations,
               AcquireLease(w, o, seconds)
        PROVE  row.expires <= now
    <2>1. sampled[w] # NotSampled /\ ~LiveAt(sampled[w])
      BY <1>3 DEF AcquireLease
    <2>2. sampled[w] <= now /\ sampled[w] \in Nat
      BY <2>1 DEF LeaseInv, TypeOK, ReadingsArePast
    <2> QED
      BY <1>1, <2>1, <2>2 DEF LiveAt
  <1>4. ASSUME NEW w \in Worker, NEW seconds \in Durations, RenewLease(w, seconds)
        PROVE  FALSE
    BY <1>1, <1>4 DEF RenewLease, ExpiresAt, Token
  <1> QED
    BY <1>2, <1>3, <1>4
       DEF LeaseNext, LeaseStep, leaseVars, Tick, ReadClock, AcquireRefused,
           GetLeaseToken, RenewRefused, ReleaseLease, Prune,
           ReadLease, CrashWorker

(* A lease that is still live is not taken over by another acquisition,    *)
(* although acquire_lease compares with an old clock reading.              *)
THEOREM LiveLeaseIsSafe == LeaseSpec => NoTakeoverOfLiveLease
  <1>1. LeaseInv /\ [LeaseNext]_leaseVars
        => [ row # NoToken /\ row' # NoToken /\ row'.generation # row.generation
             => row.expires <= now ]_leaseVars
    BY StepTakesOverOnlyExpired
  <1> QED
    BY <1>1, LeaseInvariant, PTL DEF LeaseSpec, NoTakeoverOfLiveLease

-----------------------------------------------------------------------------
(* Refinement of LeaseOwnership: no row, no epoch, at the start. *)
LEMMA InitMapsToInit == LeaseInit => Ownership!Init
  BY DEF LeaseInit, Ownership!Init, LiveAt

(* A step that issues nothing is a lapse, a resumption or a stutter of the *)
(* abstract ownership, provided a live row implies that something had been *)
(* issued.                                                                 *)
LEMMA QuietStepMaps ==
    ASSUME issued' = issued,
           LiveAt(now)' => issued # <<>>,
           LiveAt(now) \in BOOLEAN, LiveAt(now)' \in BOOLEAN
    PROVE  [Ownership!Next]_(Ownership!ownershipVars)
  <1>1. CASE LiveAt(now) /\ ~LiveAt(now)'
    BY <1>1 DEF Ownership!Next, Ownership!Lapse
  <1>2. CASE ~LiveAt(now) /\ LiveAt(now)'
    BY <1>2 DEF Ownership!Next, Ownership!Resume
  <1>3. CASE LiveAt(now) = LiveAt(now)'
    BY <1>3 DEF Ownership!ownershipVars
  <1> QED
    BY <1>1, <1>2, <1>3

(* An acquisition is a grant: the previous epoch is not in force, because  *)
(* its row is absent or expired at a reading not ahead of the clock.       *)
LEMMA AcquireMaps ==
    ASSUME LeaseInv, NEW w \in Worker, NEW o \in Owner,
           NEW seconds \in Durations, AcquireLease(w, o, seconds)
    PROVE  Ownership!Grant(o)
  <1>1. ~LiveAt(sampled[w]) /\ sampled[w] \in Nat /\ sampled[w] <= now /\ now \in Nat
    BY DEF AcquireLease, ExpiresAt, LeaseInv, TypeOK, ReadingsArePast
  <1>2. ~LiveAt(now)
    BY <1>1 DEF LiveAt, LeaseInv, TypeOK, Token
  <1>3. LiveAt(now)' \in BOOLEAN
    BY DEF LiveAt
  <1> QED
    BY <1>2, <1>3 DEF AcquireLease, Ownership!Grant

(* Every step of the lease is a step of the ownership or leaves it alone. *)
LEMMA StepMapsToStep ==
    ASSUME LeaseInv, LeaseInv', [LeaseNext]_leaseVars
    PROVE  [Ownership!Next]_(Ownership!ownershipVars)
  <1>1. ASSUME NEW w \in Worker, NEW o \in Owner, NEW seconds \in Durations,
               AcquireLease(w, o, seconds)
        PROVE  Ownership!Next
    BY <1>1, AcquireMaps DEF Ownership!Next
  <1>2. CASE issued' = issued
    <2>1. LiveAt(now)' => issued' # <<>>
      BY DEF LeaseInv, LedgerCounts, TypeOK, LiveAt
    <2>2. LiveAt(now) \in BOOLEAN /\ LiveAt(now)' \in BOOLEAN
      BY DEF LiveAt
    <2> QED
      BY <1>2, <2>1, <2>2, QuietStepMaps
  <1> QED
    BY <1>1, <1>2
       DEF LeaseNext, LeaseStep, leaseVars, Tick, ReadClock, AcquireRefused,
           GetLeaseToken, RenewLease, RenewRefused, ReleaseLease, Prune,
           ReadLease, CrashWorker

(* The lease table, ledger and tokens implement the numbered epochs of     *)
(* LeaseOwnership: no two owners are ever entitled at once, and an epoch   *)
(* that was followed by another is never in force again.                   *)
THEOREM LeaseImplementsOwnership == LeaseSpec => ImplementsOwnership
  <1>1. LeaseInv /\ LeaseInv' /\ [LeaseNext]_leaseVars
        => [Ownership!Next]_(Ownership!ownershipVars)
    BY StepMapsToStep
  <1> QED
    BY <1>1, InitMapsToInit, LeaseInvariant, PTL
       DEF LeaseSpec, ImplementsOwnership, Ownership!Spec

-----------------------------------------------------------------------------
(***************************************************************************)
(* FencedCommit: the fenced writes never touch the lease, so the lease     *)
(* theorems carry over; what is new is that admission goes to the newest   *)
(* generation only, and that writers are grantees.                         *)
(***************************************************************************)
(* What the write transactions add to the types of the lease. *)
WriteTypes ==
    /\ admitted \in [Worker -> Token \union {NoToken}]
    /\ stored \in Nat
    /\ unaudited \in SUBSET Nat

FencedInv == LeaseInv /\ WriteTypes /\ WritersAreGrantees

-----------------------------------------------------------------------------
(* Seen through the lease variables, every step is a lease step or none. *)
LEMMA StepIsLeaseStep == [Next]_vars => [LeaseNext]_leaseVars
  <1> SUFFICES ASSUME [Next]_vars
               PROVE  [LeaseNext]_leaseVars
    OBVIOUS
  <1>1. CASE Tick
    BY <1>1 DEF LeaseNext
  <1>2. ASSUME NEW w \in Worker, FreeLeaseStep(w)
        PROVE  LeaseNext
    BY <1>2 DEF FreeLeaseStep, LeaseNext
  <1>3. ASSUME NEW w \in Worker, CrashInWrite(w)
        PROVE  LeaseNext
    BY <1>3 DEF CrashInWrite, LeaseNext, LeaseStep
  <1>4. ASSUME NEW w \in Worker, WriteStep(w)
        PROVE  LeaseNext \/ UNCHANGED leaseVars
    BY <1>4 DEF WriteStep, BeginFencedWrite, RefusedInStore, Attempts,
                RefusedInUnitOfWork, CommitWrite, RollbackWrite,
                LeaseNext, LeaseStep
  <1> QED
    BY <1>1, <1>2, <1>3, <1>4 DEF Next, vars, leaseVars

(* A fenced write only adds steps to the lease: its behaviours are         *)
(* behaviours of the lease.                                                *)
THEOREM FencedCommitExtendsLease == Spec => LeaseSpec
  <1>1. Init => LeaseInit
    BY DEF Init
  <1> QED
    BY <1>1, StepIsLeaseStep, PTL DEF Spec, LeaseSpec

(* The history only grows, and keeps the owners it has recorded. *)
LEMMA HistoryOnlyGrows ==
    ASSUME LeaseInv, [LeaseNext]_leaseVars
    PROVE  /\ Len(issued') >= Len(issued)
           /\ \A i \in 1 .. Len(issued) : issued'[i] = issued[i]
  <1>0. issued \in Seq(Owner)
    BY DEF LeaseInv, TypeOK
  <1>1. ASSUME NEW w \in Worker, NEW o \in Owner, NEW seconds \in Durations,
               AcquireLease(w, o, seconds)
        PROVE  /\ Len(issued') >= Len(issued)
               /\ \A i \in 1 .. Len(issued) : issued'[i] = issued[i]
    <2>1. issued' = Append(issued, o)
      BY <1>1 DEF AcquireLease
    <2> QED
      BY <1>0, <2>1, AppendKeepsOwners
  <1>2. CASE issued' = issued
    BY <1>0, <1>2
  <1> QED
    BY <1>1, <1>2
       DEF LeaseNext, LeaseStep, leaseVars, Tick, ReadClock, AcquireRefused,
           GetLeaseToken, RenewLease, RenewRefused, ReleaseLease, Prune,
           ReadLease, CrashWorker

-----------------------------------------------------------------------------
(* assert_valid compares the token with a row that carries the newest      *)
(* generation, so only that generation passes.                             *)
LEMMA AdmissionIsNewest ==
    ASSUME LeaseInv, NEW w \in Worker, BeginFencedWrite(w)
    PROVE  /\ admitted' = [admitted EXCEPT ![w] = token[w]]
           /\ token[w] \in Token
           /\ token[w].generation = Len(issued)
           /\ Len(issued) >= 1
           /\ token[w].owner = issued[Len(issued)]
  BY DEF BeginFencedWrite, Attempts, FenceHolds, RowMatches, LeaseInv, TypeOK,
         LedgerCounts, TokensWereIssued

(* Each open transaction stays the transaction of its generation's owner. *)
LEMMA StepKeepsWriters ==
    ASSUME FencedInv, LeaseInv', [Next]_vars
    PROVE  WriteTypes' /\ WritersAreGrantees'
  <1>0. /\ Len(issued) \in Nat /\ Len(issued') \in Nat
        /\ Len(issued') >= Len(issued)
        /\ \A i \in 1 .. Len(issued) : issued'[i] = issued[i]
    BY StepIsLeaseStep, HistoryOnlyGrows DEF FencedInv, LeaseInv, TypeOK
  <1>1. CASE UNCHANGED commitVars
    BY <1>0, <1>1 DEF commitVars, FencedInv, WriteTypes, WritersAreGrantees
  <1>2. ASSUME NEW w \in Worker, BeginFencedWrite(w)
        PROVE  WriteTypes' /\ WritersAreGrantees'
    <2>1. UNCHANGED <<stored, unaudited, issued>>
      BY <1>2 DEF BeginFencedWrite, Attempts, ReadLease
    <2> QED
      BY <1>0, <1>2, <2>1, AdmissionIsNewest
         DEF FencedInv, WriteTypes, WritersAreGrantees
  <1>3. ASSUME NEW w \in Worker, RefusedInUnitOfWork(w)
        PROVE  WriteTypes' /\ WritersAreGrantees'
    <2>1. token[w].generation \in Nat
      BY <1>3 DEF RefusedInUnitOfWork, Attempts, FencedInv, LeaseInv, TypeOK, Token
    <2>2. /\ UNCHANGED <<admitted, stored>>
          /\ unaudited' = unaudited \union {token[w].generation}
      BY <1>3 DEF RefusedInUnitOfWork
    <2>3. unaudited' \in SUBSET Nat
      BY <2>1, <2>2 DEF FencedInv, WriteTypes
    <2>4. WriteTypes'
      BY <2>2, <2>3 DEF FencedInv, WriteTypes
    <2>5. WritersAreGrantees'
      BY <1>0, <2>2 DEF FencedInv, WriteTypes, WritersAreGrantees
    <2> QED
      BY <2>4, <2>5
  <1>4. ASSUME NEW w \in Worker, CommitWrite(w)
        PROVE  WriteTypes' /\ WritersAreGrantees'
    <2>1. admitted[w].generation \in 1 .. Len(issued)
      BY <1>4 DEF CommitWrite, FencedInv, WritersAreGrantees
    <2>2. /\ UNCHANGED <<unaudited, issued>>
          /\ stored' = admitted[w].generation
          /\ admitted' = [admitted EXCEPT ![w] = NoToken]
      BY <1>4 DEF CommitWrite, leaseVars
    <2>3. \A v \in Worker : admitted'[v] = NoToken \/ admitted'[v] = admitted[v]
      BY <2>2 DEF FencedInv, WriteTypes
    <2>4. WriteTypes'
      BY <1>0, <2>1, <2>2 DEF FencedInv, WriteTypes
    <2>5. WritersAreGrantees'
      BY <1>0, <2>1, <2>2, <2>3 DEF FencedInv, WriteTypes, WritersAreGrantees
    <2> QED
      BY <2>4, <2>5
  <1>5. ASSUME NEW w \in Worker, RollbackWrite(w) \/ CrashInWrite(w)
        PROVE  WriteTypes' /\ WritersAreGrantees'
    <2>1. /\ UNCHANGED <<stored, unaudited>>
          /\ admitted' = [admitted EXCEPT ![w] = NoToken]
      BY <1>5 DEF RollbackWrite, CrashInWrite
    <2>2. \A v \in Worker : admitted'[v] = NoToken \/ admitted'[v] = admitted[v]
      BY <2>1 DEF FencedInv, WriteTypes
    <2>3. WriteTypes'
      BY <2>1 DEF FencedInv, WriteTypes
    <2>4. WritersAreGrantees'
      BY <1>0, <2>1, <2>2 DEF FencedInv, WriteTypes, WritersAreGrantees
    <2> QED
      BY <2>3, <2>4
  <1> QED
    BY <1>1, <1>2, <1>3, <1>4, <1>5
       DEF Next, vars, FreeLeaseStep, WriteStep, RefusedInStore

(* The inductive invariant of leases and write transactions together. *)
THEOREM FencedInvariant == Spec => []FencedInv
  <1>1. Init => FencedInv
    <2> SUFFICES ASSUME Init PROVE FencedInv
      OBVIOUS
    <2>1. LeaseInv
      BY InitEstablishesLeaseInv DEF Init
    <2> QED
      BY <2>1 DEF Init, LeaseInit, FencedInv, WriteTypes, WritersAreGrantees
  <1>2. FencedInv /\ [Next]_vars => FencedInv'
    <2> SUFFICES ASSUME FencedInv, [Next]_vars PROVE FencedInv'
      OBVIOUS
    <2>1. LeaseInv'
      BY StepIsLeaseStep, StepKeepsLeaseInv DEF FencedInv
    <2> QED
      BY <2>1, StepKeepsWriters DEF FencedInv
  <1> QED
    BY <1>1, <1>2, PTL DEF Spec

(* The variables keep their types. *)
THEOREM CommitTypeCorrect == Spec => []CommitTypeOK
  <1>1. FencedInv => CommitTypeOK
    BY DEF FencedInv, LeaseInv, WriteTypes, CommitTypeOK
  <1> QED
    BY <1>1, FencedInvariant, PTL

(* What is stored, and every open transaction, belongs to a generation     *)
(* that was issued, to its owner.                                          *)
THEOREM WritersHeldTheLease == Spec => []WritersAreGrantees
  <1>1. FencedInv => WritersAreGrantees
    BY DEF FencedInv
  <1> QED
    BY <1>1, FencedInvariant, PTL

LEMMA StepAdmitsNewest ==
    ASSUME FencedInv, [Next]_vars
    PROVE  \A w \in Worker :
              admitted'[w] # NoToken /\ admitted'[w] # admitted[w]
              => admitted'[w].generation = Len(issued)
  <1> DEFINE A == \A w \in Worker :
                    admitted'[w] # NoToken /\ admitted'[w] # admitted[w]
                    => admitted'[w].generation = Len(issued)
  <1>0. admitted \in [Worker -> Token \union {NoToken}]
    BY DEF FencedInv, WriteTypes
  <1>1. ASSUME NEW w \in Worker, BeginFencedWrite(w)
        PROVE  A
    BY <1>0, <1>1, AdmissionIsNewest DEF FencedInv
  <1>2. ASSUME NEW w \in Worker,
               CommitWrite(w) \/ RollbackWrite(w) \/ CrashInWrite(w)
        PROVE  A
    BY <1>0, <1>2 DEF CommitWrite, RollbackWrite, CrashInWrite
  <1>3. CASE admitted' = admitted
    BY <1>3
  <1> QED
    BY <1>1, <1>2, <1>3
       DEF Next, vars, commitVars, FreeLeaseStep, WriteStep, RefusedInStore,
           RefusedInUnitOfWork

(* The fence check admits no generation but the newest, for any number of  *)
(* workers and any interleaving of releases, prunes and re-acquisitions.   *)
THEOREM AdmissionGoesToNewest == Spec => OnlyNewestGenerationAdmitted
  <1> DEFINE A == \A w \in Worker :
                    admitted'[w] # NoToken /\ admitted'[w] # admitted[w]
                    => admitted'[w].generation = Len(issued)
  <1>1. FencedInv /\ [Next]_vars => [A]_vars
    BY StepAdmitsNewest
  <1> QED
    BY <1>1, FencedInvariant, PTL DEF Spec, OnlyNewestGenerationAdmitted

(* The lease theorems hold of the composed specification. *)
THEOREM LeaseTheoremsCarryOver ==
    Spec => /\ []GenerationNamesOneOwner
            /\ NoTakeoverOfLiveLease
            /\ ImplementsOwnership
  BY FencedCommitExtendsLease, GenerationsAreFencingTokens, LiveLeaseIsSafe,
     LeaseImplementsOwnership

-----------------------------------------------------------------------------
(***************************************************************************)
(* DateRelabel: a relabel or rollback touches nothing of the leases and    *)
(* admits no writer, so the theorems of FencedCommit survive it; what a    *)
(* rollback may delete is settled by the numbers collections are given,    *)
(* which no after-image can know in advance.                               *)
(***************************************************************************)
(* The tables keep their shape. *)
RelabelTypes ==
    /\ target \in Content
    /\ collector \in {"none", "leased", "overdue"}
    /\ written \in Nat
    /\ runDate \in [RunRow -> {"none", "source", "target", "gone"}]
    /\ operator \in Operator
    /\ audits \in Seq(Audit)
    /\ collected \in Nat
    /\ later \subseteq {"content", "runs"}

(* Images hold generations that had been issued, ...                       *)
ImagesWereIssued ==
    /\ operator.images.content <= Len(issued)
    /\ \A a \in DOMAIN audits : audits[a].images.content <= Len(issued)

Known(c) == \A n \in Nat : c = <<"own", n>> => n <= written
Started(runs) == \A k \in runs : runDate[k] # "none"

(* ... collections that had been made and runs that had been started, ...  *)
ImagesWereThere ==
    /\ Known(target) /\ Known(operator.images.replaced)
    /\ Started(operator.images.runs)
    /\ \A a \in DOMAIN audits :
          /\ Known(audits[a].after) /\ Known(audits[a].images.replaced)
          /\ Started(audits[a].images.runs) /\ Started(audits[a].afterRuns)

(* ... so that later work differs from every after-image of its table.     *)
LaterWorkShows ==
    \A a \in DOMAIN audits : Applied(a) =>
        /\ "content" \in later => audits[a].after = Nothing \/ target # audits[a].after
        /\ "runs" \in later =>
              \/ audits[a].afterRuns = {}
              \/ \E k \in RunsAt("target") : k \notin audits[a].afterRuns

(* What a relabel moved is in its after-image; rows are in its way only if *)
(* it moves some, and are noted last.                                      *)
ImagesFit ==
    /\ operator.pc # "decide" => operator.images.replaced = Nothing
    /\ operator.images.content = 0 => operator.images.replaced = Nothing
    /\ \A a \in DOMAIN audits : Applied(a) =>
          /\ audits[a].images.runs \subseteq audits[a].afterRuns
          /\ audits[a].images.content = 0 => audits[a].images.replaced = Nothing
          /\ audits[a].images.content # 0 =>
                audits[a].after = Moved(audits[a].images.content)

(* A rollback works from an audit row of an applied relabel.               *)
UndoHasAudit ==
    operator.pc = "undo" =>
        operator.audit \in DOMAIN audits /\ Applied(operator.audit)

RelabelInv == /\ FencedInv /\ RelabelTypes /\ ImagesWereIssued
              /\ ImagesWereThere /\ ImagesFit /\ LaterWorkShows /\ UndoHasAudit

-----------------------------------------------------------------------------
(* Everything but a fenced write leaves leases and open transactions alone. *)
LEMMA OthersLeaveFences ==
    ASSUME [RelabelNext]_allVars
    PROVE  \/ CollectSource
           \/ UNCHANGED <<leaseVars, admitted, unaudited>>
  BY DEF RelabelNext, allVars, vars, commitVars, StartRun, CollectTarget, LeaseTarget,
         LapseTarget, WriteTarget, LeaveTarget, Relabel, Undo, PlanLeases, PlanSource,
         PlanTarget, EndPlan, RejectRelabel, ApplyRelabel, RelabelRaises, ReadAudit,
         RollBack, RollBackRaises, OnlyOperator

(* Seen through the lease variables, every step is a lease step or none. *)
LEMMA RelabelStepIsLeaseStep == [RelabelNext]_allVars => [LeaseNext]_leaseVars
  BY OthersLeaveFences, StepIsLeaseStep DEF vars, CollectSource

(* What happens to the stored generation: a fenced write, or it is moved   *)
(* away, or put back.                                                      *)
LEMMA StoredMovesOrReturns ==
    ASSUME RelabelInv, [RelabelNext]_allVars, UNCHANGED <<leaseVars, admitted, unaudited>>,
           ~CollectSource
    PROVE  stored' \in Nat /\ stored' <= Len(issued)
  <1>1. stored \in Nat /\ stored <= Len(issued) /\ Len(issued) \in Nat
    BY DEF RelabelInv, FencedInv, WriteTypes, WritersAreGrantees, LeaseInv, TypeOK
  <1>2. CASE ApplyRelabel
    BY <1>1, <1>2 DEF ApplyRelabel
  <1>3. CASE RollBack
    <2>1. operator.audit \in DOMAIN audits /\ audits[operator.audit] \in Audit
      BY <1>3 DEF RollBack, RelabelInv, UndoHasAudit, RelabelTypes
    <2>2. audits[operator.audit].images.content \in Nat
      BY <2>1 DEF Audit, Images
    <2> QED
      BY <1>1, <1>3, <2>1, <2>2 DEF RollBack, RelabelInv, ImagesWereIssued
  <1>4. CASE stored' = stored
    BY <1>1, <1>4
  <1> QED
    BY <1>2, <1>3, <1>4
       DEF RelabelNext, allVars, vars, commitVars, StartRun, CollectTarget, LeaseTarget,
           LapseTarget, WriteTarget, LeaveTarget, Relabel, Undo, PlanLeases, PlanSource,
           PlanTarget, EndPlan, RejectRelabel, RelabelRaises, ReadAudit,
           RollBackRaises, OnlyOperator

LEMMA StepKeepsFences ==
    ASSUME RelabelInv, [RelabelNext]_allVars
    PROVE  FencedInv' /\ Len(issued) \in Nat /\ Len(issued') \in Nat
           /\ Len(issued') >= Len(issued)
  <1>1. LeaseInv'
    BY RelabelStepIsLeaseStep, StepKeepsLeaseInv DEF RelabelInv, FencedInv
  <1>0. Len(issued) \in Nat /\ Len(issued') \in Nat /\ Len(issued') >= Len(issued)
    BY <1>1, RelabelStepIsLeaseStep, HistoryOnlyGrows DEF RelabelInv, FencedInv, LeaseInv, TypeOK
  <1>2. CASE CollectSource
    <2>1. FencedInv /\ [Next]_vars
      BY <1>2 DEF RelabelInv, CollectSource
    <2>2. WriteTypes' /\ WritersAreGrantees'
      BY <1>1, <2>1, StepKeepsWriters
    <2> QED
      BY <1>0, <1>1, <2>2 DEF FencedInv
  <1>3. CASE ~CollectSource
    <2>1. UNCHANGED <<leaseVars, admitted, unaudited>>
      BY <1>3, OthersLeaveFences
    <2>2. stored' \in Nat /\ stored' <= Len(issued)
      BY <1>3, <2>1, StoredMovesOrReturns
    <2> QED
      BY <1>0, <1>1, <2>1, <2>2
         DEF RelabelInv, FencedInv, WriteTypes, WritersAreGrantees, leaseVars
  <1> QED
    BY <1>0, <1>1, <1>2, <1>3

-----------------------------------------------------------------------------
(* The parts of the invariant that a step may disturb. *)
TablesInv ==
    /\ RelabelTypes /\ ImagesWereIssued /\ ImagesWereThere
    /\ ImagesFit /\ LaterWorkShows /\ UndoHasAudit

(* The types of what the operator has in hand. *)
LEMMA ImageTypes ==
    ASSUME RelabelInv
    PROVE  /\ operator.images \in Images
           /\ operator.images.content \in Nat
           /\ operator.images.runs \in SUBSET RunRow
           /\ operator.images.replaced \in Content
           /\ \A a \in DOMAIN audits :
                 /\ audits[a] \in Audit
                 /\ audits[a].images.content \in Nat
                 /\ audits[a].images.runs \in SUBSET RunRow
                 /\ audits[a].images.replaced \in Content
                 /\ audits[a].after \in Content
                 /\ audits[a].afterRuns \in SUBSET RunRow
  <1>1. operator.images \in Images /\ \A a \in DOMAIN audits : audits[a] \in Audit
    BY DEF RelabelInv, RelabelTypes, Operator
  <1> QED
    BY <1>1 DEF Audit, Images

(* Fenced writes leave the tables of the relabel alone. *)
LEMMA FencedStepKeepsTables ==
    ASSUME RelabelInv, UNCHANGED <<target, collector, written, runDate, operator, audits, later>>,
           collected' \in Nat, Len(issued) \in Nat, Len(issued') \in Nat,
           Len(issued') >= Len(issued)
    PROVE  TablesInv'
  <1>1. operator.images.content \in Nat /\ \A a \in DOMAIN audits : audits[a].images.content \in Nat
    BY ImageTypes
  <1>2. RelabelTypes' /\ UndoHasAudit'
    BY DEF RelabelInv, RelabelTypes, UndoHasAudit, Applied
  <1>3. ImagesWereIssued'
    BY <1>1 DEF RelabelInv, ImagesWereIssued
  <1>4. ImagesWereThere' /\ ImagesFit'
    BY DEF RelabelInv, ImagesWereThere, ImagesFit, Applied, Known, Started
  <1>5. LaterWorkShows'
    BY DEF RelabelInv, LaterWorkShows, RunsAt, Applied
  <1> QED
    BY <1>2, <1>3, <1>4, <1>5 DEF TablesInv

(* A collection of the target date is one that no image has seen. *)
LEMMA WriteTargetKeepsTables ==
    ASSUME RelabelInv, WriteTarget
    PROVE  TablesInv'
  <1>0. UNCHANGED <<runDate, operator, audits, collected, issued>>
    BY DEF WriteTarget, vars, leaseVars
  <1>1. /\ written \in Nat /\ written' = written + 1
        /\ target' = <<"own", written + 1>> /\ collector' = "none"
        /\ later' = later \union {"content"} /\ later \subseteq {"content", "runs"}
    BY DEF WriteTarget, RelabelInv, RelabelTypes
  <1>2. target' \in Content
    BY <1>1 DEF Content
  <1>3. RelabelTypes' /\ UndoHasAudit' /\ ImagesWereIssued' /\ ImagesFit'
    BY <1>0, <1>1, <1>2
       DEF RelabelInv, RelabelTypes, UndoHasAudit, ImagesWereIssued, ImagesFit, Applied
  <1>4. ASSUME NEW c, Known(c)
        PROVE  Known(c)' /\ c # target'
    BY <1>1, <1>4 DEF Known
  <1>5. Known(target)'
    BY <1>1 DEF Known
  <1>6. ImagesWereThere'
    BY <1>0, <1>4, <1>5 DEF RelabelInv, ImagesWereThere, Started, Known
  <1>7. LaterWorkShows'
    BY <1>0, <1>1, <1>4 DEF RelabelInv, ImagesWereThere, LaterWorkShows, Applied, RunsAt
  <1> QED
    BY <1>3, <1>6, <1>7 DEF TablesInv

(* Neither is a run that has only now been started. *)
LEMMA StartRunKeepsTables ==
    ASSUME RelabelInv, NEW k \in RunRow, NEW date \in {"source", "target"}, StartRun(k, date)
    PROVE  TablesInv'
  <1>0. UNCHANGED <<target, collector, written, operator, audits, collected, issued>>
    BY DEF StartRun, vars, leaseVars
  <1>1. /\ runDate \in [RunRow -> {"none", "source", "target", "gone"}]
        /\ runDate[k] = "none" /\ runDate' = [runDate EXCEPT ![k] = date]
        /\ later' = (IF date = "target" THEN later \union {"runs"} ELSE later)
        /\ later \subseteq {"content", "runs"}
    BY DEF StartRun, RelabelInv, RelabelTypes
  <1>2. RelabelTypes' /\ UndoHasAudit' /\ ImagesWereIssued' /\ ImagesFit'
    BY <1>0, <1>1
       DEF RelabelInv, RelabelTypes, UndoHasAudit, ImagesWereIssued, ImagesFit, Applied
  <1>3. ASSUME NEW runs \in SUBSET RunRow, Started(runs)
        PROVE  Started(runs)' /\ k \notin runs
    BY <1>1, <1>3 DEF Started
  <1>4. ImagesWereThere'
    BY <1>0, <1>3, ImageTypes DEF RelabelInv, ImagesWereThere, Known
  <1>5. RunsAt("target") \subseteq RunsAt("target")'
    BY <1>1 DEF RunsAt
  <1>6. date = "target" => k \in RunsAt("target")'
    BY <1>1 DEF RunsAt
  <1>7. LaterWorkShows'
    <2> SUFFICES ASSUME NEW a \in DOMAIN audits, Applied(a)
                 PROVE  /\ "content" \in later => audits[a].after = Nothing \/ target # audits[a].after
                        /\ "runs" \in later' =>
                              \/ audits[a].afterRuns = {}
                              \/ \E j \in RunsAt("target")' : j \notin audits[a].afterRuns
      BY <1>0, <1>1 DEF LaterWorkShows, Applied
    <2>1. CASE later' = later
      BY <1>5, <2>1 DEF RelabelInv, LaterWorkShows
    <2>2. CASE date = "target"
      BY <1>3, <1>6, <2>2, ImageTypes DEF RelabelInv, ImagesWereThere, LaterWorkShows
    <2> QED
      BY <1>1, <2>1, <2>2
  <1> QED
    BY <1>2, <1>4, <1>7 DEF TablesInv

(* The operator's own notes: enough that they are of what was there. *)
LEMMA NotesKeepTables ==
    ASSUME RelabelInv, UNCHANGED <<vars, target, written, runDate, audits, collected, later>>,
           collector' \in {"none", "leased", "overdue"},
           operator' \in Operator, UndoHasAudit',
           operator'.images.content <= Len(issued),
           Known(operator'.images.replaced), Started(operator'.images.runs),
           operator'.pc # "decide" => operator'.images.replaced = Nothing,
           operator'.images.content = 0 => operator'.images.replaced = Nothing
    PROVE  TablesInv'
  <1>0. issued' = issued
    BY DEF vars, leaseVars
  <1>1. RelabelTypes' /\ ImagesWereIssued'
    BY <1>0 DEF RelabelInv, RelabelTypes, ImagesWereIssued
  <1>2. ImagesWereThere' /\ ImagesFit'
    BY DEF RelabelInv, ImagesWereThere, ImagesFit, Known, Started, Applied
  <1>3. LaterWorkShows'
    BY DEF RelabelInv, LaterWorkShows, RunsAt, Applied
  <1> QED
    BY <1>1, <1>2, <1>3 DEF TablesInv

LEMMA AwayIsQuiet ==
    /\ Away \in Operator /\ Away.pc = "idle" /\ Away.audit = 0
    /\ Away.images = NoImages
    /\ NoImages.content = 0 /\ NoImages.runs = {} /\ NoImages.replaced = Nothing
    /\ NoImages \in Images
  <1>1. NoImages \in Images
    BY DEF NoImages, Images, Content
  <1>2. Away = [pc |-> "idle", policy |-> Nothing, leased |-> FALSE,
                images |-> NoImages, audit |-> 0]
    BY DEF Away
  <1>3. Away \in Operator
    BY <1>1, <1>2 DEF Operator
  <1> QED
    BY <1>1, <1>2, <1>3 DEF NoImages

LEMMA NothingIsKnown == Known(Nothing) /\ Started({})
  BY RelabelAssumption DEF Known, Started

(* Going away, whether the plan was enough, the relabel raised or the      *)
(* rollback was refused.                                                   *)
LEMMA LeavingKeepsTables ==
    ASSUME RelabelInv, OnlyOperator, operator' = Away
    PROVE  TablesInv'
  <1>1. /\ UNCHANGED <<vars, target, written, runDate, audits, collected, later>>
        /\ collector' \in {"none", "leased", "overdue"}
    BY DEF OnlyOperator, RelabelInv, RelabelTypes
  <1>2. Len(issued) \in Nat
    BY DEF RelabelInv, FencedInv, LeaseInv, TypeOK
  <1>3. /\ operator' \in Operator /\ UndoHasAudit'
        /\ operator'.images.content <= Len(issued)
        /\ Known(operator'.images.replaced) /\ Started(operator'.images.runs)
        /\ operator'.images.replaced = Nothing
    BY <1>2, AwayIsQuiet, NothingIsKnown DEF UndoHasAudit
  <1> QED
    BY <1>1, <1>3, NotesKeepTables

LEMMA PlanningKeepsTables ==
    ASSUME RelabelInv,
           \/ \E policy \in Policy : PlanLeases(policy)
           \/ PlanSource \/ PlanTarget \/ \E a \in DOMAIN audits : ReadAudit(a)
    PROVE  TablesInv'
  <1>0. /\ operator \in Operator /\ target \in Content /\ Len(issued) \in Nat
        /\ stored \in Nat /\ stored <= Len(issued) /\ DOMAIN audits \subseteq Nat
    BY DEF RelabelInv, RelabelTypes, FencedInv, LeaseInv, TypeOK, WriteTypes, WritersAreGrantees
  <1>1. /\ OnlyOperator
        /\ UNCHANGED <<vars, target, written, runDate, audits, collected, later>>
        /\ collector' \in {"none", "leased", "overdue"}
    BY DEF PlanLeases, PlanSource, PlanTarget, ReadAudit, OnlyOperator, RelabelInv, RelabelTypes
  <1>2. ASSUME NEW policy \in Policy, PlanLeases(policy)
        PROVE  TablesInv'
    <2>1. operator' = [Away EXCEPT !.pc = "source", !.policy = policy, !.leased = Leased]
      BY <1>2 DEF PlanLeases
    <2>2. Leased \in BOOLEAN
      BY DEF Leased, LiveAt
    <2>3. operator' \in Operator /\ operator'.images = NoImages /\ operator'.pc = "source"
      BY <2>1, <2>2, AwayIsQuiet DEF Operator, Away
    <2> QED
      BY <1>0, <1>1, <2>3, AwayIsQuiet, NothingIsKnown, NotesKeepTables DEF UndoHasAudit
  <1>3. CASE PlanSource
    <2>1. RunsAt("source") \in SUBSET RunRow /\ Started(RunsAt("source"))
      BY DEF RunsAt, Started
    <2>2. /\ operator' = [operator EXCEPT !.pc = "target",
                !.images = [operator.images EXCEPT !.content = stored, !.runs = RunsAt("source")]]
      BY <1>0, <1>3 DEF PlanSource, Operator, Images
    <2>3. /\ operator' \in Operator /\ operator'.pc = "target"
          /\ operator'.images.content = stored /\ operator'.images.runs = RunsAt("source")
          /\ operator'.images.replaced = operator.images.replaced
      BY <1>0, <2>1, <2>2 DEF Operator, Images
    <2> QED
      BY <1>0, <1>1, <1>3, <2>1, <2>3, NotesKeepTables
         DEF UndoHasAudit, RelabelInv, ImagesWereThere, ImagesFit, PlanSource
  <1>4. CASE PlanTarget
    <2> DEFINE seen == IF operator.images.content = 0 THEN Nothing ELSE target
    <2>1. seen \in Content /\ Known(seen) /\ (operator.images.content = 0 => seen = Nothing)
      BY <1>0, NothingIsKnown DEF RelabelInv, ImagesWereThere, Content
    <2>2. operator' = [operator EXCEPT !.pc = "decide",
                !.images = [operator.images EXCEPT !.replaced = seen]]
      BY <1>0, <1>4 DEF PlanTarget, Operator, Images
    <2> HIDE DEF seen
    <2>3. /\ operator' \in Operator /\ operator'.pc = "decide"
          /\ operator'.images.content = operator.images.content
          /\ operator'.images.runs = operator.images.runs
          /\ operator'.images.replaced = seen
      BY <1>0, <2>1, <2>2 DEF Operator, Images
    <2> QED
      BY <1>0, <1>1, <2>1, <2>3, NotesKeepTables
         DEF UndoHasAudit, RelabelInv, ImagesWereThere, ImagesWereIssued
  <1>5. ASSUME NEW a \in DOMAIN audits, ReadAudit(a)
        PROVE  TablesInv'
    <2>1. operator' = [Away EXCEPT !.pc = "undo", !.audit = a]
      BY <1>5 DEF ReadAudit
    <2>2. /\ operator' \in Operator /\ operator'.images = NoImages
          /\ operator'.pc = "undo" /\ operator'.audit = a
      BY <1>0, <2>1, AwayIsQuiet DEF Operator, Away
    <2>3. UndoHasAudit'
      BY <1>1, <1>5, <2>2 DEF UndoHasAudit, ReadAudit, Applied
    <2> QED
      BY <1>0, <1>1, <2>2, <2>3, AwayIsQuiet, NothingIsKnown, NotesKeepTables
  <1> QED
    BY <1>2, <1>3, <1>4, <1>5

(* A new audit row takes over what the operator has in hand. *)
LEMMA AuditRowIsAppended ==
    ASSUME RelabelInv, NEW entry \in Audit, audits' = Append(audits, entry)
    PROVE  /\ audits' \in Seq(Audit)
           /\ \A a \in DOMAIN audits' :
                 \/ a \in DOMAIN audits /\ audits'[a] = audits[a]
                 \/ a = Len(audits) + 1 /\ audits'[a] = entry
  BY DEF RelabelInv, RelabelTypes

LEMMA RejectKeepsTables ==
    ASSUME RelabelInv, RejectRelabel
    PROVE  TablesInv'
  <1> DEFINE entry == [status |-> "rejected", images |-> operator.images,
                       after |-> Nothing, afterRuns |-> {}]
  <1>0. /\ UNCHANGED <<target, collector, written, runDate, collected, later, issued>>
        /\ audits' = Append(audits, entry) /\ operator' = Away
    BY DEF RejectRelabel, vars, leaseVars
  <1>1. entry \in Audit
    BY ImageTypes DEF Audit, Content
  <1>2. /\ entry.status = "rejected" /\ entry.images = operator.images
        /\ entry.after = Nothing /\ entry.afterRuns = {}
    OBVIOUS
  <1> HIDE DEF entry
  <1>3. /\ audits' \in Seq(Audit)
        /\ \A a \in DOMAIN audits' : \/ a \in DOMAIN audits /\ audits'[a] = audits[a]
                                     \/ audits'[a] = entry
    BY <1>0, <1>1, AuditRowIsAppended
  <1>4. RelabelTypes' /\ UndoHasAudit'
    BY <1>0, <1>3, AwayIsQuiet DEF RelabelInv, RelabelTypes, UndoHasAudit
  <1>5. ImagesWereIssued'
    BY <1>0, <1>2, <1>3, AwayIsQuiet
       DEF RelabelInv, ImagesWereIssued, FencedInv, LeaseInv, TypeOK
  <1>6. ImagesWereThere'
    BY <1>0, <1>2, <1>3, AwayIsQuiet, NothingIsKnown
       DEF RelabelInv, ImagesWereThere, Known, Started
  <1>8. ImagesFit'
    BY <1>0, <1>2, <1>3, AwayIsQuiet DEF RelabelInv, ImagesFit, Applied
  <1>7. LaterWorkShows'
    BY <1>0, <1>2, <1>3 DEF RelabelInv, LaterWorkShows, RunsAt, Applied
  <1> QED
    BY <1>4, <1>5, <1>6, <1>7, <1>8 DEF TablesInv

LEMMA MovedIsKnown ==
    ASSUME NEW n \in Nat
    PROVE  Moved(n) \in Content /\ Known(Moved(n))
  BY NothingIsKnown DEF Moved, Content, Known

(* Nothing is later than a relabel that has only now been applied. *)
LEMMA ApplyKeepsTables ==
    ASSUME RelabelInv, ApplyRelabel
    PROVE  TablesInv'
  <1> DEFINE moved == operator.images.runs
             entry == [status |-> "applied", images |-> operator.images, after |-> target',
                       afterRuns |-> RunsAt("target") \union moved]
  <1>0. /\ UNCHANGED <<collector, written, collected, issued>>
        /\ audits' = Append(audits, entry) /\ operator' = Away /\ later' = {}
        /\ target' = (IF operator.images.content = 0 THEN target
                      ELSE Moved(operator.images.content))
        /\ runDate' = [k \in RunRow |-> IF k \in moved THEN "target" ELSE runDate[k]]
    BY DEF ApplyRelabel, leaseVars
  <1>1. target' \in Content /\ Known(target')
    BY <1>0, ImageTypes, MovedIsKnown DEF RelabelInv, RelabelTypes, ImagesWereThere
  <1>2. RunsAt("target") \union moved \in SUBSET RunRow
    BY ImageTypes DEF RunsAt
  <1>3. entry \in Audit
    BY <1>1, <1>2, ImageTypes DEF Audit
  <1>4. /\ entry.images = operator.images /\ entry.after = target'
        /\ entry.afterRuns = RunsAt("target") \union moved
    OBVIOUS
  <1> HIDE DEF entry
  <1>5. /\ audits' \in Seq(Audit)
        /\ \A a \in DOMAIN audits' : \/ a \in DOMAIN audits /\ audits'[a] = audits[a]
                                     \/ audits'[a] = entry
    BY <1>0, <1>3, AuditRowIsAppended
  <1>6. RelabelTypes' /\ UndoHasAudit'
    BY <1>0, <1>1, <1>5, AwayIsQuiet DEF RelabelInv, RelabelTypes, UndoHasAudit
  <1>7. ImagesWereIssued'
    BY <1>0, <1>4, <1>5, AwayIsQuiet
       DEF RelabelInv, ImagesWereIssued, FencedInv, LeaseInv, TypeOK
  <1>8. ASSUME NEW runs \in SUBSET RunRow, Started(runs)
        PROVE  Started(runs)'
    BY <1>0, <1>8 DEF Started
  <1>9. Started(RunsAt("target") \union moved)
    BY DEF RelabelInv, ImagesWereThere, Started, RunsAt
  <1>10. \A a \in DOMAIN audits : Started(audits[a].images.runs)' /\ Started(audits[a].afterRuns)'
    BY <1>0, ImageTypes DEF Started, RelabelInv, ImagesWereThere
  <1>11. ImagesWereThere'
    BY <1>0, <1>1, <1>2, <1>4, <1>5, <1>8, <1>9, <1>10, AwayIsQuiet, NothingIsKnown, ImageTypes
       DEF RelabelInv, ImagesWereThere, Known, Started
  <1>12. LaterWorkShows'
    BY <1>0 DEF LaterWorkShows
  <1>13. /\ moved \subseteq entry.afterRuns
         /\ entry.images.content = 0 => entry.images.replaced = Nothing
         /\ entry.images.content # 0 => entry.after = Moved(entry.images.content)
    BY <1>0, <1>4 DEF RelabelInv, ImagesFit
  <1>14. ImagesFit'
    BY <1>0, <1>4, <1>5, <1>13, AwayIsQuiet DEF RelabelInv, ImagesFit, Applied
  <1> QED
    BY <1>6, <1>7, <1>11, <1>12, <1>14 DEF TablesInv

-----------------------------------------------------------------------------
(* The comparison with the after-image is what spares later work: a table  *)
(* that has some is not in the image, and is left as it is.                *)
LEMMA LaterWorkStays ==
    ASSUME RelabelInv, RollBack
    PROVE  /\ "content" \in later =>
                audits[operator.audit].after = Nothing /\ target' = target
           /\ "runs" \in later =>
                /\ audits[operator.audit].afterRuns = {}
                /\ audits[operator.audit].images.runs = {}
                /\ runDate' = runDate
  <1>1. operator.audit \in DOMAIN audits /\ Applied(operator.audit)
    BY DEF RelabelInv, RollBack, UndoHasAudit
  <1>2. /\ "content" \in later => audits[operator.audit].after = Nothing
        /\ "runs" \in later => audits[operator.audit].afterRuns = {}
    BY <1>1 DEF RelabelInv, RollBack, TargetIsAsLeft, LaterWorkShows
  <1>3. audits[operator.audit].images.runs \subseteq audits[operator.audit].afterRuns
    BY <1>1 DEF RelabelInv, ImagesFit
  <1>4. runDate \in [RunRow -> {"none", "source", "target", "gone"}]
    BY DEF RelabelInv, RelabelTypes
  <1> QED
    BY <1>2, <1>3, <1>4 DEF RollBack

(* What a rollback does to the audit rows. *)
LEMMA RollBackSettlesAudit ==
    ASSUME RelabelInv, RollBack
    PROVE  /\ operator.audit \in DOMAIN audits /\ Applied(operator.audit)
           /\ audits' \in Seq(Audit) /\ DOMAIN audits' = DOMAIN audits
           /\ audits'[operator.audit].status = "rolled-back"
           /\ \A b \in DOMAIN audits :
                 /\ audits'[b].images = audits[b].images
                 /\ audits'[b].after = audits[b].after
                 /\ audits'[b].afterRuns = audits[b].afterRuns
                 /\ b # operator.audit => audits'[b] = audits[b]
  <1> DEFINE a == operator.audit
  <1>1. a \in DOMAIN audits /\ audits \in Seq(Audit) /\ Applied(a)
    BY DEF RollBack, RelabelInv, UndoHasAudit, RelabelTypes
  <1>2. audits[a] \in Audit
    BY <1>1
  <1>3. /\ [audits[a] EXCEPT !.status = "rolled-back"] \in Audit
        /\ [audits[a] EXCEPT !.status = "rolled-back"].status = "rolled-back"
    BY <1>2 DEF Audit
  <1>4. audits' = [audits EXCEPT ![a] = [audits[a] EXCEPT !.status = "rolled-back"]]
    BY <1>1 DEF RollBack
  <1>5. audits'[a] = [audits[a] EXCEPT !.status = "rolled-back"] /\ audits'[a].status = "rolled-back"
    BY <1>1, <1>3, <1>4
  <1>6. /\ audits' \in Seq(Audit) /\ DOMAIN audits' = DOMAIN audits
        /\ \A b \in DOMAIN audits :
              /\ audits'[b].images = audits[b].images
              /\ audits'[b].after = audits[b].after
              /\ audits'[b].afterRuns = audits[b].afterRuns
              /\ b # a => audits'[b] = audits[b]
    BY <1>1, <1>2, <1>3, <1>4 DEF Audit
  <1> QED
    BY <1>1, <1>5, <1>6

LEMMA RollBackKeepsTables ==
    ASSUME RelabelInv, RollBack
    PROVE  TablesInv'
  <1> DEFINE a == operator.audit
             images == audits[a].images
  <1>0. /\ UNCHANGED <<collector, written, later, issued>>
        /\ target' = (IF audits[a].after = Nothing THEN target ELSE images.replaced)
        /\ operator' = Away
        /\ audits' = [audits EXCEPT ![a].status = "rolled-back"]
        /\ collected' = (IF images.content = 0 THEN collected ELSE images.content)
        /\ runDate' = [k \in RunRow |-> IF k \in images.runs THEN "source"
                        ELSE IF audits[a].afterRuns # {} /\ runDate[k] = "target" THEN "gone"
                        ELSE runDate[k]]
    BY DEF RollBack, leaseVars
  <1>1. a \in DOMAIN audits /\ audits \in Seq(Audit)
    BY RollBackSettlesAudit DEF RelabelInv, RelabelTypes
  <1>2. /\ audits' \in Seq(Audit) /\ DOMAIN audits' = DOMAIN audits
        /\ \A b \in DOMAIN audits :
              /\ audits'[b].images = audits[b].images
              /\ audits'[b].after = audits[b].after
              /\ audits'[b].afterRuns = audits[b].afterRuns
              /\ audits'[b].status = "applied" => audits[b].status = "applied"
    BY RollBackSettlesAudit DEF Applied
  <1>3. target' \in Content /\ Known(target')
    BY <1>0, <1>1, ImageTypes DEF RelabelInv, RelabelTypes, ImagesWereThere, Known
  <1>9. collected' \in Nat
    BY <1>0, <1>1, ImageTypes DEF RelabelInv, RelabelTypes
  <1>4. RelabelTypes' /\ UndoHasAudit'
    BY <1>0, <1>2, <1>3, <1>9, AwayIsQuiet DEF RelabelInv, RelabelTypes, UndoHasAudit
  <1>5. ImagesWereIssued'
    BY <1>0, <1>2, AwayIsQuiet DEF RelabelInv, ImagesWereIssued, FencedInv, LeaseInv, TypeOK
  <1>6. \A b \in DOMAIN audits : Started(audits[b].images.runs)' /\ Started(audits[b].afterRuns)'
    BY <1>0, <1>2, ImageTypes DEF Started, RelabelInv, ImagesWereThere
  <1>7. ImagesWereThere'
    BY <1>0, <1>2, <1>3, <1>6, AwayIsQuiet, NothingIsKnown
       DEF RelabelInv, ImagesWereThere, Known, Started
  <1>10. ImagesFit'
    BY <1>0, <1>2, AwayIsQuiet DEF RelabelInv, ImagesFit, Applied
  <1>8. LaterWorkShows'
    <2> SUFFICES ASSUME NEW b \in DOMAIN audits, audits[b].status = "applied"
                 PROVE  /\ "content" \in later =>
                              audits[b].after = Nothing \/ target' # audits[b].after
                        /\ "runs" \in later =>
                              \/ audits[b].afterRuns = {}
                              \/ \E k \in RunsAt("target")' : k \notin audits[b].afterRuns
      BY <1>0, <1>2 DEF LaterWorkShows, Applied
    <2>1. /\ "content" \in later => audits[b].after = Nothing \/ target # audits[b].after
          /\ "runs" \in later =>
                \/ audits[b].afterRuns = {}
                \/ \E k \in RunsAt("target") : k \notin audits[b].afterRuns
      BY DEF RelabelInv, LaterWorkShows, Applied
    <2>2. "runs" \in later => RunsAt("target")' = RunsAt("target")
      BY LaterWorkStays DEF RunsAt
    <2>3. "content" \in later => target' = target
      BY LaterWorkStays
    <2> QED
      BY <2>1, <2>2, <2>3
  <1> QED
    BY <1>4, <1>5, <1>7, <1>8, <1>10 DEF TablesInv

-----------------------------------------------------------------------------
LEMMA StepKeepsTables ==
    ASSUME RelabelInv, [RelabelNext]_allVars
    PROVE  TablesInv'
  <1>1. CASE CollectSource \/ UNCHANGED allVars
    <2>1. /\ UNCHANGED <<target, collector, written, runDate, operator, audits, later>>
          /\ collected' = collected \/ collected' = stored'
      BY <1>1 DEF CollectSource, allVars, relabelVars
    <2>2. collected' \in Nat
      BY <2>1, StepKeepsFences DEF FencedInv, WriteTypes, RelabelInv, RelabelTypes
    <2> QED
      BY <2>1, <2>2, StepKeepsFences, FencedStepKeepsTables
  <1>2. ASSUME NEW k \in RunRow, NEW date \in {"source", "target"}, StartRun(k, date)
        PROVE  TablesInv'
    BY <1>2, StartRunKeepsTables
  <1>3. CASE CollectTarget
    <2>1. CASE WriteTarget
      BY <2>1, WriteTargetKeepsTables
    <2>2. CASE LeaseTarget \/ LapseTarget \/ LeaveTarget
      <3>1. /\ UNCHANGED <<vars, target, written, runDate, operator, audits, collected, later>>
            /\ collector' \in {"none", "leased", "overdue"}
        BY <2>2 DEF LeaseTarget, LapseTarget, LeaveTarget
      <3>2. /\ operator' \in Operator /\ UndoHasAudit'
            /\ operator'.images.content <= Len(issued)
            /\ Known(operator'.images.replaced) /\ Started(operator'.images.runs)
            /\ operator'.pc # "decide" => operator'.images.replaced = Nothing
            /\ operator'.images.content = 0 => operator'.images.replaced = Nothing
        BY <3>1 DEF RelabelInv, RelabelTypes, UndoHasAudit, ImagesWereIssued, ImagesWereThere,
                    ImagesFit, Applied
      <3> QED
        BY <3>1, <3>2, NotesKeepTables
    <2> QED
      BY <1>3, <2>1, <2>2 DEF CollectTarget
  <1>4. CASE Relabel
    BY <1>4, PlanningKeepsTables, LeavingKeepsTables, RejectKeepsTables, ApplyKeepsTables
       DEF Relabel, EndPlan, RelabelRaises
  <1>5. CASE Undo
    BY <1>5, PlanningKeepsTables, LeavingKeepsTables, RollBackKeepsTables
       DEF Undo, RollBackRaises
  <1> QED
    BY <1>1, <1>2, <1>3, <1>4, <1>5 DEF RelabelNext

(* The inductive invariant of leases, writers and relabels together. *)
THEOREM RelabelInvariant == RelabelSpec => []RelabelInv
  <1>1. RelabelInit => RelabelInv
    <2> SUFFICES ASSUME RelabelInit PROVE RelabelInv
      OBVIOUS
    <2>1. FencedInv
      BY InitEstablishesLeaseInv
         DEF RelabelInit, Init, LeaseInit, FencedInv, WriteTypes, WritersAreGrantees
    <2>2. issued = <<>>
      BY DEF RelabelInit, Init, LeaseInit
    <2>3. /\ target = Nothing /\ collector = "none" /\ written = 0
          /\ runDate = [k \in RunRow |-> "none"]
          /\ operator = Away /\ audits = <<>> /\ collected = 0 /\ later = {}
      BY DEF RelabelInit
    <2>4. RelabelTypes
      <3>1. Nothing \in Content
        BY DEF Content
      <3>2. audits \in Seq(Audit)
        BY <2>3
      <3>3. runDate \in [RunRow -> {"none", "source", "target", "gone"}]
        BY <2>3
      <3>4. operator \in Operator
        BY <2>3, AwayIsQuiet
      <3> QED
        BY <2>3, <3>1, <3>2, <3>3, <3>4 DEF RelabelTypes
    <2>5. ImagesWereIssued /\ ImagesFit /\ LaterWorkShows /\ UndoHasAudit
      BY <2>2, <2>3, AwayIsQuiet DEF ImagesWereIssued, ImagesFit, LaterWorkShows, UndoHasAudit
    <2>6. ImagesWereThere
      BY <2>3, AwayIsQuiet, NothingIsKnown DEF ImagesWereThere
    <2> QED
      BY <2>1, <2>4, <2>5, <2>6 DEF RelabelInv
  <1>2. RelabelInv /\ [RelabelNext]_allVars => RelabelInv'
    BY StepKeepsFences, StepKeepsTables DEF RelabelInv, TablesInv
  <1> QED
    BY <1>1, <1>2, PTL DEF RelabelSpec

(* The variables keep their types, through relabels and rollbacks. *)
THEOREM RelabelTypeCorrect == RelabelSpec => []RelabelTypeOK
  <1>1. RelabelInv => RelabelTypeOK
    BY DEF RelabelInv, RelabelTypes, RelabelTypeOK, FencedInv, LeaseInv, WriteTypes,
           CommitTypeOK
  <1> QED
    BY <1>1, RelabelInvariant, PTL

(* The operator's writes are not fenced, and break no fence: a relabelled  *)
(* date still passes from owner to owner, generation by generation.        *)
THEOREM RelabelLeavesLeases == RelabelSpec => ImplementsOwnership
  <1>1. RelabelInit => LeaseInit
    BY DEF RelabelInit, Init
  <1>2. RelabelSpec => LeaseSpec
    BY <1>1, RelabelStepIsLeaseStep, PTL DEF RelabelSpec, LeaseSpec
  <1> QED
    BY <1>2, LeaseImplementsOwnership

(* And no token but the newest opens a write, whatever is moved meanwhile. *)
THEOREM RelabelLeavesFences == RelabelSpec => OnlyNewestGenerationAdmitted
  <1> DEFINE A == \A w \in Worker :
                    admitted'[w] # NoToken /\ admitted'[w] # admitted[w]
                    => admitted'[w].generation = Len(issued)
  <1>1. ASSUME RelabelInv, [RelabelNext]_allVars
        PROVE  A
    <2>1. CASE CollectSource
      BY <1>1, <2>1, StepAdmitsNewest DEF RelabelInv, CollectSource
    <2>2. CASE admitted' = admitted
      BY <2>2
    <2> QED
      BY <1>1, <2>1, <2>2, OthersLeaveFences
  <1>2. RelabelInv /\ [RelabelNext]_allVars => [A]_vars
    BY <1>1
  <1> QED
    BY <1>2, RelabelInvariant, PTL DEF RelabelSpec, OnlyNewestGenerationAdmitted

(* A rollback spares what was collected after the relabel, and gives the   *)
(* source date back all that had moved.                                    *)
THEOREM RollbackIsFenced == RelabelSpec => RollbackSparesLaterWork
  <1> DEFINE A == \A a \in DOMAIN audits :
            RolledBack(a) =>
                /\ "content" \in later => target' = target
                /\ "runs" \in later => \A k \in RunsAt("target") : runDate'[k] = "target"
                /\ audits[a].images.content \in {0, stored'}
                /\ \A k \in audits[a].images.runs : runDate'[k] = "source"
  <1>1. ASSUME RelabelInv, [RelabelNext]_allVars
        PROVE  A
    <2>0. audits \in Seq(Audit)
      BY <1>1 DEF RelabelInv, RelabelTypes
    <2>1. CASE RollBack
      <3>1. /\ "content" \in later => target' = target
            /\ "runs" \in later => \A k \in RunsAt("target") : runDate'[k] = "target"
        BY <1>1, <2>1, LaterWorkStays DEF RunsAt
      <3>2. \A a \in DOMAIN audits : RolledBack(a) => a = operator.audit
        BY <1>1, <2>1, RollBackSettlesAudit DEF RolledBack, Applied
      <3>3. operator.audit \in DOMAIN audits
        BY <1>1, <2>1, RollBackSettlesAudit
      <3>4. /\ audits[operator.audit].images.content \in {0, stored'}
            /\ \A k \in audits[operator.audit].images.runs : runDate'[k] = "source"
        BY <1>1, <2>1, <3>3, ImageTypes DEF RollBack
      <3> QED
        BY <3>1, <3>2, <3>4
    <2>2. CASE \A a \in DOMAIN audits : audits'[a] = audits[a]
      BY <2>2 DEF RolledBack, Applied
    <2>3. CASE ApplyRelabel \/ RejectRelabel
      <3>1. \A a \in DOMAIN audits : audits'[a] = audits[a]
        BY <2>0, <2>3 DEF ApplyRelabel, RejectRelabel
      <3> QED
        BY <2>2, <3>1
    <2>4. CASE audits' = audits
      BY <2>2, <2>4
    <2> QED
      BY <1>1, <2>1, <2>3, <2>4
         DEF RelabelNext, allVars, relabelVars, CollectSource, StartRun, CollectTarget,
             LeaseTarget, LapseTarget, WriteTarget, LeaveTarget, Relabel, Undo, PlanLeases,
             PlanSource, PlanTarget, EndPlan, RelabelRaises, ReadAudit, RollBackRaises,
             OnlyOperator
  <1>2. RelabelInv /\ [RelabelNext]_allVars => [A]_allVars
    BY <1>1
  <1> QED
    BY <1>2, RelabelInvariant, PTL DEF RelabelSpec, RollbackSparesLaterWork

-----------------------------------------------------------------------------
(***************************************************************************)
(* What the audits account for.  A collection of the source date is where  *)
(* it was stored or in an applied audit; a run row is in at most one.      *)
(***************************************************************************)
RunsHaveOneAudit ==
    \A a \in DOMAIN audits : Applied(a) =>
        /\ \A k \in audits[a].images.runs : runDate[k] \in {"target", "gone"}
        /\ \A b \in DOMAIN audits \ {a} :
              Applied(b) => audits[a].images.runs \intersect audits[b].images.runs = {}

SourceInv == CollectedIsThereOrHeld /\ RunsHaveOneAudit

(* All steps but two leave the applied audits, and what they say of the    *)
(* source date, as they are.                                               *)
LEMMA AuditsStand ==
    ASSUME RelabelInv, [RelabelNext]_allVars, ~ApplyRelabel, ~RollBack
    PROVE  /\ \A a \in DOMAIN audits : a \in DOMAIN audits' /\ audits'[a] = audits[a]
           /\ \A a \in DOMAIN audits' : audits'[a].status = "applied" => a \in DOMAIN audits
           /\ stored' = collected' \/ UNCHANGED <<stored, collected>>
           /\ \A k \in RunRow : runDate'[k] = runDate[k] \/ runDate[k] = "none"
  <1>0. /\ audits \in Seq(Audit)
        /\ runDate \in [RunRow -> {"none", "source", "target", "gone"}]
    BY DEF RelabelInv, RelabelTypes
  <1>1. CASE CollectSource
    BY <1>1 DEF CollectSource
  <1>2. CASE RejectRelabel
    <2> DEFINE entry == [status |-> "rejected", images |-> operator.images,
                         after |-> Nothing, afterRuns |-> {}]
    <2>1. audits' = Append(audits, entry) /\ UNCHANGED <<stored, runDate, collected>>
      BY <1>2 DEF RejectRelabel, vars, commitVars
    <2>2. entry.status = "rejected"
      OBVIOUS
    <2> HIDE DEF entry
    <2>3. \A a \in DOMAIN audits' : \/ a \in DOMAIN audits /\ audits'[a] = audits[a]
                                    \/ audits'[a] = entry
      BY <1>0, <2>1
    <2>4. \A a \in DOMAIN audits : a \in DOMAIN audits' /\ audits'[a] = audits[a]
      BY <1>0, <2>1
    <2> QED
      BY <2>1, <2>2, <2>3, <2>4
  <1>3. ASSUME NEW k \in RunRow, NEW date \in {"source", "target"}, StartRun(k, date)
        PROVE  /\ UNCHANGED <<audits, stored, collected>>
               /\ \A j \in RunRow : runDate'[j] = runDate[j] \/ runDate[j] = "none"
    BY <1>0, <1>3 DEF StartRun, vars, commitVars
  <1>4. CASE UNCHANGED <<audits, stored, runDate, collected>>
    BY <1>4
  <1> QED
    BY <1>1, <1>2, <1>3, <1>4
       DEF RelabelNext, allVars, vars, commitVars, relabelVars, CollectTarget, LeaseTarget,
           LapseTarget, WriteTarget, LeaveTarget, Relabel, Undo, PlanLeases, PlanSource,
           PlanTarget, EndPlan, RelabelRaises, ReadAudit, RollBackRaises, OnlyOperator

(* The row that an applied relabel adds. *)
LEMMA AuditIsAdded ==
    ASSUME RelabelInv, ApplyRelabel
    PROVE  LET new == Len(audits) + 1 IN
           /\ new \in Nat \ {0} /\ new \notin DOMAIN audits
           /\ DOMAIN audits' = DOMAIN audits \union {new}
           /\ \A a \in DOMAIN audits : audits'[a] = audits[a]
           /\ audits'[new].status = "applied"
           /\ audits'[new].images = operator.images
  <1> DEFINE entry == [status |-> "applied", images |-> operator.images, after |-> target',
                       afterRuns |-> RunsAt("target") \union operator.images.runs]
  <1>1. audits' = Append(audits, entry) /\ audits \in Seq(Audit)
    BY DEF ApplyRelabel, RelabelInv, RelabelTypes
  <1>2. entry.status = "applied" /\ entry.images = operator.images
    OBVIOUS
  <1> HIDE DEF entry
  <1>3. /\ Len(audits) \in Nat /\ DOMAIN audits = 1 .. Len(audits)
        /\ DOMAIN audits' = 1 .. (Len(audits) + 1)
        /\ audits'[Len(audits) + 1] = entry
        /\ \A a \in DOMAIN audits : audits'[a] = audits[a]
    BY <1>1
  <1> QED
    BY <1>2, <1>3

LEMMA StepKeepsSource ==
    ASSUME RelabelInv, SourceInv, [RelabelNext]_allVars
    PROVE  SourceInv'
  <1>0. /\ audits \in Seq(Audit)
        /\ runDate \in [RunRow -> {"none", "source", "target", "gone"}]
    BY DEF RelabelInv, RelabelTypes
  <1>1. CASE ~ApplyRelabel /\ ~RollBack
    <2>1. CollectedIsThereOrHeld'
      BY <1>1, AuditsStand DEF SourceInv, CollectedIsThereOrHeld, Applied
    <2>2. \A a \in DOMAIN audits : \A k \in audits[a].images.runs :
              k \in RunRow /\ runDate[k] # "none"
      BY ImageTypes DEF RelabelInv, ImagesWereThere, Started
    <2>3. RunsHaveOneAudit'
      BY <1>1, <2>2, AuditsStand DEF SourceInv, RunsHaveOneAudit, Applied
    <2> QED
      BY <2>1, <2>3 DEF SourceInv
  <1>2. CASE ApplyRelabel
    <2> DEFINE new == Len(audits) + 1
    <2>0. /\ new \notin DOMAIN audits
          /\ DOMAIN audits' = DOMAIN audits \union {new}
          /\ \A a \in DOMAIN audits : audits'[a] = audits[a]
          /\ audits'[new].status = "applied"
          /\ audits'[new].images = operator.images
      BY <1>2, AuditIsAdded
    <2>1. /\ operator.images.content = stored /\ operator.images.runs = RunsAt("source")
          /\ stored' = 0 /\ collected' = collected
          /\ runDate' = [k \in RunRow |->
                IF k \in operator.images.runs THEN "target" ELSE runDate[k]]
      BY <1>2 DEF ApplyRelabel, Applicable, SourceIsAsPlanned
    <2> HIDE DEF new
    <2>2. CollectedIsThereOrHeld'
      BY <2>0, <2>1 DEF SourceInv, CollectedIsThereOrHeld, Applied
    <2>3. \A a \in DOMAIN audits, k \in RunsAt("source") :
              Applied(a) => k \notin audits[a].images.runs
      BY DEF SourceInv, RunsHaveOneAudit, RunsAt
    <2>4. \A k \in RunRow : /\ k \in RunsAt("source") => runDate'[k] = "target"
                            /\ k \notin RunsAt("source") => runDate'[k] = runDate[k]
      BY <2>1
    <2>5. ASSUME NEW a \in DOMAIN audits', audits'[a].status = "applied"
          PROVE  /\ \A k \in audits'[a].images.runs : runDate'[k] \in {"target", "gone"}
                 /\ \A b \in DOMAIN audits' \ {a} : audits'[b].status = "applied" =>
                        audits'[a].images.runs \intersect audits'[b].images.runs = {}
      <3>1. CASE a = new
        BY <2>0, <2>1, <2>3, <2>4, <3>1 DEF Applied, RunsAt
      <3>2. CASE a \in DOMAIN audits
        <4>1. Applied(a) /\ audits[a].images.runs \subseteq RunRow /\ audits'[a] = audits[a]
          BY <2>0, <2>5, <3>2, ImageTypes DEF Applied
        <4>2. \A k \in audits[a].images.runs : runDate[k] \in {"target", "gone"}
          BY <3>2, <4>1 DEF SourceInv, RunsHaveOneAudit
        <4>3. \A k \in audits[a].images.runs : runDate'[k] \in {"target", "gone"}
          BY <2>4, <4>1, <4>2
        <4>4. \A b \in DOMAIN audits \ {a} : audits[b].status = "applied" =>
                  audits[a].images.runs \intersect audits[b].images.runs = {}
          BY <3>2, <4>1 DEF SourceInv, RunsHaveOneAudit, Applied
        <4>5. audits[a].images.runs \intersect operator.images.runs = {}
          BY <2>1, <2>3, <3>2, <4>1
        <4> QED
          BY <2>0, <4>1, <4>3, <4>4, <4>5
      <3> QED
        BY <2>0, <3>1, <3>2
    <2>6. RunsHaveOneAudit'
      BY <2>5 DEF RunsHaveOneAudit, Applied
    <2> QED
      BY <2>2, <2>6 DEF SourceInv
  <1>3. CASE RollBack
    <2> DEFINE a == operator.audit
               images == audits[a].images
    <2>1. /\ a \in DOMAIN audits /\ Applied(a) /\ DOMAIN audits' = DOMAIN audits
          /\ audits'[a].status = "rolled-back"
          /\ \A b \in DOMAIN audits : b # a => audits'[b] = audits[b]
      BY <1>3, RollBackSettlesAudit
    <2>2. /\ stored' = (IF images.content = 0 THEN stored ELSE images.content)
          /\ collected' = (IF images.content = 0 THEN collected ELSE images.content)
          /\ \A k \in RunRow :
                runDate'[k] = IF k \in images.runs THEN "source"
                              ELSE IF audits[a].afterRuns # {} /\ runDate[k] = "target"
                                   THEN "gone" ELSE runDate[k]
      BY <1>3 DEF RollBack
    <2>3. CollectedIsThereOrHeld'
      <3>1. CASE images.content # 0
        BY <2>2, <3>1 DEF CollectedIsThereOrHeld
      <3>2. CASE images.content = 0 /\ stored = collected
        BY <2>2, <3>2 DEF CollectedIsThereOrHeld
      <3>3. CASE images.content = 0 /\ stored # collected
        <4>1. PICK b \in DOMAIN audits : Applied(b) /\ audits[b].images.content = collected
          BY <3>3 DEF SourceInv, CollectedIsThereOrHeld
        <4>2. b = a => stored = collected
          BY <3>3, <4>1 DEF CollectedIsThereOrHeld, SourceInv
        <4>3. CASE b # a
          <5>1. b \in DOMAIN audits' /\ audits'[b] = audits[b]
            BY <2>1, <4>3
          <5>2. /\ audits'[b].status = "applied" /\ audits'[b].images.content = collected'
                /\ stored' = 0
            BY <2>2, <3>3, <4>1, <5>1 DEF Applied, CollectedIsThereOrHeld, SourceInv
          <5> QED
            BY <5>1, <5>2 DEF CollectedIsThereOrHeld, Applied
        <4> QED
          BY <3>3, <4>2, <4>3
      <3> QED
        BY <3>1, <3>2, <3>3
    <2>4. ASSUME NEW b \in DOMAIN audits', audits'[b].status = "applied"
          PROVE  /\ \A k \in audits'[b].images.runs : runDate'[k] \in {"target", "gone"}
                 /\ \A c \in DOMAIN audits' \ {b} : audits'[c].status = "applied" =>
                        audits'[b].images.runs \intersect audits'[c].images.runs = {}
      <3>1. b # a /\ b \in DOMAIN audits /\ audits'[b] = audits[b] /\ Applied(b)
        BY <2>1, <2>4 DEF Applied
      <3>2. images.runs \intersect audits[b].images.runs = {}
        BY <2>1, <3>1 DEF SourceInv, RunsHaveOneAudit
      <3>3. audits[b].images.runs \subseteq RunRow
        BY <3>1, ImageTypes
      <3>4. \A k \in audits[b].images.runs : runDate[k] \in {"target", "gone"}
        BY <3>1 DEF SourceInv, RunsHaveOneAudit
      <3>5. \A k \in audits[b].images.runs : runDate'[k] \in {"target", "gone"}
        BY <2>2, <3>2, <3>3, <3>4
      <3>6. \A c \in DOMAIN audits \ {b} : audits'[c].status = "applied" =>
                  audits'[c] = audits[c] /\ Applied(c)
        BY <2>1 DEF Applied
      <3> QED
        BY <2>1, <3>1, <3>5, <3>6 DEF SourceInv, RunsHaveOneAudit
    <2>5. RunsHaveOneAudit'
      BY <2>4 DEF RunsHaveOneAudit, Applied
    <2> QED
      BY <2>3, <2>5 DEF SourceInv
  <1> QED
    BY <1>1, <1>2, <1>3

(* What was collected for the source date is never lost to a relabel: it   *)
(* is where it was stored, or an audit that can be rolled back holds it.   *)
THEOREM NothingIsLost == RelabelSpec => []CollectedIsThereOrHeld
  <1>1. RelabelInit => SourceInv
    BY DEF RelabelInit, Init, SourceInv, CollectedIsThereOrHeld, RunsHaveOneAudit
  <1>2. RelabelInv /\ SourceInv /\ [RelabelNext]_allVars => SourceInv'
    BY StepKeepsSource
  <1>3. SourceInv => CollectedIsThereOrHeld
    BY DEF SourceInv
  <1> QED
    BY <1>1, <1>2, <1>3, RelabelInvariant, PTL DEF RelabelSpec

-----------------------------------------------------------------------------
(***************************************************************************)
(* Where moved content may be: at the target date, or in an applied audit  *)
(* that replaced it.  Numbering these slots - 0 for the target date, else  *)
(* the audit's index - each that holds moved content has an applied audit  *)
(* of its own that moved it there, its keeper.  A rollback empties a slot  *)
(* and settles an audit; if that one was the keeper of another slot, the   *)
(* keeper of the target date takes its place.                              *)
(***************************************************************************)
IsMoved(c) == \E g \in Nat \ {0} : c = Moved(g)

(* While the operator has noted what is in its way, the note stands for it. *)
Held == IF operator.images.replaced = Nothing THEN target ELSE operator.images.replaced

NoteIsTrue ==
    operator.images.replaced # Nothing =>
        target = operator.images.replaced \/ ~IsMoved(target)

Slot(p) ==
    IF p = 0 THEN Held
    ELSE IF p \in DOMAIN audits /\ Applied(p) THEN audits[p].images.replaced ELSE Nothing

Keeps(a, c) ==
    /\ a \in DOMAIN audits /\ Applied(a)
    /\ audits[a].images.content # 0 /\ c = Moved(audits[a].images.content)

Keepers(f) ==
    \A p \in Nat : IsMoved(Slot(p)) =>
        /\ Keeps(f[p], Slot(p))
        /\ \A q \in Nat : IsMoved(Slot(q)) /\ f[q] = f[p] => q = p

KeepersInv == NoteIsTrue /\ \E f \in [Nat -> Nat] : Keepers(f)

LEMMA NothingIsNotMoved == ~IsMoved(Nothing)
  BY RelabelAssumption DEF IsMoved, Moved

(* A step that adds no slot and takes no keeper away. *)
LEMMA KeepersStand ==
    ASSUME KeepersInv, NoteIsTrue',
           \A p \in Nat : IsMoved(Slot(p)') => Slot(p)' = Slot(p),
           \A a \in DOMAIN audits : Applied(a) /\ audits[a].images.content # 0 =>
                /\ a \in DOMAIN audits' /\ audits'[a].status = "applied"
                /\ audits'[a].images = audits[a].images
    PROVE  KeepersInv'
  <1>1. PICK f \in [Nat -> Nat] : Keepers(f)
    BY DEF KeepersInv
  <1>2. ASSUME NEW p \in Nat, IsMoved(Slot(p)')
        PROVE  /\ Keeps(f[p], Slot(p))'
               /\ \A q \in Nat : IsMoved(Slot(q)') /\ f[q] = f[p] => q = p
    <2>1. Slot(p)' = Slot(p) /\ IsMoved(Slot(p))
      BY <1>2
    <2>2. Keeps(f[p], Slot(p))
      BY <1>1, <2>1 DEF Keepers
    <2>3. Keeps(f[p], Slot(p))'
      BY <2>1, <2>2 DEF Keeps, Applied
    <2>4. \A q \in Nat : IsMoved(Slot(q)') => IsMoved(Slot(q))
      OBVIOUS
    <2>5. \A q \in Nat : IsMoved(Slot(q)) /\ f[q] = f[p] => q = p
      BY <1>1, <2>1 DEF Keepers
    <2> QED
      BY <2>3, <2>4, <2>5
  <1>3. \A p \in Nat : IsMoved(Slot(p))' <=> IsMoved(Slot(p)')
    BY DEF IsMoved, Moved
  <1>4. Keepers(f)'
    BY <1>2, <1>3 DEF Keepers
  <1> QED
    BY <1>1, <1>4 DEF KeepersInv

(* Collecting for the target date takes moved content away, if anything;   *)
(* the operator's notes move none.                                         *)
LEMMA QuietStepKeepsKeepers ==
    ASSUME RelabelInv, KeepersInv, [RelabelNext]_allVars, ~ApplyRelabel, ~RollBack
    PROVE  KeepersInv'
  <1>1. /\ \A a \in DOMAIN audits : a \in DOMAIN audits' /\ audits'[a] = audits[a]
        /\ \A a \in DOMAIN audits' : audits'[a].status = "applied" => a \in DOMAIN audits
    BY AuditsStand
  <1>2. NoteIsTrue' /\ (IsMoved(Held') => Held' = Held)
    <2>1. CASE WriteTarget
      <3>1. operator' = operator /\ target' = <<"own", written'>>
        BY <2>1 DEF WriteTarget
      <3>2. ~IsMoved(target') /\ ~IsMoved(target)'
        BY <3>1 DEF IsMoved, Moved
      <3> QED
        BY <3>1, <3>2 DEF Held, NoteIsTrue
    <2>2. CASE PlanTarget
      <3>1. operator \in Operator /\ operator.images \in Images
        BY ImageTypes DEF RelabelInv, RelabelTypes
      <3>2. /\ target' = target
            /\ operator'.images.replaced =
                    (IF operator.images.content = 0 THEN Nothing ELSE target)
        BY <2>2, <3>1 DEF PlanTarget, OnlyOperator, Operator, Images
      <3>3. operator.images.replaced = Nothing
        BY <2>2 DEF PlanTarget, RelabelInv, ImagesFit
      <3> QED
        BY <3>2, <3>3 DEF Held, NoteIsTrue
    <2>3. CASE target' = target /\ operator'.images.replaced = Nothing
      <3>1. Held' = target
        BY <2>3 DEF Held
      <3>2. IsMoved(target) => Held = target
        BY DEF Held, KeepersInv, NoteIsTrue
      <3> QED
        BY <2>3, <3>1, <3>2 DEF NoteIsTrue
    <2>4. CASE target' = target /\ operator' = operator
      BY <2>4 DEF Held, KeepersInv, NoteIsTrue, IsMoved, Moved
    <2>5. CASE \/ \E policy \in Policy : PlanLeases(policy)
               \/ PlanSource \/ EndPlan \/ RejectRelabel \/ RelabelRaises
               \/ RollBackRaises \/ \E a \in DOMAIN audits : ReadAudit(a)
      <3>1. target' = target
        BY <2>5 DEF PlanLeases, PlanSource, EndPlan, RejectRelabel, RelabelRaises,
                    RollBackRaises, ReadAudit, OnlyOperator
      <3>2. operator'.images.replaced = Nothing
        <4>1. CASE PlanSource
          <5>1. operator \in Operator /\ operator.images \in Images
            BY ImageTypes DEF RelabelInv, RelabelTypes
          <5>2. operator.images.replaced = Nothing
            BY <4>1 DEF PlanSource, RelabelInv, ImagesFit
          <5> QED
            BY <4>1, <5>1, <5>2 DEF PlanSource, Operator, Images
        <4>2. CASE operator' = Away
          BY <4>2, AwayIsQuiet
        <4>3. CASE \E policy \in Policy : PlanLeases(policy)
          BY <4>3, AwayIsQuiet DEF PlanLeases, Away
        <4>4. CASE \E a \in DOMAIN audits : ReadAudit(a)
          BY <4>4, AwayIsQuiet DEF ReadAudit, Away
        <4> QED
          BY <2>5, <4>1, <4>2, <4>3, <4>4
             DEF EndPlan, RejectRelabel, RelabelRaises, RollBackRaises
      <3> QED
        BY <2>3, <3>1, <3>2
    <2> QED
      BY <2>1, <2>2, <2>4, <2>5
         DEF RelabelNext, allVars, relabelVars, CollectSource, StartRun, CollectTarget,
             LeaseTarget, LapseTarget, LeaveTarget, Relabel, Undo
  <1>3. ASSUME NEW p \in Nat, IsMoved(Slot(p)')
        PROVE  Slot(p)' = Slot(p)
    BY <1>1, <1>2, <1>3, NothingIsNotMoved DEF Slot, Applied
  <1> QED
    BY <1>1, <1>2, <1>3, KeepersStand DEF Applied

LEMMA MovedIsInjective ==
    ASSUME NEW m \in Nat \ {0}, NEW n \in Nat \ {0}, Moved(m) = Moved(n)
    PROVE  m = n
  <1>1. Moved(m) = <<"moved", m>> /\ Moved(n) = <<"moved", n>>
    BY DEF Moved
  <1>2. <<"moved", m>> = <<"moved", n>>
    BY <1>1
  <1>3. <<"moved", m>>[2] = m /\ <<"moved", n>>[2] = n
    OBVIOUS
  <1> QED
    BY <1>2, <1>3

(* A relabel keeps what it moves, and takes over, for what it replaces,    *)
(* the keeper of the target date.                                          *)
LEMMA ApplyKeepsKeepers ==
    ASSUME RelabelInv, KeepersInv, ApplyRelabel
    PROVE  KeepersInv'
  <1> DEFINE content == operator.images.content
             replaced == operator.images.replaced
  <1>1. PICK new \in Nat \ {0} :
            /\ new \notin DOMAIN audits
            /\ DOMAIN audits' = DOMAIN audits \union {new}
            /\ \A a \in DOMAIN audits : audits'[a] = audits[a]
            /\ audits'[new].status = "applied"
            /\ audits'[new].images = operator.images
    BY AuditIsAdded
  <1>2. /\ operator'.images.replaced = Nothing
        /\ target' = (IF content = 0 THEN target ELSE Moved(content))
        /\ content \in Nat /\ (content = 0 => replaced = Nothing)
    BY AwayIsQuiet, ImageTypes DEF ApplyRelabel, RelabelInv, ImagesFit
  <1>3. NoteIsTrue' /\ Held' = target'
    BY <1>2 DEF NoteIsTrue, Held
  <1>4. /\ Slot(0)' = target' /\ Slot(new)' = replaced
        /\ \A p \in Nat \ {0, new} : Slot(p)' = Slot(p)
    BY <1>1, <1>3 DEF Slot, Applied
  <1>5. \A a, c : Keeps(a, c) => audits'[a] = audits[a] /\ a \in DOMAIN audits'
    BY <1>1 DEF Keeps
  <1>6. CASE content = 0
    <2>1. Slot(0) = target
      BY <1>2, <1>6 DEF Slot, Held
    <2>2. ASSUME NEW p \in Nat, IsMoved(Slot(p)')
          PROVE  Slot(p)' = Slot(p)
      <3>1. p # new
        BY <1>2, <1>4, <1>6, <2>2, NothingIsNotMoved
      <3> QED
        BY <1>2, <1>4, <1>6, <2>1, <3>1
    <2> QED
      BY <1>1, <1>3, <2>2, KeepersStand DEF Applied
  <1>7. CASE content # 0
    <2>1. PICK f \in [Nat -> Nat] : Keepers(f)
      BY DEF KeepersInv
    <2>2. PICK g \in [Nat -> Nat] :
                /\ g[0] = new /\ g[new] = f[0]
                /\ \A p \in Nat \ {0, new} : g[p] = f[p]
      <3> DEFINE h == [p \in Nat |-> IF p = 0 THEN new ELSE IF p = new THEN f[0] ELSE f[p]]
      <3>1. /\ h \in [Nat -> Nat] /\ h[0] = new /\ h[new] = f[0]
            /\ \A p \in Nat \ {0, new} : h[p] = f[p]
        BY <1>1, <2>1
      <3> QED
        BY <3>1
    <2>3. IsMoved(replaced) => Slot(0) = replaced
      BY NothingIsNotMoved DEF Slot, Held
    <2>4. \A p \in Nat : IsMoved(Slot(p)) => Keeps(f[p], Slot(p)) /\ f[p] # new
      BY <1>1, <2>1 DEF Keepers, Keeps
    <2>5. \A p, q \in Nat : IsMoved(Slot(p)) /\ IsMoved(Slot(q)) /\ f[p] = f[q] => p = q
      BY <2>1 DEF Keepers
    <2>6. Slot(0)' = Moved(content)
      BY <1>2, <1>4, <1>7
    <2>7. ASSUME NEW p \in Nat, IsMoved(Slot(p)')
          PROVE  /\ Keeps(g[p], Slot(p))'
                 /\ \A q \in Nat : IsMoved(Slot(q)') /\ g[q] = g[p] => q = p
      <3>1. CASE p = 0
        <4>1. Keeps(g[p], Slot(p))'
          BY <1>1, <1>7, <2>2, <2>6, <3>1 DEF Keeps, Applied
        <4>2. \A q \in Nat \ {0} : IsMoved(Slot(q)') => g[q] # new
          BY <1>4, <2>2, <2>3, <2>4
        <4> QED
          BY <2>2, <3>1, <4>1, <4>2
      <3>2. CASE p = new
        <4>1. Slot(p)' = Slot(0) /\ IsMoved(Slot(0)) /\ g[p] = f[0]
          BY <1>4, <2>2, <2>3, <2>7, <3>2
        <4>2. Keeps(f[0], Slot(0)) /\ f[0] # new
          BY <2>4, <4>1
        <4>3. Keeps(g[p], Slot(p))'
          BY <1>5, <4>1, <4>2 DEF Keeps, Applied
        <4>4. ASSUME NEW q \in Nat \ {0, new}, IsMoved(Slot(q)'), g[q] = g[p] PROVE FALSE
          BY <1>4, <2>2, <2>5, <4>1, <4>4
        <4> QED
          BY <2>2, <3>2, <4>1, <4>2, <4>3, <4>4
      <3>3. CASE p \notin {0, new}
        <4>1. Slot(p)' = Slot(p) /\ IsMoved(Slot(p)) /\ g[p] = f[p]
          BY <1>4, <2>2, <2>7, <3>3
        <4>2. Keeps(f[p], Slot(p)) /\ f[p] # new
          BY <2>4, <4>1
        <4>3. Keeps(g[p], Slot(p))'
          BY <1>5, <4>1, <4>2 DEF Keeps, Applied
        <4>4. ASSUME NEW q \in Nat, IsMoved(Slot(q)'), g[q] = g[p] PROVE q = p
          <5>1. q # 0
            BY <2>2, <4>1, <4>2, <4>4
          <5>2. q # new
            BY <1>4, <2>2, <2>3, <2>5, <3>3, <4>1, <4>4
          <5> QED
            BY <1>4, <2>2, <2>5, <4>1, <4>4, <5>1, <5>2
        <4> QED
          BY <4>3, <4>4
      <3> QED
        BY <3>1, <3>2, <3>3
    <2>8. \A p \in Nat : IsMoved(Slot(p))' <=> IsMoved(Slot(p)')
      BY DEF IsMoved, Moved
    <2>9. Keepers(g)'
      BY <2>7, <2>8 DEF Keepers
    <2> QED
      BY <1>3, <2>9 DEF KeepersInv
  <1> QED
    BY <1>6, <1>7

(* A rollback puts back what its audit replaced, and settles the audit;    *)
(* the keeper of the target date, freed by that, steps in for it.          *)
LEMMA RollBackKeepsKeepers ==
    ASSUME RelabelInv, KeepersInv, RollBack
    PROVE  KeepersInv'
  <1>0. audits \in Seq(Audit)
    BY DEF RelabelInv, RelabelTypes
  <1>8. PICK a : a = operator.audit
    OBVIOUS
  <1> DEFINE images == audits[a].images
  <1>1. /\ a \in DOMAIN audits /\ Applied(a) /\ DOMAIN audits' = DOMAIN audits
        /\ a \in Nat \ {0}
        /\ audits'[a].status = "rolled-back"
        /\ \A b \in DOMAIN audits : b # a => audits'[b] = audits[b]
    BY <1>0, <1>8, RollBackSettlesAudit
  <1>2. /\ images.content \in Nat
        /\ images.content = 0 => images.replaced = Nothing
        /\ images.content # 0 => audits[a].after = Moved(images.content)
    BY <1>1, ImageTypes DEF RelabelInv, ImagesFit
  <1>3. /\ operator.images.replaced = Nothing /\ operator'.images.replaced = Nothing
        /\ target' = (IF audits[a].after = Nothing THEN target ELSE images.replaced)
        /\ audits[a].after # Nothing => target = audits[a].after
    BY <1>8, AwayIsQuiet DEF RollBack, RelabelInv, ImagesFit, TargetIsAsLeft
  <1>4. NoteIsTrue' /\ Held' = target' /\ Slot(0) = target
    BY <1>3 DEF NoteIsTrue, Held, Slot
  <1>5. /\ Slot(0)' = target' /\ Slot(a)' = Nothing /\ Slot(a) = images.replaced
        /\ \A p \in Nat \ {0, a} : Slot(p)' = Slot(p)
    BY <1>1, <1>4 DEF Slot, Applied
  <1>6. CASE images.content = 0
    <2>1. ASSUME NEW p \in Nat, IsMoved(Slot(p)')
          PROVE  Slot(p)' = Slot(p)
      BY <1>2, <1>3, <1>4, <1>5, <1>6, <2>1, NothingIsNotMoved
    <2> QED
      BY <1>1, <1>4, <1>6, <2>1, KeepersStand DEF Applied
  <1>7. CASE images.content # 0
    <2>0. /\ audits[a].after = Moved(images.content)
          /\ IsMoved(Moved(images.content)) /\ audits[a].after # Nothing
      BY <1>2, <1>7, NothingIsNotMoved DEF IsMoved
    <2>1. target' = images.replaced /\ Slot(0) = Moved(images.content) /\ IsMoved(Slot(0))
      BY <1>3, <1>4, <2>0
    <2>2. PICK f \in [Nat -> Nat] : Keepers(f)
      BY DEF KeepersInv
    <2> DEFINE old(p) == IF p = 0 THEN a ELSE p
    <2>3. \A p, q \in Nat : IsMoved(Slot(p)) /\ IsMoved(Slot(q)) /\ f[p] = f[q] => p = q
      BY <2>2 DEF Keepers
    <2>4. \A p \in Nat : IsMoved(Slot(p)) => Keeps(f[p], Slot(p))
      BY <2>2 DEF Keepers
    <2>5. PICK g \in [Nat -> Nat] :
                \A p \in Nat : g[p] = IF f[old(p)] = a THEN f[0] ELSE f[old(p)]
      <3> DEFINE h == [p \in Nat |-> IF f[old(p)] = a THEN f[0] ELSE f[old(p)]]
      <3>1. h \in [Nat -> Nat]
        BY <1>1, <2>2
      <3> QED
        BY <3>1
    <2>6. \A p \in Nat : IsMoved(Slot(p)') =>
              old(p) \in Nat \ {0} /\ Slot(p)' = Slot(old(p)) /\ (p = 0 \/ p # a)
      BY <1>1, <1>5, <2>1, NothingIsNotMoved
    <2>7. ASSUME NEW p \in Nat, IsMoved(Slot(p)')
          PROVE  Keeps(g[p], Slot(p))'
      <3>1. old(p) \in Nat \ {0} /\ Slot(p)' = Slot(old(p)) /\ IsMoved(Slot(old(p)))
        BY <2>6, <2>7
      <3>2. Keeps(f[old(p)], Slot(old(p))) /\ Keeps(f[0], Slot(0))
        BY <2>1, <2>4, <3>1
      <3>3. CASE f[old(p)] = a
        <4>1. Slot(old(p)) = Moved(images.content)
          BY <3>2, <3>3 DEF Keeps
        <4>2. f[0] # a
          BY <2>1, <2>3, <3>1, <3>3
        <4>3. g[p] = f[0] /\ Keeps(f[0], Slot(p)')
          BY <2>1, <2>5, <3>1, <3>2, <3>3, <4>1
        <4> QED
          BY <1>1, <4>2, <4>3 DEF Keeps, Applied
      <3>4. CASE f[old(p)] # a
        <4>1. g[p] = f[old(p)] /\ Keeps(f[old(p)], Slot(p)')
          BY <2>5, <3>1, <3>2, <3>4
        <4> QED
          BY <1>1, <3>4, <4>1 DEF Keeps, Applied
      <3> QED
        BY <3>3, <3>4
    <2>8. ASSUME NEW p \in Nat, NEW q \in Nat, IsMoved(Slot(p)'), IsMoved(Slot(q)'), g[q] = g[p]
          PROVE  q = p
      <3>1. /\ old(p) \in Nat \ {0} /\ IsMoved(Slot(old(p))) /\ (p = 0 \/ p # a)
            /\ old(q) \in Nat \ {0} /\ IsMoved(Slot(old(q))) /\ (q = 0 \/ q # a)
        BY <2>6, <2>8
      <3>2. /\ g[p] = (IF f[old(p)] = a THEN f[0] ELSE f[old(p)])
            /\ g[q] = (IF f[old(q)] = a THEN f[0] ELSE f[old(q)])
        BY <2>5
      <3>3. f[old(p)] # f[0] /\ f[old(q)] # f[0]
        BY <2>1, <2>3, <3>1
      <3>4. f[old(q)] = f[old(p)]
        BY <2>8, <3>2, <3>3
      <3>5. old(q) = old(p)
        BY <2>3, <3>1, <3>4
      <3> QED
        BY <3>1, <3>5
    <2>9. \A p \in Nat : IsMoved(Slot(p))' <=> IsMoved(Slot(p)')
      BY DEF IsMoved, Moved
    <2>10. Keepers(g)'
      BY <2>7, <2>8, <2>9 DEF Keepers
    <2> QED
      BY <1>4, <2>10 DEF KeepersInv
  <1> QED
    BY <1>6, <1>7

(* Through any sequence of relabels and rollbacks, in any order, what is   *)
(* moved to the target date is held by an audit that can be rolled back,   *)
(* and no run row by two.                                                  *)
THEOREM MovesAnswerToAudits == RelabelSpec => []MovedAnswersToAudits
  <1>1. RelabelInit => SourceInv /\ KeepersInv
    <2> SUFFICES ASSUME RelabelInit PROVE SourceInv /\ KeepersInv
      OBVIOUS
    <2>1. /\ stored = 0 /\ collected = 0 /\ audits = <<>> /\ target = Nothing
          /\ operator.images.replaced = Nothing
      BY AwayIsQuiet DEF RelabelInit, Init
    <2>2. \A p \in Nat : Slot(p) = Nothing
      BY <2>1 DEF Slot, Held
    <2>3. [p \in Nat |-> 0] \in [Nat -> Nat] /\ Keepers([p \in Nat |-> 0])
      BY <2>2, NothingIsNotMoved DEF Keepers
    <2> QED
      BY <2>1, <2>3
         DEF SourceInv, CollectedIsThereOrHeld, RunsHaveOneAudit, KeepersInv, NoteIsTrue
  <1>2. RelabelInv /\ SourceInv /\ KeepersInv /\ [RelabelNext]_allVars => (SourceInv /\ KeepersInv)'
    BY StepKeepsSource, QuietStepKeepsKeepers, ApplyKeepsKeepers, RollBackKeepsKeepers
  <1>3. RelabelInv /\ SourceInv /\ KeepersInv => MovedAnswersToAudits
    <2> SUFFICES ASSUME RelabelInv, SourceInv, KeepersInv
                 PROVE  MovedAnswersToAudits
      OBVIOUS
    <2>1. ASSUME NEW generation \in 1 .. Len(issued), target = Moved(generation)
          PROVE  \E a \in DOMAIN audits :
                    /\ Applied(a) /\ audits[a].images.content = generation
                    /\ audits[a].after = target
      <3>0. generation \in Nat \ {0}
        BY <2>1 DEF RelabelInv, FencedInv, LeaseInv, TypeOK
      <3>1. IsMoved(target) /\ Slot(0) = target
        BY <2>1, <3>0 DEF IsMoved, KeepersInv, NoteIsTrue, Slot, Held
      <3>2. PICK f \in [Nat -> Nat] : Keepers(f)
        BY DEF KeepersInv
      <3>3. Keeps(f[0], target)
        BY <3>1, <3>2 DEF Keepers
      <3>4. /\ f[0] \in DOMAIN audits /\ Applied(f[0])
            /\ audits[f[0]].images.content \in Nat \ {0}
            /\ target = Moved(audits[f[0]].images.content)
            /\ audits[f[0]].after = Moved(audits[f[0]].images.content)
        BY <3>3, ImageTypes DEF Keeps, RelabelInv, ImagesFit
      <3>5. audits[f[0]].images.content = generation
        BY <2>1, <3>0, <3>4, MovedIsInjective
      <3> QED
        BY <3>4, <3>5
    <2> QED
      BY <2>1 DEF MovedAnswersToAudits, SourceInv, RunsHaveOneAudit
  <1> QED
    BY <1>1, <1>2, <1>3, RelabelInvariant, PTL DEF RelabelSpec
===============================================================================
