---------------------------- MODULE DashboardProofs ----------------------------
(***************************************************************************)
(* The dashboard, on the server and in the browser, for any number of      *)
(* requests, processes, loads and answers.                                 *)
(*                                                                         *)
(* I. SnapshotRefresh: single flight and truthful results, however many    *)
(* leases run out.  The bound on the fetches of a cohort is not inductive: *)
(* a lease that has run out before its holder fetched leaves that holder a *)
(* fetch to make.  So the fetches made are counted with those still to     *)
(* come (Late), and against the leases run out and the one in force        *)
(* (Spent). A lease given back after a fetch has closed the cohort, for    *)
(* its refresh completed.                                                  *)
(*                                                                         *)
(* II. MarketStore: what is shown is of one date, the one the reader has   *)
(* chosen, and whatever spins has a load under way that will stop it,      *)
(* whatever order the answers come in.                                     *)
(***************************************************************************)
EXTENDS SnapshotRefresh, MarketStore, FiniteSetTheorems, TLAPS

-----------------------------------------------------------------------------
(* I. SnapshotRefresh *)

BeforeFetch == {"recheck", "generation"}
AfterFetch == {"fetch", "admit", "put", "existing", "admitWarning", "warn", "release"}

(* Past acquire with a lease of its own *)
Inside(k) ==
    k.pc \in BeforeFetch \union AfterFetch \/ (k.pc = "record" /\ k.result # "busy")

(* Those who may still fetch for cohort g under a lease that has run out *)
Late(g) == {a \in Actor : actor[a].pc \in BeforeFetch /\ actor[a].seen = g /\ ~ Holds(a)}
Spent(g) == IF live /\ lease.seen = g /\ lease.fetched THEN 1 ELSE 0

(* The lease in force belongs to what its holder is doing. *)
LeaseOK(a, k) ==
    Holds(a) =>
        /\ k.pc \in BeforeFetch => lease.seen = k.seen /\ ~ lease.fetched
        /\ k.pc = "record" /\ k.result # "busy" /\ lease.fetched => k.result \in Completing
        /\ k.pc = "release" /\ lease.fetched => lease.seen < completed

(* As long as no lease has run out, there is one refresh at a time. *)
Alone(a, k) ==
    bound.lapses = 0 =>
        /\ Inside(k) => Holds(a)
        /\ k.pc \in {"admitWarning", "warn"} => snapshot.state # "missing"
        /\ k.pc = "record" =>
            /\ k.result = "stored" => snapshot.state # "missing" /\ ~ snapshot.warned
            /\ k.result = "retained" => snapshot.state # "missing" /\ snapshot.warned
            /\ k.result = "missing" => snapshot.state = "missing"
            /\ k.result # "fenced"

ActorOK(a, k) == k.seen <= completed /\ LeaseOK(a, k) /\ Alone(a, k)

CohortOK(g) ==
    /\ g > completed => fetches[g] = 0
    /\ fetches[g] <= 1 + lapses[g]
    /\ g = completed => fetches[g] + Cardinality(Late(g)) <= lapses[g] + Spent(g)

RefreshInv ==
    /\ TypeOK
    /\ lease.seen <= completed
    /\ \A a \in Actor : ActorOK(a, actor[a])
    /\ \A g \in Generation : CohortOK(g)

-----------------------------------------------------------------------------
(* Sets and types *)

Outside == {"idle", "lock", "lookup", "probe", "observe", "acquire", "reread", "poll"}

LEMMA ActorsAreFinite == IsFiniteSet(Actor)
<1>1. IsFiniteSet({"request"})
    BY FS_Singleton
<1>2. IsFiniteSet({"request", "job"}) /\ IsFiniteSet(Reader)
    <2>1. {"request", "job"} = {"request"} \union {"job"}
        OBVIOUS
    <2> QED BY <1>1, <2>1, FS_AddElement, RefreshAssumption
<1>3. IsFiniteSet(Reader \X {"request", "job"})
    BY <1>2, FS_Product, Zenon
<1> QED BY <1>3 DEF Actor

LEMMA LateIsFinite ==
    \A g : IsFiniteSet(Late(g)) /\ Cardinality(Late(g)) \in Nat
    BY ActorsAreFinite, FS_Subset, FS_CardinalityType DEF Late

LEMMA RequestsAreActors ==
    ASSUME NEW r \in Reader
    PROVE  Request(r) \in Actor /\ Job(r) \in Actor /\ Request(r) # Job(r)
    BY DEF Request, Job, Actor

LEMMA OutsideOK ==
    ASSUME NEW a, NEW k \in Calls, k.pc \in Outside, k.seen <= completed
    PROVE  ActorOK(a, k)
    BY DEF ActorOK, LeaseOK, Alone, Inside, Outside, BeforeFetch, AfterFetch

LEMMA IdleOK == TypeOK => Idle \in Calls /\ \A a : ActorOK(a, Idle)
<1> HAVE TypeOK
<1>1. Idle \in Calls /\ Idle.pc \in Outside /\ Idle.seen <= completed
    BY DEF Idle, Calls, PCs, Results, Outside, TypeOK
<1> QED BY <1>1, OutsideOK

-----------------------------------------------------------------------------
(* Steps that neither fetch nor touch the lease *)

LEMMA CohortsKept ==
    ASSUME RefreshInv, UNCHANGED <<lease, live, completed, fetches, lapses>>,
           \A a \in Actor : actor'[a].pc \in BeforeFetch =>
               actor[a].pc \in BeforeFetch /\ actor'[a].seen = actor[a].seen
    PROVE  (\A g \in Generation : CohortOK(g))'
<1>1. ASSUME NEW g \in Generation PROVE CohortOK(g)'
    <2>1. CohortOK(g) /\ fetches[g] \in Nat /\ lapses[g] \in Nat
        BY DEF RefreshInv, TypeOK
    <2>2. Late(g)' \subseteq Late(g)
        BY DEF Late, Holds
    <2>3. Cardinality(Late(g)') <= Cardinality(Late(g)) /\ Cardinality(Late(g)') \in Nat
        BY <2>2, LateIsFinite, FS_Subset, FS_CardinalityType
    <2>4. Spent(g)' = Spent(g) /\ Spent(g) \in Nat
        BY DEF Spent
    <2> QED BY <2>1, <2>3, <2>4, LateIsFinite DEF CohortOK
<1> QED BY <1>1

(* Only what actors do changes, and all they come to do is as it should be. *)
LEMMA CallSteps ==
    ASSUME RefreshInv, actor' \in [Actor -> Calls],
           UNCHANGED <<snapshot, lease, live, recorded, completed, fetches, lapses>>,
           lock' \in [Process -> Reader \union {Nobody}],
           bound' \in [reads : Nat, lapses : Nat, crashes : Nat],
           bound'.lapses = bound.lapses,
           \A a \in Actor : ActorOK(a, actor'[a]),
           \A a \in Actor : actor'[a].pc \in BeforeFetch =>
               actor[a].pc \in BeforeFetch /\ actor'[a].seen = actor[a].seen
    PROVE  RefreshInv'
<1>1. TypeOK'
    BY DEF RefreshInv, TypeOK
<1>2. (\A a \in Actor : ActorOK(a, actor[a]))'
    BY DEF ActorOK, LeaseOK, Alone, Holds
<1>3. (lease.seen <= completed)'
    BY DEF RefreshInv
<1> QED BY <1>1, <1>2, <1>3, CohortsKept DEF RefreshInv

LEMMA OneCall ==
    ASSUME RefreshInv, NEW a \in Actor, NEW k \in Calls, Continue(a, k),
           UNCHANGED <<snapshot, lease, live, recorded, completed, fetches, lapses>>,
           lock' \in [Process -> Reader \union {Nobody}],
           bound' \in [reads : Nat, lapses : Nat, crashes : Nat],
           bound'.lapses = bound.lapses,
           ActorOK(a, k),
           k.pc \in BeforeFetch => actor[a].pc \in BeforeFetch /\ k.seen = actor[a].seen
    PROVE  RefreshInv'
<1>1. actor \in [Actor -> Calls] /\ \A b \in Actor : ActorOK(b, actor[b])
    BY DEF RefreshInv, TypeOK
<1>2. actor' \in [Actor -> Calls] /\ \A b \in Actor : actor'[b] = IF b = a THEN k ELSE actor[b]
    BY <1>1 DEF Continue
<1>3. \A b \in Actor : ActorOK(b, actor'[b])
    BY <1>1, <1>2
<1> QED BY <1>2, <1>3, CallSteps

(* The steps of a request up to its refresh, and after it *)
LEMMA ReadPreserves ==
    ASSUME RefreshInv, NEW r \in Reader, Arrive(r) \/ Read(r)
    PROVE  RefreshInv'
<1> DEFINE q == Request(r)
           j == Job(r)
<1>t. /\ TypeOK /\ q \in Actor /\ j \in Actor /\ q # j
      /\ actor[q] \in Calls /\ actor[q].seen <= completed
      /\ actor[j] \in Calls /\ actor[j].seen <= completed
      /\ ProcessOf[r] \in Process /\ completed \in Nat
    BY RequestsAreActors DEF RefreshInv, TypeOK, ActorOK, Process
<1> HIDE DEF q, j
<1>g. ASSUME NEW pc \in Outside
      PROVE  /\ [actor[q] EXCEPT !.pc = pc] \in Calls /\ ActorOK(q, [actor[q] EXCEPT !.pc = pc])
             /\ [actor[q] EXCEPT !.pc = pc].pc = pc /\ pc \notin BeforeFetch
    <2>1. [actor[q] EXCEPT !.pc = pc] \in Calls /\ [actor[q] EXCEPT !.pc = pc].pc = pc
          /\ [actor[q] EXCEPT !.pc = pc].seen = actor[q].seen
        BY <1>t DEF Calls, PCs, Outside
    <2> QED BY <1>t, <2>1, OutsideOK DEF BeforeFetch, Outside
<1>1. CASE Arrive(r)
    <2>1. /\ bound' \in [reads : Nat, lapses : Nat, crashes : Nat]
          /\ bound'.lapses = bound.lapses /\ lock' \in [Process -> Reader \union {Nobody}]
        BY <1>1, <1>t DEF Arrive, TypeOK
    <2>2. "lock" \in Outside
        BY DEF Outside
    <2> QED BY <1>1, <1>t, <1>g, <2>1, <2>2, OneCall DEF Arrive, Goto, q
<1>2. CASE Enter(r)
    <2>1. lock' \in [Process -> Reader \union {Nobody}] /\ bound' = bound
        BY <1>2, <1>t DEF Enter, TypeOK
    <2>2. "lookup" \in Outside
        BY DEF Outside
    <2> QED BY <1>2, <1>t, <1>g, <2>1, <2>2, OneCall DEF Enter, Goto, q, TypeOK
<1>3. CASE Lookup(r)
    <2>1. (IF snapshot.state = "missing" THEN "observe" ELSE "probe") \in Outside
        BY DEF Outside
    <2> QED BY <1>3, <1>t, <1>g, <2>1, OneCall DEF Lookup, Goto, LocalOnly, StoreOnly, q, TypeOK
<1>4. CASE Observe(r)
    <2> DEFINE k == [pc |-> "acquire", seen |-> completed, result |-> "none"]
    <2>1. k \in Calls /\ k.pc \in Outside /\ k.seen <= completed /\ k.pc \notin BeforeFetch
        BY <1>t DEF Calls, PCs, Results, Outside, BeforeFetch
    <2>2. ActorOK(q, k)
        BY <2>1, OutsideOK
    <2> QED BY <1>4, <1>t, <2>1, <2>2, OneCall DEF Observe, LocalOnly, StoreOnly, q, TypeOK
<1>5. ASSUME NEW others \in [Actor -> Calls], Answer(r, others),
             \A a \in Actor : ActorOK(a, others[a]),
             \A a \in Actor : others[a].pc \in BeforeFetch =>
                 actor[a].pc \in BeforeFetch /\ others[a].seen = actor[a].seen
      PROVE  RefreshInv'
    <2>1. lock' \in [Process -> Reader \union {Nobody}] /\ bound' = bound
        BY <1>5, <1>t DEF Answer, TypeOK
    <2>2. /\ actor' \in [Actor -> Calls]
          /\ \A a \in Actor : actor'[a] = IF a = q THEN Idle ELSE others[a]
        BY <1>5, <1>t, IdleOK DEF Answer, q
    <2>3. Idle.pc \notin BeforeFetch
        BY DEF Idle, BeforeFetch
    <2>4. \A a \in Actor : ActorOK(a, actor'[a])
        BY <1>5, <1>t, <2>2, IdleOK
    <2>5. \A a \in Actor : actor'[a].pc \in BeforeFetch =>
              actor[a].pc \in BeforeFetch /\ actor'[a].seen = actor[a].seen
        BY <1>5, <2>2, <2>3
    <2> QED BY <1>5, <1>t, <2>1, <2>2, <2>4, <2>5, CallSteps DEF Answer, TypeOK
<1>6. CASE Answer(r, actor)
    BY <1>5, <1>6 DEF RefreshInv, TypeOK
<1>7. CASE Submit(r)
    <2> DEFINE k == [pc |-> "acquire", seen |-> completed, result |-> "none"]
               others == [actor EXCEPT ![j] = k]
    <2>1. k \in Calls /\ k.pc \in Outside /\ k.seen <= completed /\ k.pc \notin BeforeFetch
        BY <1>t DEF Calls, PCs, Results, Outside, BeforeFetch
    <2>2. ActorOK(j, k)
        BY <2>1, OutsideOK
    <2>3. others \in [Actor -> Calls] /\ \A a \in Actor : others[a] = IF a = j THEN k ELSE actor[a]
        BY <1>t, <2>1 DEF TypeOK
    <2>4. \A a \in Actor : ActorOK(a, others[a])
        BY <2>2, <2>3 DEF RefreshInv
    <2>5. \A a \in Actor : others[a].pc \in BeforeFetch =>
              actor[a].pc \in BeforeFetch /\ others[a].seen = actor[a].seen
        BY <2>1, <2>3
    <2>6. Answer(r, others)
        BY <1>7 DEF Submit, j
    <2> QED BY <1>5, <2>3, <2>4, <2>5, <2>6
<1>8. CASE RereadMissing(r) /\ ~ Answer(r, actor)
    <2>1. "poll" \in Outside
        BY DEF Outside
    <2> QED BY <1>8, <1>t, <1>g, <2>1, OneCall
            DEF RereadMissing, Goto, LocalOnly, StoreOnly, q, TypeOK
<1>9. CASE JobEnds(r)
    <2>1. Idle.pc \notin BeforeFetch
        BY DEF Idle, BeforeFetch
    <2> QED BY <1>9, <1>t, <2>1, IdleOK, OneCall DEF JobEnds, LocalOnly, StoreOnly, j, TypeOK
<1>10. Read(r) =>
          \/ Enter(r) \/ Lookup(r) \/ Submit(r) \/ Observe(r) \/ Answer(r, actor)
          \/ (RereadMissing(r) /\ ~ Answer(r, actor)) \/ JobEnds(r)
    BY DEF Read, LookupFresh, ProbeBusy, Reread, Poll
<1> QED BY <1>1, <1>2, <1>3, <1>4, <1>6, <1>7, <1>8, <1>9, <1>10

-----------------------------------------------------------------------------
(* The steps of a refresh that leave snapshot and lease alone *)

LEMMA RefreshCallPreserves ==
    ASSUME RefreshInv, NEW a \in Actor,
           \/ Busy(a) \/ Recheck(a) \/ Retryable(a) \/ Fetch(a)
           \/ Admit(a) \/ Existing(a) \/ AdmitWarning(a)
    PROVE  RefreshInv'
<1>t. /\ TypeOK /\ actor[a] \in Calls /\ ActorOK(a, actor[a])
      /\ LocalOnly => /\ UNCHANGED <<snapshot, lease, live, recorded, completed, fetches, lapses>>
                      /\ lock' \in [Process -> Reader \union {Nobody}]
                      /\ bound' \in [reads : Nat, lapses : Nat, crashes : Nat]
                      /\ bound'.lapses = bound.lapses
    BY DEF RefreshInv, TypeOK, LocalOnly, StoreOnly
<1>g. ASSUME NEW pc \in PCs
      PROVE  LET k == [actor[a] EXCEPT !.pc = pc]
             IN  k \in Calls /\ k.pc = pc /\ k.seen = actor[a].seen /\ k.result = actor[a].result
    BY <1>t DEF Calls
<1>r. ASSUME NEW pc \in PCs, NEW result \in Results
      PROVE  LET k == [actor[a] EXCEPT !.result = result, !.pc = pc]
             IN  k \in Calls /\ k.pc = pc /\ k.seen = actor[a].seen /\ k.result = result
    BY <1>t DEF Calls
<1> USE DEF ActorOK, LeaseOK, Alone, Inside, BeforeFetch, AfterFetch, At, Goto, Report
<1>1. CASE Busy(a)
    <2>1. "record" \in PCs /\ "busy" \in Results
        BY DEF PCs, Results, Unfetched
    <2> DEFINE k == [actor[a] EXCEPT !.result = "busy", !.pc = "record"]
    <2>2. k \in Calls /\ k.pc = "record" /\ k.seen = actor[a].seen /\ k.result = "busy"
        BY <1>r, <2>1
    <2> HIDE DEF k
    <2>3. ActorOK(a, k)
        BY <1>t, <2>2
    <2> QED BY <1>1, <1>t, <2>2, <2>3, OneCall DEF Busy, k
<1>2. CASE Recheck(a)
    <2>1. CASE snapshot.state = "fresh"
        <3>1. "record" \in PCs /\ "reused" \in Results
            BY DEF PCs, Results, Unfetched
        <3> DEFINE k == [actor[a] EXCEPT !.result = "reused", !.pc = "record"]
        <3>2. k \in Calls /\ k.pc = "record" /\ k.seen = actor[a].seen /\ k.result = "reused"
            BY <1>r, <3>1
        <3> HIDE DEF k
        <3>3. ActorOK(a, k)
            BY <1>2, <1>t, <3>2 DEF Recheck
        <3> QED BY <1>2, <1>t, <2>1, <3>2, <3>3, OneCall DEF Recheck, k
    <2>2. CASE snapshot.state # "fresh"
        <3>1. "generation" \in PCs
            BY DEF PCs
        <3> DEFINE k == [actor[a] EXCEPT !.pc = "generation"]
        <3>2. k \in Calls /\ k.pc = "generation" /\ k.seen = actor[a].seen
            BY <1>g, <3>1
        <3> HIDE DEF k
        <3>3. ActorOK(a, k)
            BY <1>2, <1>t, <3>2 DEF Recheck
        <3> QED BY <1>2, <1>t, <2>2, <3>2, <3>3, OneCall DEF Recheck, k
    <2> QED BY <2>1, <2>2
<1>3. CASE Retryable(a)
    <2>1. "record" \in PCs /\ "retryable" \in Results
        BY DEF PCs, Results, Unfetched
    <2> DEFINE k == [actor[a] EXCEPT !.result = "retryable", !.pc = "record"]
    <2>2. k \in Calls /\ k.pc = "record" /\ k.seen = actor[a].seen /\ k.result = "retryable"
        BY <1>r, <2>1
    <2> HIDE DEF k
    <2>3. ActorOK(a, k)
        BY <1>3, <1>t, <2>2 DEF Retryable
    <2> QED BY <1>3, <1>t, <2>2, <2>3, OneCall DEF Retryable, k
<1>4. ASSUME NEW pc \in {"admit", "put", "existing"}, Goto(a, pc), LocalOnly,
             actor[a].pc \in AfterFetch
      PROVE  RefreshInv'
    <2>1. pc \in PCs
        BY DEF PCs
    <2> DEFINE k == [actor[a] EXCEPT !.pc = pc]
    <2>2. k \in Calls /\ k.pc = pc /\ k.seen = actor[a].seen
        BY <1>g, <2>1
    <2> HIDE DEF k
    <2>3. ActorOK(a, k)
        BY <1>4, <1>t, <2>2
    <2> QED BY <1>4, <1>t, <2>2, <2>3, OneCall DEF k
<1>5. ASSUME Fenced(a), LocalOnly, actor[a].pc \in AfterFetch, ~ Holds(a)
      PROVE  RefreshInv'
    <2>1. "record" \in PCs /\ "fenced" \in Results
        BY DEF PCs, Results
    <2> DEFINE k == [actor[a] EXCEPT !.result = "fenced", !.pc = "record"]
    <2>2. k \in Calls /\ k.pc = "record" /\ k.seen = actor[a].seen /\ k.result = "fenced"
        BY <1>r, <2>1
    <2> HIDE DEF k
    <2>3. ActorOK(a, k)
        BY <1>5, <1>t, <2>2
    <2> QED BY <1>5, <1>t, <2>2, <2>3, OneCall DEF Fenced, k
<1>6. ASSUME NEW pc \in {"admitWarning", "warn"}, Goto(a, pc), LocalOnly,
             actor[a].pc \in {"existing", "admitWarning"},
             actor[a].pc = "existing" => snapshot.state # "missing"
      PROVE  RefreshInv'
    <2>1. pc \in PCs
        BY DEF PCs
    <2> DEFINE k == [actor[a] EXCEPT !.pc = pc]
    <2>2. k \in Calls /\ k.pc = pc /\ k.seen = actor[a].seen
        BY <1>g, <2>1
    <2> HIDE DEF k
    <2>3. ActorOK(a, k)
        BY <1>6, <1>t, <2>2
    <2> QED BY <1>6, <1>t, <2>2, <2>3, OneCall DEF k
<1>7. CASE Existing(a) /\ snapshot.state = "missing"
    <2>1. "record" \in PCs /\ "missing" \in Results
        BY DEF PCs, Results, Completing
    <2> DEFINE k == [actor[a] EXCEPT !.result = "missing", !.pc = "record"]
    <2>2. k \in Calls /\ k.pc = "record" /\ k.seen = actor[a].seen /\ k.result = "missing"
        BY <1>r, <2>1
    <2> HIDE DEF k
    <2>3. ActorOK(a, k)
        BY <1>7, <1>t, <2>2 DEF Existing, Completing
    <2> QED BY <1>7, <1>t, <2>2, <2>3, OneCall DEF Existing, k
<1>8. CASE Fetch(a)
    BY <1>4, <1>8 DEF Fetch
<1>9. CASE Admit(a)
    BY <1>4, <1>5, <1>9 DEF Admit
<1>10. CASE Existing(a) /\ snapshot.state # "missing"
    BY <1>6, <1>10 DEF Existing
<1>11. CASE AdmitWarning(a)
    BY <1>5, <1>6, <1>11 DEF AdmitWarning
<1> QED BY <1>1, <1>2, <1>3, <1>7, <1>8, <1>9, <1>10, <1>11

-----------------------------------------------------------------------------
(* The steps that change the snapshot *)

LEMMA SnapshotSteps ==
    ASSUME RefreshInv, actor' \in [Actor -> Calls], StoreOnly,
           snapshot' \in [state : {"missing", "fresh", "stale"}, warned : BOOLEAN],
           \A a \in Actor : ActorOK(a, actor[a])',
           \A a \in Actor : actor'[a].pc \in BeforeFetch =>
               actor[a].pc \in BeforeFetch /\ actor'[a].seen = actor[a].seen
    PROVE  RefreshInv'
<1>1. TypeOK'
    BY DEF RefreshInv, TypeOK, StoreOnly
<1>2. (lease.seen <= completed)'
    BY DEF RefreshInv, StoreOnly
<1>3. (\A g \in Generation : CohortOK(g))'
    BY CohortsKept DEF StoreOnly
<1> QED BY <1>1, <1>2, <1>3 DEF RefreshInv

(* Before a lease has run out, only its holder writes the snapshot. *)
LEMMA WritePreserves ==
    ASSUME RefreshInv, NEW a \in Actor, Put(a) \/ Warn(a)
    PROVE  RefreshInv'
<1>t. /\ TypeOK /\ StoreOnly /\ actor[a] \in Calls /\ ActorOK(a, actor[a])
      /\ actor[a].pc \in {"put", "warn"}
    BY DEF RefreshInv, TypeOK, Put, Warn, At
<1> DEFINE result == IF Put(a) THEN "stored" ELSE "retained"
           k == [actor[a] EXCEPT !.result = result, !.pc = "record"]
<1>1. k \in Calls /\ k.pc = "record" /\ k.seen = actor[a].seen /\ k.result = result
    BY <1>t DEF Calls, PCs, Results, Completing
<1>2. actor' = [actor EXCEPT ![a] = k]
    <2>1. CASE Put(a)
        BY <2>1 DEF Put, Report, Continue
    <2>2. CASE ~ Put(a)
        BY <2>2 DEF Warn, Report, Continue
    <2> QED BY <2>1, <2>2
<1> HIDE DEF k
<1>3. actor' \in [Actor -> Calls] /\ \A b \in Actor : actor'[b] = IF b = a THEN k ELSE actor[b]
    BY <1>t, <1>1, <1>2 DEF TypeOK
<1>4. /\ snapshot' \in [state : {"missing", "fresh", "stale"}, warned : BOOLEAN]
      /\ Put(a) => snapshot'.state # "missing" /\ ~ snapshot'.warned
      /\ ~ Put(a) => snapshot'.state = snapshot.state /\ snapshot'.warned /\ actor[a].pc = "warn"
    <2>1. CASE Put(a)
        BY <2>1 DEF Put
    <2>2. CASE ~ Put(a)
        BY <1>t, <2>2 DEF Warn, TypeOK, At
    <2> QED BY <2>1, <2>2
<1>5. ASSUME NEW b \in Actor PROVE ActorOK(b, actor[b])'
    <2>1. ActorOK(b, actor[b]) /\ actor[b] \in Calls
        BY <1>t DEF RefreshInv, TypeOK
    <2>2. actor'[b].seen <= completed'
        BY <1>t, <1>1, <1>3, <2>1 DEF ActorOK, StoreOnly
    <2>3. LeaseOK(b, actor[b])'
        <3>1. CASE b = a
            BY <1>1, <1>3, <3>1 DEF LeaseOK, Holds, StoreOnly, BeforeFetch, Completing
        <3>2. CASE b # a
            BY <1>t, <1>3, <2>1, <3>2 DEF ActorOK, LeaseOK, Holds, StoreOnly
        <3> QED BY <3>1, <3>2
    <2>4. Alone(b, actor[b])'
        <3> SUFFICES ASSUME bound.lapses = 0 PROVE Alone(b, actor[b])'
            BY <1>t DEF Alone, StoreOnly
        <3>1. Holds(a)
            BY <1>t DEF ActorOK, Alone, Inside, AfterFetch
        <3>2. CASE b = a
            <4>1. snapshot.state # "missing" \/ Put(a)
                BY <1>t, <1>4 DEF ActorOK, Alone
            <4> QED BY <1>t, <1>1, <1>3, <1>4, <3>1, <3>2, <4>1 DEF Alone, Holds, StoreOnly
        <3>3. CASE b # a
            <4>1. ~ Holds(b)
                BY <3>1, <3>3 DEF Holds
            <4>2. ~ Inside(actor[b])
                BY <2>1, <4>1 DEF ActorOK, Alone
            <4> QED BY <1>3, <3>3, <4>2 DEF Alone, Inside, AfterFetch
        <3> QED BY <3>2, <3>3
    <2> QED BY <2>2, <2>3, <2>4 DEF ActorOK
<1>6. \A b \in Actor : actor'[b].pc \in BeforeFetch =>
          actor[b].pc \in BeforeFetch /\ actor'[b].seen = actor[b].seen
    BY <1>1, <1>3 DEF BeforeFetch
<1> QED BY <1>t, <1>3, <1>4, <1>5, <1>6, SnapshotSteps

LEMMA AgePreserves ==
    ASSUME RefreshInv, Age
    PROVE  RefreshInv'
<1>1. /\ StoreOnly /\ actor' = actor /\ actor \in [Actor -> Calls]
      /\ snapshot.state = "fresh" /\ snapshot'.state = "stale" /\ snapshot'.warned = snapshot.warned
      /\ snapshot' \in [state : {"missing", "fresh", "stale"}, warned : BOOLEAN]
    BY DEF RefreshInv, Age, TypeOK
<1>2. \A a \in Actor : ActorOK(a, actor[a])'
    BY <1>1 DEF RefreshInv, ActorOK, LeaseOK, Alone, Holds, StoreOnly
<1> QED BY <1>1, <1>2, SnapshotSteps

-----------------------------------------------------------------------------
(* The lease: taken, spent on a fetch, given back, run out, left behind *)

LEMMA AcquirePreserves ==
    ASSUME RefreshInv, NEW a \in Actor, Acquire(a)
    PROVE  RefreshInv'
<1>t. TypeOK /\ actor[a] \in Calls /\ actor[a].pc = "acquire" /\ ~ live /\ live'
      /\ actor[a].seen <= completed
    BY DEF RefreshInv, TypeOK, ActorOK, Acquire, At
<1> DEFINE k == [actor[a] EXCEPT !.pc = "recheck"]
<1>1. k \in Calls /\ k.pc = "recheck" /\ k.seen = actor[a].seen
    BY <1>t DEF Calls, PCs
<1>2. actor' = [actor EXCEPT ![a] = k]
    BY DEF Acquire, Goto, Continue
<1> HIDE DEF k
<1>3. actor' \in [Actor -> Calls] /\ \A b \in Actor : actor'[b] = IF b = a THEN k ELSE actor[b]
    BY <1>t, <1>1, <1>2 DEF TypeOK
<1>4. /\ lease' \in Leases /\ lease'.holder = a /\ lease'.seen = actor[a].seen /\ ~ lease'.fetched
      /\ a # Nobody
    BY <1>t, RefreshAssumption DEF Acquire, Leases, Calls
<1>5. TypeOK'
    BY <1>t, <1>3, <1>4 DEF TypeOK, Acquire
<1>6. (lease.seen <= completed)'
    BY <1>t, <1>4 DEF Acquire
<1>7. ASSUME NEW b \in Actor PROVE ActorOK(b, actor[b])'
    <2>1. ActorOK(b, actor[b])
        BY DEF RefreshInv
    <2>2. CASE b = a
        BY <1>t, <1>1, <1>3, <1>4, <2>2
        DEF ActorOK, LeaseOK, Alone, Holds, Inside, BeforeFetch, Acquire
    <2>3. CASE b # a
        <3>1. ~ Holds(b) /\ ~ Holds(b)' /\ actor'[b] = actor[b]
            BY <1>t, <1>3, <1>4, <2>3 DEF Holds
        <3> QED BY <2>1, <3>1 DEF ActorOK, LeaseOK, Alone, Acquire
    <2> QED BY <2>2, <2>3
<1>8. ASSUME NEW g \in Generation PROVE CohortOK(g)'
    <2>1. CohortOK(g)
        BY DEF RefreshInv
    <2>2. Late(g)' = Late(g)
        BY <1>t, <1>1, <1>3, <1>4 DEF Late, Holds, BeforeFetch
    <2>3. Spent(g)' = 0 /\ Spent(g) = 0
        BY <1>t, <1>4 DEF Spent
    <2> QED BY <2>1, <2>2, <2>3 DEF CohortOK, Acquire
<1> QED BY <1>5, <1>6, <1>7, <1>8 DEF RefreshInv

LEMMA StartFetchPreserves ==
    ASSUME RefreshInv, NEW a \in Actor, StartFetch(a)
    PROVE  RefreshInv'
<1>t. /\ TypeOK /\ actor[a] \in Calls /\ ActorOK(a, actor[a]) /\ actor[a].pc = "generation"
      /\ actor[a].seen = completed
    BY DEF RefreshInv, TypeOK, StartFetch, At, SameCohort
<1> DEFINE k == [actor[a] EXCEPT !.pc = "fetch"]
<1>1. k \in Calls /\ k.pc = "fetch" /\ k.seen = actor[a].seen
    BY <1>t DEF Calls, PCs
<1>2. actor' = [actor EXCEPT ![a] = k]
    BY DEF StartFetch, Goto, Continue
<1> HIDE DEF k
<1>3. actor' \in [Actor -> Calls] /\ \A b \in Actor : actor'[b] = IF b = a THEN k ELSE actor[b]
    BY <1>t, <1>1, <1>2 DEF TypeOK
<1>4. /\ lease' \in Leases /\ lease'.holder = lease.holder /\ lease'.seen = lease.seen
      /\ lease.holder # a => lease' = lease
      /\ lease.holder = a => lease'.fetched
    BY <1>t DEF StartFetch, TypeOK, Leases
<1>5. /\ fetches' \in [Generation -> Nat]
      /\ \A g \in Generation : fetches'[g] = IF g = completed THEN fetches[g] + 1 ELSE fetches[g]
    <2>1. fetches' = [fetches EXCEPT ![completed] = fetches[completed] + 1]
        BY <1>t DEF StartFetch
    <2>2. fetches \in [Generation -> Nat]
        BY <1>t DEF TypeOK
    <2>3. fetches' = [g \in Generation |-> IF g = completed THEN fetches[g] + 1 ELSE fetches[g]]
        BY <2>1, <2>2
    <2> QED BY <2>2, <2>3
<1>6. TypeOK' /\ (lease.seen <= completed)'
    BY <1>t, <1>3, <1>4, <1>5 DEF RefreshInv, TypeOK, StartFetch
<1>7. ASSUME NEW b \in Actor PROVE ActorOK(b, actor[b])'
    <2>1. ActorOK(b, actor[b]) /\ (Holds(b)' <=> Holds(b))
        BY <1>4 DEF RefreshInv, Holds, StartFetch
    <2>2. CASE b = a
        BY <1>t, <1>1, <1>3, <2>1, <2>2
        DEF ActorOK, LeaseOK, Alone, Inside, BeforeFetch, AfterFetch, StartFetch
    <2>3. CASE b # a
        <3>1. actor'[b] = actor[b] /\ (Holds(b) => lease'.fetched = lease.fetched)
            BY <1>3, <1>4, <2>3 DEF Holds
        <3> QED BY <1>4, <2>1, <3>1 DEF ActorOK, LeaseOK, Alone, StartFetch
    <2> QED BY <2>2, <2>3
<1>8. ASSUME NEW g \in Generation PROVE CohortOK(g)'
    <2>1. CohortOK(g) /\ fetches[g] \in Nat /\ lapses[g] \in Nat /\ completed' = completed
          /\ lapses' = lapses
        BY DEF RefreshInv, TypeOK, StartFetch
    <2>c. completed \in Nat
        BY <1>t DEF TypeOK
    <2>2. CASE g # completed
        BY <1>5, <2>1, <2>2 DEF CohortOK
    <2>3. CASE g = completed /\ Holds(a)
        <3>1. Spent(g) = 0 /\ Spent(g)' = 1
            BY <1>t, <1>4, <2>3 DEF Spent, Holds, ActorOK, LeaseOK, BeforeFetch, StartFetch
        <3>2. Late(g)' = Late(g)
            BY <1>1, <1>3, <1>4, <2>3 DEF Late, Holds, BeforeFetch, StartFetch
        <3> QED BY <1>5, <2>1, <2>c, <2>3, <3>1, <3>2, LateIsFinite DEF CohortOK
    <2>4. CASE g = completed /\ ~ Holds(a)
        <3>1. Spent(g) = Spent(g)' /\ Spent(g) \in 0 .. 1
            BY <1>4, <2>4 DEF Spent, Holds, StartFetch
        <3>2. Late(g)' = Late(g) \ {a} /\ a \in Late(g)
            BY <1>t, <1>1, <1>3, <1>4, <2>4 DEF Late, Holds, BeforeFetch, StartFetch
        <3>3. Cardinality(Late(g)') = Cardinality(Late(g)) - 1
            BY <3>2, LateIsFinite, FS_RemoveElement
        <3>4. Cardinality(Late(g)') \in Nat
            BY <3>2, LateIsFinite, FS_Subset, FS_CardinalityType
        <3> QED BY <1>5, <2>1, <2>c, <2>4, <3>1, <3>3, <3>4, LateIsFinite DEF CohortOK
    <2> QED BY <2>2, <2>3, <2>4
<1> QED BY <1>6, <1>7, <1>8 DEF RefreshInv

(* A refresh that has fetched and completed closes its cohort. *)
LEMMA RecordPreserves ==
    ASSUME RefreshInv, NEW a \in Actor, Record(a)
    PROVE  RefreshInv'
<1>t. /\ TypeOK /\ actor[a] \in Calls /\ ActorOK(a, actor[a]) /\ actor[a].pc = "record"
      /\ recorded \in Nat /\ completed \in Nat /\ completed <= recorded
      /\ lease.seen <= completed /\ lease.seen \in Nat
    BY DEF RefreshInv, TypeOK, Record, At, Leases
<1> DEFINE next == IF actor[a].result = "busy" THEN "reread" ELSE "release"
           k == [actor[a] EXCEPT !.pc = next]
<1>1. k \in Calls /\ k.pc = next /\ k.seen = actor[a].seen
    BY <1>t DEF Calls, PCs
<1>2. actor' = [actor EXCEPT ![a] = k]
    BY DEF Record, Goto, Continue
<1> HIDE DEF k
<1>3. actor' \in [Actor -> Calls] /\ \A b \in Actor : actor'[b] = IF b = a THEN k ELSE actor[b]
    BY <1>t, <1>1, <1>2 DEF TypeOK
<1>4. /\ recorded' = recorded + 1 /\ completed' \in {completed, recorded + 1}
      /\ actor[a].result \in Completing => completed' = recorded + 1
      /\ UNCHANGED <<snapshot, lease, live, lock, fetches, lapses, bound>>
    BY DEF Record
<1>5. completed' \in 0 .. recorded' /\ recorded' \in Nat /\ completed <= completed'
    BY <1>t, <1>4
<1>6. TypeOK' /\ (lease.seen <= completed)'
    <2>1. TypeOK'
        BY <1>t, <1>3, <1>4, <1>5 DEF TypeOK
    <2> QED BY <1>t, <1>4, <1>5, <2>1
<1>7. ASSUME NEW b \in Actor PROVE ActorOK(b, actor[b])'
    <2>1. ActorOK(b, actor[b]) /\ actor[b].seen \in Nat /\ (Holds(b)' <=> Holds(b))
        BY <1>4 DEF RefreshInv, TypeOK, Calls, Holds
    <2>2. actor'[b].seen <= completed'
        BY <1>t, <1>1, <1>3, <1>5, <2>1 DEF ActorOK
    <2>3. CASE b = a
        <3>1. LeaseOK(a, actor[a])'
            <4> SUFFICES ASSUME Holds(a), k.pc = "release", lease.fetched
                         PROVE  lease.seen < completed'
                BY <1>1, <1>3, <1>4, <2>1, <2>3 DEF LeaseOK, BeforeFetch
            <4>1. actor[a].result \in Completing
                BY <1>t, <1>1 DEF ActorOK, LeaseOK
            <4> QED BY <1>t, <1>4, <4>1
        <3>2. Alone(a, actor[a])'
            BY <1>t, <1>1, <1>3, <1>4, <2>1, <2>3 DEF ActorOK, Alone, Inside, BeforeFetch, AfterFetch
        <3> QED BY <2>2, <2>3, <3>1, <3>2 DEF ActorOK
    <2>4. CASE b # a
        <3>1. LeaseOK(b, actor[b])'
            BY <1>t, <1>3, <1>4, <1>5, <2>1, <2>4 DEF ActorOK, LeaseOK
        <3>2. Alone(b, actor[b])'
            BY <1>3, <1>4, <2>1, <2>4 DEF ActorOK, Alone
        <3> QED BY <2>2, <3>1, <3>2 DEF ActorOK
    <2> QED BY <2>3, <2>4
<1>8. ASSUME NEW g \in Generation PROVE CohortOK(g)'
    <2>1. CohortOK(g) /\ fetches[g] \in Nat /\ lapses[g] \in Nat /\ g \in Nat
        BY <1>t, RefreshAssumption DEF RefreshInv, TypeOK, Generation
    <2>2. Late(g)' = Late(g)
        BY <1>t, <1>1, <1>3, <1>4 DEF Late, Holds, BeforeFetch
    <2>3. Spent(g)' = Spent(g) /\ Spent(g) \in Nat
        BY <1>4 DEF Spent
    <2>4. CASE completed' = completed
        BY <1>4, <2>1, <2>2, <2>3, <2>4 DEF CohortOK
    <2>5. CASE completed' = recorded + 1
        <3>1. g = completed' => Late(g) = {}
            <4> SUFFICES ASSUME g = completed', NEW b \in Late(g) PROVE FALSE
                OBVIOUS
            <4>1. b \in Actor /\ actor[b].seen = g /\ actor[b].seen <= completed
                BY DEF Late, RefreshInv, ActorOK
            <4> QED BY <1>t, <2>5, <4>1
        <3>2. g = completed' => Cardinality(Late(g)) = 0
            BY <3>1, FS_EmptySet
        <3>3. g > completed' => g > completed
            BY <1>t, <1>5, <2>1
        <3>4. g = completed' => g > completed
            BY <1>t, <2>5
        <3> QED BY <1>4, <2>1, <2>2, <2>3, <3>2, <3>3, <3>4 DEF CohortOK
    <2> QED BY <1>4, <2>4, <2>5
<1> QED BY <1>6, <1>7, <1>8 DEF RefreshInv

(* A lease given back was not spent on the cohort that may still fetch. *)
LEMMA ReleasePreserves ==
    ASSUME RefreshInv, NEW a \in Actor, Release(a)
    PROVE  RefreshInv'
<1>t. /\ TypeOK /\ actor[a] \in Calls /\ ActorOK(a, actor[a]) /\ actor[a].pc = "release"
      /\ completed \in Nat /\ lease \in Leases /\ lease.seen <= completed
    BY DEF RefreshInv, TypeOK, Release, At
<1> DEFINE k == [actor[a] EXCEPT !.pc = "reread"]
<1>1. k \in Calls /\ k.pc = "reread" /\ k.seen = actor[a].seen
    BY <1>t DEF Calls, PCs
<1>2. actor' = [actor EXCEPT ![a] = k]
    BY DEF Release, Goto, Continue
<1> HIDE DEF k
<1>3. actor' \in [Actor -> Calls] /\ \A b \in Actor : actor'[b] = IF b = a THEN k ELSE actor[b]
    BY <1>t, <1>1, <1>2 DEF TypeOK
<1>4. /\ lease.holder # a => lease' = lease /\ live' = live
      /\ lease.holder = a => lease' = NoLease /\ live' = FALSE
      /\ UNCHANGED <<snapshot, recorded, completed, lock, fetches, lapses, bound>>
    BY <1>t DEF Release, TypeOK
<1>5. NoLease \in Leases /\ NoLease.seen = 0 /\ ~ NoLease.fetched
    BY DEF NoLease, Leases
<1>6. TypeOK' /\ (lease.seen <= completed)'
    <2>1. lease' \in Leases /\ live' \in BOOLEAN /\ (live' => lease'.holder # Nobody)
        <3>1. CASE lease.holder = a
            BY <1>4, <1>5, <3>1
        <3>2. CASE lease.holder # a
            BY <1>t, <1>4, <3>2 DEF TypeOK
        <3> QED BY <3>1, <3>2
    <2>2. lease'.seen <= completed'
        BY <1>t, <1>4, <1>5
    <2>3. TypeOK'
        BY <1>t, <1>3, <1>4, <2>1 DEF TypeOK
    <2> QED BY <2>2, <2>3
<1>7. ASSUME NEW b \in Actor PROVE ActorOK(b, actor[b])'
    <2>1. ActorOK(b, actor[b])
        BY DEF RefreshInv
    <2>2. CASE b = a
        BY <1>1, <1>3, <1>4, <2>1, <2>2
        DEF ActorOK, LeaseOK, Alone, Inside, BeforeFetch, AfterFetch
    <2>3. CASE b # a
        <3>1. actor'[b] = actor[b] /\ (Holds(b)' <=> Holds(b)) /\ (Holds(b) => lease' = lease)
            BY <1>3, <1>4, <2>3 DEF Holds
        <3>2. completed' = completed /\ snapshot' = snapshot /\ bound' = bound
            BY <1>4
        <3> QED BY <2>1, <3>1, <3>2 DEF ActorOK, LeaseOK, Alone
    <2> QED BY <2>2, <2>3
<1>8. ASSUME NEW g \in Generation PROVE CohortOK(g)'
    <2>1. CohortOK(g)
        BY DEF RefreshInv
    <2>2. Late(g)' = Late(g)
        <3>1. ASSUME NEW b \in Actor PROVE b \in Late(g)' <=> b \in Late(g)
            BY <1>t, <1>1, <1>3, <1>4, <3>1 DEF Late, Holds, BeforeFetch
        <3> QED BY <3>1 DEF Late
    <2>3. g = completed => Spent(g)' = Spent(g)
        <3>1. CASE Holds(a)
            BY <1>t, <1>4, <3>1 DEF Spent, Holds, ActorOK, LeaseOK
        <3>2. CASE ~ Holds(a)
            BY <1>t, <1>4, <3>2 DEF Spent, Holds, TypeOK
        <3> QED BY <3>1, <3>2
    <2> QED BY <1>4, <2>1, <2>2, <2>3 DEF CohortOK
<1> QED BY <1>6, <1>7, <1>8 DEF RefreshInv

(* A lease that runs out before its fetch leaves one to come, after it one *)
(* spent: both are paid for.                                               *)
LEMMA LapsePreserves ==
    ASSUME RefreshInv, Lapse
    PROVE  RefreshInv'
<1> DEFINE s == lease.seen
           h == lease.holder
<1>t. /\ TypeOK /\ live /\ live' = FALSE /\ h \in Actor /\ s \in Nat /\ completed \in Nat
      /\ UNCHANGED <<snapshot, lease, recorded, completed, actor, lock, fetches>>
    BY DEF RefreshInv, TypeOK, Lapse, Leases
<1>1. /\ bound' \in [reads : Nat, lapses : Nat, crashes : Nat] /\ bound'.lapses > 0
      /\ lapses' = [lapses EXCEPT ![s] = lapses[s] + 1] /\ lapses \in [Generation -> Nat]
    BY <1>t DEF Lapse, TypeOK
<1>2. /\ lapses' \in [Generation -> Nat]
      /\ \A g \in Generation : lapses'[g] = IF g = s THEN lapses[g] + 1 ELSE lapses[g]
    <2>1. lapses' = [g \in Generation |-> IF g = s THEN lapses[g] + 1 ELSE lapses[g]]
        BY <1>1
    <2>2. lapses \in [Generation -> Nat]
        BY <1>1
    <2> QED BY <2>1, <2>2
<1>3. TypeOK' /\ (lease.seen <= completed)'
    BY <1>t, <1>1, <1>2 DEF RefreshInv, TypeOK
<1>4. ASSUME NEW a \in Actor PROVE ActorOK(a, actor[a])'
    <2>1. ActorOK(a, actor[a]) /\ ~ Holds(a)'
        BY <1>t DEF RefreshInv, Holds
    <2> QED BY <1>t, <1>1, <2>1 DEF ActorOK, LeaseOK, Alone
<1>5. ASSUME NEW g \in Generation PROVE CohortOK(g)'
    <2>1. /\ CohortOK(g) /\ fetches[g] \in Nat /\ lapses[g] \in Nat
          /\ ActorOK(h, actor[h]) /\ Holds(h)
        BY <1>t DEF RefreshInv, TypeOK, Holds
    <2>2. Spent(g)' = 0 /\ Spent(g) \in 0 .. 1
        BY <1>t DEF Spent
    <2>3. \A a \in Actor : Holds(a)' = FALSE /\ (Holds(a) <=> a = h)
        BY <1>t DEF Holds
    <2>4. CASE actor[h].pc \in BeforeFetch /\ actor[h].seen = g
        <3>1. s = g /\ Spent(g) = 0
            BY <2>1, <2>4 DEF ActorOK, LeaseOK, Spent
        <3>2. Late(g)' = Late(g) \union {h} /\ h \notin Late(g)
            BY <1>t, <2>3, <2>4 DEF Late
        <3>3. Cardinality(Late(g)') = Cardinality(Late(g)) + 1
            BY <3>2, LateIsFinite, FS_AddElement
        <3> QED BY <1>t, <1>2, <2>1, <2>2, <3>1, <3>3, LateIsFinite DEF CohortOK
    <2>5. CASE ~ (actor[h].pc \in BeforeFetch /\ actor[h].seen = g)
        <3>1. Late(g)' = Late(g)
            BY <1>t, <2>3, <2>5 DEF Late
        <3>2. Spent(g) = 0 \/ g = s
            BY DEF Spent
        <3> QED BY <1>t, <1>2, <2>1, <2>2, <3>1, <3>2, LateIsFinite DEF CohortOK
    <2> QED BY <2>4, <2>5
<1> QED BY <1>3, <1>4, <1>5 DEF RefreshInv

LEMMA CrashPreserves ==
    ASSUME RefreshInv, NEW p \in Process, Crash(p)
    PROVE  RefreshInv'
<1>t. /\ TypeOK /\ \A a \in Actor : actor[a] \in Calls /\ ActorOK(a, actor[a])
    BY DEF RefreshInv, TypeOK
<1>1. /\ actor' \in [Actor -> Calls]
      /\ \A a \in Actor : actor'[a] = Idle \/ actor'[a] = actor[a]
    BY <1>t, IdleOK DEF Crash
<1>2. /\ lock' \in [Process -> Reader \union {Nobody}]
      /\ bound' \in [reads : Nat, lapses : Nat, crashes : Nat] /\ bound'.lapses = bound.lapses
    BY <1>t DEF Crash, TypeOK
<1>3. Idle.pc \notin BeforeFetch
    BY DEF Idle, BeforeFetch
<1>4. \A a \in Actor : ActorOK(a, actor'[a])
    BY <1>t, <1>1, IdleOK
<1>5. \A a \in Actor : actor'[a].pc \in BeforeFetch =>
          actor[a].pc \in BeforeFetch /\ actor'[a].seen = actor[a].seen
    BY <1>1, <1>3
<1> QED BY <1>1, <1>2, <1>4, <1>5, CallSteps DEF Crash

-----------------------------------------------------------------------------
(* The theorems *)

LEMMA RefreshInit == Init => RefreshInv
<1> HAVE Init
<1>1. TypeOK
    <2>1. Idle \in Calls /\ NoLease \in Leases
        BY DEF Idle, Calls, PCs, Results, NoLease, Leases
    <2>2. snapshot \in [state : {"missing", "fresh", "stale"}, warned : BOOLEAN]
        BY DEF Init
    <2>3. actor \in [Actor -> Calls] /\ lease \in Leases /\ live = FALSE
        BY <2>1 DEF Init
    <2>4. /\ lock \in [Process -> Reader \union {Nobody}]
          /\ fetches \in [Generation -> Nat] /\ lapses \in [Generation -> Nat]
          /\ bound \in [reads : Nat, lapses : Nat, crashes : Nat]
        BY DEF Init
    <2>5. recorded \in Nat /\ completed \in 0 .. recorded
        BY DEF Init
    <2> QED BY <2>2, <2>3, <2>4, <2>5 DEF TypeOK
<1>2. lease.seen <= completed
    BY DEF Init, NoLease
<1>3. \A a \in Actor : ActorOK(a, actor[a])
    BY <1>1, IdleOK DEF Init
<1>4. ASSUME NEW g \in Generation PROVE CohortOK(g)
    <2>1. Late(g) = {}
        BY DEF Init, Late, Idle, BeforeFetch
    <2>2. Cardinality(Late(g)) = 0 /\ Spent(g) = 0 /\ fetches[g] = 0 /\ lapses[g] = 0
        BY <2>1, FS_EmptySet DEF Init, Spent
    <2> QED BY <2>2 DEF CohortOK
<1> QED BY <1>1, <1>2, <1>3, <1>4 DEF RefreshInv

LEMMA RefreshStep == RefreshInv /\ [Next]_vars => RefreshInv'
<1> SUFFICES ASSUME RefreshInv, [Next]_vars PROVE RefreshInv'
    OBVIOUS
<1>1. ASSUME NEW r \in Reader, Arrive(r) \/ Read(r) PROVE RefreshInv'
    BY <1>1, ReadPreserves
<1>2. ASSUME NEW a \in Actor, Refresh(a) PROVE RefreshInv'
    BY <1>2, RefreshCallPreserves, WritePreserves, AcquirePreserves, StartFetchPreserves,
       RecordPreserves, ReleasePreserves
    DEF Refresh
<1>3. ASSUME NEW p \in Process, Crash(p) PROVE RefreshInv'
    BY <1>3, CrashPreserves
<1>4. CASE UNCHANGED vars
    BY <1>4 DEF vars, RefreshInv, TypeOK, ActorOK, LeaseOK, Alone, Holds, CohortOK, Late, Spent
<1> QED BY <1>1, <1>2, <1>3, <1>4, AgePreserves, LapsePreserves DEF Next

LEMMA RefreshInvHolds == Spec => []RefreshInv
    BY RefreshInit, RefreshStep, PTL DEF Spec

(* The variables of the refresher keep their types. *)
THEOREM RefreshIsTyped == Spec => []TypeOK
<1>1. RefreshInv => TypeOK
    BY DEF RefreshInv
<1> QED BY <1>1, RefreshInvHolds, PTL

(* Those who wait for one refresh fetch once between them, and once more   *)
(* for each lease of theirs that runs out.                                 *)
THEOREM CohortsFetchOnce == Spec => []OneFetchPerCohort
<1>1. RefreshInv => OneFetchPerCohort
    BY DEF RefreshInv, CohortOK, OneFetchPerCohort
<1> QED BY <1>1, RefreshInvHolds, PTL

(* As long as no lease has run out, what a refresh reports is what the     *)
(* store holds.                                                            *)
THEOREM ReportsAreTrue == Spec => []ResultsAreTrue
<1>1. RefreshInv => ResultsAreTrue
    BY DEF RefreshInv, ActorOK, Alone, ResultsAreTrue, At
<1> QED BY <1>1, RefreshInvHolds, PTL

-----------------------------------------------------------------------------
(* II. MarketStore *)

(* The date the reader chose and the trading date it stands for. *)
Mine == {chosen, Effective[chosen]}

OfOneDay(x) == x # Nothing => \A p \in Part : x.part[p] # Nothing => x.part[p][1] = x.asOf
OfTheDay(x) == x # Nothing => x.asOf = Effective[chosen] /\ OfOneDay(x)

Spinning == {"loading", "refreshing"}
V2 == {"pinned", "page", "restart", "repage", "group"}
Versioned == {"shell", "page", "restart", "repage", "group"}
Waiting == Versioned \union {"core", "section"}

(* What a load waits for agrees with what it loads. *)
LoadOK(k) ==
    /\ k.pc \in V2 => k.of \in Resource
    /\ k.pc = "section" => k.of \in Section
    /\ k.pc = "core" => k.of \in Resource \union {Nothing}
    /\ k.pc = "core" /\ k.after = "section" => k.of \in Resource
    /\ k.pc \in Waiting => k.date # Nothing
    /\ k.pc \in {"page", "repage", "restart"} => Paged[k.of] # Nothing

ReadOK(q) == q.call # Nothing => call[q.call].pc = "pinned"

PendingCore(c) == call[c].pc = "core" /\ latest.core = c

(* What a load brings in is of the reader's date.  An answer of loadCore   *)
(* that is not the latest is dropped, so it may be of any.                 *)
Dated(k) ==
    /\ k.pc \in Versioned => k.date \in Mine
    /\ k.pc = "core" => OfOneDay(k.before)
    /\ k.pc = "pinned" => \A x \in k.got : x[2][1] = Effective[chosen]

DatesOK ==
    /\ store.selected \in Mine
    /\ OfTheDay(store.shown)
    /\ \A q \in reads : q.date \in Mine /\ q.path \in Mine
    /\ \A c \in Call : Dated(call[c]) /\ (PendingCore(c) => call[c].date \in Mine)

(* Who makes what spins stop. *)
Loads(k, r) ==
    /\ k.of = r /\ ~ k.force
    /\ k.pc = "pinned" \/ (r # Group /\ k.pc \in {"page", "restart", "repage"})

Fetches(k, s) == k.pc = "section" /\ k.of = s /\ k.date = store.coreDate

CoreOK ==
    /\ store.loading => \E c \in Call : call[c].pc = "shell" \/ PendingCore(c)
    /\ store.coreDate # Nothing => Effective[store.coreDate] = store.coreDate
    /\ store.mode # "v2" => \A c \in Call : PendingCore(c) => call[c].date = store.selected

(* In the legacy mode a section is loaded of the date that is selected, so *)
(* a core answer that comes after all does not make its answer an old one. *)
SectionOK(s) ==
    store.mode # "v2" /\ store.sectionPhase[s] \in Spinning =>
        /\ store.coreDate = store.selected /\ store.coreDate # Nothing
        /\ store.shown # Nothing
        /\ \E c \in Call : latest.section[s] = c /\ Fetches(call[c], s)

SpinnersOK ==
    /\ CoreOK
    /\ \A r \in Resource : store.phase[r] \in Spinning => \E c \in Call : Loads(call[c], r)
    /\ \A s \in Section : SectionOK(s)

MarketInv ==
    /\ MarketTypeOK
    /\ \A c \in Call : LoadOK(call[c])
    /\ \A q \in reads : ReadOK(q)
    /\ ~ crossed => DatesOK
    /\ SpinnersOK

-----------------------------------------------------------------------------
(* Types, and what the operations on the store make of it *)

PinnedRead == [call : Call \union {Nothing}, part : Part,
            stage : {"first", "overview", "second"}, path : Date,
            date : Date, since : 0 .. MaxPublish, rev : Stamp \union {Nothing}]

LEMMA MarketTyped ==
    ASSUME MarketTypeOK
    PROVE  /\ store \in Store
           /\ latest.core \in Call \union {Nothing}
           /\ \A s \in Section : latest.section[s] \in Call \union {Nothing}
           /\ \A c \in Call : call[c] \in CallState
           /\ \A q \in reads : q \in PinnedRead
           /\ \A d \in Date : published[d] \in 0 .. MaxPublish
           /\ chosen \in Date
    BY DEF MarketTypeOK, PinnedRead

LEMMA Bounds == MaxStarts \in Nat /\ MaxChanges \in Nat /\ MaxPublish \in Nat /\ 0 \in 0 .. MaxPublish
    BY MarketAssumption

LEMMA PartsAreParts ==
    ASSUME NEW r \in Resource
    PROVE  /\ Pinned[r] \subseteq Part
           /\ Paged[r] # Nothing => Paged[r] \in Part
    BY DEF Part, Parts

LEMMA PartsOfSections == ASSUME NEW sections PROVE PartsOf(sections) \subseteq Part
    BY DEF Part, PartsOf

(* Nothing is none of the things that may be missing. *)
LEMMA SomethingIsThere ==
    /\ \A d \in Date : Bare(d) \in Shown /\ d # Nothing
    /\ \A x \in Shown : x # Nothing
    /\ \A x \in Stamp : x # Nothing
    /\ \A c \in Call : c # Nothing
    BY MarketAssumption DEF Bare, Shown

LEMMA EvidenceGoesIn ==
    ASSUME NEW s \in Store, NEW stamps \in SUBSET (Part \X (Stamp \union {Nothing}))
    PROVE  LET e == Evidence(s, stamps) IN
           /\ e \in Store
           /\ e.shown = Nothing <=> s.shown = Nothing
           /\ s.shown # Nothing =>
                /\ e.shown.asOf = s.shown.asOf
                /\ \A p \in Part : \/ e.shown.part[p] = s.shown.part[p]
                                   \/ \E x \in stamps : e.shown.part[p] = x[2]
           /\ e = [s EXCEPT !.shown = e.shown]
<1> DEFINE new == [p \in Part |-> IF \E x \in stamps : x[1] = p
                                  THEN (CHOOSE x \in stamps : x[1] = p)[2] ELSE s.shown.part[p]]
           e == Evidence(s, stamps)
<1>1. CASE s.shown = Nothing
    BY <1>1 DEF Evidence, Store
<1>2. CASE s.shown # Nothing
    <2>1. s.shown \in Shown
        BY <1>2 DEF Store
    <2>2. e = [s EXCEPT !.shown = [s.shown EXCEPT !.part = new]]
        BY <1>2, <2>1 DEF Evidence, Store, Shown
    <2>3. \A p \in Part : new[p] = s.shown.part[p] \/ \E x \in stamps : new[p] = x[2]
        OBVIOUS
    <2>4. new \in [Part -> Stamp \union {Nothing}]
        <3>1. \A p \in Part : s.shown.part[p] \in Stamp \union {Nothing}
            BY <2>1 DEF Shown
        <3>2. \A x \in stamps : x[2] \in Stamp \union {Nothing}
            OBVIOUS
        <3> QED BY <2>3, <3>1, <3>2
    <2> HIDE DEF new
    <2>5. [s.shown EXCEPT !.part = new] \in Shown
        BY <2>1, <2>4 DEF Shown
    <2>6. e.shown = [s.shown EXCEPT !.part = new] /\ e \in Store
        BY <2>2, <2>5 DEF Store
    <2>7. e.shown.asOf = s.shown.asOf /\ e.shown.part = new
        BY <2>6, <2>1 DEF Shown
    <2>8. e.shown # Nothing
        BY <2>5, <2>6, SomethingIsThere
    <2> QED
        BY <1>2, <2>2, <2>3, <2>6, <2>7, <2>8
<1> QED
    BY <1>1, <1>2

-----------------------------------------------------------------------------
(* A step of one load: what it has to see to, so that nothing else that is *)
(* under way is disturbed.                                                 *)

(* Its own record, the numbers, and the requests that are awaited. *)
CallMoves(c, k) ==
    /\ call' = [call EXCEPT ![c] = k] /\ k \in CallState /\ LoadOK(k)
    /\ store' \in Store
    /\ latest' \in [core : Call \union {Nothing}, section : [Section -> Call \union {Nothing}]]
    /\ \A x \in Call : latest'.core = x => x = c \/ latest.core = x
    /\ published' \in [Date -> 0 .. MaxPublish] /\ crossed' \in BOOLEAN /\ chosen' \in Date
    /\ \A q \in reads' :
          /\ q \in PinnedRead
          /\ \/ q.call = Nothing
             \/ q.call = c /\ k.pc = "pinned"
             \/ q.call # c /\ \E x \in reads : x.call = q.call

DatesMove(c, k) ==
    /\ crossed' = crossed /\ chosen' = chosen
    /\ ~ crossed =>
        /\ store'.selected \in Mine
        /\ OfTheDay(store'.shown)
        /\ \A q \in reads' : q.date \in Mine /\ q.path \in Mine
        /\ Dated(k)
        /\ k.pc = "core" /\ latest'.core = c => k.date \in Mine

CoreMoves(c, k) ==
    /\ store'.loading =>
          \/ k.pc = "shell"
          \/ k.pc = "core" /\ latest'.core = c
          \/ store.loading /\ latest'.core = latest.core /\ call[c].pc # "shell" /\ ~ PendingCore(c)
    /\ store'.coreDate # Nothing => Effective[store'.coreDate] = store'.coreDate
    /\ store'.mode # "v2" /\ k.pc = "core" /\ latest'.core = c => k.date = store'.selected
    /\ \/ latest'.core = c
       \/ store'.mode = "v2"
       \/ store.mode # "v2" /\ store'.selected = store.selected

PhasesMove(c, k) ==
    \A r \in Resource : store'.phase[r] \in Spinning =>
        \/ Loads(k, r)
        \/ store.phase[r] \in Spinning /\ ~ Loads(call[c], r)

(* A section that spins was spinning before, of the same date, or is what  *)
(* this load is after.                                                     *)
SectionsMove(c, k) ==
    \A s \in Section :
        store'.mode # "v2" /\ store'.sectionPhase[s] \in Spinning =>
            /\ store'.coreDate = store'.selected /\ store'.coreDate # Nothing
            /\ store'.shown # Nothing
            /\ \/ /\ latest'.section[s] = c
                  /\ k.pc = "section" /\ k.of = s /\ k.date = store'.coreDate
               \/ /\ store.mode # "v2" /\ store.sectionPhase[s] \in Spinning
                  /\ ~ (latest.section[s] = c /\ Fetches(call[c], s))
                  /\ latest'.section[s] = latest.section[s] /\ store'.coreDate = store.coreDate

LEMMA LoadsKeepOthers ==
    ASSUME MarketInv, NEW c \in Call, NEW k,
           CallMoves(c, k), CoreMoves(c, k), PhasesMove(c, k), SectionsMove(c, k)
    PROVE  /\ (DatesMove(c, k) => MarketInv')
           /\ ((~ crossed => DatesOK)' => MarketInv')
<1>1. call'[c] = k /\ \A x \in Call \ {c} : call'[x] = call[x]
    BY DEF CallMoves, MarketInv, MarketTypeOK
<1>2. \A x \in Call \ {c} : latest'.core = x => latest.core = x
    BY DEF CallMoves
<1>3. MarketTypeOK'
    <2>1. call' \in [Call -> CallState]
        BY DEF CallMoves, MarketInv, MarketTypeOK
    <2>2. reads' \subseteq PinnedRead
        BY DEF CallMoves
    <2> QED
        BY <2>1, <2>2 DEF CallMoves, MarketInv, MarketTypeOK, PinnedRead
<1>4. \A x \in Call : LoadOK(call'[x])
    BY <1>1 DEF CallMoves, MarketInv
<1>5. \A q \in reads' : q.call # Nothing => call'[q.call].pc = "pinned"
    <2> SUFFICES ASSUME NEW q \in reads', q.call # Nothing PROVE call'[q.call].pc = "pinned"
        OBVIOUS
    <2>1. CASE q.call = c /\ k.pc = "pinned"
        BY <2>1, <1>1
    <2>2. CASE q.call # c /\ \E x \in reads : x.call = q.call
        <3>1. q.call \in Call
            BY DEF CallMoves, PinnedRead
        <3>2. call[q.call].pc = "pinned"
            BY <2>2 DEF MarketInv, ReadOK
        <3> QED BY <1>1, <2>2, <3>1, <3>2
    <2> QED BY <2>1, <2>2 DEF CallMoves
<1>6. ASSUME ~ crossed, DatesMove(c, k) PROVE DatesOK'
    <2>1. Mine' = Mine
        BY <1>6 DEF DatesMove, Mine
    <2>2. DatesOK
        BY <1>6 DEF MarketInv
    <2>3. OfTheDay(store.shown)'
        BY <1>6 DEF DatesMove, OfTheDay, OfOneDay
    <2>4. \A x \in Call : Dated(call'[x]) /\ (call'[x].pc = "core" /\ latest'.core = x => call'[x].date \in Mine)
        <3> SUFFICES ASSUME NEW x \in Call
                     PROVE  Dated(call'[x]) /\ (call'[x].pc = "core" /\ latest'.core = x => call'[x].date \in Mine)
            OBVIOUS
        <3>1. CASE x = c
            BY <3>1, <1>1, <1>6 DEF DatesMove
        <3>2. CASE x # c
            BY <3>2, <1>1, <1>2, <2>2 DEF DatesOK, PendingCore
        <3> QED BY <3>1, <3>2
    <2>5. \A x \in Call : Dated(call[x])'
        BY <1>6, <2>1, <2>4 DEF Dated, DatesMove, OfOneDay
    <2> QED
        BY <1>6, <2>1, <2>3, <2>4, <2>5 DEF DatesMove, DatesOK, PendingCore
<1>7. CoreOK'
    <2>1. store'.loading => \E x \in Call : call'[x].pc = "shell" \/ (call'[x].pc = "core" /\ latest'.core = x)
        <3> SUFFICES ASSUME store'.loading
                     PROVE  \E x \in Call : call'[x].pc = "shell" \/ (call'[x].pc = "core" /\ latest'.core = x)
            OBVIOUS
        <3>1. CASE k.pc = "shell" \/ (k.pc = "core" /\ latest'.core = c)
            BY <3>1, <1>1
        <3>2. CASE store.loading /\ latest'.core = latest.core /\ call[c].pc # "shell" /\ ~ PendingCore(c)
            <4>1. PICK x \in Call : call[x].pc = "shell" \/ PendingCore(x)
                BY <3>2 DEF MarketInv, SpinnersOK, CoreOK
            <4>2. x # c
                BY <4>1, <3>2
            <4> QED BY <1>1, <3>2, <4>1, <4>2 DEF PendingCore
        <3> QED BY <3>1, <3>2 DEF CoreMoves
    <2>2. store'.mode # "v2" => \A x \in Call : call'[x].pc = "core" /\ latest'.core = x => call'[x].date = store'.selected
        <3> SUFFICES ASSUME store'.mode # "v2", NEW x \in Call, call'[x].pc = "core", latest'.core = x
                     PROVE  call'[x].date = store'.selected
            OBVIOUS
        <3>1. CASE x = c
            BY <3>1, <1>1 DEF CoreMoves
        <3>2. CASE x # c
            <4>1. PendingCore(x)
                BY <3>2, <1>1, <1>2 DEF PendingCore
            <4> QED BY <3>2, <4>1, <1>1 DEF CoreMoves, MarketInv, SpinnersOK, CoreOK
        <3> QED BY <3>1, <3>2
    <2> QED BY <2>1, <2>2 DEF CoreMoves, CoreOK, PendingCore
<1>8. \A r \in Resource : store'.phase[r] \in Spinning => \E x \in Call : Loads(call'[x], r)
    <2> SUFFICES ASSUME NEW r \in Resource, store'.phase[r] \in Spinning
                 PROVE  \E x \in Call : Loads(call'[x], r)
        OBVIOUS
    <2>1. CASE Loads(k, r)
        BY <2>1, <1>1
    <2>2. CASE store.phase[r] \in Spinning /\ ~ Loads(call[c], r)
        <3>1. PICK x \in Call : Loads(call[x], r)
            BY <2>2 DEF MarketInv, SpinnersOK
        <3>2. x # c
            BY <2>2, <3>1
        <3> QED BY <1>1, <3>1, <3>2
    <2> QED BY <2>1, <2>2 DEF PhasesMove
<1>9. \A s \in Section : SectionOK(s)'
    <2> SUFFICES ASSUME NEW s \in Section, store'.mode # "v2", store'.sectionPhase[s] \in Spinning
                 PROVE  \E x \in Call : /\ latest'.section[s] = x /\ call'[x].pc = "section"
                                        /\ call'[x].of = s /\ call'[x].date = store'.coreDate
        BY DEF SectionOK, SectionsMove, Fetches
    <2>1. CASE /\ latest'.section[s] = c
               /\ k.pc = "section" /\ k.of = s /\ k.date = store'.coreDate
        BY <2>1, <1>1
    <2>2. CASE /\ store.mode # "v2" /\ store.sectionPhase[s] \in Spinning
               /\ ~ (latest.section[s] = c /\ Fetches(call[c], s))
               /\ latest'.section[s] = latest.section[s] /\ store'.coreDate = store.coreDate
        <3>1. PICK x \in Call : latest.section[s] = x /\ Fetches(call[x], s)
            BY <2>2 DEF MarketInv, SpinnersOK, SectionOK
        <3>2. x # c
            BY <2>2, <3>1
        <3> QED BY <1>1, <2>2, <3>1, <3>2 DEF Fetches
    <2> QED BY <2>1, <2>2 DEF SectionsMove
<1>10. SpinnersOK'
    BY <1>7, <1>8, <1>9 DEF SpinnersOK, Loads
<1>11. (\A x \in Call : LoadOK(call[x]))' /\ (\A q \in reads : ReadOK(q))'
    BY <1>4, <1>5 DEF LoadOK, ReadOK
<1>12. DatesMove(c, k) => (~ crossed => DatesOK)'
    BY <1>6 DEF DatesMove
<1> QED
    BY <1>3, <1>10, <1>11, <1>12 DEF MarketInv

-----------------------------------------------------------------------------
(* How a load goes on *)

LEMMA CallsAreTyped ==
    ASSUME MarketTypeOK
    PROVE  /\ Free \in CallState
           /\ \A k \in CallState, d \in Date, rev \in Stamp \union {Nothing} :
                Ask(k, d, rev) \in CallState
<1>1. Free \in CallState
    BY Bounds DEF Free, CallState
<1>2. ASSUME NEW k \in CallState, NEW d \in Date, NEW rev \in Stamp \union {Nothing}
      PROVE  Ask(k, d, rev) \in CallState
    <2>1. published[d] \in 0 .. MaxPublish
        BY MarketTyped
    <2> QED
        BY <2>1 DEF Ask, CallState
<1> QED
    BY <1>1, <1>2

(* The requests that are awaited when c has none, or loses those it has. *)
LEMMA OthersRead ==
    ASSUME MarketInv, NEW c \in Call, call[c].pc # "pinned"
    PROVE  \A q \in reads : q \in PinnedRead /\ (q.call = Nothing \/ (q.call # c /\ \E x \in reads : x.call = q.call))
    BY MarketTyped DEF MarketInv, ReadOK

(* The store may be left as s when load c ends: s shows the reader's day,  *)
(* and no more spins in it than what others see to.                        *)
Right(s) == ~ crossed => s.selected \in Mine /\ OfTheDay(s.shown)

Stored(s) ==
    /\ s \in Store
    /\ s.coreDate # Nothing => Effective[s.coreDate] = s.coreDate

PhasesRest(c, s) ==
    \A r \in Resource : s.phase[r] \in Spinning =>
        store.phase[r] \in Spinning /\ ~ Loads(call[c], r)

OthersGoOn(c, s) ==
    /\ s.loading => store.loading /\ call[c].pc # "shell" /\ ~ PendingCore(c)
    /\ \/ PendingCore(c)
       \/ s.mode = "v2"
       \/ store.mode # "v2" /\ s.selected = store.selected
    /\ \A x \in Section : s.mode # "v2" /\ s.sectionPhase[x] \in Spinning =>
            /\ s.coreDate = s.selected /\ s.coreDate # Nothing /\ s.shown # Nothing
            /\ store.mode # "v2" /\ store.sectionPhase[x] \in Spinning
            /\ ~ (latest.section[x] = c /\ Fetches(call[c], x))
            /\ s.coreDate = store.coreDate

Rests(c, s) == Stored(s) /\ PhasesRest(c, s) /\ OthersGoOn(c, s)

(* What is not about the loads and the store. *)
Beside(c) ==
    /\ \A q \in reads' :
          /\ q \in PinnedRead
          /\ q.call = Nothing \/ (q.call # c /\ \E x \in reads : x.call = q.call)
    /\ ~ crossed => \A q \in reads' : q.date \in Mine /\ q.path \in Mine

LEMMA ReadsStayBeside ==
    ASSUME MarketInv, NEW c \in Call, call[c].pc # "pinned", reads' = reads
    PROVE  Beside(c)
    BY OthersRead DEF Beside, MarketInv, DatesOK

Unchosen == published' = published /\ crossed' = crossed /\ chosen' = chosen

LEMMA EndsWell ==
    ASSUME MarketInv, NEW c \in Call, NEW s, Rests(c, s), Right(s), Beside(c), Unchosen,
           store' = s, Ends(c), latest' = latest
    PROVE  MarketInv'
<1>1. Free.pc = "free" /\ Free \in CallState /\ LoadOK(Free) /\ Dated(Free)
      /\ \A r : ~ Loads(Free, r)
    BY CallsAreTyped DEF MarketInv, Free, LoadOK, V2, Waiting, Versioned, Dated, Loads
<1>2. MarketTypeOK
    BY DEF MarketInv
<1>3. CallMoves(c, Free)
    BY <1>1, <1>2 DEF CallMoves, Ends, Becomes, Rests, Stored, Beside, Unchosen, MarketTypeOK
<1>4. DatesMove(c, Free)
    BY <1>1 DEF DatesMove, Right, Beside, Unchosen
<1>5. CoreMoves(c, Free)
    BY <1>1 DEF CoreMoves, Rests, Stored, OthersGoOn, PendingCore
<1>6. PhasesMove(c, Free) /\ SectionsMove(c, Free)
    BY DEF PhasesMove, SectionsMove, Rests, PhasesRest, OthersGoOn
<1> QED
    BY <1>3, <1>4, <1>5, <1>6, LoadsKeepOthers

LEMMA SectionGoesOn ==
    ASSUME MarketInv, NEW c \in Call, NEW s, Rests(c, s), Right(s), Beside(c), Unchosen,
           NEW x \in Section, NEW force \in BOOLEAN, GoOnToSection(c, s, x, force)
    PROVE  MarketInv'
<1> DEFINE k == Ask([Free EXCEPT !.pc = "section", !.of = x], s.coreDate, Nothing)
           open == s.coreDate # Nothing /\ ~ s.loading /\ s.shown # Nothing /\ s.selected = s.coreDate
<1>1. CASE /\ open
           /\ store' = [s EXCEPT !.sectionPhase[x] = Spinner(x \in s.sections)]
           /\ Becomes(c, k)
           /\ latest' = [latest EXCEPT !.section[x] = c]
    <2>1. s \in Store /\ s.coreDate \in Date
        BY <1>1 DEF Rests, Stored, Store
    <2>2. [Free EXCEPT !.pc = "section", !.of = x] \in CallState
        BY CallsAreTyped DEF MarketInv, Free, CallState
    <2>3. k \in CallState
        BY <2>1, <2>2, CallsAreTyped DEF MarketInv
    <2>4. k.pc = "section" /\ k.of = x /\ k.date = s.coreDate
        BY DEF Free, Ask
    <2> HIDE DEF k
    <2>5. LoadOK(k) /\ Dated(k) /\ \A r : ~ Loads(k, r)
        BY <1>1, <2>4 DEF LoadOK, V2, Waiting, Versioned, Dated, Loads
    <2>6. /\ store' \in Store /\ store'.selected = s.selected /\ store'.shown = s.shown
          /\ store'.loading = s.loading /\ store'.mode = s.mode /\ store'.coreDate = s.coreDate
          /\ store'.phase = s.phase
          /\ \A y \in Section \ {x} : store'.sectionPhase[y] = s.sectionPhase[y]
        BY <1>1, <2>1 DEF Store, Spinner, Phase
    <2>7. /\ latest' \in [core : Call \union {Nothing}, section : [Section -> Call \union {Nothing}]]
          /\ latest'.core = latest.core /\ latest'.section[x] = c
          /\ \A y \in Section \ {x} : latest'.section[y] = latest.section[y]
        BY <1>1 DEF MarketInv, MarketTypeOK
    <2>8. CallMoves(c, k)
        BY <1>1, <2>3, <2>5, <2>6, <2>7 DEF CallMoves, Becomes, Beside, Unchosen, MarketInv, MarketTypeOK
    <2>9. DatesMove(c, k)
        BY <2>4, <2>5, <2>6 DEF DatesMove, Right, Beside, Unchosen
    <2>10. CoreMoves(c, k)
        BY <2>4, <2>6, <2>7 DEF CoreMoves, Rests, Stored, OthersGoOn, PendingCore
    <2>11. PhasesMove(c, k)
        BY <2>6 DEF PhasesMove, Rests, PhasesRest
    <2>12. SectionsMove(c, k)
        BY <1>1, <2>4, <2>6, <2>7 DEF SectionsMove, Rests, OthersGoOn
    <2> QED
        BY <2>8, <2>9, <2>10, <2>11, <2>12, LoadsKeepOthers
<1>2. CASE /\ store' = IF open /\ s.sectionPhase[x] = "idle"
                       THEN [s EXCEPT !.sectionPhase[x] = "ready"] ELSE s
           /\ Ends(c) /\ latest' = latest
    <2>1. CASE store' = s
        BY <1>2, <2>1, EndsWell
    <2>2. CASE store' = [s EXCEPT !.sectionPhase[x] = "ready"]
        <3>1. s \in Store
            BY DEF Rests, Stored
        <3>2. /\ store' \in Store /\ store'.selected = s.selected /\ store'.shown = s.shown
              /\ store'.loading = s.loading /\ store'.mode = s.mode /\ store'.coreDate = s.coreDate
              /\ store'.phase = s.phase /\ store'.sectionPhase[x] = "ready"
              /\ \A y \in Section \ {x} : store'.sectionPhase[y] = s.sectionPhase[y]
            BY <2>2, <3>1 DEF Store, Phase
        <3>3. PICK t : t = store'
            OBVIOUS
        <3>4. Rests(c, t) /\ Right(t)
            BY <3>2, <3>3 DEF Rests, Stored, PhasesRest, OthersGoOn, Right, Spinning
        <3> QED BY <1>2, <3>3, <3>4, EndsWell
    <2> QED BY <1>2, <2>1, <2>2
<1> QED
    BY <1>1, <1>2 DEF GoOnToSection

(* A load of core data begins anew whatever is not about other resources. *)
LEMMA CoreGoesOn ==
    ASSUME MarketInv, NEW c \in Call, NEW s, Stored(s), PhasesRest(c, s),
           call[c].pc # "pinned" \/ Beside(c), Beside(c) \/ reads' = reads,
           published' = published, crossed' \in BOOLEAN, chosen' \in Date,
           NEW r \in Resource \union {Nothing}, NEW after \in {"nothing", "shell", "section"},
           after = "section" => r \in Resource,
           GoOnToCore(c, s, r, after)
    PROVE  /\ (Right(s) /\ Beside(c) /\ Unchosen => MarketInv')
           /\ ((~ crossed => DatesOK)' => MarketInv')
<1> DEFINE k == Ask([Free EXCEPT !.pc = "core", !.of = r, !.after = after,
                        !.before = s.shown, !.kept = s.sections], s.selected, Nothing)
<1>1. MarketTypeOK
    BY DEF MarketInv
<1>2. s \in Store /\ s.selected \in Date /\ s.shown \in Shown \union {Nothing} /\ s.sections \in SUBSET Section
    BY DEF Stored, Store
<1>3. [Free EXCEPT !.pc = "core", !.of = r, !.after = after,
                   !.before = s.shown, !.kept = s.sections] \in CallState
    BY <1>1, <1>2, CallsAreTyped DEF CallState
<1>4. k \in CallState
    BY <1>1, <1>2, <1>3, CallsAreTyped
<1>5. /\ k.pc = "core" /\ k.of = r /\ k.after = after /\ k.before = s.shown
      /\ k.date = s.selected /\ k.got = {}
    BY DEF Free, Ask
<1>6. Becomes(c, k) /\ latest' = [core |-> c, section |-> [x \in Section |-> Nothing]]
    BY DEF GoOnToCore
<1> HIDE DEF k
<1>7. LoadOK(k) /\ \A x : ~ Loads(k, x)
    BY <1>2, <1>5, SomethingIsThere DEF LoadOK, V2, Waiting, Loads
<1>8. PICK same \in BOOLEAN : same = (s.shown # Nothing /\ s.shown.asOf = s.selected)
    OBVIOUS
<1>9. store' = [s EXCEPT !.shown = IF same THEN @ ELSE Nothing,
                         !.sections = IF same THEN @ ELSE {},
                         !.sectionPhase = PhasesAnew(s, same),
                         !.coreDate = IF same THEN @ ELSE Nothing,
                         !.loading = TRUE, !.failed = FALSE]
    BY <1>8 DEF GoOnToCore
<1>10. /\ PhasesAnew(s, same) \in [Section -> {"ready", "idle"}]
       /\ PhasesAnew(s, same) \in [Section -> Phase]
    BY DEF PhasesAnew, Phase
<1>11. store' \in Store
    BY <1>2, <1>9, <1>10 DEF Store
<1>12. /\ store'.selected = s.selected /\ store'.shown \in {s.shown, Nothing}
       /\ store'.coreDate \in {s.coreDate, Nothing} /\ store'.mode = s.mode
       /\ store'.phase = s.phase /\ store'.sectionPhase \in [Section -> {"ready", "idle"}]
    BY <1>2, <1>9, <1>10 DEF Store
<1>13. \A q \in reads' : /\ q \in PinnedRead
                         /\ q.call = Nothing \/ (q.call # c /\ \E x \in reads : x.call = q.call)
    BY OthersRead DEF Beside
<1>14. CallMoves(c, k)
    BY <1>1, <1>4, <1>6, <1>7, <1>11, <1>13 DEF CallMoves, Becomes, MarketTypeOK
<1>15. CoreMoves(c, k)
    BY <1>5, <1>6, <1>12 DEF CoreMoves, Stored
<1>16. PhasesMove(c, k) /\ SectionsMove(c, k)
    BY <1>12 DEF PhasesMove, PhasesRest, SectionsMove, Spinning
<1>17. ASSUME Right(s), Beside(c), Unchosen PROVE DatesMove(c, k)
    <2>1. ~ crossed => OfTheDay(s.shown) /\ OfTheDay(Nothing)
        BY <1>17 DEF Right, OfTheDay, OfOneDay
    <2>2. ~ crossed => Dated(k) /\ k.date \in Mine
        BY <1>5, <1>17, <2>1 DEF Dated, Right, OfTheDay, Versioned, OfOneDay
    <2>3. ~ crossed => OfTheDay(store'.shown)
        BY <1>12, <2>1
    <2> QED
        BY <1>12, <1>17, <2>2, <2>3 DEF DatesMove, Right, Beside, Unchosen
<1> QED
    BY <1>14, <1>15, <1>16, <1>17, LoadsKeepOthers

(* The shell is loaded: its answer will stop the spinner. *)
LEMMA ShellGoesOn ==
    ASSUME MarketInv, NEW c \in Call, call[c].pc # "pinned", NEW s, Rests(c, s), reads' = reads,
           published' = published, crossed' \in BOOLEAN, chosen' \in Date,
           NEW force \in BOOLEAN, GoOnToShell(c, s, force)
    PROVE  /\ (Right(s) /\ Unchosen => MarketInv')
           /\ ((~ crossed => DatesOK)' => MarketInv')
<1> DEFINE k == Ask([Free EXCEPT !.pc = "shell", !.force = force], s.selected, Nothing)
<1>1. MarketTypeOK
    BY DEF MarketInv
<1>2. s \in Store /\ s.selected \in Date
    BY DEF Rests, Stored, Store
<1>3. [Free EXCEPT !.pc = "shell", !.force = force] \in CallState
    <2>1. Free \in CallState
        BY <1>1, CallsAreTyped
    <2>2. [Free EXCEPT !.pc = "shell"] \in CallState
        BY <2>1 DEF CallState
    <2> QED
        BY <2>2, Zenon DEF CallState
<1>4. k \in CallState
    BY <1>1, <1>2, <1>3, CallsAreTyped
<1>5. k.pc = "shell" /\ k.date = s.selected
    BY DEF Free, Ask
<1>6. Becomes(c, k) /\ latest' = latest /\ store' = [s EXCEPT !.loading = TRUE, !.failed = FALSE]
    BY DEF GoOnToShell
<1> HIDE DEF k
<1>7. LoadOK(k)
    BY <1>2, <1>5, SomethingIsThere DEF LoadOK, V2, Waiting
<1>8. /\ store' \in Store /\ store'.selected = s.selected /\ store'.shown = s.shown
      /\ store'.coreDate = s.coreDate /\ store'.mode = s.mode
      /\ store'.phase = s.phase /\ store'.sectionPhase = s.sectionPhase
    BY <1>2, <1>6 DEF Store
<1>9. Beside(c)
    BY ReadsStayBeside
<1>10. CallMoves(c, k)
    BY <1>1, <1>4, <1>6, <1>7, <1>8, <1>9 DEF CallMoves, Becomes, MarketTypeOK, Beside
<1>11. CoreMoves(c, k)
    BY <1>5, <1>6, <1>8 DEF CoreMoves, Rests, Stored, OthersGoOn, PendingCore
<1>12. PhasesMove(c, k) /\ SectionsMove(c, k)
    BY <1>6, <1>8 DEF PhasesMove, SectionsMove, Rests, PhasesRest, OthersGoOn
<1>13. ASSUME Right(s), Unchosen PROVE DatesMove(c, k)
    <2>1. ~ crossed => Dated(k)
        BY <1>5, <1>13 DEF Dated, Right
    <2> QED
        BY <1>5, <1>8, <1>9, <1>13, <2>1 DEF DatesMove, Right, Beside, Unchosen
<1> QED
    BY <1>10, <1>11, <1>12, <1>13, LoadsKeepOthers

(* A load of the versioned API goes on with the next request. *)
LEMMA VersionedGoesOn ==
    ASSUME MarketInv, NEW c \in Call, NEW s, Stored(s), OthersGoOn(c, s), Right(s), Unchosen,
           NEW k \in CallState, LoadOK(k), k.pc \in V2,
           store' = s, Becomes(c, k), latest' = latest, PhasesMove(c, k),
           ~ crossed => Dated(k),
           \A q \in reads' :
              /\ q \in PinnedRead
              /\ \/ q.call = Nothing
                 \/ q.call = c /\ k.pc = "pinned"
                 \/ q.call # c /\ \E x \in reads : x.call = q.call,
           ~ crossed => \A q \in reads' : q.date \in Mine /\ q.path \in Mine
    PROVE  MarketInv'
<1>1. MarketTypeOK
    BY DEF MarketInv
<1>2. CallMoves(c, k)
    BY <1>1 DEF CallMoves, Becomes, MarketTypeOK, Unchosen, Stored
<1>3. k.pc # "core" /\ k.pc # "section"
    BY DEF V2
<1>4. CoreMoves(c, k)
    BY <1>3 DEF CoreMoves, Stored, OthersGoOn, PendingCore
<1>5. SectionsMove(c, k)
    BY DEF SectionsMove, OthersGoOn
<1>6. DatesMove(c, k)
    BY <1>3 DEF DatesMove, Right, Unchosen
<1> QED
    BY <1>2, <1>4, <1>5, <1>6, LoadsKeepOthers

(* Most steps change neither date nor mode. *)
NoMore(s, t) ==
    /\ t \in Store
    /\ t.selected = s.selected /\ t.coreDate = s.coreDate /\ t.mode = s.mode
    /\ s.shown # Nothing => t.shown # Nothing
    /\ t.loading => s.loading
    /\ \A r \in Resource : t.phase[r] \in Spinning => s.phase[r] \in Spinning
    /\ \A x \in Section : t.sectionPhase[x] \in Spinning => s.sectionPhase[x] \in Spinning

LEMMA RestsAfter ==
    ASSUME MarketInv, NEW c \in Call, NEW t, NoMore(store, t),
           t.loading => call[c].pc # "shell" /\ ~ PendingCore(c),
           \A r \in Resource : Loads(call[c], r) => t.phase[r] \notin Spinning,
           \A x \in Section : latest.section[x] = c /\ Fetches(call[c], x) => t.sectionPhase[x] \notin Spinning
    PROVE  Rests(c, t)
<1>1. Stored(t)
    BY DEF NoMore, Stored, MarketInv, SpinnersOK, CoreOK
<1>2. PhasesRest(c, t)
    BY DEF PhasesRest, NoMore
<1>3. OthersGoOn(c, t)
    <2>1. \A x \in Section : SectionOK(x)
        BY DEF MarketInv, SpinnersOK
    <2> QED
        BY <2>1 DEF OthersGoOn, NoMore, SectionOK
<1> QED
    BY <1>1, <1>2, <1>3 DEF Rests

LEMMA StoreIsRight ==
    ASSUME MarketInv PROVE Right(store)
    BY DEF MarketInv, DatesOK, Right

LEMMA PagesGoOn ==
    ASSUME MarketInv, NEW c \in Call, NEW s, Stored(s), OthersGoOn(c, s), Right(s), Beside(c), Unchosen,
           NEW state \in CallState, state.of \in Resource, Paged[state.of] # Nothing,
           \A r \in Resource : s.phase[r] \in Spinning =>
              \/ r = state.of /\ r # Group /\ ~ state.force
              \/ store.phase[r] \in Spinning /\ ~ Loads(call[c], r),
           store' = s, GoOnToPages(c, s, state)
    PROVE  MarketInv'
<1> DEFINE j == [state EXCEPT !.pc = "page", !.got = {}]
           k == Ask(j, s.selected, s.revision)
<1>1. s.selected \in Date /\ s.revision \in Stamp \union {Nothing}
    BY DEF Stored, Store
<1>2. j \in CallState
    BY DEF CallState
<1>3. k \in CallState
    BY <1>1, <1>2, CallsAreTyped DEF MarketInv
<1>4. j.pc = "page" /\ j.of = state.of /\ j.force = state.force
    BY DEF CallState
<1>5. k.pc = "page" /\ k.of = state.of /\ k.force = state.force /\ k.date = s.selected
    BY <1>2, <1>4 DEF Ask, CallState
<1>6. Becomes(c, k) /\ latest' = latest
    BY DEF GoOnToPages
<1> HIDE DEF k
<1>7. LoadOK(k)
    BY <1>1, <1>5, SomethingIsThere DEF LoadOK, V2, Waiting
<1>8. PhasesMove(c, k)
    BY <1>5 DEF PhasesMove, Loads
<1>9. ~ crossed => Dated(k)
    BY <1>5 DEF Dated, Right
<1> QED
    BY <1>3, <1>5, <1>6, <1>7, <1>8, <1>9, VersionedGoesOn DEF V2, Beside

(* Nothing but the reader's history is lost when a restart is broken off.  *)
LEMMA BreakingOff ==
    ASSUME NEW s \in Store, NEW state
    PROVE  LET b == BrokenOff(s, state) IN
           /\ b \in Store /\ b.selected = s.selected /\ b.mode = s.mode /\ b.revision = s.revision
           /\ b.shown = s.shown /\ b.loading = s.loading /\ b.phase = s.phase
           /\ b.sectionPhase = s.sectionPhase /\ b.coreDate = s.coreDate
           /\ b.history = s.history /\ b.lost = (s.lost \/ Restarting(state))
<1>1. PICK l \in BOOLEAN : l = (s.lost \/ Restarting(state))
    BY DEF Store
<1>2. BrokenOff(s, state) = [s EXCEPT !.lost = l]
    BY <1>1 DEF BrokenOff
<1> QED
    BY <1>1, <1>2 DEF Store

LEMMA LossesRest ==
    ASSUME MarketInv, NEW c \in Call, NEW s, Rests(c, s), Right(s), NEW state
    PROVE  LET b == BrokenOff(s, state) IN Rests(c, b) /\ Right(b)
<1>1. PICK b : b = BrokenOff(s, state)
    OBVIOUS
<1>2. s \in Store
    BY DEF Rests, Stored
<1>3. /\ b \in Store /\ b.selected = s.selected /\ b.mode = s.mode
      /\ b.shown = s.shown /\ b.loading = s.loading /\ b.phase = s.phase
      /\ b.sectionPhase = s.sectionPhase /\ b.coreDate = s.coreDate
    BY <1>1, <1>2, BreakingOff
<1>4. Rests(c, b) /\ Right(b)
    BY <1>3 DEF Rests, Stored, PhasesRest, OthersGoOn, Right
<1> QED
    BY <1>1, <1>4

LEMMA HistoryGoesOn ==
    ASSUME MarketInv, NEW c \in Call, NEW s, Rests(c, s), Right(s), Beside(c), Unchosen,
           NEW state \in CallState, state.of = Group, GoOnToHistory(c, s, state)
    PROVE  MarketInv'
<1>1. CASE ~ (s.mode = "v2" /\ s.shown # Nothing /\ s.revision # Nothing)
    <2>1. PICK t : t = BrokenOff(s, state)
        OBVIOUS
    <2>2. Rests(c, t) /\ Right(t)
        BY <2>1, LossesRest
    <2> QED
        BY <1>1, <2>1, <2>2, EndsWell DEF GoOnToHistory
<1>2. CASE s.mode = "v2" /\ s.shown # Nothing /\ s.revision # Nothing
    <2>1. PICK again \in BOOLEAN : again = (s.shown.part[Paged[Group]] # Nothing)
        OBVIOUS
    <2>2. PICK t : t = [s EXCEPT !.history = Spinner(again), !.lost = FALSE]
        OBVIOUS
    <2>3. store' = t /\ GoOnToPages(c, s, state)
        BY <1>2, <2>1, <2>2 DEF GoOnToHistory
    <2>4. s \in Store
        BY DEF Rests, Stored
    <2>5. /\ t \in Store /\ t.selected = s.selected /\ t.revision = s.revision /\ t.shown = s.shown
          /\ t.coreDate = s.coreDate /\ t.mode = s.mode /\ t.loading = s.loading
          /\ t.phase = s.phase /\ t.sectionPhase = s.sectionPhase
        BY <2>2, <2>4 DEF Store, Spinner, Phase
    <2>6. Stored(t) /\ OthersGoOn(c, t) /\ Right(t) /\ PhasesRest(c, t)
        BY <2>5 DEF Rests, Stored, OthersGoOn, Right, PhasesRest
    <2>7. GoOnToPages(c, t, state)
        BY <2>3, <2>5 DEF GoOnToPages
    <2>8. state.of \in Resource /\ Paged[state.of] # Nothing
        BY MarketAssumption
    <2> QED
        BY <2>3, <2>6, <2>7, <2>8, PagesGoOn DEF PhasesRest
<1> QED
    BY <1>1, <1>2

(* The store, or the requests that are awaited, change while every load    *)
(* stays where it is.                                                      *)
LEMMA LoadsStay ==
    ASSUME MarketInv, call' = call, latest' = latest, Unchosen, NEW s, store' = s,
           NoMore(store, s), s.loading = store.loading, Right(s),
           \A q \in reads' : q \in PinnedRead /\ \E x \in reads : x.call = q.call,
           ~ crossed => \A q \in reads' : q.date \in Mine /\ q.path \in Mine
    PROVE  MarketInv'
<1>1. MarketTypeOK'
    <2>1. reads' \subseteq PinnedRead
        OBVIOUS
    <2> QED
        BY <2>1 DEF MarketInv, MarketTypeOK, NoMore, Unchosen, PinnedRead
<1>2. (\A c \in Call : LoadOK(call[c]))' /\ (\A q \in reads : ReadOK(q))'
    BY DEF MarketInv, LoadOK, ReadOK
<1>3. ASSUME ~ crossed PROVE DatesOK'
    <2>1. DatesOK
        BY <1>3 DEF MarketInv
    <2>2. Mine' = Mine
        BY DEF Mine, Unchosen
    <2>3. \A c \in Call : Dated(call[c])'
        BY <2>1, <2>2 DEF DatesOK, Dated, OfOneDay, Unchosen
    <2>4. OfTheDay(store.shown)'
        BY <1>3 DEF Right, OfTheDay, OfOneDay, Unchosen
    <2> QED
        BY <1>3, <2>1, <2>2, <2>3, <2>4 DEF DatesOK, Right, PendingCore
<1>4. CoreOK'
    BY DEF MarketInv, SpinnersOK, CoreOK, NoMore, PendingCore
<1>5. ASSUME NEW r \in Resource, store'.phase[r] \in Spinning
      PROVE  \E c \in Call : Loads(call'[c], r)
    BY <1>5 DEF NoMore, MarketInv, SpinnersOK
<1>6. ASSUME NEW x \in Section PROVE SectionOK(x)'
    <2>1. SectionOK(x)
        BY DEF MarketInv, SpinnersOK
    <2> QED
        BY <2>1 DEF SectionOK, NoMore, Fetches
<1>7. SpinnersOK'
    BY <1>4, <1>5, <1>6 DEF SpinnersOK, Loads
<1> QED
    BY <1>1, <1>2, <1>3, <1>7 DEF MarketInv, Unchosen

-----------------------------------------------------------------------------
(* The legacy API answers. *)

LEMMA SectionsArrive ==
    ASSUME MarketInv, NEW c \in Call, SectionArrives(c)
    PROVE  MarketInv'
<1>1. /\ call[c].pc = "section" /\ call[c].of \in Section /\ call[c].date \in Date
      /\ \A r : ~ Loads(call[c], r) /\ ~ PendingCore(c)
    <2>1. call[c] \in CallState /\ LoadOK(call[c])
        BY MarketTyped DEF MarketInv
    <2> QED
        BY <2>1 DEF SectionArrives, CallAt, LoadOK, Waiting, CallState, Loads, PendingCore
<1>2. /\ Ends(c) /\ latest' = latest /\ Unchosen /\ Beside(c)
    BY <1>1, ReadsStayBeside DEF SectionArrives, Unchosen
<1>3. store \in Store /\ Right(store)
    BY StoreIsRight DEF MarketInv, MarketTypeOK
<1>4. ASSUME NEW t, store' = t, NoMore(store, t), Right(t),
             latest.section[call[c].of] = c /\ Fetches(call[c], call[c].of) =>
                t.sectionPhase[call[c].of] \notin Spinning
      PROVE  MarketInv'
    <2>1. Rests(c, t)
        BY <1>1, <1>4, RestsAfter DEF Fetches
    <2> QED
        BY <1>2, <1>4, <2>1, EndsWell
<1>5. NoMore(store, store)
    BY <1>3 DEF NoMore
<1>6. CASE ~ CurrentSection(c) /\ store' = store
    BY <1>1, <1>3, <1>4, <1>5, <1>6 DEF CurrentSection, Fetches
<1>7. CASE store' = [store EXCEPT !.sectionPhase[call[c].of] = "error"]
    <2>1. PICK t : t = [store EXCEPT !.sectionPhase[call[c].of] = "error"]
        OBVIOUS
    <2>2. NoMore(store, t) /\ t.shown = store.shown /\ t.sectionPhase[call[c].of] = "error"
        BY <1>1, <1>3, <2>1 DEF NoMore, Store, Phase, Spinning
    <2>3. Right(t)
        BY <1>3, <2>2 DEF Right, NoMore
    <2> QED
        BY <1>4, <1>7, <2>1, <2>2, <2>3 DEF Spinning
<1>8. CASE CurrentSection(c) /\ store.shown = Nothing /\ store' = store
    <2>1. CASE store.mode = "v2"
        <3>1. Rests(c, store)
            <4>1. Stored(store)
                BY DEF Stored, MarketInv, MarketTypeOK, SpinnersOK, CoreOK
            <4> QED
                BY <1>1, <2>1, <4>1 DEF Rests, PhasesRest, OthersGoOn
        <3>2. PICK t : t = store
            OBVIOUS
        <3> QED
            BY <1>2, <1>3, <1>8, <3>1, <3>2, EndsWell
    <2>2. CASE store.mode # "v2"
        <3>1. SectionOK(call[c].of)
            BY <1>1 DEF MarketInv, SpinnersOK
        <3> QED
            BY <1>3, <1>4, <1>5, <1>8, <2>2, <3>1 DEF SectionOK
    <2> QED
        BY <2>1, <2>2
<1>9. ASSUME CurrentSection(c), store.shown # Nothing, store.shown.asOf = call[c].date,
             NEW more \in SUBSET Section, store' = Merge(store, c, more)
      PROVE  MarketInv'
    <2> DEFINE stamps == {<<p, <<call[c].date, published[call[c].date]>>>> :
                              p \in PartsOf({call[c].of} \union more)}
               e == Evidence(store, stamps)
    <2>1. stamps \in SUBSET (Part \X (Stamp \union {Nothing}))
        <3>1. published[call[c].date] \in 0 .. MaxPublish
            BY <1>1, MarketTyped DEF MarketInv
        <3> QED
            BY <1>1, <3>1, PartsOfSections DEF Stamp
    <2>2. /\ e \in Store /\ e.shown # Nothing /\ e.shown.asOf = store.shown.asOf
          /\ \A p \in Part : \/ e.shown.part[p] = store.shown.part[p]
                             \/ \E x \in stamps : e.shown.part[p] = x[2]
          /\ e = [store EXCEPT !.shown = e.shown]
        BY <1>3, <1>9, <2>1, EvidenceGoesIn
    <2>3. \A x \in stamps : x[2][1] = store.shown.asOf
        BY <1>9
    <2>4. PICK f : f = e
        OBVIOUS
    <2>5. Merge(store, c, more) = [f EXCEPT !.sections = @ \union {call[c].of} \union more,
                                            !.sectionPhase[call[c].of] = "ready"]
        BY <2>4 DEF Merge
    <2>6. /\ f \in Store /\ f.shown # Nothing /\ f.shown.asOf = store.shown.asOf
          /\ \A p \in Part : \/ f.shown.part[p] = store.shown.part[p]
                             \/ f.shown.part[p][1] = store.shown.asOf
          /\ f = [store EXCEPT !.shown = f.shown]
        BY <2>2, <2>3, <2>4
    <2> HIDE DEF e, stamps
    <2>7. PICK t : t = Merge(store, c, more)
        OBVIOUS
    <2>8. /\ f.selected = store.selected /\ f.coreDate = store.coreDate /\ f.mode = store.mode
          /\ f.loading = store.loading /\ f.phase = store.phase /\ f.sectionPhase = store.sectionPhase
        BY <1>3, <2>6 DEF Store
    <2>9. /\ NoMore(store, t) /\ t.shown = f.shown /\ t.sectionPhase[call[c].of] = "ready"
        <3>1. PICK all \in SUBSET Section : all = f.sections \union {call[c].of} \union more
            BY <1>1, <2>6 DEF Store
        <3>2. t = [f EXCEPT !.sections = all, !.sectionPhase[call[c].of] = "ready"]
            BY <2>5, <2>7, <3>1
        <3>3. /\ t \in Store /\ t.shown = f.shown /\ t.selected = f.selected
              /\ t.coreDate = f.coreDate /\ t.mode = f.mode /\ t.loading = f.loading
              /\ t.phase = f.phase /\ t.sectionPhase[call[c].of] = "ready"
              /\ \A x \in Section \ {call[c].of} : t.sectionPhase[x] = f.sectionPhase[x]
            BY <1>1, <2>6, <3>2 DEF Store, Phase
        <3> QED
            BY <2>6, <2>8, <3>3 DEF NoMore, Spinning
    <2>10. Right(t)
        <3>1. ~ crossed => store.shown.asOf = Effective[chosen] /\ OfOneDay(store.shown)
            BY <1>3, <1>9 DEF Right, OfTheDay
        <3>2. OfOneDay(store.shown) => OfOneDay(f.shown)
            BY <1>9, <2>6 DEF OfOneDay
        <3> QED
            BY <1>3, <2>6, <2>9, <3>1, <3>2 DEF Right, OfTheDay, NoMore
    <2> QED
        BY <1>4, <1>9, <2>7, <2>9, <2>10 DEF Spinning
<1> QED
    BY <1>6, <1>7, <1>8, <1>9 DEF SectionArrives

LEMMA AfterCoreGoesOn ==
    ASSUME MarketInv, NEW c \in Call, call[c].pc = "core", NEW s, Rests(c, s), Right(s), Unchosen,
           reads' = reads, AfterCore(c, s)
    PROVE  MarketInv'
<1>1. Beside(c)
    BY ReadsStayBeside
<1>2. call[c] \in CallState /\ LoadOK(call[c])
    BY MarketTyped DEF MarketInv
<1>3. CASE call[c].after = "section"
    <2>1. SectionOf[call[c].of] \in Section
        BY <1>2, <1>3 DEF LoadOK, Section
    <2> QED
        BY <1>1, <1>3, <2>1, SectionGoesOn DEF AfterCore
<1>4. CASE call[c].after = "shell"
    <2>1. PICK t : t = [s EXCEPT !.loading = FALSE]
        OBVIOUS
    <2>2. s \in Store
        BY DEF Rests, Stored
    <2>3. /\ t \in Store /\ t.selected = s.selected /\ t.shown = s.shown /\ t.loading = FALSE
          /\ t.coreDate = s.coreDate /\ t.mode = s.mode
          /\ t.phase = s.phase /\ t.sectionPhase = s.sectionPhase
        BY <2>1, <2>2 DEF Store
    <2>4. Rests(c, t) /\ Right(t)
        BY <2>3 DEF Rests, Stored, PhasesRest, OthersGoOn, Right
    <2> QED
        BY <1>1, <1>4, <2>1, <2>4, EndsWell DEF AfterCore
<1>5. CASE call[c].after = "nothing"
    BY <1>1, <1>5, EndsWell DEF AfterCore
<1> QED
    BY <1>2, <1>3, <1>4, <1>5 DEF CallState

LEMMA RetainedIsOfOneDay ==
    ASSUME MarketInv, NEW c \in Call, call[c].pc = "core", NEW d \in Date
    PROVE  /\ Retain(c, d) \in Shown /\ Retain(c, d).asOf = d
           /\ OfOneDay(call[c].before) => OfOneDay(Retain(c, d))
<1> DEFINE b == call[c].before
           part == [p \in Part |-> IF b # Nothing /\ b.asOf = d /\ p \in PartsOf(call[c].kept)
                                   THEN b.part[p] ELSE Nothing]
<1>1. Retain(c, d) = [asOf |-> d, part |-> part]
    BY DEF Retain
<1>2. b \in Shown \union {Nothing}
    BY MarketTyped DEF MarketInv, CallState
<1>3. part \in [Part -> Stamp \union {Nothing}]
    BY <1>2 DEF Shown
<1>4. OfOneDay(b) => \A p \in Part : part[p] # Nothing => part[p][1] = d
    BY DEF OfOneDay
<1> HIDE DEF part
<1> QED
    BY <1>1, <1>3, <1>4 DEF Shown, OfOneDay

LEMMA CoresArrive ==
    ASSUME MarketInv, NEW c \in Call, CoreArrives(c)
    PROVE  MarketInv'
<1> DEFINE d == Effective[call[c].date]
<1>1. /\ call[c].pc = "core" /\ call[c].date \in Date /\ d \in Date
      /\ \A r : ~ Loads(call[c], r)
      /\ \A x : ~ Fetches(call[c], x)
    <2>1. call[c] \in CallState /\ LoadOK(call[c])
        BY MarketTyped DEF MarketInv
    <2> QED
        BY <2>1, MarketAssumption DEF CoreArrives, CallAt, LoadOK, Waiting, CallState, Loads, Fetches
<1>2. Unchosen /\ reads' = reads
    BY DEF CoreArrives, Unchosen
<1>3. store \in Store /\ Right(store)
    BY StoreIsRight DEF MarketInv, MarketTypeOK
<1>4. CASE ~ CurrentCore(c) /\ AfterCore(c, store)
    <2>1. PICK t : t = store
        OBVIOUS
    <2>2. NoMore(store, t) /\ ~ PendingCore(c)
        BY <1>3, <1>4, <2>1 DEF NoMore, CurrentCore, PendingCore
    <2>3. Rests(c, t)
        BY <1>1, <2>2, RestsAfter
    <2> QED
        BY <1>1, <1>2, <1>3, <1>4, <2>1, <2>3, AfterCoreGoesOn
<1>5. CASE AfterCore(c, [store EXCEPT !.failed = TRUE, !.loading = FALSE])
    <2>1. PICK t : t = [store EXCEPT !.failed = TRUE, !.loading = FALSE]
        OBVIOUS
    <2>2. NoMore(store, t) /\ t.shown = store.shown /\ t.loading = FALSE
        BY <1>3, <2>1 DEF NoMore, Store
    <2>3. Rests(c, t) /\ Right(t)
        BY <1>1, <1>3, <2>2, RestsAfter DEF Right, NoMore
    <2> QED
        BY <1>1, <1>2, <1>5, <2>1, <2>3, AfterCoreGoesOn
<1>6. CASE /\ CurrentCore(c)
           /\ AfterCore(c, [store EXCEPT !.shown = Retain(c, d), !.selected = d,
                                         !.coreDate = d, !.loading = FALSE])
    <2>1. PICK t : t = [store EXCEPT !.shown = Retain(c, d), !.selected = d,
                                     !.coreDate = d, !.loading = FALSE]
        OBVIOUS
    <2>2. Retain(c, d) \in Shown /\ Retain(c, d).asOf = d /\ Retain(c, d) # Nothing
          /\ (OfOneDay(call[c].before) => OfOneDay(Retain(c, d)))
        BY <1>1, RetainedIsOfOneDay, SomethingIsThere
    <2>3. /\ t \in Store /\ t.shown = Retain(c, d) /\ t.selected = d /\ t.coreDate = d
          /\ t.loading = FALSE /\ t.mode = store.mode /\ t.phase = store.phase
          /\ t.sectionPhase = store.sectionPhase
        BY <1>1, <1>3, <2>1, <2>2 DEF Store
    <2>4. Effective[d] = d /\ PendingCore(c)
        BY <1>1, <1>6, MarketAssumption DEF CurrentCore, PendingCore
    <2>5. Right(t)
        <3>1. ~ crossed => call[c].date \in Mine /\ OfOneDay(call[c].before)
            BY <1>1, <2>4 DEF MarketInv, DatesOK, Dated
        <3>2. chosen \in Date
            BY MarketTyped DEF MarketInv
        <3>3. ~ crossed => d = Effective[chosen]
            BY <3>1, <3>2, MarketAssumption DEF Mine
        <3> QED
            BY <2>2, <2>3, <3>1, <3>3 DEF Right, OfTheDay, Mine
    <2>6. PhasesRest(c, t) /\ Stored(t)
        BY <1>1, <2>3, <2>4 DEF PhasesRest, Stored
    <2>7. OthersGoOn(c, t)
        <3>1. \A x \in Section : SectionOK(x)
            BY DEF MarketInv, SpinnersOK
        <3>2. store.mode # "v2" => call[c].date = store.selected
            BY <2>4 DEF MarketInv, SpinnersOK, CoreOK
        <3>3. store.coreDate # Nothing => Effective[store.coreDate] = store.coreDate
            BY DEF MarketInv, SpinnersOK, CoreOK
        <3>4. \A x \in Section : t.mode # "v2" /\ t.sectionPhase[x] \in Spinning => d = store.coreDate /\ d # Nothing
            BY <2>3, <3>1, <3>2, <3>3 DEF SectionOK
        <3> QED
            BY <1>1, <2>2, <2>3, <2>4, <3>4 DEF OthersGoOn
    <2> QED
        BY <1>1, <1>2, <1>6, <2>1, <2>5, <2>6, <2>7, AfterCoreGoesOn DEF Rests
<1> QED
    BY <1>4, <1>5, <1>6 DEF CoreArrives

-----------------------------------------------------------------------------
(* The versioned API answers. *)

LEMMA TradingDay ==
    ASSUME chosen \in Date, NEW d \in Mine, Effective[d] = d
    PROVE  d = Effective[chosen]
    BY MarketAssumption DEF Mine

LEMMA BareIsOfOneDay ==
    ASSUME NEW d \in Date
    PROVE  Bare(d) \in Shown /\ Bare(d) # Nothing /\ Bare(d).asOf = d /\ OfOneDay(Bare(d))
<1>1. Bare(d).asOf = d /\ \A p \in Part : Bare(d).part[p] = Nothing
    BY DEF Bare
<1> QED
    BY <1>1, SomethingIsThere DEF OfOneDay

LEMMA OverviewShows ==
    ASSUME NEW s \in Store, NEW d \in Date, NEW n \in 0 .. MaxPublish
    PROVE  LET o == Overview(s, d, n) IN
           /\ o \in Store /\ o.shown = Bare(d)
           /\ o.selected = s.selected /\ o.coreDate = s.coreDate /\ o.mode = s.mode
           /\ o.loading = s.loading /\ o.phase = s.phase /\ o.sectionPhase = s.sectionPhase
           /\ o.revision = <<d, n>>
<1>1. <<d, n>> \in Stamp /\ Bare(d) \in Shown
    BY BareIsOfOneDay DEF Stamp
<1> QED
    BY <1>1 DEF Overview, Store

LEMMA UnloadedIsQuiet ==
    ASSUME NEW s \in Store, NEW h \in Phase
    PROVE  LET u == [Unloaded(s) EXCEPT !.history = h] IN
           /\ u \in Store /\ u.shown = s.shown /\ u.revision = s.revision
           /\ u.selected = s.selected /\ u.coreDate = s.coreDate /\ u.mode = s.mode
           /\ u.loading = s.loading /\ u.sectionPhase = s.sectionPhase
           /\ \A r \in Resource : u.phase[r] = "idle"
<1>1. NoPhases \in [Resource -> Phase] /\ \A r \in Resource : NoPhases[r] = "idle"
    BY DEF NoPhases, Phase
<1> HIDE DEF NoPhases
<1> QED
    BY <1>1 DEF Unloaded, Store

LEMMA ShellsArrive ==
    ASSUME MarketInv, NEW c \in Call, ShellArrives(c)
    PROVE  MarketInv'
<1> DEFINE d == call[c].date
<1>1. call[c].pc = "shell" /\ d \in Date /\ ~ PendingCore(c) /\ \A r : ~ Loads(call[c], r)
      /\ \A x : ~ Fetches(call[c], x)
    <2>1. call[c] \in CallState /\ LoadOK(call[c])
        BY MarketTyped DEF MarketInv
    <2>2. call[c].pc = "shell"
        BY DEF ShellArrives, CallAt
    <2> QED
        <3>1. d \in Date
            BY <2>1, <2>2 DEF LoadOK, Waiting, Versioned, CallState
        <3>2. \A r : ~ Loads(call[c], r)
            BY <2>2 DEF Loads
        <3>3. ~ PendingCore(c) /\ \A x : ~ Fetches(call[c], x)
            BY <2>2 DEF PendingCore, Fetches
        <3> QED
            BY <2>2, <3>1, <3>2, <3>3
<1>2. Unchosen /\ reads' = reads
    BY DEF ShellArrives, Unchosen
<1>3. Beside(c) /\ store \in Store /\ Right(store)
    BY <1>1, <1>2, ReadsStayBeside, StoreIsRight DEF MarketInv, MarketTypeOK
<1>4. ASSUME NEW n \in 0 .. MaxPublish, Reads(call[c], n), NEW t \in Store,
             t.shown = Bare(d), \A r \in Resource : t.phase[r] \in Spinning => store.phase[r] \in Spinning,
             store' = [t EXCEPT !.mode = "v2", !.coreDate = d, !.selected = d, !.loading = FALSE],
             Ends(c), latest' = latest
      PROVE  MarketInv'
    <2>1. PICK u : u = store'
        OBVIOUS
    <2>2. /\ u \in Store /\ u.shown = Bare(d) /\ u.mode = "v2" /\ u.coreDate = d /\ u.selected = d
          /\ u.loading = FALSE /\ u.phase = t.phase
        BY <1>1, <1>4, <2>1 DEF Store
    <2>3. Effective[d] = d
        BY <1>4 DEF Reads, Answerable
    <2>4. Rests(c, u)
        BY <1>1, <1>4, <2>2, <2>3 DEF Rests, Stored, PhasesRest, OthersGoOn
    <2>5. Right(u)
        <3>1. ~ crossed => d \in Mine
            BY <1>1 DEF MarketInv, DatesOK, Dated, Versioned
        <3>2. ~ crossed => d = Effective[chosen]
            BY <2>3, <3>1, TradingDay, MarketTyped DEF MarketInv
        <3> QED
            BY <1>1, <2>2, <3>1, <3>2, BareIsOfOneDay DEF Right, OfTheDay
    <2> QED
        BY <1>2, <1>3, <1>4, <2>1, <2>4, <2>5, EndsWell
<1>5. ASSUME NEW n \in 0 .. MaxPublish, Reads(call[c], n),
             LET s == Overview(store, d, n)
                 t == IF call[c].force THEN [Unloaded(s) EXCEPT !.history = "idle"] ELSE s IN
             store' = [t EXCEPT !.mode = "v2", !.coreDate = d, !.selected = d, !.loading = FALSE],
             Ends(c), latest' = latest
      PROVE  MarketInv'
    <2>1. PICK s : s = Overview(store, d, n)
        OBVIOUS
    <2>2. s \in Store /\ s.shown = Bare(d) /\ s.phase = store.phase
        BY <1>1, <1>3, <1>5, <2>1, OverviewShows
    <2>3. CASE call[c].force
        <3>1. PICK t : t = [Unloaded(s) EXCEPT !.history = "idle"]
            OBVIOUS
        <3>2. t \in Store /\ t.shown = Bare(d) /\ \A r \in Resource : t.phase[r] = "idle"
            BY <2>2, <3>1, UnloadedIsQuiet DEF Phase
        <3> QED
            BY <1>4, <1>5, <2>1, <2>3, <3>1, <3>2 DEF Spinning
    <2>4. CASE ~ call[c].force
        BY <1>4, <1>5, <2>1, <2>2, <2>4
    <2> QED
        BY <2>3, <2>4
<1>6. CASE /\ store' = [store EXCEPT !.mode = "v2", !.revision = Nothing, !.shown = Nothing,
                                     !.failed = TRUE, !.loading = FALSE]
           /\ Ends(c) /\ latest' = latest
    <2>1. PICK u : u = store'
        OBVIOUS
    <2>2. /\ u \in Store /\ u.shown = Nothing /\ u.mode = "v2" /\ u.coreDate = store.coreDate
          /\ u.selected = store.selected /\ u.loading = FALSE /\ u.phase = store.phase
        BY <1>3, <1>6, <2>1 DEF Store
    <2>3. Rests(c, u)
        BY <1>1, <2>2 DEF Rests, Stored, PhasesRest, OthersGoOn, MarketInv, SpinnersOK, CoreOK
    <2>4. Right(u)
        BY <1>3, <2>2 DEF Right, OfTheDay
    <2> QED
        BY <1>2, <1>3, <1>6, <2>1, <2>3, <2>4, EndsWell
<1>7. CASE GoOnToCore(c, [store EXCEPT !.mode = "legacy"], Nothing, "shell")
    <2>1. PICK s : s = [store EXCEPT !.mode = "legacy"]
        OBVIOUS
    <2>2. /\ s \in Store /\ s.coreDate = store.coreDate /\ s.phase = store.phase
          /\ s.selected = store.selected /\ s.shown = store.shown
        BY <1>3, <2>1 DEF Store
    <2>3. Stored(s) /\ PhasesRest(c, s) /\ Right(s)
        BY <1>1, <1>3, <2>2 DEF Stored, PhasesRest, Right, MarketInv, SpinnersOK, CoreOK
    <2>4. published' = published /\ crossed' \in BOOLEAN /\ chosen' \in Date
        BY <1>2 DEF Unchosen, MarketInv, MarketTypeOK
    <2> QED
        BY <1>2, <1>3, <1>7, <2>1, <2>3, <2>4, CoreGoesOn
<1> QED
    BY <1>5, <1>6, <1>7 DEF ShellArrives

(* What has been read of one resource is shown. *)
LEMMA EvidenceIsRight ==
    ASSUME MarketInv, NEW stamps \in SUBSET (Part \X (Stamp \union {Nothing})),
           ~ crossed => \A x \in stamps : x[2] # Nothing => x[2][1] = Effective[chosen]
    PROVE  LET e == Evidence(store, stamps) IN
           /\ e \in Store /\ Right(e)
           /\ e.shown = Nothing <=> store.shown = Nothing
           /\ e.selected = store.selected /\ e.coreDate = store.coreDate /\ e.mode = store.mode
           /\ e.loading = store.loading /\ e.phase = store.phase
           /\ e.sectionPhase = store.sectionPhase
<1> DEFINE e == Evidence(store, stamps)
<1>1. store \in Store /\ Right(store)
    BY StoreIsRight DEF MarketInv, MarketTypeOK
<1>2. /\ e \in Store
      /\ e.shown = Nothing <=> store.shown = Nothing
      /\ store.shown # Nothing =>
            /\ e.shown.asOf = store.shown.asOf
            /\ \A p \in Part : \/ e.shown.part[p] = store.shown.part[p]
                               \/ \E x \in stamps : e.shown.part[p] = x[2]
      /\ e = [store EXCEPT !.shown = e.shown]
    BY <1>1, EvidenceGoesIn
<1>3. PICK f : f = e
    OBVIOUS
<1> HIDE DEF e
<1>4. /\ f.selected = store.selected /\ f.coreDate = store.coreDate /\ f.mode = store.mode
      /\ f.loading = store.loading /\ f.phase = store.phase /\ f.sectionPhase = store.sectionPhase
    BY <1>1, <1>2, <1>3 DEF Store
<1>5. Right(f)
    <2> SUFFICES ASSUME ~ crossed, f.shown # Nothing PROVE f.shown.asOf = Effective[chosen] /\ OfOneDay(f.shown)
        BY <1>1, <1>4 DEF Right, OfTheDay
    <2>1. store.shown # Nothing /\ store.shown.asOf = Effective[chosen] /\ OfOneDay(store.shown)
        BY <1>1, <1>2, <1>3 DEF Right, OfTheDay
    <2>2. ASSUME NEW p \in Part, f.shown.part[p] # Nothing
          PROVE  f.shown.part[p][1] = Effective[chosen]
        <3>1. CASE f.shown.part[p] = store.shown.part[p]
            BY <2>1, <2>2, <3>1 DEF OfOneDay
        <3>2. CASE \E x \in stamps : f.shown.part[p] = x[2]
            BY <2>2, <3>2
        <3> QED
            BY <1>2, <1>3, <2>1, <3>1, <3>2
    <2> QED
        BY <1>2, <1>3, <2>1, <2>2 DEF OfOneDay
<1> QED
    BY <1>2, <1>3, <1>4, <1>5 DEF e

LEMMA LoadedIsReady ==
    ASSUME NEW s \in Store, NEW r \in Resource
    PROVE  LET l == Loaded(s, r) IN
           /\ l \in Store /\ l.shown = s.shown /\ l.revision = s.revision
           /\ l.selected = s.selected /\ l.coreDate = s.coreDate /\ l.mode = s.mode
           /\ l.loading = s.loading /\ l.sectionPhase = s.sectionPhase
           /\ l.phase[r] = "ready" /\ \A x \in Resource \ {r} : l.phase[x] = s.phase[x]
<1>1. PICK loaded \in SUBSET Resource : loaded = s.loaded \union {r}
    BY DEF Store
<1>2. PICK sections \in SUBSET Section : sections = s.sections \union {SectionOf[r]}
    BY DEF Store, Section
<1>3. Loaded(s, r) = [s EXCEPT !.loaded = loaded, !.phase[r] = "ready", !.sections = sections]
    BY <1>1, <1>2 DEF Loaded
<1>4. PICK phase \in [Resource -> Phase] : phase = [s.phase EXCEPT ![r] = "ready"]
    BY DEF Store, Phase
<1>5. Loaded(s, r) = [s EXCEPT !.loaded = loaded, !.phase = phase, !.sections = sections]
    BY <1>3, <1>4
<1>6. phase[r] = "ready" /\ \A x \in Resource \ {r} : phase[x] = s.phase[x]
    BY <1>4 DEF Store
<1> QED
    BY <1>5, <1>6 DEF Store

(* All parts of a resource have come. *)
LEMMA CommitsGoOn ==
    ASSUME MarketInv, NEW c \in Call, call[c].pc = "pinned", Beside(c), Unchosen,
           NEW got \in SUBSET (Part \X Stamp),
           ~ crossed => \A x \in got : x[2][1] = Effective[chosen],
           Commit(c, got)
    PROVE  MarketInv'
<1> DEFINE r == call[c].of
<1>1. call[c] \in CallState /\ r \in Resource /\ ~ PendingCore(c)
      /\ \A x : ~ Fetches(call[c], x)
    BY MarketTyped DEF MarketInv, LoadOK, V2, PendingCore, Fetches
<1>2. PICK e : e = Evidence(store, got)
    OBVIOUS
<1>3. got \in SUBSET (Part \X (Stamp \union {Nothing}))
    OBVIOUS
<1>4. /\ e \in Store /\ Right(e)
      /\ e.shown = Nothing <=> store.shown = Nothing
      /\ e.selected = store.selected /\ e.coreDate = store.coreDate /\ e.mode = store.mode
      /\ e.loading = store.loading /\ e.phase = store.phase
      /\ e.sectionPhase = store.sectionPhase
    BY <1>2, <1>3, EvidenceIsRight
<1>5. PICK s : s = Loaded(e, r)
    OBVIOUS
<1>6. /\ s \in Store /\ s.shown = e.shown
      /\ s.selected = e.selected /\ s.coreDate = e.coreDate /\ s.mode = e.mode
      /\ s.loading = e.loading /\ s.sectionPhase = e.sectionPhase
      /\ s.phase[r] = "ready" /\ \A x \in Resource \ {r} : s.phase[x] = e.phase[x]
    BY <1>1, <1>4, <1>5, LoadedIsReady
<1>7. NoMore(store, s) /\ s.phase[r] \notin Spinning
    BY <1>4, <1>6 DEF NoMore, Spinning
<1>8. Rests(c, s) /\ Right(s)
    <2>1. \A x \in Resource : Loads(call[c], x) => x = r
        BY DEF Loads
    <2>2. Rests(c, s)
        BY <1>1, <1>7, <2>1, RestsAfter
    <2> QED
        BY <1>4, <1>6, <2>2 DEF Right
<1>9. CASE store' = s /\ Ends(c) /\ latest' = latest
    BY <1>8, <1>9, EndsWell
<1>10. CASE r = Group
    BY <1>1, <1>2, <1>5, <1>8, <1>10, HistoryGoesOn DEF Commit
<1>11. CASE Paged[r] # Nothing /\ store' = s /\ GoOnToPages(c, s, call[c])
    BY <1>1, <1>8, <1>11, PagesGoOn DEF Rests, PhasesRest
<1> QED
    BY <1>2, <1>5, <1>9, <1>10, <1>11 DEF Commit

LEMMA OneReadLess ==
    ASSUME MarketInv, NEW q \in reads
    PROVE  /\ \A x \in reads \ {q} : x \in PinnedRead
           /\ ~ crossed => \A x \in reads \ {q} : x.date \in Mine /\ x.path \in Mine
    BY MarketTyped DEF MarketInv, DatesOK

LEMMA ReadsArrive ==
    ASSUME MarketInv, NEW q \in reads, NEW n \in 0 .. MaxPublish, ReadArrives(q, n), Unchosen
    PROVE  MarketInv'
<1>1. /\ q \in PinnedRead /\ reads' = reads \ {q}
      /\ ~ crossed => q.date = Effective[chosen]
    <2>1. Effective[q.date] = q.date
        BY DEF ReadArrives, Reads, Answerable
    <2> QED
        BY <2>1, TradingDay, MarketTyped DEF ReadArrives, MarketInv, DatesOK
<1>2. CASE q.call = Nothing
    <2>1. PICK s : s = store
        OBVIOUS
    <2>2. NoMore(store, s) /\ Right(s) /\ s.loading = store.loading
        BY <2>1, StoreIsRight DEF NoMore, MarketInv, MarketTypeOK
    <2>3. call' = call /\ latest' = latest /\ store' = s
        BY <1>2, <2>1 DEF ReadArrives
    <2> QED
        BY <1>1, <2>2, <2>3, OneReadLess, LoadsStay
<1>3. CASE q.call # Nothing
    <2>1. PICK c \in Call : c = q.call
        BY <1>1, <1>3 DEF PinnedRead
    <2>2. call[c].pc = "pinned" /\ call[c] \in CallState /\ LoadOK(call[c])
        BY <1>3, <2>1, MarketTyped DEF MarketInv, ReadOK
    <2>3. PICK got : got = call[c].got \union {<<q.part, <<q.date, n>>>>}
        OBVIOUS
    <2>4. got \in SUBSET (Part \X Stamp)
        BY <1>1, <2>2, <2>3 DEF CallState, PinnedRead, Stamp
    <2>5. ~ crossed => \A x \in got : x[2][1] = Effective[chosen]
        BY <1>1, <2>2, <2>3 DEF MarketInv, DatesOK, Dated
    <2>6. CASE \E x \in reads \ {q} : x.call = c
        <3>1. PICK k : k = [call[c] EXCEPT !.got = got]
            OBVIOUS
        <3>2. k \in CallState /\ k.pc = "pinned" /\ k.of = call[c].of /\ k.force = call[c].force
              /\ k.got = got /\ k.date = call[c].date
            BY <2>2, <2>4, <3>1 DEF CallState
        <3>3. LoadOK(k) /\ (~ crossed => Dated(k)) /\ k.pc \in V2
            BY <2>2, <2>5, <3>2 DEF LoadOK, Dated, V2, Versioned, Waiting
        <3>4. PICK s : s = store
            OBVIOUS
        <3>5. Becomes(c, k) /\ store' = s /\ latest' = latest
            BY <1>3, <2>1, <2>3, <2>6, <3>1, <3>4 DEF ReadArrives
        <3>6. Stored(s) /\ OthersGoOn(c, s) /\ Right(s)
            <4>1. ~ PendingCore(c) /\ \A x : ~ Fetches(call[c], x)
                BY <2>2 DEF PendingCore, Fetches
            <4>2. \A x \in Section : SectionOK(x)
                BY DEF MarketInv, SpinnersOK
            <4> QED
                BY <2>2, <3>4, <4>1, <4>2, StoreIsRight
                DEF Stored, OthersGoOn, SectionOK, MarketInv, MarketTypeOK, SpinnersOK, CoreOK
        <3>7. PhasesMove(c, k)
            BY <2>2, <3>2, <3>4, <3>5 DEF PhasesMove, Loads
        <3>8. \A x \in reads' : x \in PinnedRead /\ x \in reads
            BY <1>1, OneReadLess
        <3> QED
            BY <1>1, <3>2, <3>3, <3>5, <3>6, <3>7, <3>8, OneReadLess, VersionedGoesOn
    <2>7. CASE ~ \E x \in reads \ {q} : x.call = c
        <3>1. Beside(c)
            BY <1>1, <2>7, OneReadLess DEF Beside
        <3>2. Commit(c, got)
            BY <1>3, <2>1, <2>3, <2>7 DEF ReadArrives
        <3> QED
            BY <2>2, <2>4, <2>5, <3>1, <3>2, CommitsGoOn
    <2> QED
        BY <2>6, <2>7
<1> QED
    BY <1>2, <1>3

LEMMA ReadsConflict ==
    ASSUME MarketInv, NEW q \in reads, ReadConflicts(q), Unchosen
    PROVE  MarketInv'
<1> DEFINE x == [q EXCEPT !.stage = "overview", !.date = store.selected,
                          !.since = published[store.selected], !.rev = Nothing]
<1>1. store \in Store /\ store.selected \in Date /\ q \in PinnedRead
    BY MarketTyped DEF MarketInv, Store
<1>2. published[store.selected] \in 0 .. MaxPublish
    BY <1>1, MarketTyped DEF MarketInv
<1>3. x \in PinnedRead /\ x.call = q.call /\ x.date = store.selected /\ x.path = q.path
    BY <1>1, <1>2 DEF PinnedRead
<1>4. reads' = (reads \ {q}) \union {x}
    BY DEF ReadConflicts
<1> HIDE DEF x
<1>5. PICK s : s = store
    OBVIOUS
<1>6. NoMore(store, s) /\ Right(s) /\ s.loading = store.loading
    BY <1>1, <1>5, StoreIsRight DEF NoMore
<1>7. ~ crossed => x.date \in Mine /\ x.path \in Mine
    BY <1>3 DEF MarketInv, DatesOK
<1>8. call' = call /\ latest' = latest /\ store' = s
    BY <1>5 DEF ReadConflicts
<1>9. \A y \in reads' : y \in PinnedRead /\ \E z \in reads : z.call = y.call
    BY <1>3, <1>4, OneReadLess
<1>10. ~ crossed => \A y \in reads' : y.date \in Mine /\ y.path \in Mine
    BY <1>4, <1>7, OneReadLess
<1> QED
    BY <1>6, <1>8, <1>9, <1>10, LoadsStay

LEMMA OverviewsArrive ==
    ASSUME MarketInv, NEW q \in reads, NEW n \in 0 .. MaxPublish, OverviewArrives(q, n), Unchosen
    PROVE  MarketInv'
<1> DEFINE x == [q EXCEPT !.stage = "second", !.date = q.path, !.since = published[q.path],
                          !.rev = <<q.date, n>>]
<1>1. store \in Store /\ q \in PinnedRead /\ q.path \in Date /\ q.date \in Date
    BY MarketTyped DEF MarketInv, PinnedRead
<1>2. published[q.path] \in 0 .. MaxPublish /\ <<q.date, n>> \in Stamp
    BY <1>1, MarketTyped DEF MarketInv, Stamp
<1>3. x \in PinnedRead /\ x.call = q.call /\ x.date = q.path /\ x.path = q.path
    BY <1>1, <1>2 DEF PinnedRead
<1>4. reads' = (reads \ {q}) \union {x}
    BY DEF OverviewArrives
<1> HIDE DEF x
<1>5. PICK s : s = Overview(store, q.date, n)
    OBVIOUS
<1>6. /\ s \in Store /\ s.shown = Bare(q.date)
      /\ s.selected = store.selected /\ s.coreDate = store.coreDate /\ s.mode = store.mode
      /\ s.loading = store.loading /\ s.phase = store.phase /\ s.sectionPhase = store.sectionPhase
    BY <1>1, <1>5, OverviewShows
<1>7. NoMore(store, s)
    BY <1>1, <1>6, BareIsOfOneDay DEF NoMore
<1>8. Right(s)
    <2>1. Effective[q.date] = q.date
        BY DEF OverviewArrives, Reads, Answerable
    <2>2. ~ crossed => q.date = Effective[chosen]
        BY <2>1, TradingDay, MarketTyped DEF MarketInv, DatesOK
    <2> QED
        BY <1>1, <1>6, <2>2, BareIsOfOneDay, StoreIsRight DEF Right, OfTheDay
<1>9. ~ crossed => x.date \in Mine /\ x.path \in Mine
    BY <1>3 DEF MarketInv, DatesOK
<1>10. call' = call /\ latest' = latest /\ store' = s
    BY <1>5 DEF OverviewArrives
<1>11. \A y \in reads' : y \in PinnedRead /\ \E z \in reads : z.call = y.call
    BY <1>3, <1>4, OneReadLess
<1>12. ~ crossed => \A y \in reads' : y.date \in Mine /\ y.path \in Mine
    BY <1>4, <1>9, OneReadLess
<1> QED
    BY <1>6, <1>7, <1>8, <1>10, <1>11, <1>12, LoadsStay

(* What a load awaits fails: the legacy API is asked, or the evidence of   *)
(* the breadth group is dropped, or nobody notices.                        *)
LEMMA RejectsGoOn ==
    ASSUME MarketInv, NEW c \in Call, call[c].pc \in V2, ~ call[c].force, Beside(c), Unchosen,
           Reject(c, BrokenOff(store, call[c]))
    PROVE  MarketInv'
<1> DEFINE r == call[c].of
<1>1. r \in Resource /\ store \in Store
    BY DEF MarketInv, LoadOK, MarketTypeOK
<1>2. PICK b : b = BrokenOff(store, call[c])
    OBVIOUS
<1>3. /\ b \in Store /\ b.coreDate = store.coreDate /\ b.phase = store.phase
      /\ b.selected = store.selected /\ b.shown = store.shown
    BY <1>1, <1>2, BreakingOff
<1>4. PICK s : s = [b EXCEPT !.phase[r] = "error", !.mode = "legacy"]
    OBVIOUS
<1>5. /\ s \in Store /\ s.coreDate = store.coreDate
      /\ s.selected = store.selected /\ s.shown = store.shown
      /\ s.phase[r] = "error" /\ \A x \in Resource \ {r} : s.phase[x] = store.phase[x]
    BY <1>1, <1>3, <1>4 DEF Store, Phase
<1>6. Stored(s) /\ Right(s)
    BY <1>5, StoreIsRight DEF Stored, Right, MarketInv, SpinnersOK, CoreOK
<1>7. PhasesRest(c, s)
    BY <1>5 DEF PhasesRest, Spinning, Loads
<1>8. published' = published /\ crossed' \in BOOLEAN /\ chosen' \in Date
    BY DEF Unchosen, MarketInv, MarketTypeOK
<1>9. GoOnToCore(c, s, r, "section")
    BY <1>2, <1>4 DEF Reject
<1> QED
    BY <1>1, <1>6, <1>7, <1>8, <1>9, CoreGoesOn

LEMMA DroppedGroup ==
    ASSUME NEW s \in Store
    PROVE  LET t == Evidence([s EXCEPT !.phase[Group] = "error"],
                             {<<p, Nothing>> : p \in Parts(Group)}) IN
           /\ t \in Store
           /\ t.shown = Nothing <=> s.shown = Nothing
           /\ s.shown # Nothing =>
                 /\ t.shown.asOf = s.shown.asOf
                 /\ \A p \in Part : t.shown.part[p] \in {s.shown.part[p], Nothing}
           /\ t.coreDate = s.coreDate /\ t.mode = s.mode /\ t.selected = s.selected
           /\ t.loading = s.loading /\ t.sectionPhase = s.sectionPhase
           /\ t.history = s.history /\ t.lost = s.lost
           /\ t.phase[Group] = "error" /\ \A x \in Resource \ {Group} : t.phase[x] = s.phase[x]
<1>1. PICK e : e = [s EXCEPT !.phase[Group] = "error"]
    OBVIOUS
<1>2. /\ e \in Store /\ e.coreDate = s.coreDate /\ e.mode = s.mode
      /\ e.selected = s.selected /\ e.shown = s.shown /\ e.loading = s.loading
      /\ e.phase[Group] = "error" /\ \A x \in Resource \ {Group} : e.phase[x] = s.phase[x]
      /\ e.sectionPhase = s.sectionPhase /\ e.history = s.history /\ e.lost = s.lost
    BY <1>1, MarketAssumption DEF Store, Phase
<1>3. PICK stamps : stamps = {<<p, Nothing>> : p \in Parts(Group)}
    OBVIOUS
<1>4. stamps \in SUBSET (Part \X (Stamp \union {Nothing})) /\ \A x \in stamps : x[2] = Nothing
    BY <1>3, MarketAssumption DEF Part
<1>5. PICK t : t = Evidence(e, stamps)
    OBVIOUS
<1>6. /\ t \in Store
      /\ t.shown = Nothing <=> e.shown = Nothing
      /\ e.shown # Nothing =>
            /\ t.shown.asOf = e.shown.asOf
            /\ \A p \in Part : t.shown.part[p] \in {e.shown.part[p], Nothing}
      /\ t = [e EXCEPT !.shown = t.shown]
    BY <1>2, <1>4, <1>5, EvidenceGoesIn
<1>7. /\ t.coreDate = e.coreDate /\ t.mode = e.mode /\ t.selected = e.selected
      /\ t.loading = e.loading /\ t.phase = e.phase /\ t.sectionPhase = e.sectionPhase
      /\ t.history = e.history /\ t.lost = e.lost
    BY <1>2, <1>6 DEF Store
<1> QED
    BY <1>1, <1>2, <1>3, <1>5, <1>6, <1>7

LEMMA LoadsFail ==
    ASSUME MarketInv, NEW c \in Call, call[c].pc \in V2, Beside(c), Unchosen, LoadFails(c),
           call[c].of = Group => call[c].pc # "page"
    PROVE  MarketInv'
<1>1. store \in Store /\ Right(store)
    BY StoreIsRight DEF MarketInv, MarketTypeOK
<1>2. /\ ~ PendingCore(c) /\ \A x : ~ Fetches(call[c], x) /\ call[c].pc # "shell"
    BY DEF PendingCore, Fetches, V2
<1>3. PICK b : b = BrokenOff(store, call[c])
    OBVIOUS
<1>4. /\ b \in Store /\ b.selected = store.selected /\ b.mode = store.mode
      /\ b.shown = store.shown /\ b.loading = store.loading /\ b.phase = store.phase
      /\ b.sectionPhase = store.sectionPhase /\ b.coreDate = store.coreDate
    BY <1>1, <1>3, BreakingOff
<1>5. CASE call[c].force /\ store' = b /\ Ends(c) /\ latest' = latest
    <2>1. NoMore(store, b) /\ \A r : ~ Loads(call[c], r)
        BY <1>4, <1>5 DEF NoMore, Loads
    <2>2. Rests(c, b) /\ Right(b)
        BY <1>1, <1>2, <1>4, <2>1, RestsAfter DEF Right
    <2> QED
        BY <1>5, <2>2, EndsWell
<1>6. CASE ~ call[c].force /\ Reject(c, b)
    BY <1>3, <1>6, RejectsGoOn
<1>7. CASE call[c].of = Group /\ DropGroup(c, b)
    <2>1. PICK t : t = Evidence([b EXCEPT !.phase[Group] = "error"],
                                {<<p, Nothing>> : p \in Parts(Group)})
        OBVIOUS
    <2>2. /\ t \in Store
          /\ t.shown = Nothing <=> b.shown = Nothing
          /\ b.shown # Nothing =>
                /\ t.shown.asOf = b.shown.asOf
                /\ \A p \in Part : t.shown.part[p] \in {b.shown.part[p], Nothing}
          /\ t.coreDate = b.coreDate /\ t.mode = b.mode /\ t.selected = b.selected
          /\ t.loading = b.loading /\ t.sectionPhase = b.sectionPhase
          /\ t.phase[Group] = "error" /\ \A x \in Resource \ {Group} : t.phase[x] = b.phase[x]
        BY <1>4, <2>1, DroppedGroup
    <2>3. NoMore(store, t) /\ t.phase[Group] \notin Spinning
        BY <1>4, <2>2 DEF NoMore, Spinning
    <2>4. \A r \in Resource : Loads(call[c], r) => r = Group
        BY <1>7 DEF Loads
    <2>5. Rests(c, t)
        BY <1>2, <2>3, <2>4, RestsAfter
    <2>6. Right(t)
        BY <1>1, <1>4, <2>2 DEF Right, OfTheDay, OfOneDay
    <2> QED
        BY <1>7, <2>1, <2>5, <2>6, EndsWell DEF DropGroup
<1> QED
    BY <1>3, <1>5, <1>6, <1>7 DEF LoadFails

LEMMA AbandonedReads ==
    ASSUME MarketInv, NEW q \in reads, NEW c \in Call, q.call = c,
           reads' = Abandoned(c, reads \ {q})
    PROVE  Beside(c)
<1>1. \A x \in reads : x \in PinnedRead
    BY MarketTyped DEF MarketInv
<1>2. ASSUME NEW x \in reads PROVE LET y == [x EXCEPT !.call = Nothing] IN
            y \in PinnedRead /\ y.call = Nothing /\ y.date = x.date /\ y.path = x.path
    BY <1>1 DEF PinnedRead
<1>3. ASSUME NEW y \in reads'
      PROVE  \E x \in reads : /\ y \in PinnedRead /\ y.date = x.date /\ y.path = x.path
                              /\ y.call = Nothing \/ (y.call # c /\ y.call = x.call)
    BY <1>1, <1>2 DEF Abandoned
<1>4. ~ crossed => \A x \in reads : x.date \in Mine /\ x.path \in Mine
    BY DEF MarketInv, DatesOK
<1> QED
    BY <1>3, <1>4 DEF Beside

LEMMA ReadsFail ==
    ASSUME MarketInv, NEW q \in reads, ReadFails(q), Unchosen
    PROVE  MarketInv'
<1>1. q \in PinnedRead /\ reads' = Abandoned(q.call, reads \ {q})
    BY MarketTyped DEF MarketInv, ReadFails
<1>2. store \in Store /\ Right(store)
    BY StoreIsRight DEF MarketInv, MarketTypeOK
<1>3. CASE q.call = Nothing
    <2>1. \A x \in reads : x \in PinnedRead
        BY MarketTyped DEF MarketInv
    <2>2. ASSUME NEW x \in reads, x.call = Nothing PROVE [x EXCEPT !.call = Nothing] = x
        BY <2>1, <2>2 DEF PinnedRead
    <2>3. reads' = reads \ {q}
        BY <1>1, <1>3, <2>2 DEF Abandoned
    <2>4. PICK s : s = store
        OBVIOUS
    <2>5. NoMore(store, s) /\ Right(s) /\ s.loading = store.loading
        BY <1>2, <2>4 DEF NoMore
    <2>6. call' = call /\ latest' = latest /\ store' = s
        BY <1>3, <2>4 DEF ReadFails
    <2> QED
        BY <2>3, <2>5, <2>6, OneReadLess, LoadsStay
<1>4. CASE q.call # Nothing
    <2>1. PICK c \in Call : c = q.call
        BY <1>1, <1>4 DEF PinnedRead
    <2>2. call[c].pc = "pinned" /\ Beside(c)
        BY <1>1, <1>4, <2>1, AbandonedReads DEF MarketInv, ReadOK
    <2>3. LoadFails(c)
        BY <1>4, <2>1 DEF ReadFails
    <2> QED
        BY <2>2, <2>3, LoadsFail DEF V2
<1> QED
    BY <1>3, <1>4

-----------------------------------------------------------------------------
(* Loads that read page by page *)

Turning(c) ==
    /\ call[c] \in CallState /\ LoadOK(call[c]) /\ call[c].of \in Resource /\ call[c].date \in Date
    /\ ~ PendingCore(c) /\ call[c].pc # "shell" /\ call[c].pc # "pinned"
    /\ \A x : ~ Fetches(call[c], x)
    /\ ~ crossed => call[c].date \in Mine

LEMMA PagesTurn ==
    ASSUME MarketInv, NEW c \in Call, call[c].pc \in {"page", "repage", "restart", "group"}
    PROVE  Turning(c)
<1>1. call[c] \in CallState /\ LoadOK(call[c])
    BY MarketTyped DEF MarketInv
<1>2. call[c].of \in Resource /\ call[c].date \in Date
    BY <1>1 DEF LoadOK, V2, Waiting, Versioned, CallState
<1>3. ~ PendingCore(c) /\ \A x : ~ Fetches(call[c], x)
    BY DEF PendingCore, Fetches
<1>4. ~ crossed => call[c].date \in Mine
    BY DEF MarketInv, DatesOK, Dated, Versioned
<1> QED
    BY <1>1, <1>2, <1>3, <1>4 DEF Turning

LEMMA PagesCome ==
    ASSUME MarketInv, NEW c \in Call, NEW n \in 0 .. MaxPublish, PagesArrive(c, n), Unchosen
    PROVE  MarketInv'
<1> DEFINE r == call[c].of
           d == call[c].date
<1>1. Turning(c) /\ Paged[r] \in Part /\ call[c].pc \in {"page", "repage"}
    BY PagesTurn, PartsAreParts DEF PagesArrive, Turning, LoadOK
<1>2. store \in Store /\ Right(store) /\ d \in Date /\ r \in Resource
    BY <1>1, StoreIsRight DEF MarketInv, MarketTypeOK, Turning
<1>3. ~ crossed => d = Effective[chosen]
    <2>1. Effective[d] = d
        BY DEF PagesArrive, Reads, Answerable
    <2> QED
        BY <1>1, <2>1, TradingDay, MarketTyped DEF MarketInv, Turning
<1>4. PICK b : b = IF CallAt(c, "repage") THEN [store EXCEPT !.revision = call[c].rev] ELSE store
    OBVIOUS
<1>5. /\ b \in Store /\ b.shown = store.shown /\ b.selected = store.selected
      /\ b.coreDate = store.coreDate /\ b.mode = store.mode /\ b.loading = store.loading
      /\ b.phase = store.phase /\ b.sectionPhase = store.sectionPhase
    <2>1. call[c].rev \in Stamp \union {Nothing}
        BY <1>1 DEF Turning, CallState
    <2> QED
        BY <1>2, <1>4, <2>1 DEF Store
<1>6. PICK stamps : stamps = {<<Paged[r], <<d, n>>>>}
    OBVIOUS
<1>7. stamps \in SUBSET (Part \X (Stamp \union {Nothing})) /\ \A x \in stamps : x[2][1] = d
    BY <1>1, <1>2, <1>6 DEF Stamp
<1>8. PICK s : s = Evidence(b, stamps)
    OBVIOUS
<1>9. /\ s \in Store
      /\ s.shown = Nothing <=> store.shown = Nothing
      /\ store.shown # Nothing =>
            /\ s.shown.asOf = store.shown.asOf
            /\ \A p \in Part : \/ s.shown.part[p] = store.shown.part[p]
                               \/ s.shown.part[p][1] = d
      /\ s = [b EXCEPT !.shown = s.shown]
    BY <1>5, <1>7, <1>8, EvidenceGoesIn
<1>10. /\ s.selected = store.selected
       /\ s.coreDate = store.coreDate /\ s.mode = store.mode /\ s.loading = store.loading
       /\ s.phase = store.phase /\ s.sectionPhase = store.sectionPhase
    BY <1>5, <1>9 DEF Store
<1>11. Right(s)
    <2>1. ~ crossed /\ store.shown # Nothing => store.shown.asOf = Effective[chosen] /\ OfOneDay(store.shown)
        BY <1>2 DEF Right, OfTheDay
    <2>2. ~ crossed /\ store.shown # Nothing => s.shown.asOf = Effective[chosen] /\ OfOneDay(s.shown)
        BY <1>3, <1>9, <2>1 DEF OfOneDay
    <2> QED
        BY <1>2, <1>9, <1>10, <2>2 DEF Right, OfTheDay
<1>12. PICK t : t = IF r = Group THEN [s EXCEPT !.history = "ready"] ELSE Loaded(s, r)
    OBVIOUS
<1>13. /\ t \in Store /\ t.shown = s.shown /\ t.selected = s.selected
       /\ t.coreDate = s.coreDate /\ t.mode = s.mode /\ t.loading = s.loading
       /\ t.sectionPhase = s.sectionPhase
       /\ \A x \in Resource \ {r} : t.phase[x] = s.phase[x]
       /\ IF r = Group THEN t.phase[r] = s.phase[r] ELSE t.phase[r] = "ready"
    <2>1. CASE r = Group
        BY <1>9, <1>12, <2>1 DEF Store, Phase
    <2>2. CASE r # Group
        BY <1>2, <1>9, <1>12, <2>2, LoadedIsReady
    <2> QED
        BY <2>1, <2>2
<1>14. NoMore(store, t) /\ Right(t)
    BY <1>9, <1>10, <1>11, <1>13 DEF NoMore, Right, Spinning
<1>15. \A x \in Resource : Loads(call[c], x) => t.phase[x] \notin Spinning
    BY <1>1, <1>13 DEF Loads, Spinning
<1>16. Rests(c, t)
    BY <1>1, <1>14, <1>15, RestsAfter DEF Turning
<1>17. Ends(c) /\ latest' = latest /\ reads' = reads /\ store' = t
    BY <1>4, <1>6, <1>8, <1>12 DEF PagesArrive
<1>18. Beside(c)
    BY <1>1, <1>17, ReadsStayBeside DEF Turning
<1> QED
    BY <1>14, <1>16, <1>17, <1>18, EndsWell

(* A request of the same load follows, and the store stays as it is. *)
LEMMA TurnsOn ==
    ASSUME MarketInv, NEW c \in Call, Turning(c), Unchosen,
           store' = store, latest' = latest, reads' = reads,
           NEW k \in CallState, Becomes(c, k), LoadOK(k),
           k.pc \in {"group", "restart", "repage"}, k.of = call[c].of, k.force = call[c].force,
           call[c].pc = "page" /\ k.pc = "group" => call[c].of = Group,
           k.pc \in {"restart", "repage"} \/ call[c].of = Group,
           ~ crossed => k.date \in Mine
    PROVE  MarketInv'
<1>1. PICK s : s = store
    OBVIOUS
<1>2. Stored(s) /\ OthersGoOn(c, s) /\ Right(s)
    <2>1. \A x \in Section : SectionOK(x)
        BY DEF MarketInv, SpinnersOK
    <2> QED
        BY <1>1, <2>1, StoreIsRight
        DEF Stored, OthersGoOn, SectionOK, MarketInv, MarketTypeOK, SpinnersOK, CoreOK, Turning
<1>3. PhasesMove(c, k)
    BY DEF PhasesMove, Loads, Turning
<1>4. ~ crossed => Dated(k)
    BY DEF Dated
<1>5. Beside(c)
    BY ReadsStayBeside DEF Turning
<1> QED
    BY <1>1, <1>2, <1>3, <1>4, <1>5, VersionedGoesOn DEF V2, Beside

LEMMA PagesMeetConflict ==
    ASSUME MarketInv, NEW c \in Call, PagesConflict(c), Unchosen
    PROVE  MarketInv'
<1>1. Turning(c) /\ call[c].pc = "page"
    BY PagesTurn DEF PagesConflict, CallAt
<1>2. store.selected \in Date
    BY MarketTyped DEF MarketInv, Store
<1>3. CASE call[c].of = Group
    <2> DEFINE j == [call[c] EXCEPT !.pc = "group"]
    <2>1. j \in CallState /\ j.pc = "group" /\ j.of = call[c].of /\ j.force = call[c].force
        BY <1>1 DEF Turning, CallState
    <2>2. PICK k : k = Ask(j, store.selected, Nothing)
        OBVIOUS
    <2>3. k \in CallState
        BY <1>2, <2>1, <2>2, CallsAreTyped DEF MarketInv
    <2>4. k.pc = "group" /\ k.of = call[c].of /\ k.force = call[c].force /\ k.date = store.selected
        BY <2>1, <2>2 DEF Ask, CallState
    <2>5. LoadOK(k)
        BY <1>1, <1>2, <2>4, SomethingIsThere DEF LoadOK, V2, Waiting, Turning
    <2>6. ~ crossed => k.date \in Mine
        BY <2>4 DEF MarketInv, DatesOK
    <2>7. Becomes(c, k) /\ store' = store /\ latest' = latest /\ reads' = reads
        BY <1>3, <2>2 DEF PagesConflict
    <2> QED
        BY <1>1, <1>3, <2>3, <2>4, <2>5, <2>6, <2>7, TurnsOn
<1>4. CASE call[c].of # Group
    <2> DEFINE j == [call[c] EXCEPT !.pc = "restart"]
    <2>1. j \in CallState /\ j.pc = "restart" /\ j.of = call[c].of /\ j.force = call[c].force
        BY <1>1 DEF Turning, CallState
    <2>2. PICK k : k = Ask(j, call[c].date, Nothing)
        OBVIOUS
    <2>3. k \in CallState
        BY <1>1, <2>1, <2>2, CallsAreTyped DEF MarketInv, Turning
    <2>4. k.pc = "restart" /\ k.of = call[c].of /\ k.force = call[c].force /\ k.date = call[c].date
        BY <2>1, <2>2 DEF Ask, CallState
    <2>5. LoadOK(k)
        BY <1>1, <2>4, SomethingIsThere DEF LoadOK, V2, Waiting, Turning
    <2>6. Becomes(c, k) /\ store' = store /\ latest' = latest /\ reads' = reads
        BY <1>4, <2>2 DEF PagesConflict
    <2> QED
        BY <1>1, <1>4, <2>3, <2>4, <2>5, <2>6, TurnsOn DEF Turning
<1> QED
    BY <1>3, <1>4

LEMMA RestartsArrive ==
    ASSUME MarketInv, NEW c \in Call, NEW n \in 0 .. MaxPublish, RestartArrives(c, n), Unchosen
    PROVE  MarketInv'
<1> DEFINE j == [call[c] EXCEPT !.pc = "repage"]
<1>1. Turning(c) /\ call[c].pc = "restart"
    BY PagesTurn DEF RestartArrives, CallAt
<1>2. j \in CallState /\ j.pc = "repage" /\ j.of = call[c].of /\ j.force = call[c].force
    BY <1>1 DEF Turning, CallState
<1>3. PICK k : k = Ask(j, call[c].date, <<call[c].date, n>>)
    OBVIOUS
<1>4. <<call[c].date, n>> \in Stamp
    BY <1>1 DEF Turning, Stamp
<1>5. k \in CallState
    BY <1>1, <1>2, <1>3, <1>4, CallsAreTyped DEF MarketInv, Turning
<1>6. k.pc = "repage" /\ k.of = call[c].of /\ k.force = call[c].force /\ k.date = call[c].date
    BY <1>2, <1>3 DEF Ask, CallState
<1>7. LoadOK(k)
    BY <1>1, <1>6, SomethingIsThere DEF LoadOK, V2, Waiting, Turning
<1>8. Becomes(c, k) /\ store' = store /\ latest' = latest /\ reads' = reads
    BY <1>3 DEF RestartArrives
<1> QED
    BY <1>1, <1>5, <1>6, <1>7, <1>8, TurnsOn DEF Turning

LEMMA PinnedReadsAsk ==
    ASSUME MarketInv, NEW c \in Call, NEW s \in Store, NEW r \in Resource
    PROVE  \A q \in PinnedReads(c, s, r) :
              q \in PinnedRead /\ q.call = c /\ q.date = s.selected /\ q.path = s.selected
<1>1. s.selected \in Date /\ s.revision \in Stamp \union {Nothing}
    BY DEF Store
<1>2. published[s.selected] \in 0 .. MaxPublish
    BY <1>1, MarketTyped DEF MarketInv
<1>3. \A p \in Pinned[r] : p \in Part
    BY PartsAreParts
<1> QED
    BY <1>1, <1>2, <1>3 DEF PinnedReads, PinnedRead

LEMMA GroupsArrive ==
    ASSUME MarketInv, NEW c \in Call, NEW n \in 0 .. MaxPublish, GroupArrives(c, n), Unchosen
    PROVE  MarketInv'
<1> DEFINE d == call[c].date
<1>1. Turning(c) /\ call[c].pc = "group" /\ d \in Date /\ call[c].of \in Resource
    <2>1. call[c].pc = "group"
        BY DEF GroupArrives, CallAt
    <2> QED
        BY <2>1, PagesTurn DEF Turning
<1>2. store \in Store
    BY DEF MarketInv, MarketTypeOK
<1>3. PICK o : o = Overview(store, d, n)
    OBVIOUS
<1>4. /\ o \in Store /\ o.shown = Bare(d)
      /\ o.selected = store.selected /\ o.coreDate = store.coreDate /\ o.mode = store.mode
      /\ o.loading = store.loading /\ o.sectionPhase = store.sectionPhase
    BY <1>1, <1>2, <1>3, OverviewShows
<1>5. PICK s : s = RestartGroup(store, d, n)
    OBVIOUS
<1>6. /\ s \in Store /\ s.shown = o.shown
      /\ s.selected = o.selected /\ s.coreDate = o.coreDate /\ s.mode = o.mode
      /\ s.loading = o.loading /\ s.sectionPhase = o.sectionPhase
      /\ \A r \in Resource : s.phase[r] = "idle"
    <2>1. PICK u : u = [Unloaded(o) EXCEPT !.history = "loading"]
        OBVIOUS
    <2>2. s = [u EXCEPT !.lost = FALSE]
        BY <1>3, <1>4, <1>5, <2>1 DEF RestartGroup, Unloaded, Store
    <2>3. "loading" \in Phase
        BY DEF Phase
    <2>4. /\ u \in Store /\ u.shown = o.shown
          /\ u.selected = o.selected /\ u.coreDate = o.coreDate /\ u.mode = o.mode
          /\ u.loading = o.loading /\ u.sectionPhase = o.sectionPhase
          /\ \A r \in Resource : u.phase[r] = "idle"
        BY <1>4, <2>1, <2>3, UnloadedIsQuiet
    <2> QED
        BY <2>2, <2>4 DEF Store
<1>7. NoMore(store, s)
    BY <1>1, <1>4, <1>6, BareIsOfOneDay DEF NoMore, Spinning
<1>8. Right(s)
    <2>1. Effective[d] = d
        BY DEF GroupArrives, Reads, Answerable
    <2>2. ~ crossed => d = Effective[chosen]
        BY <1>1, <2>1, TradingDay, MarketTyped DEF MarketInv, Turning
    <2> QED
        BY <1>1, <1>4, <1>6, <2>2, BareIsOfOneDay, StoreIsRight DEF Right, OfTheDay
<1>9. Rests(c, s)
    BY <1>1, <1>6, <1>7, RestsAfter DEF Turning, Spinning
<1>10. PICK k : k = [call[c] EXCEPT !.pc = "pinned", !.restart = FALSE, !.got = {}]
    OBVIOUS
<1>11. k \in CallState /\ k.pc = "pinned" /\ k.of \in Resource /\ k.got = {}
    BY <1>1, <1>10 DEF CallState, Turning
<1>12. LoadOK(k) /\ Dated(k)
    BY <1>11, MarketAssumption DEF LoadOK, Waiting, Versioned, Dated
<1>13. /\ Becomes(c, k) /\ store' = s /\ latest' = latest
       /\ reads' = reads \union PinnedReads(c, s, Group)
    BY <1>5, <1>10 DEF GroupArrives
<1>14. PhasesMove(c, k)
    BY <1>6, <1>13 DEF PhasesMove, Spinning
<1>15. \A q \in PinnedReads(c, s, Group) :
            q \in PinnedRead /\ q.call = c /\ q.date = s.selected /\ q.path = s.selected
    BY <1>6, PinnedReadsAsk, MarketAssumption
<1>16. \A q \in reads' : /\ q \in PinnedRead
                         /\ \/ q.call = Nothing
                            \/ q.call = c /\ k.pc = "pinned"
                            \/ q.call # c /\ \E x \in reads : x.call = q.call
    BY <1>1, <1>11, <1>13, <1>15, OthersRead DEF Turning
<1>17. ~ crossed => \A q \in reads' : q.date \in Mine /\ q.path \in Mine
    BY <1>8, <1>13, <1>15 DEF Right, MarketInv, DatesOK
<1> QED
    BY <1>8, <1>9, <1>11, <1>12, <1>13, <1>14, <1>16, <1>17, VersionedGoesOn DEF Rests, V2

LEMMA PagesAreLost ==
    ASSUME MarketInv, NEW c \in Call, PagesFail(c), Unchosen
    PROVE  MarketInv'
<1>1. Turning(c) /\ call[c].pc \in {"page", "repage", "restart", "group"}
    BY PagesTurn DEF PagesFail
<1>2. reads' = reads /\ Beside(c)
    BY <1>1, ReadsStayBeside DEF Turning, PagesFail
<1>3. store \in Store /\ Right(store)
    BY StoreIsRight DEF MarketInv, MarketTypeOK
<1>4. CASE call[c].of = Group /\ CallAt(c, "page")
    <2>1. PICK t : t = [store EXCEPT !.history = "error"]
        OBVIOUS
    <2>2. store' = t /\ Ends(c) /\ latest' = latest
        BY <1>4, <2>1 DEF PagesFail
    <2>3. \A r : ~ Loads(call[c], r)
        BY <1>4 DEF Loads, CallAt
    <2>4. NoMore(store, t) /\ t.shown = store.shown
        BY <1>3, <2>1 DEF NoMore, Store, Phase
    <2>5. Rests(c, t) /\ Right(t)
        BY <1>1, <1>3, <2>3, <2>4, RestsAfter DEF Turning, Right, NoMore
    <2> QED
        BY <1>2, <2>2, <2>5, EndsWell
<1>5. CASE ~ (call[c].of = Group /\ CallAt(c, "page"))
    <2>1. LoadFails(c)
        BY <1>5 DEF PagesFail
    <2> QED
        BY <1>1, <1>2, <1>5, <2>1, LoadsFail DEF V2, CallAt
<1> QED
    BY <1>4, <1>5

-----------------------------------------------------------------------------
(* The reader *)

(* A load that has not begun is in nobody's way. *)
LEMMA FreeRests ==
    ASSUME MarketInv, NEW c \in Call, call[c].pc = "free", NEW t, NoMore(store, t)
    PROVE  Rests(c, t) /\ call[c].pc # "pinned" /\ \A r : ~ Loads(call[c], r)
<1>1. /\ ~ PendingCore(c) /\ \A r : ~ Loads(call[c], r)
      /\ \A x : ~ Fetches(call[c], x)
    BY DEF PendingCore, Loads, Fetches
<1> QED
    BY <1>1, RestsAfter

LEMMA StartingRests ==
    ASSUME MarketInv, NEW c \in Call, Start(c)
    PROVE  /\ call[c].pc = "free"
           /\ \E s : s = store /\ Rests(c, s) /\ Right(s)
<1>1. PICK s : s = store
    OBVIOUS
<1>2. NoMore(store, s) /\ Right(s)
    BY <1>1, StoreIsRight DEF NoMore, MarketInv, MarketTypeOK
<1>3. call[c].pc = "free"
    BY DEF Start, CallAt
<1> QED
    BY <1>1, <1>2, <1>3, FreeRests

LEMMA ShellsOpen ==
    ASSUME MarketInv, NEW c \in Call, OpenDashboard(c) \/ Reload(c)
    PROVE  MarketInv'
<1>1. PICK s : s = store /\ Rests(c, s) /\ Right(s)
    BY StartingRests DEF OpenDashboard, Reload
<1>2. call[c].pc # "pinned"
    BY StartingRests DEF OpenDashboard, Reload
<1>3. PICK force \in BOOLEAN : GoOnToShell(c, s, force)
    BY <1>1 DEF OpenDashboard, Reload
<1>4. reads' = reads /\ Unchosen
    BY DEF OpenDashboard, Reload, Unchosen
<1>5. published' = published /\ crossed' \in BOOLEAN /\ chosen' \in Date
    BY <1>4 DEF Unchosen, MarketInv, MarketTypeOK
<1> QED
    BY <1>1, <1>2, <1>3, <1>4, <1>5, ShellGoesOn

LEMMA TopbarRefreshes ==
    ASSUME MarketInv, NEW c \in Call, RefreshTopbar(c)
    PROVE  MarketInv'
<1>1. PICK s : s = store /\ Rests(c, s) /\ Right(s)
    BY StartingRests DEF RefreshTopbar
<1>2. call[c].pc # "pinned"
    BY StartingRests DEF RefreshTopbar
<1>3. reads' = reads /\ Unchosen /\ GoOnToCore(c, s, Nothing, "nothing")
    BY <1>1 DEF RefreshTopbar, Unchosen
<1>4. published' = published /\ crossed' \in BOOLEAN /\ chosen' \in Date /\ Beside(c)
    BY <1>2, <1>3, ReadsStayBeside DEF Unchosen, MarketInv, MarketTypeOK
<1> QED
    BY <1>1, <1>2, <1>3, <1>4, CoreGoesOn DEF Rests

LEMMA SectionsOpen ==
    ASSUME MarketInv, NEW c \in Call, NEW x \in Section, NEW force \in BOOLEAN, OpenSection(c, x, force)
    PROVE  MarketInv'
<1>1. PICK s : s = store /\ Rests(c, s) /\ Right(s)
    BY StartingRests DEF OpenSection
<1>2. call[c].pc # "pinned"
    BY StartingRests DEF OpenSection
<1>3. reads' = reads /\ Unchosen /\ GoOnToSection(c, s, x, force)
    BY <1>1 DEF OpenSection, Unchosen
<1>4. Beside(c)
    BY <1>2, <1>3, ReadsStayBeside
<1> QED
    BY <1>1, <1>3, <1>4, SectionGoesOn

LEMMA HistoryIsRetried ==
    ASSUME MarketInv, NEW c \in Call, RetryHistory(c)
    PROVE  MarketInv'
<1> DEFINE state == [Free EXCEPT !.of = Group, !.force = TRUE, !.restart = TRUE]
<1>1. PICK s : s = store /\ Rests(c, s) /\ Right(s)
    BY StartingRests DEF RetryHistory
<1>2. call[c].pc # "pinned"
    BY StartingRests DEF RetryHistory
<1>3. reads' = reads /\ Unchosen /\ GoOnToHistory(c, s, state)
    BY <1>1 DEF RetryHistory, Unchosen
<1>4. Beside(c)
    BY <1>2, <1>3, ReadsStayBeside
<1>5. state \in CallState /\ state.of = Group
    BY Bounds, MarketAssumption DEF Free, CallState
<1> QED
    BY <1>1, <1>3, <1>4, <1>5, HistoryGoesOn

LEMMA PagesOpen ==
    ASSUME MarketInv, NEW c \in Call, NEW r \in Resource, NEW force \in BOOLEAN, OpenPage(c, r, force)
    PROVE  MarketInv'
<1>1. call[c].pc = "free" /\ Unchosen
    BY DEF OpenPage, Start, CallAt, Unchosen
<1>2. store \in Store /\ Right(store)
    BY StoreIsRight DEF MarketInv, MarketTypeOK
<1>3. PICK s : s = [store EXCEPT !.phase[r] = Spinner(@ = "ready")]
    OBVIOUS
<1>4. /\ s \in Store /\ s.shown = store.shown /\ s.selected = store.selected
      /\ s.coreDate = store.coreDate /\ s.mode = store.mode /\ s.loading = store.loading
      /\ s.sectionPhase = store.sectionPhase
      /\ \A x \in Resource \ {r} : s.phase[x] = store.phase[x]
    BY <1>2, <1>3 DEF Store, Spinner, Phase
<1>5. Stored(s) /\ OthersGoOn(c, s) /\ Right(s)
    <2>1. PICK t : t = store
        OBVIOUS
    <2>2. Rests(c, t)
        BY <1>1, <1>2, <2>1, FreeRests DEF NoMore
    <2> QED
        BY <1>2, <1>4, <2>1, <2>2 DEF Rests, Stored, OthersGoOn, Right
<1>6. \A x : ~ Loads(call[c], x)
    BY <1>1 DEF Loads
<1>7. PICK state : state = [Free EXCEPT !.of = r, !.restart = (r = Group)]
    OBVIOUS
<1>8. state \in CallState /\ state.of = r /\ state.force = FALSE /\ state.pc = "free" /\ state.got = {}
    <2>1. PICK b \in BOOLEAN : b = (r = Group)
        OBVIOUS
    <2>2. state = [Free EXCEPT !.of = r, !.restart = b]
        BY <1>7, <2>1
    <2>3. [Free EXCEPT !.of = r] \in CallState
        BY CallsAreTyped DEF MarketInv, CallState
    <2>4. state = [[Free EXCEPT !.of = r] EXCEPT !.restart = b]
        BY <2>2 DEF Free
    <2>5. state \in CallState
        BY <2>3, <2>4, Zenon DEF CallState
    <2> QED
        BY <2>2, <2>5 DEF Free
<1>9. CASE Pinned[r] = {}
    <2>1. r # Group /\ Paged[r] # Nothing
        BY <1>9, MarketAssumption DEF Parts
    <2>2. store' = s /\ GoOnToPages(c, s, state) /\ reads' = reads
        BY <1>3, <1>7, <1>9 DEF OpenPage
    <2>3. Beside(c)
        BY <1>1, <2>2, ReadsStayBeside
    <2>4. \A x \in Resource : s.phase[x] \in Spinning =>
              \/ x = state.of /\ x # Group /\ ~ state.force
              \/ store.phase[x] \in Spinning /\ ~ Loads(call[c], x)
        BY <1>4, <1>6, <1>8, <2>1
    <2> QED
        BY <1>1, <1>5, <1>8, <2>1, <2>2, <2>3, <2>4, PagesGoOn
<1>10. CASE Pinned[r] # {}
    <2>1. PICK k : k = [state EXCEPT !.pc = "pinned"]
        OBVIOUS
    <2>2. k \in CallState /\ k.pc = "pinned" /\ k.of = r /\ k.force = FALSE /\ k.got = {}
        BY <1>8, <2>1 DEF CallState
    <2>3. store' = s /\ Becomes(c, k) /\ reads' = reads \union PinnedReads(c, s, r) /\ latest' = latest
        BY <1>3, <1>7, <1>10, <2>1 DEF OpenPage
    <2>4. LoadOK(k) /\ Dated(k) /\ k.pc \in V2
        BY <2>2 DEF LoadOK, Waiting, Versioned, Dated, V2
    <2>5. PhasesMove(c, k)
        BY <1>4, <1>6, <2>2, <2>3 DEF PhasesMove, Loads
    <2>6. \A q \in PinnedReads(c, s, r) :
              q \in PinnedRead /\ q.call = c /\ q.date = s.selected /\ q.path = s.selected
        BY <1>4, PinnedReadsAsk
    <2>7. \A q \in reads' : /\ q \in PinnedRead
                            /\ \/ q.call = Nothing
                               \/ q.call = c /\ k.pc = "pinned"
                               \/ q.call # c /\ \E x \in reads : x.call = q.call
        BY <1>1, <2>2, <2>3, <2>6, OthersRead
    <2>8. ~ crossed => \A q \in reads' : q.date \in Mine /\ q.path \in Mine
        BY <1>5, <2>3, <2>6 DEF Right, MarketInv, DatesOK
    <2> QED
        BY <1>1, <1>5, <2>2, <2>3, <2>4, <2>5, <2>7, <2>8, VersionedGoesOn
<1> QED
    BY <1>9, <1>10

(* A date that is chosen under nothing that outlives it makes what was     *)
(* shown and asked of another date go.                                     *)
LEMMA DatesAreSet ==
    ASSUME MarketInv, NEW c \in Call, NEW d \in Date, SetDate(c, d)
    PROVE  MarketInv'
<1>1. /\ call[c].pc = "free" /\ reads' = reads /\ published' = published /\ chosen' = d
      /\ crossed' = (crossed \/ Crossing)
    BY DEF SetDate, CallAt
<1>2. chosen' \in Date /\ crossed' \in BOOLEAN /\ store \in Store /\ call[c].pc # "pinned"
    BY <1>1 DEF MarketInv, MarketTypeOK
<1>3. /\ \A r : ~ Loads(call[c], r)
      /\ ~ PendingCore(c)
    BY <1>1 DEF Loads, PendingCore
<1>4. call \in [Call -> CallState]
    BY DEF MarketInv, MarketTypeOK
<1>5. ASSUME ~ crossed'
      PROVE  /\ ~ crossed /\ reads = {}
             /\ \A x \in Call : call[x].pc \in {"free", "section"} \/ (call[x].pc = "core" /\ store.mode # "v2")
    BY <1>1, <1>5 DEF Crossing, CallAt, MarketInv, MarketTypeOK
<1>6. CASE store.mode = "v2"
    <2>1. PICK s : s = [Forget(store) EXCEPT !.selected = d]
        OBVIOUS
    <2>2. /\ s \in Store /\ s.selected = d /\ s.shown = Nothing /\ s.mode = "v2"
          /\ s.coreDate = store.coreDate /\ s.loading = store.loading
          /\ \A r \in Resource : s.phase[r] = "idle"
        <3>1. PICK u : u = Unloaded(store)
            OBVIOUS
        <3>2. PICK v : v = [u EXCEPT !.history = "idle"]
            OBVIOUS
        <3>3. /\ v \in Store /\ v.coreDate = store.coreDate /\ v.mode = store.mode
              /\ v.loading = store.loading /\ \A r \in Resource : v.phase[r] = "idle"
            <4>1. "idle" \in Phase
                BY DEF Phase
            <4> QED
                BY <1>2, <3>1, <3>2, <4>1, UnloadedIsQuiet
        <3>4. u \in Store
            BY <1>2, <3>1 DEF Unloaded, Store, NoPhases, Phase
        <3>5. s = [v EXCEPT !.shown = Nothing, !.revision = Nothing, !.selected = d]
            BY <2>1, <3>1, <3>2, <3>4 DEF Forget, Store
        <3> QED
            BY <1>6, <3>3, <3>5 DEF Store
    <2>3. ~ store.loading
        BY DEF SetDate
    <2>4. Rests(c, s)
        BY <1>3, <2>2, <2>3 DEF Rests, Stored, PhasesRest, OthersGoOn, Spinning, MarketInv, SpinnersOK, CoreOK
    <2>5. GoOnToShell(c, s, FALSE)
        BY <1>6, <2>1 DEF SetDate
    <2>6. ASSUME ~ crossed' PROVE DatesOK'
        <3>1. PICK k : k = call'[c]
            OBVIOUS
        <3>2. k.pc = "shell" /\ k.date = d
            BY <1>4, <2>2, <2>5, <3>1 DEF GoOnToShell, Becomes, Ask, Free
        <3>3. \A x \in Call \ {c} : call'[x] = call[x] /\ call[x].pc \in {"free", "section"}
            BY <1>4, <1>5, <1>6, <2>5, <2>6 DEF GoOnToShell, Becomes
        <3>4. store'.selected = d /\ store'.shown = Nothing
            BY <2>2, <2>5 DEF GoOnToShell, Store
        <3>5. \A x \in Call \ {c} : Dated(call[x]) /\ call[x].pc # "core" /\ call[x].pc \notin Versioned \union {"pinned"}
            BY <3>3 DEF Dated, Versioned
        <3>6. \A x \in Call : /\ call'[x].pc \in Versioned => call'[x].date = d
                              /\ call'[x].pc # "core" /\ call'[x].pc # "pinned"
            BY <3>1, <3>2, <3>3, <3>5
        <3>7. d \in Mine'
            BY <1>1 DEF Mine
        <3>8. reads' = {}
            BY <1>1, <1>5, <2>6
        <3> QED
            BY <3>4, <3>6, <3>7, <3>8 DEF DatesOK, Dated, OfTheDay, PendingCore
    <2> QED
        BY <1>1, <1>2, <2>4, <2>5, <2>6, ShellGoesOn
<1>7. CASE store.mode # "v2"
    <2>1. PICK s : s = [store EXCEPT !.selected = d]
        OBVIOUS
    <2>2. /\ s \in Store /\ s.selected = d /\ s.shown = store.shown
          /\ s.coreDate = store.coreDate /\ s.phase = store.phase
        BY <1>2, <2>1 DEF Store
    <2>3. Stored(s) /\ PhasesRest(c, s)
        BY <1>3, <2>2 DEF Stored, PhasesRest, MarketInv, SpinnersOK, CoreOK
    <2>4. GoOnToCore(c, s, Nothing, "nothing")
        BY <1>7, <2>1 DEF SetDate
    <2>5. ASSUME ~ crossed' PROVE DatesOK'
        <3>1. PICK k : k = call'[c]
            OBVIOUS
        <3>2. k.pc = "core" /\ k.date = d /\ k.before = store.shown
            BY <1>4, <2>2, <2>4, <3>1 DEF GoOnToCore, Becomes, Ask, Free
        <3>3. \A x \in Call \ {c} : call'[x] = call[x] /\ call[x].pc \in {"free", "section", "core"}
            BY <1>4, <1>5, <2>4, <2>5 DEF GoOnToCore, Becomes
        <3>4. latest'.core = c
            BY <2>4 DEF GoOnToCore
        <3>5. /\ store'.selected = d
              /\ store'.shown = Nothing \/ (store'.shown = store.shown /\ store.shown # Nothing /\ store.shown.asOf = d)
            BY <2>2, <2>4 DEF GoOnToCore, Store
        <3>6. DatesOK
            BY <1>5, <2>5 DEF MarketInv
        <3>7. OfTheDay(store.shown)'
            <4>1. chosen \in Date
                BY MarketTyped DEF MarketInv
            <4>2. store.shown # Nothing => store.shown.asOf = Effective[chosen] /\ OfOneDay(store.shown)
                BY <3>6 DEF DatesOK, OfTheDay
            <4>3. store'.shown # Nothing => store'.shown.asOf = Effective[d]
                BY <3>5, <4>1, <4>2, MarketAssumption
            <4>4. store'.shown # Nothing => OfOneDay(store.shown)
                BY <3>5, <4>2
            <4> QED
                BY <1>1, <3>5, <4>3, <4>4 DEF OfTheDay, OfOneDay
        <3>8. /\ \A x \in Call \ {c} : call[x].pc = "core" => OfOneDay(call[x].before)
              /\ OfOneDay(store.shown)
            BY <3>6 DEF DatesOK, Dated, OfTheDay, OfOneDay
        <3>9. \A x \in Call : /\ call'[x].pc \notin Versioned \union {"pinned"}
                              /\ call'[x].pc = "core" => OfOneDay(call'[x].before)
                              /\ latest'.core = x => call'[x].date = d
            BY <3>1, <3>2, <3>3, <3>4, <3>8 DEF Versioned
        <3>10. d \in Mine'
            BY <1>1 DEF Mine
        <3>11. reads' = {}
            BY <1>1, <1>5, <2>5
        <3>12. \A x \in Call : Dated(call[x])'
            BY <3>9 DEF Dated, OfOneDay
        <3> QED
            BY <3>5, <3>7, <3>9, <3>10, <3>11, <3>12 DEF DatesOK, PendingCore
    <2> QED
        BY <1>1, <1>2, <2>3, <2>4, <2>5, CoreGoesOn
<1> QED
    BY <1>6, <1>7

LEMMA RevisionsAppear ==
    ASSUME MarketInv, NEW d \in Date, Publish(d)
    PROVE  MarketInv'
<1>1. published' \in [Date -> 0 .. MaxPublish]
    BY Bounds DEF Publish, MarketInv, MarketTypeOK
<1> QED
    BY <1>1
    DEF Publish, MarketInv, MarketTypeOK, LoadOK, ReadOK, DatesOK, Dated, OfTheDay, OfOneDay, Mine,
        SpinnersOK, CoreOK, SectionOK, PendingCore, Loads, Fetches

-----------------------------------------------------------------------------
(* The invariant *)

LEMMA MarketBegins == MarketInit => MarketInv
<1> SUFFICES ASSUME MarketInit PROVE MarketInv
    OBVIOUS
<1>1. /\ NoPhases \in [Resource -> Phase] /\ NoSectionPhases \in [Section -> Phase]
      /\ \A r \in Resource : NoPhases[r] = "idle"
      /\ \A s \in Section : NoSectionPhases[s] = "idle"
    BY DEF NoPhases, NoSectionPhases, Phase
<1>2. Free \in CallState
    BY Bounds DEF Free, CallState
<1> HIDE DEF NoPhases, NoSectionPhases
<1>3. /\ store \in Store /\ store.shown = Nothing /\ store.selected = Today /\ ~ store.loading
      /\ store.coreDate = Nothing /\ store.phase = NoPhases /\ store.sectionPhase = NoSectionPhases
    BY <1>1, MarketAssumption DEF MarketInit, Store, Phase
<1>4. call \in [Call -> CallState] /\ \A c \in Call : call[c] = Free /\ call[c].pc = "free"
    BY <1>2 DEF MarketInit, Free
<1>5. MarketTypeOK
    BY <1>3, <1>4, Bounds, MarketAssumption DEF MarketInit, MarketTypeOK
<1>6. \A c \in Call : LoadOK(call[c]) /\ Dated(call[c]) /\ ~ PendingCore(c)
    BY <1>4 DEF LoadOK, Dated, PendingCore, V2, Waiting, Versioned
<1>7. DatesOK
    BY <1>3, <1>6 DEF MarketInit, DatesOK, OfTheDay, Mine
<1>8. SpinnersOK
    BY <1>1, <1>3, <1>6 DEF SpinnersOK, CoreOK, SectionOK, Spinning
<1> QED
    BY <1>5, <1>6, <1>7, <1>8 DEF MarketInit, MarketInv

LEMMA AnswersKeep ==
    ASSUME MarketInv, NEW q \in reads, ReadReturns(q)
    PROVE  MarketInv'
<1>1. Unchosen
    BY DEF ReadReturns, Unchosen
<1> QED
    BY <1>1, ReadsArrive, OverviewsArrive, ReadsConflict, ReadsFail DEF ReadReturns

LEMMA TurnsKeep ==
    ASSUME MarketInv, NEW c \in Call, Turn(c)
    PROVE  MarketInv'
<1>1. Unchosen
    BY DEF Turn, Unchosen
<1> QED
    BY <1>1, PagesCome, RestartsArrive, GroupsArrive, PagesMeetConflict, PagesAreLost DEF Turn

LEMMA MarketStep == MarketInv /\ [MarketNext]_marketVars => MarketInv'
<1> SUFFICES ASSUME MarketInv, [MarketNext]_marketVars PROVE MarketInv'
    OBVIOUS
<1>1. CASE UNCHANGED marketVars
    BY <1>1
    DEF marketVars, MarketInv, MarketTypeOK, LoadOK, ReadOK, DatesOK, Dated, OfTheDay, OfOneDay, Mine,
        SpinnersOK, CoreOK, SectionOK, PendingCore, Loads, Fetches
<1>2. ASSUME NEW c \in Call,
             \/ SectionArrives(c) \/ CoreArrives(c) \/ ShellArrives(c) \/ Turn(c)
             \/ OpenDashboard(c) \/ Reload(c) \/ RefreshTopbar(c) \/ RetryHistory(c)
      PROVE  MarketInv'
    BY <1>2, SectionsArrive, CoresArrive, ShellsArrive, TurnsKeep, ShellsOpen, TopbarRefreshes,
       HistoryIsRetried
<1>3. ASSUME NEW c \in Call, NEW r \in Resource, NEW force \in BOOLEAN, OpenPage(c, r, force)
      PROVE  MarketInv'
    BY <1>3, PagesOpen
<1>4. ASSUME NEW c \in Call, NEW s \in Section, NEW force \in BOOLEAN, OpenSection(c, s, force)
      PROVE  MarketInv'
    BY <1>4, SectionsOpen
<1>5. ASSUME NEW c \in Call, NEW d \in Date, SetDate(c, d) PROVE MarketInv'
    BY <1>5, DatesAreSet
<1>6. ASSUME NEW q \in reads, ReadReturns(q) PROVE MarketInv'
    BY <1>6, AnswersKeep
<1>7. ASSUME NEW d \in Date, Publish(d) PROVE MarketInv'
    BY <1>7, RevisionsAppear
<1> QED
    BY <1>1, <1>2, <1>3, <1>4, <1>5, <1>6, <1>7 DEF MarketNext

(* Whoever spins has somebody who will stop it, and while no date was      *)
(* changed under a request, everything under way is of the reader's date.  *)
THEOREM MarketInvariant == MarketSpec => []MarketInv
<1>1. MarketInit => MarketInv
    BY MarketBegins
<1>2. MarketInv /\ [MarketNext]_marketVars => MarketInv'
    BY MarketStep
<1> QED
    BY <1>1, <1>2, PTL DEF MarketSpec

(* One screen is of one date, whatever order answers arrive in, unless the *)
(* date was changed under a request that its change leaves valid           *)
(* (stores/market.ts, retainLoadedChapterEvidence and setDate).            *)
THEOREM ScreenIsOfOneDate == MarketSpec => []OneDateShown
<1>1. MarketInv => OneDateShown
    BY DEF MarketInv, DatesOK, OfTheDay, OfOneDay, OneDateShown
<1> QED
    BY <1>1, MarketInvariant, PTL

(* No late answer puts back a date the reader has left (setDate, loadCore).*)
THEOREM PickerIsTheReaders == MarketSpec => []DateIsTheReaders
<1>1. MarketInv => DateIsTheReaders
    BY DEF MarketInv, DatesOK, Mine, DateIsTheReaders
<1> QED
    BY <1>1, MarketInvariant, PTL

-----------------------------------------------------------------------------
(* The spinner of the breadth history *)

(* The loads that will come to the history's request, or be broken off.    *)
Restores(k) ==
    k.of = Group /\ (k.pc \in {"page", "group"} \/ (k.pc = "pinned" /\ ~ k.restart))

HistoryInv ==
    /\ \A c \in Call : call[c].pc = "group" => call[c].of = Group
    /\ store.history \in Spinning => store.lost \/ \E c \in Call : Restores(call[c])

Moves(c) == \E k : call' = [call EXCEPT ![c] = k] /\ (k.pc = "group" => k.of = Group)

(* A step of one load: the history that spins after it is lost, or is this *)
(* load's to restore, or was another's before and still is.                *)
LEMMA HistoryEases ==
    ASSUME MarketInv, HistoryInv, NEW c \in Call, Moves(c),
           store'.history \in Spinning =>
              \/ store'.lost
              \/ Restores(call'[c])
              \/ /\ store.history \in Spinning /\ (store.lost => store'.lost)
                 /\ ~ Restores(call[c])
    PROVE  HistoryInv'
<1>1. PICK k : call' = [call EXCEPT ![c] = k] /\ (k.pc = "group" => k.of = Group)
    BY DEF Moves
<1>2. call'[c] = k /\ \A x \in Call \ {c} : call'[x] = call[x]
    BY <1>1 DEF MarketInv, MarketTypeOK
<1>3. \A x \in Call : call'[x].pc = "group" => call'[x].of = Group
    BY <1>1, <1>2 DEF HistoryInv
<1>4. ASSUME store'.history \in Spinning
      PROVE  store'.lost \/ \E x \in Call : Restores(call'[x])
    <2>1. CASE store'.lost \/ Restores(call'[c])
        BY <2>1
    <2>2. CASE store.history \in Spinning /\ ~ store.lost /\ ~ Restores(call[c])
        <3>1. PICK x \in Call : Restores(call[x])
            BY <2>2 DEF HistoryInv
        <3> QED
            BY <1>2, <2>2, <3>1
    <2> QED
        BY <1>4, <2>1, <2>2
<1>5. \A x \in Call : Restores(call[x])' <=> Restores(call'[x])
    BY DEF Restores
<1> QED
    BY <1>3, <1>4, <1>5 DEF HistoryInv, Spinning

LEMMA HistoryStays ==
    ASSUME MarketInv, HistoryInv, NEW c \in Call, Moves(c), ~ Restores(call[c]),
           store'.history = store.history, store'.lost = store.lost
    PROVE  HistoryInv'
    BY HistoryEases

LEMMA EndsMoves == ASSUME NEW c \in Call, Ends(c) PROVE Moves(c)
<1>1. Free.pc # "group"
    BY DEF Free
<1> QED
    BY <1>1 DEF Ends, Becomes, Moves

(* The operations that leave the history alone. *)
LEMMA CoreKeepsHistory ==
    ASSUME NEW c \in Call, NEW s \in Store, NEW r, NEW after, GoOnToCore(c, s, r, after)
    PROVE  Moves(c) /\ store'.history = s.history /\ store'.lost = s.lost
<1>1. PICK k : k = Ask([Free EXCEPT !.pc = "core", !.of = r, !.after = after,
                           !.before = s.shown, !.kept = s.sections], s.selected, Nothing)
    OBVIOUS
<1>2. k.pc = "core" /\ Becomes(c, k)
    BY <1>1 DEF GoOnToCore, Ask, Free
<1>3. Moves(c)
    BY <1>2 DEF Moves, Becomes
<1>4. PICK shown, sections, phases, coreDate :
         store' = [s EXCEPT !.shown = shown, !.sections = sections, !.sectionPhase = phases,
                            !.coreDate = coreDate, !.loading = TRUE, !.failed = FALSE]
    <2>1. PICK same \in BOOLEAN : same = (s.shown # Nothing /\ s.shown.asOf = s.selected)
        OBVIOUS
    <2>2. store' = [s EXCEPT !.shown = IF same THEN s.shown ELSE Nothing,
                             !.sections = IF same THEN s.sections ELSE {},
                             !.sectionPhase = PhasesAnew(s, same),
                             !.coreDate = IF same THEN s.coreDate ELSE Nothing,
                             !.loading = TRUE, !.failed = FALSE]
        BY <2>1 DEF GoOnToCore, Store
    <2> QED
        BY <2>2
<1> QED
    BY <1>3, <1>4 DEF Store

LEMMA SectionKeepsHistory ==
    ASSUME NEW c \in Call, NEW s \in Store, NEW x, NEW force, GoOnToSection(c, s, x, force)
    PROVE  Moves(c) /\ store'.history = s.history /\ store'.lost = s.lost
<1>1. CASE Ends(c) /\ (store' = s \/ store' = [s EXCEPT !.sectionPhase[x] = "ready"])
    BY <1>1, EndsMoves DEF Store
<1>2. CASE /\ store' = [s EXCEPT !.sectionPhase[x] = Spinner(x \in s.sections)]
           /\ Becomes(c, Ask([Free EXCEPT !.pc = "section", !.of = x], s.coreDate, Nothing))
    <2>1. PICK k : k = Ask([Free EXCEPT !.pc = "section", !.of = x], s.coreDate, Nothing)
        OBVIOUS
    <2>2. k.pc = "section"
        BY <2>1 DEF Ask, Free
    <2> QED
        BY <1>2, <2>1, <2>2 DEF Moves, Becomes, Store
<1> QED
    BY <1>1, <1>2 DEF GoOnToSection

LEMMA ShellKeepsHistory ==
    ASSUME NEW c \in Call, NEW s \in Store, NEW force, GoOnToShell(c, s, force)
    PROVE  Moves(c) /\ store'.history = s.history /\ store'.lost = s.lost
<1>1. PICK k : k = Ask([Free EXCEPT !.pc = "shell", !.force = force], s.selected, Nothing)
    OBVIOUS
<1>2. k.pc = "shell" /\ Becomes(c, k)
    BY <1>1 DEF GoOnToShell, Ask, Free
<1> QED
    BY <1>2 DEF Moves, Becomes, GoOnToShell, Store

LEMMA EvidenceKeepsHistory ==
    ASSUME NEW s \in Store, NEW stamps \in SUBSET (Part \X (Stamp \union {Nothing}))
    PROVE  LET e == Evidence(s, stamps) IN
           e \in Store /\ e.history = s.history /\ e.lost = s.lost
<1>1. PICK e : e = Evidence(s, stamps)
    OBVIOUS
<1>2. e \in Store /\ e = [s EXCEPT !.shown = e.shown]
    BY <1>1, EvidenceGoesIn
<1>3. e.history = s.history /\ e.lost = s.lost
    BY <1>2 DEF Store
<1> QED
    BY <1>1, <1>2, <1>3

LEMMA LoadedKeepsHistory ==
    ASSUME NEW s \in Store, NEW r \in Resource
    PROVE  Loaded(s, r).history = s.history /\ Loaded(s, r).lost = s.lost
    BY DEF Loaded, Store

LEMMA SectionsArriveBesideHistory ==
    ASSUME MarketInv, HistoryInv, NEW c \in Call, SectionArrives(c)
    PROVE  HistoryInv'
<1>1. store \in Store /\ call[c].pc = "section" /\ Ends(c) /\ call[c].of \in Section /\ call[c].date \in Date
    BY MarketTyped DEF MarketInv, SectionArrives, CallAt, LoadOK, Waiting, CallState
<1>2. Moves(c) /\ ~ Restores(call[c])
    BY <1>1, EndsMoves DEF Restores
<1>3. CASE store' = store \/ store' = [store EXCEPT !.sectionPhase[call[c].of] = "error"]
    BY <1>1, <1>2, <1>3, HistoryStays DEF Store
<1>4. ASSUME NEW more \in SUBSET Section, store' = Merge(store, c, more)
      PROVE  HistoryInv'
    <2>1. PICK new : new = {<<p, <<call[c].date, published[call[c].date]>>>> :
                                p \in PartsOf({call[c].of} \union more)}
        OBVIOUS
    <2>2. new \in SUBSET (Part \X (Stamp \union {Nothing}))
        <3>1. published[call[c].date] \in 0 .. MaxPublish
            BY <1>1, MarketTyped DEF MarketInv
        <3> QED
            BY <1>1, <2>1, <3>1, PartsOfSections DEF Stamp
    <2>3. PICK e : e = Evidence(store, new)
        OBVIOUS
    <2>4. e \in Store /\ e.history = store.history /\ e.lost = store.lost
        BY <1>1, <2>2, <2>3, EvidenceKeepsHistory
    <2>5. store' = [e EXCEPT !.sections = @ \union {call[c].of} \union more,
                             !.sectionPhase[call[c].of] = "ready"]
        BY <1>4, <2>1, <2>3 DEF Merge
    <2>6. store'.history = e.history /\ store'.lost = e.lost
        BY <2>4, <2>5 DEF Store
    <2> QED
        BY <1>2, <2>4, <2>6, HistoryStays
<1> QED
    BY <1>3, <1>4 DEF SectionArrives

LEMMA AfterCoreKeepsHistory ==
    ASSUME NEW c \in Call, NEW s \in Store, AfterCore(c, s)
    PROVE  Moves(c) /\ store'.history = s.history /\ store'.lost = s.lost
<1>1. CASE call[c].after = "section"
    BY <1>1, SectionKeepsHistory DEF AfterCore
<1>2. CASE call[c].after # "section"
    <2>1. Ends(c) /\ (store' = s \/ store' = [s EXCEPT !.loading = FALSE])
        BY <1>2 DEF AfterCore
    <2> QED
        BY <2>1, EndsMoves DEF Store
<1> QED
    BY <1>1, <1>2

LEMMA CoresArriveBesideHistory ==
    ASSUME MarketInv, HistoryInv, NEW c \in Call, CoreArrives(c)
    PROVE  HistoryInv'
<1> DEFINE d == Effective[call[c].date]
<1>1. store \in Store /\ call[c].pc = "core" /\ call[c].date \in Date /\ ~ Restores(call[c])
    <2>1. call[c] \in CallState /\ LoadOK(call[c]) /\ call[c].pc = "core"
        BY MarketTyped DEF MarketInv, CoreArrives, CallAt
    <2>2. call[c].date \in Date
        BY <2>1 DEF LoadOK, Waiting, CallState
    <2> QED
        BY <2>1, <2>2 DEF Restores, MarketInv, MarketTypeOK
<1>2. d \in Date
    BY <1>1, MarketAssumption
<1>3. CASE AfterCore(c, store)
    BY <1>1, <1>3, AfterCoreKeepsHistory, HistoryStays
<1>4. CASE AfterCore(c, [store EXCEPT !.shown = Retain(c, d), !.selected = d,
                                      !.coreDate = d, !.loading = FALSE])
    <2>1. PICK s : s = [store EXCEPT !.shown = Retain(c, d), !.selected = d,
                                     !.coreDate = d, !.loading = FALSE]
        OBVIOUS
    <2>2. Retain(c, d) \in Shown
        BY <1>1, <1>2, RetainedIsOfOneDay DEF MarketInv
    <2>3. s \in Store /\ s.history = store.history /\ s.lost = store.lost
        BY <1>1, <1>2, <2>1, <2>2 DEF Store
    <2> QED
        BY <1>1, <1>4, <2>1, <2>3, AfterCoreKeepsHistory, HistoryStays
<1>5. CASE AfterCore(c, [store EXCEPT !.failed = TRUE, !.loading = FALSE])
    <2>1. PICK s : s = [store EXCEPT !.failed = TRUE, !.loading = FALSE]
        OBVIOUS
    <2>2. s \in Store /\ s.history = store.history /\ s.lost = store.lost
        BY <1>1, <2>1 DEF Store
    <2> QED
        BY <1>1, <1>5, <2>1, <2>2, AfterCoreKeepsHistory, HistoryStays
<1> QED
    BY <1>3, <1>4, <1>5 DEF CoreArrives

LEMMA ShellsArriveBesideHistory ==
    ASSUME MarketInv, HistoryInv, NEW c \in Call, ShellArrives(c)
    PROVE  HistoryInv'
<1> DEFINE d == call[c].date
<1>1. store \in Store /\ call[c].pc = "shell" /\ d \in Date /\ ~ Restores(call[c])
    <2>1. call[c] \in CallState /\ LoadOK(call[c]) /\ call[c].pc = "shell"
        BY MarketTyped DEF MarketInv, ShellArrives, CallAt
    <2>2. call[c].date \in Date
        BY <2>1 DEF LoadOK, Waiting, Versioned, CallState
    <2> QED
        BY <2>1, <2>2 DEF Restores, MarketInv, MarketTypeOK
<1>2. ASSUME NEW n \in 0 .. MaxPublish, Ends(c),
             LET s == Overview(store, d, n)
                 t == IF call[c].force THEN [Unloaded(s) EXCEPT !.history = "idle"] ELSE s IN
             store' = [t EXCEPT !.mode = "v2", !.coreDate = d, !.selected = d, !.loading = FALSE]
      PROVE  HistoryInv'
    <2>1. PICK s : s = Overview(store, d, n)
        OBVIOUS
    <2>2. s \in Store /\ s.history = store.history /\ s.lost = store.lost
        <3>1. s \in Store
            BY <1>1, <1>2, <2>1, OverviewShows
        <3> QED
            BY <1>1, <2>1, <3>1 DEF Overview, Store
    <2>3. CASE call[c].force
        <3>1. PICK u : u = Unloaded(s)
            OBVIOUS
        <3>2. u \in Store
            BY <2>2, <3>1 DEF Unloaded, Store, NoPhases, Phase
        <3>3. PICK t : t = [u EXCEPT !.history = "idle"]
            OBVIOUS
        <3>4. t \in Store /\ t.history = "idle"
            BY <3>2, <3>3 DEF Store, Phase
        <3>5. store' = [t EXCEPT !.mode = "v2", !.coreDate = d, !.selected = d, !.loading = FALSE]
            BY <1>2, <2>1, <2>3, <3>1, <3>3
        <3>6. store'.history = "idle"
            BY <3>4, <3>5 DEF Store
        <3> QED
            BY <1>2, <3>6, EndsMoves, HistoryEases DEF Spinning
    <2>4. CASE ~ call[c].force
        <3>1. store' = [s EXCEPT !.mode = "v2", !.coreDate = d, !.selected = d, !.loading = FALSE]
            BY <1>2, <2>1, <2>4
        <3>2. store'.history = store.history /\ store'.lost = store.lost
            BY <2>2, <3>1 DEF Store
        <3> QED
            BY <1>1, <1>2, <3>2, EndsMoves, HistoryStays
    <2> QED
        BY <2>3, <2>4
<1>3. CASE /\ store' = [store EXCEPT !.mode = "v2", !.revision = Nothing, !.shown = Nothing,
                                     !.failed = TRUE, !.loading = FALSE]
           /\ Ends(c)
    BY <1>1, <1>3, EndsMoves, HistoryStays DEF Store
<1>4. CASE GoOnToCore(c, [store EXCEPT !.mode = "legacy"], Nothing, "shell")
    <2>1. PICK s : s = [store EXCEPT !.mode = "legacy"]
        OBVIOUS
    <2>2. s \in Store /\ s.history = store.history /\ s.lost = store.lost
        BY <1>1, <2>1 DEF Store
    <2> QED
        BY <1>1, <1>4, <2>1, <2>2, CoreKeepsHistory, HistoryStays
<1> QED
    BY <1>2, <1>3, <1>4 DEF ShellArrives

(* loadBreadthHistory announces its request, or is not come to. *)
LEMMA HistoryIsAnnounced ==
    ASSUME MarketInv, HistoryInv, NEW c \in Call, NEW s \in Store,
           s.history = store.history, s.lost = store.lost,
           NEW state \in CallState, state.of = Group,
           Restores(call[c]) => Restarting(state), GoOnToHistory(c, s, state)
    PROVE  HistoryInv'
<1>1. CASE ~ (s.mode = "v2" /\ s.shown # Nothing /\ s.revision # Nothing)
    <2>1. store' = BrokenOff(s, state) /\ Ends(c)
        BY <1>1 DEF GoOnToHistory
    <2>2. store'.history = s.history /\ store'.lost = (s.lost \/ Restarting(state))
        BY <2>1, BreakingOff
    <2> QED
        BY <2>1, <2>2, EndsMoves, HistoryEases
<1>2. CASE s.mode = "v2" /\ s.shown # Nothing /\ s.revision # Nothing
    <2>1. PICK k : k = Ask([state EXCEPT !.pc = "page", !.got = {}], s.selected, s.revision)
        OBVIOUS
    <2>2. k.pc = "page" /\ k.of = Group
        BY <2>1 DEF Ask, CallState
    <2>3. call' = [call EXCEPT ![c] = k]
        BY <1>2, <2>1 DEF GoOnToHistory, GoOnToPages, Becomes
    <2>4. call'[c] = k /\ Moves(c)
        BY <2>2, <2>3 DEF Moves, MarketInv, MarketTypeOK
    <2> QED
        BY <2>2, <2>4, HistoryEases DEF Restores
<1> QED
    BY <1>1, <1>2

LEMMA LoadsFailBesideHistory ==
    ASSUME MarketInv, HistoryInv, NEW c \in Call, LoadFails(c),
           Restores(call[c]) => Restarting(call[c])
    PROVE  HistoryInv'
<1>1. store \in Store
    BY DEF MarketInv, MarketTypeOK
<1>2. PICK b : b = BrokenOff(store, call[c])
    OBVIOUS
<1>3. b \in Store /\ b.history = store.history /\ b.lost = (store.lost \/ Restarting(call[c]))
    BY <1>1, <1>2, BreakingOff
<1>4. ASSUME Moves(c), store'.history = b.history, store'.lost = b.lost PROVE HistoryInv'
    BY <1>3, <1>4, HistoryEases
<1>5. CASE store' = b /\ Ends(c)
    BY <1>4, <1>5, EndsMoves
<1>6. CASE Reject(c, b)
    <2>1. PICK s : s = [b EXCEPT !.phase[call[c].of] = "error", !.mode = "legacy"]
        OBVIOUS
    <2>2. s \in Store /\ s.history = b.history /\ s.lost = b.lost
        BY <1>3, <2>1 DEF Store, Phase
    <2> QED
        BY <1>4, <1>6, <2>1, <2>2, CoreKeepsHistory DEF Reject
<1>7. CASE DropGroup(c, b)
    <2>1. PICK t : t = Evidence([b EXCEPT !.phase[Group] = "error"],
                                {<<p, Nothing>> : p \in Parts(Group)})
        OBVIOUS
    <2>2. t.history = b.history /\ t.lost = b.lost
        BY <1>3, <2>1, DroppedGroup
    <2> QED
        BY <1>4, <1>7, <2>1, <2>2, EndsMoves DEF DropGroup
<1> QED
    BY <1>2, <1>5, <1>6, <1>7 DEF LoadFails

LEMMA CommitsBesideHistory ==
    ASSUME MarketInv, HistoryInv, NEW c \in Call, call[c].pc = "pinned",
           NEW got \in SUBSET (Part \X Stamp), Commit(c, got)
    PROVE  HistoryInv'
<1> DEFINE r == call[c].of
<1>1. store \in Store /\ r \in Resource /\ call[c] \in CallState
    BY MarketTyped DEF MarketInv, LoadOK, V2
<1>2. PICK e : e = Evidence(store, got)
    OBVIOUS
<1>3. e \in Store /\ e.history = store.history /\ e.lost = store.lost
    BY <1>1, <1>2, EvidenceKeepsHistory
<1>4. PICK s : s = Loaded(e, r)
    OBVIOUS
<1>5. s \in Store /\ s.history = store.history /\ s.lost = store.lost
    BY <1>1, <1>3, <1>4, LoadedIsReady, LoadedKeepsHistory
<1>6. CASE r = Group
    <2>1. GoOnToHistory(c, s, call[c])
        BY <1>2, <1>4, <1>6 DEF Commit
    <2>2. Restores(call[c]) => Restarting(call[c])
        BY DEF Restores, Restarting
    <2> QED
        BY <1>1, <1>5, <1>6, <2>1, <2>2, HistoryIsAnnounced
<1>7. CASE r # Group /\ store' = s /\ Ends(c)
    BY <1>5, <1>7, EndsMoves, HistoryStays DEF Restores
<1>8. CASE r # Group /\ store' = s /\ GoOnToPages(c, s, call[c])
    <2>1. PICK k : k = Ask([call[c] EXCEPT !.pc = "page", !.got = {}], s.selected, s.revision)
        OBVIOUS
    <2>2. k.pc = "page"
        BY <1>1, <2>1 DEF Ask, CallState
    <2>3. Moves(c)
        BY <1>8, <2>1, <2>2 DEF GoOnToPages, Becomes, Moves
    <2> QED
        BY <1>5, <1>8, <2>3, HistoryStays DEF Restores
<1> QED
    BY <1>2, <1>4, <1>6, <1>7, <1>8 DEF Commit

LEMMA HistoryAwaits ==
    ASSUME MarketInv, HistoryInv, call' = call,
           store'.history = store.history, store'.lost = store.lost
    PROVE  HistoryInv'
    BY DEF HistoryInv, Restores, Spinning

LEMMA AnswersKeepHistory ==
    ASSUME MarketInv, HistoryInv, NEW q \in reads, ReadReturns(q)
    PROVE  HistoryInv'
<1>1. store \in Store /\ q \in PinnedRead
    BY MarketTyped DEF MarketInv
<1>2. CASE call' = call /\ store' = store
    BY <1>2, HistoryAwaits
<1>3. ASSUME NEW n \in 0 .. MaxPublish, OverviewArrives(q, n) PROVE HistoryInv'
    BY <1>1, <1>3, HistoryAwaits DEF OverviewArrives, Overview, Store
<1>4. ASSUME NEW c \in Call, c = q.call
      PROVE  call[c].pc = "pinned" /\ call[c] \in CallState /\ c # Nothing
    BY <1>4, MarketTyped, SomethingIsThere DEF MarketInv, ReadOK
<1>5. ASSUME NEW n \in 0 .. MaxPublish, ReadArrives(q, n), q.call # Nothing PROVE HistoryInv'
    <2>1. PICK c \in Call : c = q.call
        BY <1>1, <1>5 DEF PinnedRead
    <2>2. PICK got : got = call[c].got \union {<<q.part, <<q.date, n>>>>}
        OBVIOUS
    <2>3. got \in SUBSET (Part \X Stamp) /\ call[c].pc = "pinned" /\ call[c] \in CallState
        BY <1>1, <1>4, <2>1, <2>2 DEF CallState, PinnedRead, Stamp
    <2>4. CASE Becomes(c, [call[c] EXCEPT !.got = got]) /\ store' = store
        <3>1. PICK k : k = [call[c] EXCEPT !.got = got]
            OBVIOUS
        <3>2. k.pc = "pinned" /\ k.of = call[c].of /\ k.restart = call[c].restart
            BY <2>3, <3>1 DEF CallState
        <3>3. call'[c] = k /\ Moves(c)
            BY <2>4, <3>1, <3>2 DEF Becomes, Moves, MarketInv, MarketTypeOK
        <3>4. Restores(call[c]) => Restores(call'[c])
            BY <2>3, <3>2, <3>3 DEF Restores
        <3> QED
            BY <2>4, <3>3, <3>4, HistoryEases
    <2>5. CASE Commit(c, got)
        BY <2>3, <2>5, CommitsBesideHistory
    <2> QED
        BY <1>5, <2>1, <2>2, <2>4, <2>5 DEF ReadArrives
<1>6. CASE ReadFails(q) /\ q.call # Nothing
    <2>1. PICK c \in Call : c = q.call
        BY <1>1, <1>6 DEF PinnedRead
    <2>2. LoadFails(c) /\ call[c].pc = "pinned"
        BY <1>4, <1>6, <2>1 DEF ReadFails
    <2> QED
        BY <2>2, LoadsFailBesideHistory DEF Restores, Restarting
<1> QED
    BY <1>2, <1>3, <1>5, <1>6 DEF ReadReturns, ReadArrives, ReadConflicts, ReadFails

LEMMA PagesComeToHistory ==
    ASSUME MarketInv, HistoryInv, NEW c \in Call, NEW n \in 0 .. MaxPublish, PagesArrive(c, n)
    PROVE  HistoryInv'
<1> DEFINE r == call[c].of
<1>1. Turning(c) /\ store \in Store /\ Moves(c) /\ call[c].pc \in {"page", "repage"}
    BY PagesTurn, EndsMoves DEF PagesArrive, MarketInv, MarketTypeOK
<1>2. PICK b : b = IF CallAt(c, "repage") THEN [store EXCEPT !.revision = call[c].rev] ELSE store
    OBVIOUS
<1>3. b \in Store /\ b.history = store.history /\ b.lost = store.lost
    BY <1>1, <1>2 DEF Turning, CallState, Store
<1>4. PICK stamps : stamps = {<<Paged[r], <<call[c].date, n>>>>}
    OBVIOUS
<1>5. stamps \in SUBSET (Part \X (Stamp \union {Nothing}))
    <2>1. r \in Resource /\ call[c].date \in Date /\ Paged[r] # Nothing
        BY <1>1 DEF Turning, LoadOK
    <2> QED
        BY <1>4, <2>1, PartsAreParts DEF Stamp
<1>6. PICK s : s = Evidence(b, stamps)
    OBVIOUS
<1>7. s \in Store /\ s.history = store.history /\ s.lost = store.lost
    BY <1>3, <1>5, <1>6, EvidenceKeepsHistory
<1>8. CASE r = Group
    <2>1. store' = [s EXCEPT !.history = "ready"]
        BY <1>2, <1>4, <1>6, <1>8 DEF PagesArrive
    <2>2. store'.history = "ready"
        BY <1>7, <2>1 DEF Store
    <2> QED
        BY <1>1, <2>2, HistoryEases DEF Spinning
<1>9. CASE r # Group
    <2>1. store' = Loaded(s, r)
        BY <1>2, <1>4, <1>6, <1>9 DEF PagesArrive
    <2>2. store'.history = store.history /\ store'.lost = store.lost
        BY <1>1, <1>7, <2>1, LoadedKeepsHistory DEF Turning
    <2> QED
        BY <1>1, <1>9, <2>2, HistoryStays DEF Restores
<1> QED
    BY <1>8, <1>9

LEMMA TurnsKeepHistory ==
    ASSUME MarketInv, HistoryInv, NEW c \in Call, Turn(c)
    PROVE  HistoryInv'
<1>1. store \in Store /\ call[c] \in CallState
    BY MarketTyped DEF MarketInv
<1>2. CASE PagesConflict(c)
    <2>1. PICK pc, d : call' = [call EXCEPT ![c] = Ask([call[c] EXCEPT !.pc = pc], d, Nothing)]
                       /\ pc = IF call[c].of = Group THEN "group" ELSE "restart"
        BY <1>2 DEF PagesConflict, Becomes
    <2>2. PICK k : k = Ask([call[c] EXCEPT !.pc = pc], d, Nothing)
        OBVIOUS
    <2>3. k.pc = pc /\ k.of = call[c].of
        BY <1>1, <2>2 DEF Ask, CallState
    <2>4. call'[c] = k /\ Moves(c)
        BY <2>1, <2>2, <2>3 DEF Moves, MarketInv, MarketTypeOK
    <2>5. Restores(call[c]) => Restores(call'[c])
        BY <2>1, <2>3, <2>4 DEF Restores
    <2> QED
        BY <1>2, <2>4, <2>5, HistoryEases DEF PagesConflict
<1>3. ASSUME NEW n \in 0 .. MaxPublish, RestartArrives(c, n) PROVE HistoryInv'
    <2>1. PICK k : k = Ask([call[c] EXCEPT !.pc = "repage"], call[c].date, <<call[c].date, n>>)
        OBVIOUS
    <2>2. k.pc = "repage"
        BY <1>1, <2>1 DEF Ask, CallState
    <2>3. Moves(c) /\ call[c].pc = "restart"
        BY <1>3, <2>1, <2>2 DEF RestartArrives, CallAt, Becomes, Moves
    <2> QED
        BY <1>3, <2>3, HistoryStays DEF RestartArrives, Restores
<1>4. ASSUME NEW n \in 0 .. MaxPublish, GroupArrives(c, n) PROVE HistoryInv'
    <2>1. PICK k : k = [call[c] EXCEPT !.pc = "pinned", !.restart = FALSE, !.got = {}]
        OBVIOUS
    <2>2. k.pc = "pinned" /\ k.of = call[c].of /\ ~ k.restart
        BY <1>1, <2>1 DEF CallState
    <2>3. call'[c] = k /\ Moves(c)
        BY <1>4, <2>1, <2>2 DEF GroupArrives, Becomes, Moves, MarketInv, MarketTypeOK
    <2>4. call[c].of = Group
        BY <1>4 DEF GroupArrives, CallAt, HistoryInv
    <2> QED
        BY <2>2, <2>3, <2>4, HistoryEases DEF Restores
<1>5. CASE PagesFail(c)
    <2>1. CASE call[c].of = Group /\ CallAt(c, "page")
        <3>1. store' = [store EXCEPT !.history = "error"] /\ Ends(c)
            BY <1>5, <2>1 DEF PagesFail
        <3>2. store'.history = "error"
            BY <1>1, <3>1 DEF Store
        <3> QED
            BY <3>1, <3>2, EndsMoves, HistoryEases DEF Spinning
    <2>2. CASE ~ (call[c].of = Group /\ CallAt(c, "page"))
        <3>1. LoadFails(c)
            BY <1>5, <2>2 DEF PagesFail
        <3>2. Restores(call[c]) => Restarting(call[c])
            BY <2>2 DEF Restores, Restarting, CallAt
        <3> QED
            BY <3>1, <3>2, LoadsFailBesideHistory
    <2> QED
        BY <2>1, <2>2
<1> QED
    BY <1>2, <1>3, <1>4, <1>5, PagesComeToHistory DEF Turn

LEMMA ReadersKeepHistory ==
    ASSUME MarketInv, HistoryInv, NEW c \in Call,
           \/ OpenDashboard(c) \/ Reload(c) \/ RefreshTopbar(c) \/ RetryHistory(c)
           \/ \E x \in Section, force \in BOOLEAN : OpenSection(c, x, force)
    PROVE  HistoryInv'
<1>1. store \in Store /\ ~ Restores(call[c])
    BY DEF OpenDashboard, Reload, RefreshTopbar, RetryHistory, OpenSection, Start, CallAt, Restores,
           MarketInv, MarketTypeOK
<1>2. CASE OpenDashboard(c) \/ Reload(c)
    BY <1>1, <1>2, ShellKeepsHistory, HistoryStays DEF OpenDashboard, Reload
<1>3. CASE RefreshTopbar(c)
    BY <1>1, <1>3, CoreKeepsHistory, HistoryStays DEF RefreshTopbar
<1>4. CASE \E x \in Section, force \in BOOLEAN : OpenSection(c, x, force)
    BY <1>1, <1>4, SectionKeepsHistory, HistoryStays DEF OpenSection
<1>5. CASE RetryHistory(c)
    <2>1. PICK state : state = [Free EXCEPT !.of = Group, !.force = TRUE, !.restart = TRUE]
        OBVIOUS
    <2>2. state \in CallState /\ state.of = Group
        BY <2>1, Bounds, MarketAssumption DEF Free, CallState
    <2> QED
        BY <1>1, <1>5, <2>1, <2>2, HistoryIsAnnounced DEF RetryHistory
<1> QED
    BY <1>2, <1>3, <1>4, <1>5

LEMMA PagesOpenBesideHistory ==
    ASSUME MarketInv, HistoryInv, NEW c \in Call, NEW r \in Resource, NEW force \in BOOLEAN, OpenPage(c, r, force)
    PROVE  HistoryInv'
<1>1. store \in Store /\ ~ Restores(call[c])
    BY DEF OpenPage, Start, CallAt, Restores, MarketInv, MarketTypeOK
<1>2. PICK s : s = [store EXCEPT !.phase[r] = Spinner(@ = "ready")]
    OBVIOUS
<1>3. s.history = store.history /\ s.lost = store.lost
    BY <1>1, <1>2 DEF Store
<1>4. PICK state : state = [Free EXCEPT !.of = r, !.restart = (r = Group)]
    OBVIOUS
<1>5. store' = s /\ (GoOnToPages(c, s, state) \/ Becomes(c, [state EXCEPT !.pc = "pinned"]))
    BY <1>2, <1>4 DEF OpenPage
<1>6. CASE GoOnToPages(c, s, state)
    <2>1. PICK k : k = Ask([state EXCEPT !.pc = "page", !.got = {}], s.selected, s.revision)
        OBVIOUS
    <2>2. k.pc = "page"
        BY <1>4, <2>1 DEF Ask, Free
    <2>3. Moves(c)
        BY <1>6, <2>1, <2>2 DEF GoOnToPages, Becomes, Moves
    <2> QED
        BY <1>1, <1>3, <1>5, <2>3, HistoryStays
<1>7. CASE Becomes(c, [state EXCEPT !.pc = "pinned"])
    <2>1. PICK k : k = [state EXCEPT !.pc = "pinned"]
        OBVIOUS
    <2>2. k.pc = "pinned"
        BY <1>4, <2>1 DEF Free
    <2>3. Moves(c)
        BY <1>7, <2>1, <2>2 DEF Becomes, Moves
    <2> QED
        BY <1>1, <1>3, <1>5, <2>3, HistoryStays
<1> QED
    BY <1>5, <1>6, <1>7

LEMMA DatesAreSetBesideHistory ==
    ASSUME MarketInv, HistoryInv, NEW c \in Call, NEW d \in Date, SetDate(c, d)
    PROVE  HistoryInv'
<1>1. store \in Store /\ ~ Restores(call[c])
    BY DEF SetDate, CallAt, Restores, MarketInv, MarketTypeOK
<1>2. CASE store.mode = "v2"
    <2>1. PICK u : u = Unloaded(store)
        OBVIOUS
    <2>2. u \in Store
        BY <1>1, <2>1 DEF Unloaded, Store, NoPhases, Phase
    <2>3. PICK s : s = [Forget(store) EXCEPT !.selected = d]
        OBVIOUS
    <2>4. s = [u EXCEPT !.shown = Nothing, !.revision = Nothing, !.history = "idle", !.selected = d]
        BY <2>1, <2>2, <2>3 DEF Forget, Store
    <2>5. s \in Store /\ s.history = "idle"
        BY <2>2, <2>4 DEF Store, Phase
    <2>6. GoOnToShell(c, s, FALSE)
        BY <1>2, <2>3 DEF SetDate
    <2>7. Moves(c) /\ store'.history = "idle"
        BY <2>5, <2>6, ShellKeepsHistory
    <2> QED
        BY <2>7, HistoryEases DEF Spinning
<1>3. CASE store.mode # "v2"
    <2>1. PICK s : s = [store EXCEPT !.selected = d]
        OBVIOUS
    <2>2. s \in Store /\ s.history = store.history /\ s.lost = store.lost
        BY <1>1, <2>1 DEF Store
    <2>3. GoOnToCore(c, s, Nothing, "nothing")
        BY <1>3, <2>1 DEF SetDate
    <2> QED
        BY <1>1, <2>2, <2>3, CoreKeepsHistory, HistoryStays
<1> QED
    BY <1>2, <1>3

LEMMA HistoryStep == MarketInv /\ HistoryInv /\ [MarketNext]_marketVars => HistoryInv'
<1> SUFFICES ASSUME MarketInv, HistoryInv, [MarketNext]_marketVars PROVE HistoryInv'
    OBVIOUS
<1>1. CASE UNCHANGED marketVars \/ \E d \in Date : Publish(d)
    BY <1>1, HistoryAwaits DEF marketVars, Publish
<1>2. ASSUME NEW c \in Call, SectionArrives(c) \/ CoreArrives(c) \/ ShellArrives(c) \/ Turn(c)
      PROVE  HistoryInv'
    BY <1>2, SectionsArriveBesideHistory, CoresArriveBesideHistory, ShellsArriveBesideHistory,
       TurnsKeepHistory
<1>3. ASSUME NEW c \in Call,
             \/ OpenDashboard(c) \/ Reload(c) \/ RefreshTopbar(c) \/ RetryHistory(c)
             \/ \E s \in Section, force \in BOOLEAN : OpenSection(c, s, force)
      PROVE  HistoryInv'
    BY <1>3, ReadersKeepHistory
<1>4. ASSUME NEW c \in Call, NEW r \in Resource, NEW force \in BOOLEAN, OpenPage(c, r, force)
      PROVE  HistoryInv'
    BY <1>4, PagesOpenBesideHistory
<1>5. ASSUME NEW c \in Call, NEW d \in Date, SetDate(c, d) PROVE HistoryInv'
    BY <1>5, DatesAreSetBesideHistory
<1>6. ASSUME NEW q \in reads, ReadReturns(q) PROVE HistoryInv'
    BY <1>6, AnswersKeepHistory
<1> QED
    BY <1>1, <1>2, <1>3, <1>4, <1>5, <1>6 DEF MarketNext

LEMMA HistoryIsRestored == MarketSpec => []HistoryInv
<1>1. MarketInit => HistoryInv
    BY DEF MarketInit, HistoryInv, Spinning, Free
<1> QED
    BY <1>1, HistoryStep, MarketInvariant, PTL DEF MarketSpec

(* When no load is under way, nothing spins: whichever answers were        *)
(* dropped as old, and whoever fell back to the legacy API meanwhile.      *)
(* Only the breadth history may, after a restart of its group was broken   *)
(* off (restartBreadthGroup, loadBreadthHistory).                          *)
THEOREM NoSpinnerIsLeft == MarketSpec => []QuietMeansSettled
<1>1. MarketInv /\ HistoryInv => QuietMeansSettled
    <2> SUFFICES ASSUME MarketInv, HistoryInv, \A c \in Call : call[c].pc = "free"
                 PROVE  /\ ~ store.loading
                        /\ \A r \in Resource : store.phase[r] \notin Spinning
                        /\ store.mode # "v2" =>
                              \A s \in Section : store.sectionPhase[s] \notin Spinning
                        /\ store.history \in Spinning => store.lost
        BY DEF QuietMeansSettled, CallAt, Spinning
    <2>1. ~ store.loading
        BY DEF MarketInv, SpinnersOK, CoreOK, PendingCore
    <2>2. \A r \in Resource : store.phase[r] \notin Spinning
        BY DEF MarketInv, SpinnersOK, Loads
    <2>3. store.mode # "v2" => \A s \in Section : store.sectionPhase[s] \notin Spinning
        BY DEF MarketInv, SpinnersOK, SectionOK, Fetches
    <2>4. store.history \in Spinning => store.lost
        BY DEF HistoryInv, Restores
    <2> QED
        BY <2>1, <2>2, <2>3, <2>4
<1> QED
    BY <1>1, MarketInvariant, HistoryIsRestored, PTL
================================================================================
