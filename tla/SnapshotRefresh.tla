--------------------------- MODULE SnapshotRefresh ---------------------------
(***************************************************************************)
(* The dashboard's single flight over one dataset/date: requests of the    *)
(* legacy service read the snapshot (_read_snapshot_group) and refresh it  *)
(* when it is missing, or have it refreshed in the background when it is   *)
(* stale (SnapshotRefresher._refresh_dataset).                             *)
(*                                                                         *)
(* Several processes share the store.  Requests of one process take turns  *)
(* (_chapter_load_lock); background jobs do not.  Refreshes that wait for  *)
(* the same lease form a cohort: they have seen the same generation, the   *)
(* id of the last refresh that completed, and after the first of them has  *)
(* completed the others have nothing to fetch.                             *)
(*                                                                         *)
(* The lease is the abstract one that RefreshLease implements: it has one  *)
(* holder, and may run out under it at any time.                           *)
(***************************************************************************)
EXTENDS Integers, FiniteSets

CONSTANTS
    Reader,         \* request threads
    ProcessOf,      \* ProcessOf[r]: the process a request thread is in
    Nobody,         \* no lease; nobody in the lock
    MaxReads,       \* bound: requests
    MaxLapses,      \* bound: leases that run out
    MaxCrashes      \* bound: processes that die

(* A request refreshes on its own thread, and may leave a job behind. *)
Actor == Reader \X {"request", "job"}
Process == {ProcessOf[r] : r \in Reader}
Generation == 0 .. MaxReads

ASSUME RefreshAssumption ==
    /\ {MaxReads, MaxLapses, MaxCrashes} \subseteq Nat
    /\ IsFiniteSet(Reader) /\ Nobody \notin Actor \union Reader

VARIABLES
    snapshot,       \* the entry: missing, fresh or stale; with a warning or not
    lease,          \* its holder, what it had seen, whether it has fetched (history)
    live,           \* the lease has not run out
    recorded,       \* the largest id of refresh_runs
    completed,      \* the largest id of a refresh that completed
    actor,          \* actor[a]: what a request or a job is doing
    lock,           \* lock[p]: the request in _chapter_load_lock
    fetches,        \* history: provider fetches of the cohort that saw g
    lapses,         \* history: leases of that cohort that have run out
    bound           \* how much of the bounds has been used

vars == <<snapshot, lease, live, recorded, completed, actor, lock, fetches, lapses, bound>>

Unfetched == {"busy", "reused", "retryable"}
Completing == {"stored", "retained", "missing"}
Results == Unfetched \union Completing \union {"fenced", "none"}

NoLease == [holder |-> Nobody, seen |-> 0, fetched |-> FALSE]
Idle == [pc |-> "idle", seen |-> 0, result |-> "none"]

PCs == {"idle", "lock", "lookup", "probe", "observe", "acquire", "recheck",
        "generation", "fetch", "admit", "put", "existing", "admitWarning",
        "warn", "record", "release", "reread", "poll"}

Leases == [holder : Actor \union {Nobody}, seen : Nat, fetched : BOOLEAN]
Calls == [pc : PCs, seen : Nat, result : Results]

TypeOK ==
    /\ snapshot \in [state : {"missing", "fresh", "stale"}, warned : BOOLEAN]
    /\ lease \in Leases
    /\ live \in BOOLEAN /\ (live => lease.holder # Nobody)
    /\ recorded \in Nat /\ completed \in 0 .. recorded
    /\ actor \in [Actor -> Calls]
    /\ lock \in [Process -> Reader \union {Nobody}]
    /\ fetches \in [Generation -> Nat] /\ lapses \in [Generation -> Nat]
    /\ bound \in [reads : Nat, lapses : Nat, crashes : Nat]

Init ==
    /\ snapshot \in [state : {"missing", "stale"}, warned : {FALSE}]
    /\ lease = NoLease /\ live = FALSE
    /\ recorded = 0 /\ completed = 0
    /\ actor = [a \in Actor |-> Idle]
    /\ lock = [p \in Process |-> Nobody]
    /\ fetches = [g \in Generation |-> 0] /\ lapses = [g \in Generation |-> 0]
    /\ bound = [reads |-> 0, lapses |-> 0, crashes |-> 0]

-----------------------------------------------------------------------------
(* Helpers *)

At(a, pc) == actor[a].pc = pc
Continue(a, changed) == actor' = [actor EXCEPT ![a] = changed]
Goto(a, pc) == Continue(a, [actor[a] EXCEPT !.pc = pc])
Report(a, result, pc) == Continue(a, [actor[a] EXCEPT !.result = result, !.pc = pc])

Holds(a) == lease.holder = a /\ live

Request(r) == <<r, "request">>
Job(r) == <<r, "job">>

StoreOnly == UNCHANGED <<lease, live, recorded, completed, lock, fetches, lapses, bound>>
LocalOnly == UNCHANGED snapshot /\ StoreOnly

-----------------------------------------------------------------------------
(* _load_chapter_group, _read_snapshot_group *)

Arrive(r) ==
    /\ At(Request(r), "idle") /\ At(Job(r), "idle") /\ bound.reads < MaxReads
    /\ Goto(Request(r), "lock")
    /\ bound' = [bound EXCEPT !.reads = @ + 1]
    /\ UNCHANGED <<snapshot, lease, live, recorded, completed, lock, fetches, lapses>>

Enter(r) ==
    /\ At(Request(r), "lock") /\ lock[ProcessOf[r]] = Nobody
    /\ lock' = [lock EXCEPT ![ProcessOf[r]] = r]
    /\ Goto(Request(r), "lookup")
    /\ UNCHANGED <<snapshot, lease, live, recorded, completed, fetches, lapses, bound>>

(* The request is answered, with or without a snapshot. *)
Answer(r, others) ==
    /\ lock' = [lock EXCEPT ![ProcessOf[r]] = Nobody]
    /\ actor' = [others EXCEPT ![Request(r)] = Idle]
    /\ UNCHANGED <<snapshot, lease, live, recorded, completed, fetches, lapses, bound>>

Lookup(r) ==
    /\ At(Request(r), "lookup") /\ snapshot.state # "fresh"
    /\ Goto(Request(r), IF snapshot.state = "missing" THEN "observe" ELSE "probe")
    /\ LocalOnly

LookupFresh(r) == At(Request(r), "lookup") /\ snapshot.state = "fresh" /\ Answer(r, actor)

(* has_active_lease: somebody is refreshing. *)
ProbeBusy(r) == At(Request(r), "probe") /\ live /\ Answer(r, actor)

(* get_completed_refresh_generation, and the job is submitted. *)
Submit(r) ==
    /\ At(Request(r), "probe") /\ ~ live
    /\ Answer(r, [actor EXCEPT ![Job(r)] =
                     [pc |-> "acquire", seen |-> completed, result |-> "none"]])

Observe(r) ==
    /\ At(Request(r), "observe")
    /\ Continue(Request(r), [pc |-> "acquire", seen |-> completed, result |-> "none"])
    /\ LocalOnly

Reread(r) == At(Request(r), "reread") /\ snapshot.state # "missing" /\ Answer(r, actor)

RereadMissing(r) ==
    /\ At(Request(r), "reread") /\ snapshot.state = "missing"
    /\ IF actor[Request(r)].result = "busy" THEN Goto(Request(r), "poll") /\ LocalOnly
       ELSE Answer(r, actor)

(* Mutant: the wait has no deadline. *)
PollForSnapshot(r) == At(Request(r), "poll") /\ snapshot.state # "missing" /\ Answer(r, actor)

(* Somebody's snapshot has come, or cold_wait_seconds have passed. *)
Poll(r) == At(Request(r), "poll") /\ Answer(r, actor)

-----------------------------------------------------------------------------
(* SnapshotRefresher._refresh_dataset, on the thread of request or job a *)

(* Mutant: whoever comes gets the lease. *)
AcquireAnyway(a) ==
    /\ At(a, "acquire")
    /\ lease' = [holder |-> a, seen |-> actor[a].seen, fetched |-> FALSE]
    /\ live' = TRUE
    /\ Goto(a, "recheck")
    /\ UNCHANGED <<snapshot, recorded, completed, lock, fetches, lapses, bound>>

Acquire(a) ==
    /\ At(a, "acquire") /\ ~ live
    /\ lease' = [holder |-> a, seen |-> actor[a].seen, fetched |-> FALSE]
    /\ live' = TRUE
    /\ Goto(a, "recheck")
    /\ UNCHANGED <<snapshot, recorded, completed, lock, fetches, lapses, bound>>

Busy(a) == At(a, "acquire") /\ live /\ Report(a, "busy", "record") /\ LocalOnly

Recheck(a) ==
    /\ At(a, "recheck")
    /\ IF snapshot.state = "fresh" THEN Report(a, "reused", "record")
       ELSE Goto(a, "generation")
    /\ LocalOnly

SameCohortAlways(a) == TRUE       \* Mutant: the generation is not compared
SameCohort(a) == completed = actor[a].seen

Retryable(a) ==
    /\ At(a, "generation") /\ ~ SameCohort(a)
    /\ Report(a, "retryable", "record")
    /\ LocalOnly

StartFetch(a) ==
    /\ At(a, "generation") /\ SameCohort(a)
    /\ fetches' = [fetches EXCEPT ![actor[a].seen] = @ + 1]
    /\ lease' = IF lease.holder = a THEN [lease EXCEPT !.fetched = TRUE] ELSE lease
    /\ Goto(a, "fetch")
    /\ UNCHANGED <<snapshot, live, recorded, completed, lock, lapses, bound>>

(* A payload of good quality, or anything else that can come of it *)
Fetch(a) == At(a, "fetch") /\ (Goto(a, "admit") \/ Goto(a, "existing")) /\ LocalOnly

(* put and set_refresh_warning: the lease is compared, then the row is     *)
(* written and committed.                                                  *)
Fenced(a) == Report(a, "fenced", "record")

Admit(a) ==
    /\ At(a, "admit")
    /\ IF Holds(a) THEN Goto(a, "put") ELSE Fenced(a)
    /\ LocalOnly

Put(a) ==
    /\ At(a, "put")
    /\ snapshot' = [state |-> "fresh", warned |-> FALSE]
    /\ Report(a, "stored", "record")
    /\ StoreOnly

Existing(a) ==
    /\ At(a, "existing")
    /\ IF snapshot.state = "missing" THEN Report(a, "missing", "record")
       ELSE Goto(a, "admitWarning")
    /\ LocalOnly

AdmitWarning(a) ==
    /\ At(a, "admitWarning")
    /\ IF Holds(a) THEN Goto(a, "warn") ELSE Fenced(a)
    /\ LocalOnly

Warn(a) ==
    /\ At(a, "warn")
    /\ snapshot' = [snapshot EXCEPT !.warned = TRUE]
    /\ Report(a, "retained", "record")
    /\ StoreOnly

(* record_refresh_result; the lease is released after it ("finally"). *)
Record(a) ==
    /\ At(a, "record")
    /\ recorded' = recorded + 1
    /\ completed' = IF actor[a].result \in Completing THEN recorded + 1 ELSE completed
    /\ Goto(a, IF actor[a].result = "busy" THEN "reread" ELSE "release")
    /\ UNCHANGED <<snapshot, lease, live, lock, fetches, lapses, bound>>

Release(a) ==
    /\ At(a, "release")
    /\ lease' = IF lease.holder = a THEN NoLease ELSE lease
    /\ live' = (live /\ lease.holder # a)
    /\ Goto(a, "reread")
    /\ UNCHANGED <<snapshot, recorded, completed, lock, fetches, lapses, bound>>

JobEnds(r) == At(Job(r), "reread") /\ Continue(Job(r), Idle) /\ LocalOnly

-----------------------------------------------------------------------------
(* The snapshot outlives its freshness window. *)
Age ==
    /\ snapshot.state = "fresh"
    /\ snapshot' = [snapshot EXCEPT !.state = "stale"]
    /\ UNCHANGED actor /\ StoreOnly

Lapse ==
    /\ live /\ bound.lapses < MaxLapses
    /\ live' = FALSE
    /\ lapses' = [lapses EXCEPT ![lease.seen] = @ + 1]
    /\ bound' = [bound EXCEPT !.lapses = @ + 1]
    /\ UNCHANGED <<snapshot, lease, recorded, completed, actor, lock, fetches>>

(* The lease of a dead process stays until it runs out. *)
Crash(p) ==
    /\ bound.crashes < MaxCrashes
    /\ \E a \in Actor : ProcessOf[a[1]] = p /\ ~ At(a, "idle")
    /\ actor' = [a \in Actor |-> IF ProcessOf[a[1]] = p THEN Idle ELSE actor[a]]
    /\ lock' = [lock EXCEPT ![p] = Nobody]
    /\ bound' = [bound EXCEPT !.crashes = @ + 1]
    /\ UNCHANGED <<snapshot, lease, live, recorded, completed, fetches, lapses>>

Read(r) ==
    \/ Enter(r) \/ Lookup(r) \/ LookupFresh(r) \/ ProbeBusy(r) \/ Submit(r) \/ Observe(r)
    \/ Reread(r) \/ RereadMissing(r) \/ Poll(r) \/ JobEnds(r)

Refresh(a) ==
    \/ Acquire(a) \/ Busy(a) \/ Recheck(a) \/ Retryable(a) \/ StartFetch(a) \/ Fetch(a)
    \/ Admit(a) \/ Put(a) \/ Existing(a) \/ AdmitWarning(a) \/ Warn(a) \/ Record(a) \/ Release(a)

Next ==
    \/ \E r \in Reader : Arrive(r) \/ Read(r)
    \/ \E a \in Actor : Refresh(a)
    \/ Age \/ Lapse
    \/ \E p \in Process : Crash(p)

(* Threads go on: a fetch ends by its timeouts, a poll at its deadline. *)
Spec == /\ Init /\ [][Next]_vars
        /\ WF_vars((\E r \in Reader : Read(r)) \/ \E a \in Actor : Refresh(a))

-----------------------------------------------------------------------------
(* Properties *)

(* Single flight: those who wait for one refresh do not repeat its         *)
(* provider work when it fails or stores nothing fresh.  A cohort fetches  *)
(* again only after the lease of one that fetched has run out under it.    *)
OneFetchPerCohort == \A g \in Generation : fetches[g] <= 1 + lapses[g]

(* What a refresh is about to report is what the store holds, as long as   *)
(* no lease has run out: "stored" a snapshot without a warning, "retained" *)
(* one with a warning, "missing" none, while others read and refresh.      *)
ResultsAreTrue ==
    \A a \in Actor : At(a, "record") /\ bound.lapses = 0 =>
        /\ actor[a].result = "stored" => snapshot.state # "missing" /\ ~ snapshot.warned
        /\ actor[a].result = "retained" => snapshot.state # "missing" /\ snapshot.warned
        /\ actor[a].result = "missing" => snapshot.state = "missing"
        /\ actor[a].result # "fenced"

(* Every request is answered and every job ends, though requests queue for *)
(* the lock that one of them holds through a refresh and a cold wait.      *)
RequestsReturn == []<>(\A a \in Actor : At(a, "idle"))
=============================================================================
