--------------------------- MODULE CollectionStore ---------------------------
(***************************************************************************)
(* The tables a collection works on, for one market date: collection_runs, *)
(* collection_tasks, refresh_leases and snapshot_entries.  Each operator   *)
(* below is the effect of one store call on the tables it writes; every    *)
(* call is one transaction.  The modules that extend this one say who      *)
(* calls what, and in which order.                                         *)
(*                                                                         *)
(* A task is identified by its run and its dataset.  A lease is taken in   *)
(* the name of a task.  The wall clock is reduced to one fact per lease    *)
(* row, whether it is still unexpired: RefreshLease has the clock.         *)
(***************************************************************************)
EXTENDS Integers, Sequences, FiniteSets

CONSTANTS
    Run,            \* collection runs
    Dataset,        \* the datasets of the date
    DependsOn,      \* DATASET_DEPENDENCIES: the prerequisites of a dataset
    Rank,           \* its place in SUPPORTED_COLLECTION_DATASETS
    Bound,          \* the runs an idempotency binding refers to
    NoRun

ASSUME StoreAssumption ==
    /\ DependsOn \in [Dataset -> SUBSET Dataset]
    /\ Rank \in [Dataset -> Nat]
    /\ \A c, d \in Dataset : Rank[c] = Rank[d] => c = d
    /\ \A d \in Dataset : \A p \in DependsOn[d] : Rank[p] < Rank[d]
    /\ Bound \subseteq Run
    /\ NoRun \notin Run

VARIABLES
    run,            \* run[r]: collection_runs.status, "absent" without a row
    task,           \* task[r][d]: collection_tasks.status, "absent" likewise
    lease,          \* lease[d]: the refresh_leases row, or NoLease
    snapshot,       \* snapshot[d]: who has written d's snapshot; {}: no row
    lapsed          \* history: the tasks whose lease has run out

storeVars == <<run, task, lease, snapshot, lapsed>>

Active == {"queued", "collecting"}
Successful == {"success", "partial"}
Failed == {"failed-retained", "failed-missing"}
Terminal == Successful \union Failed \union {"busy", "blocked"}
RunTerminal == {"success", "partial", "failed"}

Task == Run \X Dataset
NoLease == [owner |-> NoRun, generation |-> 0, live |-> FALSE]

StoreTypeOK ==
    /\ run \in [Run -> {"absent"} \union Active \union RunTerminal]
    /\ task \in [Run -> [Dataset -> {"absent"} \union Active \union Terminal]]
    /\ lease \in [Dataset -> [owner : Run \union {NoRun}, generation : Nat,
                              live : BOOLEAN]]
    /\ snapshot \in [Dataset -> SUBSET (Run \union {NoRun})]
    /\ lapsed \subseteq Task

(* The date may already have snapshots, written before this history. *)
StoreInit ==
    /\ run = [r \in Run |-> "absent"]
    /\ task = [r \in Run |-> [d \in Dataset |-> "absent"]]
    /\ lease = [d \in Dataset |-> NoLease]
    /\ snapshot \in [Dataset -> {{}, {NoRun}}]
    /\ lapsed = {}

First(S) == CHOOSE d \in S : \A c \in S : Rank[d] <= Rank[c]

-----------------------------------------------------------------------------
(* Leases *)

OwnsLive(r, d) == lease[d].owner = r /\ lease[d].live
Holds(r, d, generation) == lease[d].owner = r /\ lease[d].generation = generation

(* assert_valid, and the WHERE clause of renew_lease. *)
Fenced(r, d, generation) == Holds(r, d, generation) /\ lease[d].live

(* acquire_lease.  What counts of a generation here is whether it is the   *)
(* one a thread carries; RefreshLease shows that none is handed out twice, *)
(* so a new one is any that is neither in the row nor in use.              *)
TakeLease(r, d, inUse) ==
    LET taken == inUse \union {lease[d].generation}
        fresh == CHOOSE n \in 1 .. Cardinality(taken) + 1 : n \notin taken
    IN  lease' = [lease EXCEPT ![d] =
                    [owner |-> r, generation |-> fresh, live |-> TRUE]]

DropLease(r, d, generation) ==
    lease' = IF Holds(r, d, generation)
             THEN [lease EXCEPT ![d] = NoLease]
             ELSE lease

(* A lease runs out while nobody renews it. *)
Lapse(d) ==
    /\ lease[d].live
    /\ lease' = [lease EXCEPT ![d].live = FALSE]
    /\ lapsed' = lapsed \union ({<<lease[d].owner, d>>} \intersect Task)
    /\ UNCHANGED <<run, task, snapshot>>

(* active_collection_task joins the lease on dataset and date only: any    *)
(* live row makes any active task of the dataset count, whoever owns it.   *)
ActiveTaskExists(d) ==
    lease[d].live /\ \E r \in Run : task[r][d] \in Active

-----------------------------------------------------------------------------
(* Runs and tasks *)

Statuses(r) == {task[r][d] : d \in Dataset} \ {"absent"}
(* Mutant: busy and blocked are forgotten among the terminal statuses. *)
AllDecided(r) == Statuses(r) # {} /\ Statuses(r) \subseteq Successful \union Failed

AllTerminal(r) == Statuses(r) # {} /\ Statuses(r) \subseteq Terminal

(* Mutant: one failed task is enough for the run to fail. *)
VerdictOfTheWorst(statuses) ==
    IF statuses = {"success"} THEN "success"
    ELSE IF statuses \intersect Failed # {} THEN "failed"
    ELSE "partial"

(* _derive_run_status *)
Verdict(statuses) ==
    IF statuses = {"success"} THEN "success"
    ELSE IF statuses \intersect Successful # {} THEN "partial"
    ELSE "failed"

(* update_collection_run has no expected status. *)
SetRun(r, status) == run' = [run EXCEPT ![r] = status]

SetTask(r, d, status) == task' = [task EXCEPT ![r][d] = status]

(* How a task ends that did not succeed: with what is stored, or nothing. *)
FailedAs(d) == IF snapshot[d] = {} THEN "failed-missing" ELSE "failed-retained"

(* Mutant: a prerequisite that has ended is taken for one that succeeded. *)
IsUnfinished(r, d) ==
    \E p \in DependsOn[d] : snapshot[p] = {} /\ task[r][p] \notin Terminal

(* _blocked_dependencies *)
IsBlocked(r, d) ==
    \E p \in DependsOn[d] : snapshot[p] = {} /\ task[r][p] \notin Successful

(* Mutant: the join with refresh_leases forgets expires_at. *)
Unleased ==
    {t \in Task :
        /\ task[t[1]][t[2]] \in Active
        /\ lease[t[2]].owner # t[1]
        /\ ~(task[t[1]][t[2]] = "queued" /\ t[1] \in Bound)}

(* expire_inactive_collection_tasks: its SELECT ...                        *)
Inactive ==
    {t \in Task :
        /\ task[t[1]][t[2]] \in Active
        /\ ~OwnsLive(t[1], t[2])
        /\ ~(task[t[1]][t[2]] = "queued" /\ t[1] \in Bound)}

(* ... and its UPDATEs: of every row selected, whatever its status is by   *)
(* now, then of the runs those rows leave without an active task.          *)
ExpireTasks(rows) ==
    /\ task' = [r \in Run |-> [d \in Dataset |->
                    IF <<r, d>> \in rows THEN FailedAs(d) ELSE task[r][d]]]
    /\ run' = [r \in Run |->
                    IF /\ \E d \in Dataset : <<r, d>> \in rows
                       /\ AllTerminal(r)'
                       /\ run[r] \in Active
                    THEN Verdict(Statuses(r)') ELSE run[r]]
    /\ UNCHANGED <<lease, snapshot, lapsed>>
=============================================================================
