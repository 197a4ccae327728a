------------------------ MODULE CollectionExecution ------------------------
(***************************************************************************)
(* The bounded executor and what its threads run: execute_run, the         *)
(* execution of one task with all its failure paths, and the requests that *)
(* read a run while it executes (get_run, collection_status).              *)
(*                                                                         *)
(* A step is one store call; what a thread remembers between two calls is  *)
(* in its job, and may be out of date when the next call is made.  A task  *)
(* transition is a compare-and-set on the status it expects; one that      *)
(* loses raises ValueError.                                                *)
(***************************************************************************)
EXTENDS CollectionStore

CONSTANTS
    Executor,       \* the executor's threads (max_workers)
    MaxPending,     \* max_pending_tasks
    Reader,         \* request threads that read
    Atomic          \* datasets whose committer writes the task too ("core")

ASSUME ExecutionAssumption ==
    /\ IsFiniteSet(Executor)
    /\ MaxPending \in Nat
    /\ Atomic \subseteq Dataset

VARIABLES
    queue,          \* runs submitted and not yet picked up
    job,            \* job[e]: what executor thread e is doing
    reader          \* reader[c]: what request thread c is doing

executionVars == <<queue, job, reader>>

(* run: of the job.  todo: the tasks it found queued and has not finished. *)
(* seen: rows its sweep selected.  token: generation of the lease it       *)
(* carries.  expect, target: of the transition it is about to make.        *)
(* handling: inside "except Exception".                                    *)
Job == [pc : {"idle", "sweep", "expire", "begin", "open", "list", "check",
              "reserved", "block", "claim", "token", "renew", "lost", "lose",
              "collect", "admit", "commit", "reread", "settle", "existing",
              "warn", "fail", "rebuild", "fenced", "refuse", "integrity",
              "parent", "verdict", "release", "abandon", "finish", "close"},
        run : Run \union {NoRun}, todo : SUBSET Dataset, seen : SUBSET Task,
        token : Nat, expect : Active \union Terminal \union {"none"},
        target : Terminal \union RunTerminal \union {"none"},
        handling : BOOLEAN]

Idle == [pc |-> "idle", run |-> NoRun, todo |-> {}, seen |-> {}, token |-> 0,
         expect |-> "none", target |-> "none", handling |-> FALSE]

Request == [pc : {"idle", "expire", "read", "settle"}, run : Run \union {NoRun},
            seen : SUBSET Task, target : RunTerminal \union {"none"}]

Resting == [pc |-> "idle", run |-> NoRun, seen |-> {}, target |-> "none"]

ExecutionTypeOK ==
    /\ queue \in Seq(Run)
    /\ job \in [Executor -> Job]
    /\ reader \in [Reader -> Request]

ExecutionInit ==
    /\ queue = <<>>
    /\ job = [e \in Executor |-> Idle]
    /\ reader = [c \in Reader |-> Resting]

-----------------------------------------------------------------------------
(* BoundedTaskExecutor.submit *)

Running == {e \in Executor : job[e].pc # "idle"}
HasCapacity ==
    Len(queue) + Cardinality(Running) < Cardinality(Executor) + MaxPending

Enqueue(r) == HasCapacity /\ queue' = Append(queue, r)

StartJob(e) ==
    /\ job[e].pc = "idle" /\ queue # <<>>
    /\ job' = [job EXCEPT ![e] = [Idle EXCEPT !.pc = "sweep", !.run = Head(queue)]]
    /\ queue' = Tail(queue)
    /\ UNCHANGED <<storeVars, reader>>

TokensInHand == {job[e].token : e \in Executor}

-----------------------------------------------------------------------------
(* Helpers over the job of thread e *)

R(e) == job[e].run
D(e) == First(job[e].todo)
Status(e) == task[R(e)][D(e)]

At(e, pc) == job[e].pc = pc

Continue(e, changed) == job' = [job EXCEPT ![e] = changed]
Goto(e, pc) == Continue(e, [job[e] EXCEPT !.pc = pc])
Stop(e) == Continue(e, Idle)

(* The first call for a dataset: only one with prerequisites reads them. *)
EntryOf(todo) ==
    IF todo = {} THEN "finish"
    ELSE IF DependsOn[First(todo)] = {} THEN "claim" ELSE "check"

NextDataset(e) ==
    LET left == job[e].todo \ {D(e)} IN
    Continue(e, [Idle EXCEPT !.pc = EntryOf(left), !.run = R(e), !.todo = left])

(* "raise" inside the try block of _execute_task *)
Handle(e) ==
    Continue(e, [job[e] EXCEPT !.pc = "existing", !.handling = TRUE,
                               !.expect = "none", !.target = "none"])

Raise(e) == IF job[e].handling THEN Goto(e, "abandon") ELSE Handle(e)

NoTaskChange == UNCHANGED <<run, task, snapshot, lapsed, queue, reader>>
OnlyLocal == UNCHANGED <<storeVars, queue, reader>>

(* transition_collection_task with expected_statuses *)
Wins(e, expect, status) == Status(e) = expect /\ SetTask(R(e), D(e), status)
Loses(e, expect) == Status(e) # expect /\ UNCHANGED task
OnlyTask == UNCHANGED <<run, lease, snapshot, lapsed, queue, reader>>
OnlyRun == UNCHANGED <<task, lease, snapshot, lapsed, queue, reader>>

-----------------------------------------------------------------------------
(* execute_run: sweep, read the run, list its tasks *)

SweepSelect(e) ==
    /\ At(e, "sweep")
    /\ IF Inactive = {} THEN Goto(e, "begin")
       ELSE Continue(e, [job[e] EXCEPT !.pc = "expire", !.seen = Inactive])
    /\ OnlyLocal

SweepExpire(e) ==
    /\ At(e, "expire")
    /\ ExpireTasks(job[e].seen)
    /\ Continue(e, [job[e] EXCEPT !.pc = "begin", !.seen = {}])
    /\ UNCHANGED <<queue, reader>>

BeginRun(e) ==
    /\ At(e, "begin")
    /\ \/ run[R(e)] \in RunTerminal /\ Stop(e)
       \/ run[R(e)] = "queued" /\ Goto(e, "open")
       \/ run[R(e)] = "collecting" /\ Goto(e, "list")
    /\ OnlyLocal

OpenRun(e) ==
    /\ At(e, "open")
    /\ SetRun(R(e), "collecting")
    /\ Goto(e, "list")
    /\ OnlyRun

ListTasks(e) ==
    /\ At(e, "list")
    /\ LET queued == {d \in Dataset : task[R(e)][d] = "queued"} IN
       Continue(e, [job[e] EXCEPT !.pc = EntryOf(queued), !.todo = queued])
    /\ OnlyLocal

(* A task whose prerequisites are neither stored nor collected by this run *)
(* is blocked, and its reservation given up.                               *)
CheckPrerequisites(e) ==
    /\ At(e, "check")
    /\ Goto(e, IF IsBlocked(R(e), D(e)) THEN "reserved" ELSE "claim")
    /\ OnlyLocal

ReadReservation(e) ==
    /\ At(e, "reserved")
    /\ Continue(e, [job[e] EXCEPT
            !.pc = "block",
            !.token = IF lease[D(e)].owner = R(e)
                      THEN lease[D(e)].generation ELSE 0])
    /\ OnlyLocal

BlockTask(e) ==
    /\ At(e, "block")
    /\ \/ Wins(e, "queued", "blocked")
          /\ IF job[e].token = 0 THEN NextDataset(e) ELSE Goto(e, "release")
       \/ Loses(e, "queued") /\ Stop(e)
    /\ OnlyTask

-----------------------------------------------------------------------------
(* _execute_task *)

(* Mutant: the claim is an update by task id alone. *)
ClaimAnyTask(e) ==
    /\ At(e, "claim")
    /\ SetTask(R(e), D(e), "collecting")
    /\ Goto(e, "token")
    /\ OnlyTask

ClaimTask(e) ==
    /\ At(e, "claim")
    /\ \/ Wins(e, "queued", "collecting") /\ Goto(e, "token")
       \/ Loses(e, "queued") /\ Stop(e)
    /\ OnlyTask

ReadToken(e) ==
    /\ At(e, "token")
    /\ \/ OwnsLive(R(e), D(e))
          /\ Continue(e, [job[e] EXCEPT !.pc = "renew",
                                        !.token = lease[D(e)].generation])
       \/ ~OwnsLive(R(e), D(e)) /\ Goto(e, "lost")
    /\ OnlyLocal

(* renew_lease gives the row at least what was left of it, so it stays live. *)
RenewToken(e) ==
    /\ At(e, "renew")
    /\ Goto(e, IF Fenced(R(e), D(e), job[e].token) THEN "collect" ELSE "lost")
    /\ OnlyLocal

(* Without a lease the task fails before any provider is called; this is   *)
(* outside the try block, so nothing is released.                          *)
ReadRetainedOnLoss(e) ==
    /\ At(e, "lost")
    /\ Continue(e, [job[e] EXCEPT !.pc = "lose", !.target = FailedAs(D(e)),
                                  !.token = 0])
    /\ OnlyLocal

FailWithoutLease(e) ==
    /\ At(e, "lose")
    /\ \/ Wins(e, "collecting", job[e].target) /\ NextDataset(e)
       \/ Loses(e, "collecting") /\ Stop(e)
    /\ OnlyTask

(* The provider answers with data, with some of it, or reports a failure. *)
Collect(e) ==
    /\ At(e, "collect")
    /\ \/ \E status \in Successful :
            Continue(e, [job[e] EXCEPT !.pc = "admit", !.target = status])
       \/ Goto(e, "existing")
    /\ OnlyLocal

(* Any step between the provider call and the commit may raise; an open    *)
(* transaction rolls back.                                                 *)
CollectRaises(e) ==
    /\ job[e].pc \in {"collect", "admit", "commit"}
    /\ Handle(e)
    /\ OnlyLocal

(* execute_fenced: the fence check opens the write transaction. *)
AdmitCommit(e) ==
    /\ At(e, "admit")
    /\ Goto(e, IF Fenced(R(e), D(e), job[e].token) THEN "commit" ELSE "fenced")
    /\ OnlyLocal

(* The stored snapshot fails its checksum: SnapshotIntegrityError. *)
CommitFindsCorruption(e) ==
    /\ At(e, "commit")
    /\ snapshot[D(e)] # {}
    /\ Goto(e, "integrity")
    /\ OnlyLocal

Stores(e) == snapshot' = [snapshot EXCEPT ![D(e)] = @ \union {R(e)}]

CommitSnapshot(e) ==
    /\ At(e, "commit") /\ D(e) \notin Atomic
    /\ Stores(e)
    /\ Goto(e, "settle")
    /\ UNCHANGED <<run, task, lease, lapsed, queue, reader>>

(* The core committer moves the task in the same transaction, or not at all. *)
CommitSnapshotAndTask(e) ==
    /\ At(e, "commit") /\ D(e) \in Atomic
    /\ \/ Wins(e, "collecting", job[e].target) /\ Stores(e) /\ Goto(e, "reread")
       \/ Loses(e, "collecting") /\ UNCHANGED snapshot /\ Handle(e)
    /\ UNCHANGED <<run, lease, lapsed, queue, reader>>

RereadTask(e) ==
    /\ At(e, "reread")
    /\ \/ Status(e) = job[e].target
          /\ Continue(e, [job[e] EXCEPT !.pc = "rebuild", !.expect = job[e].target])
       \/ Status(e) # job[e].target /\ Handle(e)
    /\ OnlyLocal

SettleTask(e) ==
    /\ At(e, "settle")
    /\ \/ Wins(e, "collecting", job[e].target)
          /\ Continue(e, [job[e] EXCEPT !.pc = "rebuild", !.expect = job[e].target])
       \/ Loses(e, "collecting") /\ Handle(e)
    /\ OnlyTask

-----------------------------------------------------------------------------
(* Failures: a reported one, or an exception (handling).  What is stored   *)
(* decides between failed-retained and failed-missing; a retained snapshot *)
(* gets a warning, which is a fenced write.                                *)

ReadExisting(e) ==
    /\ At(e, "existing")
    /\ Continue(e, [job[e] EXCEPT
            !.target = FailedAs(D(e)),
            !.pc = IF snapshot[D(e)] = {} THEN "fail" ELSE "warn"])
    /\ OnlyLocal

WarnSnapshot(e) ==
    /\ At(e, "warn")
    /\ Goto(e, IF Fenced(R(e), D(e), job[e].token) THEN "fail" ELSE "fenced")
    /\ OnlyLocal

FailTask(e) ==
    /\ At(e, "fail")
    /\ \/ Wins(e, "collecting", job[e].target)
          /\ IF job[e].target = "failed-retained"
             THEN Continue(e, [job[e] EXCEPT !.pc = "rebuild",
                                             !.expect = job[e].target])
             ELSE Goto(e, "release")
       \/ Loses(e, "collecting") /\ Raise(e)
    /\ OnlyTask

(* Mutant: whatever the task was before its rebuild failed. *)
DegradedAlways(status) == "partial"

(* The aggregate is rebuilt over committed or retained data.  When that    *)
(* fails the task keeps its data and turns partial.                        *)
Degraded(status) == IF status \in Successful THEN "partial" ELSE status

RebuildAggregate(e) ==
    /\ At(e, "rebuild")
    /\ \E status \in {job[e].expect, Degraded(job[e].expect)} :
          \/ Wins(e, job[e].expect, status) /\ Goto(e, "release")
          \/ Loses(e, job[e].expect) /\ Raise(e)
    /\ OnlyTask

(* The exception path writes the task again only when its rebuild failed. *)
RebuildQuietly(e) ==
    /\ At(e, "rebuild") /\ job[e].handling
    /\ Goto(e, "release")
    /\ OnlyLocal

(* _fenced_task_result: a task that is already terminal keeps its status. *)
ReadFencedTask(e) ==
    /\ At(e, "fenced")
    /\ Continue(e, [job[e] EXCEPT
            !.pc = "refuse", !.expect = Status(e),
            !.target = IF Status(e) \in Terminal
                       THEN Status(e) ELSE FailedAs(D(e))])
    /\ OnlyLocal

RefuseTask(e) ==
    /\ At(e, "refuse")
    /\ \/ Wins(e, job[e].expect, job[e].target) /\ Goto(e, "release")
       \/ Loses(e, job[e].expect) /\ Goto(e, "abandon")
    /\ OnlyTask

(* _integrity_task_result, then _settle_parent_run *)
FailOnCorruption(e) ==
    /\ At(e, "integrity")
    /\ \/ Wins(e, "collecting", "failed-retained") /\ Goto(e, "parent")
       \/ Loses(e, "collecting") /\ Goto(e, "abandon")
    /\ OnlyTask

ReadParent(e) ==
    /\ At(e, "parent")
    /\ IF run[R(e)] \in Active /\ AllTerminal(R(e))
       THEN Continue(e, [job[e] EXCEPT !.pc = "verdict",
                                       !.target = Verdict(Statuses(R(e)))])
       ELSE Goto(e, "release")
    /\ OnlyLocal

SettleParent(e) ==
    /\ At(e, "verdict")
    /\ SetRun(R(e), job[e].target)
    /\ Goto(e, "release")
    /\ OnlyRun

(* "finally": the lease goes back, on the way to the next dataset or out   *)
(* of execute_run with the exception.                                      *)
Release(e) ==
    /\ job[e].pc \in {"release", "abandon"}
    /\ DropLease(R(e), D(e), job[e].token)
    /\ IF At(e, "release") THEN NextDataset(e) ELSE Stop(e)
    /\ NoTaskChange

(* The end of execute_run: settle the run from the statuses of its tasks.  *)
FinishRun(e) ==
    /\ At(e, "finish")
    /\ IF Statuses(R(e)) \subseteq Terminal
       THEN Continue(e, [job[e] EXCEPT !.pc = "close",
                                       !.target = Verdict(Statuses(R(e)))])
       ELSE Stop(e)
    /\ OnlyLocal

CloseRun(e) ==
    /\ At(e, "close")
    /\ SetRun(R(e), job[e].target)
    /\ Stop(e)
    /\ OnlyRun

ExecutorStep(e) ==
    \/ StartJob(e)          \/ SweepSelect(e)       \/ SweepExpire(e)
    \/ BeginRun(e)          \/ OpenRun(e)           \/ ListTasks(e)
    \/ CheckPrerequisites(e) \/ ReadReservation(e)  \/ BlockTask(e)
    \/ ClaimTask(e)         \/ ReadToken(e)         \/ RenewToken(e)
    \/ ReadRetainedOnLoss(e) \/ FailWithoutLease(e) \/ Collect(e)
    \/ CollectRaises(e)     \/ AdmitCommit(e)       \/ CommitFindsCorruption(e)
    \/ CommitSnapshot(e)    \/ CommitSnapshotAndTask(e) \/ RereadTask(e)
    \/ SettleTask(e)        \/ ReadExisting(e)      \/ WarnSnapshot(e)
    \/ FailTask(e)          \/ RebuildAggregate(e)  \/ RebuildQuietly(e)
    \/ ReadFencedTask(e)    \/ RefuseTask(e)        \/ FailOnCorruption(e)
    \/ ReadParent(e)        \/ SettleParent(e)      \/ Release(e)
    \/ FinishRun(e)         \/ CloseRun(e)

-----------------------------------------------------------------------------
(* collection_status(as_of) sweeps and reads; get_run(r) sweeps, reads the *)
(* run and its tasks, and settles the run when all of them are terminal.   *)

Answer(c, changed) == reader' = [reader EXCEPT ![c] = changed]
OnlyReader == UNCHANGED <<storeVars, queue, job>>

GetRun(c, r) ==
    /\ reader[c].pc = "idle"
    /\ Answer(c, [Resting EXCEPT !.run = r, !.seen = Inactive,
                    !.pc = IF Inactive = {} THEN "read" ELSE "expire"])
    /\ OnlyReader

CollectionStatus(c) ==
    /\ reader[c].pc = "idle" /\ Inactive # {}
    /\ Answer(c, [Resting EXCEPT !.pc = "expire", !.seen = Inactive])
    /\ OnlyReader

ReaderExpire(c) ==
    /\ reader[c].pc = "expire"
    /\ ExpireTasks(reader[c].seen)
    /\ Answer(c, IF reader[c].run = NoRun THEN Resting
                 ELSE [reader[c] EXCEPT !.pc = "read", !.seen = {}])
    /\ UNCHANGED <<queue, job>>

ReaderRead(c) ==
    /\ reader[c].pc = "read"
    /\ LET r == reader[c].run IN
       Answer(c, IF run[r] \in Active /\ AllTerminal(r)
                 THEN [reader[c] EXCEPT !.pc = "settle",
                                        !.target = Verdict(Statuses(r))]
                 ELSE Resting)
    /\ OnlyReader

ReaderSettle(c) ==
    /\ reader[c].pc = "settle"
    /\ SetRun(reader[c].run, reader[c].target)
    /\ Answer(c, Resting)
    /\ UNCHANGED <<task, lease, snapshot, lapsed, queue, job>>

ReaderStep(c) == ReaderExpire(c) \/ ReaderRead(c) \/ ReaderSettle(c)
=============================================================================
