---------------------------- MODULE FullCollection ----------------------------
(***************************************************************************)
(* POST /collection-runs/full: an idempotency key is claimed once, its run *)
(* and tasks are created with the claim, and every POST with the key, the  *)
(* first or a replay, tries to hand that run to the executor: under a      *)
(* submission lease, after reserving the leases of its queued tasks.       *)
(*                                                                         *)
(* A request thread is a Reader: its get_run calls are the reader actions  *)
(* of CollectionExecution, and "caller" is what it does around them.  All  *)
(* runs here belong to a key of their own, so Bound = Run.                 *)
(***************************************************************************)
EXTENDS CollectionExecution

CONSTANTS
    NoCaller,
    Contested,      \* bound: datasets others collect at the same time
    MaxReplays,     \* bound: replays of a key; 0 for any number
    MaxCrashes      \* bound: crashes of the process

ASSUME FullAssumption ==
    /\ Bound = Run
    /\ Dataset # {} /\ IsFiniteSet(Reader)
    /\ Contested \subseteq Dataset
    /\ {MaxReplays, MaxCrashes} \subseteq Nat
    /\ NoCaller \notin Reader

VARIABLES
    binding,        \* binding[r]: the idempotency row of r's key
    caller,         \* caller[c]: where the request of thread c is
    overdue,        \* history: the worst lapse of r's submission lease:
                    \*   "none", as "submitted", or still "submitting"
    replays,        \* replays so far, when they are bounded
    crashes

boundVars == <<replays, crashes>>
fullVars == <<binding, caller, overdue, boundVars>>
vars == <<storeVars, executionVars, fullVars>>

Binding == [state : {"none", "reserved", "submitting", "submitted",
                     "submission-failed"},
            owner : Reader \union {NoCaller}, live : BOOLEAN]

(* pc: "claimed", "checked" and "observed" wait for a get_run.             *)
Call == [pc : {"idle", "claimed", "bind", "checked", "acquire", "prepare",
               "task", "reserve", "yield", "observed", "launch", "mark",
               "rejected", "unlist", "unlease", "failed"},
         run : Run \union {NoRun}, todo : SUBSET Dataset, token : Nat,
         submitted : BOOLEAN, working : BOOLEAN]

NoCall == [pc |-> "idle", run |-> NoRun, todo |-> {}, token |-> 0,
           submitted |-> FALSE, working |-> FALSE]

TypeOK ==
    /\ StoreTypeOK
    /\ ExecutionTypeOK
    /\ binding \in [Run -> Binding]
    /\ caller \in [Reader -> Call]
    /\ overdue \in [Run -> {"none", "submitted", "submitting"}]
    /\ replays \in [Run -> 0 .. MaxReplays]
    /\ crashes \in 0 .. MaxCrashes

Init ==
    /\ StoreInit
    /\ ExecutionInit
    /\ binding = [r \in Run |-> [state |-> "none", owner |-> NoCaller, live |-> FALSE]]
    /\ caller = [c \in Reader |-> NoCall]
    /\ overdue = [r \in Run |-> "none"]
    /\ replays = [r \in Run |-> 0]
    /\ crashes = 0

Calling(c, pc) == caller[c].pc = pc
Becomes(c, changed) == caller' = [caller EXCEPT ![c] = changed]
Proceed(c, pc) == Becomes(c, [caller[c] EXCEPT !.pc = pc, !.token = 0])
Leave(c) == Becomes(c, NoCall)
Subject(c) == caller[c].run
Current(c) == First(caller[c].todo)

NextTask(c) ==
    Becomes(c, [caller[c] EXCEPT !.pc = "task", !.todo = @ \ {Current(c)},
                                    !.token = 0])

OnlyCaller == UNCHANGED <<storeVars, executionVars, binding, overdue, boundVars>>
OnlyBinding == UNCHANGED <<storeVars, executionVars, overdue, boundVars>>
OnlyTaskAndCaller ==
    UNCHANGED <<run, lease, snapshot, lapsed, executionVars, binding, overdue, boundVars>>

(* Tokens to be used; the one of a "reserve" is only compared with the row. *)
Reservations ==
    TokensInHand \union {caller[c].token : c \in {b \in Reader : Calling(b, "unlease")}}

-----------------------------------------------------------------------------
(* FullCollectionCommand.execute.  The claim inserts run, tasks and        *)
(* binding in one transaction, or finds the key taken: a replay.           *)

Claim(c, r) ==
    /\ Calling(c, "idle") /\ reader[c].pc = "idle"
    /\ binding[r].state = "none"
    /\ SetRun(r, "queued")
    /\ task' = [task EXCEPT ![r] = [d \in Dataset |-> "queued"]]
    /\ binding' = [binding EXCEPT ![r].state = "reserved"]
    /\ Becomes(c, [NoCall EXCEPT !.pc = "claimed", !.run = r])
    /\ UNCHANGED <<lease, snapshot, lapsed, executionVars, overdue, boundVars>>

(* wait(), GET /collection-runs/{id} and the get_run that ends a request   *)
(* do to the tables what a replay begins with, and are left to replays.    *)
Replay(c, r) ==
    /\ Calling(c, "idle") /\ reader[c].pc = "idle"
    /\ binding[r].state # "none"
    /\ Becomes(c, [NoCall EXCEPT !.pc = "claimed", !.run = r,
                     !.submitted = binding[r].state = "submitted"])
    /\ \/ MaxReplays = 0 /\ UNCHANGED replays
       \/ replays[r] < MaxReplays /\ replays' = [replays EXCEPT ![r] = @ + 1]
    /\ UNCHANGED <<storeVars, executionVars, binding, overdue, crashes>>

(* What the request does with the run its get_run returned.  (When every   *)
(* task is terminal get_run returns a terminal run, so submit never calls  *)
(* execute_run itself.)                                                    *)
AfterGetRun(c, terminal) ==
    LET done == caller[c].submitted /\ terminal IN
    CASE Calling(c, "claimed") -> IF done THEN Leave(c) ELSE Proceed(c, "bind")
      [] Calling(c, "checked") -> IF done THEN Leave(c) ELSE Becomes(c, [NoCall EXCEPT !.pc = "acquire", !.run = Subject(c)])
      [] Calling(c, "observed") ->
            Becomes(c, [NoCall EXCEPT !.run = Subject(c),
                !.pc = IF terminal \/ caller[c].working THEN "mark" ELSE "launch"])
      [] OTHER -> UNCHANGED caller

CallGetRun(c) ==
    /\ caller[c].pc \in {"claimed", "checked", "observed"}
    /\ GetRun(c, Subject(c))
    /\ UNCHANGED fullVars

ExpireInGetRun(c) == ReaderExpire(c) /\ UNCHANGED fullVars

ReadInGetRun(c) ==
    /\ ReaderRead(c)
    /\ IF reader'[c].pc = "settle" THEN UNCHANGED caller
       ELSE AfterGetRun(c, run[reader[c].run] \in RunTerminal)
    /\ UNCHANGED <<binding, overdue, boundVars>>

SettleInGetRun(c) ==
    /\ ReaderSettle(c)
    /\ AfterGetRun(c, TRUE)
    /\ UNCHANGED <<binding, overdue, boundVars>>

-----------------------------------------------------------------------------
(* RecoverableCollectionSubmissionService.submit *)

ReadBinding(c) ==
    /\ Calling(c, "bind")
    /\ Becomes(c, [caller[c] EXCEPT !.pc = "checked",
                     !.submitted = binding[Subject(c)].state = "submitted"])
    /\ OnlyCaller

WorkedOn(r) == \E d \in Dataset : task[r][d] \in Active /\ OwnsLive(r, d)

(* Mutants: the tasks at work are not asked for; the lease is not; and a   *)
(* failed submission is not taken up again.                                *)
AcquirableWhenOverdue(r) ==
    \/ binding[r].state \in {"reserved", "submission-failed"}
    \/ binding[r].state \in {"submitting", "submitted"} /\ ~binding[r].live

AcquirableWhenUnattended(r) ==
    \/ binding[r].state \in {"reserved", "submission-failed"}
    \/ binding[r].state \in {"submitting", "submitted"} /\ ~WorkedOn(r)

AcquirableOnce(r) ==
    \/ binding[r].state = "reserved"
    \/ /\ binding[r].state \in {"submitting", "submitted"}
       /\ ~binding[r].live /\ ~WorkedOn(r)

(* acquire_submission: unsubmitted, or abandoned: its submission lease has *)
(* run out and no active task of the run still holds its dataset.          *)
Acquirable(r) ==
    \/ binding[r].state \in {"reserved", "submission-failed"}
    \/ /\ binding[r].state \in {"submitting", "submitted"}
       /\ ~binding[r].live /\ ~WorkedOn(r)

AcquireSubmission(c) ==
    /\ Calling(c, "acquire")
    /\ IF Acquirable(Subject(c))
       THEN /\ binding' = [binding EXCEPT ![Subject(c)] =
                              [state |-> "submitting", owner |-> c, live |-> TRUE]]
            /\ Proceed(c, "prepare")
       ELSE Leave(c) /\ UNCHANGED binding
    /\ OnlyBinding

(* prepare_run_submission lists the tasks and reserves the queued ones. *)
ListQueued(c) ==
    /\ Calling(c, "prepare")
    /\ Becomes(c, [caller[c] EXCEPT !.pc = "task",
            !.todo = {d \in Dataset : task[Subject(c)][d] = "queued"}])
    /\ OnlyCaller

(* transition_collection_task(expected = queued), or ValueError *)
WriteQueued(c, d, status) ==
    \/ task[Subject(c)][d] = "queued" /\ SetTask(Subject(c), d, status) /\ NextTask(c)
    \/ task[Subject(c)][d] # "queued" /\ UNCHANGED task /\ Leave(c)

PreflightRejects(c) ==
    /\ Calling(c, "task") /\ caller[c].todo # {}
    /\ WriteQueued(c, Current(c), FailedAs(Current(c)))
    /\ OnlyTaskAndCaller

(* The clock was read when the preparation began: an own row that has run  *)
(* out since may still look live.                                          *)
FindReservation(c) ==
    /\ Calling(c, "task") /\ caller[c].todo # {}
    /\ \/ lease[Current(c)].owner = Subject(c) /\ NextTask(c)
       \/ /\ ~OwnsLive(Subject(c), Current(c))
          /\ Becomes(c, [caller[c] EXCEPT !.pc = "reserve",
                !.token = IF lease[Current(c)].owner = Subject(c)
                          THEN lease[Current(c)].generation ELSE 0])
    /\ OnlyCaller

ReserveLease(c) ==
    /\ Calling(c, "reserve")
    /\ ~lease[Current(c)].live
    /\ TakeLease(Subject(c), Current(c), Reservations)
    /\ NextTask(c)
    /\ UNCHANGED <<run, task, snapshot, lapsed, executionVars, binding, overdue, boundVars>>

(* active_collection_task names another task, or acquire_lease refuses: a  *)
(* row that has run out by the same reading of the clock does neither.     *)
ReservationRefused(c) ==
    /\ Calling(c, "reserve")
    /\ lease[Current(c)] # NoLease
    /\ ~Holds(Subject(c), Current(c), caller[c].token)
    /\ Proceed(c, "yield")
    /\ OnlyCaller

YieldQueued(c) ==
    /\ Calling(c, "yield")
    /\ WriteQueued(c, Current(c), "busy")
    /\ OnlyTaskAndCaller

ListPrepared(c) ==
    /\ Calling(c, "task") /\ caller[c].todo = {}
    /\ Becomes(c, [caller[c] EXCEPT !.pc = "observed",
            !.working = \E d \in Dataset : task[Subject(c)][d] = "collecting"])
    /\ OnlyCaller

LaunchRun(c) ==
    /\ Calling(c, "launch")
    /\ Enqueue(Subject(c))
    /\ Proceed(c, "mark")
    /\ UNCHANGED <<storeVars, job, reader, binding, overdue, boundVars>>

(* The executor is shared with all other collections and THS operations,   *)
(* so it may be full at any time.                                          *)
LaunchRejected(c) ==
    /\ Calling(c, "launch")
    /\ Proceed(c, "rejected")
    /\ OnlyCaller

(* release_run_submission: list, then read and release token by token. *)
ListReserved(c) ==
    /\ Calling(c, "rejected")
    /\ Becomes(c, [caller[c] EXCEPT !.pc = "unlist",
            !.todo = {d \in Dataset : task[Subject(c)][d] = "queued"}])
    /\ OnlyCaller

ReadReserved(c) ==
    /\ Calling(c, "unlist") /\ caller[c].todo # {}
    /\ Becomes(c, [caller[c] EXCEPT !.pc = "unlease",
            !.token = IF lease[Current(c)].owner = Subject(c)
                      THEN lease[Current(c)].generation ELSE 0])
    /\ OnlyCaller

(* Mutant: only the list is made. *)
KeepReserved(c) ==
    /\ Calling(c, "unlease")
    /\ Becomes(c, [caller[c] EXCEPT !.pc = "unlist", !.todo = {}, !.token = 0])
    /\ OnlyCaller

ReleaseReserved(c) ==
    /\ Calling(c, "unlease")
    /\ DropLease(Subject(c), Current(c), caller[c].token)
    /\ Becomes(c, [caller[c] EXCEPT !.pc = "unlist", !.todo = @ \ {Current(c)},
                                    !.token = 0])
    /\ UNCHANGED <<run, task, snapshot, lapsed, executionVars, binding, overdue, boundVars>>

(* _finish_submission: only by the owner, and only once; else ValueError. *)
Finish(c, state, live) ==
    /\ binding' = IF /\ binding[Subject(c)].state = "submitting"
                     /\ binding[Subject(c)].owner = c
                  THEN [binding EXCEPT ![Subject(c)] =
                          [state |-> state, owner |-> NoCaller, live |-> live]]
                  ELSE binding
    /\ Leave(c)
    /\ OnlyBinding

MarkSubmitted(c) == Calling(c, "mark") /\ Finish(c, "submitted", TRUE)

MarkSubmissionFailed(c) ==
    /\ Calling(c, "unlist") /\ caller[c].todo = {}
    /\ Finish(c, "submission-failed", FALSE)

-----------------------------------------------------------------------------
(* The surroundings: time, other lease owners, crashes *)

LapseSubmission(r) ==
    /\ binding[r].live
    /\ binding' = [binding EXCEPT ![r].live = FALSE]
    /\ overdue' = [overdue EXCEPT ![r] =
                    IF @ = "submitting" THEN @ ELSE binding[r].state]
    /\ UNCHANGED <<storeVars, executionVars, caller, boundVars>>

(* Manual collections and dashboard refreshes take and give back leases of *)
(* their own.                                                              *)
Rival(d) ==
    /\ \/ ~lease[d].live /\ TakeLease(NoRun, d, Reservations)
       \/ OwnsLive(NoRun, d) /\ lease' = [lease EXCEPT ![d] = NoLease]
    /\ UNCHANGED <<run, task, snapshot, lapsed, executionVars, fullVars>>

Crash ==
    /\ crashes < MaxCrashes
    /\ crashes' = crashes + 1
    /\ queue' = <<>>
    /\ job' = [e \in Executor |-> Idle]
    /\ reader' = [c \in Reader |-> Resting]
    /\ caller' = [c \in Reader |-> NoCall]
    /\ UNCHANGED <<storeVars, binding, overdue, replays>>

CallerStep(c) ==
    \/ CallGetRun(c)       \/ ExpireInGetRun(c)    \/ ReadInGetRun(c)
    \/ SettleInGetRun(c)   \/ ReadBinding(c)       \/ AcquireSubmission(c)
    \/ ListQueued(c)       \/ PreflightRejects(c)  \/ FindReservation(c)
    \/ ReserveLease(c)     \/ ReservationRefused(c) \/ YieldQueued(c)
    \/ ListPrepared(c)     \/ LaunchRun(c)         \/ LaunchRejected(c)
    \/ ListReserved(c)     \/ ReadReserved(c)      \/ ReleaseReserved(c)
    \/ MarkSubmitted(c)    \/ MarkSubmissionFailed(c)

Next ==
    \/ \E c \in Reader, r \in Run : Claim(c, r) \/ Replay(c, r)
    \/ \E c \in Reader : CallerStep(c)
    \/ \E e \in Executor : ExecutorStep(e) /\ UNCHANGED fullVars
    \/ \E d \in Dataset : Lapse(d) /\ UNCHANGED <<executionVars, fullVars>>
    \/ \E d \in Contested : Rival(d)
    \/ \E r \in Run : LapseSubmission(r)
    \/ Crash

Spec == Init /\ [][Next]_vars

(* Threads run, leases run out, and somebody keeps posting the key: the    *)
(* operator who replays it.  An executor that always has other work to do  *)
(* settles nothing: a launch that is tried again and again succeeds once.  *)
Fairness ==
    /\ \A c \in Reader :
          /\ WF_vars(CallerStep(c))
          /\ SF_vars(LaunchRun(c))
          /\ \A r \in Run : SF_vars(Replay(c, r))
    /\ \A e \in Executor : WF_vars(ExecutorStep(e) /\ UNCHANGED fullVars)
    /\ \A d \in Dataset : WF_vars(Lapse(d) /\ UNCHANGED <<executionVars, fullVars>>)
    /\ \A r \in Run : WF_vars(LapseSubmission(r))

LiveSpec == Spec /\ Fairness

-----------------------------------------------------------------------------
Executions(r) ==
    Cardinality({i \in DOMAIN queue : queue[i] = r})
        + Cardinality({e \in Executor : job[e].run = r})

(* However many requests carry the key, and whatever they find rejected,   *)
(* crashed or half done, the run is in the executor once: a second time    *)
(* only after its submission lease has run out.                            *)
OneExecutionPerKey ==
    \A r \in Run : Executions(r) > 1 => overdue[r] # "none"

(* A request that outlives its own submission lease does not notice.  But  *)
(* an execution that has been marked submitted is doubled only when the    *)
(* lease of a task it was to collect has run out too: a slow collection    *)
(* keeps the run while it holds what it works on, however old it is.       *)
TakeoverWaitsForTheTasks ==
    \A r \in Run : Executions(r) > 1 =>
        \/ overdue[r] = "submitting"
        \/ \E d \in Dataset : <<r, d>> \in lapsed

(* A POST answered "executor rejected" has given back what it reserved, so *)
(* other collections of the date are not kept out by a run nobody runs.    *)
RejectionLeavesNoReservation ==
    [][ \A r \in Run :
            /\ binding[r].state = "submitting"
            /\ binding'[r].state = "submission-failed"
            /\ overdue[r] # "submitting"
            => \A d \in Dataset : task[r][d] = "queued" => ~OwnsLive(r, d) ]_vars

(* A claimed key settles as long as it is posted again, through rejected   *)
(* submissions, lost leases and a crash at any point.                      *)
ClaimedRunsSettle ==
    \A r \in Run : binding[r].state # "none" ~> run[r] \in RunTerminal
=============================================================================
