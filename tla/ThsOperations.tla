---------------------------- MODULE ThsOperations ----------------------------
(***************************************************************************)
(* The three THS sector write operations: what a request queues, and what  *)
(* the thread that runs it does.                                           *)
(*   backfill  turnover history, window by window, each with a checkpoint  *)
(*   catalog   the catalog in one transaction, then memberships one by one *)
(*   import    member facts of local dumps, in one transaction             *)
(*                                                                         *)
(* The executor is shared with the collections: a submission may be        *)
(* refused at any time, and a queued job waits for an unknown while.  A    *)
(* window is fetched with 1 .. MaxRequests requests, for the Fuyao client  *)
(* repeats a throttled one; the budget is compared before the fetch.       *)
(***************************************************************************)
EXTENDS ThsStore

CONSTANTS
    MaxRequests,    \* the most requests one fetch sends (max_retries + 1)
    Together,       \* bound: sets of operations requested in one behaviour
    MaxResumes,     \* bound: runs resumed under their run id
    MaxCrashes      \* bound: restarts of the process

ASSUME OperationsAssumption ==
    /\ MaxRequests \in Nat \ {0} /\ {MaxResumes, MaxCrashes} \subseteq Nat
    /\ Together \subseteq SUBSET Operation

VARIABLES
    thread,         \* thread[o]: the one that requests, then runs, o
    left,           \* left[o]: why the last thread of o ended without a verdict
    sent,           \* history: sent[o], requests the provider has received
    lost,           \* history: lost[o], executions that ended without a verdict
    bound           \* how much of the bounds has been used

vars == <<storeVars, thread, left, sent, lost, bound>>

(* at: the item of Plan[o] in hand.  spent: requests_used in memory.       *)
(* cost: of the fetch just made.  outcome: of the items, in memory.        *)
(* rows: to be inserted.  clash: the SELECTs found a conflict.             *)
PCs == {"idle", "queued", "item", "fetch", "select", "commit",
        "fail", "count", "finish", "gone"}
Causes == {"none", "gate", "identity", "overrun", "crash"}

Fresh(o) == [pc |-> "idle", at |-> 1, spent |-> 0, cost |-> 0,
             outcome |-> [i \in Items(o) |-> "none"], rows |-> <<>>, clash |-> FALSE]

Rows == UNION {[s -> Value] : s \in SUBSET Key}
Threads(o) ==
    [pc : PCs, at : 1 .. Len(Plan[o]) + 1, spent : Nat, cost : Nat,
     outcome : [Items(o) -> Marks], rows : Rows, clash : BOOLEAN]

TypeOK ==
    /\ StoreTypeOK
    /\ DOMAIN thread = Operation /\ \A o \in Operation : thread[o] \in Threads(o)
    /\ left \in [Operation -> Causes]
    /\ sent \in [Operation -> Nat] /\ lost \in [Operation -> Nat]
    /\ bound.resumes <= MaxResumes /\ bound.crashes <= MaxCrashes

Init ==
    /\ StoreInit
    /\ thread = [o \in Operation |-> Fresh(o)]
    /\ left = [o \in Operation |-> "none"]
    /\ sent = [o \in Operation |-> 0]
    /\ lost = [o \in Operation |-> 0]
    /\ bound = [resumes |-> 0, crashes |-> 0]

-----------------------------------------------------------------------------
(* Helpers over the thread of o *)

At(o, pc) == thread[o].pc = pc
I(o) == thread[o].at
Continue(o, changed) == thread' = [thread EXCEPT ![o] = changed]
Goto(o, pc) == Continue(o, [thread[o] EXCEPT !.pc = pc])
Exit(o) == Continue(o, [Fresh(o) EXCEPT !.pc = "gone"])

(* The item in hand is decided in memory; the next one is taken up. *)
Decide(o, t, status) ==
    [t EXCEPT !.at = @ + 1, !.cost = 0, !.rows = <<>>, !.clash = FALSE,
              !.outcome[t.at] = status,
              !.pc = IF t.at = Len(Plan[o]) THEN "finish" ELSE "item"]

(* An exception leaves run: the executor swallows it, the row stays. *)
Abandon(o, cause) ==
    /\ Exit(o)
    /\ left' = [left EXCEPT ![o] = cause]
    /\ lost' = [lost EXCEPT ![o] = @ + 1]
    /\ UNCHANGED <<storeVars, sent, bound>>

OnlyThread == UNCHANGED <<storeVars, left, sent, lost, bound>>
NoHistory == UNCHANGED <<left, sent, lost, bound>>
NoFacts == UNCHANGED <<fact, listed, wrote>>
OnlyOperation == NoHistory /\ NoFacts /\ UNCHANGED checkpoint
OnlyCheckpoint == NoHistory /\ NoFacts /\ UNCHANGED operation

-----------------------------------------------------------------------------
(* start_turnover_backfill, start_catalog_sync, start_member_import: the   *)
(* operation is put, then submitted, and put again if that is refused.     *)

Requested == {o \in Operation : ~ At(o, "idle")}

Start(o) ==
    /\ At(o, "idle") /\ \E s \in Together : Requested \union {o} \subseteq s
    /\ PutOperation(o, "queued", 0)
    /\ Goto(o, "queued")
    /\ OnlyOperation

Rejected(o) ==
    /\ At(o, "queued")
    /\ PutOperation(o, "failed", 0)
    /\ Exit(o)
    /\ OnlyOperation

(* gates.require or capability_policy.require raises, before any write *)
GateRefuses(o) == At(o, "queued") /\ Abandon(o, "gate")

-----------------------------------------------------------------------------
(* A fetch sends some requests; a failed one may fail before the first. *)
Sends(o, cost, t) ==
    /\ sent' = [sent EXCEPT ![o] = @ + cost]
    /\ Continue(o, t)
    /\ UNCHANGED <<storeVars, left, lost, bound>>

(* The SELECTs of the transaction that stores the fetched rows *)
Select(o) ==
    /\ At(o, "select")
    /\ \E rows \in [Plan[o][I(o)] -> Value] :
          Continue(o, [thread[o] EXCEPT
              !.rows = [k \in Missing(rows) |-> rows[k]], !.clash = Conflict(rows),
              !.pc = "commit"])
    /\ OnlyThread

(* The transaction raises, and is rolled back. *)
Raises(o) == Duplicate(thread[o].rows)

-----------------------------------------------------------------------------
(* ThsTurnoverBackfillService.run *)

(* _load_run, then _put_run(requested): queued again, with what was used *)
Load(o) ==
    /\ PutOperation(o, "queued", operation[o].used)
    /\ Continue(o, [Fresh(o) EXCEPT !.pc = "item", !.spent = operation[o].used,
                                    !.outcome = checkpoint[o]])

BeginBackfill(o) ==
    /\ Kind[o] = "backfill" /\ At(o, "queued")
    /\ Load(o) /\ OnlyOperation

(* run is called with the run id of an earlier execution. *)
Resume(o) ==
    /\ Kind[o] = "backfill" /\ At(o, "gone") /\ bound.resumes < MaxResumes
    /\ Load(o)
    /\ left' = [left EXCEPT ![o] = "none"]
    /\ bound' = [bound EXCEPT !.resumes = @ + 1]
    /\ NoFacts /\ UNCHANGED <<checkpoint, sent, lost>>

Decided(o) == thread[o].outcome[I(o)] = "success"
ExhaustedLate(o) == thread[o].spent > Budget[o]     \* Mutant: off by one
Exhausted(o) == thread[o].spent >= Budget[o]

AtWindow(o) == Kind[o] = "backfill" /\ At(o, "item")

SkipWindow(o) ==
    /\ AtWindow(o) /\ Decided(o)
    /\ Continue(o, Decide(o, thread[o], "success"))
    /\ OnlyThread

WindowExhausted(o) ==
    /\ AtWindow(o) /\ ~ Decided(o) /\ Exhausted(o)
    /\ PutCheckpoint(o, I(o), "failed")
    /\ Continue(o, Decide(o, thread[o], "failed"))
    /\ OnlyCheckpoint

(* Mutant: the window is marked before it is done. *)
OpenWindowOptimistic(o) ==
    /\ AtWindow(o) /\ ~ Decided(o) /\ ~ Exhausted(o)
    /\ PutCheckpoint(o, I(o), "success")
    /\ Goto(o, "fetch")
    /\ OnlyCheckpoint

OpenWindow(o) ==
    /\ AtWindow(o) /\ ~ Decided(o) /\ ~ Exhausted(o)
    /\ PutCheckpoint(o, I(o), "running")
    /\ Goto(o, "fetch")
    /\ OnlyCheckpoint

(* The checkpoint is put outside the try block. *)
UnknownSector(o) ==
    /\ AtWindow(o) /\ ~ Decided(o) /\ ~ Identified(o, I(o))
    /\ Abandon(o, "identity")

FetchWindow(o) ==
    /\ Kind[o] = "backfill" /\ At(o, "fetch")
    /\ \E cost \in 0 .. MaxRequests, ok \in BOOLEAN :
          /\ ok => cost > 0
          /\ Sends(o, cost, [thread[o] EXCEPT !.cost = cost, !.pc = IF ok THEN "select" ELSE "fail"])

WindowVerdict(o) == IF thread[o].clash THEN "conflict" ELSE "success"

(* The other rows of a window in conflict are kept. *)
StoreWindow(o) ==
    /\ Kind[o] = "backfill" /\ At(o, "commit")
    /\ InsertFacts(o, thread[o].rows)
    /\ PutCheckpoint(o, I(o), WindowVerdict(o))
    /\ Continue(o, [thread[o] EXCEPT !.pc = "count", !.rows = <<>>,
                                     !.outcome[I(o)] = WindowVerdict(o)])
    /\ NoHistory /\ UNCHANGED <<operation, listed>>

(* Mutant: the transaction is outside the try block. *)
StoreWindowUncaught(o) ==
    /\ Kind[o] = "backfill" /\ At(o, "commit") /\ Raises(o)
    /\ Exit(o)
    /\ OnlyThread

StoreWindowRaises(o) ==
    /\ Kind[o] = "backfill" /\ At(o, "commit") /\ Raises(o)
    /\ Goto(o, "fail")
    /\ OnlyThread

FailWindow(o) ==
    /\ Kind[o] = "backfill" /\ At(o, "fail")
    /\ PutCheckpoint(o, I(o), "failed")
    /\ Continue(o, [thread[o] EXCEPT !.pc = "count", !.outcome[I(o)] = "failed"])
    /\ OnlyCheckpoint

(* requests_used += ..., _put_run(running): outside the try block too *)
Total(o) == thread[o].spent + thread[o].cost

CountRequests(o) ==
    /\ At(o, "count")
    /\ PutOperation(o, "running", Total(o))
    /\ Continue(o, Decide(o, [thread[o] EXCEPT !.spent = Total(o)],
                          thread[o].outcome[I(o)]))
    /\ OnlyOperation

CountOverrun(o) ==
    /\ At(o, "count") /\ ~ Representable(o, Total(o))
    /\ Abandon(o, "overrun")

Verdict(outcome) ==
    LET has(s) == \E i \in DOMAIN outcome : outcome[i] = s IN
    CASE \A i \in DOMAIN outcome : outcome[i] = "success" -> "success"
      [] has("success") /\ \E i \in DOMAIN outcome : outcome[i] # "success" -> "partial"
      [] ~ has("success") /\ has("conflict") /\ ~ has("failed") -> "conflict"
      [] OTHER -> "failed"

FinishBackfill(o) ==
    /\ Kind[o] = "backfill" /\ At(o, "finish")
    /\ PutOperation(o, Verdict(thread[o].outcome), thread[o].spent)
    /\ Exit(o)
    /\ OnlyOperation

-----------------------------------------------------------------------------
(* ThsCatalogSyncService.run and ThsMemberImportService.run *)

Begin(o) ==
    /\ Kind[o] # "backfill" /\ At(o, "queued")
    /\ PutOperation(o, "running", 0)
    /\ Goto(o, "fetch")
    /\ OnlyOperation

(* The bundle is fetched, counted, compared with the budget and validated; *)
(* one that costs more than the budget is dropped.                         *)
FetchCatalog(o) ==
    /\ Kind[o] = "catalog" /\ At(o, "fetch")
    /\ \E cost \in 0 .. MaxRequests, ok \in BOOLEAN :
          /\ ok => cost \in 1 .. Budget[o]
          /\ Sends(o, cost, [thread[o] EXCEPT !.spent = cost, !.pc = IF ok THEN "select" ELSE "fail"])

ReadDumps(o) ==
    /\ Kind[o] = "import" /\ At(o, "fetch")
    /\ Goto(o, "select") \/ Goto(o, "fail")
    /\ OnlyThread

AllOrNothing(o) == Kind[o] # "backfill" /\ At(o, "commit") /\ I(o) = 1

StoreAll(o) ==
    /\ AllOrNothing(o) /\ ~ thread[o].clash
    /\ InsertFacts(o, thread[o].rows)
    /\ listed' = IF Kind[o] = "catalog" THEN listed \union Codes(o, 1) ELSE listed
    /\ Continue(o, Decide(o, thread[o], "success"))
    /\ NoHistory /\ UNCHANGED <<operation, checkpoint>>

(* "encountered immutable fact conflicts", or a row committed meanwhile *)
StoreAllRaises(o) ==
    /\ AllOrNothing(o) /\ (thread[o].clash \/ Raises(o))
    /\ Goto(o, "fail")
    /\ OnlyThread

AtMembership(o) == Kind[o] = "catalog" /\ At(o, "item")

MembershipExhausted(o) ==
    /\ AtMembership(o) /\ Exhausted(o)
    /\ Continue(o, Decide(o, thread[o], "failed"))
    /\ OnlyThread

FetchMembership(o) ==
    /\ AtMembership(o) /\ ~ Exhausted(o)
    /\ \E cost \in 1 .. MaxRequests :
          /\ thread[o].spent + cost <= Budget[o]
          /\ Sends(o, cost, [thread[o] EXCEPT !.spent = @ + cost, !.pc = "select"])

(* The fetch fails, or is counted and dropped: it has overrun the budget. *)
LoseMembership(o) ==
    /\ AtMembership(o) /\ ~ Exhausted(o)
    /\ \E cost \in 0 .. MaxRequests :
          Sends(o, cost, Decide(o, [thread[o] EXCEPT !.spent = @ + cost], "failed"))

MembershipStored(o) == Kind[o] = "catalog" /\ At(o, "commit") /\ I(o) > 1

StoreMembership(o) ==
    /\ MembershipStored(o) /\ ~ thread[o].clash
    /\ InsertFacts(o, thread[o].rows)
    /\ Continue(o, Decide(o, thread[o], "success"))
    /\ NoHistory /\ UNCHANGED <<operation, checkpoint, listed>>

(* "continue" leaves the transaction without its commit. *)
DropMembership(o) ==
    /\ MembershipStored(o)
    /\ \/ thread[o].clash /\ Continue(o, Decide(o, thread[o], "conflict"))
       \/ Raises(o) /\ Continue(o, Decide(o, thread[o], "failed"))
    /\ OnlyThread

(* A catalog with values missing is partial too. *)
Finish(o) ==
    /\ Kind[o] # "backfill" /\ At(o, "finish")
    /\ \E status \in {"success", "partial"} :
          /\ status = "success" => \A i \in Items(o) : thread[o].outcome[i] = "success"
          /\ status = "partial" => Kind[o] = "catalog"
          /\ PutOperation(o, status, thread[o].spent)
    /\ Exit(o)
    /\ OnlyOperation

Fail(o) ==
    /\ Kind[o] # "backfill" /\ At(o, "fail")
    /\ PutOperation(o, "failed", thread[o].spent)
    /\ Exit(o)
    /\ OnlyOperation

(* Neither "completed" nor "failed" can be built with what was used. *)
Overrun(o) ==
    /\ Kind[o] # "backfill" /\ thread[o].pc \in {"finish", "fail"}
    /\ ~ Representable(o, thread[o].spent)
    /\ Abandon(o, "overrun")

-----------------------------------------------------------------------------
(* The process restarts; nothing looks for operations that were active. *)

Alive(o) == thread[o].pc \notin {"idle", "gone"}

Crash ==
    /\ bound.crashes < MaxCrashes
    /\ \E o \in Operation : Alive(o)
    /\ thread' = [o \in Operation |->
                    IF Alive(o) THEN [Fresh(o) EXCEPT !.pc = "gone"] ELSE thread[o]]
    /\ left' = [o \in Operation |-> IF Alive(o) THEN "crash" ELSE left[o]]
    /\ lost' = [o \in Operation |-> IF Alive(o) THEN lost[o] + 1 ELSE lost[o]]
    /\ bound' = [bound EXCEPT !.crashes = @ + 1]
    /\ UNCHANGED <<storeVars, sent>>

RunBackfill(o) ==
    \/ BeginBackfill(o) \/ SkipWindow(o) \/ WindowExhausted(o) \/ OpenWindow(o)
    \/ UnknownSector(o) \/ FetchWindow(o) \/ StoreWindow(o) \/ StoreWindowRaises(o)
    \/ FailWindow(o) \/ CountRequests(o) \/ CountOverrun(o) \/ FinishBackfill(o)

RunAllOrNothing(o) ==
    \/ Begin(o) \/ FetchCatalog(o) \/ ReadDumps(o) \/ StoreAll(o) \/ StoreAllRaises(o)
    \/ MembershipExhausted(o) \/ FetchMembership(o) \/ LoseMembership(o)
    \/ StoreMembership(o) \/ DropMembership(o) \/ Finish(o) \/ Fail(o) \/ Overrun(o)

Run(o) == Rejected(o) \/ GateRefuses(o) \/ Select(o) \/ RunBackfill(o) \/ RunAllOrNothing(o)

Next == (\E o \in Operation : Start(o) \/ Resume(o) \/ Run(o)) \/ Crash

(* The executor runs what it has accepted, and its threads go on. *)
Spec == Init /\ [][Next]_vars /\ WF_vars(\E o \in Operation : Run(o))

-----------------------------------------------------------------------------
(* Properties *)

Stored(o, i) == \A k \in Plan[o][i] : fact[k] # Absent

(* A window marked successful holds its bars, and an operation that says   *)
(* success has stored every item of its plan: the checkpoint is committed  *)
(* with the bars, the verdict after them, and other operations, resumed    *)
(* runs and restarts come in between.                                      *)
SuccessMeansStored ==
    \A o \in Operation : \A i \in Items(o) :
        checkpoint[o][i] = "success" \/ operation[o].status = "success" => Stored(o, i)

(* An all-or-nothing operation that failed has left no fact behind, though *)
(* it may have found its conflict, or lost a race for one row, after       *)
(* having inserted the others.                                             *)
FailedOperationStoredNothing ==
    \A o \in Operation \ Backfills :
        operation[o].status = "failed" => wrote[o] = {}

(* The verdict of a backfill is the verdict of the checkpoints in the      *)
(* database, whichever of several executions put them there.               *)
VerdictMatchesWindows ==
    \A o \in Backfills :
        operation[o].status \in Terminal => operation[o].status = Verdict(checkpoint[o])

(* "enforce the declared request budget": what the provider receives goes  *)
(* beyond the budget by less than one fetch, plus one fetch for each       *)
(* execution that ended without recording what it had used.                *)
BudgetIsKept ==
    \A o \in Operation : sent[o] < Budget[o] + MaxRequests * (1 + lost[o])

(* An operation none of whose executions was lost reports the requests     *)
(* that the provider received: those of failed fetches too.                *)
ReportedRequestsWereSent ==
    \A o \in Operation :
        operation[o].status \in Terminal /\ ~ Alive(o) /\ lost[o] = 0
            => operation[o].used = sent[o]

(* "resume only unresolved chunks": a fact is never overwritten, and a     *)
(* window that succeeded is never opened again.                            *)
DoneStaysDone ==
    [][/\ \A k \in Key : fact[k] # Absent => fact'[k] = fact[k]
       /\ \A o \in Operation : \A i \in Items(o) :
             checkpoint[o][i] = "success" => checkpoint'[o][i] = "success"]_vars

(* No operation is left waiting: again and again every one that has been   *)
(* requested has its verdict, or was left by its thread for a known cause. *)
OperationsSettle ==
    []<>(\A o \in Operation : operation[o].status \in Active => left[o] # "none")

(* What the specification of the feature says: a run whose execution ends  *)
(* has a verdict ("... and the parent run is `partial`").  Not so in the   *)
(* code: README, Disagreements.                                            *)
EndedRunsAreDecided ==
    \A o \in Operation : left[o] = "overrun" => operation[o].status \in Terminal
=============================================================================
