-------------------------- MODULE ManualCollection --------------------------
(***************************************************************************)
(* POST /collection-runs: each request starts one run of its own, reserves *)
(* a lease per dataset, and hands the run to the bounded executor.  Other  *)
(* requests poll runs whose POST has answered, and the process may crash.  *)
(***************************************************************************)
EXTENDS CollectionExecution

CONSTANTS
    Requests,       \* the dataset selections clients post; an empty one is all
    MaxCrashes      \* bound: crashes of the process

ASSUME ManualAssumption ==
    /\ Requests \subseteq (SUBSET Dataset) \ {{}}
    /\ MaxCrashes \in Nat
    /\ Bound = {}

VARIABLES
    post,           \* post[r]: the request that starts run r
    crashes

manualVars == <<post, crashes>>
vars == <<storeVars, executionVars, manualVars>>

Post == [pc : {"none", "sweep", "expire", "create", "next", "acquire",
               "confirm", "yield", "open", "status", "statusExpire", "submit",
               "answered", "refused", "failed"},
         todo : SUBSET Dataset, seen : SUBSET Task]

TypeOK ==
    /\ StoreTypeOK
    /\ ExecutionTypeOK
    /\ post \in [Run -> Post]
    /\ crashes \in 0 .. MaxCrashes

Init ==
    /\ StoreInit
    /\ ExecutionInit
    /\ post = [r \in Run |-> [pc |-> "none", todo |-> {}, seen |-> {}]]
    /\ crashes = 0

Posting(r, pc) == post[r].pc = pc
Then(r, pc) == post' = [post EXCEPT ![r].pc = pc, ![r].seen = {}]
With(r, pc, todo) == post' = [post EXCEPT ![r].pc = pc, ![r].todo = todo]
Reserved(r) == With(r, "next", post[r].todo \ {First(post[r].todo)})

OnlyPost == UNCHANGED <<storeVars, executionVars, crashes>>
OnlyTaskAndPost == UNCHANGED <<run, lease, snapshot, lapsed, executionVars, crashes>>

(* _expand_dependencies walks the canonical order backwards and adds every *)
(* missing prerequisite that is not stored.                                *)
Closure(chosen) ==
    LET missing == {p \in UNION {DependsOn[d] : d \in chosen} : snapshot[p] = {}}
    IN  chosen \union missing

PostRun(r, chosen) ==
    /\ Posting(r, "none")
    /\ With(r, "sweep", Closure(chosen))
    /\ OnlyPost

PostSweep(r) ==
    /\ \/ Posting(r, "sweep") /\ Inactive = {} /\ Then(r, "create")
       \/ Posting(r, "status") /\ Inactive = {} /\ Then(r, "submit")
       \/ Posting(r, "sweep") /\ Inactive # {}
          /\ post' = [post EXCEPT ![r].pc = "expire", ![r].seen = Inactive]
       \/ Posting(r, "status") /\ Inactive # {}
          /\ post' = [post EXCEPT ![r].pc = "statusExpire", ![r].seen = Inactive]
    /\ OnlyPost

PostExpire(r) ==
    /\ \/ Posting(r, "expire") /\ Then(r, "create")
       \/ Posting(r, "statusExpire") /\ Then(r, "submit")
    /\ ExpireTasks(post[r].seen)
    /\ UNCHANGED <<executionVars, crashes>>

CreateRun(r) ==
    /\ Posting(r, "create")
    /\ SetRun(r, "queued")
    /\ Then(r, "next")
    /\ UNCHANGED <<task, lease, snapshot, lapsed, executionVars, crashes>>

(* One dataset: rejected by the preflight, busy because another task is    *)
(* active, or queued and about to be reserved.  (The read of the active    *)
(* task and the insert that follows are one step: nothing in between can   *)
(* see the difference.)                                                    *)
CreateTask(r) ==
    /\ Posting(r, "next") /\ post[r].todo # {}
    /\ LET d == First(post[r].todo) IN
       \/ SetTask(r, d, FailedAs(d)) /\ Reserved(r)
       \/ ActiveTaskExists(d) /\ SetTask(r, d, "busy") /\ Reserved(r)
       \/ ~ActiveTaskExists(d) /\ SetTask(r, d, "queued") /\ Then(r, "acquire")
    /\ OnlyTaskAndPost

(* Mutant: the row is taken over without looking at its expiry. *)
AcquireAnyLease(r) ==
    /\ Posting(r, "acquire")
    /\ TakeLease(r, First(post[r].todo), TokensInHand)
    /\ Then(r, "confirm")
    /\ UNCHANGED <<run, task, snapshot, lapsed, executionVars, crashes>>

(* The request read the clock when it started, so a row that has run out   *)
(* since then may still look live to it.                                   *)
AcquireTaskLease(r) ==
    /\ Posting(r, "acquire")
    /\ LET d == First(post[r].todo) IN
       /\ ~lease[d].live
       /\ TakeLease(r, d, TokensInHand)
    /\ Then(r, "confirm")
    /\ UNCHANGED <<run, task, snapshot, lapsed, executionVars, crashes>>

TaskLeaseRefused(r) ==
    /\ Posting(r, "acquire")
    /\ lease[First(post[r].todo)] # NoLease
    /\ Then(r, "yield")
    /\ OnlyPost

(* The reservation is recorded on the task, which must still be queued. *)
ConfirmTask(r) ==
    /\ Posting(r, "confirm")
    /\ UNCHANGED task
    /\ IF task[r][First(post[r].todo)] = "queued"
       THEN Reserved(r) ELSE With(r, "failed", {})
    /\ OnlyTaskAndPost

YieldTask(r) ==
    /\ Posting(r, "yield")
    /\ LET d == First(post[r].todo) IN
       \/ task[r][d] = "queued" /\ SetTask(r, d, "busy") /\ Reserved(r)
       \/ task[r][d] # "queued" /\ UNCHANGED task /\ With(r, "failed", {})
    /\ OnlyTaskAndPost

(* start_run ends with an update that expects no status. *)
OpenPostedRun(r) ==
    /\ Posting(r, "next") /\ post[r].todo = {}
    /\ SetRun(r, "collecting")
    /\ Then(r, "status")
    /\ UNCHANGED <<task, lease, snapshot, lapsed, executionVars, crashes>>

SubmitRun(r) ==
    /\ Posting(r, "submit")
    /\ Enqueue(r)
    /\ Then(r, "answered")
    /\ UNCHANGED <<storeVars, job, reader, crashes>>

(* "task executor capacity is exhausted", by these runs or by others that  *)
(* share the executor: the reservations stay behind.                       *)
SubmitRefused(r) ==
    /\ Posting(r, "submit")
    /\ Then(r, "refused")
    /\ OnlyPost

PostStep(r) ==
    \/ PostSweep(r)        \/ PostExpire(r)     \/ CreateRun(r)
    \/ CreateTask(r)       \/ AcquireTaskLease(r) \/ TaskLeaseRefused(r)
    \/ ConfirmTask(r)      \/ YieldTask(r)      \/ OpenPostedRun(r)
    \/ SubmitRun(r)        \/ SubmitRefused(r)

(* The process dies: threads, requests and the executor's queue are gone,  *)
(* the tables stay.                                                        *)
Crash ==
    /\ crashes < MaxCrashes
    /\ crashes' = crashes + 1
    /\ queue' = <<>>
    /\ job' = [e \in Executor |-> Idle]
    /\ reader' = [c \in Reader |-> Resting]
    /\ post' = [r \in Run |->
            IF post[r].pc \in {"none", "answered", "refused", "failed"}
            THEN post[r] ELSE [pc |-> "failed", todo |-> {}, seen |-> {}]]
    /\ UNCHANGED storeVars

(* A client polls the run its POST answered with. *)
PollRun(c, r) == Posting(r, "answered") /\ GetRun(c, r)

Next ==
    \/ \E r \in Run, chosen \in Requests : PostRun(r, chosen)
    \/ \E r \in Run : PostStep(r)
    \/ \E e \in Executor : ExecutorStep(e) /\ UNCHANGED manualVars
    \/ \E c \in Reader :
          /\ (\E r \in Run : PollRun(c, r)) \/ CollectionStatus(c) \/ ReaderStep(c)
          /\ UNCHANGED manualVars
    \/ \E d \in Dataset : Lapse(d) /\ UNCHANGED <<executionVars, manualVars>>
    \/ Crash

Spec == Init /\ [][Next]_vars

(* Leases run out, threads run, a request that has started goes on, and    *)
(* clients poll: the run their POST answered with, until it is terminal,   *)
(* and the status of the date.                                             *)
Fairness ==
    /\ \A d \in Dataset : WF_vars(Lapse(d) /\ UNCHANGED <<executionVars, manualVars>>)
    /\ \A e \in Executor : WF_vars(ExecutorStep(e) /\ UNCHANGED manualVars)
    /\ \A r \in Run : WF_vars(PostStep(r))
    /\ \A c \in Reader :
          /\ WF_vars(ReaderStep(c) /\ UNCHANGED manualVars)
          /\ SF_vars(CollectionStatus(c) /\ UNCHANGED manualVars)
          /\ \A r \in Run : SF_vars(PollRun(c, r) /\ UNCHANGED manualVars)

LiveSpec == Spec /\ Fairness

-----------------------------------------------------------------------------
(* What a task's status says about the data is true: a run whose task      *)
(* succeeded, wholly or in part, has written that snapshot itself, a       *)
(* retained failure has something to retain, and a dataset whose committer *)
(* moves the task with the data is never written by a task that ends       *)
(* failed-missing.  Sweeps, lost leases and raised exceptions included.    *)
StatusTellsTheTruth ==
    \A r \in Run, d \in Dataset :
        /\ task[r][d] \in Successful => r \in snapshot[d]
        /\ task[r][d] = "failed-retained" => snapshot[d] # {}
        /\ task[r][d] = "failed-missing" /\ d \in Atomic => r \notin snapshot[d]

(* Two threads are between lease renewal and commit for the same dataset   *)
(* only if the lease of one of them ran out: reservation, release of an    *)
(* old token and sweeps never let a second provider call in.               *)
NoDuplicateProviderWork ==
    \A e, f \in Executor :
        /\ e # f
        /\ job[e].pc \in {"collect", "admit", "commit"}
        /\ job[f].pc \in {"collect", "admit", "commit"}
        /\ D(e) = D(f)
        => {<<R(e), D(e)>>, <<R(f), D(f)>>} \intersect lapsed # {}

(* A task that has ended is never worked on again and never improves: the  *)
(* claim of a thread that listed it as queued, a late settlement and the   *)
(* sweeps that selected it while it was active may make it worse (busy or  *)
(* success to failed, success to partial), and nothing makes it better.    *)
DecidedTasksStayDecided ==
    [][ \A r \in Run, d \in Dataset :
            task[r][d] \in Terminal =>
                /\ task'[r][d] \in Terminal
                /\ task'[r][d] \in Successful =>
                        task[r][d] \in {"success", task'[r][d]} ]_vars

(* sector-turnover is collected only when industry-ranking is there to     *)
(* collect it from, however the ranking task of the same run ended.        *)
CollectedOnPrerequisites ==
    \A e \in Executor : job[e].pc \in {"collect", "admit", "commit"} =>
        \A p \in DependsOn[D(e)] : snapshot[p] # {}

(* Once the POST has answered, a run is reported terminal only when all of *)
(* its tasks are, and as failed only when none of them succeeded, whoever  *)
(* of executor, poll and sweep settled it.                                 *)
SettledRunIsHonest ==
    \A r \in Run : post[r].pc = "answered" /\ run[r] \in RunTerminal =>
        /\ AllTerminal(r)
        /\ run[r] = "failed" => Statuses(r) \intersect Successful = {}

(* A restart, a lost lease or an aborted execution leaves no task active   *)
(* for ever: it becomes terminal, and so retryable.                        *)
TasksSettle ==
    \A r \in Run, d \in Dataset :
        task[r][d] \in Active ~> task[r][d] \in Terminal

(* And a client that polls its run sees it end. *)
AnsweredRunsSettle ==
    \A r \in Run :
        post[r].pc = "answered" ~> run[r] \in RunTerminal

(* The next two are what the documents say and the code does not do; the   *)
(* README tells how (Disagreements).                                       *)

(* design.md: "lease fence, snapshot commit, collection task transition    *)
(* ... use explicit transactions; conflicts are rejected by generation/CAS *)
(* checks".  The sweep's UPDATE has no such check.                         *)
SuccessIsNotOverwritten ==
    [][ \A r \in Run, d \in Dataset :
            task[r][d] \in Successful => task'[r][d] \notin Failed ]_vars

(* market-data-collection-management: a full collection "continues         *)
(* processing after any individual task failure".  An execution that stops *)
(* on its own leaves no task of its run queued.                            *)
FailuresDoNotStopSiblings ==
    [][ \A e \in Executor :
            /\ job[e].pc # "idle" /\ job'[e].pc = "idle"
            /\ crashes' = crashes
            => \A d \in Dataset : task[job[e].run][d] # "queued" ]_vars
=============================================================================
