------------------------ MODULE ManualCollectionProofs ------------------------
(***************************************************************************)
(* What manual collections promise, for any runs, datasets, prerequisites, *)
(* executor threads and polls, and however often the process dies.         *)
(*                                                                         *)
(* A thread acts on what it has read before, so the invariant says of each *)
(* program counter what is still true of the tables then. It rests on what *)
(* every step of everybody keeps (Kept): a task that has ended does        *)
(* not improve, a snapshot stays, and only a POST that is still adding its *)
(* datasets adds tasks.                                                    *)
(***************************************************************************)
EXTENDS ManualCollection, FiniteSetTheorems, SequenceTheorems,
        WellFoundedInduction, TLAPS

Exists(t) == task[t[1]][t[2]] # "absent"
Answered(r) == post[r].pc = "answered"
Opened == {"status", "statusExpire", "submit", "answered"}

(* A verdict that may be told of a run with these tasks: all of them have  *)
(* ended, and none succeeded if it is called failed.                       *)
Honest(tasks, verdict) ==
    /\ verdict \in RunTerminal
    /\ \E d \in Dataset : tasks[d] # "absent"
    /\ \A d \in Dataset : tasks[d] \in Terminal \union {"absent"}
    /\ verdict = "failed" => \A d \in Dataset : tasks[d] \notin Successful

-----------------------------------------------------------------------------
(* The inductive invariant, part by part *)

(* What the tables say of a task. *)
TaskOK(r, d) ==
    /\ task[r][d] \in Successful => r \in snapshot[d]
    /\ task[r][d] = "failed-retained" => snapshot[d] # {}
    /\ d \in Atomic /\ r \in snapshot[d] => task[r][d] \in Terminal \ {"failed-missing"}

RunOK(r) == post[r].pc \in Opened /\ run[r] \in RunTerminal => Honest(task[r], run[r])

(* A run is handed to the executor once. *)
ScheduledOnce ==
    /\ \A e, f \in Executor : job[e].run = job[f].run /\ job[e].run # NoRun => e = f
    /\ \A i \in 1 .. Len(queue) :
          /\ Answered(queue[i])
          /\ \A e \in Executor : job[e].run # queue[i]
          /\ \A j \in 1 .. Len(queue) : queue[i] = queue[j] => i = j

(* Where a thread is, and what it works on. *)
AtATask == {"check", "reserved", "block", "claim", "token", "renew", "lost", "lose",
            "collect", "admit", "commit", "reread", "settle", "existing", "warn",
            "fail", "rebuild", "fenced", "refuse", "integrity", "parent", "verdict",
            "release", "abandon"}

PlaceOK(e) ==
    /\ IF job[e].pc = "idle" THEN job[e] = Idle ELSE Answered(job[e].run) /\ job[e].run # NoRun
    /\ job[e].pc \in AtATask => job[e].todo # {}
    /\ \A d \in job[e].todo : task[job[e].run][d] # "absent"
    /\ \A t \in job[e].seen : Exists(t)

(* A failure about to be recorded tells the truth about the data. *)
FailsTruly(e) ==
    /\ job[e].target \in Failed
    /\ job[e].target = "failed-retained" => snapshot[D(e)] # {}

(* What a thread has read and is about to write. *)
PurposeOK(e) ==
    /\ job[e].pc \in {"admit", "commit", "settle", "reread"} => job[e].target \in Successful
    /\ job[e].pc = "settle" => R(e) \in snapshot[D(e)]
    /\ job[e].pc = "rebuild" => job[e].expect \in Successful \union {"failed-retained"}
    /\ job[e].pc \in {"lose", "warn", "fail"} => FailsTruly(e)
    /\ job[e].pc = "refuse" =>
          \/ job[e].expect \in Terminal /\ job[e].target = job[e].expect
          \/ job[e].expect \in Active /\ FailsTruly(e)
    /\ job[e].pc = "integrity" => snapshot[D(e)] # {}
    /\ job[e].pc \in {"verdict", "close"} => Honest(task[R(e)], job[e].target)

Providing == {"collect", "admit", "commit"}

(* What a thread that collects stands on: data of the prerequisites, and   *)
(* the lease, unless it has run out.                                       *)
GroundsOK(e) ==
    /\ job[e].pc \in Providing \union {"claim", "token", "renew"} =>
          \A p \in DependsOn[D(e)] : snapshot[p] # {}
    /\ job[e].pc \in Providing => OwnsLive(R(e), D(e)) \/ <<R(e), D(e)>> \in lapsed

ReaderOK(c) ==
    /\ reader[c].pc \in {"read", "settle"} => reader[c].run # NoRun
    /\ reader[c].run # NoRun => Answered(reader[c].run)
    /\ \A t \in reader[c].seen : Exists(t)
    /\ reader[c].pc = "settle" => Honest(task[reader[c].run], reader[c].target)

(* A request adds the tasks of its datasets one by one. *)
PostOK(r) ==
    /\ \A t \in post[r].seen : Exists(t)
    /\ post[r].pc \in {"none", "sweep", "expire", "create"} =>
          \A d \in Dataset : task[r][d] = "absent"
    /\ post[r].pc \in {"sweep", "expire", "create"} => post[r].todo # {}
    /\ post[r].pc = "next" =>
          /\ \A d \in post[r].todo : task[r][d] = "absent"
          /\ post[r].todo = {} => \E d \in Dataset : task[r][d] # "absent"
    /\ post[r].pc \in {"acquire", "confirm", "yield"} =>
          /\ post[r].todo # {} /\ task[r][First(post[r].todo)] # "absent"
          /\ \A d \in post[r].todo \ {First(post[r].todo)} : task[r][d] = "absent"
    /\ post[r].pc \in Opened => \E d \in Dataset : task[r][d] # "absent"

JobOK(e) == PlaceOK(e) /\ PurposeOK(e) /\ GroundsOK(e)

CollectionInv ==
    /\ TypeOK
    /\ \A r \in Run, d \in Dataset : TaskOK(r, d)
    /\ \A r \in Run : RunOK(r) /\ PostOK(r)
    /\ ScheduledOnce
    /\ \A e \in Executor : JobOK(e)
    /\ \A c \in Reader : ReaderOK(c)

(* What every step keeps, whoever takes it. A request whose pc is "next"   *)
(* adds a task when it moves; otherwise a run has the tasks it has.        *)
Settled(r) == post[r].pc # "next" \/ post'[r] = post[r]

Kept ==
    /\ \A r \in Run, d \in Dataset :
          /\ task[r][d] # "absent" => task'[r][d] # "absent"
          /\ task[r][d] \in Terminal =>
                /\ task'[r][d] \in Terminal
                /\ task'[r][d] \in Successful => task[r][d] \in {"success", task'[r][d]}
          /\ task[r][d] = "absent" /\ Settled(r) => task'[r][d] = "absent"
    /\ \A d \in Dataset : snapshot[d] \subseteq snapshot'[d]
    /\ lapsed \subseteq lapsed'
    /\ \A r \in Run : Answered(r) => Answered(r)'

(* ... and of the lease of task d of run r. *)
LeaseKept(r, d) ==
    OwnsLive(r, d) => \/ lease'[d].owner = r /\ lease'[d].live
                      \/ <<r, d>> \in lapsed'

(* What a thread's step does to the tables, and to its own job. *)
StoreMoves(e) ==
    /\ StoreTypeOK'
    /\ Kept
    /\ \A r \in Run, d \in Dataset : TaskOK(r, d)'
    /\ \A r \in Run : run'[r] \in RunTerminal => run'[r] = run[r] \/ Honest(task'[r], run'[r])
    /\ \A r \in Run, d \in Dataset : r # R(e) => LeaseKept(r, d)
    /\ UNCHANGED <<reader, manualVars>>

JobMoves(e) ==
    /\ job' \in [Executor -> Job]
    /\ \A f \in Executor \ {e} : job'[f] = job[f]
    /\ job'[e].run \in {job[e].run, NoRun}
    /\ JobOK(e)'

(* The program counters of a thread that has read nothing it relies on. *)
Unburdened == {"idle", "sweep", "expire", "begin", "open", "list", "check", "reserved",
               "block", "lost", "existing", "fenced", "parent", "release",
               "abandon", "finish"}

SoundStep == Kept /\ CollectionInv'

-----------------------------------------------------------------------------
(* Facts about the operators of the store *)

(* There is a first dataset in every selection of datasets. *)
LEMMA LeastOfRanks ==
    ASSUME NEW S, S # {}, NEW rank \in [S -> Nat]
    PROVE  \E i \in S : \A j \in S : rank[i] <= rank[j]
<1> DEFINE Less == {ss \in Nat \X Nat : ss[1] < ss[2]}
           Ranks == {rank[i] : i \in S}
<1>1. IsWellFoundedOn(Less, Nat)
    BY NatLessThanWellFounded DEF OpToRel
<1>2. \A m, n \in Nat : m < n => <<m, n>> \in Less
    OBVIOUS
<1>3. Ranks \subseteq Nat /\ Ranks # {}
    OBVIOUS
<1> HIDE DEF Less, Ranks
<1>4. PICK x \in Ranks : \A y \in Ranks : ~ (<<y, x>> \in Less)
    BY <1>1, <1>3, WFMin
<1>5. PICK i \in S : rank[i] = x
    BY <1>4 DEF Ranks
<1>6. ASSUME NEW j \in S PROVE rank[i] <= rank[j]
    <2>1. rank[j] \in Ranks /\ rank[j] \in Nat /\ x \in Nat
        BY <1>3 DEF Ranks
    <2>2. ~ (rank[j] < x)
        BY <1>2, <1>4, <2>1
    <2> QED BY <1>5, <2>1, <2>2
<1> QED BY <1>6

LEMMA FirstIsIn ==
    ASSUME NEW S \in SUBSET Dataset, S # {}
    PROVE  First(S) \in S
<1> DEFINE rank == [d \in S |-> Rank[d]]
<1>1. rank \in [S -> Nat]
    BY StoreAssumption
<1>2. PICK d \in S : \A c \in S : rank[d] <= rank[c]
    BY <1>1, LeastOfRanks
<1>3. \E x \in S : \A c \in S : Rank[x] <= Rank[c]
    BY <1>2
<1> QED BY <1>3 DEF First

(* acquire_lease finds a generation that is neither in the row nor in use. *)
LEMMA FreshExists ==
    ASSUME NEW taken, IsFiniteSet(taken)
    PROVE  \E n \in 1 .. Cardinality(taken) + 1 : n \notin taken
<1>1. SUFFICES ASSUME 1 .. Cardinality(taken) + 1 \subseteq taken PROVE FALSE
    OBVIOUS
<1>2. Cardinality(taken) \in Nat
    BY FS_CardinalityType
<1>3. Cardinality(1 .. Cardinality(taken) + 1) = Cardinality(taken) + 1
    BY <1>2, FS_Interval
<1>4. Cardinality(1 .. Cardinality(taken) + 1) <= Cardinality(taken)
    BY <1>1, FS_Subset
<1> QED BY <1>2, <1>3, <1>4

LEMMA TokensAreFinite == IsFiniteSet(TokensInHand)
<1> DEFINE token == [e \in Executor |-> job[e].token]
<1>1. token \in Surjection(Executor, TokensInHand)
    BY DEF Surjection, TokensInHand
<1> QED BY <1>1, FS_Surjection, ExecutionAssumption

LEMMA LeaseTaken ==
    ASSUME TypeOK, NEW r \in Run, NEW d \in Dataset, TakeLease(r, d, TokensInHand)
    PROVE  /\ lease' \in [Dataset -> [owner : Run \union {NoRun}, generation : Nat,
                                      live : BOOLEAN]]
           /\ \A c \in Dataset : c # d => lease'[c] = lease[c]
<1> DEFINE taken == TokensInHand \union {lease[d].generation}
           fresh == CHOOSE n \in 1 .. Cardinality(taken) + 1 : n \notin taken
<1>1. IsFiniteSet(taken)
    BY TokensAreFinite, FS_AddElement
<1>2. Cardinality(taken) \in Nat
    BY <1>1, FS_CardinalityType
<1> HIDE DEF taken
<1>3. fresh \in 1 .. Cardinality(taken) + 1
    BY <1>1, FreshExists
<1>4. fresh \in Nat
    BY <1>2, <1>3
<1> HIDE DEF fresh
<1>5. lease' = [lease EXCEPT ![d] = [owner |-> r, generation |-> fresh, live |-> TRUE]]
    BY DEF TakeLease, taken, fresh
<1> QED BY <1>4, <1>5 DEF TypeOK, StoreTypeOK

LEMMA VerdictIsHonest ==
    ASSUME NEW statuses, statuses # {}, statuses \subseteq Terminal
    PROVE  /\ Verdict(statuses) \in RunTerminal
           /\ Verdict(statuses) = "failed" => statuses \intersect Successful = {}
    BY DEF Verdict, RunTerminal, Successful

LEMMA HonestVerdict ==
    ASSUME TypeOK, NEW r \in Run, AllTerminal(r)
    PROVE  Honest(task[r], Verdict(Statuses(r)))
<1>1. /\ Verdict(Statuses(r)) \in RunTerminal
      /\ Verdict(Statuses(r)) = "failed" => Statuses(r) \intersect Successful = {}
    BY VerdictIsHonest DEF AllTerminal
<1> QED BY <1>1 DEF Honest, AllTerminal, Statuses, Successful

LEMMA FailedAsIsTrue ==
    ASSUME NEW d
    PROVE  /\ FailedAs(d) \in Failed
           /\ FailedAs(d) = "failed-retained" <=> snapshot[d] # {}
    BY DEF FailedAs, Failed

LEMMA StatusesDiffer ==
    /\ "absent" \notin Active \union Terminal
    /\ Active \intersect Terminal = {}
    /\ Successful \intersect Failed = {}
    /\ Successful \subseteq Terminal /\ Failed \subseteq Terminal
    BY DEF Active, Terminal, Successful, Failed

-----------------------------------------------------------------------------
(* What a step keeps is enough for everybody who did not take it *)

LEMMA HonestStays ==
    ASSUME TypeOK, Kept, NEW r \in Run, Settled(r), NEW verdict,
           Honest(task[r], verdict)
    PROVE  Honest(task'[r], verdict)
<1>1. \E d \in Dataset : task'[r][d] # "absent"
    BY DEF Honest, Kept
<1>2. ASSUME NEW d \in Dataset PROVE task'[r][d] \in Terminal \union {"absent"}
    BY DEF Honest, Kept
<1>3. ASSUME verdict = "failed", NEW d \in Dataset PROVE task'[r][d] \notin Successful
    <2>1. task[r][d] \in Terminal \union {"absent"} /\ task[r][d] \notin Successful
        BY <1>3 DEF Honest
    <2>2. CASE task[r][d] = "absent"
        BY <2>2 DEF Kept, Successful
    <2>3. CASE task[r][d] \in Terminal
        BY <2>1, <2>3 DEF Kept, Successful
    <2> QED BY <2>1, <2>2, <2>3
<1> QED BY <1>1, <1>2, <1>3 DEF Honest

LEMMA PlaceStays ==
    ASSUME TypeOK, Kept, NEW e \in Executor, PlaceOK(e), job'[e] = job[e]
    PROVE  PlaceOK(e)'
<1>1. job[e].todo \subseteq Dataset /\ job[e].seen \subseteq Task
      /\ job[e].run \in Run \union {NoRun}
    BY DEF TypeOK, ExecutionTypeOK, Job
<1>2. \A t \in job[e].seen : Exists(t)'
    BY <1>1 DEF PlaceOK, Kept, Exists, Task
<1>3. ASSUME NEW d \in job[e].todo PROVE task'[job[e].run][d] # "absent"
    BY <1>1, <1>3 DEF PlaceOK, Kept, Idle
<1>4. IF job[e].pc = "idle" THEN job[e] = Idle ELSE Answered(job[e].run)' /\ job[e].run # NoRun
    BY <1>1 DEF PlaceOK, Kept, Answered
<1> QED BY <1>2, <1>3, <1>4 DEF PlaceOK, Answered, Exists

LEMMA PurposeStays ==
    ASSUME TypeOK, Kept, NEW e \in Executor, PlaceOK(e), PurposeOK(e), job'[e] = job[e]
    PROVE  PurposeOK(e)'
<1>1. D(e)' = D(e) /\ R(e)' = R(e)
    BY DEF D, R, First
<1>2. job[e].pc # "idle" => R(e) \in Run /\ Answered(R(e))
    BY DEF PlaceOK, TypeOK, ExecutionTypeOK, Job, R
<1>3. job[e].pc \in AtATask => D(e) \in Dataset
    BY FirstIsIn DEF PlaceOK, TypeOK, ExecutionTypeOK, Job, D
<1>4. job[e].pc \in {"lose", "warn", "fail", "refuse"} /\ FailsTruly(e) => FailsTruly(e)'
    <2> SUFFICES ASSUME job[e].pc \in {"lose", "warn", "fail", "refuse"}, FailsTruly(e)
                 PROVE  FailsTruly(e)'
        OBVIOUS
    <2>1. D(e) \in Dataset
        BY <1>3 DEF AtATask
    <2> QED BY <1>1, <2>1 DEF FailsTruly, Kept
<1>5. job[e].pc \in {"verdict", "close"} => Honest(task'[R(e)], job[e].target)
    <2> SUFFICES ASSUME job[e].pc \in {"verdict", "close"}
                 PROVE  Honest(task'[R(e)], job[e].target)
        OBVIOUS
    <2>1. R(e) \in Run /\ Settled(R(e))
        BY <1>2 DEF Answered, Settled
    <2>2. Honest(task[R(e)], job[e].target)
        BY DEF PurposeOK
    <2> QED BY <2>1, <2>2, HonestStays
<1>6. job[e].pc = "settle" => R(e) \in snapshot'[D(e)]
    BY <1>3 DEF PurposeOK, Kept, AtATask
<1>7. job[e].pc = "integrity" => snapshot'[D(e)] # {}
    BY <1>3 DEF PurposeOK, Kept, AtATask
<1> QED BY <1>1, <1>4, <1>5, <1>6, <1>7 DEF PurposeOK

LEMMA GroundsStay ==
    ASSUME TypeOK, Kept, NEW e \in Executor, PlaceOK(e), GroundsOK(e), job'[e] = job[e],
           LeaseKept(R(e), D(e))
    PROVE  GroundsOK(e)'
<1>1. D(e)' = D(e) /\ R(e)' = R(e)
    BY DEF D, R, First
<1>2. job[e].pc \in AtATask => D(e) \in Dataset
    BY FirstIsIn DEF PlaceOK, TypeOK, ExecutionTypeOK, Job, D
<1>3. ASSUME job[e].pc \in Providing \union {"claim", "token", "renew"},
             NEW p \in DependsOn[D(e)]
      PROVE  snapshot'[p] # {}
    <2>1. p \in Dataset
        BY <1>2, <1>3, StoreAssumption DEF AtATask, Providing
    <2> QED BY <1>3, <2>1 DEF GroundsOK, Kept
<1>4. ASSUME job[e].pc \in Providing
      PROVE  \/ lease'[D(e)].owner = R(e) /\ lease'[D(e)].live
             \/ <<R(e), D(e)>> \in lapsed'
    BY <1>4 DEF GroundsOK, LeaseKept, Kept
<1> QED BY <1>1, <1>3, <1>4 DEF GroundsOK, OwnsLive

LEMMA OtherJobStays ==
    ASSUME TypeOK, Kept, NEW e \in Executor, JobOK(e), job'[e] = job[e], LeaseKept(R(e), D(e))
    PROVE  JobOK(e)'
    BY PlaceStays, PurposeStays, GroundsStay DEF JobOK

LEMMA OtherReaderStays ==
    ASSUME TypeOK, Kept, NEW c \in Reader, ReaderOK(c), reader'[c] = reader[c]
    PROVE  ReaderOK(c)'
<1>1. reader[c].seen \subseteq Task /\ reader[c].run \in Run \union {NoRun}
    BY DEF TypeOK, ExecutionTypeOK, Request
<1>2. \A t \in reader[c].seen : Exists(t)'
    BY <1>1 DEF ReaderOK, Kept, Exists, Task
<1>3. reader[c].run # NoRun => Answered(reader[c].run)'
    BY <1>1 DEF ReaderOK, Kept, Answered
<1>4. ASSUME reader[c].pc = "settle"
      PROVE  Honest(task'[reader[c].run], reader[c].target)
    <2>1. reader[c].run \in Run /\ Settled(reader[c].run)
        BY <1>1, <1>4 DEF ReaderOK, Answered, Settled
    <2>2. Honest(task[reader[c].run], reader[c].target)
        BY <1>4 DEF ReaderOK
    <2> QED BY <2>1, <2>2, HonestStays
<1> QED BY <1>2, <1>3, <1>4 DEF ReaderOK, Answered, Exists

LEMMA OtherPostStays ==
    ASSUME TypeOK, Kept, NEW r \in Run, PostOK(r), post'[r] = post[r]
    PROVE  PostOK(r)'
<1>1. post[r].seen \subseteq Task /\ post[r].todo \subseteq Dataset /\ Settled(r)
    BY DEF TypeOK, Post, Settled
<1>2. \A t \in post[r].seen : Exists(t)'
    BY <1>1 DEF PostOK, Kept, Exists, Task
<1>3. \A d \in Dataset :
          /\ task[r][d] = "absent" => task'[r][d] = "absent"
          /\ task[r][d] # "absent" => task'[r][d] # "absent"
    BY <1>1 DEF Kept
<1>4. First(post'[r].todo) = First(post[r].todo)
    BY DEF First
<1>5. post[r].todo # {} => First(post[r].todo) \in Dataset
    BY <1>1, FirstIsIn
<1> HIDE DEF Kept
<1> QED BY <1>1, <1>2, <1>3, <1>4, <1>5 DEF PostOK, Exists, Opened

LEMMA OtherRunStays ==
    ASSUME TypeOK, Kept, NEW r \in Run, RunOK(r), run'[r] = run[r],
           post'[r].pc \in Opened => post[r].pc \in Opened
    PROVE  RunOK(r)'
<1> SUFFICES ASSUME post'[r].pc \in Opened, run[r] \in RunTerminal
             PROVE  Honest(task'[r], run[r])
    BY DEF RunOK
<1>1. Honest(task[r], run[r]) /\ Settled(r)
    BY DEF RunOK, Settled, Opened
<1> QED BY <1>1, HonestStays

-----------------------------------------------------------------------------
(* A step of thread e *)

LEMMA ExecutorKeeps ==
    ASSUME CollectionInv, NEW e \in Executor, StoreMoves(e), JobMoves(e), UNCHANGED queue
    PROVE  SoundStep
<1>1. TypeOK /\ TypeOK' /\ Kept
    BY DEF CollectionInv, StoreMoves, JobMoves, TypeOK, ExecutionTypeOK, manualVars
<1>2. ASSUME NEW r \in Run PROVE RunOK(r)' /\ PostOK(r)'
    <2>1. post'[r] = post[r]
        BY DEF StoreMoves, manualVars
    <2>2. PostOK(r)'
        BY <1>1, <2>1, OtherPostStays DEF CollectionInv
    <2>3. RunOK(r)'
        <3>1. CASE run'[r] = run[r]
            BY <1>1, <2>1, <3>1, OtherRunStays DEF CollectionInv
        <3>2. CASE run'[r] # run[r]
            BY <3>2 DEF StoreMoves, RunOK
        <3> QED BY <3>1, <3>2
    <2> QED BY <2>2, <2>3
<1>3. ScheduledOnce'
    <2>1. ScheduledOnce
        BY DEF CollectionInv
    <2>2. queue' = queue /\ post' = post
        BY DEF StoreMoves, manualVars
    <2>3. \A i \in 1 .. Len(queue) : queue[i] \in Run
        BY <1>1 DEF TypeOK, ExecutionTypeOK
    <2>4. \A i \in 1 .. Len(queue) : queue[i] # NoRun
        BY <2>3, StoreAssumption
    <2>5. \A f \in Executor : job'[f].run \in {job[f].run, NoRun}
        BY DEF JobMoves
    <2> QED BY <2>1, <2>2, <2>4, <2>5 DEF ScheduledOnce, Answered
<1>4. ASSUME NEW f \in Executor PROVE JobOK(f)'
    <2>1. CASE f = e
        BY <2>1 DEF JobMoves
    <2>2. CASE f # e
        <3>1. job'[f] = job[f] /\ JobOK(f)
            BY <2>2 DEF JobMoves, CollectionInv
        <3>2. CASE job[f].pc \in AtATask
            <4>1. R(f) \in Run /\ D(f) \in Dataset /\ R(f) # NoRun
                BY <1>1, <3>1, <3>2, FirstIsIn
                   DEF JobOK, PlaceOK, R, D, TypeOK, ExecutionTypeOK, Job, AtATask, Idle
            <4>2. R(f) # R(e)
                BY <2>2, <4>1 DEF CollectionInv, ScheduledOnce, R
            <4> QED BY <1>1, <3>1, <4>1, <4>2, OtherJobStays DEF StoreMoves
        <3>3. CASE job[f].pc \notin AtATask
            <4>1. PlaceOK(f)' /\ PurposeOK(f)'
                BY <1>1, <3>1, PlaceStays, PurposeStays DEF JobOK
            <4> QED BY <3>1, <3>3, <4>1 DEF JobOK, GroundsOK, AtATask, Providing
        <3> QED BY <3>2, <3>3
    <2> QED BY <2>1, <2>2
<1>5. ASSUME NEW c \in Reader PROVE ReaderOK(c)'
    BY <1>1, OtherReaderStays DEF CollectionInv, StoreMoves
<1> QED BY <1>1, <1>2, <1>3, <1>4, <1>5 DEF SoundStep, CollectionInv, StoreMoves

LEMMA StoreUntouched ==
    ASSUME CollectionInv, NEW e \in Executor, UNCHANGED <<storeVars, reader, manualVars>>
    PROVE  StoreMoves(e)
<1>1. StoreTypeOK'
    BY DEF CollectionInv, TypeOK, StoreTypeOK, storeVars
<1>2. Kept
    BY DEF Kept, Settled, Answered, storeVars, manualVars
<1>3. \A r \in Run, d \in Dataset : TaskOK(r, d)'
    BY DEF CollectionInv, TaskOK, storeVars
<1> QED BY <1>1, <1>2, <1>3 DEF StoreMoves, LeaseKept, OwnsLive, storeVars

(* A transition of one task: what it may turn into says what the data are. *)
LEMMA TaskSet ==
    ASSUME CollectionInv, NEW e \in Executor, NEW r \in Run, NEW d \in Dataset,
           NEW status \in Active \union Terminal,
           SetTask(r, d, status), UNCHANGED <<run, lease, snapshot, lapsed, reader, manualVars>>,
           task[r][d] # "absent",
           task[r][d] \in Terminal =>
                /\ status \in Terminal
                /\ status \in Successful => task[r][d] \in {"success", status},
           status \in Successful => r \in snapshot[d],
           status = "failed-retained" => snapshot[d] # {},
           d \in Atomic /\ r \in snapshot[d] => status \in Terminal \ {"failed-missing"}
    PROVE  StoreMoves(e) /\ task'[r][d] = status
<1>1. StoreTypeOK
    BY DEF CollectionInv, TypeOK
<1>2. /\ task'[r][d] = status
      /\ \A q \in Run, c \in Dataset : q # r \/ c # d => task'[q][c] = task[q][c]
    BY <1>1 DEF SetTask, StoreTypeOK
<1>3. StoreTypeOK'
    BY <1>1 DEF SetTask, StoreTypeOK
<1>4. Kept
    <2>1. ASSUME NEW q \in Run, NEW c \in Dataset
          PROVE  /\ task[q][c] # "absent" => task'[q][c] # "absent"
                 /\ task[q][c] \in Terminal =>
                      /\ task'[q][c] \in Terminal
                      /\ task'[q][c] \in Successful => task[q][c] \in {"success", task'[q][c]}
                 /\ task[q][c] = "absent" /\ Settled(q) => task'[q][c] = "absent"
        <3>1. CASE q = r /\ c = d
            BY <1>2, <3>1, StatusesDiffer
        <3>2. CASE q # r \/ c # d
            BY <1>2, <3>2
        <3> QED BY <3>1, <3>2
    <2> QED BY <2>1 DEF Kept, Answered, manualVars
<1>5. ASSUME NEW q \in Run, NEW c \in Dataset PROVE TaskOK(q, c)'
    <2>1. TaskOK(q, c)
        BY DEF CollectionInv
    <2>2. CASE q = r /\ c = d
        BY <1>2, <2>2 DEF TaskOK
    <2>3. CASE q # r \/ c # d
        BY <1>2, <2>1, <2>3 DEF TaskOK
    <2> QED BY <2>2, <2>3
<1> QED BY <1>2, <1>3, <1>4, <1>5 DEF StoreMoves, LeaseKept, OwnsLive

(* What becomes of the job. *)

LEMMA JobChanged ==
    ASSUME TypeOK, NEW e \in Executor, NEW j, Continue(e, j)
    PROVE  job'[e] = j /\ \A f \in Executor \ {e} : job'[f] = job[f]
    BY DEF TypeOK, ExecutionTypeOK, Continue

LEMMA JobStops ==
    ASSUME TypeOK, NEW e \in Executor, Stop(e)
    PROVE  JobMoves(e)
<1>1. job'[e] = Idle /\ \A f \in Executor \ {e} : job'[f] = job[f]
    BY JobChanged DEF Stop
<1>2. job' \in [Executor -> Job]
    BY DEF TypeOK, ExecutionTypeOK, Stop, Continue, Job, Idle
<1>3. PlaceOK(e)' /\ PurposeOK(e)' /\ GroundsOK(e)'
    BY <1>1 DEF PlaceOK, PurposeOK, GroundsOK, Idle, AtATask, Providing
<1> QED BY <1>1, <1>2, <1>3 DEF JobMoves, JobOK, Idle

(* The thread goes on with the task it has, or with no task in hand. *)
LEMMA JobGoesOn ==
    ASSUME TypeOK, Kept, NEW e \in Executor, PlaceOK(e), NEW j \in Job, Continue(e, j),
           job[e].pc # "idle", j.pc # "idle", j.run = job[e].run, j.todo = job[e].todo,
           j.seen \subseteq job[e].seen \/ j.seen = Inactive,
           job[e].pc \in AtATask \/ j.pc \notin AtATask
    PROVE  /\ job' \in [Executor -> Job]
           /\ job'[e] = j /\ \A f \in Executor \ {e} : job'[f] = job[f]
           /\ PlaceOK(e)' /\ R(e)' = R(e) /\ D(e)' = D(e) /\ R(e) \in Run
           /\ job[e].pc \in AtATask =>
                /\ D(e) \in Dataset /\ D(e) \in job[e].todo /\ task[R(e)][D(e)] # "absent"
<1>1. job'[e] = j /\ \A f \in Executor \ {e} : job'[f] = job[f]
    BY JobChanged
<1>2. job' \in [Executor -> Job]
    BY DEF TypeOK, ExecutionTypeOK, Continue
<1>3. job[e].run \in Run /\ job[e].todo \subseteq Dataset /\ job[e].seen \subseteq Task
    BY DEF TypeOK, ExecutionTypeOK, Job, PlaceOK
<1>4. \A d \in job[e].todo : task'[job[e].run][d] # "absent"
    BY <1>3 DEF PlaceOK, Kept
<1>5. \A t \in j.seen : Exists(t)'
    <2>1. \A t \in j.seen : t \in Task /\ Exists(t)
        BY <1>3, StatusesDiffer DEF PlaceOK, Inactive, Exists
    <2> QED BY <2>1 DEF Kept, Exists, Task
<1>6. post'[job[e].run].pc = "answered" /\ job[e].run # NoRun
    BY <1>3, StoreAssumption DEF PlaceOK, Kept, Answered
<1>7. PlaceOK(e)'
    BY <1>1, <1>4, <1>5, <1>6 DEF PlaceOK, Exists, Answered
<1>8. R(e)' = R(e) /\ D(e)' = D(e)
    BY <1>1 DEF R, D, First
<1>9. job[e].pc \in AtATask =>
        D(e) \in Dataset /\ D(e) \in job[e].todo /\ task[R(e)][D(e)] # "absent"
    BY <1>3, FirstIsIn DEF PlaceOK, D, R
<1> QED BY <1>1, <1>2, <1>3, <1>7, <1>8, <1>9 DEF R

LEMMA UnburdenedIsFine ==
    ASSUME NEW e \in Executor, job'[e].pc \in Unburdened
    PROVE  PurposeOK(e)' /\ GroundsOK(e)'
    BY DEF PurposeOK, GroundsOK, Unburdened, Providing

LEMMA JobGoes ==
    ASSUME TypeOK, Kept, NEW e \in Executor, JobOK(e), NEW j \in Job, Continue(e, j),
           job[e].pc # "idle", j.pc \in Unburdened \ {"idle"}, j.run = job[e].run,
           j.todo = job[e].todo, j.seen \subseteq job[e].seen \/ j.seen = Inactive,
           job[e].pc \in AtATask \/ j.pc \notin AtATask
    PROVE  JobMoves(e)
<1>1. /\ job' \in [Executor -> Job]
      /\ job'[e] = j /\ \A f \in Executor \ {e} : job'[f] = job[f]
      /\ PlaceOK(e)'
    BY JobGoesOn DEF JobOK
<1>2. PurposeOK(e)' /\ GroundsOK(e)'
    BY <1>1, UnburdenedIsFine
<1> QED BY <1>1, <1>2 DEF JobMoves, JobOK

(* The next dataset that the thread listed. *)
LEMMA JobTakesNext ==
    ASSUME TypeOK, Kept, NEW e \in Executor, JobOK(e), NEW todo \in SUBSET Dataset,
           job[e].pc # "idle", \A d \in todo : task'[R(e)][d] # "absent",
           NEW j \in Job, Continue(e, j), j.pc = EntryOf(todo), j.todo = todo,
           j.run = R(e), j.seen \subseteq job[e].seen
    PROVE  JobMoves(e)
<1>1. job'[e] = j /\ \A f \in Executor \ {e} : job'[f] = job[f]
    BY JobChanged
<1>2. job' \in [Executor -> Job]
    BY DEF TypeOK, ExecutionTypeOK, Continue
<1>3. job[e].run \in Run /\ job[e].seen \subseteq Task
    BY DEF TypeOK, ExecutionTypeOK, Job, JobOK, PlaceOK
<1>4. \A t \in j.seen : Exists(t)'
    BY <1>3 DEF JobOK, PlaceOK, Kept, Exists, Task
<1>5. post'[job[e].run].pc = "answered" /\ job[e].run # NoRun
    BY <1>3, StoreAssumption DEF JobOK, PlaceOK, Kept, Answered
<1>6. j.pc \in {"finish", "claim", "check"} /\ (j.pc # "finish" => todo # {})
      /\ (j.pc = "claim" => DependsOn[First(todo)] = {})
    BY DEF EntryOf
<1>7. PlaceOK(e)'
    BY <1>1, <1>4, <1>5, <1>6 DEF PlaceOK, Exists, Answered, R, AtATask
<1>8. D(e)' = First(todo)
    BY <1>1 DEF D, First
<1>9. PurposeOK(e)' /\ GroundsOK(e)'
    BY <1>1, <1>6, <1>8 DEF PurposeOK, GroundsOK, Providing
<1> QED BY <1>1, <1>2, <1>7, <1>9 DEF JobMoves, JobOK, R

(* A thread that is busy has a run; one that is at a task has a dataset, a *)
(* task that exists, and what the tables say of it.                        *)
LEMMA AtWork ==
    ASSUME CollectionInv, NEW e \in Executor, job[e].pc # "idle"
    PROVE  /\ TypeOK /\ JobOK(e) /\ job[e] \in Job /\ R(e) \in Run
           /\ job[e].pc \in AtATask =>
                /\ D(e) \in Dataset /\ D(e) \in job[e].todo
                /\ Status(e) \in Active \union Terminal
                /\ TaskOK(R(e), D(e))
<1>1. TypeOK /\ JobOK(e) /\ job[e] \in Job
    BY DEF CollectionInv, TypeOK, ExecutionTypeOK
<1>2. R(e) \in Run /\ job[e].todo \subseteq Dataset
    BY <1>1 DEF JobOK, PlaceOK, Job, R
<1>3. ASSUME job[e].pc \in AtATask
      PROVE  /\ D(e) \in Dataset /\ D(e) \in job[e].todo
             /\ Status(e) \in Active \union Terminal
             /\ TaskOK(R(e), D(e))
    <2>1. D(e) \in job[e].todo /\ D(e) \in Dataset
        BY <1>1, <1>2, <1>3, FirstIsIn DEF JobOK, PlaceOK, D
    <2>2. task[R(e)][D(e)] # "absent"
        BY <1>1, <2>1 DEF JobOK, PlaceOK, R
    <2>3. task[R(e)][D(e)] \in {"absent"} \union Active \union Terminal
        BY <1>1, <1>2, <2>1 DEF TypeOK, StoreTypeOK
    <2>4. TaskOK(R(e), D(e))
        BY <1>2, <2>1 DEF CollectionInv
    <2> QED BY <2>1, <2>2, <2>3, <2>4 DEF Status
<1> QED BY <1>1, <1>2, <1>3

LEMMA LocalKeeps ==
    ASSUME CollectionInv, NEW e \in Executor, OnlyLocal, UNCHANGED manualVars,
           Kept => JobMoves(e)
    PROVE  SoundStep
<1>1. StoreMoves(e)
    BY StoreUntouched DEF OnlyLocal
<1> QED BY <1>1, ExecutorKeeps DEF StoreMoves, OnlyLocal

LEMMA GoesTo ==
    ASSUME CollectionInv, Kept, NEW e \in Executor, NEW pc \in Unburdened \ {"idle"},
           Goto(e, pc), job[e].pc # "idle", job[e].pc \in AtATask \/ pc \notin AtATask
    PROVE  JobMoves(e)
<1> DEFINE j == [job[e] EXCEPT !.pc = pc]
<1>1. TypeOK /\ JobOK(e) /\ job[e] \in Job
    BY AtWork
<1>2. j \in Job /\ j.pc = pc /\ j.run = job[e].run /\ j.todo = job[e].todo
      /\ j.seen = job[e].seen
    BY <1>1 DEF Job, Unburdened
<1>3. Continue(e, j)
    BY DEF Goto
<1> HIDE DEF j
<1> QED BY <1>1, <1>2, <1>3, JobGoes

LEMMA HandlesIt ==
    ASSUME CollectionInv, Kept, NEW e \in Executor, Handle(e), job[e].pc \in AtATask
    PROVE  JobMoves(e)
<1> DEFINE j == [job[e] EXCEPT !.pc = "existing", !.handling = TRUE,
                               !.expect = "none", !.target = "none"]
<1>1. TypeOK /\ JobOK(e) /\ job[e] \in Job /\ job[e].pc # "idle"
    BY AtWork DEF AtATask
<1>2. j \in Job /\ j.pc = "existing" /\ j.run = job[e].run /\ j.todo = job[e].todo
      /\ j.seen = job[e].seen
    BY <1>1 DEF Job
<1>3. Continue(e, j)
    BY DEF Handle
<1> HIDE DEF j
<1> QED BY <1>1, <1>2, <1>3, JobGoes DEF Unburdened

LEMMA RaisesIt ==
    ASSUME CollectionInv, Kept, NEW e \in Executor, Raise(e), job[e].pc \in AtATask
    PROVE  JobMoves(e)
    BY HandlesIt, GoesTo DEF Raise, Unburdened, AtATask

LEMMA StopsHere ==
    ASSUME CollectionInv, NEW e \in Executor, Stop(e)
    PROVE  JobMoves(e)
    BY JobStops DEF CollectionInv

LEMMA GoesToNext ==
    ASSUME CollectionInv, Kept, NEW e \in Executor, NextDataset(e), job[e].pc \in AtATask
    PROVE  JobMoves(e)
<1> DEFINE left == job[e].todo \ {D(e)}
           j == [Idle EXCEPT !.pc = EntryOf(left), !.run = R(e), !.todo = left]
<1>1. TypeOK /\ JobOK(e) /\ job[e] \in Job /\ job[e].pc # "idle" /\ R(e) \in Run
    BY AtWork DEF AtATask
<1>2. left \in SUBSET Dataset /\ left \subseteq job[e].todo
    BY <1>1 DEF Job
<1>3. EntryOf(left) \in {"finish", "claim", "check"}
    BY DEF EntryOf
<1>4. Continue(e, j)
    BY DEF NextDataset
<1>5. \A d \in left : task'[R(e)][d] # "absent"
    BY <1>1, <1>2 DEF JobOK, PlaceOK, Kept, R
<1> HIDE DEF left
<1>6. j \in Job /\ j.pc = EntryOf(left) /\ j.todo = left /\ j.run = R(e) /\ j.seen = {}
    BY <1>1, <1>2, <1>3 DEF Job, Idle
<1> HIDE DEF j
<1> QED BY <1>1, <1>2, <1>4, <1>5, <1>6, JobTakesNext

-----------------------------------------------------------------------------
(* The steps of execute_run *)

LEMMA SelectKeeps ==
    ASSUME CollectionInv, NEW e \in Executor, SweepSelect(e), UNCHANGED manualVars
    PROVE  SoundStep
<1> SUFFICES ASSUME Kept PROVE JobMoves(e)
    BY LocalKeeps DEF SweepSelect
<1> DEFINE j == [job[e] EXCEPT !.pc = "expire", !.seen = Inactive]
<1>1. TypeOK /\ JobOK(e) /\ job[e] \in Job /\ job[e].pc # "idle"
    BY AtWork DEF SweepSelect, At
<1>2. CASE Goto(e, "begin")
    BY <1>1, <1>2, GoesTo DEF Unburdened, AtATask
<1>3. CASE Continue(e, j)
    <2>1. j \in Job /\ j.pc = "expire" /\ j.run = job[e].run /\ j.todo = job[e].todo
          /\ j.seen = Inactive
        BY <1>1 DEF Job, Inactive
    <2> HIDE DEF j
    <2> QED BY <1>1, <1>3, <2>1, JobGoes DEF Unburdened, AtATask
<1> QED BY <1>2, <1>3 DEF SweepSelect

(* The sweep makes tasks fail, and runs end, truthfully. *)
LEMMA ExpireMoves ==
    ASSUME CollectionInv, NEW rows \in SUBSET Task, \A t \in rows : Exists(t),
           ExpireTasks(rows), \A r \in Run : Answered(r) => Answered(r)'
    PROVE  /\ StoreTypeOK' /\ Kept
           /\ \A r \in Run, d \in Dataset : TaskOK(r, d)' /\ LeaseKept(r, d)
           /\ \A r \in Run : run'[r] \in RunTerminal =>
                    run'[r] = run[r] \/ Honest(task'[r], run'[r])
<1>1. StoreTypeOK
    BY DEF CollectionInv, TypeOK
<1>2. ASSUME NEW r \in Run, NEW d \in Dataset
      PROVE  /\ task'[r][d] = IF <<r, d>> \in rows THEN FailedAs(d) ELSE task[r][d]
             /\ <<r, d>> \in rows => task[r][d] # "absent"
             /\ FailedAs(d) \in Failed
    BY FailedAsIsTrue DEF ExpireTasks, Exists
<1>3. task' \in [Run -> [Dataset -> {"absent"} \union Active \union Terminal]]
    <2>1. ASSUME NEW r \in Run, NEW d \in Dataset
          PROVE  (IF <<r, d>> \in rows THEN FailedAs(d) ELSE task[r][d])
                     \in {"absent"} \union Active \union Terminal
        <3>1. FailedAs(d) \in Terminal
            BY <1>2, StatusesDiffer
        <3>2. task[r][d] \in {"absent"} \union Active \union Terminal
            BY <1>1 DEF StoreTypeOK
        <3> QED BY <3>1, <3>2
    <2>2. task' = [r \in Run |-> [d \in Dataset |->
                        IF <<r, d>> \in rows THEN FailedAs(d) ELSE task[r][d]]]
        BY DEF ExpireTasks
    <2> QED BY <2>1, <2>2
<1>4. Kept
    <2>1. ASSUME NEW r \in Run, NEW d \in Dataset
          PROVE  /\ task[r][d] # "absent" => task'[r][d] # "absent"
                 /\ task[r][d] \in Terminal =>
                      /\ task'[r][d] \in Terminal
                      /\ task'[r][d] \in Successful => task[r][d] \in {"success", task'[r][d]}
                 /\ task[r][d] = "absent" => task'[r][d] = "absent"
        BY <1>2, StatusesDiffer
    <2> QED BY <2>1 DEF Kept, ExpireTasks
<1>5. ASSUME NEW r \in Run, NEW d \in Dataset PROVE TaskOK(r, d)' /\ LeaseKept(r, d)
    <2>1. TaskOK(r, d)
        BY DEF CollectionInv
    <2>2. snapshot' = snapshot /\ lease' = lease
        BY DEF ExpireTasks
    <2>3. CASE <<r, d>> \in rows
        BY <1>2, <2>2, <2>3, FailedAsIsTrue, StatusesDiffer
           DEF TaskOK, LeaseKept, OwnsLive, Failed, Terminal
    <2>4. CASE <<r, d>> \notin rows
        BY <1>2, <2>1, <2>2, <2>4 DEF TaskOK, LeaseKept, OwnsLive
    <2> QED BY <2>3, <2>4
<1>6. ASSUME NEW r \in Run
      PROVE  /\ run'[r] \in {"absent"} \union Active \union RunTerminal
             /\ run'[r] = run[r] \/ Honest(task'[r], run'[r])
    <2> DEFINE statuses == {task'[r][d] : d \in Dataset} \ {"absent"}
    <2>1. run'[r] = IF /\ \E d \in Dataset : <<r, d>> \in rows
                       /\ statuses # {} /\ statuses \subseteq Terminal
                       /\ run[r] \in Active
                    THEN Verdict(statuses) ELSE run[r]
        BY DEF ExpireTasks, AllTerminal, Statuses
    <2>2. CASE run'[r] = run[r]
        BY <1>1, <2>2 DEF StoreTypeOK
    <2>3. CASE run'[r] = Verdict(statuses) /\ statuses # {} /\ statuses \subseteq Terminal
        <3>1. /\ Verdict(statuses) \in RunTerminal
              /\ Verdict(statuses) = "failed" => statuses \intersect Successful = {}
            BY <2>3, VerdictIsHonest
        <3>2. Honest(task'[r], Verdict(statuses))
            BY <2>3, <3>1 DEF Honest, Successful
        <3> HIDE DEF statuses
        <3> QED BY <2>3, <3>1, <3>2
    <2> QED BY <2>1, <2>2, <2>3
<1>7. run' \in [Run -> {"absent"} \union Active \union RunTerminal]
    BY <1>6 DEF ExpireTasks
<1> QED BY <1>1, <1>3, <1>4, <1>5, <1>6, <1>7 DEF StoreTypeOK, ExpireTasks

LEMMA SweepKeeps ==
    ASSUME CollectionInv, NEW e \in Executor, SweepExpire(e), UNCHANGED manualVars
    PROVE  SoundStep
<1> DEFINE j == [job[e] EXCEPT !.pc = "begin", !.seen = {}]
<1>1. TypeOK /\ JobOK(e) /\ job[e] \in Job /\ job[e].pc # "idle"
    BY AtWork DEF SweepExpire, At
<1>2. job[e].seen \in SUBSET Task /\ \A t \in job[e].seen : Exists(t)
    BY <1>1 DEF Job, JobOK, PlaceOK
<1>3. StoreMoves(e)
    BY <1>2, ExpireMoves DEF SweepExpire, StoreMoves, Answered, manualVars
<1>4. j \in Job /\ j.pc = "begin" /\ j.run = job[e].run /\ j.todo = job[e].todo /\ j.seen = {}
    BY <1>1 DEF Job
<1>5. Continue(e, j)
    BY DEF SweepExpire
<1> HIDE DEF j
<1>6. JobMoves(e)
    BY <1>1, <1>3, <1>4, <1>5, JobGoes DEF Unburdened, AtATask, StoreMoves
<1> QED BY <1>3, <1>6, ExecutorKeeps DEF SweepExpire

LEMMA BeginKeeps ==
    ASSUME CollectionInv, NEW e \in Executor, BeginRun(e), UNCHANGED manualVars
    PROVE  SoundStep
<1> SUFFICES ASSUME Kept PROVE JobMoves(e)
    BY LocalKeeps DEF BeginRun
<1>1. CASE Stop(e)
    BY <1>1, StopsHere
<1>2. CASE Goto(e, "open") \/ Goto(e, "list")
    BY <1>2, GoesTo DEF BeginRun, At, Unburdened, AtATask
<1> QED BY <1>1, <1>2 DEF BeginRun

(* A run's status is written with no look at what it is: it must be honest *)
(* or not a verdict.                                                       *)
LEMMA RunSet ==
    ASSUME CollectionInv, NEW e \in Executor, NEW r \in Run, NEW status \in Active \union RunTerminal,
           SetRun(r, status), UNCHANGED <<task, lease, snapshot, lapsed, reader, manualVars>>,
           status \in RunTerminal => Honest(task[r], status)
    PROVE  StoreMoves(e)
<1>1. StoreTypeOK' /\ \A q \in Run : run'[q] = IF q = r THEN status ELSE run[q]
    BY DEF CollectionInv, TypeOK, StoreTypeOK, SetRun
<1>2. Kept
    BY DEF Kept, Settled, Answered, manualVars
<1>3. \A q \in Run, d \in Dataset : TaskOK(q, d)'
    BY DEF CollectionInv, TaskOK
<1> QED BY <1>1, <1>2, <1>3 DEF StoreMoves, LeaseKept, OwnsLive

LEMMA OpenKeeps ==
    ASSUME CollectionInv, NEW e \in Executor, OpenRun(e), UNCHANGED manualVars
    PROVE  SoundStep
<1>1. R(e) \in Run
    BY AtWork DEF OpenRun, At
<1>2. StoreMoves(e)
    BY <1>1, RunSet DEF OpenRun, OnlyRun, Active, RunTerminal
<1>3. JobMoves(e)
    BY <1>2, GoesTo DEF OpenRun, At, StoreMoves, Unburdened, AtATask
<1> QED BY <1>2, <1>3, ExecutorKeeps DEF OpenRun, OnlyRun

LEMMA ListKeeps ==
    ASSUME CollectionInv, NEW e \in Executor, ListTasks(e), UNCHANGED manualVars
    PROVE  SoundStep
<1> SUFFICES ASSUME Kept PROVE JobMoves(e)
    BY LocalKeeps DEF ListTasks
<1> DEFINE queued == {d \in Dataset : task[R(e)][d] = "queued"}
           j == [job[e] EXCEPT !.pc = EntryOf(queued), !.todo = queued]
<1>1. TypeOK /\ JobOK(e) /\ job[e] \in Job /\ job[e].pc # "idle" /\ R(e) \in Run
    BY AtWork DEF ListTasks, At
<1>2. queued \in SUBSET Dataset /\ \A d \in queued : task'[R(e)][d] # "absent"
    BY <1>1 DEF Kept
<1>3. EntryOf(queued) \in {"finish", "claim", "check"}
    BY DEF EntryOf
<1>4. Continue(e, j)
    BY DEF ListTasks
<1> HIDE DEF queued
<1>5. j \in Job /\ j.pc = EntryOf(queued) /\ j.todo = queued /\ j.run = R(e)
      /\ j.seen = job[e].seen
    BY <1>1, <1>2, <1>3 DEF Job, R
<1> HIDE DEF j
<1> QED BY <1>1, <1>2, <1>4, <1>5, JobTakesNext

-----------------------------------------------------------------------------
(* The steps of a task that is neither claimed nor collected *)

LEMMA GoesOnTask ==
    ASSUME CollectionInv, Kept, NEW e \in Executor, job[e].pc \in AtATask,
           NEW j \in Job, Continue(e, j), j.pc # "idle", j.run = job[e].run,
           j.todo = job[e].todo, j.seen = job[e].seen,
           R(e)' = R(e) /\ D(e)' = D(e) /\ job'[e] = j => PurposeOK(e)' /\ GroundsOK(e)'
    PROVE  JobMoves(e)
<1>1. TypeOK /\ JobOK(e) /\ job[e].pc # "idle"
    BY AtWork DEF AtATask
<1>2. /\ job' \in [Executor -> Job]
      /\ job'[e] = j /\ \A f \in Executor \ {e} : job'[f] = job[f]
      /\ PlaceOK(e)' /\ R(e)' = R(e) /\ D(e)' = D(e)
    BY <1>1, JobGoesOn DEF JobOK
<1> QED BY <1>2 DEF JobMoves, JobOK

LEMMA SamePlaceInJob ==
    ASSUME CollectionInv, NEW e \in Executor, job[e].pc \in AtATask
    PROVE  /\ TypeOK /\ JobOK(e) /\ job[e] \in Job /\ R(e) \in Run /\ job[e].pc # "idle"
           /\ D(e) \in Dataset /\ D(e) \in job[e].todo
           /\ Status(e) \in Active \union Terminal
           /\ TaskOK(R(e), D(e))
    BY AtWork DEF AtATask

LEMMA CheckKeeps ==
    ASSUME CollectionInv, NEW e \in Executor, CheckPrerequisites(e), UNCHANGED manualVars
    PROVE  SoundStep
<1> SUFFICES ASSUME Kept PROVE JobMoves(e)
    BY LocalKeeps DEF CheckPrerequisites
<1>1. job[e].pc \in AtATask
    BY DEF CheckPrerequisites, At, AtATask
<1>2. CASE IsBlocked(R(e), D(e))
    BY <1>1, <1>2, GoesTo DEF CheckPrerequisites, Unburdened, AtATask
<1>3. CASE ~IsBlocked(R(e), D(e))
    <2> DEFINE j == [job[e] EXCEPT !.pc = "claim"]
    <2>1. /\ TypeOK /\ job[e] \in Job /\ R(e) \in Run /\ D(e) \in Dataset
        BY <1>1, SamePlaceInJob
    <2>2. j \in Job /\ j.pc = "claim" /\ j.run = job[e].run /\ j.todo = job[e].todo
          /\ j.seen = job[e].seen /\ Continue(e, j)
        BY <1>3, <2>1 DEF Job, CheckPrerequisites, Goto
    <2>3. ASSUME NEW p \in DependsOn[D(e)] PROVE snapshot'[p] # {}
        <3>1. p \in Dataset /\ snapshot' = snapshot
            BY <2>1, StoreAssumption DEF CheckPrerequisites, OnlyLocal, storeVars
        <3>2. task[R(e)][p] \in Successful => R(e) \in snapshot[p]
            BY <2>1, <3>1 DEF CollectionInv, TaskOK
        <3> QED BY <1>3, <3>1, <3>2 DEF IsBlocked
    <2> HIDE DEF j
    <2>4. D(e)' = D(e) /\ job'[e] = j => PurposeOK(e)' /\ GroundsOK(e)'
        BY <2>2, <2>3 DEF PurposeOK, GroundsOK, Providing
    <2> QED BY <1>1, <2>2, <2>4, GoesOnTask
<1> QED BY <1>2, <1>3

LEMMA ReservationKeeps ==
    ASSUME CollectionInv, NEW e \in Executor, ReadReservation(e), UNCHANGED manualVars
    PROVE  SoundStep
<1> SUFFICES ASSUME Kept PROVE JobMoves(e)
    BY LocalKeeps DEF ReadReservation
<1> DEFINE token == IF lease[D(e)].owner = R(e) THEN lease[D(e)].generation ELSE 0
           j == [job[e] EXCEPT !.pc = "block", !.token = token]
<1>1. /\ TypeOK /\ JobOK(e) /\ job[e] \in Job /\ job[e].pc = "reserved"
      /\ D(e) \in Dataset
    BY SamePlaceInJob DEF ReadReservation, At, AtATask
<1>2. token \in Nat
    BY <1>1 DEF TypeOK, StoreTypeOK
<1>3. Continue(e, j)
    BY DEF ReadReservation
<1> HIDE DEF token
<1>4. j \in Job /\ j.pc = "block" /\ j.run = job[e].run /\ j.todo = job[e].todo
      /\ j.seen = job[e].seen
    BY <1>1, <1>2 DEF Job
<1> HIDE DEF j
<1> QED BY <1>1, <1>3, <1>4, JobGoes DEF Unburdened, AtATask

LEMMA BlockKeeps ==
    ASSUME CollectionInv, NEW e \in Executor, BlockTask(e), UNCHANGED manualVars
    PROVE  SoundStep
<1>1. /\ job[e].pc \in AtATask /\ TypeOK /\ R(e) \in Run /\ D(e) \in Dataset
      /\ TaskOK(R(e), D(e))
    BY SamePlaceInJob DEF BlockTask, At, AtATask
<1>2. CASE Wins(e, "queued", "blocked")
    <2>1. StoreMoves(e)
        BY <1>1, <1>2, TaskSet
           DEF BlockTask, OnlyTask, Wins, Status, TaskOK, Terminal, Active, Successful, Failed
    <2>2. JobMoves(e)
        <3>1. Kept
            BY <2>1 DEF StoreMoves
        <3>2. CASE NextDataset(e)
            BY <1>1, <3>1, <3>2, GoesToNext
        <3>3. CASE Goto(e, "release")
            BY <1>1, <3>1, <3>3, GoesTo DEF Unburdened, AtATask
        <3> QED BY <1>2, <3>2, <3>3 DEF BlockTask, Wins, Loses
    <2> QED BY <2>1, <2>2, ExecutorKeeps DEF BlockTask, OnlyTask
<1>3. CASE Loses(e, "queued") /\ Stop(e)
    BY <1>3, StopsHere, LocalKeeps DEF BlockTask, OnlyTask, Loses, OnlyLocal, storeVars
<1> QED BY <1>2, <1>3 DEF BlockTask

LEMMA ClaimKeeps ==
    ASSUME CollectionInv, NEW e \in Executor, ClaimTask(e), UNCHANGED manualVars
    PROVE  SoundStep
<1>1. /\ job[e].pc \in AtATask /\ TypeOK /\ R(e) \in Run /\ D(e) \in Dataset
      /\ TaskOK(R(e), D(e)) /\ job[e] \in Job /\ JobOK(e) /\ job[e].pc = "claim"
    BY SamePlaceInJob DEF ClaimTask, At, AtATask
<1>2. CASE Wins(e, "queued", "collecting") /\ Goto(e, "token")
    <2>1. StoreMoves(e)
        BY <1>1, <1>2, TaskSet
           DEF ClaimTask, OnlyTask, Wins, Status, TaskOK, Terminal, Active, Successful, Failed
    <2>2. Kept
        BY <2>1 DEF StoreMoves
    <2> DEFINE j == [job[e] EXCEPT !.pc = "token"]
    <2>3. j \in Job /\ j.pc = "token" /\ j.run = job[e].run /\ j.todo = job[e].todo
          /\ j.seen = job[e].seen /\ Continue(e, j)
        BY <1>1, <1>2 DEF Job, Goto
    <2> HIDE DEF j
    <2>4. \A p \in DependsOn[D(e)] : snapshot'[p] # {}
        BY <1>1 DEF JobOK, GroundsOK, ClaimTask, OnlyTask
    <2>5. D(e)' = D(e) /\ job'[e] = j => PurposeOK(e)' /\ GroundsOK(e)'
        BY <2>3, <2>4 DEF PurposeOK, GroundsOK, Providing
    <2>6. JobMoves(e)
        BY <1>1, <2>2, <2>3, <2>5, GoesOnTask
    <2> QED BY <2>1, <2>6, ExecutorKeeps DEF ClaimTask, OnlyTask
<1>3. CASE Loses(e, "queued") /\ Stop(e)
    BY <1>3, StopsHere, LocalKeeps DEF ClaimTask, OnlyTask, Loses, OnlyLocal, storeVars
<1> QED BY <1>2, <1>3 DEF ClaimTask

-----------------------------------------------------------------------------
(* The steps of _execute_task, up to the provider's answer *)

LEMMA TokenKeeps ==
    ASSUME CollectionInv, NEW e \in Executor, ReadToken(e), UNCHANGED manualVars
    PROVE  SoundStep
<1> SUFFICES ASSUME Kept PROVE JobMoves(e)
    BY LocalKeeps DEF ReadToken
<1>1. /\ job[e].pc \in AtATask /\ TypeOK /\ D(e) \in Dataset
      /\ job[e] \in Job /\ JobOK(e) /\ job[e].pc = "token"
    BY SamePlaceInJob DEF ReadToken, At, AtATask
<1> DEFINE j == [job[e] EXCEPT !.pc = "renew", !.token = lease[D(e)].generation]
<1>2. CASE Continue(e, j)
    <2>1. lease[D(e)].generation \in Nat
        BY <1>1 DEF TypeOK, StoreTypeOK
    <2>2. j \in Job /\ j.pc = "renew" /\ j.run = job[e].run /\ j.todo = job[e].todo
          /\ j.seen = job[e].seen
        BY <1>1, <2>1 DEF Job
    <2> HIDE DEF j
    <2>3. \A p \in DependsOn[D(e)] : snapshot'[p] # {}
        BY <1>1 DEF JobOK, GroundsOK, ReadToken, OnlyLocal, storeVars
    <2>4. D(e)' = D(e) /\ job'[e] = j => PurposeOK(e)' /\ GroundsOK(e)'
        BY <2>2, <2>3 DEF PurposeOK, GroundsOK, Providing
    <2> QED BY <1>1, <1>2, <2>2, <2>4, GoesOnTask
<1>3. CASE Goto(e, "lost")
    BY <1>1, <1>3, GoesTo DEF Unburdened, AtATask
<1> QED BY <1>2, <1>3 DEF ReadToken

LEMMA RenewKeeps ==
    ASSUME CollectionInv, NEW e \in Executor, RenewToken(e), UNCHANGED manualVars
    PROVE  SoundStep
<1> SUFFICES ASSUME Kept PROVE JobMoves(e)
    BY LocalKeeps DEF RenewToken
<1>1. /\ job[e].pc \in AtATask /\ TypeOK
      /\ job[e] \in Job /\ JobOK(e) /\ job[e].pc = "renew"
    BY SamePlaceInJob DEF RenewToken, At, AtATask
<1> DEFINE j == [job[e] EXCEPT !.pc = "collect"]
<1>2. CASE Fenced(R(e), D(e), job[e].token)
    <2>1. j \in Job /\ j.pc = "collect" /\ j.run = job[e].run /\ j.todo = job[e].todo
          /\ j.seen = job[e].seen /\ Continue(e, j)
        BY <1>1, <1>2 DEF Job, RenewToken, Goto
    <2> HIDE DEF j
    <2>2. \A p \in DependsOn[D(e)] : snapshot'[p] # {}
        BY <1>1 DEF JobOK, GroundsOK, RenewToken, OnlyLocal, storeVars
    <2>3. lease'[D(e)].owner = R(e) /\ lease'[D(e)].live
        BY <1>2 DEF Fenced, Holds, RenewToken, OnlyLocal, storeVars
    <2>4. R(e)' = R(e) /\ D(e)' = D(e) /\ job'[e] = j => PurposeOK(e)' /\ GroundsOK(e)'
        BY <2>1, <2>2, <2>3 DEF PurposeOK, GroundsOK, Providing, OwnsLive
    <2> QED BY <1>1, <2>1, <2>4, GoesOnTask
<1>3. CASE ~Fenced(R(e), D(e), job[e].token)
    BY <1>1, <1>3, GoesTo DEF RenewToken, Unburdened, AtATask
<1> QED BY <1>2, <1>3

LEMMA RetainedKeeps ==
    ASSUME CollectionInv, NEW e \in Executor, ReadRetainedOnLoss(e), UNCHANGED manualVars
    PROVE  SoundStep
<1> SUFFICES ASSUME Kept PROVE JobMoves(e)
    BY LocalKeeps DEF ReadRetainedOnLoss
<1>1. job[e].pc \in AtATask /\ job[e] \in Job
    BY SamePlaceInJob DEF ReadRetainedOnLoss, At, AtATask
<1> DEFINE j == [job[e] EXCEPT !.pc = "lose", !.target = FailedAs(D(e)), !.token = 0]
<1>2. Continue(e, j)
    BY DEF ReadRetainedOnLoss
<1>3. j \in Job /\ j.pc = "lose" /\ j.run = job[e].run /\ j.todo = job[e].todo
      /\ j.seen = job[e].seen /\ j.target = FailedAs(D(e))
    BY <1>1, FailedAsIsTrue, StatusesDiffer DEF Job
<1>4. FailedAs(D(e)) \in Failed /\ (FailedAs(D(e)) = "failed-retained" => snapshot'[D(e)] # {})
    BY FailedAsIsTrue DEF ReadRetainedOnLoss, OnlyLocal, storeVars
<1> HIDE DEF j
<1>5. D(e)' = D(e) /\ job'[e] = j => PurposeOK(e)' /\ GroundsOK(e)'
    BY <1>3, <1>4 DEF PurposeOK, GroundsOK, Providing, FailsTruly
<1> QED BY <1>1, <1>2, <1>3, <1>5, GoesOnTask

LEMMA LoseKeeps ==
    ASSUME CollectionInv, NEW e \in Executor, FailWithoutLease(e), UNCHANGED manualVars
    PROVE  SoundStep
<1>1. /\ job[e].pc \in AtATask /\ TypeOK /\ R(e) \in Run /\ D(e) \in Dataset
      /\ TaskOK(R(e), D(e)) /\ FailsTruly(e)
    BY SamePlaceInJob DEF FailWithoutLease, At, AtATask, JobOK, PurposeOK
<1>2. CASE Wins(e, "collecting", job[e].target) /\ NextDataset(e)
    <2>1. StoreMoves(e)
        BY <1>1, <1>2, TaskSet
           DEF FailWithoutLease, OnlyTask, Wins, Status, TaskOK, Terminal, Active,
               Successful, Failed, FailsTruly
    <2>2. JobMoves(e)
        BY <1>1, <1>2, <2>1, GoesToNext DEF StoreMoves
    <2> QED BY <2>1, <2>2, ExecutorKeeps DEF FailWithoutLease, OnlyTask
<1>3. CASE Loses(e, "collecting") /\ Stop(e)
    BY <1>3, StopsHere, LocalKeeps DEF FailWithoutLease, OnlyTask, Loses, OnlyLocal, storeVars
<1> QED BY <1>2, <1>3 DEF FailWithoutLease

LEMMA CollectKeeps ==
    ASSUME CollectionInv, NEW e \in Executor, Collect(e), UNCHANGED manualVars
    PROVE  SoundStep
<1> SUFFICES ASSUME Kept PROVE JobMoves(e)
    BY LocalKeeps DEF Collect
<1>1. /\ job[e].pc \in AtATask /\ TypeOK
      /\ job[e] \in Job /\ JobOK(e) /\ job[e].pc = "collect"
    BY SamePlaceInJob DEF Collect, At, AtATask
<1>2. ASSUME NEW status \in Successful,
             Continue(e, [job[e] EXCEPT !.pc = "admit", !.target = status])
      PROVE  JobMoves(e)
    <2> DEFINE j == [job[e] EXCEPT !.pc = "admit", !.target = status]
    <2>1. j \in Job /\ j.pc = "admit" /\ j.run = job[e].run /\ j.todo = job[e].todo
          /\ j.seen = job[e].seen /\ j.target = status
        BY <1>1, StatusesDiffer DEF Job
    <2> HIDE DEF j
    <2>2. R(e)' = R(e) /\ D(e)' = D(e) /\ job'[e] = j => PurposeOK(e)' /\ GroundsOK(e)'
        BY <1>1, <2>1
           DEF JobOK, PurposeOK, GroundsOK, Providing, OwnsLive, Collect, OnlyLocal, storeVars
    <2> QED BY <1>1, <1>2, <2>1, <2>2, GoesOnTask DEF j
<1>3. CASE Goto(e, "existing")
    BY <1>1, <1>3, GoesTo DEF Unburdened, AtATask
<1> QED BY <1>2, <1>3 DEF Collect

-----------------------------------------------------------------------------
(* The commit and what follows it *)

LEMMA RaiseKeeps ==
    ASSUME CollectionInv, NEW e \in Executor, CollectRaises(e), UNCHANGED manualVars
    PROVE  SoundStep
<1> SUFFICES ASSUME Kept PROVE JobMoves(e)
    BY LocalKeeps DEF CollectRaises
<1> QED BY HandlesIt DEF CollectRaises, AtATask

LEMMA AdmitKeeps ==
    ASSUME CollectionInv, NEW e \in Executor, AdmitCommit(e), UNCHANGED manualVars
    PROVE  SoundStep
<1> SUFFICES ASSUME Kept PROVE JobMoves(e)
    BY LocalKeeps DEF AdmitCommit
<1>1. /\ job[e].pc \in AtATask /\ TypeOK
      /\ job[e] \in Job /\ JobOK(e) /\ job[e].pc = "admit"
    BY SamePlaceInJob DEF AdmitCommit, At, AtATask
<1> DEFINE j == [job[e] EXCEPT !.pc = "commit"]
<1>2. CASE Fenced(R(e), D(e), job[e].token)
    <2>1. j \in Job /\ j.pc = "commit" /\ j.run = job[e].run /\ j.todo = job[e].todo
          /\ j.seen = job[e].seen /\ j.target = job[e].target /\ Continue(e, j)
        BY <1>1, <1>2 DEF Job, AdmitCommit, Goto
    <2> HIDE DEF j
    <2>2. R(e)' = R(e) /\ D(e)' = D(e) /\ job'[e] = j => PurposeOK(e)' /\ GroundsOK(e)'
        BY <1>1, <2>1
           DEF JobOK, PurposeOK, GroundsOK, Providing, OwnsLive, AdmitCommit, OnlyLocal, storeVars
    <2> QED BY <1>1, <2>1, <2>2, GoesOnTask
<1>3. CASE ~Fenced(R(e), D(e), job[e].token)
    BY <1>1, <1>3, GoesTo DEF AdmitCommit, Unburdened, AtATask
<1> QED BY <1>2, <1>3

LEMMA CorruptionKeeps ==
    ASSUME CollectionInv, NEW e \in Executor, CommitFindsCorruption(e), UNCHANGED manualVars
    PROVE  SoundStep
<1> SUFFICES ASSUME Kept PROVE JobMoves(e)
    BY LocalKeeps DEF CommitFindsCorruption
<1>1. job[e].pc \in AtATask /\ job[e] \in Job
    BY SamePlaceInJob DEF CommitFindsCorruption, At, AtATask
<1> DEFINE j == [job[e] EXCEPT !.pc = "integrity"]
<1>2. j \in Job /\ j.pc = "integrity" /\ j.run = job[e].run /\ j.todo = job[e].todo
      /\ j.seen = job[e].seen /\ Continue(e, j)
    BY <1>1 DEF Job, CommitFindsCorruption, Goto
<1> HIDE DEF j
<1>3. R(e)' = R(e) /\ D(e)' = D(e) /\ job'[e] = j => PurposeOK(e)' /\ GroundsOK(e)'
    BY <1>2 DEF PurposeOK, GroundsOK, Providing, CommitFindsCorruption, OnlyLocal, storeVars
<1> QED BY <1>1, <1>2, <1>3, GoesOnTask

(* The snapshot is written by the task of e, which may be settled with it. *)
LEMMA SnapshotStored ==
    ASSUME CollectionInv, NEW e \in Executor, NEW r \in Run, NEW d \in Dataset,
           snapshot' = [snapshot EXCEPT ![d] = @ \union {r}],
           UNCHANGED <<run, lease, lapsed, reader, manualVars>>,
           \/ d \notin Atomic /\ UNCHANGED task
           \/ /\ task[r][d] = "collecting"
              /\ \E status \in Successful : SetTask(r, d, status)
    PROVE  StoreMoves(e) /\ r \in snapshot'[d]
<1>1. StoreTypeOK
    BY DEF CollectionInv, TypeOK
<1>2. /\ snapshot' \in [Dataset -> SUBSET (Run \union {NoRun})]
      /\ snapshot'[d] = snapshot[d] \union {r}
      /\ \A c \in Dataset : c # d => snapshot'[c] = snapshot[c]
    BY <1>1 DEF StoreTypeOK
<1>3. /\ task' \in [Run -> [Dataset -> {"absent"} \union Active \union Terminal]]
      /\ \A q \in Run, c \in Dataset : q # r \/ c # d => task'[q][c] = task[q][c]
      /\ \/ d \notin Atomic /\ task'[r][d] = task[r][d]
         \/ task[r][d] = "collecting" /\ task'[r][d] \in Successful
    <2>1. CASE d \notin Atomic /\ UNCHANGED task
        BY <1>1, <2>1 DEF StoreTypeOK
    <2>2. ASSUME task[r][d] = "collecting", NEW status \in Successful, SetTask(r, d, status)
          PROVE  <1>3!:
        BY <1>1, <2>2, StatusesDiffer DEF StoreTypeOK, SetTask
    <2> QED BY <2>1, <2>2
<1>4. Kept
    <2>1. ASSUME NEW q \in Run, NEW c \in Dataset
          PROVE  /\ task[q][c] # "absent" => task'[q][c] # "absent"
                 /\ task[q][c] \in Terminal =>
                      /\ task'[q][c] \in Terminal
                      /\ task'[q][c] \in Successful => task[q][c] \in {"success", task'[q][c]}
                 /\ task[q][c] = "absent" /\ Settled(q) => task'[q][c] = "absent"
        <3>1. "collecting" \notin Terminal /\ "absent" \notin Successful
            BY DEF Terminal, Successful, Failed
        <3>2. CASE q = r /\ c = d
            BY <1>3, <3>1, <3>2
        <3>3. CASE q # r \/ c # d
            BY <1>3, <3>3
        <3> QED BY <3>2, <3>3
    <2>2. \A c \in Dataset : snapshot[c] \subseteq snapshot'[c]
        BY <1>2
    <2> QED BY <2>1, <2>2 DEF Kept, Answered, manualVars
<1>5. ASSUME NEW q \in Run, NEW c \in Dataset PROVE TaskOK(q, c)'
    <2>1. TaskOK(q, c)
        BY DEF CollectionInv
    <2>2. CASE c # d
        BY <1>2, <1>3, <2>1, <2>2 DEF TaskOK
    <2>3. CASE c = d /\ q # r
        BY <1>2, <1>3, <2>1, <2>3 DEF TaskOK
    <2>4. CASE c = d /\ q = r
        <3>1. CASE d \notin Atomic /\ task'[r][d] = task[r][d]
            BY <1>2, <2>1, <2>4, <3>1 DEF TaskOK
        <3>2. CASE task'[r][d] \in Successful
            BY <1>2, <2>4, <3>2 DEF TaskOK, Successful, Terminal, Failed
        <3> QED BY <1>3, <3>1, <3>2
    <2> QED BY <2>2, <2>3, <2>4
<1>6. StoreTypeOK'
    BY <1>1, <1>2, <1>3 DEF StoreTypeOK
<1> QED BY <1>2, <1>4, <1>5, <1>6 DEF StoreMoves, LeaseKept, OwnsLive

LEMMA CommitKeeps ==
    ASSUME CollectionInv, NEW e \in Executor, CommitSnapshot(e), UNCHANGED manualVars
    PROVE  SoundStep
<1>1. /\ job[e].pc \in AtATask /\ job[e] \in Job /\ R(e) \in Run /\ D(e) \in Dataset
      /\ JobOK(e) /\ job[e].pc = "commit"
    BY SamePlaceInJob DEF CommitSnapshot, At, AtATask
<1>2. StoreMoves(e) /\ R(e) \in snapshot'[D(e)]
    BY <1>1, SnapshotStored DEF CommitSnapshot, Stores
<1> DEFINE j == [job[e] EXCEPT !.pc = "settle"]
<1>3. j \in Job /\ j.pc = "settle" /\ j.run = job[e].run /\ j.todo = job[e].todo
      /\ j.seen = job[e].seen /\ j.target = job[e].target /\ Continue(e, j)
    BY <1>1 DEF Job, CommitSnapshot, Goto
<1> HIDE DEF j
<1>4. R(e)' = R(e) /\ D(e)' = D(e) /\ job'[e] = j => PurposeOK(e)' /\ GroundsOK(e)'
    BY <1>1, <1>2, <1>3 DEF JobOK, PurposeOK, GroundsOK, Providing
<1>5. JobMoves(e)
    BY <1>1, <1>2, <1>3, <1>4, GoesOnTask DEF StoreMoves
<1> QED BY <1>2, <1>5, ExecutorKeeps DEF CommitSnapshot

LEMMA CommitBothKeeps ==
    ASSUME CollectionInv, NEW e \in Executor, CommitSnapshotAndTask(e), UNCHANGED manualVars
    PROVE  SoundStep
<1>1. /\ job[e].pc \in AtATask /\ job[e] \in Job /\ R(e) \in Run /\ D(e) \in Dataset
      /\ JobOK(e) /\ job[e].pc = "commit" /\ job[e].target \in Successful
    BY SamePlaceInJob DEF CommitSnapshotAndTask, At, AtATask, JobOK, PurposeOK
<1>2. CASE Wins(e, "collecting", job[e].target) /\ Stores(e) /\ Goto(e, "reread")
    <2>1. StoreMoves(e)
        BY <1>1, <1>2, SnapshotStored DEF CommitSnapshotAndTask, Stores, Wins, Status
    <2> DEFINE j == [job[e] EXCEPT !.pc = "reread"]
    <2>2. j \in Job /\ j.pc = "reread" /\ j.run = job[e].run /\ j.todo = job[e].todo
          /\ j.seen = job[e].seen /\ j.target = job[e].target /\ Continue(e, j)
        BY <1>1, <1>2 DEF Job, Goto
    <2> HIDE DEF j
    <2>3. R(e)' = R(e) /\ D(e)' = D(e) /\ job'[e] = j => PurposeOK(e)' /\ GroundsOK(e)'
        BY <1>1, <2>2 DEF PurposeOK, GroundsOK, Providing
    <2>4. JobMoves(e)
        BY <1>1, <2>1, <2>2, <2>3, GoesOnTask DEF StoreMoves
    <2> QED BY <2>1, <2>4, ExecutorKeeps DEF CommitSnapshotAndTask
<1>3. CASE Loses(e, "collecting") /\ UNCHANGED snapshot /\ Handle(e)
    BY <1>1, <1>3, HandlesIt, LocalKeeps
       DEF CommitSnapshotAndTask, Loses, OnlyLocal, storeVars
<1> QED BY <1>2, <1>3 DEF CommitSnapshotAndTask

(* Once its task is settled, a thread rebuilds the aggregate. *)
LEMMA GoesToRebuild ==
    ASSUME CollectionInv, Kept, NEW e \in Executor, job[e].pc \in AtATask,
           job[e].target \in Successful \union {"failed-retained"},
           Continue(e, [job[e] EXCEPT !.pc = "rebuild", !.expect = job[e].target])
    PROVE  JobMoves(e)
<1> DEFINE j == [job[e] EXCEPT !.pc = "rebuild", !.expect = job[e].target]
<1>1. job[e] \in Job /\ job[e].target \in Terminal
    BY SamePlaceInJob DEF Terminal, Failed
<1>2. j \in Job /\ j.pc = "rebuild" /\ j.run = job[e].run /\ j.todo = job[e].todo
      /\ j.seen = job[e].seen /\ j.expect = job[e].target
    BY <1>1 DEF Job
<1>3. Continue(e, j)
    OBVIOUS
<1> HIDE DEF j
<1>4. job'[e] = j => PurposeOK(e)' /\ GroundsOK(e)'
    BY <1>2 DEF PurposeOK, GroundsOK, Providing
<1> QED BY <1>1, <1>2, <1>3, <1>4, GoesOnTask

LEMMA RereadKeeps ==
    ASSUME CollectionInv, NEW e \in Executor, RereadTask(e), UNCHANGED manualVars
    PROVE  SoundStep
<1> SUFFICES ASSUME Kept PROVE JobMoves(e)
    BY LocalKeeps DEF RereadTask
<1>1. job[e].pc \in AtATask /\ job[e].target \in Successful
    BY SamePlaceInJob DEF RereadTask, At, AtATask, JobOK, PurposeOK
<1> QED BY <1>1, GoesToRebuild, HandlesIt DEF RereadTask

LEMMA SettleKeeps ==
    ASSUME CollectionInv, NEW e \in Executor, SettleTask(e), UNCHANGED manualVars
    PROVE  SoundStep
<1>1. /\ job[e].pc \in AtATask /\ R(e) \in Run /\ D(e) \in Dataset /\ TaskOK(R(e), D(e))
      /\ job[e].target \in Successful /\ R(e) \in snapshot[D(e)]
    BY SamePlaceInJob DEF SettleTask, At, AtATask, JobOK, PurposeOK
<1>2. CASE /\ Wins(e, "collecting", job[e].target)
           /\ Continue(e, [job[e] EXCEPT !.pc = "rebuild", !.expect = job[e].target])
    <2>1. StoreMoves(e)
        BY <1>1, <1>2, TaskSet
           DEF SettleTask, OnlyTask, Wins, Status, TaskOK, Terminal, Active, Successful, Failed
    <2>2. JobMoves(e)
        BY <1>1, <1>2, <2>1, GoesToRebuild DEF StoreMoves
    <2> QED BY <2>1, <2>2, ExecutorKeeps DEF SettleTask, OnlyTask
<1>3. CASE Loses(e, "collecting") /\ Handle(e)
    BY <1>1, <1>3, HandlesIt, LocalKeeps DEF SettleTask, OnlyTask, Loses, OnlyLocal, storeVars
<1> QED BY <1>2, <1>3 DEF SettleTask

-----------------------------------------------------------------------------
(* Failures *)

LEMMA ExistingKeeps ==
    ASSUME CollectionInv, NEW e \in Executor, ReadExisting(e), UNCHANGED manualVars
    PROVE  SoundStep
<1> SUFFICES ASSUME Kept PROVE JobMoves(e)
    BY LocalKeeps DEF ReadExisting
<1>1. job[e].pc \in AtATask /\ job[e] \in Job
    BY SamePlaceInJob DEF ReadExisting, At, AtATask
<1> DEFINE pc == IF snapshot[D(e)] = {} THEN "fail" ELSE "warn"
           j == [job[e] EXCEPT !.target = FailedAs(D(e)), !.pc = pc]
<1>2. Continue(e, j)
    BY DEF ReadExisting
<1>3. j \in Job /\ j.pc \in {"fail", "warn"} /\ j.run = job[e].run /\ j.todo = job[e].todo
      /\ j.seen = job[e].seen /\ j.target = FailedAs(D(e))
    BY <1>1, FailedAsIsTrue, StatusesDiffer DEF Job
<1>4. FailedAs(D(e)) \in Failed /\ (FailedAs(D(e)) = "failed-retained" => snapshot'[D(e)] # {})
    BY FailedAsIsTrue DEF ReadExisting, OnlyLocal, storeVars
<1> HIDE DEF j
<1>5. D(e)' = D(e) /\ job'[e] = j => PurposeOK(e)' /\ GroundsOK(e)'
    BY <1>3, <1>4 DEF PurposeOK, GroundsOK, Providing, FailsTruly
<1> QED BY <1>1, <1>2, <1>3, <1>5, GoesOnTask

LEMMA WarnKeeps ==
    ASSUME CollectionInv, NEW e \in Executor, WarnSnapshot(e), UNCHANGED manualVars
    PROVE  SoundStep
<1> SUFFICES ASSUME Kept PROVE JobMoves(e)
    BY LocalKeeps DEF WarnSnapshot
<1>1. job[e].pc \in AtATask /\ job[e] \in Job /\ FailsTruly(e)
    BY SamePlaceInJob DEF WarnSnapshot, At, AtATask, JobOK, PurposeOK
<1> DEFINE j == [job[e] EXCEPT !.pc = "fail"]
<1>2. CASE Goto(e, "fail")
    <2>1. j \in Job /\ j.pc = "fail" /\ j.run = job[e].run /\ j.todo = job[e].todo
          /\ j.seen = job[e].seen /\ j.target = job[e].target /\ Continue(e, j)
        BY <1>1, <1>2 DEF Job, Goto
    <2> HIDE DEF j
    <2>2. D(e)' = D(e) /\ job'[e] = j => PurposeOK(e)' /\ GroundsOK(e)'
        BY <1>1, <2>1
           DEF PurposeOK, GroundsOK, Providing, FailsTruly, WarnSnapshot, OnlyLocal, storeVars
    <2> QED BY <1>1, <2>1, <2>2, GoesOnTask
<1>3. CASE Goto(e, "fenced")
    BY <1>1, <1>3, GoesTo DEF Unburdened, AtATask
<1> QED BY <1>2, <1>3 DEF WarnSnapshot

LEMMA FailKeeps ==
    ASSUME CollectionInv, NEW e \in Executor, FailTask(e), UNCHANGED manualVars
    PROVE  SoundStep
<1>1. /\ job[e].pc \in AtATask /\ R(e) \in Run /\ D(e) \in Dataset /\ TaskOK(R(e), D(e))
      /\ FailsTruly(e)
    BY SamePlaceInJob DEF FailTask, At, AtATask, JobOK, PurposeOK
<1>2. CASE Wins(e, "collecting", job[e].target)
    <2>1. StoreMoves(e)
        BY <1>1, <1>2, TaskSet
           DEF FailTask, OnlyTask, Wins, Status, TaskOK, Terminal, Active, Successful, Failed,
               FailsTruly
    <2>2. Kept
        BY <2>1 DEF StoreMoves
    <2>3. JobMoves(e)
        <3>1. CASE /\ Continue(e, [job[e] EXCEPT !.pc = "rebuild", !.expect = job[e].target])
                   /\ job[e].target = "failed-retained"
            BY <1>1, <2>2, <3>1, GoesToRebuild
        <3>2. CASE Goto(e, "release")
            BY <1>1, <2>2, <3>2, GoesTo DEF Unburdened, AtATask
        <3> QED BY <1>2, <3>1, <3>2 DEF FailTask, Wins, Loses
    <2> QED BY <2>1, <2>3, ExecutorKeeps DEF FailTask, OnlyTask
<1>3. CASE Loses(e, "collecting") /\ Raise(e)
    BY <1>1, <1>3, RaisesIt, LocalKeeps DEF FailTask, OnlyTask, Loses, OnlyLocal, storeVars
<1> QED BY <1>2, <1>3 DEF FailTask

LEMMA RebuildKeeps ==
    ASSUME CollectionInv, NEW e \in Executor, RebuildAggregate(e), UNCHANGED manualVars
    PROVE  SoundStep
<1>1. /\ job[e].pc \in AtATask /\ R(e) \in Run /\ D(e) \in Dataset /\ TaskOK(R(e), D(e))
      /\ job[e].expect \in Successful \union {"failed-retained"}
    BY SamePlaceInJob DEF RebuildAggregate, At, AtATask, JobOK, PurposeOK
<1>2. ASSUME NEW status \in {job[e].expect, Degraded(job[e].expect)},
             Wins(e, job[e].expect, status), Goto(e, "release")
      PROVE  SoundStep
    <2>1. /\ status \in Successful \union {"failed-retained"}
          /\ status = "failed-retained" <=> job[e].expect = "failed-retained"
          /\ status \in {job[e].expect, "partial"}
        BY <1>1 DEF Degraded, Successful
    <2>2. StoreMoves(e)
        <3>1. /\ task[R(e)][D(e)] = job[e].expect /\ SetTask(R(e), D(e), status)
              /\ UNCHANGED <<run, lease, snapshot, lapsed, reader, manualVars>>
            BY <1>2 DEF RebuildAggregate, OnlyTask, Wins, Status
        <3>2. /\ status \in Terminal /\ status # "failed-missing"
              /\ task[R(e)][D(e)] # "absent"
              /\ status \in Successful => task[R(e)][D(e)] \in {"success", status}
            BY <1>1, <2>1, <3>1 DEF Terminal, Successful, Failed
        <3>3. /\ status \in Successful => R(e) \in snapshot[D(e)]
              /\ status = "failed-retained" => snapshot[D(e)] # {}
            BY <1>1, <2>1, <3>1 DEF TaskOK, Successful
        <3> QED BY <1>1, <3>1, <3>2, <3>3, TaskSet
    <2>3. JobMoves(e)
        BY <1>1, <1>2, <2>2, GoesTo DEF StoreMoves, Unburdened, AtATask
    <2> QED BY <2>2, <2>3, ExecutorKeeps DEF RebuildAggregate, OnlyTask
<1>3. CASE Loses(e, job[e].expect) /\ Raise(e)
    BY <1>1, <1>3, RaisesIt, LocalKeeps
       DEF RebuildAggregate, OnlyTask, Loses, OnlyLocal, storeVars
<1> QED BY <1>2, <1>3 DEF RebuildAggregate

LEMMA QuietlyKeeps ==
    ASSUME CollectionInv, NEW e \in Executor, RebuildQuietly(e), UNCHANGED manualVars
    PROVE  SoundStep
<1> SUFFICES ASSUME Kept PROVE JobMoves(e)
    BY LocalKeeps DEF RebuildQuietly
<1> QED BY GoesTo DEF RebuildQuietly, At, Unburdened, AtATask

LEMMA FencedKeeps ==
    ASSUME CollectionInv, NEW e \in Executor, ReadFencedTask(e), UNCHANGED manualVars
    PROVE  SoundStep
<1> SUFFICES ASSUME Kept PROVE JobMoves(e)
    BY LocalKeeps DEF ReadFencedTask
<1>1. job[e].pc \in AtATask /\ job[e] \in Job /\ Status(e) \in Active \union Terminal
    BY SamePlaceInJob DEF ReadFencedTask, At, AtATask
<1> DEFINE target == IF Status(e) \in Terminal THEN Status(e) ELSE FailedAs(D(e))
           j == [job[e] EXCEPT !.pc = "refuse", !.expect = Status(e), !.target = target]
<1>2. Continue(e, j)
    BY DEF ReadFencedTask
<1>3. /\ target \in Terminal
      /\ \/ Status(e) \in Terminal /\ target = Status(e)
         \/ /\ Status(e) \in Active /\ target \in Failed
            /\ target = "failed-retained" => snapshot'[D(e)] # {}
    BY <1>1, FailedAsIsTrue, StatusesDiffer DEF ReadFencedTask, OnlyLocal, storeVars
<1> HIDE DEF target
<1>4. j \in Job /\ j.pc = "refuse" /\ j.run = job[e].run /\ j.todo = job[e].todo
      /\ j.seen = job[e].seen /\ j.target = target /\ j.expect = Status(e)
    BY <1>1, <1>3 DEF Job
<1> HIDE DEF j
<1>5. D(e)' = D(e) /\ job'[e] = j => PurposeOK(e)' /\ GroundsOK(e)'
    BY <1>3, <1>4 DEF PurposeOK, GroundsOK, Providing, FailsTruly
<1> QED BY <1>1, <1>2, <1>4, <1>5, GoesOnTask

LEMMA RefuseKeeps ==
    ASSUME CollectionInv, NEW e \in Executor, RefuseTask(e), UNCHANGED manualVars
    PROVE  SoundStep
<1>1. /\ job[e].pc \in AtATask /\ R(e) \in Run /\ D(e) \in Dataset /\ TaskOK(R(e), D(e))
      /\ \/ job[e].expect \in Terminal /\ job[e].target = job[e].expect
         \/ job[e].expect \in Active /\ FailsTruly(e)
    BY SamePlaceInJob DEF RefuseTask, At, AtATask, JobOK, PurposeOK
<1>2. CASE Wins(e, job[e].expect, job[e].target) /\ Goto(e, "release")
    <2>1. /\ task[R(e)][D(e)] = job[e].expect /\ SetTask(R(e), D(e), job[e].target)
          /\ UNCHANGED <<run, lease, snapshot, lapsed, reader, manualVars>>
        BY <1>2 DEF RefuseTask, OnlyTask, Wins, Status
    <2>2. StoreMoves(e)
        <3>1. CASE job[e].expect \in Terminal /\ job[e].target = job[e].expect
            BY <1>1, <2>1, <3>1, TaskSet, StatusesDiffer DEF TaskOK
        <3>2. CASE job[e].expect \in Active /\ FailsTruly(e)
            <4>1. /\ job[e].target \in Terminal /\ job[e].target \notin Successful
                  /\ task[R(e)][D(e)] # "absent" /\ task[R(e)][D(e)] \notin Terminal
                  /\ job[e].target = "failed-retained" => snapshot[D(e)] # {}
                BY <2>1, <3>2, StatusesDiffer DEF FailsTruly
            <4>2. ~ (D(e) \in Atomic /\ R(e) \in snapshot[D(e)])
                BY <1>1, <4>1 DEF TaskOK
            <4> QED BY <1>1, <2>1, <4>1, <4>2, TaskSet
        <3> QED BY <1>1, <3>1, <3>2
    <2>3. JobMoves(e)
        BY <1>1, <1>2, <2>2, GoesTo DEF StoreMoves, Unburdened, AtATask
    <2> QED BY <2>2, <2>3, ExecutorKeeps DEF RefuseTask, OnlyTask
<1>3. CASE Loses(e, job[e].expect) /\ Goto(e, "abandon")
    <2> SUFFICES ASSUME Kept PROVE JobMoves(e)
        BY <1>3, LocalKeeps DEF RefuseTask, OnlyTask, Loses, OnlyLocal, storeVars
    <2> QED BY <1>1, <1>3, GoesTo DEF Unburdened, AtATask
<1> QED BY <1>2, <1>3 DEF RefuseTask

LEMMA IntegrityKeeps ==
    ASSUME CollectionInv, NEW e \in Executor, FailOnCorruption(e), UNCHANGED manualVars
    PROVE  SoundStep
<1>1. /\ job[e].pc \in AtATask /\ R(e) \in Run /\ D(e) \in Dataset /\ TaskOK(R(e), D(e))
      /\ snapshot[D(e)] # {}
    BY SamePlaceInJob DEF FailOnCorruption, At, AtATask, JobOK, PurposeOK
<1>2. CASE Wins(e, "collecting", "failed-retained") /\ Goto(e, "parent")
    <2>1. StoreMoves(e)
        BY <1>1, <1>2, TaskSet
           DEF FailOnCorruption, OnlyTask, Wins, Status, TaskOK, Terminal, Active,
               Successful, Failed
    <2>2. JobMoves(e)
        BY <1>1, <1>2, <2>1, GoesTo DEF StoreMoves, Unburdened, AtATask
    <2> QED BY <2>1, <2>2, ExecutorKeeps DEF FailOnCorruption, OnlyTask
<1>3. CASE Loses(e, "collecting") /\ Goto(e, "abandon")
    <2> SUFFICES ASSUME Kept PROVE JobMoves(e)
        BY <1>3, LocalKeeps DEF FailOnCorruption, OnlyTask, Loses, OnlyLocal, storeVars
    <2> QED BY <1>1, <1>3, GoesTo DEF Unburdened, AtATask
<1> QED BY <1>2, <1>3 DEF FailOnCorruption

-----------------------------------------------------------------------------
(* The run's own verdict, and the way out *)

LEMMA ParentKeeps ==
    ASSUME CollectionInv, NEW e \in Executor, ReadParent(e), UNCHANGED manualVars
    PROVE  SoundStep
<1> SUFFICES ASSUME Kept PROVE JobMoves(e)
    BY LocalKeeps DEF ReadParent
<1>1. job[e].pc \in AtATask /\ job[e] \in Job /\ TypeOK /\ R(e) \in Run
    BY SamePlaceInJob DEF ReadParent, At, AtATask
<1> DEFINE verdict == Verdict(Statuses(R(e)))
           j == [job[e] EXCEPT !.pc = "verdict", !.target = verdict]
<1>2. CASE AllTerminal(R(e)) /\ Continue(e, j)
    <2>1. Honest(task'[R(e)], verdict)
        BY <1>1, <1>2, HonestVerdict DEF ReadParent, OnlyLocal, storeVars
    <2>2. verdict \in RunTerminal
        BY <2>1 DEF Honest
    <2> HIDE DEF verdict
    <2>3. j \in Job /\ j.pc = "verdict" /\ j.run = job[e].run /\ j.todo = job[e].todo
          /\ j.seen = job[e].seen /\ j.target = verdict
        BY <1>1, <2>2 DEF Job
    <2> HIDE DEF j
    <2>4. R(e)' = R(e) /\ job'[e] = j => PurposeOK(e)' /\ GroundsOK(e)'
        BY <2>1, <2>3 DEF PurposeOK, GroundsOK, Providing
    <2> QED BY <1>1, <1>2, <2>3, <2>4, GoesOnTask
<1>3. CASE Goto(e, "release")
    BY <1>1, <1>3, GoesTo DEF Unburdened, AtATask
<1> QED BY <1>2, <1>3 DEF ReadParent

LEMMA ParentSettledKeeps ==
    ASSUME CollectionInv, NEW e \in Executor, SettleParent(e), UNCHANGED manualVars
    PROVE  SoundStep
<1>1. /\ job[e].pc \in AtATask /\ R(e) \in Run /\ Honest(task[R(e)], job[e].target)
    BY SamePlaceInJob DEF SettleParent, At, AtATask, JobOK, PurposeOK
<1>2. job[e].target \in RunTerminal
    BY <1>1 DEF Honest
<1>3. StoreMoves(e)
    BY <1>1, <1>2, RunSet DEF SettleParent, OnlyRun
<1>4. JobMoves(e)
    BY <1>1, <1>3, GoesTo DEF SettleParent, StoreMoves, Unburdened, AtATask
<1> QED BY <1>3, <1>4, ExecutorKeeps DEF SettleParent, OnlyRun

LEMMA ReleaseKeeps ==
    ASSUME CollectionInv, NEW e \in Executor, Release(e), UNCHANGED manualVars
    PROVE  SoundStep
<1>1. job[e].pc \in AtATask /\ R(e) \in Run /\ D(e) \in Dataset /\ TypeOK
    BY SamePlaceInJob DEF Release, AtATask
<1>2. /\ lease' \in [Dataset -> [owner : Run \union {NoRun}, generation : Nat, live : BOOLEAN]]
      /\ \A d \in Dataset : lease'[d] = lease[d] \/ (d = D(e) /\ lease[D(e)].owner = R(e))
    <2>1. lease \in [Dataset -> [owner : Run \union {NoRun}, generation : Nat, live : BOOLEAN]]
        BY <1>1 DEF TypeOK, StoreTypeOK
    <2>2. NoLease \in [owner : Run \union {NoRun}, generation : Nat, live : BOOLEAN]
        BY DEF NoLease
    <2>3. CASE lease' = lease
        BY <2>1, <2>3
    <2>4. CASE lease' = [lease EXCEPT ![D(e)] = NoLease] /\ lease[D(e)].owner = R(e)
        BY <1>1, <2>1, <2>2, <2>4
    <2> QED BY <2>3, <2>4 DEF Release, DropLease, Holds
<1>3. UNCHANGED <<run, task, snapshot, lapsed, queue, reader>>
    BY DEF Release, NoTaskChange
<1>4. Kept
    BY <1>3 DEF Kept, Settled, Answered, manualVars
<1>5. \A r \in Run, d \in Dataset : TaskOK(r, d)'
    BY <1>3 DEF CollectionInv, TaskOK
<1>6. \A r \in Run, d \in Dataset : r # R(e) => LeaseKept(r, d)
    BY <1>2 DEF LeaseKept, OwnsLive
<1>7. StoreMoves(e)
    BY <1>1, <1>2, <1>3, <1>4, <1>5, <1>6 DEF StoreMoves, TypeOK, StoreTypeOK
<1>8. JobMoves(e)
    BY <1>1, <1>4, GoesToNext, StopsHere DEF Release
<1> QED BY <1>3, <1>7, <1>8, ExecutorKeeps

LEMMA FinishKeeps ==
    ASSUME CollectionInv, NEW e \in Executor, FinishRun(e), UNCHANGED manualVars
    PROVE  SoundStep
<1> SUFFICES ASSUME Kept PROVE JobMoves(e)
    BY LocalKeeps DEF FinishRun
<1> DEFINE verdict == Verdict(Statuses(R(e)))
           j == [job[e] EXCEPT !.pc = "close", !.target = verdict]
<1>1. TypeOK /\ JobOK(e) /\ job[e] \in Job /\ job[e].pc = "finish" /\ R(e) \in Run
    BY AtWork DEF FinishRun, At
<1>2. \E d \in Dataset : task[R(e)][d] # "absent"
    BY <1>1 DEF JobOK, PlaceOK, Answered, CollectionInv, PostOK, Opened, R
<1>3. CASE Statuses(R(e)) \subseteq Terminal /\ Continue(e, j)
    <2>1. AllTerminal(R(e))
        BY <1>2, <1>3 DEF AllTerminal, Statuses
    <2>2. Honest(task'[R(e)], verdict)
        BY <1>1, <2>1, HonestVerdict DEF FinishRun, OnlyLocal, storeVars
    <2>3. verdict \in RunTerminal
        BY <2>2 DEF Honest
    <2> HIDE DEF verdict
    <2>4. j \in Job /\ j.pc = "close" /\ j.run = job[e].run /\ j.todo = job[e].todo
          /\ j.seen = job[e].seen /\ j.target = verdict
        BY <1>1, <2>3 DEF Job
    <2> HIDE DEF j
    <2>5. /\ job' \in [Executor -> Job]
          /\ job'[e] = j /\ \A f \in Executor \ {e} : job'[f] = job[f]
          /\ PlaceOK(e)' /\ R(e)' = R(e)
        BY <1>1, <1>3, <2>4, JobGoesOn DEF JobOK, AtATask
    <2>6. PurposeOK(e)' /\ GroundsOK(e)'
        BY <2>2, <2>4, <2>5 DEF PurposeOK, GroundsOK, Providing
    <2> QED BY <2>4, <2>5, <2>6 DEF JobMoves, JobOK
<1>4. CASE Stop(e)
    BY <1>4, StopsHere
<1> QED BY <1>3, <1>4 DEF FinishRun

LEMMA CloseKeeps ==
    ASSUME CollectionInv, NEW e \in Executor, CloseRun(e), UNCHANGED manualVars
    PROVE  SoundStep
<1>1. R(e) \in Run /\ Honest(task[R(e)], job[e].target)
    BY AtWork DEF CloseRun, At, JobOK, PurposeOK
<1>2. job[e].target \in RunTerminal
    BY <1>1 DEF Honest
<1>3. StoreMoves(e)
    BY <1>1, <1>2, RunSet DEF CloseRun, OnlyRun
<1> QED BY <1>3, StopsHere, ExecutorKeeps DEF CloseRun, OnlyRun

(* A thread takes the oldest run of the queue, which nobody else runs.     *)
LEMMA StartKeeps ==
    ASSUME CollectionInv, NEW e \in Executor, StartJob(e), UNCHANGED manualVars
    PROVE  SoundStep
<1> DEFINE j == [Idle EXCEPT !.pc = "sweep", !.run = Head(queue)]
<1>1. TypeOK /\ ScheduledOnce /\ queue \in Seq(Run) /\ queue # <<>> /\ job[e] = Idle
    BY DEF CollectionInv, StartJob, TypeOK, ExecutionTypeOK, JobOK, PlaceOK
<1>2. /\ Len(queue) \in Nat /\ Len(queue) >= 1 /\ Head(queue) = queue[1] /\ Head(queue) \in Run
      /\ Tail(queue) \in Seq(Run) /\ Len(Tail(queue)) = Len(queue) - 1
      /\ \A i \in 1 .. Len(queue) - 1 : Tail(queue)[i] = queue[i + 1]
    BY <1>1
<1>3. Answered(Head(queue)) /\ Head(queue) # NoRun
    BY <1>1, <1>2, StoreAssumption DEF ScheduledOnce
<1>4. j \in Job /\ j.pc = "sweep" /\ j.run = Head(queue) /\ j.todo = {} /\ j.seen = {}
    BY <1>2 DEF Job, Idle
<1>5. queue' = Tail(queue) /\ UNCHANGED <<storeVars, reader, manualVars>>
    BY DEF StartJob
<1>6. Continue(e, j)
    BY DEF StartJob, Continue
<1> HIDE DEF j
<1>7. job'[e] = j /\ \A f \in Executor \ {e} : job'[f] = job[f]
    BY <1>1, <1>6, JobChanged
<1>8. StoreMoves(e)
    BY <1>5, StoreUntouched
<1>9. TypeOK'
    BY <1>1, <1>2, <1>4, <1>5, <1>6, <1>8
       DEF TypeOK, ExecutionTypeOK, StoreMoves, Continue, manualVars
<1>10. ScheduledOnce'
    <2>1. \A f \in Executor : job[f].run # queue[1]
        BY <1>1, <1>2 DEF ScheduledOnce
    <2>2. \A f, g \in Executor : job'[f].run = job'[g].run /\ job'[f].run # NoRun => f = g
        BY <1>1, <1>2, <1>4, <1>7, <2>1 DEF ScheduledOnce
    <2>3. ASSUME NEW i \in 1 .. Len(Tail(queue))
          PROVE  /\ Answered(Tail(queue)[i])
                 /\ \A f \in Executor : job'[f].run # Tail(queue)[i]
                 /\ \A k \in 1 .. Len(Tail(queue)) : Tail(queue)[i] = Tail(queue)[k] => i = k
        <3>1. i + 1 \in 1 .. Len(queue) /\ 1 \in 1 .. Len(queue) /\ i + 1 # 1
              /\ Tail(queue)[i] = queue[i + 1]
            BY <1>2
        <3>2. queue[i + 1] # queue[1]
            BY <1>1, <3>1 DEF ScheduledOnce
        <3>3. \A f \in Executor : job'[f].run # queue[i + 1]
            BY <1>1, <1>2, <1>4, <1>7, <3>1, <3>2 DEF ScheduledOnce
        <3>4. ASSUME NEW k \in 1 .. Len(Tail(queue)), queue[i + 1] = Tail(queue)[k]
              PROVE  i = k
            <4>1. k + 1 \in 1 .. Len(queue) /\ Tail(queue)[k] = queue[k + 1]
                BY <1>2
            <4>2. i + 1 = k + 1
                BY <1>1, <3>1, <3>4, <4>1 DEF ScheduledOnce
            <4> QED BY <4>2
        <3>5. Answered(queue[i + 1])
            BY <1>1, <3>1 DEF ScheduledOnce
        <3> QED BY <3>1, <3>3, <3>4, <3>5
    <2> QED BY <1>5, <2>2, <2>3 DEF ScheduledOnce, Answered, manualVars
<1>11. JobOK(e)'
    BY <1>3, <1>4, <1>5, <1>7
       DEF JobOK, PlaceOK, PurposeOK, GroundsOK, Answered, manualVars, AtATask, Providing
<1>12. ASSUME NEW f \in Executor \ {e} PROVE JobOK(f)'
    <2>1. LeaseKept(R(f), D(f))
        BY <1>5 DEF LeaseKept, OwnsLive, storeVars
    <2> QED BY <1>1, <1>7, <1>8, <2>1, OtherJobStays DEF CollectionInv, StoreMoves
<1>13. \A r \in Run : RunOK(r)' /\ PostOK(r)'
    BY <1>5 DEF CollectionInv, RunOK, PostOK, Exists, First, storeVars, manualVars
<1>14. \A c \in Reader : ReaderOK(c)'
    BY <1>1, <1>5, <1>8, OtherReaderStays DEF CollectionInv, StoreMoves
<1> QED BY <1>8, <1>9, <1>10, <1>11, <1>12, <1>13, <1>14
        DEF SoundStep, CollectionInv, StoreMoves

LEMMA ExecutorStepKeeps ==
    ASSUME CollectionInv, NEW e \in Executor, ExecutorStep(e), UNCHANGED manualVars
    PROVE  SoundStep
<1>1. CASE \/ StartJob(e) \/ SweepSelect(e) \/ SweepExpire(e) \/ BeginRun(e) \/ OpenRun(e)
           \/ ListTasks(e) \/ CheckPrerequisites(e) \/ ReadReservation(e) \/ BlockTask(e)
    BY <1>1, StartKeeps, SelectKeeps, SweepKeeps, BeginKeeps, OpenKeeps, ListKeeps,
       CheckKeeps, ReservationKeeps, BlockKeeps
<1>2. CASE \/ ClaimTask(e) \/ ReadToken(e) \/ RenewToken(e) \/ ReadRetainedOnLoss(e)
           \/ FailWithoutLease(e) \/ Collect(e) \/ CollectRaises(e) \/ AdmitCommit(e)
           \/ CommitFindsCorruption(e)
    BY <1>2, ClaimKeeps, TokenKeeps, RenewKeeps, RetainedKeeps, LoseKeeps, CollectKeeps,
       RaiseKeeps, AdmitKeeps, CorruptionKeeps
<1>3. CASE \/ CommitSnapshot(e) \/ CommitSnapshotAndTask(e) \/ RereadTask(e) \/ SettleTask(e)
           \/ ReadExisting(e) \/ WarnSnapshot(e) \/ FailTask(e) \/ RebuildAggregate(e)
           \/ RebuildQuietly(e)
    BY <1>3, CommitKeeps, CommitBothKeeps, RereadKeeps, SettleKeeps, ExistingKeeps, WarnKeeps,
       FailKeeps, RebuildKeeps, QuietlyKeeps
<1>4. CASE \/ ReadFencedTask(e) \/ RefuseTask(e) \/ FailOnCorruption(e) \/ ReadParent(e)
           \/ SettleParent(e) \/ Release(e) \/ FinishRun(e) \/ CloseRun(e)
    BY <1>4, FencedKeeps, RefuseKeeps, IntegrityKeeps, ParentKeeps, ParentSettledKeeps,
       ReleaseKeeps, FinishKeeps, CloseKeeps
<1> QED BY <1>1, <1>2, <1>3, <1>4 DEF ExecutorStep

-----------------------------------------------------------------------------
(* Steps of requests: nobody's job changes *)

StoreFine ==
    /\ StoreTypeOK'
    /\ Kept
    /\ \A r \in Run, d \in Dataset : TaskOK(r, d)' /\ LeaseKept(r, d)
    /\ \A r \in Run : run'[r] \in RunTerminal => run'[r] = run[r] \/ Honest(task'[r], run'[r])

LEMMA RequestKeeps ==
    ASSUME CollectionInv, StoreFine, TypeOK', UNCHANGED job,
           ScheduledOnce',
           \A r \in Run : PostOK(r)',
           \A r \in Run : post'[r].pc \in Opened =>
                post[r].pc \in Opened \/ run'[r] \notin RunTerminal,
           \A c \in Reader : ReaderOK(c)'
    PROVE  SoundStep
<1>1. TypeOK /\ Kept
    BY DEF CollectionInv, StoreFine
<1>2. ASSUME NEW r \in Run PROVE RunOK(r)'
    <2>1. CASE run'[r] = run[r] /\ (post'[r].pc \in Opened => post[r].pc \in Opened)
        BY <1>1, <2>1, OtherRunStays DEF CollectionInv
    <2>2. CASE run'[r] \notin RunTerminal
        BY <2>2 DEF RunOK
    <2>3. CASE Honest(task'[r], run'[r])
        BY <2>3 DEF RunOK
    <2> QED BY <2>1, <2>2, <2>3 DEF StoreFine
<1>3. ASSUME NEW e \in Executor PROVE JobOK(e)'
    <2>1. JobOK(e) /\ job'[e] = job[e]
        BY DEF CollectionInv
    <2>2. CASE job[e].pc \in AtATask
        <3>1. LeaseKept(R(e), D(e))
            BY <2>2, SamePlaceInJob DEF StoreFine
        <3> QED BY <1>1, <2>1, <3>1, OtherJobStays
    <2>3. CASE job[e].pc \notin AtATask
        <3>1. PlaceOK(e)' /\ PurposeOK(e)'
            BY <1>1, <2>1, PlaceStays, PurposeStays DEF JobOK
        <3> QED BY <2>1, <2>3, <3>1 DEF JobOK, GroundsOK, AtATask, Providing
    <2> QED BY <2>2, <2>3
<1> QED BY <1>2, <1>3 DEF SoundStep, CollectionInv, StoreFine

LEMMA TablesUntouched ==
    ASSUME CollectionInv, UNCHANGED storeVars, \A r \in Run : Answered(r) => Answered(r)'
    PROVE  StoreFine
<1>1. StoreTypeOK' /\ Kept
    BY DEF CollectionInv, TypeOK, StoreTypeOK, Kept, storeVars
<1>2. \A r \in Run, d \in Dataset : TaskOK(r, d)' /\ LeaseKept(r, d)
    BY DEF CollectionInv, TaskOK, LeaseKept, OwnsLive, storeVars
<1> QED BY <1>1, <1>2 DEF StoreFine, storeVars

(* A poll. *)
LEMMA ReaderMoves ==
    ASSUME CollectionInv, StoreFine, NEW c \in Reader, NEW q \in Request, Answer(c, q),
           UNCHANGED <<queue, job, manualVars>>,
           reader'[c] = q => ReaderOK(c)'
    PROVE  SoundStep
<1>1. TypeOK /\ Kept
    BY DEF CollectionInv, StoreFine
<1>2. /\ reader' \in [Reader -> Request]
      /\ reader'[c] = q /\ \A b \in Reader \ {c} : reader'[b] = reader[b]
    BY <1>1 DEF TypeOK, ExecutionTypeOK, Answer
<1>3. TypeOK'
    BY <1>1, <1>2 DEF TypeOK, ExecutionTypeOK, StoreFine, manualVars
<1>4. ScheduledOnce'
    BY DEF CollectionInv, ScheduledOnce, Answered, manualVars
<1>5. \A r \in Run : PostOK(r)'
    BY <1>1, OtherPostStays DEF CollectionInv, manualVars
<1>6. \A b \in Reader : ReaderOK(b)'
    BY <1>1, <1>2, OtherReaderStays DEF CollectionInv
<1> QED BY <1>3, <1>4, <1>5, <1>6, RequestKeeps DEF manualVars

LEMMA InactiveExists == Inactive \subseteq Task /\ \A t \in Inactive : Exists(t)
    BY StatusesDiffer DEF Inactive, Exists

LEMMA PollKeeps ==
    ASSUME CollectionInv, NEW c \in Reader, UNCHANGED manualVars,
           (\E r \in Run : PollRun(c, r)) \/ CollectionStatus(c)
    PROVE  SoundStep
<1>1. StoreFine /\ UNCHANGED <<queue, job>>
    <2>1. UNCHANGED storeVars /\ UNCHANGED <<queue, job>>
        BY DEF PollRun, GetRun, CollectionStatus, OnlyReader
    <2> QED BY <2>1, TablesUntouched DEF Answered, manualVars
<1>2. UNCHANGED task
    BY DEF PollRun, GetRun, CollectionStatus, OnlyReader, storeVars
<1>3. \A t \in Inactive : Exists(t)'
    BY <1>2, InactiveExists DEF Exists
<1>4. ASSUME NEW r \in Run, PollRun(c, r) PROVE SoundStep
    <2> DEFINE pc == IF Inactive = {} THEN "read" ELSE "expire"
               q == [Resting EXCEPT !.run = r, !.seen = Inactive, !.pc = pc]
    <2>1. q \in Request /\ q.pc \in {"read", "expire"} /\ q.run = r /\ q.seen = Inactive
        BY InactiveExists DEF Request, Resting
    <2>2. Answer(c, q) /\ Answered(r)
        BY <1>4 DEF PollRun, GetRun, Posting, Answered
    <2>3. r # NoRun /\ Answered(r)'
        BY <2>2, StoreAssumption DEF Answered, manualVars
    <2> HIDE DEF q
    <2>4. reader'[c] = q => ReaderOK(c)'
        BY <1>3, <2>1, <2>3 DEF ReaderOK, Answered
    <2> QED BY <1>1, <2>1, <2>2, <2>4, ReaderMoves
<1>5. CASE CollectionStatus(c)
    <2> DEFINE q == [Resting EXCEPT !.pc = "expire", !.seen = Inactive]
    <2>1. q \in Request /\ q.pc = "expire" /\ q.run = NoRun /\ q.seen = Inactive
        BY InactiveExists DEF Request, Resting
    <2>2. Answer(c, q)
        BY <1>5 DEF CollectionStatus
    <2> HIDE DEF q
    <2>3. reader'[c] = q => ReaderOK(c)'
        BY <1>3, <2>1 DEF ReaderOK
    <2> QED BY <1>1, <2>1, <2>2, <2>3, ReaderMoves
<1> QED BY <1>4, <1>5

LEMMA ReaderStepKeeps ==
    ASSUME CollectionInv, NEW c \in Reader, UNCHANGED manualVars, ReaderStep(c)
    PROVE  SoundStep
<1>1. TypeOK /\ ReaderOK(c) /\ reader[c] \in Request
    BY DEF CollectionInv, TypeOK, ExecutionTypeOK
<1>2. \A r \in Run : Answered(r) => Answered(r)'
    BY DEF Answered, manualVars
<1>3. Resting \in Request /\ (reader'[c] = Resting => ReaderOK(c)')
    BY DEF Resting, Request, ReaderOK
<1>4. CASE ReaderExpire(c)
    <2>1. reader[c].seen \in SUBSET Task /\ \A t \in reader[c].seen : Exists(t)
        BY <1>1 DEF Request, ReaderOK
    <2>2. StoreFine
        BY <1>2, <1>4, <2>1, ExpireMoves DEF ReaderExpire, StoreFine
    <2> DEFINE q == [reader[c] EXCEPT !.pc = "read", !.seen = {}]
    <2>3. CASE Answer(c, Resting)
        BY <1>3, <1>4, <2>2, <2>3, ReaderMoves DEF ReaderExpire
    <2>4. CASE Answer(c, q) /\ reader[c].run # NoRun
        <3>1. q \in Request /\ q.pc = "read" /\ q.run = reader[c].run /\ q.seen = {}
            BY <1>1 DEF Request
        <3> HIDE DEF q
        <3>2. reader'[c] = q => ReaderOK(c)'
            BY <1>1, <2>4, <3>1 DEF ReaderOK, Answered, manualVars
        <3> QED BY <1>4, <2>2, <2>4, <3>1, <3>2, ReaderMoves DEF ReaderExpire
    <2> QED BY <1>4, <2>3, <2>4 DEF ReaderExpire
<1>5. CASE ReaderRead(c)
    <2> DEFINE r == reader[c].run
               verdict == Verdict(Statuses(r))
               q == [reader[c] EXCEPT !.pc = "settle", !.target = verdict]
    <2>1. StoreFine /\ UNCHANGED <<queue, job>>
        BY <1>2, <1>5, TablesUntouched DEF ReaderRead, OnlyReader
    <2>2. r \in Run /\ r # NoRun /\ Answered(r)
        BY <1>1, <1>5 DEF ReaderRead, ReaderOK, Request
    <2>3. CASE Answer(c, Resting)
        BY <1>3, <2>1, <2>3, ReaderMoves
    <2>4. CASE Answer(c, q) /\ AllTerminal(r)
        <3>1. Honest(task'[r], verdict)
            BY <1>1, <1>5, <2>2, <2>4, HonestVerdict DEF ReaderRead, OnlyReader, storeVars
        <3>2. verdict \in RunTerminal
            BY <3>1 DEF Honest
        <3> HIDE DEF verdict
        <3>3. q \in Request /\ q.pc = "settle" /\ q.run = r /\ q.seen = reader[c].seen
              /\ q.target = verdict
            BY <1>1, <3>2 DEF Request
        <3> HIDE DEF q
        <3>4. reader'[c] = q => ReaderOK(c)'
            BY <1>1, <1>5, <2>2, <3>1, <3>3
               DEF ReaderOK, Answered, Exists, ReaderRead, OnlyReader, storeVars, manualVars
        <3> QED BY <2>1, <2>4, <3>3, <3>4, ReaderMoves
    <2> QED BY <1>5, <2>3, <2>4 DEF ReaderRead
<1>6. CASE ReaderSettle(c)
    <2> DEFINE r == reader[c].run
               target == reader[c].target
    <2>1. r \in Run /\ Honest(task[r], target)
        BY <1>1, <1>6 DEF ReaderSettle, ReaderOK, Request
    <2>2. target \in RunTerminal
        BY <2>1 DEF Honest
    <2>3. /\ run' \in [Run -> {"absent"} \union Active \union RunTerminal]
          /\ \A s \in Run : run'[s] = IF s = r THEN target ELSE run[s]
        BY <1>1, <1>6, <2>1, <2>2 DEF ReaderSettle, SetRun, TypeOK, StoreTypeOK
    <2>4. UNCHANGED <<task, lease, snapshot, lapsed>>
        BY <1>6 DEF ReaderSettle
    <2>5. StoreTypeOK' /\ Kept
        BY <1>1, <1>2, <2>3, <2>4 DEF TypeOK, StoreTypeOK, Kept
    <2>6. \A s \in Run, d \in Dataset : TaskOK(s, d)' /\ LeaseKept(s, d)
        BY <2>4 DEF CollectionInv, TaskOK, LeaseKept, OwnsLive
    <2>7. StoreFine
        BY <2>1, <2>3, <2>4, <2>5, <2>6 DEF StoreFine
    <2> QED BY <1>3, <1>6, <2>7, ReaderMoves DEF ReaderSettle
<1> QED BY <1>4, <1>5, <1>6 DEF ReaderStep

LEMMA LapseKeeps ==
    ASSUME CollectionInv, NEW d \in Dataset, Lapse(d), UNCHANGED <<executionVars, manualVars>>
    PROVE  SoundStep
<1>1. TypeOK
    BY DEF CollectionInv
<1>2. /\ lease' \in [Dataset -> [owner : Run \union {NoRun}, generation : Nat, live : BOOLEAN]]
      /\ \A c \in Dataset : c # d => lease'[c] = lease[c]
    BY <1>1 DEF Lapse, TypeOK, StoreTypeOK
<1>3. /\ lapsed' \subseteq Task /\ lapsed \subseteq lapsed'
      /\ lease[d].owner \in Run => <<lease[d].owner, d>> \in lapsed'
    BY <1>1 DEF Lapse, TypeOK, StoreTypeOK, Task
<1>4. StoreTypeOK' /\ Kept
    BY <1>1, <1>2, <1>3
       DEF Lapse, TypeOK, StoreTypeOK, Kept, Answered, manualVars
<1>5. ASSUME NEW r \in Run, NEW c \in Dataset PROVE TaskOK(r, c)' /\ LeaseKept(r, c)
    <2>1. TaskOK(r, c)'
        BY DEF CollectionInv, TaskOK, Lapse
    <2>2. LeaseKept(r, c)
        BY <1>2, <1>3 DEF LeaseKept, OwnsLive
    <2> QED BY <2>1, <2>2
<1>6. StoreFine
    BY <1>4, <1>5 DEF StoreFine, Lapse
<1>7. TypeOK' /\ ScheduledOnce'
    BY <1>1, <1>4 DEF TypeOK, ExecutionTypeOK, executionVars, manualVars, CollectionInv,
                      ScheduledOnce, Answered
<1>8. (\A r \in Run : PostOK(r)') /\ (\A c \in Reader : ReaderOK(c)')
    BY <1>1, <1>4, OtherPostStays, OtherReaderStays
       DEF CollectionInv, executionVars, manualVars
<1> QED BY <1>6, <1>7, <1>8, RequestKeeps DEF executionVars, manualVars

LEMMA CrashKeeps ==
    ASSUME CollectionInv, Crash
    PROVE  SoundStep
<1>1. TypeOK
    BY DEF CollectionInv
<1>2. /\ post' \in [Run -> Post]
      /\ \A r \in Run :
            \/ post'[r] = post[r]
            \/ post'[r].pc = "failed" /\ post'[r].seen = {} /\ post'[r].todo = {}
               /\ post[r].pc # "answered"
    BY <1>1 DEF Crash, TypeOK, Post
<1>3. \A r \in Run : Answered(r) => Answered(r)'
    BY <1>2 DEF Answered
<1>4. StoreFine
    BY <1>3, TablesUntouched DEF Crash
<1>5. Kept
    BY <1>4 DEF StoreFine
<1>6. TypeOK'
    <2>1. ExecutionTypeOK'
        BY DEF Crash, ExecutionTypeOK, Idle, Resting, Job, Request
    <2>2. crashes' \in 0 .. MaxCrashes
        BY <1>1, ManualAssumption DEF Crash, TypeOK
    <2> QED BY <1>2, <1>4, <2>1, <2>2 DEF TypeOK, StoreFine
<1>7. ScheduledOnce'
    BY DEF Crash, ScheduledOnce, Idle
<1>8. ASSUME NEW r \in Run PROVE PostOK(r)' /\ RunOK(r)'
    <2>1. CASE post'[r] = post[r]
        BY <1>1, <1>5, <2>1, OtherPostStays, OtherRunStays
           DEF CollectionInv, Crash, storeVars
    <2>2. CASE post'[r].pc = "failed" /\ post'[r].seen = {}
        BY <2>2 DEF PostOK, RunOK, Opened
    <2> QED BY <1>2, <2>1, <2>2
<1>9. ASSUME NEW e \in Executor PROVE JobOK(e)'
    BY DEF Crash, JobOK, PlaceOK, PurposeOK, GroundsOK, Idle, AtATask, Providing
<1>10. ASSUME NEW c \in Reader PROVE ReaderOK(c)'
    BY DEF Crash, ReaderOK, Resting
<1> QED BY <1>4, <1>6, <1>7, <1>8, <1>9, <1>10 DEF SoundStep, CollectionInv, StoreFine

-----------------------------------------------------------------------------
(* The steps of POST /collection-runs *)

LEMMA PostThen ==
    ASSUME TypeOK, NEW r \in Run, NEW pc,
           pc \in {"none", "sweep", "expire", "create", "next", "acquire", "confirm", "yield",
                   "open", "status", "statusExpire", "submit", "answered", "refused", "failed"},
           Then(r, pc)
    PROVE  /\ post' \in [Run -> Post] /\ \A q \in Run \ {r} : post'[q] = post[q]
           /\ post'[r].pc = pc /\ post'[r].seen = {} /\ post'[r].todo = post[r].todo
    BY DEF TypeOK, Then, Post

LEMMA PostWith ==
    ASSUME TypeOK, NEW r \in Run, NEW pc \in {"sweep", "next", "failed"},
           NEW todo \in SUBSET Dataset, With(r, pc, todo)
    PROVE  /\ post' \in [Run -> Post] /\ \A q \in Run \ {r} : post'[q] = post[q]
           /\ post'[r].pc = pc /\ post'[r].seen = post[r].seen /\ post'[r].todo = todo
    BY DEF TypeOK, With, Post

(* A request that has not answered: no thread has its run. *)
LEMMA PostMoves ==
    ASSUME CollectionInv, StoreFine, NEW r \in Run, post[r].pc # "answered",
           post' \in [Run -> Post], \A q \in Run \ {r} : post'[q] = post[q],
           UNCHANGED <<executionVars, crashes>>,
           PostOK(r)',
           post'[r].pc \in Opened => post[r].pc \in Opened \/ run'[r] \notin RunTerminal
    PROVE  SoundStep
<1>1. TypeOK /\ Kept /\ ScheduledOnce
    BY DEF CollectionInv, StoreFine
<1>2. TypeOK'
    BY <1>1 DEF TypeOK, StoreFine, ExecutionTypeOK, executionVars
<1>3. ScheduledOnce'
    <2>1. \A i \in 1 .. Len(queue) : queue[i] \in Run
        BY <1>1 DEF TypeOK, ExecutionTypeOK
    <2>2. \A i \in 1 .. Len(queue) : post'[queue[i]].pc = "answered"
        BY <1>1, <2>1 DEF ScheduledOnce, Answered
    <2>3. UNCHANGED <<queue, job>>
        BY DEF executionVars
    <2> QED BY <1>1, <2>2, <2>3 DEF ScheduledOnce, Answered
<1>4. \A q \in Run : PostOK(q)'
    BY <1>1, OtherPostStays DEF CollectionInv
<1>5. \A c \in Reader : ReaderOK(c)'
    BY <1>1, OtherReaderStays DEF CollectionInv, executionVars
<1>6. \A q \in Run : post'[q].pc \in Opened => post[q].pc \in Opened \/ run'[q] \notin RunTerminal
    OBVIOUS
<1> QED BY <1>2, <1>3, <1>4, <1>5, <1>6, RequestKeeps DEF executionVars

LEMMA OnlyPostMoves ==
    ASSUME CollectionInv, NEW r \in Run, post[r].pc # "answered", OnlyPost,
           post' \in [Run -> Post], \A q \in Run \ {r} : post'[q] = post[q],
           PostOK(r)',
           post'[r].pc \in Opened => post[r].pc \in Opened
    PROVE  SoundStep
<1>1. \A q \in Run : Answered(q) => Answered(q)'
    BY DEF Answered
<1>2. StoreFine
    BY <1>1, TablesUntouched DEF OnlyPost
<1> QED BY <1>2, PostMoves DEF OnlyPost

LEMMA TodoIsDatasets ==
    ASSUME TypeOK, NEW r \in Run
    PROVE  /\ post[r].todo \in SUBSET Dataset /\ post[r].seen \in SUBSET Task
           /\ post[r].todo # {} => First(post[r].todo) \in post[r].todo
    BY FirstIsIn DEF TypeOK, Post

LEMMA PostRunKeeps ==
    ASSUME CollectionInv, NEW r \in Run, NEW chosen \in Requests, PostRun(r, chosen)
    PROVE  SoundStep
<1>1. TypeOK /\ PostOK(r)
    BY DEF CollectionInv
<1>2. Closure(chosen) \in SUBSET Dataset /\ Closure(chosen) # {}
    <2>1. chosen \in SUBSET Dataset /\ chosen # {}
        BY ManualAssumption
    <2>2. \A d \in chosen : DependsOn[d] \subseteq Dataset
        BY <2>1, StoreAssumption
    <2> QED BY <2>1, <2>2 DEF Closure
<1>3. /\ post' \in [Run -> Post] /\ \A q \in Run \ {r} : post'[q] = post[q]
      /\ post'[r].pc = "sweep" /\ post'[r].seen = post[r].seen
      /\ post'[r].todo = Closure(chosen)
    BY <1>1, <1>2, PostWith DEF PostRun
<1>4. PostOK(r)'
    BY <1>1, <1>2, <1>3 DEF PostOK, PostRun, Posting, OnlyPost, storeVars, Exists, Opened
<1> QED BY <1>3, <1>4, OnlyPostMoves DEF PostRun, Posting, Opened

LEMMA PostSweepKeeps ==
    ASSUME CollectionInv, NEW r \in Run, PostSweep(r)
    PROVE  SoundStep
<1>1. TypeOK /\ PostOK(r) /\ OnlyPost /\ UNCHANGED task
    BY DEF CollectionInv, PostSweep, OnlyPost, storeVars
<1>2. \A t \in Inactive : Exists(t)'
    BY <1>1, InactiveExists DEF Exists
<1>3. /\ post' \in [Run -> Post] /\ \A q \in Run \ {r} : post'[q] = post[q]
      /\ post'[r].todo = post[r].todo /\ post'[r].seen \subseteq Inactive
      /\ \/ post[r].pc = "sweep" /\ post'[r].pc \in {"create", "expire"}
         \/ post[r].pc = "status" /\ post'[r].pc \in {"submit", "statusExpire"}
    <2>1. CASE \/ Posting(r, "sweep") /\ Then(r, "create")
               \/ Posting(r, "status") /\ Then(r, "submit")
        BY <1>1, <2>1, PostThen DEF Posting
    <2>2. CASE Posting(r, "sweep") /\ post' = [post EXCEPT ![r].pc = "expire", ![r].seen = Inactive]
        BY <1>1, <2>2, InactiveExists DEF Posting, TypeOK, Post
    <2>3. CASE Posting(r, "status")
               /\ post' = [post EXCEPT ![r].pc = "statusExpire", ![r].seen = Inactive]
        BY <1>1, <2>3, InactiveExists DEF Posting, TypeOK, Post
    <2> QED BY <2>1, <2>2, <2>3 DEF PostSweep
<1>4. PostOK(r)'
    BY <1>1, <1>2, <1>3 DEF PostOK, Opened
<1> QED BY <1>1, <1>3, <1>4, OnlyPostMoves DEF Opened

LEMMA PostExpireKeeps ==
    ASSUME CollectionInv, NEW r \in Run, PostExpire(r)
    PROVE  SoundStep
<1>1. TypeOK /\ PostOK(r) /\ post[r].seen \in SUBSET Task /\ \A t \in post[r].seen : Exists(t)
    BY TodoIsDatasets DEF CollectionInv, PostOK
<1>2. /\ post' \in [Run -> Post] /\ \A q \in Run \ {r} : post'[q] = post[q]
      /\ post'[r].todo = post[r].todo /\ post'[r].seen = {}
      /\ \/ post[r].pc = "expire" /\ post'[r].pc = "create"
         \/ post[r].pc = "statusExpire" /\ post'[r].pc = "submit"
    BY <1>1, PostThen DEF PostExpire, Posting
<1>3. \A q \in Run : Answered(q) => Answered(q)'
    BY <1>2 DEF Answered
<1>4. StoreFine
    BY <1>1, <1>3, ExpireMoves DEF PostExpire, StoreFine
<1>5. PostOK(r)'
    <2>1. \A d \in Dataset : (task[r][d] = "absent" => task'[r][d] = "absent")
                             /\ (task[r][d] # "absent" => task'[r][d] # "absent")
        BY <1>2, <1>4 DEF StoreFine, Kept, Settled
    <2> QED BY <1>1, <1>2, <2>1 DEF PostOK, Opened
<1> QED BY <1>2, <1>4, <1>5, PostMoves DEF PostExpire, Opened

(* The two writes of the run's status. *)
LEMMA PostSetsRun ==
    ASSUME CollectionInv, NEW r \in Run, post[r].pc # "answered",
           NEW status \in Active, SetRun(r, status),
           post' \in [Run -> Post], \A q \in Run \ {r} : post'[q] = post[q],
           UNCHANGED <<task, lease, snapshot, lapsed, executionVars, crashes>>,
           PostOK(r)'
    PROVE  SoundStep
<1>1. TypeOK
    BY DEF CollectionInv
<1>2. /\ run' \in [Run -> {"absent"} \union Active \union RunTerminal]
      /\ \A s \in Run : run'[s] = IF s = r THEN status ELSE run[s]
    BY <1>1 DEF SetRun, TypeOK, StoreTypeOK
<1>3. StoreTypeOK' /\ Kept
    BY <1>1, <1>2 DEF TypeOK, StoreTypeOK, Kept, Answered
<1>4. \A s \in Run, d \in Dataset : TaskOK(s, d)' /\ LeaseKept(s, d)
    BY DEF CollectionInv, TaskOK, LeaseKept, OwnsLive
<1>5. status \notin RunTerminal
    BY DEF Active, RunTerminal
<1>6. StoreFine
    BY <1>2, <1>3, <1>4, <1>5 DEF StoreFine
<1> QED BY <1>2, <1>5, <1>6, PostMoves

LEMMA CreateRunKeeps ==
    ASSUME CollectionInv, NEW r \in Run, CreateRun(r)
    PROVE  SoundStep
<1>1. TypeOK /\ PostOK(r)
    BY DEF CollectionInv
<1>2. /\ post' \in [Run -> Post] /\ \A q \in Run \ {r} : post'[q] = post[q]
      /\ post'[r].todo = post[r].todo /\ post'[r].seen = {}
      /\ post[r].pc = "create" /\ post'[r].pc = "next"
    BY <1>1, PostThen DEF CreateRun, Posting
<1>3. PostOK(r)'
    BY <1>1, <1>2, TodoIsDatasets DEF PostOK, Opened, CreateRun
<1> QED BY <1>2, <1>3, PostSetsRun DEF CreateRun, Active

LEMMA OpenPostedKeeps ==
    ASSUME CollectionInv, NEW r \in Run, OpenPostedRun(r)
    PROVE  SoundStep
<1>1. TypeOK /\ PostOK(r)
    BY DEF CollectionInv
<1>2. /\ post' \in [Run -> Post] /\ \A q \in Run \ {r} : post'[q] = post[q]
      /\ post'[r].todo = post[r].todo /\ post'[r].seen = {} /\ post[r].todo = {}
      /\ post[r].pc = "next" /\ post'[r].pc = "status"
    BY <1>1, PostThen DEF OpenPostedRun, Posting
<1>3. PostOK(r)'
    BY <1>1, <1>2, TodoIsDatasets DEF PostOK, Opened, OpenPostedRun
<1> QED BY <1>2, <1>3, PostSetsRun DEF OpenPostedRun, Active

(* A task is created, or yields to another one. *)
LEMMA PostSetsTask ==
    ASSUME CollectionInv, NEW r \in Run, NEW d \in Dataset, post[r].pc # "answered",
           NEW status \in {"queued", "busy", "failed-retained", "failed-missing"},
           SetTask(r, d, status), OnlyTaskAndPost,
           task[r][d] \notin Terminal, status = "failed-retained" => snapshot[d] # {},
           task[r][d] # "absent" \/ ~Settled(r),
           post' \in [Run -> Post], \A q \in Run \ {r} : post'[q] = post[q]
    PROVE  /\ StoreFine /\ task'[r][d] = status
           /\ \A c \in Dataset \ {d} : task'[r][c] = task[r][c]
<1>1. StoreTypeOK
    BY DEF CollectionInv, TypeOK
<1>2. /\ task'[r][d] = status
      /\ \A q \in Run, c \in Dataset : q # r \/ c # d => task'[q][c] = task[q][c]
    BY <1>1 DEF SetTask, StoreTypeOK
<1>3. status \in Active \union Terminal /\ status # "absent" /\ status \notin Successful
    BY DEF Active, Terminal, Failed, Successful
<1>4. StoreTypeOK'
    BY <1>1, <1>3 DEF SetTask, StoreTypeOK, OnlyTaskAndPost
<1>5. Kept
    <2>1. ASSUME NEW q \in Run, NEW c \in Dataset
          PROVE  /\ task[q][c] # "absent" => task'[q][c] # "absent"
                 /\ task[q][c] \in Terminal =>
                      /\ task'[q][c] \in Terminal
                      /\ task'[q][c] \in Successful => task[q][c] \in {"success", task'[q][c]}
                 /\ task[q][c] = "absent" /\ Settled(q) => task'[q][c] = "absent"
        <3>1. CASE q = r /\ c = d
            BY <1>2, <1>3, <3>1
        <3>2. CASE q # r \/ c # d
            BY <1>2, <3>2
        <3> QED BY <3>1, <3>2
    <2> QED BY <2>1 DEF Kept, Answered, OnlyTaskAndPost
<1>6. ASSUME NEW q \in Run, NEW c \in Dataset PROVE TaskOK(q, c)' /\ LeaseKept(q, c)
    <2>1. TaskOK(q, c)
        BY DEF CollectionInv
    <2>2. CASE q = r /\ c = d
        BY <1>2, <1>3, <2>1, <2>2 DEF TaskOK, LeaseKept, OwnsLive, OnlyTaskAndPost
    <2>3. CASE q # r \/ c # d
        BY <1>2, <2>1, <2>3 DEF TaskOK, LeaseKept, OwnsLive, OnlyTaskAndPost
    <2> QED BY <2>2, <2>3
<1> QED BY <1>2, <1>4, <1>5, <1>6 DEF StoreFine, OnlyTaskAndPost

LEMMA CreateTaskKeeps ==
    ASSUME CollectionInv, NEW r \in Run, CreateTask(r)
    PROVE  SoundStep
<1> DEFINE d == First(post[r].todo)
<1>1. /\ TypeOK /\ PostOK(r) /\ d \in Dataset /\ d \in post[r].todo /\ post[r].pc = "next"
      /\ post[r].todo \in SUBSET Dataset /\ post[r].seen \in SUBSET Task
      /\ \A t \in post[r].seen : Exists(t)
    BY TodoIsDatasets DEF CollectionInv, CreateTask, Posting, PostOK
<1>2. \A c \in post[r].todo : task[r][c] = "absent"
    BY <1>1 DEF PostOK
<1>3. "absent" \notin Terminal
    BY StatusesDiffer
<1> HIDE DEF d
<1>4. ASSUME NEW status \in {"busy", "failed-retained", "failed-missing"},
             status = "failed-retained" => snapshot[d] # {},
             SetTask(r, d, status), With(r, "next", post[r].todo \ {d})
      PROVE  SoundStep
    <2>1. /\ post' \in [Run -> Post] /\ \A q \in Run \ {r} : post'[q] = post[q]
          /\ post'[r].pc = "next" /\ post'[r].seen = post[r].seen
          /\ post'[r].todo = post[r].todo \ {d}
        BY <1>1, <1>4, PostWith
    <2>2. ~Settled(r)
        BY <1>1, <2>1 DEF Settled
    <2>3. /\ StoreFine /\ task'[r][d] = status
          /\ \A c \in Dataset \ {d} : task'[r][c] = task[r][c]
        BY <1>1, <1>2, <1>3, <1>4, <2>1, <2>2, PostSetsTask DEF CreateTask
    <2>4. \A t \in post[r].seen : Exists(t)'
        BY <1>1, <2>3 DEF StoreFine, Kept, Exists, Task
    <2>5. PostOK(r)'
        BY <1>1, <1>2, <2>1, <2>3, <2>4 DEF PostOK, Opened
    <2> QED BY <1>1, <2>1, <2>3, <2>5, PostMoves DEF CreateTask, OnlyTaskAndPost, Opened
<1>5. CASE SetTask(r, d, "queued") /\ Then(r, "acquire")
    <2>1. /\ post' \in [Run -> Post] /\ \A q \in Run \ {r} : post'[q] = post[q]
          /\ post'[r].pc = "acquire" /\ post'[r].seen = {} /\ post'[r].todo = post[r].todo
        BY <1>1, <1>5, PostThen
    <2>2. ~Settled(r)
        BY <1>1, <2>1 DEF Settled
    <2>3. /\ StoreFine /\ task'[r][d] = "queued"
          /\ \A c \in Dataset \ {d} : task'[r][c] = task[r][c]
        BY <1>1, <1>2, <1>3, <1>5, <2>1, <2>2, PostSetsTask DEF CreateTask
    <2>4. First(post'[r].todo) = d
        BY <2>1 DEF First, d
    <2>5. PostOK(r)'
        BY <1>1, <1>2, <2>1, <2>3, <2>4 DEF PostOK, Opened
    <2> QED BY <1>1, <2>1, <2>3, <2>5, PostMoves DEF CreateTask, OnlyTaskAndPost, Opened
<1>6. /\ FailedAs(d) \in {"failed-retained", "failed-missing"}
      /\ FailedAs(d) = "failed-retained" => snapshot[d] # {}
    BY FailedAsIsTrue DEF Failed
<1> QED BY <1>4, <1>5, <1>6 DEF CreateTask, Reserved, d

(* A task in hand: between its creation and the recording of its lease. *)
LEMMA InHand ==
    ASSUME CollectionInv, NEW r \in Run, post[r].pc \in {"acquire", "confirm", "yield"}
    PROVE  LET d == First(post[r].todo) IN
           /\ TypeOK /\ PostOK(r) /\ d \in Dataset /\ d \in post[r].todo
           /\ post[r].todo \in SUBSET Dataset /\ post[r].seen \in SUBSET Task
           /\ \A t \in post[r].seen : Exists(t)
           /\ task[r][d] # "absent"
           /\ \A c \in post[r].todo \ {d} : task[r][c] = "absent"
<1>1. TypeOK /\ PostOK(r)
    BY DEF CollectionInv
<1>2. post[r].todo # {}
    BY <1>1 DEF PostOK
<1> QED BY <1>1, <1>2, TodoIsDatasets DEF PostOK

LEMMA AcquireKeeps ==
    ASSUME CollectionInv, NEW r \in Run, AcquireTaskLease(r)
    PROVE  SoundStep
<1> DEFINE d == First(post[r].todo)
<1>1. /\ TypeOK /\ PostOK(r) /\ d \in Dataset /\ post[r].pc = "acquire"
      /\ task[r][d] # "absent" /\ post[r].todo # {}
      /\ \A c \in post[r].todo \ {d} : task[r][c] = "absent"
    BY InHand DEF AcquireTaskLease, Posting
<1>2. /\ post' \in [Run -> Post] /\ \A q \in Run \ {r} : post'[q] = post[q]
      /\ post'[r].todo = post[r].todo /\ post'[r].seen = {} /\ post'[r].pc = "confirm"
    BY <1>1, PostThen DEF AcquireTaskLease
<1>3. /\ lease' \in [Dataset -> [owner : Run \union {NoRun}, generation : Nat, live : BOOLEAN]]
      /\ \A c \in Dataset : c # d => lease'[c] = lease[c]
      /\ ~lease[d].live
    BY <1>1, LeaseTaken DEF AcquireTaskLease
<1>4. UNCHANGED <<run, task, snapshot, lapsed, executionVars, crashes>>
    BY DEF AcquireTaskLease
<1>5. First(post'[r].todo) = d
    BY <1>2 DEF First
<1> HIDE DEF d
<1>6. StoreTypeOK' /\ Kept
    BY <1>1, <1>2, <1>3, <1>4 DEF TypeOK, StoreTypeOK, Kept, Answered
<1>7. ASSUME NEW q \in Run, NEW c \in Dataset PROVE TaskOK(q, c)' /\ LeaseKept(q, c)
    <2>1. TaskOK(q, c)'
        BY <1>4 DEF CollectionInv, TaskOK
    <2>2. LeaseKept(q, c)
        BY <1>3 DEF LeaseKept, OwnsLive
    <2> QED BY <2>1, <2>2
<1>8. StoreFine
    BY <1>4, <1>6, <1>7 DEF StoreFine
<1>9. PostOK(r)'
    BY <1>1, <1>2, <1>4, <1>5 DEF PostOK, Opened
<1> QED BY <1>1, <1>2, <1>4, <1>8, <1>9, PostMoves DEF Opened

LEMMA LeaseRefusedKeeps ==
    ASSUME CollectionInv, NEW r \in Run, TaskLeaseRefused(r)
    PROVE  SoundStep
<1> DEFINE d == First(post[r].todo)
<1>1. /\ TypeOK /\ post[r].pc = "acquire" /\ task[r][d] # "absent" /\ post[r].todo # {}
      /\ \A c \in post[r].todo \ {d} : task[r][c] = "absent"
    BY InHand DEF TaskLeaseRefused, Posting
<1>2. /\ post' \in [Run -> Post] /\ \A q \in Run \ {r} : post'[q] = post[q]
      /\ post'[r].todo = post[r].todo /\ post'[r].seen = {} /\ post'[r].pc = "yield"
    BY <1>1, PostThen DEF TaskLeaseRefused
<1>3. First(post'[r].todo) = d
    BY <1>2 DEF First
<1>4. PostOK(r)'
    BY <1>1, <1>2, <1>3 DEF PostOK, Opened, TaskLeaseRefused, OnlyPost, storeVars
<1> QED BY <1>1, <1>2, <1>4, OnlyPostMoves DEF TaskLeaseRefused, Opened

(* A request that gives up, or goes on to its next dataset. *)
LEMMA LeavesTask ==
    ASSUME CollectionInv, NEW r \in Run, post[r].pc \in {"confirm", "yield"},
           NEW d \in Dataset, d = First(post[r].todo),
           OnlyTaskAndPost, StoreFine,
           \A c \in Dataset \ {d} : task'[r][c] = task[r][c],
           Reserved(r) \/ With(r, "failed", {})
    PROVE  SoundStep
<1>1. /\ TypeOK /\ d \in post[r].todo
      /\ post[r].todo \in SUBSET Dataset /\ post[r].seen \in SUBSET Task
      /\ \A t \in post[r].seen : Exists(t)
      /\ task[r][d] # "absent"
      /\ \A c \in post[r].todo \ {d} : task[r][c] = "absent"
    BY InHand
<1>2. \A t \in post[r].seen : Exists(t)'
    BY <1>1 DEF StoreFine, Kept, Exists, Task
<1>3. task'[r][d] # "absent"
    BY <1>1 DEF StoreFine, Kept
<1>4. CASE With(r, "failed", {})
    <2>1. /\ post' \in [Run -> Post] /\ \A q \in Run \ {r} : post'[q] = post[q]
          /\ post'[r].pc = "failed" /\ post'[r].seen = post[r].seen
        BY <1>1, <1>4, PostWith
    <2>2. PostOK(r)'
        BY <1>2, <2>1 DEF PostOK, Opened
    <2> QED BY <2>1, <2>2, PostMoves DEF OnlyTaskAndPost, Opened
<1>5. CASE Reserved(r)
    <2>1. /\ post' \in [Run -> Post] /\ \A q \in Run \ {r} : post'[q] = post[q]
          /\ post'[r].pc = "next" /\ post'[r].seen = post[r].seen
          /\ post'[r].todo = post[r].todo \ {d}
        BY <1>1, <1>5, PostWith DEF Reserved
    <2>2. PostOK(r)'
        BY <1>1, <1>2, <1>3, <2>1 DEF PostOK, Opened
    <2> QED BY <2>1, <2>2, PostMoves DEF OnlyTaskAndPost, Opened
<1> QED BY <1>4, <1>5

LEMMA ConfirmKeeps ==
    ASSUME CollectionInv, NEW r \in Run, ConfirmTask(r)
    PROVE  SoundStep
<1> DEFINE d == First(post[r].todo)
<1>1. d \in Dataset /\ post[r].pc = "confirm" /\ TypeOK
    BY InHand DEF ConfirmTask, Posting
<1>2. UNCHANGED storeVars /\ OnlyTaskAndPost
    BY DEF ConfirmTask, OnlyTaskAndPost, storeVars
<1>3. Reserved(r) \/ With(r, "failed", {})
    BY DEF ConfirmTask
<1>4. \A q \in Run \ {r} : post'[q] = post[q]
    BY <1>1, <1>3 DEF Reserved, With, TypeOK
<1>5. \A q \in Run : Answered(q) => Answered(q)'
    BY <1>1, <1>4 DEF Answered
<1>6. StoreFine
    BY <1>2, <1>5, TablesUntouched
<1> QED BY <1>1, <1>2, <1>3, <1>6, LeavesTask DEF storeVars

LEMMA YieldKeeps ==
    ASSUME CollectionInv, NEW r \in Run, YieldTask(r)
    PROVE  SoundStep
<1> DEFINE d == First(post[r].todo)
<1>1. d \in Dataset /\ post[r].pc = "yield" /\ TypeOK
      /\ post[r].todo \in SUBSET Dataset
    BY InHand DEF YieldTask, Posting
<1>2. OnlyTaskAndPost
    BY DEF YieldTask
<1>3. CASE task[r][d] = "queued" /\ SetTask(r, d, "busy") /\ Reserved(r)
    <2>1. /\ post' \in [Run -> Post] /\ \A q \in Run \ {r} : post'[q] = post[q]
        BY <1>1, <1>3, PostWith DEF Reserved
    <2>2. /\ StoreFine
          /\ \A c \in Dataset \ {d} : task'[r][c] = task[r][c]
        BY <1>1, <1>2, <1>3, <2>1, PostSetsTask DEF Terminal, Successful, Failed
    <2> QED BY <1>1, <1>2, <1>3, <2>2, LeavesTask
<1>4. CASE UNCHANGED task /\ With(r, "failed", {})
    <2>1. \A q \in Run \ {r} : post'[q] = post[q]
        BY <1>1, <1>4 DEF With, TypeOK
    <2>2. \A q \in Run : Answered(q) => Answered(q)'
        BY <1>1, <2>1 DEF Answered
    <2>3. StoreFine
        BY <1>2, <1>4, <2>2, TablesUntouched DEF OnlyTaskAndPost, storeVars
    <2> QED BY <1>1, <1>2, <1>4, <2>3, LeavesTask
<1> QED BY <1>3, <1>4 DEF YieldTask

LEMMA SubmitRefusedKeeps ==
    ASSUME CollectionInv, NEW r \in Run, SubmitRefused(r)
    PROVE  SoundStep
<1>1. TypeOK /\ OnlyPost
    BY DEF CollectionInv, SubmitRefused
<1>2. /\ post' \in [Run -> Post] /\ \A q \in Run \ {r} : post'[q] = post[q]
      /\ post'[r].pc = "refused" /\ post'[r].seen = {} /\ post[r].pc = "submit"
    BY <1>1, PostThen DEF SubmitRefused, Posting
<1>3. PostOK(r)'
    BY <1>2 DEF PostOK, Opened
<1> QED BY <1>1, <1>2, <1>3, OnlyPostMoves DEF Opened

(* The run enters the queue when its POST answers: it is in nobody's hands. *)
LEMMA SubmitKeeps ==
    ASSUME CollectionInv, NEW r \in Run, SubmitRun(r)
    PROVE  SoundStep
<1>1. TypeOK /\ ScheduledOnce /\ PostOK(r) /\ queue \in Seq(Run)
    BY DEF CollectionInv, TypeOK, ExecutionTypeOK
<1>2. /\ post' \in [Run -> Post] /\ \A q \in Run \ {r} : post'[q] = post[q]
      /\ post'[r].pc = "answered" /\ post'[r].seen = {} /\ post[r].pc = "submit"
    BY <1>1, PostThen DEF SubmitRun, Posting
<1>3. queue' = Append(queue, r) /\ UNCHANGED <<storeVars, job, reader, crashes>>
    BY DEF SubmitRun, Enqueue
<1>4. /\ Len(queue) \in Nat /\ queue' \in Seq(Run) /\ Len(queue') = Len(queue) + 1
      /\ queue'[Len(queue) + 1] = r
      /\ \A i \in 1 .. Len(queue) : queue'[i] = queue[i] /\ queue[i] \in Run
    BY <1>1, <1>3
<1>5. \A q \in Run : Answered(q) => Answered(q)'
    BY <1>2 DEF Answered
<1>6. StoreFine
    BY <1>3, <1>5, TablesUntouched
<1>7. Kept /\ TypeOK'
    BY <1>1, <1>2, <1>3, <1>4, <1>6 DEF TypeOK, ExecutionTypeOK, StoreFine
<1>8. ScheduledOnce'
    <2>1. \A e \in Executor : job[e].run # r
        <3> SUFFICES ASSUME NEW e \in Executor, job[e].run = r PROVE FALSE
            OBVIOUS
        <3>1. job[e].pc # "idle" => Answered(r)
            BY DEF CollectionInv, JobOK, PlaceOK
        <3>2. job[e].pc = "idle" => r = NoRun
            BY DEF CollectionInv, JobOK, PlaceOK, Idle
        <3> QED BY <1>2, <3>1, <3>2, StoreAssumption DEF Answered
    <2>2. \A i \in 1 .. Len(queue) : queue[i] # r
        BY <1>1, <1>2 DEF ScheduledOnce, Answered
    <2>3. \A e, f \in Executor : job'[e].run = job'[f].run /\ job'[e].run # NoRun => e = f
        BY <1>1, <1>3 DEF ScheduledOnce
    <2>4. ASSUME NEW i \in 1 .. Len(queue')
          PROVE  /\ post'[queue'[i]].pc = "answered"
                 /\ \A e \in Executor : job'[e].run # queue'[i]
                 /\ \A j \in 1 .. Len(queue') : queue'[i] = queue'[j] => i = j
        <3>1. i \in 1 .. Len(queue) \/ i = Len(queue) + 1
            BY <1>4
        <3>2. \A j \in 1 .. Len(queue') : j \in 1 .. Len(queue) \/ j = Len(queue) + 1
            BY <1>4
        <3>3. CASE i \in 1 .. Len(queue)
            <4>1. /\ Answered(queue[i]) /\ \A e \in Executor : job[e].run # queue[i]
                  /\ \A j \in 1 .. Len(queue) : queue[i] = queue[j] => i = j
                BY <1>1, <3>3 DEF ScheduledOnce
            <4>2. post'[queue[i]].pc = "answered" /\ queue'[i] = queue[i] /\ queue[i] # r
                BY <1>4, <1>5, <2>2, <3>3, <4>1 DEF Answered
            <4> QED BY <1>3, <1>4, <3>2, <4>1, <4>2 DEF Answered
        <3>4. CASE i = Len(queue) + 1
            BY <1>2, <1>3, <1>4, <2>1, <2>2, <3>2, <3>4 DEF Answered
        <3> QED BY <3>1, <3>3, <3>4
    <2> QED BY <2>3, <2>4 DEF ScheduledOnce, Answered
<1>9. \A q \in Run : PostOK(q)'
    <2>1. PostOK(r)'
        BY <1>1, <1>2, <1>3 DEF PostOK, Opened, storeVars
    <2> QED BY <1>1, <1>2, <1>7, <2>1, OtherPostStays DEF CollectionInv
<1>10. \A c \in Reader : ReaderOK(c)'
    BY <1>1, <1>3, <1>7, OtherReaderStays DEF CollectionInv
<1>11. \A q \in Run : post'[q].pc \in Opened => post[q].pc \in Opened
    BY <1>2 DEF Opened
<1> QED BY <1>3, <1>6, <1>7, <1>8, <1>9, <1>10, <1>11, RequestKeeps

LEMMA PostStepKeeps ==
    ASSUME CollectionInv, NEW r \in Run, PostStep(r)
    PROVE  SoundStep
    BY PostSweepKeeps, PostExpireKeeps, CreateRunKeeps, CreateTaskKeeps, AcquireKeeps,
       LeaseRefusedKeeps, ConfirmKeeps, YieldKeeps, OpenPostedKeeps, SubmitKeeps,
       SubmitRefusedKeeps DEF PostStep

-----------------------------------------------------------------------------
(* The theorems *)

LEMMA InitHolds == Init => CollectionInv
<1> SUFFICES ASSUME Init PROVE CollectionInv
    OBVIOUS
<1>1. TypeOK
    BY ManualAssumption, EmptySeq
       DEF Init, StoreInit, ExecutionInit, TypeOK, StoreTypeOK, ExecutionTypeOK, Post, Job,
           Request, Idle, Resting, NoLease, Task
<1>2. \A r \in Run, d \in Dataset : TaskOK(r, d)
    BY StoreAssumption DEF Init, StoreInit, TaskOK, Successful
<1>3. \A r \in Run : RunOK(r) /\ PostOK(r)
    BY DEF Init, StoreInit, RunOK, PostOK, Opened
<1>4. ScheduledOnce /\ \A e \in Executor : JobOK(e)
    BY DEF Init, ExecutionInit, ScheduledOnce, JobOK, PlaceOK, PurposeOK, GroundsOK, Idle,
           AtATask, Providing
<1>5. \A c \in Reader : ReaderOK(c)
    BY DEF Init, ExecutionInit, ReaderOK, Resting
<1> QED BY <1>1, <1>2, <1>3, <1>4, <1>5 DEF CollectionInv

LEMMA StepKeeps == CollectionInv /\ [Next]_vars => SoundStep
<1> SUFFICES ASSUME CollectionInv, [Next]_vars PROVE SoundStep
    OBVIOUS
<1>1. CASE Next
    <2>1. ASSUME NEW d \in Dataset, Lapse(d), UNCHANGED <<executionVars, manualVars>>
          PROVE  SoundStep
        BY <2>1, LapseKeeps
    <2>2. ASSUME NEW c \in Reader, UNCHANGED manualVars,
                 (\E r \in Run : PollRun(c, r)) \/ CollectionStatus(c) \/ ReaderStep(c)
          PROVE  SoundStep
        BY <2>2, PollKeeps, ReaderStepKeeps
    <2> QED BY <1>1, <2>1, <2>2, PostRunKeeps, PostStepKeeps, ExecutorStepKeeps, CrashKeeps
            DEF Next
<1>2. CASE UNCHANGED vars
    <2>1. UNCHANGED <<storeVars, executionVars, manualVars>>
        BY <1>2 DEF vars
    <2>2. UNCHANGED <<queue, job, reader, post, crashes>>
        BY <2>1 DEF executionVars, manualVars
    <2>3. StoreFine /\ TypeOK /\ Kept
        BY <2>1, <2>2, TablesUntouched DEF CollectionInv, Answered, StoreFine
    <2>4. TypeOK' /\ ScheduledOnce'
        BY <2>2, <2>3 DEF CollectionInv, TypeOK, StoreFine, ExecutionTypeOK, ScheduledOnce, Answered
    <2>5. (\A r \in Run : PostOK(r)') /\ (\A c \in Reader : ReaderOK(c)')
        BY <2>2, <2>3, OtherPostStays, OtherReaderStays DEF CollectionInv
    <2> QED BY <2>2, <2>3, <2>4, <2>5, RequestKeeps
<1> QED BY <1>1, <1>2

(* Tables, jobs, polls and requests keep their types: a thread's dataset   *)
(* is one of those it listed, and a lease is taken with a number nobody    *)
(* else carries.                                                           *)
THEOREM TypeIsCorrect == Spec => []TypeOK
<1>1. CollectionInv => TypeOK
    BY DEF CollectionInv
<1>2. SoundStep => CollectionInv'
    BY DEF SoundStep
<1> QED BY <1>1, <1>2, InitHolds, StepKeeps, PTL DEF Spec

(* What a thread, a poll or a request has read and has not used yet is     *)
(* still true of the tables when it is used.                               *)
THEOREM ReadingsStayTrue == Spec => []CollectionInv
<1>1. SoundStep => CollectionInv'
    BY DEF SoundStep
<1> QED BY <1>1, InitHolds, StepKeeps, PTL DEF Spec

(* A task's status tells the truth about its snapshot, through claims lost, *)
(* leases lost, failed rebuilds, sweeps and crashes.                        *)
THEOREM StatusIsTrue == Spec => []StatusTellsTheTruth
<1>1. CollectionInv => StatusTellsTheTruth
    BY DEF CollectionInv, TaskOK, StatusTellsTheTruth, Terminal
<1> QED BY <1>1, ReadingsStayTrue, PTL

(* Two threads call the provider for one dataset only after a lease has    *)
(* run out under one of them.                                              *)
THEOREM ProviderWorkIsNotDuplicated == Spec => []NoDuplicateProviderWork
<1>1. CollectionInv => NoDuplicateProviderWork
    <2> SUFFICES ASSUME CollectionInv, NEW e \in Executor, NEW f \in Executor, e # f,
                        job[e].pc \in Providing, job[f].pc \in Providing, D(e) = D(f)
                 PROVE  {<<R(e), D(e)>>, <<R(f), D(f)>>} \intersect lapsed # {}
        BY DEF NoDuplicateProviderWork, Providing
    <2>1. R(e) \in Run /\ R(f) \in Run
        BY SamePlaceInJob DEF Providing, AtATask
    <2>2. R(e) # R(f)
        BY <2>1, StoreAssumption DEF CollectionInv, ScheduledOnce, R
    <2>3. /\ OwnsLive(R(e), D(e)) \/ <<R(e), D(e)>> \in lapsed
          /\ OwnsLive(R(f), D(f)) \/ <<R(f), D(f)>> \in lapsed
        BY DEF CollectionInv, JobOK, GroundsOK
    <2> QED BY <2>2, <2>3 DEF OwnsLive
<1> QED BY <1>1, ReadingsStayTrue, PTL

(* Nothing is collected whose prerequisites are not stored.                *)
THEOREM PrerequisitesAreStored == Spec => []CollectedOnPrerequisites
<1>1. CollectionInv => CollectedOnPrerequisites
    BY DEF CollectionInv, CollectedOnPrerequisites, JobOK, GroundsOK, Providing
<1> QED BY <1>1, ReadingsStayTrue, PTL

(* A run that is told to be over is over, and failed only if nothing       *)
(* succeeded, whichever of the threads, the polls and the sweeps said so.  *)
THEOREM SettledRunsAreHonest == Spec => []SettledRunIsHonest
<1>1. CollectionInv => SettledRunIsHonest
    <2> SUFFICES ASSUME CollectionInv, NEW r \in Run, post[r].pc = "answered",
                        run[r] \in RunTerminal
                 PROVE  /\ AllTerminal(r)
                        /\ run[r] = "failed" => Statuses(r) \intersect Successful = {}
        BY DEF SettledRunIsHonest
    <2>1. Honest(task[r], run[r])
        BY DEF CollectionInv, RunOK, Opened
    <2> QED BY <2>1 DEF Honest, AllTerminal, Statuses
<1> QED BY <1>1, ReadingsStayTrue, PTL

(* A task that has ended stays ended and never turns better, whoever still *)
(* holds an old reading of it.                                             *)
THEOREM DecidedTasksStay == Spec => DecidedTasksStayDecided
<1>1. CollectionInv /\ [Next]_vars =>
        \A r \in Run, d \in Dataset :
            task[r][d] \in Terminal =>
                /\ task'[r][d] \in Terminal
                /\ task'[r][d] \in Successful => task[r][d] \in {"success", task'[r][d]}
    BY StepKeeps DEF SoundStep, Kept
<1> QED BY <1>1, ReadingsStayTrue, PTL DEF Spec, DecidedTasksStayDecided
=============================================================================
