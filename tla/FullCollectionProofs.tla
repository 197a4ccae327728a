------------------------- MODULE FullCollectionProofs -------------------------
(***************************************************************************)
(* What POST /collection-runs/full promises, for any keys, datasets,       *)
(* requests, executor threads, lapses of leases and crashes.               *)
(*                                                                         *)
(* Three leases of different kinds keep a run from being executed twice:   *)
(* the submission lease keeps requests apart (Attended), the mark that the *)
(* submission leaves keeps later requests away (PlacedByOne), and when     *)
(* that has run out the leases of the tasks do (CalmOK). Each part of the  *)
(* invariant holds as long as the leases it rests on did not run out.      *)
(***************************************************************************)
EXTENDS FullCollection, FiniteSetTheorems, SequenceTheorems,
        WellFoundedInduction, TLAPS

(* Where a run waits for a thread, or is executed. *)
Placed(r) ==
    \/ \E i \in DOMAIN queue : queue[i] = r
    \/ \E e \in Executor : job[e].run = r

PlacedOnce(r) ==
    /\ \A e, f \in Executor : job[e].run = r /\ job[f].run = r => e = f
    /\ \A i, j \in DOMAIN queue : queue[i] = r /\ queue[j] = r => i = j
    /\ \A i \in DOMAIN queue, e \in Executor : ~(queue[i] = r /\ job[e].run = r)

(* A request holds the submission from its acquisition to its mark: first  *)
(* it prepares the tasks, then it launches the run or goes back.           *)
Preparing == {"prepare", "task", "reserve", "yield", "observed"}
Retreating == {"launch", "rejected", "unlist", "unlease"}
Unlaunched == Preparing \union Retreating
Attending == Unlaunched \union {"mark"}

InGetRun == {"claimed", "checked", "observed"}

AtATask == {"check", "reserved", "block", "claim", "token", "renew", "lost", "lose",
            "collect", "admit", "commit", "reread", "settle", "existing", "warn",
            "fail", "rebuild", "fenced", "refuse", "integrity", "parent", "verdict",
            "release", "abandon"}
BeforeTheTasks == {"sweep", "expire", "begin", "open", "list"}
AfterTheTasks == {"finish", "close"}

-----------------------------------------------------------------------------
(* Shapes: what makes every operation well defined *)

KeyOK(r) ==
    /\ binding[r].live => binding[r].state \in {"submitting", "submitted"}
    /\ IF binding[r].state = "none"
       THEN ~Placed(r) /\ overdue[r] = "none"
       ELSE run[r] # "absent" /\ \A d \in Dataset : task[r][d] # "absent"

(* What a thread is about to write can be written. *)
TargetOK(e) ==
    /\ job[e].pc \in {"admit", "commit", "settle", "reread"} => job[e].target \in Successful
    /\ job[e].pc \in {"lose", "warn", "fail"} => job[e].target \in Failed
    /\ job[e].pc = "refuse" => job[e].target \in Terminal
    /\ job[e].pc = "rebuild" => job[e].expect \in Terminal
    /\ job[e].pc \in {"verdict", "close"} => job[e].target \in RunTerminal

JobOK(e) ==
    /\ IF job[e].pc = "idle" THEN job[e] = Idle ELSE job[e].run # NoRun
    /\ job[e].pc \in AtATask => job[e].todo # {}
    /\ TargetOK(e)

ReaderOK(c) ==
    /\ reader[c].pc # "idle" => caller[c].pc \in InGetRun /\ reader[c].run = Subject(c)
    /\ reader[c].pc = "settle" => reader[c].target \in RunTerminal

CallerOK(c) ==
    /\ caller[c].pc # "idle" => Subject(c) # NoRun /\ binding[Subject(c)].state # "none"
    /\ caller[c].pc \in {"reserve", "yield", "unlease"} => caller[c].todo # {}

(* A row that is not live has run out: releasing removes it. *)
RowOK(d) == lease[d].owner # NoRun /\ ~lease[d].live => <<lease[d].owner, d>> \in lapsed

-----------------------------------------------------------------------------
(* While no submission lease has run out under a request: the request that *)
(* attends to a run is its owner, and one that goes back has on its list   *)
(* what it still has to give back.                                         *)

Attends(c, r) == Subject(c) = r /\ caller[c].pc \in Attending

AttendedBy(c, r) ==
    /\ binding[r].state = "submitting" /\ binding[r].owner = c /\ binding[r].live
    /\ caller[c].pc \in {"unlist", "unlease"} =>
          \A d \in Dataset : task[r][d] = "queued" /\ OwnsLive(r, d) => d \in caller[c].todo
    /\ caller[c].pc = "unlease" /\ lease[Current(c)].owner = r =>
          lease[Current(c)].generation = caller[c].token

Attended(r) == overdue[r] # "submitting" => \A c \in Reader : Attends(c, r) => AttendedBy(c, r)

(* While no submission lease has run out at all: the run is in the         *)
(* executor once, and only when it has been launched.                      *)
Unsubmitted == {"none", "reserved", "submission-failed"}

PlacedByOne(r) ==
    overdue[r] = "none" =>
        /\ PlacedOnce(r)
        /\ binding[r].state \in {"submitting", "submitted"} => binding[r].live
        /\ binding[r].state \in Unsubmitted => ~Placed(r)
        /\ \A c \in Reader : Subject(c) = r /\ caller[c].pc \in Unlaunched => ~Placed(r)

-----------------------------------------------------------------------------
(* While no request was overtaken and no task of the run has lost its      *)
(* lease: the tasks keep everybody else away.                              *)
Calm(r) == overdue[r] # "submitting" /\ \A d \in Dataset : <<r, d>> \notin lapsed

Reserved(r, d) == task[r][d] = "queued" /\ OwnsLive(r, d)
Ended(r, d) == task[r][d] \in Terminal
Ready(r) == \A d \in Dataset : Ended(r, d) \/ Reserved(r, d)

(* The task at hand, as thread e expects to find it. *)
AtHand(e) ==
    LET r == R(e)  d == D(e) IN
    /\ job[e].pc \notin {"lost", "lose", "fenced", "refuse", "abandon"}
    /\ job[e].pc \in {"check", "reserved", "block", "claim"} => Reserved(r, d)
    /\ job[e].pc = "token" => task[r][d] = "collecting" /\ OwnsLive(r, d)
    /\ job[e].pc \in {"renew", "collect", "admit", "commit", "settle", "existing", "warn",
                      "fail", "integrity"} =>
          task[r][d] = "collecting" /\ Fenced(r, d, job[e].token)
    /\ job[e].pc = "reread" => task[r][d] = job[e].target
    /\ job[e].pc = "rebuild" => task[r][d] = job[e].expect /\ Ended(r, d)
    /\ job[e].pc \in {"parent", "verdict", "release"} => Ended(r, d)

ExecutionOK(e) ==
    LET r == R(e) IN
    /\ job[e].pc \in BeforeTheTasks => Ready(r)
    /\ job[e].pc \in AtATask =>
          /\ AtHand(e)
          /\ \A d \in Dataset \ {D(e)} : IF d \in job[e].todo THEN Reserved(r, d) ELSE Ended(r, d)
    /\ job[e].pc \in AfterTheTasks => \A d \in Dataset : Ended(r, d)

(* What a request that attends to r has seen to. *)
PreparedBy(c, r) ==
    /\ caller[c].pc \in Unlaunched => \A d \in Dataset : task[r][d] # "collecting"
    /\ caller[c].pc \in {"task", "reserve", "yield"} =>
          \A d \in Dataset \ caller[c].todo : Ended(r, d) \/ Reserved(r, d)
    /\ caller[c].pc \in {"observed", "launch"} => Ready(r)
    /\ caller[c].pc \in Preparing /\ Placed(r) => \A d \in Dataset : Ended(r, d)
    /\ caller[c].pc \in Retreating => ~Placed(r)

CalmOK(r) ==
    /\ PlacedOnce(r)
    /\ binding[r].state \in Unsubmitted =>
          ~Placed(r) /\ \A d \in Dataset : task[r][d] # "collecting"
    /\ \A d \in Dataset : task[r][d] = "collecting" => OwnsLive(r, d)
    /\ \A e \in Executor, d \in Dataset : <<r, d>> \notin job[e].seen
    /\ \A c \in Reader, d \in Dataset : <<r, d>> \notin reader[c].seen
    /\ \A i \in DOMAIN queue : queue[i] = r => Ready(r)
    /\ \A e \in Executor : job[e].run = r => ExecutionOK(e)
    /\ \A c \in Reader : Attends(c, r) => PreparedBy(c, r)

ShapesOK ==
    /\ TypeOK
    /\ \A r \in Run : KeyOK(r)
    /\ \A e \in Executor : JobOK(e)
    /\ \A c \in Reader : ReaderOK(c) /\ CallerOK(c)
    /\ \A d \in Dataset : RowOK(d)

SubmissionInv ==
    /\ ShapesOK
    /\ \A r \in Run : Attended(r)
    /\ \A r \in Run : PlacedByOne(r)
    /\ \A r \in Run : Calm(r) => CalmOK(r)

-----------------------------------------------------------------------------
(* What a step does for a run that it makes no more of: nothing is queued, *)
(* leased, attended to or placed that was not before.                      *)
Frame(r) ==
    /\ \A d \in Dataset :
          /\ task'[r][d] = "queued" => task[r][d] = "queued"
          /\ lease'[d].owner = r =>
                /\ lease[d].owner = r /\ lease'[d].generation = lease[d].generation
                /\ lease'[d].live => lease[d].live
    /\ binding'[r] = binding[r] /\ overdue'[r] = overdue[r]
    /\ \A c \in Reader : Attends(c, r)' => caller'[c] = caller[c]
    /\ PlacedOnce(r) => PlacedOnce(r)'
    /\ Placed(r)' => Placed(r)

(* ... and for one that it does not touch at all, unless a lease runs out. *)
Quiet(r) ==
    /\ Frame(r)
    /\ lapsed \subseteq lapsed'
    /\ Calm(r)' /\ Calm(r) /\ CalmOK(r) =>
          /\ task'[r] = task[r]
          /\ \A d \in Dataset : OwnsLive(r, d) => lease'[d] = lease[d]
          /\ \A e \in Executor : job'[e].run = r => job'[e] = job[e]
          /\ \A e \in Executor, d \in Dataset : <<r, d>> \notin job'[e].seen
          /\ \A c \in Reader, d \in Dataset : <<r, d>> \notin reader'[c].seen
          /\ \A i \in DOMAIN queue' : queue'[i] = r => \E j \in DOMAIN queue : queue[j] = r

(* No row of a table disappears. *)
Grows ==
    /\ \A r \in Run : run[r] # "absent" => run'[r] # "absent"
    /\ \A r \in Run, d \in Dataset : task[r][d] # "absent" => task'[r][d] # "absent"

(* What the step of a thread does to the tables: nothing to other runs,    *)
(* no task is queued or reopened, no lease is taken.                       *)
StoreStep(e) ==
    /\ StoreTypeOK' /\ Grows
    /\ \A r \in Run : r # R(e) => task'[r] = task[r]
    /\ \A d \in Dataset :
          /\ task'[R(e)][d] = "queued" => task[R(e)][d] = "queued"
          /\ Ended(R(e), d) => task'[R(e)][d] \in Terminal
          /\ lease'[d] = lease[d] \/ (lease[d].owner = R(e) /\ lease'[d] = NoLease)
    /\ UNCHANGED <<lapsed, queue, reader, fullVars>>

(* ... and to its job. *)
JobStep(e) ==
    /\ job' \in [Executor -> Job]
    /\ \A f \in Executor \ {e} : job'[f] = job[f]
    /\ job'[e].run \in {job[e].run, NoRun}
    /\ job'[e].seen \subseteq job[e].seen \union Inactive
    /\ JobOK(e)'
    /\ Calm(R(e)) /\ CalmOK(R(e)) =>
          IF job'[e].run = R(e) THEN ExecutionOK(e)' ELSE UNCHANGED <<task, lease>>

-----------------------------------------------------------------------------
(* Facts about the operators of the store *)

(* There is a first dataset in every selection of datasets. *)
LEMMA LeastOfRanks ==
    ASSUME NEW S, S # {}, NEW rank \in [S -> Nat]
    PROVE  \E i \in S : \A j \in S : rank[i] <= rank[j]
<1> DEFINE Less == {ss \in Nat \X Nat : ss[1] < ss[2]}
           Ranks == {rank[i] : i \in S}
<1>1. IsWellFoundedOn(Less, Nat)
    BY NatLessThanWellFounded DEF OpToRel
<1>2. \A m, n \in Nat : m < n => <<m, n>> \in Less
    OBVIOUS
<1>3. Ranks \subseteq Nat /\ Ranks # {}
    OBVIOUS
<1> HIDE DEF Less, Ranks
<1>4. PICK x \in Ranks : \A y \in Ranks : ~ (<<y, x>> \in Less)
    BY <1>1, <1>3, WFMin
<1>5. PICK i \in S : rank[i] = x
    BY <1>4 DEF Ranks
<1>6. ASSUME NEW j \in S PROVE rank[i] <= rank[j]
    <2>1. rank[j] \in Ranks /\ rank[j] \in Nat /\ x \in Nat
        BY <1>3 DEF Ranks
    <2>2. ~ (rank[j] < x)
        BY <1>2, <1>4, <2>1
    <2> QED BY <1>5, <2>1, <2>2
<1> QED BY <1>6

LEMMA FirstIsIn ==
    ASSUME NEW S \in SUBSET Dataset, S # {}
    PROVE  First(S) \in S /\ First(S) \in Dataset
<1> DEFINE rank == [d \in S |-> Rank[d]]
<1>1. rank \in [S -> Nat]
    BY StoreAssumption
<1>2. PICK d \in S : \A c \in S : rank[d] <= rank[c]
    BY <1>1, LeastOfRanks
<1>3. \E x \in S : \A c \in S : Rank[x] <= Rank[c]
    BY <1>2
<1> QED BY <1>3 DEF First

(* acquire_lease finds a generation that is neither in the row nor in use. *)
LEMMA FreshExists ==
    ASSUME NEW taken, IsFiniteSet(taken)
    PROVE  \E n \in 1 .. Cardinality(taken) + 1 : n \notin taken
<1>1. SUFFICES ASSUME 1 .. Cardinality(taken) + 1 \subseteq taken PROVE FALSE
    OBVIOUS
<1>2. Cardinality(taken) \in Nat
    BY FS_CardinalityType
<1>3. Cardinality(1 .. Cardinality(taken) + 1) = Cardinality(taken) + 1
    BY <1>2, FS_Interval
<1>4. Cardinality(1 .. Cardinality(taken) + 1) <= Cardinality(taken)
    BY <1>1, FS_Subset
<1> QED BY <1>2, <1>3, <1>4

LEMMA ReservationsAreFinite == IsFiniteSet(Reservations)
<1> DEFINE token == [e \in Executor |-> job[e].token]
           Leaving == {b \in Reader : Calling(b, "unlease")}
           held == [c \in Leaving |-> caller[c].token]
           Held == {caller[c].token : c \in Leaving}
<1>1. token \in Surjection(Executor, TokensInHand)
    BY DEF Surjection, TokensInHand
<1>2. IsFiniteSet(TokensInHand)
    BY <1>1, FS_Surjection, ExecutionAssumption
<1>3. IsFiniteSet(Leaving)
    BY FS_Subset, FullAssumption
<1> HIDE DEF Leaving
<1>4. held \in Surjection(Leaving, Held)
    BY DEF Surjection
<1>5. IsFiniteSet(Held)
    BY <1>3, <1>4, FS_Surjection
<1>6. Reservations = TokensInHand \union Held
    BY DEF Reservations, Leaving
<1> QED BY <1>2, <1>5, <1>6, FS_Union

LEMMA LeaseTaken ==
    ASSUME TypeOK, NEW r \in Run \union {NoRun}, NEW d \in Dataset, TakeLease(r, d, Reservations)
    PROVE  /\ lease' \in [Dataset -> [owner : Run \union {NoRun}, generation : Nat,
                                      live : BOOLEAN]]
           /\ lease'[d].owner = r /\ lease'[d].live
           /\ \A c \in Dataset : c # d => lease'[c] = lease[c]
<1> DEFINE taken == Reservations \union {lease[d].generation}
           fresh == CHOOSE n \in 1 .. Cardinality(taken) + 1 : n \notin taken
<1>1. IsFiniteSet(taken)
    BY ReservationsAreFinite, FS_AddElement
<1>2. Cardinality(taken) \in Nat
    BY <1>1, FS_CardinalityType
<1> HIDE DEF taken
<1>3. fresh \in 1 .. Cardinality(taken) + 1
    BY <1>1, FreshExists
<1>4. fresh \in Nat
    BY <1>2, <1>3
<1> HIDE DEF fresh
<1>5. lease' = [lease EXCEPT ![d] = [owner |-> r, generation |-> fresh, live |-> TRUE]]
    BY DEF TakeLease, taken, fresh
<1> QED BY <1>4, <1>5 DEF TypeOK, StoreTypeOK

LEMMA VerdictType == ASSUME NEW statuses PROVE Verdict(statuses) \in RunTerminal
    BY DEF Verdict, RunTerminal

LEMMA FailedAsType == ASSUME NEW d PROVE FailedAs(d) \in Failed /\ FailedAs(d) \in Terminal
    BY DEF FailedAs, Failed, Terminal

LEMMA StatusesDiffer ==
    /\ "absent" \notin Active \union Terminal
    /\ Active = {"queued", "collecting"} /\ Active \intersect Terminal = {}
    /\ Successful \subseteq Terminal /\ Failed \subseteq Terminal
    BY DEF Active, Terminal, Successful, Failed

(* Under the leases of its tasks no sweep finds a task of the run. *)
LEMMA CalmIsNotInactive ==
    ASSUME NEW r \in Run, CalmOK(r), NEW d \in Dataset
    PROVE  <<r, d>> \notin Inactive
    BY FullAssumption DEF CalmOK, Inactive, Active

-----------------------------------------------------------------------------
(* Runs a step is not about *)

LEMMA FrameKeeps ==
    ASSUME ShapesOK, NEW r \in Run, Frame(r), Attended(r), PlacedByOne(r)
    PROVE  Attended(r)' /\ PlacedByOne(r)'
<1>1. ASSUME overdue'[r] # "submitting", NEW c \in Reader, Attends(c, r)'
      PROVE  AttendedBy(c, r)'
    <2>1. caller'[c] = caller[c] /\ Attends(c, r)
        BY <1>1 DEF Frame, Attends, Subject
    <2>2. AttendedBy(c, r)
        BY <1>1, <2>1 DEF Frame, Attended
    <2>3. First(caller'[c].todo) = First(caller[c].todo)
        BY <2>1 DEF First
    <2>4. /\ binding'[r].state = "submitting" /\ binding'[r].owner = c /\ binding'[r].live
          /\ caller'[c].pc \in {"unlist", "unlease"} =>
                \A d \in Dataset : task'[r][d] = "queued" /\ lease'[d].owner = r /\ lease'[d].live
                    => d \in caller'[c].todo
        BY <2>1, <2>2 DEF Frame, AttendedBy, OwnsLive
    <2>5. caller'[c].pc = "unlease" /\ lease'[First(caller'[c].todo)].owner = r =>
              lease'[First(caller'[c].todo)].generation = caller'[c].token
        <3>1. caller[c].pc = "unlease" => First(caller[c].todo) \in Dataset
            BY FirstIsIn DEF ShapesOK, CallerOK, TypeOK, Call
        <3> QED BY <2>1, <2>2, <2>3, <3>1 DEF Frame, AttendedBy, Current
    <2> QED BY <2>4, <2>5 DEF AttendedBy, OwnsLive, Current
<1>2. PlacedByOne(r)'
    BY DEF Frame, PlacedByOne, Attends, Attending, Subject
<1> QED BY <1>1, <1>2 DEF Attended

LEMMA QuietKeeps ==
    ASSUME ShapesOK, NEW r \in Run, Quiet(r), Calm(r) => CalmOK(r), Calm(r)'
    PROVE  CalmOK(r)'
<1>1. Calm(r) /\ CalmOK(r)
    BY DEF Quiet, Frame, Calm
<1>2. /\ task'[r] = task[r]
      /\ \A d \in Dataset : OwnsLive(r, d) => lease'[d] = lease[d]
      /\ \A e \in Executor : job'[e].run = r => job'[e] = job[e]
      /\ \A e \in Executor, d \in Dataset : <<r, d>> \notin job'[e].seen
      /\ \A c \in Reader, d \in Dataset : <<r, d>> \notin reader'[c].seen
      /\ \A i \in DOMAIN queue' : queue'[i] = r => \E j \in DOMAIN queue : queue[j] = r
    BY <1>1 DEF Quiet
<1>3. \A d \in Dataset : /\ Ended(r, d)' <=> Ended(r, d)
                         /\ Reserved(r, d) => Reserved(r, d)'
                         /\ OwnsLive(r, d) => OwnsLive(r, d)'
    BY <1>2 DEF Ended, Reserved, OwnsLive
<1>4. Ready(r) => Ready(r)'
    BY <1>3 DEF Ready
<1>5. ASSUME NEW e \in Executor, job'[e].run = r PROVE ExecutionOK(e)'
    <2>1. job'[e] = job[e] /\ job[e].run = r /\ ExecutionOK(e)
        BY <1>1, <1>2, <1>5 DEF CalmOK
    <2>2. R(e)' = r /\ R(e) = r /\ D(e)' = D(e)
        BY <2>1 DEF R, D, First
    <2>3. job[e].pc \in AtATask => D(e) \in Dataset
        BY FirstIsIn DEF ShapesOK, TypeOK, ExecutionTypeOK, Job, JobOK, D
    <2>4. job[e].pc \in AtATask => AtHand(e)'
        <3> SUFFICES ASSUME job[e].pc \in AtATask PROVE AtHand(e)'
            OBVIOUS
        <3>1. D(e) \in Dataset /\ AtHand(e)
            BY <2>1, <2>3 DEF ExecutionOK
        <3>2. Fenced(r, D(e), job[e].token) =>
                lease'[D(e)] = lease[D(e)]
            BY <1>2, <3>1 DEF Fenced, Holds, OwnsLive
        <3> QED BY <1>2, <1>3, <2>1, <2>2, <3>1, <3>2 DEF AtHand, Fenced, Holds
    <2> QED BY <1>3, <1>4, <2>1, <2>2, <2>4 DEF ExecutionOK
<1>6. ASSUME NEW c \in Reader, Attends(c, r)' PROVE PreparedBy(c, r)'
    <2>1. caller'[c] = caller[c] /\ PreparedBy(c, r) /\ (Placed(r)' => Placed(r))
        BY <1>1, <1>6 DEF Quiet, Frame, Attends, Subject, CalmOK
    <2> QED BY <1>2, <1>3, <1>4, <2>1 DEF PreparedBy
<1>7. PlacedOnce(r)' /\ (Placed(r)' => Placed(r)) /\ binding'[r] = binding[r]
    BY <1>1 DEF CalmOK, Quiet, Frame
<1> QED BY <1>1, <1>2, <1>3, <1>4, <1>5, <1>6, <1>7 DEF CalmOK

(* If everything else is quiet, only the run at stake has to be looked at. *)
LEMMA OnlyThisRun ==
    ASSUME SubmissionInv, ShapesOK', NEW r,
           \A q \in Run : q # r => Quiet(q),
           r \in Run => Attended(r)' /\ PlacedByOne(r)' /\ (Calm(r)' => CalmOK(r)')
    PROVE  SubmissionInv'
<1>1. ASSUME NEW q \in Run
      PROVE  Attended(q)' /\ PlacedByOne(q)' /\ (Calm(q)' => CalmOK(q)')
    <2>1. CASE q = r
        BY <2>1
    <2>2. CASE q # r
        <3>1. ShapesOK /\ Attended(q) /\ PlacedByOne(q) /\ (Calm(q) => CalmOK(q))
            BY DEF SubmissionInv
        <3>2. Quiet(q) /\ Frame(q)
            BY <2>2 DEF Quiet
        <3> QED BY <3>1, <3>2, FrameKeeps, QuietKeeps
    <2> QED BY <2>1, <2>2
<1> QED BY <1>1 DEF SubmissionInv

LEMMA AllQuiet ==
    ASSUME SubmissionInv, ShapesOK', \A q \in Run : Quiet(q)
    PROVE  SubmissionInv'
    BY OnlyThisRun, StoreAssumption

(* What is quiet about a run none of whose variables change. *)
LEMMA KeyStays ==
    ASSUME ShapesOK, Grows, NEW r \in Run, Frame(r)
    PROVE  KeyOK(r)'
<1>1. KeyOK(r)
    BY DEF ShapesOK
<1> QED BY <1>1 DEF KeyOK, Grows, Frame

-----------------------------------------------------------------------------
(* A step of thread e *)

(* A thread that is busy has a run, claimed by its key; one that is at a   *)
(* task has a dataset, and the task exists.                                *)
LEMMA AtWork ==
    ASSUME SubmissionInv, NEW e \in Executor, job[e].pc # "idle"
    PROVE  /\ TypeOK /\ JobOK(e) /\ job[e] \in Job /\ R(e) \in Run
           /\ R(e) # NoRun /\ Placed(R(e))
           /\ \A d \in Dataset : task[R(e)][d] \in Active \union Terminal
           /\ job[e].pc \in AtATask =>
                /\ D(e) \in Dataset /\ D(e) \in job[e].todo
                /\ Status(e) \in Active \union Terminal
<1>1. TypeOK /\ JobOK(e) /\ job[e] \in Job
    BY DEF SubmissionInv, ShapesOK, TypeOK, ExecutionTypeOK
<1>2. R(e) \in Run /\ R(e) # NoRun /\ job[e].todo \subseteq Dataset
    BY <1>1 DEF JobOK, Job, R
<1>3. Placed(R(e))
    BY DEF Placed, R
<1>4. \A d \in Dataset : task[R(e)][d] \in Active \union Terminal
    <2>1. KeyOK(R(e))
        BY <1>2 DEF SubmissionInv, ShapesOK
    <2> QED BY <1>1, <1>2, <1>3, <2>1 DEF KeyOK, TypeOK, StoreTypeOK
<1>5. job[e].pc \in AtATask => D(e) \in Dataset /\ D(e) \in job[e].todo
    BY <1>1, <1>2, FirstIsIn DEF JobOK, D
<1> QED BY <1>1, <1>2, <1>3, <1>4, <1>5 DEF Status

LEMMA StepFrames ==
    ASSUME SubmissionInv, NEW e \in Executor, job[e].pc # "idle", StoreStep(e), JobStep(e),
           NEW q \in Run
    PROVE  Frame(q)
<1>1. R(e) \in Run /\ job[e].run = R(e) /\ q # NoRun
    BY AtWork, StoreAssumption DEF R
<1>2. \A d \in Dataset :
          /\ task'[q][d] = "queued" => task[q][d] = "queued"
          /\ lease'[d].owner = q =>
                /\ lease[d].owner = q /\ lease'[d].generation = lease[d].generation
                /\ lease'[d].live => lease[d].live
    BY <1>1 DEF StoreStep, NoLease
<1>3. \A f \in Executor : job'[f].run = q => job[f].run = q
    BY <1>1 DEF JobStep
<1>4. queue' = queue /\ caller' = caller /\ binding' = binding /\ overdue' = overdue
    BY DEF StoreStep, fullVars
<1>5. (PlacedOnce(q) => PlacedOnce(q)') /\ (Placed(q)' => Placed(q))
    BY <1>3, <1>4 DEF PlacedOnce, Placed
<1> QED BY <1>2, <1>4, <1>5 DEF Frame

LEMMA StepKeepsShapes ==
    ASSUME SubmissionInv, NEW e \in Executor, job[e].pc # "idle", StoreStep(e), JobStep(e)
    PROVE  ShapesOK'
<1>1. ShapesOK
    BY DEF SubmissionInv
<1>2. TypeOK'
    BY <1>1 DEF ShapesOK, TypeOK, ExecutionTypeOK, StoreStep, JobStep, fullVars, boundVars
<1>3. \A r \in Run : KeyOK(r)'
    BY <1>1, StepFrames, KeyStays DEF StoreStep
<1>4. \A f \in Executor : JobOK(f)'
    <2> SUFFICES ASSUME NEW f \in Executor PROVE JobOK(f)'
        OBVIOUS
    <2>1. CASE f = e
        BY <2>1 DEF JobStep
    <2>2. CASE f # e
        BY <1>1, <2>2 DEF JobStep, ShapesOK, JobOK, TargetOK
    <2> QED BY <2>1, <2>2
<1>5. \A c \in Reader : ReaderOK(c)' /\ CallerOK(c)'
    BY <1>1 DEF ShapesOK, ReaderOK, CallerOK, StoreStep, fullVars, Subject
<1>6. \A d \in Dataset : RowOK(d)'
    BY <1>1 DEF ShapesOK, RowOK, StoreStep, NoLease
<1> QED BY <1>2, <1>3, <1>4, <1>5, <1>6 DEF ShapesOK

LEMMA ExecutorKeeps ==
    ASSUME SubmissionInv, NEW e \in Executor, job[e].pc # "idle", StoreStep(e), JobStep(e)
    PROVE  SubmissionInv'
<1>0. PICK r \in Run : r = R(e)
    BY AtWork
<1>1. ShapesOK /\ ShapesOK' /\ r = R(e) /\ r # NoRun /\ job[e].run = r /\ Placed(r)
    BY <1>0, StepKeepsShapes, AtWork DEF SubmissionInv, R
<1>2. queue' = queue /\ caller' = caller /\ binding' = binding /\ overdue' = overdue
      /\ lapsed' = lapsed /\ reader' = reader
    BY DEF StoreStep, fullVars
<1>3. \A q \in Run : Frame(q)
    BY StepFrames
<1>4. ASSUME NEW q \in Run, q # r PROVE Quiet(q)
    <2> SUFFICES ASSUME Calm(q), CalmOK(q)
                 PROVE  /\ task'[q] = task[q]
                        /\ \A d \in Dataset : OwnsLive(q, d) => lease'[d] = lease[d]
                        /\ \A f \in Executor : job'[f].run = q => job'[f] = job[f]
                        /\ \A f \in Executor, d \in Dataset : <<q, d>> \notin job'[f].seen
                        /\ \A c \in Reader, d \in Dataset : <<q, d>> \notin reader'[c].seen
                        /\ \A i \in DOMAIN queue' : queue'[i] = q => \E j \in DOMAIN queue : queue[j] = q
        BY <1>2, <1>3 DEF Quiet
    <2>1. \A d \in Dataset : OwnsLive(q, d) => lease'[d] = lease[d]
        BY <1>1, <1>4 DEF StoreStep, OwnsLive
    <2>2. \A f \in Executor : job'[f].run = q => job'[f] = job[f]
        BY <1>1, <1>4, StoreAssumption DEF JobStep
    <2>3. \A f \in Executor, d \in Dataset : <<q, d>> \notin job'[f].seen
        BY CalmIsNotInactive DEF JobStep, CalmOK
    <2> QED BY <1>1, <1>2, <1>4, <2>1, <2>2, <2>3 DEF StoreStep, CalmOK
<1>5. Attended(r)' /\ PlacedByOne(r)'
    BY <1>1, <1>3, FrameKeeps DEF SubmissionInv
<1>6. ASSUME Calm(r)' PROVE CalmOK(r)'
    <2>1. Calm(r) /\ CalmOK(r)
        BY <1>1, <1>2, <1>6 DEF Calm, SubmissionInv
    <2>2. PlacedOnce(r)' /\ \A i \in DOMAIN queue : queue[i] # r
        BY <1>1, <1>3, <2>1 DEF Frame, CalmOK, PlacedOnce
    <2>3. \A f \in Executor : job'[f].run = r => f = e
        BY <1>1, <2>1 DEF JobStep, CalmOK, PlacedOnce
    <2>4. job'[e].run = r => ExecutionOK(e)'
        BY <1>1, <2>1 DEF JobStep
    <2>5. ASSUME NEW d \in Dataset, task'[r][d] = "collecting"
          PROVE  lease'[d].owner = r /\ lease'[d].live
        <3>1. CASE job'[e].run = r
            <4>1. ExecutionOK(e)' /\ JobOK(e)' /\ R(e)' = r /\ job'[e].pc # "idle"
                BY <1>1, <2>1, <3>1, StoreAssumption DEF JobStep, JobOK, Idle, R
            <4>2. job'[e] \in Job
                BY DEF JobStep
            <4>3. CASE job'[e].pc \in BeforeTheTasks \union AfterTheTasks
                BY <2>5, <4>1, <4>3, StatusesDiffer
                   DEF ExecutionOK, Ready, Reserved, Ended, OwnsLive
            <4>4. CASE job'[e].pc \in AtATask /\ d # D(e)'
                BY <2>5, <4>1, <4>4, StatusesDiffer DEF ExecutionOK, Reserved, Ended, OwnsLive
            <4>5. CASE job'[e].pc \in AtATask /\ d = D(e)'
                <5>1. AtHand(e)' /\ TargetOK(e)'
                    BY <4>1, <4>5 DEF ExecutionOK, JobOK
                <5> QED BY <2>5, <4>1, <4>5, <5>1, StatusesDiffer
                       DEF AtHand, AtATask, TargetOK, Reserved, Ended, OwnsLive, Fenced, Holds
            <4> QED BY <4>1, <4>2, <4>3, <4>4, <4>5
                   DEF Job, BeforeTheTasks, AfterTheTasks, AtATask
        <3>2. CASE job'[e].run # r
            BY <1>1, <2>1, <2>5, <3>2 DEF JobStep, CalmOK, OwnsLive
        <3> QED BY <3>1, <3>2
    <2>6. \A f \in Executor, d \in Dataset : <<r, d>> \notin job'[f].seen
        BY <2>1, CalmIsNotInactive DEF JobStep, CalmOK
    <2>7. ASSUME NEW c \in Reader, Attends(c, r)' PROVE PreparedBy(c, r)'
        <3>1. PreparedBy(c, r)
            BY <1>2, <2>1, <2>7 DEF CalmOK, Attends, Subject
        <3>2. caller[c].pc \in Preparing => \A d \in Dataset : task'[r][d] \in Terminal
            BY <1>1, <3>1 DEF PreparedBy, StoreStep
        <3>3. caller[c].pc \notin Retreating
            BY <1>1, <3>1 DEF PreparedBy
        <3> QED BY <1>2, <3>2, <3>3, StatusesDiffer
               DEF PreparedBy, Ended, Ready, Preparing, Retreating, Unlaunched
    <2> QED BY <1>1, <1>2, <2>1, <2>2, <2>3, <2>4, <2>5, <2>6, <2>7 DEF CalmOK, OwnsLive
<1> QED BY <1>1, <1>4, <1>5, <1>6, OnlyThisRun

-----------------------------------------------------------------------------
(* What a thread's store calls do to the tables *)

Others == UNCHANGED <<lapsed, queue, reader, fullVars>>

LEMMA StoreUntouched ==
    ASSUME SubmissionInv, NEW e \in Executor, OnlyLocal, UNCHANGED fullVars
    PROVE  StoreStep(e)
<1>1. StoreTypeOK'
    BY DEF SubmissionInv, ShapesOK, TypeOK, StoreTypeOK, OnlyLocal, storeVars
<1> QED BY <1>1 DEF StoreStep, Grows, Ended, OnlyLocal, storeVars

LEMMA RunWritten ==
    ASSUME SubmissionInv, NEW e \in Executor, NEW r \in Run, NEW status \in Active \union RunTerminal,
           SetRun(r, status), UNCHANGED <<task, lease, snapshot>>, Others
    PROVE  StoreStep(e)
<1>1. /\ StoreTypeOK'
      /\ \A q \in Run : run[q] # "absent" => run'[q] # "absent"
    BY DEF SubmissionInv, ShapesOK, TypeOK, StoreTypeOK, SetRun, Active, RunTerminal, Others
<1> QED BY <1>1 DEF StoreStep, Grows, Ended, Others

LEMMA TaskWritten ==
    ASSUME SubmissionInv, NEW e \in Executor, job[e].pc \in AtATask,
           NEW status \in (Active \union Terminal) \ {"queued"},
           SetTask(R(e), D(e), status), UNCHANGED <<run, lease>>, Others,
           UNCHANGED snapshot \/ Stores(e),
           Status(e) \in Terminal => status \in Terminal
    PROVE  StoreStep(e) /\ task'[R(e)][D(e)] = status
           /\ \A d \in Dataset : d # D(e) => task'[R(e)][d] = task[R(e)][d]
<1>1. TypeOK /\ R(e) \in Run /\ D(e) \in Dataset
    BY AtWork DEF AtATask, SubmissionInv, ShapesOK
<1>2. /\ task'[R(e)][D(e)] = status
      /\ \A r \in Run, d \in Dataset : r # R(e) \/ d # D(e) => task'[r][d] = task[r][d]
      /\ \A r \in Run : r # R(e) => task'[r] = task[r]
    BY <1>1 DEF SetTask, TypeOK, StoreTypeOK
<1>3. StoreTypeOK'
    BY <1>1 DEF SetTask, TypeOK, StoreTypeOK, Stores, Others
<1>4. Grows
    <2>1. \A r \in Run, d \in Dataset : task[r][d] # "absent" => task'[r][d] # "absent"
        <3> SUFFICES ASSUME NEW r \in Run, NEW d \in Dataset, task[r][d] # "absent"
                     PROVE  task'[r][d] # "absent"
            OBVIOUS
        <3>1. CASE r = R(e) /\ d = D(e)
            BY <1>2, <3>1, StatusesDiffer
        <3>2. CASE r # R(e) \/ d # D(e)
            BY <1>2, <3>2
        <3> QED BY <3>1, <3>2
    <2> QED BY <2>1 DEF Grows
<1>5. ASSUME NEW d \in Dataset
      PROVE  /\ task'[R(e)][d] = "queued" => task[R(e)][d] = "queued"
             /\ Ended(R(e), d) => task'[R(e)][d] \in Terminal
    <2>1. CASE d = D(e)
        BY <1>2, <2>1 DEF Ended, Status
    <2>2. CASE d # D(e)
        BY <1>1, <1>2, <2>2 DEF Ended
    <2> QED BY <2>1, <2>2
<1> QED BY <1>1, <1>2, <1>3, <1>4, <1>5 DEF StoreStep, Others

LEMMA SnapshotWritten ==
    ASSUME SubmissionInv, NEW e \in Executor, job[e].pc \in AtATask,
           Stores(e), UNCHANGED <<run, task, lease>>, Others
    PROVE  StoreStep(e)
<1>1. TypeOK /\ R(e) \in Run /\ D(e) \in Dataset
    BY AtWork DEF AtATask, SubmissionInv, ShapesOK
<1>2. StoreTypeOK'
    BY <1>1 DEF TypeOK, StoreTypeOK, Stores, Others
<1> QED BY <1>2 DEF StoreStep, Grows, Ended, Others

LEMMA LeaseDropped ==
    ASSUME SubmissionInv, NEW e \in Executor, job[e].pc \in AtATask,
           DropLease(R(e), D(e), job[e].token), UNCHANGED <<run, task, snapshot>>, Others
    PROVE  StoreStep(e) /\ \A d \in Dataset : d # D(e) => lease'[d] = lease[d]
<1>1. TypeOK /\ R(e) \in Run /\ D(e) \in Dataset
    BY AtWork DEF AtATask, SubmissionInv, ShapesOK
<1>2. /\ StoreTypeOK'
      /\ \A d \in Dataset : lease'[d] = lease[d] \/ (lease[d].owner = R(e) /\ lease'[d] = NoLease)
      /\ \A d \in Dataset : d # D(e) => lease'[d] = lease[d]
    BY <1>1 DEF TypeOK, StoreTypeOK, DropLease, Holds, NoLease, Others
<1> QED BY <1>2 DEF StoreStep, Grows, Ended, Others

-----------------------------------------------------------------------------
(* What becomes of the job *)

LEMMA JobChanged ==
    ASSUME TypeOK, NEW e \in Executor, NEW j, Continue(e, j)
    PROVE  job'[e] = j /\ \A f \in Executor \ {e} : job'[f] = job[f]
    BY DEF TypeOK, ExecutionTypeOK, Continue

(* The thread goes on with the task it has in hand. *)
LEMMA StaysAtTask ==
    ASSUME SubmissionInv, NEW e \in Executor, job[e].pc \in AtATask, StoreStep(e),
           NEW j \in Job, Continue(e, j), j.pc \in AtATask, j.run = job[e].run,
           j.todo = job[e].todo, j.seen = job[e].seen,
           \A d \in Dataset : d # D(e) =>
                task'[R(e)][d] = task[R(e)][d] /\ lease'[d] = lease[d],
           job'[e] = j => TargetOK(e)',
           job'[e] = j /\ R(e)' = R(e) /\ D(e)' = D(e) /\ AtHand(e) => AtHand(e)'
    PROVE  SubmissionInv'
<1>1. TypeOK /\ JobOK(e) /\ R(e) # NoRun /\ job[e].pc # "idle"
    BY AtWork DEF AtATask
<1>2. job'[e] = j /\ \A f \in Executor \ {e} : job'[f] = job[f]
    BY <1>1, JobChanged
<1>3. job' \in [Executor -> Job]
    BY <1>1 DEF TypeOK, ExecutionTypeOK, Continue
<1>4. R(e)' = R(e) /\ D(e)' = D(e)
    BY <1>2 DEF R, D, First
<1>5. JobOK(e)'
    BY <1>1, <1>2 DEF JobOK, AtATask, R
<1>6. ASSUME ExecutionOK(e) PROVE ExecutionOK(e)'
    <2>1. AtHand(e)'
        BY <1>2, <1>4, <1>6 DEF ExecutionOK
    <2>2. ASSUME NEW d \in Dataset, d # D(e)
          PROVE  IF d \in job'[e].todo
                 THEN task'[R(e)][d] = "queued" /\ lease'[d].owner = R(e) /\ lease'[d].live
                 ELSE task'[R(e)][d] \in Terminal
        BY <1>2, <1>6, <2>2 DEF ExecutionOK, Reserved, Ended, OwnsLive
    <2> QED BY <1>2, <1>4, <2>1, <2>2
           DEF ExecutionOK, Reserved, Ended, OwnsLive, AtATask, BeforeTheTasks, AfterTheTasks
<1>7. JobStep(e)
    BY <1>1, <1>2, <1>3, <1>5, <1>6 DEF JobStep, CalmOK, R
<1> QED BY <1>1, <1>7, ExecutorKeeps

LEMMA GoesTo ==
    ASSUME SubmissionInv, NEW e \in Executor, job[e].pc \in AtATask, StoreStep(e),
           NEW pc \in AtATask, Goto(e, pc),
           \A d \in Dataset : d # D(e) =>
                task'[R(e)][d] = task[R(e)][d] /\ lease'[d] = lease[d],
           job'[e] = [job[e] EXCEPT !.pc = pc] => TargetOK(e)',
           job'[e] = [job[e] EXCEPT !.pc = pc] /\ R(e)' = R(e) /\ D(e)' = D(e) /\ AtHand(e)
                => AtHand(e)'
    PROVE  SubmissionInv'
<1> DEFINE j == [job[e] EXCEPT !.pc = pc]
<1>1. job[e] \in Job
    BY AtWork DEF AtATask
<1>2. j \in Job /\ j.pc = pc /\ j.run = job[e].run /\ j.todo = job[e].todo /\ j.seen = job[e].seen
    BY <1>1 DEF Job, AtATask
<1>3. Continue(e, j)
    BY DEF Goto
<1>4. (job'[e] = j => TargetOK(e)')
      /\ (job'[e] = j /\ R(e)' = R(e) /\ D(e)' = D(e) /\ AtHand(e) => AtHand(e)')
    OBVIOUS
<1> HIDE DEF j
<1> QED BY <1>2, <1>3, <1>4, StaysAtTask

(* It goes on to the next one, having ended this one. *)
LEMMA TakesNext ==
    ASSUME SubmissionInv, NEW e \in Executor, job[e].pc \in AtATask, StoreStep(e),
           NextDataset(e),
           \A d \in Dataset : d # D(e) =>
                task'[R(e)][d] = task[R(e)][d] /\ lease'[d] = lease[d],
           AtHand(e) => task'[R(e)][D(e)] \in Terminal
    PROVE  SubmissionInv'
<1> DEFINE left == job[e].todo \ {D(e)}
           j == [Idle EXCEPT !.pc = EntryOf(left), !.run = R(e), !.todo = left]
<1>1. TypeOK /\ JobOK(e) /\ R(e) # NoRun /\ R(e) \in Run /\ job[e].pc # "idle" /\ job[e] \in Job
      /\ D(e) \in Dataset
    BY AtWork DEF AtATask
<1>2. EntryOf(left) \in {"finish", "claim", "check"} /\ (left # {} <=> EntryOf(left) # "finish")
    BY DEF EntryOf
<1>3. left \in SUBSET Dataset
    BY <1>1 DEF Job
<1>4. job'[e] = j /\ \A f \in Executor \ {e} : job'[f] = job[f]
    BY <1>1, JobChanged DEF NextDataset
<1> HIDE DEF left
<1>5. j \in Job /\ j.pc = EntryOf(left) /\ j.todo = left /\ j.run = R(e) /\ j.seen = {}
    BY <1>1, <1>2, <1>3 DEF Job, Idle
<1> HIDE DEF j
<1>6. job' \in [Executor -> Job]
    BY <1>1, <1>5 DEF TypeOK, ExecutionTypeOK, NextDataset, Continue, j, left
<1>7. R(e)' = R(e) /\ D(e)' = First(left)
    BY <1>4, <1>5 DEF R, D, First
<1>8. JobOK(e)'
    BY <1>1, <1>2, <1>4, <1>5 DEF JobOK, TargetOK, AtATask
<1>9. ASSUME ExecutionOK(e) PROVE ExecutionOK(e)'
    <2>1. AtHand(e) /\ \A d \in Dataset \ {D(e)} :
                IF d \in job[e].todo THEN Reserved(R(e), d) ELSE Ended(R(e), d)
        BY <1>9 DEF ExecutionOK
    <2>2. ASSUME NEW d \in Dataset
          PROVE  IF d \in left
                 THEN task'[R(e)][d] = "queued" /\ lease'[d].owner = R(e) /\ lease'[d].live
                 ELSE task'[R(e)][d] \in Terminal
        <3>1. CASE d = D(e)
            BY <2>1, <3>1 DEF left
        <3>2. CASE d # D(e)
            BY <2>1, <3>2 DEF left, Reserved, Ended, OwnsLive
        <3> QED BY <3>1, <3>2
    <2>3. left # {} => First(left) \in left /\ First(left) \in Dataset
        BY <1>3, FirstIsIn
    <2>4. job'[e].pc \in AtATask => AtHand(e)'
        BY <1>2, <1>4, <1>7, <1>5, <2>2, <2>3 DEF AtHand, Reserved, OwnsLive, AtATask
    <2> QED BY <1>2, <1>4, <1>7, <1>5, <2>2, <2>4
           DEF ExecutionOK, Reserved, Ended, OwnsLive, AtATask, BeforeTheTasks, AfterTheTasks
<1>10. JobStep(e)
    BY <1>1, <1>4, <1>6, <1>8, <1>9, <1>5 DEF JobStep, CalmOK, R
<1> QED BY <1>1, <1>10, ExecutorKeeps

(* It stops; under the leases of its tasks, only where it has nothing to   *)
(* do with any of them.                                                    *)
LEMMA StopsHere ==
    ASSUME SubmissionInv, NEW e \in Executor, job[e].pc # "idle", StoreStep(e), Stop(e),
           ExecutionOK(e) => UNCHANGED <<task, lease>>
    PROVE  SubmissionInv'
<1>1. TypeOK /\ R(e) # NoRun /\ R(e) \in Run
    BY AtWork
<1>2. job'[e] = Idle /\ \A f \in Executor \ {e} : job'[f] = job[f]
    BY <1>1, JobChanged DEF Stop
<1>3. job' \in [Executor -> Job]
    BY <1>1 DEF TypeOK, ExecutionTypeOK, Stop, Continue, Idle, Job
<1>4. JobOK(e)'
    BY <1>2 DEF JobOK, TargetOK, Idle, AtATask
<1>5. JobStep(e)
    BY <1>1, <1>2, <1>3, <1>4 DEF JobStep, CalmOK, R, Idle
<1> QED BY <1>5, ExecutorKeeps

(* It goes on before or after its tasks.                                   *)
LEMMA GoesOn ==
    ASSUME SubmissionInv, NEW e \in Executor, job[e].pc # "idle", StoreStep(e),
           NEW j \in Job, Continue(e, j), j.pc # "idle", j.run = job[e].run,
           j.pc \in AtATask => j.todo # {}, j.seen \subseteq job[e].seen \union Inactive,
           job'[e] = j => TargetOK(e)',
           job'[e] = j /\ R(e)' = R(e) /\ ExecutionOK(e) => ExecutionOK(e)'
    PROVE  SubmissionInv'
<1>1. TypeOK /\ JobOK(e) /\ R(e) # NoRun
    BY AtWork
<1>2. job'[e] = j /\ \A f \in Executor \ {e} : job'[f] = job[f]
    BY <1>1, JobChanged
<1>3. job' \in [Executor -> Job]
    BY <1>1 DEF TypeOK, ExecutionTypeOK, Continue
<1>4. R(e)' = R(e)
    BY <1>2 DEF R
<1>5. JobOK(e)'
    BY <1>1, <1>2 DEF JobOK, R
<1>6. JobStep(e)
    BY <1>1, <1>2, <1>3, <1>4, <1>5 DEF JobStep, CalmOK, R
<1> QED BY <1>6, ExecutorKeeps

-----------------------------------------------------------------------------
(* The steps of execute_run *)

LEMMA SelectKeeps ==
    ASSUME SubmissionInv, NEW e \in Executor, SweepSelect(e), UNCHANGED fullVars
    PROVE  SubmissionInv'
<1> DEFINE i == [job[e] EXCEPT !.pc = "begin"]
           j == [job[e] EXCEPT !.pc = "expire", !.seen = Inactive]
<1>1. job[e].pc = "sweep" /\ job[e] \in Job
    BY AtWork DEF SweepSelect, At
<1>2. StoreStep(e)
    BY StoreUntouched DEF SweepSelect
<1>3. UNCHANGED <<task, lease>>
    BY DEF SweepSelect, OnlyLocal, storeVars
<1>4. CASE Continue(e, i)
    <2>1. i \in Job /\ i.pc = "begin" /\ i.run = job[e].run /\ i.seen = job[e].seen
        BY <1>1 DEF Job
    <2> HIDE DEF i
    <2> QED BY <1>1, <1>2, <1>3, <1>4, <2>1, GoesOn
           DEF TargetOK, ExecutionOK, Ready, Reserved, Ended, OwnsLive,
               AtATask, BeforeTheTasks, AfterTheTasks
<1>5. CASE Continue(e, j)
    <2>1. j \in Job /\ j.pc = "expire" /\ j.run = job[e].run /\ j.seen = Inactive
        BY <1>1 DEF Job, Inactive
    <2> HIDE DEF j
    <2> QED BY <1>1, <1>2, <1>3, <1>5, <2>1, GoesOn
           DEF TargetOK, ExecutionOK, Ready, Reserved, Ended, OwnsLive,
               AtATask, BeforeTheTasks, AfterTheTasks
<1> QED BY <1>4, <1>5 DEF SweepSelect, Goto

LEMMA BeginKeeps ==
    ASSUME SubmissionInv, NEW e \in Executor, BeginRun(e), UNCHANGED fullVars
    PROVE  SubmissionInv'
<1>1. job[e].pc = "begin" /\ job[e] \in Job
    BY AtWork DEF BeginRun, At
<1>2. StoreStep(e)
    BY StoreUntouched DEF BeginRun
<1>3. UNCHANGED <<task, lease>>
    BY DEF BeginRun, OnlyLocal, storeVars
<1>4. CASE Stop(e)
    BY <1>1, <1>2, <1>3, <1>4, StopsHere
<1>5. ASSUME NEW pc \in {"open", "list"}, Goto(e, pc)
      PROVE  SubmissionInv'
    <2> DEFINE j == [job[e] EXCEPT !.pc = pc]
    <2>1. j \in Job /\ j.pc = pc /\ j.run = job[e].run /\ j.seen = job[e].seen /\ Continue(e, j)
        BY <1>1, <1>5 DEF Job, Goto
    <2> HIDE DEF j
    <2> QED BY <1>1, <1>2, <1>3, <2>1, GoesOn
           DEF TargetOK, ExecutionOK, Ready, Reserved, Ended, OwnsLive,
               AtATask, BeforeTheTasks, AfterTheTasks
<1> QED BY <1>4, <1>5 DEF BeginRun

LEMMA OpenKeeps ==
    ASSUME SubmissionInv, NEW e \in Executor, OpenRun(e), UNCHANGED fullVars
    PROVE  SubmissionInv'
<1> DEFINE j == [job[e] EXCEPT !.pc = "list"]
<1>1. job[e].pc = "open" /\ job[e] \in Job /\ R(e) \in Run
    BY AtWork DEF OpenRun, At
<1>2. StoreStep(e)
    BY <1>1, RunWritten DEF OpenRun, OnlyRun, Others, Active
<1>3. UNCHANGED <<task, lease>>
    BY DEF OpenRun, OnlyRun
<1>4. j \in Job /\ j.pc = "list" /\ j.run = job[e].run /\ j.seen = job[e].seen /\ Continue(e, j)
    BY <1>1 DEF Job, OpenRun, Goto
<1> HIDE DEF j
<1> QED BY <1>1, <1>2, <1>3, <1>4, GoesOn
       DEF TargetOK, ExecutionOK, Ready, Reserved, Ended, OwnsLive,
           AtATask, BeforeTheTasks, AfterTheTasks

(* Of a run that is ready, the tasks listed are the ones that are left.    *)
LEMMA ListKeeps ==
    ASSUME SubmissionInv, NEW e \in Executor, ListTasks(e), UNCHANGED fullVars
    PROVE  SubmissionInv'
<1> DEFINE queued == {d \in Dataset : task[R(e)][d] = "queued"}
           j == [job[e] EXCEPT !.pc = EntryOf(queued), !.todo = queued]
<1>1. job[e].pc = "list" /\ job[e] \in Job /\ R(e) \in Run
    BY AtWork DEF ListTasks, At
<1>2. StoreStep(e)
    BY StoreUntouched DEF ListTasks
<1>3. UNCHANGED <<task, lease>>
    BY DEF ListTasks, OnlyLocal, storeVars
<1>4. EntryOf(queued) \in {"finish", "claim", "check"} /\ (queued # {} <=> EntryOf(queued) # "finish")
    BY DEF EntryOf
<1>5. queued \in SUBSET Dataset /\ \A d \in Dataset : d \in queued <=> task[R(e)][d] = "queued"
    OBVIOUS
<1>6. Continue(e, j)
    BY DEF ListTasks
<1> HIDE DEF queued
<1>7. j \in Job /\ j.pc = EntryOf(queued) /\ j.run = job[e].run /\ j.seen = job[e].seen
      /\ j.todo = queued
    BY <1>1, <1>4, <1>5 DEF Job
<1> HIDE DEF j
<1>8. queued # {} => First(queued) \in queued /\ First(queued) \in Dataset
    BY <1>5, FirstIsIn
<1>9. ASSUME job'[e] = j, R(e)' = R(e), ExecutionOK(e) PROVE ExecutionOK(e)'
    <2>1. \A d \in Dataset : IF d \in queued THEN Reserved(R(e), d) ELSE Ended(R(e), d)
        BY <1>1, <1>5, <1>9, StatusesDiffer DEF ExecutionOK, BeforeTheTasks, Ready, Reserved, Ended
    <2>2. D(e)' = First(queued)
        BY <1>7, <1>9 DEF D, First
    <2>3. job'[e].pc \in AtATask => AtHand(e)'
        BY <1>3, <1>4, <1>7, <1>8, <1>9, <2>1, <2>2 DEF AtHand, Reserved, OwnsLive, AtATask
    <2> QED BY <1>3, <1>4, <1>7, <1>8, <1>9, <2>1, <2>2, <2>3
           DEF ExecutionOK, Reserved, Ended, OwnsLive, AtATask, BeforeTheTasks, AfterTheTasks
<1>10. job'[e] = j => TargetOK(e)'
    BY <1>4, <1>7 DEF TargetOK
<1> QED BY <1>1, <1>2, <1>4, <1>6, <1>7, <1>9, <1>10, GoesOn DEF AtATask

LEMMA FinishKeeps ==
    ASSUME SubmissionInv, NEW e \in Executor, FinishRun(e), UNCHANGED fullVars
    PROVE  SubmissionInv'
<1> DEFINE j == [job[e] EXCEPT !.pc = "close", !.target = Verdict(Statuses(R(e)))]
<1>1. job[e].pc = "finish" /\ job[e] \in Job
    BY AtWork DEF FinishRun, At
<1>2. StoreStep(e)
    BY StoreUntouched DEF FinishRun
<1>3. UNCHANGED <<task, lease>>
    BY DEF FinishRun, OnlyLocal, storeVars
<1>4. CASE Stop(e)
    BY <1>1, <1>2, <1>3, <1>4, StopsHere
<1>5. CASE Continue(e, j)
    <2>1. Verdict(Statuses(R(e))) \in RunTerminal
        BY VerdictType
    <2>2. j \in Job /\ j.pc = "close" /\ j.run = job[e].run /\ j.seen = job[e].seen
          /\ j.target \in RunTerminal
        BY <1>1, <2>1 DEF Job
    <2> HIDE DEF j
    <2> QED BY <1>1, <1>2, <1>3, <1>5, <2>2, GoesOn
           DEF TargetOK, ExecutionOK, Ended, AtATask, BeforeTheTasks, AfterTheTasks
<1> QED BY <1>4, <1>5 DEF FinishRun

LEMMA CloseKeeps ==
    ASSUME SubmissionInv, NEW e \in Executor, CloseRun(e), UNCHANGED fullVars
    PROVE  SubmissionInv'
<1>1. job[e].pc = "close" /\ R(e) \in Run /\ JobOK(e)
    BY AtWork DEF CloseRun, At
<1>2. job[e].target \in RunTerminal
    BY <1>1 DEF JobOK, TargetOK
<1>3. StoreStep(e)
    BY <1>1, <1>2, RunWritten DEF CloseRun, OnlyRun, Others
<1> QED BY <1>1, <1>3, StopsHere DEF CloseRun, OnlyRun

-----------------------------------------------------------------------------
(* The steps of a task that has not been claimed *)

LEMMA CheckKeeps ==
    ASSUME SubmissionInv, NEW e \in Executor, CheckPrerequisites(e), UNCHANGED fullVars
    PROVE  SubmissionInv'
<1>1. job[e].pc = "check" /\ job[e].pc \in AtATask
    BY DEF CheckPrerequisites, At, AtATask
<1>2. StoreStep(e) /\ UNCHANGED <<task, lease>>
    BY StoreUntouched DEF CheckPrerequisites, OnlyLocal, storeVars
<1>3. PICK pc \in {"reserved", "claim"} : Goto(e, pc)
    BY DEF CheckPrerequisites
<1>4. pc \in AtATask /\ [job[e] EXCEPT !.pc = pc].pc = pc
    BY <1>3, AtWork, <1>1 DEF AtATask, Job
<1> QED BY <1>1, <1>2, <1>3, <1>4, GoesTo DEF TargetOK, AtHand, Reserved, OwnsLive

LEMMA ReservationKeeps ==
    ASSUME SubmissionInv, NEW e \in Executor, ReadReservation(e), UNCHANGED fullVars
    PROVE  SubmissionInv'
<1> DEFINE token == IF lease[D(e)].owner = R(e) THEN lease[D(e)].generation ELSE 0
           j == [job[e] EXCEPT !.pc = "block", !.token = token]
<1>1. job[e].pc = "reserved" /\ job[e].pc \in AtATask
    BY DEF ReadReservation, At, AtATask
<1>2. StoreStep(e) /\ UNCHANGED <<task, lease>>
    BY StoreUntouched DEF ReadReservation, OnlyLocal, storeVars
<1>3. TypeOK /\ job[e] \in Job /\ D(e) \in Dataset
    BY <1>1, AtWork DEF AtATask
<1>4. token \in Nat
    BY <1>3 DEF TypeOK, StoreTypeOK
<1>5. Continue(e, j)
    BY DEF ReadReservation
<1> HIDE DEF token
<1>6. j \in Job /\ j.pc = "block" /\ j.run = job[e].run /\ j.todo = job[e].todo
      /\ j.seen = job[e].seen
    BY <1>3, <1>4 DEF Job
<1> HIDE DEF j
<1> QED BY <1>1, <1>2, <1>5, <1>6, StaysAtTask DEF TargetOK, AtHand, Reserved, OwnsLive, AtATask

LEMMA BlockKeeps ==
    ASSUME SubmissionInv, NEW e \in Executor, BlockTask(e), UNCHANGED fullVars
    PROVE  SubmissionInv'
<1>1. job[e].pc = "block" /\ job[e].pc \in AtATask
    BY DEF BlockTask, At, AtATask
<1>2. CASE Wins(e, "queued", "blocked")
    <2>1. StoreStep(e) /\ task'[R(e)][D(e)] = "blocked"
          /\ \A d \in Dataset : d # D(e) => task'[R(e)][d] = task[R(e)][d]
        BY <1>1, <1>2, TaskWritten DEF BlockTask, OnlyTask, Others, Wins, Terminal
    <2>2. lease' = lease /\ "blocked" \in Terminal
        BY DEF BlockTask, OnlyTask, Terminal
    <2>3. CASE NextDataset(e)
        BY <1>1, <2>1, <2>2, <2>3, TakesNext
    <2>4. CASE Goto(e, "release")
        <3>1. [job[e] EXCEPT !.pc = "release"].pc = "release"
            BY AtWork, <1>1 DEF Job, AtATask
        <3> QED BY <1>1, <2>1, <2>2, <2>4, <3>1, GoesTo DEF TargetOK, AtHand, Ended, AtATask
    <2> QED BY <1>2, <2>3, <2>4 DEF BlockTask, Wins, Loses
<1>3. CASE Loses(e, "queued") /\ Stop(e)
    BY <1>1, <1>3, StoreUntouched, StopsHere
       DEF BlockTask, OnlyTask, Loses, OnlyLocal, storeVars, AtATask
<1> QED BY <1>2, <1>3 DEF BlockTask

LEMMA ClaimTaskKeeps ==
    ASSUME SubmissionInv, NEW e \in Executor, ClaimTask(e), UNCHANGED fullVars
    PROVE  SubmissionInv'
<1>1. job[e].pc = "claim" /\ job[e].pc \in AtATask
    BY DEF ClaimTask, At, AtATask
<1>2. CASE Wins(e, "queued", "collecting") /\ Goto(e, "token")
    <2>1. StoreStep(e) /\ task'[R(e)][D(e)] = "collecting"
          /\ \A d \in Dataset : d # D(e) => task'[R(e)][d] = task[R(e)][d]
        BY <1>1, <1>2, TaskWritten, StatusesDiffer DEF ClaimTask, OnlyTask, Others, Wins
    <2>2. lease' = lease
        BY DEF ClaimTask, OnlyTask
    <2>3. [job[e] EXCEPT !.pc = "token"].pc = "token"
        BY AtWork, <1>1 DEF Job, AtATask
    <2> QED BY <1>1, <1>2, <2>1, <2>2, <2>3, GoesTo
           DEF TargetOK, AtHand, Reserved, OwnsLive, AtATask
<1>3. CASE Loses(e, "queued") /\ Stop(e)
    BY <1>1, <1>3, StoreUntouched, StopsHere
       DEF ClaimTask, OnlyTask, Loses, OnlyLocal, storeVars, AtATask
<1> QED BY <1>2, <1>3 DEF ClaimTask

-----------------------------------------------------------------------------
(* The steps of _execute_task, up to the commit *)

LEMMA TokenKeeps ==
    ASSUME SubmissionInv, NEW e \in Executor, ReadToken(e), UNCHANGED fullVars
    PROVE  SubmissionInv'
<1> DEFINE j == [job[e] EXCEPT !.pc = "renew", !.token = lease[D(e)].generation]
<1>1. job[e].pc = "token" /\ job[e].pc \in AtATask
    BY DEF ReadToken, At, AtATask
<1>2. StoreStep(e) /\ UNCHANGED <<task, lease>>
    BY StoreUntouched DEF ReadToken, OnlyLocal, storeVars
<1>3. TypeOK /\ job[e] \in Job /\ D(e) \in Dataset
    BY <1>1, AtWork DEF AtATask
<1>4. CASE OwnsLive(R(e), D(e)) /\ Continue(e, j)
    <2>1. lease[D(e)].generation \in Nat
        BY <1>3 DEF TypeOK, StoreTypeOK
    <2>2. j \in Job /\ j.pc = "renew" /\ j.run = job[e].run /\ j.todo = job[e].todo
          /\ j.seen = job[e].seen /\ j.token = lease[D(e)].generation
        BY <1>3, <2>1 DEF Job
    <2> HIDE DEF j
    <2> QED BY <1>1, <1>2, <1>4, <2>2, StaysAtTask
           DEF TargetOK, AtHand, OwnsLive, Fenced, Holds, AtATask
<1>5. CASE ~OwnsLive(R(e), D(e)) /\ Goto(e, "lost")
    <2>1. [job[e] EXCEPT !.pc = "lost"].pc = "lost"
        BY <1>3 DEF Job
    <2> QED BY <1>1, <1>2, <1>5, <2>1, GoesTo DEF TargetOK, AtHand, AtATask
<1> QED BY <1>4, <1>5 DEF ReadToken

LEMMA RenewKeeps ==
    ASSUME SubmissionInv, NEW e \in Executor, RenewToken(e), UNCHANGED fullVars
    PROVE  SubmissionInv'
<1>1. job[e].pc = "renew" /\ job[e].pc \in AtATask
    BY DEF RenewToken, At, AtATask
<1>2. StoreStep(e) /\ UNCHANGED <<task, lease>>
    BY StoreUntouched DEF RenewToken, OnlyLocal, storeVars
<1>3. job[e] \in Job
    BY <1>1, AtWork DEF AtATask
<1>4. PICK pc \in {"collect", "lost"} :
            Goto(e, pc) /\ (pc = "lost" => ~Fenced(R(e), D(e), job[e].token))
    BY DEF RenewToken
<1>5. pc \in AtATask /\ [job[e] EXCEPT !.pc = pc].pc = pc
      /\ [job[e] EXCEPT !.pc = pc].token = job[e].token
    BY <1>3, <1>4 DEF Job, AtATask
<1> QED BY <1>1, <1>2, <1>4, <1>5, GoesTo DEF TargetOK, AtHand, Fenced, Holds

LEMMA RetainedKeeps ==
    ASSUME SubmissionInv, NEW e \in Executor, ReadRetainedOnLoss(e), UNCHANGED fullVars
    PROVE  SubmissionInv'
<1> DEFINE j == [job[e] EXCEPT !.pc = "lose", !.target = FailedAs(D(e)), !.token = 0]
<1>1. job[e].pc = "lost" /\ job[e].pc \in AtATask
    BY DEF ReadRetainedOnLoss, At, AtATask
<1>2. StoreStep(e) /\ UNCHANGED <<task, lease>>
    BY StoreUntouched DEF ReadRetainedOnLoss, OnlyLocal, storeVars
<1>3. job[e] \in Job
    BY <1>1, AtWork DEF AtATask
<1>4. Continue(e, j)
    BY DEF ReadRetainedOnLoss
<1>5. j \in Job /\ j.pc = "lose" /\ j.run = job[e].run /\ j.todo = job[e].todo
      /\ j.seen = job[e].seen /\ j.target \in Failed
    BY <1>3, FailedAsType DEF Job
<1> HIDE DEF j
<1> QED BY <1>1, <1>2, <1>4, <1>5, StaysAtTask DEF TargetOK, AtHand, AtATask

LEMMA LoseKeeps ==
    ASSUME SubmissionInv, NEW e \in Executor, FailWithoutLease(e), UNCHANGED fullVars
    PROVE  SubmissionInv'
<1>1. job[e].pc = "lose" /\ job[e].pc \in AtATask
    BY DEF FailWithoutLease, At, AtATask
<1>2. job[e].target \in Failed /\ Failed \subseteq Terminal
    BY <1>1, AtWork, StatusesDiffer DEF JobOK, TargetOK, AtATask
<1>3. CASE Wins(e, "collecting", job[e].target) /\ NextDataset(e)
    <2>1. StoreStep(e) /\ \A d \in Dataset : d # D(e) => task'[R(e)][d] = task[R(e)][d]
        BY <1>1, <1>2, <1>3, TaskWritten, StatusesDiffer
           DEF FailWithoutLease, OnlyTask, Others, Wins
    <2>2. lease' = lease /\ ~AtHand(e)
        BY <1>1 DEF FailWithoutLease, OnlyTask, AtHand
    <2> QED BY <1>1, <1>3, <2>1, <2>2, TakesNext
<1>4. CASE Loses(e, "collecting") /\ Stop(e)
    BY <1>1, <1>4, StoreUntouched, StopsHere
       DEF FailWithoutLease, OnlyTask, Loses, OnlyLocal, storeVars, AtATask
<1> QED BY <1>3, <1>4 DEF FailWithoutLease

LEMMA CollectKeeps ==
    ASSUME SubmissionInv, NEW e \in Executor, Collect(e), UNCHANGED fullVars
    PROVE  SubmissionInv'
<1>1. job[e].pc = "collect" /\ job[e].pc \in AtATask
    BY DEF Collect, At, AtATask
<1>2. StoreStep(e) /\ UNCHANGED <<task, lease>>
    BY StoreUntouched DEF Collect, OnlyLocal, storeVars
<1>3. job[e] \in Job
    BY <1>1, AtWork DEF AtATask
<1>4. ASSUME NEW status \in Successful,
             Continue(e, [job[e] EXCEPT !.pc = "admit", !.target = status])
      PROVE  SubmissionInv'
    <2> DEFINE j == [job[e] EXCEPT !.pc = "admit", !.target = status]
    <2>1. j \in Job /\ j.pc = "admit" /\ j.run = job[e].run /\ j.todo = job[e].todo
          /\ j.seen = job[e].seen /\ j.token = job[e].token /\ j.target \in Successful
        BY <1>3, StatusesDiffer DEF Job
    <2>2. Continue(e, j)
        BY <1>4
    <2> HIDE DEF j
    <2> QED BY <1>1, <1>2, <2>1, <2>2, StaysAtTask
           DEF TargetOK, AtHand, Fenced, Holds, AtATask
<1>5. CASE Goto(e, "existing")
    <2>1. [job[e] EXCEPT !.pc = "existing"].pc = "existing"
          /\ [job[e] EXCEPT !.pc = "existing"].token = job[e].token
        BY <1>3 DEF Job
    <2> QED BY <1>1, <1>2, <1>5, <2>1, GoesTo DEF TargetOK, AtHand, Fenced, Holds, AtATask
<1> QED BY <1>4, <1>5 DEF Collect

(* An exception is handled where the task still is what it was claimed as, *)
(* under its lease, or where the leases do not hold any more.              *)
LEMMA HandlesIt ==
    ASSUME SubmissionInv, NEW e \in Executor, job[e].pc \in AtATask, StoreStep(e), Handle(e),
           UNCHANGED <<task, lease>>,
           AtHand(e) => Status(e) = "collecting" /\ Fenced(R(e), D(e), job[e].token)
    PROVE  SubmissionInv'
<1> DEFINE j == [job[e] EXCEPT !.pc = "existing", !.handling = TRUE,
                               !.expect = "none", !.target = "none"]
<1>1. job[e] \in Job
    BY AtWork DEF AtATask
<1>2. j \in Job /\ j.pc = "existing" /\ j.run = job[e].run /\ j.todo = job[e].todo
      /\ j.seen = job[e].seen /\ j.token = job[e].token
    BY <1>1 DEF Job
<1>3. Continue(e, j)
    BY DEF Handle
<1> HIDE DEF j
<1> QED BY <1>2, <1>3, StaysAtTask DEF TargetOK, AtHand, Status, Fenced, Holds, AtATask

LEMMA RaisesIt ==
    ASSUME SubmissionInv, NEW e \in Executor, job[e].pc \in AtATask, StoreStep(e), Raise(e),
           UNCHANGED <<task, lease>>, ~AtHand(e)
    PROVE  SubmissionInv'
<1>1. CASE Handle(e)
    BY <1>1, HandlesIt
<1>2. CASE Goto(e, "abandon")
    <2>1. [job[e] EXCEPT !.pc = "abandon"].pc = "abandon"
        BY AtWork DEF Job, AtATask
    <2> QED BY <1>2, <2>1, GoesTo DEF TargetOK, AtATask
<1> QED BY <1>1, <1>2 DEF Raise

LEMMA CollectRaisesKeeps ==
    ASSUME SubmissionInv, NEW e \in Executor, CollectRaises(e), UNCHANGED fullVars
    PROVE  SubmissionInv'
<1>1. job[e].pc \in {"collect", "admit", "commit"} /\ job[e].pc \in AtATask
    BY DEF CollectRaises, AtATask
<1>2. StoreStep(e) /\ UNCHANGED <<task, lease>>
    BY StoreUntouched DEF CollectRaises, OnlyLocal, storeVars
<1> QED BY <1>1, <1>2, HandlesIt DEF CollectRaises, AtHand, Status

LEMMA AdmitKeeps ==
    ASSUME SubmissionInv, NEW e \in Executor, AdmitCommit(e), UNCHANGED fullVars
    PROVE  SubmissionInv'
<1>1. job[e].pc = "admit" /\ job[e].pc \in AtATask
    BY DEF AdmitCommit, At, AtATask
<1>2. StoreStep(e) /\ UNCHANGED <<task, lease>>
    BY StoreUntouched DEF AdmitCommit, OnlyLocal, storeVars
<1>3. job[e] \in Job /\ job[e].target \in Successful
    BY <1>1, AtWork DEF AtATask, JobOK, TargetOK
<1>4. PICK pc \in {"commit", "fenced"} :
            Goto(e, pc) /\ (pc = "fenced" => ~Fenced(R(e), D(e), job[e].token))
    BY DEF AdmitCommit
<1>5. pc \in AtATask /\ [job[e] EXCEPT !.pc = pc].pc = pc
      /\ [job[e] EXCEPT !.pc = pc].token = job[e].token
      /\ [job[e] EXCEPT !.pc = pc].target = job[e].target
    BY <1>3, <1>4 DEF Job, AtATask
<1>6. job'[e] = [job[e] EXCEPT !.pc = pc] => TargetOK(e)'
    BY <1>3, <1>4, <1>5 DEF TargetOK
<1>7. job'[e] = [job[e] EXCEPT !.pc = pc] /\ R(e)' = R(e) /\ D(e)' = D(e) /\ AtHand(e)
        => AtHand(e)'
    BY <1>1, <1>2, <1>4, <1>5 DEF AtHand, Fenced, Holds
<1> QED BY <1>1, <1>2, <1>4, <1>5, <1>6, <1>7, GoesTo

LEMMA CorruptionKeeps ==
    ASSUME SubmissionInv, NEW e \in Executor, CommitFindsCorruption(e), UNCHANGED fullVars
    PROVE  SubmissionInv'
<1>1. job[e].pc = "commit" /\ job[e].pc \in AtATask /\ Goto(e, "integrity")
    BY DEF CommitFindsCorruption, At, AtATask
<1>2. StoreStep(e) /\ UNCHANGED <<task, lease>>
    BY StoreUntouched DEF CommitFindsCorruption, OnlyLocal, storeVars
<1>3. [job[e] EXCEPT !.pc = "integrity"].pc = "integrity"
      /\ [job[e] EXCEPT !.pc = "integrity"].token = job[e].token
    BY <1>1, AtWork DEF Job, AtATask
<1> QED BY <1>1, <1>2, <1>3, GoesTo DEF TargetOK, AtHand, Fenced, Holds, AtATask

LEMMA CommitKeeps ==
    ASSUME SubmissionInv, NEW e \in Executor, CommitSnapshot(e), UNCHANGED fullVars
    PROVE  SubmissionInv'
<1>1. job[e].pc = "commit" /\ job[e].pc \in AtATask /\ Goto(e, "settle")
    BY DEF CommitSnapshot, At, AtATask
<1>2. StoreStep(e) /\ UNCHANGED <<task, lease>>
    BY <1>1, SnapshotWritten DEF CommitSnapshot, Others
<1>3. job[e].target \in Successful
    BY <1>1, AtWork DEF AtATask, JobOK, TargetOK
<1>4. [job[e] EXCEPT !.pc = "settle"].pc = "settle"
      /\ [job[e] EXCEPT !.pc = "settle"].token = job[e].token
      /\ [job[e] EXCEPT !.pc = "settle"].target = job[e].target
    BY <1>1, AtWork DEF Job, AtATask
<1> QED BY <1>1, <1>2, <1>3, <1>4, GoesTo DEF TargetOK, AtHand, Fenced, Holds, AtATask

LEMMA CommitTaskKeeps ==
    ASSUME SubmissionInv, NEW e \in Executor, CommitSnapshotAndTask(e), UNCHANGED fullVars
    PROVE  SubmissionInv'
<1>1. job[e].pc = "commit" /\ job[e].pc \in AtATask
    BY DEF CommitSnapshotAndTask, At, AtATask
<1>2. job[e].target \in Successful /\ Successful \subseteq Terminal
    BY <1>1, AtWork, StatusesDiffer DEF AtATask, JobOK, TargetOK
<1>3. CASE Wins(e, "collecting", job[e].target) /\ Stores(e) /\ Goto(e, "reread")
    <2>1. StoreStep(e) /\ task'[R(e)][D(e)] = job[e].target
          /\ \A d \in Dataset : d # D(e) => task'[R(e)][d] = task[R(e)][d]
        BY <1>1, <1>2, <1>3, TaskWritten, StatusesDiffer DEF CommitSnapshotAndTask, Others, Wins
    <2>2. lease' = lease
        BY DEF CommitSnapshotAndTask
    <2>3. [job[e] EXCEPT !.pc = "reread"].pc = "reread"
          /\ [job[e] EXCEPT !.pc = "reread"].target = job[e].target
        BY <1>1, AtWork DEF Job, AtATask
    <2> QED BY <1>1, <1>2, <1>3, <2>1, <2>2, <2>3, GoesTo DEF TargetOK, AtHand, AtATask
<1>4. CASE Loses(e, "collecting") /\ UNCHANGED snapshot /\ Handle(e)
    <2>1. StoreStep(e) /\ UNCHANGED <<task, lease>>
        BY <1>4, StoreUntouched DEF CommitSnapshotAndTask, Loses, OnlyLocal, storeVars
    <2>2. ~AtHand(e)
        BY <1>1, <1>4 DEF AtHand, Loses, Status
    <2> QED BY <1>1, <1>4, <2>1, <2>2, HandlesIt
<1> QED BY <1>3, <1>4 DEF CommitSnapshotAndTask

-----------------------------------------------------------------------------
(* The steps of _execute_task, from the commit to the end *)

LEMMA RereadKeeps ==
    ASSUME SubmissionInv, NEW e \in Executor, RereadTask(e), UNCHANGED fullVars
    PROVE  SubmissionInv'
<1> DEFINE j == [job[e] EXCEPT !.pc = "rebuild", !.expect = job[e].target]
<1>1. job[e].pc = "reread" /\ job[e].pc \in AtATask
    BY DEF RereadTask, At, AtATask
<1>2. StoreStep(e) /\ UNCHANGED <<task, lease>>
    BY StoreUntouched DEF RereadTask, OnlyLocal, storeVars
<1>3. job[e] \in Job /\ job[e].target \in Successful /\ Successful \subseteq Terminal
    BY <1>1, AtWork, StatusesDiffer DEF AtATask, JobOK, TargetOK
<1>4. CASE Status(e) = job[e].target /\ Continue(e, j)
    <2>1. j \in Job /\ j.pc = "rebuild" /\ j.run = job[e].run /\ j.todo = job[e].todo
          /\ j.seen = job[e].seen /\ j.expect = job[e].target
        BY <1>3 DEF Job
    <2> HIDE DEF j
    <2> QED BY <1>1, <1>2, <1>3, <1>4, <2>1, StaysAtTask
           DEF TargetOK, AtHand, Ended, Status, AtATask
<1>5. CASE Status(e) # job[e].target /\ Handle(e)
    BY <1>1, <1>2, <1>5, HandlesIt DEF AtHand, Status
<1> QED BY <1>4, <1>5 DEF RereadTask

LEMMA SettleKeeps ==
    ASSUME SubmissionInv, NEW e \in Executor, SettleTask(e), UNCHANGED fullVars
    PROVE  SubmissionInv'
<1> DEFINE j == [job[e] EXCEPT !.pc = "rebuild", !.expect = job[e].target]
<1>1. job[e].pc = "settle" /\ job[e].pc \in AtATask
    BY DEF SettleTask, At, AtATask
<1>2. job[e] \in Job /\ job[e].target \in Successful /\ Successful \subseteq Terminal
    BY <1>1, AtWork, StatusesDiffer DEF AtATask, JobOK, TargetOK
<1>3. CASE Wins(e, "collecting", job[e].target) /\ Continue(e, j)
    <2>1. StoreStep(e) /\ task'[R(e)][D(e)] = job[e].target
          /\ \A d \in Dataset : d # D(e) => task'[R(e)][d] = task[R(e)][d]
        BY <1>1, <1>2, <1>3, TaskWritten, StatusesDiffer DEF SettleTask, OnlyTask, Others, Wins
    <2>2. lease' = lease
        BY DEF SettleTask, OnlyTask
    <2>3. j \in Job /\ j.pc = "rebuild" /\ j.run = job[e].run /\ j.todo = job[e].todo
          /\ j.seen = job[e].seen /\ j.expect = job[e].target
        BY <1>2 DEF Job
    <2> HIDE DEF j
    <2> QED BY <1>1, <1>2, <1>3, <2>1, <2>2, <2>3, StaysAtTask
           DEF TargetOK, AtHand, Ended, AtATask
<1>4. CASE Loses(e, "collecting") /\ Handle(e)
    <2>1. StoreStep(e) /\ UNCHANGED <<task, lease>>
        BY <1>4, StoreUntouched DEF SettleTask, OnlyTask, Loses, OnlyLocal, storeVars
    <2> QED BY <1>1, <1>4, <2>1, HandlesIt DEF AtHand, Loses, Status
<1> QED BY <1>3, <1>4 DEF SettleTask

LEMMA ExistingKeeps ==
    ASSUME SubmissionInv, NEW e \in Executor, ReadExisting(e), UNCHANGED fullVars
    PROVE  SubmissionInv'
<1>1. job[e].pc = "existing" /\ job[e].pc \in AtATask
    BY DEF ReadExisting, At, AtATask
<1>2. StoreStep(e) /\ UNCHANGED <<task, lease>>
    BY StoreUntouched DEF ReadExisting, OnlyLocal, storeVars
<1>3. job[e] \in Job
    BY <1>1, AtWork DEF AtATask
<1>4. PICK pc \in {"fail", "warn"} :
            Continue(e, [job[e] EXCEPT !.target = FailedAs(D(e)), !.pc = pc])
    BY DEF ReadExisting
<1> DEFINE j == [job[e] EXCEPT !.target = FailedAs(D(e)), !.pc = pc]
<1>5. j \in Job /\ j.pc = pc /\ j.run = job[e].run /\ j.todo = job[e].todo
      /\ j.seen = job[e].seen /\ j.token = job[e].token /\ j.target \in Failed
    BY <1>3, <1>4, FailedAsType DEF Job
<1>6. Continue(e, j)
    BY <1>4
<1> HIDE DEF j
<1> QED BY <1>1, <1>2, <1>4, <1>5, <1>6, StaysAtTask DEF TargetOK, AtHand, Fenced, Holds, AtATask

LEMMA WarnKeeps ==
    ASSUME SubmissionInv, NEW e \in Executor, WarnSnapshot(e), UNCHANGED fullVars
    PROVE  SubmissionInv'
<1>1. job[e].pc = "warn" /\ job[e].pc \in AtATask
    BY DEF WarnSnapshot, At, AtATask
<1>2. StoreStep(e) /\ UNCHANGED <<task, lease>>
    BY StoreUntouched DEF WarnSnapshot, OnlyLocal, storeVars
<1>3. job[e] \in Job /\ job[e].target \in Failed
    BY <1>1, AtWork DEF AtATask, JobOK, TargetOK
<1>4. PICK pc \in {"fail", "fenced"} :
            Goto(e, pc) /\ (pc = "fenced" => ~Fenced(R(e), D(e), job[e].token))
    BY DEF WarnSnapshot
<1>5. pc \in AtATask /\ [job[e] EXCEPT !.pc = pc].pc = pc
      /\ [job[e] EXCEPT !.pc = pc].token = job[e].token
      /\ [job[e] EXCEPT !.pc = pc].target = job[e].target
    BY <1>3, <1>4 DEF Job, AtATask
<1>6. job'[e] = [job[e] EXCEPT !.pc = pc] => TargetOK(e)'
    BY <1>3, <1>4, <1>5 DEF TargetOK
<1>7. job'[e] = [job[e] EXCEPT !.pc = pc] /\ R(e)' = R(e) /\ D(e)' = D(e) /\ AtHand(e)
        => AtHand(e)'
    BY <1>1, <1>2, <1>4, <1>5 DEF AtHand, Fenced, Holds
<1> QED BY <1>1, <1>2, <1>4, <1>5, <1>6, <1>7, GoesTo

LEMMA FailKeeps ==
    ASSUME SubmissionInv, NEW e \in Executor, FailTask(e), UNCHANGED fullVars
    PROVE  SubmissionInv'
<1> DEFINE j == [job[e] EXCEPT !.pc = "rebuild", !.expect = job[e].target]
<1>1. job[e].pc = "fail" /\ job[e].pc \in AtATask
    BY DEF FailTask, At, AtATask
<1>2. job[e] \in Job /\ job[e].target \in Failed /\ Failed \subseteq Terminal
    BY <1>1, AtWork, StatusesDiffer DEF AtATask, JobOK, TargetOK
<1>3. CASE Wins(e, "collecting", job[e].target)
    <2>1. StoreStep(e) /\ task'[R(e)][D(e)] = job[e].target
          /\ \A d \in Dataset : d # D(e) => task'[R(e)][d] = task[R(e)][d]
        BY <1>1, <1>2, <1>3, TaskWritten, StatusesDiffer DEF FailTask, OnlyTask, Others, Wins
    <2>2. lease' = lease
        BY DEF FailTask, OnlyTask
    <2>3. CASE Continue(e, j)
        <3>1. j \in Job /\ j.pc = "rebuild" /\ j.run = job[e].run /\ j.todo = job[e].todo
              /\ j.seen = job[e].seen /\ j.expect = job[e].target
            BY <1>2 DEF Job
        <3> HIDE DEF j
        <3> QED BY <1>1, <1>2, <2>1, <2>2, <2>3, <3>1, StaysAtTask
               DEF TargetOK, AtHand, Ended, AtATask
    <2>4. CASE Goto(e, "release")
        <3>1. [job[e] EXCEPT !.pc = "release"].pc = "release"
            BY <1>2 DEF Job
        <3> QED BY <1>1, <1>2, <2>1, <2>2, <2>4, <3>1, GoesTo
               DEF TargetOK, AtHand, Ended, AtATask
    <2> QED BY <1>3, <2>3, <2>4 DEF FailTask, Wins, Loses
<1>4. CASE Loses(e, "collecting") /\ Raise(e)
    <2>1. StoreStep(e) /\ UNCHANGED <<task, lease>>
        BY <1>4, StoreUntouched DEF FailTask, OnlyTask, Loses, OnlyLocal, storeVars
    <2> QED BY <1>1, <1>4, <2>1, RaisesIt DEF AtHand, Loses, Status
<1> QED BY <1>3, <1>4 DEF FailTask

LEMMA RebuildKeeps ==
    ASSUME SubmissionInv, NEW e \in Executor, RebuildAggregate(e), UNCHANGED fullVars
    PROVE  SubmissionInv'
<1>1. job[e].pc = "rebuild" /\ job[e].pc \in AtATask
    BY DEF RebuildAggregate, At, AtATask
<1>2. job[e] \in Job
    BY <1>1, AtWork DEF AtATask
<1>3. PICK status \in {job[e].expect, Degraded(job[e].expect)} :
          \/ Wins(e, job[e].expect, status) /\ Goto(e, "release")
          \/ Loses(e, job[e].expect) /\ Raise(e)
    BY DEF RebuildAggregate
<1>4. CASE Wins(e, job[e].expect, status) /\ Goto(e, "release")
    <2>1. status \in Terminal
        <3>1. job[e].expect \in Terminal
            BY <1>1, AtWork DEF AtATask, JobOK, TargetOK
        <3> QED BY <1>3, <3>1 DEF Degraded, Terminal, Successful
    <2>2. StoreStep(e) /\ task'[R(e)][D(e)] = status
          /\ \A d \in Dataset : d # D(e) => task'[R(e)][d] = task[R(e)][d]
        BY <1>1, <1>4, <2>1, TaskWritten, StatusesDiffer
           DEF RebuildAggregate, OnlyTask, Others, Wins
    <2>3. lease' = lease
        BY DEF RebuildAggregate, OnlyTask
    <2>4. [job[e] EXCEPT !.pc = "release"].pc = "release"
        BY <1>2 DEF Job
    <2> QED BY <1>1, <1>4, <2>1, <2>2, <2>3, <2>4, GoesTo
           DEF TargetOK, AtHand, Ended, AtATask
<1>5. CASE Loses(e, job[e].expect) /\ Raise(e)
    <2>1. StoreStep(e) /\ UNCHANGED <<task, lease>>
        BY <1>5, StoreUntouched DEF RebuildAggregate, OnlyTask, Loses, OnlyLocal, storeVars
    <2> QED BY <1>1, <1>5, <2>1, RaisesIt DEF AtHand, Loses, Status
<1> QED BY <1>3, <1>4, <1>5

LEMMA QuietlyKeeps ==
    ASSUME SubmissionInv, NEW e \in Executor, RebuildQuietly(e), UNCHANGED fullVars
    PROVE  SubmissionInv'
<1>1. job[e].pc = "rebuild" /\ job[e].pc \in AtATask /\ Goto(e, "release")
    BY DEF RebuildQuietly, At, AtATask
<1>2. StoreStep(e) /\ UNCHANGED <<task, lease>>
    BY StoreUntouched DEF RebuildQuietly, OnlyLocal, storeVars
<1>3. [job[e] EXCEPT !.pc = "release"].pc = "release"
    BY <1>1, AtWork DEF Job, AtATask
<1> QED BY <1>1, <1>2, <1>3, GoesTo DEF TargetOK, AtHand, Ended, AtATask

LEMMA FencedKeeps ==
    ASSUME SubmissionInv, NEW e \in Executor, ReadFencedTask(e), UNCHANGED fullVars
    PROVE  SubmissionInv'
<1> DEFINE target == IF Status(e) \in Terminal THEN Status(e) ELSE FailedAs(D(e))
           j == [job[e] EXCEPT !.pc = "refuse", !.expect = Status(e), !.target = target]
<1>1. job[e].pc = "fenced" /\ job[e].pc \in AtATask
    BY DEF ReadFencedTask, At, AtATask
<1>2. StoreStep(e) /\ UNCHANGED <<task, lease>>
    BY StoreUntouched DEF ReadFencedTask, OnlyLocal, storeVars
<1>3. job[e] \in Job /\ Status(e) \in Active \union Terminal
    BY <1>1, AtWork DEF AtATask
<1>4. target \in Terminal
    BY FailedAsType
<1>5. Continue(e, j)
    BY DEF ReadFencedTask
<1> HIDE DEF target
<1>6. j \in Job /\ j.pc = "refuse" /\ j.run = job[e].run /\ j.todo = job[e].todo
      /\ j.seen = job[e].seen /\ j.target \in Terminal
    BY <1>3, <1>4 DEF Job
<1> HIDE DEF j
<1> QED BY <1>1, <1>2, <1>5, <1>6, StaysAtTask DEF TargetOK, AtHand, AtATask

LEMMA RefuseKeeps ==
    ASSUME SubmissionInv, NEW e \in Executor, RefuseTask(e), UNCHANGED fullVars
    PROVE  SubmissionInv'
<1>1. job[e].pc = "refuse" /\ job[e].pc \in AtATask
    BY DEF RefuseTask, At, AtATask
<1>2. job[e] \in Job /\ job[e].target \in Terminal /\ ~AtHand(e)
    BY <1>1, AtWork DEF AtATask, JobOK, TargetOK, AtHand
<1>3. CASE Wins(e, job[e].expect, job[e].target) /\ Goto(e, "release")
    <2>1. StoreStep(e) /\ \A d \in Dataset : d # D(e) => task'[R(e)][d] = task[R(e)][d]
        BY <1>1, <1>2, <1>3, TaskWritten, StatusesDiffer DEF RefuseTask, OnlyTask, Others, Wins
    <2>2. [job[e] EXCEPT !.pc = "release"].pc = "release" /\ lease' = lease
        BY <1>2 DEF Job, RefuseTask, OnlyTask
    <2> QED BY <1>1, <1>2, <1>3, <2>1, <2>2, GoesTo DEF TargetOK, AtATask
<1>4. CASE Loses(e, job[e].expect) /\ Goto(e, "abandon")
    <2>1. StoreStep(e) /\ UNCHANGED <<task, lease>>
        BY <1>4, StoreUntouched DEF RefuseTask, OnlyTask, Loses, OnlyLocal, storeVars
    <2>2. [job[e] EXCEPT !.pc = "abandon"].pc = "abandon"
        BY <1>2 DEF Job
    <2> QED BY <1>1, <1>2, <1>4, <2>1, <2>2, GoesTo DEF TargetOK, AtATask
<1> QED BY <1>3, <1>4 DEF RefuseTask

LEMMA IntegrityKeeps ==
    ASSUME SubmissionInv, NEW e \in Executor, FailOnCorruption(e), UNCHANGED fullVars
    PROVE  SubmissionInv'
<1>1. job[e].pc = "integrity" /\ job[e].pc \in AtATask
    BY DEF FailOnCorruption, At, AtATask
<1>2. job[e] \in Job
    BY <1>1, AtWork DEF AtATask
<1>3. CASE Wins(e, "collecting", "failed-retained") /\ Goto(e, "parent")
    <2>1. "failed-retained" \in Terminal
        BY DEF Terminal, Failed
    <2>2. StoreStep(e) /\ task'[R(e)][D(e)] = "failed-retained"
          /\ \A d \in Dataset : d # D(e) => task'[R(e)][d] = task[R(e)][d]
        BY <1>1, <1>3, <2>1, TaskWritten, StatusesDiffer DEF FailOnCorruption, OnlyTask, Others, Wins
    <2>3. [job[e] EXCEPT !.pc = "parent"].pc = "parent" /\ lease' = lease
        BY <1>2 DEF Job, FailOnCorruption, OnlyTask
    <2> QED BY <1>1, <1>3, <2>1, <2>2, <2>3, GoesTo DEF TargetOK, AtHand, Ended, AtATask
<1>4. CASE Loses(e, "collecting") /\ Goto(e, "abandon")
    <2>1. StoreStep(e) /\ UNCHANGED <<task, lease>>
        BY <1>4, StoreUntouched DEF FailOnCorruption, OnlyTask, Loses, OnlyLocal, storeVars
    <2>2. [job[e] EXCEPT !.pc = "abandon"].pc = "abandon" /\ ~AtHand(e)
        BY <1>1, <1>2, <1>4 DEF Job, AtHand, Loses, Status
    <2> QED BY <1>1, <1>4, <2>1, <2>2, GoesTo DEF TargetOK, AtATask
<1> QED BY <1>3, <1>4 DEF FailOnCorruption

LEMMA ParentKeeps ==
    ASSUME SubmissionInv, NEW e \in Executor, ReadParent(e), UNCHANGED fullVars
    PROVE  SubmissionInv'
<1> DEFINE j == [job[e] EXCEPT !.pc = "verdict", !.target = Verdict(Statuses(R(e)))]
<1>1. job[e].pc = "parent" /\ job[e].pc \in AtATask
    BY DEF ReadParent, At, AtATask
<1>2. StoreStep(e) /\ UNCHANGED <<task, lease>>
    BY StoreUntouched DEF ReadParent, OnlyLocal, storeVars
<1>3. job[e] \in Job /\ Verdict(Statuses(R(e))) \in RunTerminal
    BY <1>1, AtWork, VerdictType DEF AtATask
<1>4. CASE Continue(e, j)
    <2>1. j \in Job /\ j.pc = "verdict" /\ j.run = job[e].run /\ j.todo = job[e].todo
          /\ j.seen = job[e].seen /\ j.target \in RunTerminal
        BY <1>3 DEF Job
    <2> HIDE DEF j
    <2> QED BY <1>1, <1>2, <1>4, <2>1, StaysAtTask DEF TargetOK, AtHand, Ended, AtATask
<1>5. CASE Goto(e, "release")
    <2>1. [job[e] EXCEPT !.pc = "release"].pc = "release"
        BY <1>3 DEF Job
    <2> QED BY <1>1, <1>2, <1>5, <2>1, GoesTo DEF TargetOK, AtHand, Ended, AtATask
<1> QED BY <1>4, <1>5 DEF ReadParent

LEMMA VerdictKeeps ==
    ASSUME SubmissionInv, NEW e \in Executor, SettleParent(e), UNCHANGED fullVars
    PROVE  SubmissionInv'
<1>1. job[e].pc = "verdict" /\ job[e].pc \in AtATask /\ Goto(e, "release")
    BY DEF SettleParent, At, AtATask
<1>2. job[e] \in Job /\ R(e) \in Run /\ job[e].target \in RunTerminal
    BY <1>1, AtWork DEF AtATask, JobOK, TargetOK
<1>3. StoreStep(e) /\ UNCHANGED <<task, lease>>
    BY <1>2, RunWritten DEF SettleParent, OnlyRun, Others
<1>4. [job[e] EXCEPT !.pc = "release"].pc = "release"
    BY <1>2 DEF Job
<1> QED BY <1>1, <1>3, <1>4, GoesTo DEF TargetOK, AtHand, Ended, AtATask

LEMMA ReleaseKeeps ==
    ASSUME SubmissionInv, NEW e \in Executor, Release(e), UNCHANGED fullVars
    PROVE  SubmissionInv'
<1>1. job[e].pc \in {"release", "abandon"} /\ job[e].pc \in AtATask
    BY DEF Release, AtATask
<1>2. StoreStep(e) /\ (\A d \in Dataset : d # D(e) => lease'[d] = lease[d]) /\ task' = task
    BY <1>1, LeaseDropped DEF Release, NoTaskChange, Others
<1>3. CASE At(e, "release") /\ NextDataset(e)
    BY <1>1, <1>2, <1>3, TakesNext DEF AtHand, Ended, At
<1>4. CASE At(e, "abandon") /\ Stop(e)
    <2>1. ~ExecutionOK(e)
        BY <1>1, <1>4 DEF ExecutionOK, AtHand, At
    <2> QED BY <1>1, <1>2, <1>4, <2>1, StopsHere DEF AtATask
<1> QED BY <1>1, <1>3, <1>4 DEF Release, At

-----------------------------------------------------------------------------
(* A run leaves the queue for a thread *)

LEMMA StartKeeps ==
    ASSUME SubmissionInv, NEW e \in Executor, StartJob(e), UNCHANGED fullVars
    PROVE  SubmissionInv'
<1>1. /\ ShapesOK /\ TypeOK /\ job[e] = Idle /\ job[e].run = NoRun
      /\ queue \in Seq(Run) /\ queue # <<>> /\ job \in [Executor -> Job]
    <2>1. ShapesOK /\ TypeOK /\ JobOK(e)
        BY DEF SubmissionInv, ShapesOK
    <2>2. job[e].pc = "idle" /\ queue # <<>>
        BY DEF StartJob, At
    <2>3. job[e] = Idle
        BY <2>1, <2>2 DEF JobOK
    <2> QED BY <2>1, <2>2, <2>3 DEF TypeOK, ExecutionTypeOK, Idle
<1>2. PICK r \in Run : r = Head(queue)
    BY <1>1
<1>3. /\ queue' \in Seq(Run) /\ Len(queue') = Len(queue) - 1 /\ Len(queue) \in Nat \ {0}
      /\ queue[1] = r /\ \A i \in 1 .. Len(queue') : queue'[i] = queue[i + 1]
    BY <1>1, <1>2 DEF StartJob
<1>4. DOMAIN queue = 1 .. Len(queue) /\ DOMAIN queue' = 1 .. Len(queue')
    BY <1>1, <1>3
<1> DEFINE j == [Idle EXCEPT !.pc = "sweep", !.run = Head(queue)]
<1>5. j \in Job /\ j.pc = "sweep" /\ j.run = r /\ j.seen = {}
    BY <1>2 DEF Idle, Job
<1>6. job'[e] = j /\ (\A f \in Executor \ {e} : job'[f] = job[f])
      /\ job' \in [Executor -> Job]
    BY <1>1, <1>5 DEF StartJob
<1> HIDE DEF j
<1>7. UNCHANGED <<storeVars, reader, fullVars>>
    BY DEF StartJob
<1>8. ASSUME NEW q \in Run
      PROVE  /\ PlacedOnce(q) => PlacedOnce(q)'
             /\ Placed(q)' => Placed(q)
             /\ \A i \in DOMAIN queue' : i + 1 \in DOMAIN queue /\ queue'[i] = queue[i + 1]
             /\ q # NoRun
    <2>1. \A i \in DOMAIN queue' : i + 1 \in DOMAIN queue /\ queue'[i] = queue[i + 1] /\ i \in Nat /\ i >= 1
        BY <1>3, <1>4
    <2>2. 1 \in DOMAIN queue
        BY <1>3, <1>4
    <2>3. \A f \in Executor : job'[f].run = q => (f = e /\ q = r) \/ job[f].run = q
        BY <1>5, <1>6
    <2>4. Placed(q)' => Placed(q)
        BY <1>3, <2>1, <2>2, <2>3 DEF Placed
    <2>5. ASSUME PlacedOnce(q) PROVE PlacedOnce(q)'
        <3>1. \A f, g \in Executor : job'[f].run = q /\ job'[g].run = q => f = g
            BY <1>3, <2>2, <2>3, <2>5 DEF PlacedOnce
        <3>2. \A i, k \in DOMAIN queue' : queue'[i] = q /\ queue'[k] = q => i = k
            <4> SUFFICES ASSUME NEW i \in DOMAIN queue', NEW k \in DOMAIN queue',
                                queue'[i] = q, queue'[k] = q
                         PROVE  i = k
                OBVIOUS
            <4>1. i + 1 = k + 1
                BY <2>1, <2>5 DEF PlacedOnce
            <4> QED BY <2>1, <4>1
        <3>3. \A i \in DOMAIN queue', f \in Executor : ~(queue'[i] = q /\ job'[f].run = q)
            <4> SUFFICES ASSUME NEW i \in DOMAIN queue', NEW f \in Executor,
                                queue'[i] = q, job'[f].run = q
                         PROVE  FALSE
                OBVIOUS
            <4>1. i + 1 \in DOMAIN queue /\ queue[i + 1] = q /\ i + 1 # 1
                BY <2>1
            <4>2. CASE job[f].run = q
                BY <2>5, <4>1, <4>2 DEF PlacedOnce
            <4>3. CASE q = r
                BY <1>3, <2>2, <2>5, <4>1, <4>3 DEF PlacedOnce
            <4> QED BY <2>3, <4>2, <4>3
        <3> QED BY <3>1, <3>2, <3>3 DEF PlacedOnce
    <2> QED BY <2>1, <2>4, <2>5, StoreAssumption
<1>9. \A q \in Run : Frame(q)
    BY <1>7, <1>8 DEF Frame, storeVars, fullVars
<1>10. ShapesOK'
    <2>1. TypeOK'
        BY <1>1, <1>3, <1>6, <1>7
           DEF TypeOK, StoreTypeOK, ExecutionTypeOK, storeVars, fullVars, boundVars
    <2>2. \A q \in Run : KeyOK(q)'
        BY <1>1, <1>7, <1>9, KeyStays DEF Grows, storeVars
    <2>3. \A f \in Executor : JobOK(f)'
        <3> SUFFICES ASSUME NEW f \in Executor PROVE JobOK(f)'
            OBVIOUS
        <3>1. CASE f = e
            BY <1>5, <1>6, <1>8, <3>1 DEF JobOK, TargetOK, AtATask
        <3>2. CASE f # e
            BY <1>1, <1>6, <3>2 DEF ShapesOK, JobOK, TargetOK
        <3> QED BY <3>1, <3>2
    <2>4. \A c \in Reader : ReaderOK(c)' /\ CallerOK(c)'
        BY <1>1, <1>7 DEF ShapesOK, ReaderOK, CallerOK, fullVars, Subject
    <2>5. \A d \in Dataset : RowOK(d)'
        BY <1>1, <1>7 DEF ShapesOK, RowOK, storeVars
    <2> QED BY <2>1, <2>2, <2>3, <2>4, <2>5 DEF ShapesOK
<1>11. ASSUME NEW q \in Run, q # r PROVE Quiet(q)
    <2> SUFFICES ASSUME Calm(q), CalmOK(q)
                 PROVE  /\ \A f \in Executor : job'[f].run = q => job'[f] = job[f]
                        /\ \A f \in Executor, d \in Dataset : <<q, d>> \notin job'[f].seen
                        /\ \A i \in DOMAIN queue' : queue'[i] = q =>
                                \E k \in DOMAIN queue : queue[k] = q
        BY <1>7, <1>9 DEF Quiet, CalmOK, storeVars
    <2>1. \A f \in Executor, d \in Dataset : <<q, d>> \notin job'[f].seen
        BY <1>5, <1>6 DEF CalmOK
    <2> QED BY <1>5, <1>6, <1>8, <1>11, <2>1
<1>12. Attended(r)' /\ PlacedByOne(r)'
    BY <1>1, <1>9, FrameKeeps DEF SubmissionInv
<1>13. ASSUME Calm(r)' PROVE CalmOK(r)'
    <2>1. Calm(r) /\ CalmOK(r)
        BY <1>7, <1>13 DEF Calm, SubmissionInv, storeVars, fullVars
    <2>2. 1 \in DOMAIN queue
        BY <1>3, <1>4
    <2>3. PlacedOnce(r)' /\ Placed(r) /\ \A f \in Executor : job[f].run # r
        BY <1>3, <1>8, <2>1, <2>2 DEF CalmOK, PlacedOnce, Placed
    <2>4. \A i \in DOMAIN queue' : queue'[i] # r
        BY <1>5, <1>6, <2>3 DEF PlacedOnce
    <2>5. Ready(r)'
        BY <1>3, <1>7, <2>1, <2>2 DEF CalmOK, Ready, Reserved, Ended, OwnsLive, storeVars
    <2>6. ASSUME NEW f \in Executor, job'[f].run = r PROVE ExecutionOK(f)'
        <3>1. f = e /\ job'[f].pc = "sweep" /\ R(f)' = r
            BY <1>5, <1>6, <2>3, <2>6 DEF R
        <3> QED BY <2>5, <3>1 DEF ExecutionOK, AtATask, BeforeTheTasks, AfterTheTasks
    <2>7. \A f \in Executor, d \in Dataset : <<r, d>> \notin job'[f].seen
        BY <1>5, <1>6, <2>1 DEF CalmOK
    <2>8. ASSUME NEW c \in Reader, Attends(c, r)' PROVE PreparedBy(c, r)'
        <3>1. PreparedBy(c, r) /\ caller' = caller /\ task' = task /\ lease' = lease
            BY <1>7, <2>1, <2>8 DEF CalmOK, Attends, Subject, storeVars, fullVars
        <3> QED BY <2>3, <3>1 DEF PreparedBy, Ready, Reserved, Ended, OwnsLive
    <2>9. binding' = binding /\ task' = task /\ lease' = lease /\ reader' = reader
        BY <1>7 DEF storeVars, fullVars
    <2> QED BY <2>1, <2>3, <2>4, <2>6, <2>7, <2>8, <2>9 DEF CalmOK, OwnsLive
<1> QED BY <1>10, <1>11, <1>12, <1>13, OnlyThisRun

-----------------------------------------------------------------------------
(* A sweep makes tasks fail, but none of a run that is calm.               *)

LEMMA ExpireMoves ==
    ASSUME SubmissionInv, NEW rows \in SUBSET Task, ExpireTasks(rows)
    PROVE  /\ StoreTypeOK' /\ Grows
           /\ \A r \in Run, d \in Dataset :
                 /\ task'[r][d] = "queued" => task[r][d] = "queued"
                 /\ Ended(r, d) => task'[r][d] \in Terminal
                 /\ task'[r][d] = IF <<r, d>> \in rows THEN FailedAs(d) ELSE task[r][d]
           /\ \A r \in Run : (\A d \in Dataset : <<r, d>> \notin rows) => task'[r] = task[r]
           /\ UNCHANGED <<lease, snapshot, lapsed>>
<1>1. StoreTypeOK
    BY DEF SubmissionInv, ShapesOK, TypeOK
<1>2. ASSUME NEW r \in Run, NEW d \in Dataset
      PROVE  /\ task'[r][d] = IF <<r, d>> \in rows THEN FailedAs(d) ELSE task[r][d]
             /\ task'[r][d] \in {"absent"} \union Active \union Terminal
             /\ task'[r][d] = "queued" => task[r][d] = "queued"
             /\ Ended(r, d) => task'[r][d] \in Terminal
             /\ task[r][d] # "absent" => task'[r][d] # "absent"
    <2>1. FailedAs(d) \in Terminal /\ task[r][d] \in {"absent"} \union Active \union Terminal
        BY <1>1, FailedAsType DEF StoreTypeOK
    <2>2. task'[r][d] = IF <<r, d>> \in rows THEN FailedAs(d) ELSE task[r][d]
        BY DEF ExpireTasks
    <2> QED BY <2>1, <2>2, StatusesDiffer DEF Ended
<1>3. task' \in [Run -> [Dataset -> {"absent"} \union Active \union Terminal]]
    BY <1>2 DEF ExpireTasks
<1>4. ASSUME NEW r \in Run
      PROVE  /\ run'[r] \in {"absent"} \union Active \union RunTerminal
             /\ run[r] # "absent" => run'[r] # "absent"
    <2>1. PICK statuses : run'[r] \in {Verdict(statuses), run[r]}
        BY DEF ExpireTasks
    <2>2. Verdict(statuses) \in RunTerminal /\ "absent" \notin RunTerminal
        BY VerdictType DEF RunTerminal
    <2> QED BY <1>1, <2>1, <2>2 DEF StoreTypeOK
<1>5. run' \in [Run -> {"absent"} \union Active \union RunTerminal]
    BY <1>4 DEF ExpireTasks
<1>6. ASSUME NEW r \in Run, \A d \in Dataset : <<r, d>> \notin rows
      PROVE  task'[r] = task[r]
    BY <1>1, <1>6 DEF ExpireTasks, StoreTypeOK
<1>7. UNCHANGED <<lease, snapshot, lapsed>>
    BY DEF ExpireTasks
<1> QED BY <1>1, <1>2, <1>3, <1>4, <1>5, <1>6, <1>7 DEF StoreTypeOK, Grows

LEMMA SweepKeeps ==
    ASSUME SubmissionInv, NEW e \in Executor, SweepExpire(e), UNCHANGED fullVars
    PROVE  SubmissionInv'
<1>0. PICK r \in Run : r = R(e)
    BY AtWork DEF SweepExpire, At
<1>1. /\ ShapesOK /\ TypeOK /\ JobOK(e) /\ job[e] \in Job /\ r = R(e) /\ r # NoRun
      /\ job[e].run = r /\ job[e].pc = "expire" /\ job[e].seen \in SUBSET Task
    BY <1>0, AtWork DEF SubmissionInv, SweepExpire, At, R, Job
<1> DEFINE j == [job[e] EXCEPT !.pc = "begin", !.seen = {}]
<1>2. /\ j \in Job /\ j.pc = "begin" /\ j.run = r /\ j.seen = {}
    BY <1>1 DEF Job
<1>3. job'[e] = j /\ (\A f \in Executor \ {e} : job'[f] = job[f])
      /\ job' \in [Executor -> Job]
    BY <1>1, <1>2 DEF SweepExpire, Continue, TypeOK, ExecutionTypeOK
<1> HIDE DEF j
<1>4. UNCHANGED <<queue, reader, fullVars>>
    BY DEF SweepExpire
<1>5. /\ StoreTypeOK' /\ Grows /\ UNCHANGED <<lease, snapshot, lapsed>>
      /\ \A q \in Run, d \in Dataset : task'[q][d] = "queued" => task[q][d] = "queued"
      /\ \A q \in Run : (\A d \in Dataset : <<q, d>> \notin job[e].seen) => task'[q] = task[q]
    BY <1>1, ExpireMoves DEF SweepExpire
<1>6. \A f \in Executor : job'[f].run = job[f].run
    BY <1>1, <1>2, <1>3
<1>7. ASSUME NEW q \in Run PROVE Frame(q)
    <2>1. (PlacedOnce(q) => PlacedOnce(q)') /\ (Placed(q)' => Placed(q))
        BY <1>4, <1>6 DEF PlacedOnce, Placed
    <2> QED BY <1>4, <1>5, <2>1 DEF Frame, fullVars
<1>8. ShapesOK'
    <2>1. TypeOK'
        BY <1>1, <1>3, <1>4, <1>5
           DEF TypeOK, ExecutionTypeOK, fullVars, boundVars
    <2>2. \A q \in Run : KeyOK(q)'
        BY <1>1, <1>5, <1>7, KeyStays
    <2>3. \A f \in Executor : JobOK(f)'
        <3> SUFFICES ASSUME NEW f \in Executor PROVE JobOK(f)'
            OBVIOUS
        <3>1. CASE f = e
            BY <1>1, <1>2, <1>3, <3>1 DEF JobOK, TargetOK, AtATask
        <3>2. CASE f # e
            BY <1>1, <1>3, <3>2 DEF ShapesOK, JobOK, TargetOK
        <3> QED BY <3>1, <3>2
    <2>4. \A c \in Reader : ReaderOK(c)' /\ CallerOK(c)'
        BY <1>1, <1>4 DEF ShapesOK, ReaderOK, CallerOK, fullVars, Subject
    <2>5. \A d \in Dataset : RowOK(d)'
        BY <1>1, <1>5 DEF ShapesOK, RowOK
    <2> QED BY <2>1, <2>2, <2>3, <2>4, <2>5 DEF ShapesOK
<1>9. ASSUME NEW q \in Run, Calm(q), CalmOK(q)
      PROVE  /\ task'[q] = task[q]
             /\ \A f \in Executor, d \in Dataset : <<q, d>> \notin job'[f].seen
    BY <1>1, <1>2, <1>3, <1>5, <1>9 DEF CalmOK
<1>10. ASSUME NEW q \in Run, q # r PROVE Quiet(q)
    <2>1. \A f \in Executor : job'[f].run = q => job'[f] = job[f]
        BY <1>2, <1>3, <1>10
    <2> QED BY <1>4, <1>5, <1>7, <1>9, <2>1 DEF Quiet, CalmOK
<1>11. Attended(r)' /\ PlacedByOne(r)'
    BY <1>1, <1>7, FrameKeeps DEF SubmissionInv
<1>12. ASSUME Calm(r)' PROVE CalmOK(r)'
    <2>1. Calm(r) /\ CalmOK(r)
        BY <1>4, <1>5, <1>12 DEF Calm, SubmissionInv, fullVars
    <2>2. task'[r] = task[r] /\ \A f \in Executor, d \in Dataset : <<r, d>> \notin job'[f].seen
        BY <1>9, <2>1
    <2>3. /\ \A d \in Dataset : Reserved(r, d) => Reserved(r, d)'
          /\ \A d \in Dataset : Ended(r, d) => Ended(r, d)'
          /\ Ready(r) => Ready(r)'
        BY <1>5, <2>2 DEF Reserved, Ended, Ready, OwnsLive
    <2>4. PlacedOnce(r)' /\ (Placed(r)' => Placed(r))
        BY <1>7, <2>1 DEF Frame, CalmOK
    <2>5. ASSUME NEW f \in Executor, job'[f].run = r PROVE ExecutionOK(f)'
        <3>1. f = e
            BY <1>1, <1>6, <2>1, <2>5 DEF CalmOK, PlacedOnce
        <3>2. R(e)' = r /\ job'[e].pc = "begin"
            BY <1>2, <1>3 DEF R
        <3>3. Ready(r)
            BY <1>1, <2>1 DEF CalmOK, ExecutionOK, BeforeTheTasks
        <3> QED BY <2>3, <3>1, <3>2, <3>3
               DEF ExecutionOK, AtATask, BeforeTheTasks, AfterTheTasks
    <2>6. ASSUME NEW c \in Reader, Attends(c, r)' PROVE PreparedBy(c, r)'
        <3>1. PreparedBy(c, r) /\ caller' = caller
            BY <1>4, <2>1, <2>6 DEF CalmOK, Attends, Subject, fullVars
        <3>2. caller[c].pc \in {"task", "reserve", "yield"} =>
                \A d \in Dataset \ caller[c].todo : Ended(r, d)' \/ Reserved(r, d)'
            BY <2>3, <3>1 DEF PreparedBy
        <3>3. /\ caller[c].pc \in Unlaunched => \A d \in Dataset : task'[r][d] # "collecting"
              /\ caller[c].pc \in {"observed", "launch"} => Ready(r)'
              /\ caller[c].pc \in Preparing /\ Placed(r)' => \A d \in Dataset : Ended(r, d)'
              /\ caller[c].pc \in Retreating => ~Placed(r)'
            BY <2>2, <2>3, <2>4, <3>1 DEF PreparedBy
        <3> QED BY <3>1, <3>2, <3>3 DEF PreparedBy
    <2>7. binding' = binding /\ lease' = lease /\ queue' = queue /\ reader' = reader
        BY <1>4, <1>5 DEF fullVars
    <2> QED BY <2>1, <2>2, <2>3, <2>4, <2>5, <2>6, <2>7 DEF CalmOK, OwnsLive
<1> QED BY <1>8, <1>10, <1>11, <1>12, OnlyThisRun

LEMMA ExecutorStepKeeps ==
    ASSUME SubmissionInv, NEW e \in Executor, ExecutorStep(e), UNCHANGED fullVars
    PROVE  SubmissionInv'
BY SelectKeeps, BeginKeeps, OpenKeeps, ListKeeps, FinishKeeps, CloseKeeps,
   CheckKeeps, ReservationKeeps, BlockKeeps, ClaimTaskKeeps, TokenKeeps, RenewKeeps,
   RetainedKeeps, LoseKeeps, CollectKeeps, CollectRaisesKeeps, AdmitKeeps,
   CorruptionKeeps, CommitKeeps, CommitTaskKeeps, RereadKeeps, SettleKeeps,
   ExistingKeeps, WarnKeeps, FailKeeps, RebuildKeeps, QuietlyKeeps, FencedKeeps,
   RefuseKeeps, IntegrityKeeps, ParentKeeps, VerdictKeeps, ReleaseKeeps, StartKeeps,
   SweepKeeps
   DEF ExecutorStep

-----------------------------------------------------------------------------
(* A step of request c, about run r *)

(* What it does not do: change other requests, other runs, or what the     *)
(* threads remember.                                                       *)
CallerStepOf(c, r) ==
    /\ \A b \in Reader \ {c} : caller'[b] = caller[b]
    /\ caller[c].pc = "idle" \/ Subject(c) = r
    /\ caller'[c].pc = "idle" \/ caller'[c].run = r
    /\ reader[c].pc = "idle" \/ caller[c].pc \in InGetRun
    /\ \A q \in Run \ {r} :
          task'[q] = task[q] /\ binding'[q] = binding[q] /\ overdue'[q] = overdue[q]
    /\ \A d \in Dataset :
          \/ lease'[d] = lease[d]
          \/ lease'[d].owner = r /\ lease'[d].live /\ ~lease[d].live
          \/ lease[d].owner = r /\ lease'[d] = NoLease
    /\ queue' \in {queue, Append(queue, r)}
    /\ UNCHANGED <<lapsed, job>>
    /\ \A b \in Reader : reader'[b].seen \subseteq reader[b].seen

LEMMA OthersAreQuiet ==
    ASSUME SubmissionInv, NEW c \in Reader, NEW r \in Run, CallerStepOf(c, r),
           NEW q \in Run, q # r
    PROVE  Quiet(q)
<1>1. queue \in Seq(Run) /\ q # NoRun /\ r # NoRun
    BY StoreAssumption DEF SubmissionInv, ShapesOK, TypeOK, ExecutionTypeOK
<1>2. /\ \A i \in DOMAIN queue' : queue'[i] = q => i \in DOMAIN queue /\ queue[i] = q
      /\ \A i \in DOMAIN queue : i \in DOMAIN queue'
    BY <1>1 DEF CallerStepOf
<1>3. /\ task'[q] = task[q] /\ binding'[q] = binding[q] /\ overdue'[q] = overdue[q]
      /\ lapsed' = lapsed /\ job' = job
    BY DEF CallerStepOf
<1>4. \A d \in Dataset :
          /\ lease'[d].owner = q => lease'[d] = lease[d]
          /\ OwnsLive(q, d) => lease'[d] = lease[d]
    BY <1>1 DEF CallerStepOf, NoLease, OwnsLive
<1>5. ASSUME NEW b \in Reader, Attends(b, q)' PROVE caller'[b] = caller[b]
    BY <1>5 DEF CallerStepOf, Attends, Subject, Attending, Unlaunched, Preparing, Retreating
<1>6. (PlacedOnce(q) => PlacedOnce(q)') /\ (Placed(q)' => Placed(q))
    BY <1>2, <1>3 DEF PlacedOnce, Placed
<1>7. Frame(q)
    BY <1>3, <1>4, <1>5, <1>6 DEF Frame
<1>8. CalmOK(q) => \A b \in Reader, d \in Dataset : <<q, d>> \notin reader'[b].seen
    BY DEF CallerStepOf, CalmOK
<1> QED BY <1>2, <1>3, <1>4, <1>7, <1>8 DEF Quiet, CalmOK

LEMMA CallerKeeps ==
    ASSUME SubmissionInv, NEW c \in Reader, NEW r \in Run, CallerStepOf(c, r),
           TypeOK', CallerOK(c)', ReaderOK(c)',
           \A b \in Reader \ {c} : reader'[b] = reader[b],
           \A d \in Dataset : task[r][d] # "absent" => task'[r][d] # "absent",
           run[r] # "absent" => run'[r] # "absent",
           \A q \in Run \ {r} : run'[q] = run[q],
           binding'[r].live => binding'[r].state \in {"submitting", "submitted"},
           binding'[r].state # "none",
           binding[r].state = "none" =>
                run'[r] # "absent" /\ \A d \in Dataset : task'[r][d] # "absent",
           Attended(r)', PlacedByOne(r)', Calm(r)' => CalmOK(r)'
    PROVE  SubmissionInv'
<1>1. ShapesOK
    BY DEF SubmissionInv
<1>2. \A q \in Run : q # r => Quiet(q)
    BY OthersAreQuiet
<1>3. Grows
    <2>1. \A q \in Run : run[q] # "absent" => run'[q] # "absent"
        OBVIOUS
    <2>2. \A q \in Run, d \in Dataset : task[q][d] # "absent" => task'[q][d] # "absent"
        BY DEF CallerStepOf
    <2> QED BY <2>1, <2>2 DEF Grows
<1>4. ASSUME NEW q \in Run PROVE KeyOK(q)'
    <2>1. CASE q = r
        BY <1>1, <2>1 DEF ShapesOK, KeyOK
    <2>2. CASE q # r
        BY <1>1, <1>2, <1>3, <2>2, KeyStays DEF Quiet
    <2> QED BY <2>1, <2>2
<1>5. ASSUME NEW e \in Executor PROVE JobOK(e)'
    BY <1>1 DEF ShapesOK, JobOK, TargetOK, CallerStepOf
<1>6. ASSUME NEW b \in Reader PROVE ReaderOK(b)' /\ CallerOK(b)'
    <2>1. CASE b = c
        BY <2>1
    <2>2. CASE b # c
        <3>1. ReaderOK(b) /\ CallerOK(b) /\ caller'[b] = caller[b] /\ reader'[b] = reader[b]
            BY <1>1, <2>2 DEF ShapesOK, CallerStepOf
        <3>2. caller[b].run \in Run \union {NoRun}
            BY <1>1 DEF ShapesOK, TypeOK, Call
        <3>3. caller[b].run \in Run \ {r} => binding'[caller[b].run] = binding[caller[b].run]
            BY DEF CallerStepOf
        <3> QED BY <3>1, <3>2, <3>3 DEF ReaderOK, CallerOK, Subject
    <2> QED BY <2>1, <2>2
<1>7. ASSUME NEW d \in Dataset PROVE RowOK(d)'
    BY <1>1 DEF ShapesOK, RowOK, CallerStepOf, NoLease
<1>8. ShapesOK'
    BY <1>4, <1>5, <1>6, <1>7 DEF ShapesOK
<1> QED BY <1>2, <1>8, OnlyThisRun

(* What is known of the request at the beginning of its step. *)
LEMMA AtCall ==
    ASSUME SubmissionInv, NEW c \in Reader, caller[c].pc # "idle"
    PROVE  /\ TypeOK /\ CallerOK(c) /\ caller[c] \in Call /\ Subject(c) \in Run
           /\ Subject(c) # NoRun /\ binding[Subject(c)].state # "none"
           /\ run[Subject(c)] \in Active \union RunTerminal
           /\ \A d \in Dataset : task[Subject(c)][d] \in Active \union Terminal
           /\ caller[c].todo # {} => Current(c) \in Dataset /\ Current(c) \in caller[c].todo
           /\ caller[c].pc \notin InGetRun => reader[c].pc = "idle"
<1>1. TypeOK /\ CallerOK(c) /\ ReaderOK(c) /\ caller[c] \in Call
    BY DEF SubmissionInv, ShapesOK, TypeOK
<1>2. Subject(c) \in Run /\ Subject(c) # NoRun /\ binding[Subject(c)].state # "none"
    BY <1>1 DEF CallerOK, Call, Subject
<1>3. KeyOK(Subject(c))
    BY <1>2 DEF SubmissionInv, ShapesOK
<1>4. /\ run[Subject(c)] \in Active \union RunTerminal
      /\ \A d \in Dataset : task[Subject(c)][d] \in Active \union Terminal
    BY <1>1, <1>2, <1>3 DEF KeyOK, TypeOK, StoreTypeOK
<1>5. caller[c].todo # {} => Current(c) \in Dataset /\ Current(c) \in caller[c].todo
    BY <1>1, FirstIsIn DEF Call, Current
<1>6. caller[c].pc \notin InGetRun => reader[c].pc = "idle"
    BY <1>1 DEF ReaderOK
<1> QED BY <1>1, <1>2, <1>4, <1>5, <1>6

-----------------------------------------------------------------------------
(* The request that attends to its run *)

(* No other request attends to it. *)
LEMMA OnlyOneAttends ==
    ASSUME SubmissionInv, NEW r \in Run, overdue[r] # "submitting",
           NEW c \in Reader, Attends(c, r), NEW b \in Reader, Attends(b, r)
    PROVE  b = c
<1>1. AttendedBy(b, r) /\ AttendedBy(c, r)
    BY DEF SubmissionInv, Attended
<1> QED BY <1>1 DEF AttendedBy

LEMMA AttendingKeeps ==
    ASSUME SubmissionInv, NEW c \in Reader, NEW r \in Run, CallerStepOf(c, r),
           Subject(c) = r, caller[c].pc \in Unlaunched,
           TypeOK', CallerOK(c)', ReaderOK(c)',
           \A b \in Reader \ {c} : reader'[b] = reader[b],
           run[r] # "absent" => run'[r] # "absent",
           \A q \in Run \ {r} : run'[q] = run[q],
           UNCHANGED <<queue, binding, overdue>>,
           caller'[c].pc \in Attending \union {"idle"},
           \A d \in Dataset : task'[r][d] = task[r][d] \/
                (task[r][d] = "queued" /\ task'[r][d] \in Terminal),
           AttendedBy(c, r) /\ Attends(c, r)' => AttendedBy(c, r)',
           Calm(r) /\ CalmOK(r) /\ PreparedBy(c, r) /\ Attends(c, r)' => PreparedBy(c, r)'
    PROVE  SubmissionInv'
<1>1. ShapesOK /\ TypeOK /\ Attends(c, r)
    BY DEF SubmissionInv, ShapesOK, Attends, Attending
<1>2. binding[r].state # "none" /\ r # NoRun /\ KeyOK(r) /\ r = caller[c].run
    BY AtCall DEF Unlaunched, Preparing, Retreating, SubmissionInv, ShapesOK, Subject
<1>3. lapsed' = lapsed /\ job' = job
    BY DEF CallerStepOf
<1>4. \A b \in Reader : b # c /\ Attends(b, r)' => Attends(b, r)
    BY DEF CallerStepOf, Attends, Subject
<1>5. \A d \in Dataset : task[r][d] # "absent" => task'[r][d] # "absent"
    BY StatusesDiffer
<1>6. \A d \in Dataset : /\ task'[r][d] = "queued" => task[r][d] = "queued"
                         /\ task'[r][d] = "collecting" => task[r][d] = "collecting"
                         /\ Ended(r, d) => Ended(r, d)' /\ task'[r][d] = task[r][d]
    BY StatusesDiffer DEF Ended
<1>7. (Placed(r) <=> Placed(r)') /\ (PlacedOnce(r) <=> PlacedOnce(r)')
    BY <1>3 DEF Placed, PlacedOnce
<1>8. Attended(r)'
    <2> SUFFICES ASSUME overdue[r] # "submitting", NEW b \in Reader, Attends(b, r)'
                 PROVE  AttendedBy(b, r)'
        BY DEF Attended
    <2>1. b = c
        BY <1>1, <1>4, OnlyOneAttends
    <2>2. AttendedBy(c, r)
        BY <1>1 DEF SubmissionInv, Attended
    <2> QED BY <2>1, <2>2
<1>9. PlacedByOne(r)'
    <2>1. PlacedByOne(r)
        BY DEF SubmissionInv
    <2>2. \A b \in Reader : caller'[b].run = r /\ caller'[b].pc \in Unlaunched =>
              \E a \in Reader : Subject(a) = r /\ caller[a].pc \in Unlaunched
        BY DEF Subject
    <2> QED BY <1>7, <2>1, <2>2 DEF PlacedByOne, Subject
<1>10. ASSUME Calm(r)' PROVE CalmOK(r)'
    <2>1. Calm(r) /\ CalmOK(r) /\ overdue[r] # "submitting"
        BY <1>3, <1>10 DEF Calm, SubmissionInv
    <2>2. PreparedBy(c, r) /\ AttendedBy(c, r)
        BY <1>1, <2>1 DEF CalmOK, SubmissionInv, Attended
    <2>3. \A d \in Dataset : task'[r][d] # "collecting"
        BY <1>6, <2>2 DEF PreparedBy
    <2>4. Placed(r) => \A d \in Dataset : Ended(r, d) /\ Ended(r, d)' /\ task'[r][d] = task[r][d]
        BY <1>6, <2>2 DEF PreparedBy, Unlaunched
    <2>5. \A i \in DOMAIN queue' : queue'[i] = r => Ready(r)'
        BY <2>4 DEF Placed, Ready
    <2>6. ASSUME NEW e \in Executor, job'[e].run = r PROVE ExecutionOK(e)'
        <3>1. job[e].run = r /\ Placed(r) /\ ExecutionOK(e) /\ JobOK(e) /\ job[e] \in Job
            BY <1>1, <1>3, <2>1, <2>6
               DEF CalmOK, Placed, ShapesOK, TypeOK, ExecutionTypeOK
        <3>2. R(e)' = r /\ R(e) = r /\ D(e)' = D(e) /\ job' = job
            BY <1>3, <3>1 DEF R, D, First
        <3>3. job[e].pc \in AtATask => D(e) \in Dataset
            BY <3>1, FirstIsIn DEF Job, JobOK, D
        <3>4. job[e].pc \in AtATask => AtHand(e)'
            <4> SUFFICES ASSUME job[e].pc \in AtATask PROVE AtHand(e)'
                OBVIOUS
            <4>1. AtHand(e) /\ D(e) \in Dataset
                BY <3>1, <3>3 DEF ExecutionOK
            <4>2. Ended(r, D(e)) /\ task'[r][D(e)] = task[r][D(e)]
                BY <2>4, <3>1, <4>1
            <4>3. job[e].pc \in {"reread", "rebuild", "parent", "verdict", "release"}
                BY <3>2, <4>1, <4>2, StatusesDiffer DEF AtHand, AtATask, Reserved, Ended
            <4> QED BY <3>2, <4>1, <4>2, <4>3 DEF AtHand, Ended
        <3>5. \A d \in Dataset : Ended(r, d) => ~Reserved(r, d)
            BY StatusesDiffer DEF Ended, Reserved
        <3>6. job[e].pc \in AtATask => \A d \in Dataset \ {D(e)} : d \notin job[e].todo
            BY <2>4, <3>1, <3>2, <3>5 DEF ExecutionOK
        <3> QED BY <2>4, <3>1, <3>2, <3>4, <3>6 DEF ExecutionOK, Ready
    <2>7. ASSUME NEW b \in Reader, Attends(b, r)' PROVE PreparedBy(b, r)'
        <3>1. b = c
            BY <1>1, <1>4, <2>1, <2>7, OnlyOneAttends
        <3> QED BY <2>1, <2>2, <2>7, <3>1
    <2>8. \A b \in Reader, d \in Dataset : <<r, d>> \notin reader'[b].seen
        BY <2>1 DEF CalmOK, CallerStepOf
    <2>9. binding'[r].state = "submitting"
        BY <2>2 DEF AttendedBy
    <2> QED BY <1>3, <1>7, <2>1, <2>3, <2>5, <2>6, <2>7, <2>8, <2>9 DEF CalmOK, Unsubmitted
<1> QED BY <1>2, <1>5, <1>8, <1>9, <1>10, CallerKeeps DEF ShapesOK, KeyOK

-----------------------------------------------------------------------------
(* The steps of RecoverableCollectionSubmissionService.submit              *)

(* The facts every such step has in common. *)
LEMMA Prepares ==
    ASSUME SubmissionInv, NEW c \in Reader, caller[c].pc \in Unlaunched \ InGetRun,
           NEW r \in Run, r = Subject(c), NEW k \in Call, Becomes(c, k),
           k.pc = "idle" \/ (k.run = r /\ k.pc \in Attending),
           k.pc \in {"reserve", "yield", "unlease"} => k.todo # {},
           StoreTypeOK', UNCHANGED <<run, lapsed, executionVars, binding, overdue, boundVars>>,
           \A q \in Run \ {r} : task'[q] = task[q],
           \A d \in Dataset : task'[r][d] = task[r][d] \/
                (task[r][d] = "queued" /\ task'[r][d] \in Terminal),
           \A d \in Dataset :
              \/ lease'[d] = lease[d]
              \/ lease'[d].owner = r /\ lease'[d].live /\ ~lease[d].live
              \/ lease[d].owner = r /\ lease'[d] = NoLease,
           caller'[c] = k /\ Attends(c, r)' /\ AttendedBy(c, r) => AttendedBy(c, r)',
           caller'[c] = k /\ Attends(c, r)' /\ Calm(r) /\ CalmOK(r) /\ PreparedBy(c, r)
                => PreparedBy(c, r)'
    PROVE  SubmissionInv'
<1>1. caller[c].pc # "idle"
    BY DEF Unlaunched, Preparing, Retreating
<1>2. /\ TypeOK /\ r # NoRun /\ binding[r].state # "none" /\ reader[c].pc = "idle"
    BY <1>1, AtCall
<1>3. /\ caller'[c] = k /\ caller' \in [Reader -> Call]
      /\ \A b \in Reader \ {c} : caller'[b] = caller[b]
    BY <1>2 DEF Becomes, TypeOK
<1>4. TypeOK'
    BY <1>2, <1>3 DEF TypeOK, ExecutionTypeOK, executionVars, boundVars
<1>5. CallerStepOf(c, r)
    BY <1>2, <1>3 DEF CallerStepOf, executionVars
<1>6. CallerOK(c)' /\ ReaderOK(c)'
    BY <1>2, <1>3 DEF CallerOK, ReaderOK, Subject, executionVars, Attending, Unlaunched,
                      Preparing, Retreating
<1>7. /\ \A b \in Reader : reader'[b] = reader[b]
      /\ UNCHANGED <<queue, binding, overdue, run>>
    BY DEF executionVars
<1>8. caller'[c].pc \in Attending \union {"idle"}
    BY <1>3
<1> QED BY <1>3, <1>4, <1>5, <1>6, <1>7, <1>8, AttendingKeeps

LEMMA ListQueuedKeeps ==
    ASSUME SubmissionInv, NEW c \in Reader, ListQueued(c)
    PROVE  SubmissionInv'
<1>1. caller[c].pc = "prepare" /\ caller[c].pc # "idle"
    BY DEF ListQueued, Calling
<1>2. PICK r \in Run : r = Subject(c)
    BY <1>1, AtCall
<1>3. /\ TypeOK /\ caller[c] \in Call /\ caller[c].run = r
      /\ \A d \in Dataset : task[r][d] \in Active \union Terminal
    BY <1>1, <1>2, AtCall DEF Subject
<1> DEFINE queued == {d \in Dataset : task[r][d] = "queued"}
           k == [caller[c] EXCEPT !.pc = "task", !.todo = queued]
<1>4. k \in Call /\ k.pc = "task" /\ k.run = r /\ k.todo = queued
    BY <1>3 DEF Call
<1>5. Becomes(c, k) /\ UNCHANGED <<storeVars, executionVars, binding, overdue, boundVars>>
    BY <1>2 DEF ListQueued, OnlyCaller
<1> HIDE DEF k
<1>6. UNCHANGED storeVars /\ StoreTypeOK'
    BY <1>3, <1>5 DEF TypeOK, StoreTypeOK, storeVars
<1>7. ASSUME caller'[c] = k, AttendedBy(c, r) PROVE AttendedBy(c, r)'
    BY <1>4, <1>5, <1>7 DEF AttendedBy
<1>8. ASSUME caller'[c] = k, PreparedBy(c, r) PROVE PreparedBy(c, r)'
    <2>1. Placed(r)' => Placed(r)
        BY <1>5 DEF Placed, executionVars
    <2>2. \A d \in Dataset : task'[r][d] = task[r][d]
        BY <1>6 DEF storeVars
    <2>3. \A d \in Dataset : task[r][d] # "collecting"
        BY <1>1, <1>8 DEF PreparedBy, Unlaunched, Preparing
    <2>4. \A d \in Dataset \ queued : Ended(r, d)'
        BY <1>3, <2>2, <2>3, StatusesDiffer DEF Ended
    <2>5. Placed(r) => \A d \in Dataset : Ended(r, d)'
        BY <1>1, <1>8, <2>2 DEF PreparedBy, Preparing, Ended
    <2> QED BY <1>4, <1>8, <2>1, <2>2, <2>3, <2>4, <2>5
           DEF PreparedBy, Retreating, Preparing, Unlaunched
<1>9. caller[c].pc \in Unlaunched \ InGetRun /\ k.pc \in Attending
    BY <1>1, <1>4 DEF Unlaunched, Preparing, InGetRun, Attending
<1> QED BY <1>2, <1>4, <1>5, <1>6, <1>7, <1>8, <1>9, Prepares DEF storeVars

(* What a request has seen to stays so while it goes on with its list. *)
LEMMA StaysPrepared ==
    ASSUME NEW c \in Reader, NEW r \in Run, PreparedBy(c, r), UNCHANGED executionVars,
           \/ caller[c].pc \in Preparing /\ caller'[c].pc \in Preparing
           \/ caller[c].pc \in Retreating \union {"launch"}
                /\ caller'[c].pc \in Retreating \ {"launch"},
           \A d \in Dataset : task'[r][d] = task[r][d] \/
                (task[r][d] = "queued" /\ task'[r][d] \in Terminal),
           caller'[c].pc \in {"task", "reserve", "yield"} =>
                \A d \in Dataset \ caller'[c].todo : Ended(r, d)' \/ Reserved(r, d)',
           caller'[c].pc = "observed" => Ready(r)'
    PROVE  PreparedBy(c, r)'
<1>1. Placed(r)' <=> Placed(r)
    BY DEF Placed, executionVars
<1>2. \A d \in Dataset : /\ task[r][d] # "collecting" => task'[r][d] # "collecting"
                         /\ Ended(r, d) => task'[r][d] \in Terminal
    BY StatusesDiffer DEF Ended
<1>3. caller[c].pc \in Unlaunched
    BY DEF Unlaunched, Retreating
<1>4. \A d \in Dataset : task'[r][d] # "collecting"
    BY <1>2, <1>3 DEF PreparedBy
<1>5. caller'[c].pc \in Preparing /\ Placed(r)' => \A d \in Dataset : task'[r][d] \in Terminal
    BY <1>1, <1>2 DEF PreparedBy, Preparing, Retreating
<1>6. caller'[c].pc \in Retreating => ~Placed(r)'
    BY <1>1 DEF PreparedBy, Preparing, Retreating
<1>7. caller'[c].pc # "launch"
    BY DEF Preparing, Retreating
<1> QED BY <1>4, <1>5, <1>6, <1>7 DEF PreparedBy, Ended

(* The row of the task in hand, as a request that prepares finds it. *)
LEMMA InHand ==
    ASSUME SubmissionInv, NEW c \in Reader, caller[c].pc \in {"task", "reserve", "yield"},
           caller[c].todo # {}
    PROVE  /\ Current(c) \in Dataset
           /\ \A r \in Run : r = Subject(c) /\ PreparedBy(c, r) =>
                task[r][Current(c)] = "queued" \/ Ended(r, Current(c))
           /\ \A r \in Run : r = Subject(c) /\ Calm(r) =>
                (lease[Current(c)].owner = r => OwnsLive(r, Current(c)))
<1>1. /\ Current(c) \in Dataset
      /\ \A d \in Dataset : task[Subject(c)][d] \in Active \union Terminal
      /\ Subject(c) # NoRun
    BY AtCall
<1>2. ASSUME NEW r \in Run, r = Subject(c), PreparedBy(c, r)
      PROVE  task[r][Current(c)] = "queued" \/ Ended(r, Current(c))
    <2>1. task[r][Current(c)] # "collecting"
        BY <1>1, <1>2 DEF PreparedBy, Unlaunched, Preparing
    <2> QED BY <1>1, <1>2, <2>1, StatusesDiffer DEF Ended
<1>3. ASSUME NEW r \in Run, r = Subject(c), Calm(r), lease[Current(c)].owner = r
      PROVE  OwnsLive(r, Current(c))
    <2>1. RowOK(Current(c)) /\ <<r, Current(c)>> \notin lapsed
        BY <1>1, <1>3 DEF SubmissionInv, ShapesOK, Calm
    <2>2. lease[Current(c)].live \in BOOLEAN
        BY <1>1 DEF SubmissionInv, ShapesOK, TypeOK, StoreTypeOK
    <2> QED BY <1>1, <1>3, <2>1, <2>2 DEF RowOK, OwnsLive
<1> QED BY <1>1, <1>2, <1>3

(* A queued task that cannot be reserved ends at once; a task that is no   *)
(* longer queued makes the request fail.                                   *)
LEMMA WriteKeeps ==
    ASSUME SubmissionInv, NEW c \in Reader, caller[c].pc \in {"task", "yield"},
           caller[c].todo # {}, NEW status \in Terminal,
           WriteQueued(c, Current(c), status), OnlyTaskAndCaller
    PROVE  SubmissionInv'
<1>1. caller[c].pc # "idle" /\ caller[c].pc \in Unlaunched \ InGetRun
      /\ caller[c].pc \in Preparing
    BY DEF Unlaunched, Preparing, InGetRun
<1>2. PICK r \in Run : r = Subject(c)
    BY <1>1, AtCall
<1>3. PICK d \in Dataset : d = Current(c)
    BY InHand
<1>4. /\ TypeOK /\ caller[c] \in Call /\ caller[c].run = r
    BY <1>1, <1>2, AtCall DEF Subject
<1>5. UNCHANGED <<run, lease, snapshot, lapsed, executionVars, binding, overdue, boundVars>>
    BY DEF OnlyTaskAndCaller
<1> DEFINE k == [caller[c] EXCEPT !.pc = "task", !.todo = @ \ {d}, !.token = 0]
<1>6. k \in Call /\ k.pc = "task" /\ k.run = r /\ k.todo = caller[c].todo \ {d}
    BY <1>4 DEF Call
<1>7. NoCall \in Call /\ NoCall.pc = "idle"
    BY DEF NoCall, Call
<1>8. CASE task[r][d] = "queued" /\ SetTask(r, d, status) /\ Becomes(c, k)
    <2> HIDE DEF k
    <2>1. /\ task'[r][d] = status
          /\ \A c1 \in Dataset : c1 # d => task'[r][c1] = task[r][c1]
          /\ \A q \in Run \ {r} : task'[q] = task[q]
          /\ task' \in [Run -> [Dataset -> {"absent"} \union Active \union Terminal]]
        BY <1>4, <1>8 DEF SetTask, TypeOK, StoreTypeOK
    <2>2. StoreTypeOK'
        BY <1>4, <1>5, <2>1 DEF TypeOK, StoreTypeOK
    <2>3. \A x \in Dataset : task'[r][x] = task[r][x] \/
                (task[r][x] = "queued" /\ task'[r][x] \in Terminal)
        BY <1>8, <2>1
    <2>4. ASSUME caller'[c] = k, AttendedBy(c, r) PROVE AttendedBy(c, r)'
        BY <1>5, <1>6, <2>4 DEF AttendedBy
    <2>5. ASSUME caller'[c] = k, PreparedBy(c, r) PROVE PreparedBy(c, r)'
        <3>1. \A x \in Dataset \ k.todo : Ended(r, x)' \/ Reserved(r, x)'
            <4> SUFFICES ASSUME NEW x \in Dataset \ k.todo PROVE Ended(r, x)' \/ Reserved(r, x)'
                OBVIOUS
            <4>1. CASE x = d
                BY <2>1, <4>1 DEF Ended
            <4>2. CASE x # d
                BY <1>5, <1>6, <2>1, <2>5, <4>2 DEF PreparedBy, Ended, Reserved, OwnsLive
            <4> QED BY <4>1, <4>2
        <3>2. caller'[c].pc = "task" /\ caller'[c].pc \in Preparing
            BY <1>6, <2>5 DEF Preparing
        <3> QED BY <1>1, <1>5, <2>3, <2>5, <3>1, <3>2, StaysPrepared
    <2>6. k.pc \in Attending
        BY <1>6 DEF Attending, Unlaunched, Preparing
    <2> QED BY <1>1, <1>2, <1>5, <1>6, <1>8, <2>1, <2>2, <2>3, <2>4, <2>5, <2>6, Prepares
<1>9. CASE UNCHANGED task /\ Becomes(c, NoCall)
    <2>1. StoreTypeOK'
        BY <1>4, <1>5, <1>9 DEF TypeOK, StoreTypeOK
    <2>2. caller'[c] = NoCall => ~Attends(c, r)'
        BY <1>7 DEF Attends, Attending, Unlaunched, Preparing, Retreating
    <2> QED BY <1>1, <1>2, <1>5, <1>7, <1>9, <2>1, <2>2, Prepares
<1> QED BY <1>2, <1>3, <1>8, <1>9 DEF WriteQueued, NextTask, Leave

LEMMA PreflightKeeps ==
    ASSUME SubmissionInv, NEW c \in Reader, PreflightRejects(c)
    PROVE  SubmissionInv'
<1>1. FailedAs(Current(c)) \in Terminal
    BY FailedAsType
<1> QED BY <1>1, WriteKeeps DEF PreflightRejects, Calling

LEMMA YieldKeeps ==
    ASSUME SubmissionInv, NEW c \in Reader, YieldQueued(c)
    PROVE  SubmissionInv'
<1>1. caller[c].todo # {}
    BY DEF SubmissionInv, ShapesOK, CallerOK, YieldQueued, Calling
<1>2. "busy" \in Terminal
    BY DEF Terminal
<1> QED BY <1>1, <1>2, WriteKeeps DEF YieldQueued, Calling

(* A step that changes nothing but where the request is. *)
LEMMA MovesOn ==
    ASSUME SubmissionInv, NEW c \in Reader, caller[c].pc \in Unlaunched \ InGetRun,
           NEW r \in Run, r = Subject(c), NEW k \in Call, Becomes(c, k), OnlyCaller,
           k.run = r, k.pc \in Attending,
           k.pc \in {"reserve", "yield", "unlease"} => k.todo # {},
           caller'[c] = k /\ AttendedBy(c, r) => AttendedBy(c, r)',
           \/ caller[c].pc \in Preparing /\ k.pc \in Preparing
           \/ caller[c].pc \in Retreating \union {"launch"} /\ k.pc \in Retreating \ {"launch"},
           Calm(r) /\ PreparedBy(c, r) /\ k.pc \in {"task", "reserve", "yield"} =>
                \A d \in Dataset \ k.todo : Ended(r, d) \/ Reserved(r, d),
           Calm(r) /\ PreparedBy(c, r) /\ k.pc = "observed" => Ready(r)
    PROVE  SubmissionInv'
<1>1. TypeOK /\ caller[c].pc # "idle"
    BY AtCall DEF Unlaunched, Preparing, Retreating
<1>2. UNCHANGED <<run, task, lease, snapshot, lapsed, executionVars, binding, overdue, boundVars>>
    BY DEF OnlyCaller, storeVars
<1>3. StoreTypeOK'
    BY <1>1, <1>2 DEF TypeOK, StoreTypeOK
<1>4. \A d \in Dataset : (Ended(r, d) => Ended(r, d)') /\ (Reserved(r, d) => Reserved(r, d)')
    BY <1>2 DEF Ended, Reserved, OwnsLive
<1>5. ASSUME caller'[c] = k, Calm(r), PreparedBy(c, r) PROVE PreparedBy(c, r)'
    <2>1. caller'[c].pc \in {"task", "reserve", "yield"} =>
                \A d \in Dataset \ caller'[c].todo : Ended(r, d)' \/ Reserved(r, d)'
        BY <1>4, <1>5
    <2>2. caller'[c].pc = "observed" => Ready(r)'
        BY <1>4, <1>5 DEF Ready
    <2> QED BY <1>2, <1>5, <2>1, <2>2, StaysPrepared
<1> QED BY <1>1, <1>2, <1>3, <1>5, Prepares

LEMMA FindKeeps ==
    ASSUME SubmissionInv, NEW c \in Reader, FindReservation(c)
    PROVE  SubmissionInv'
<1>1. /\ caller[c].pc = "task" /\ caller[c].todo # {} /\ caller[c].pc # "idle"
      /\ caller[c].pc \in Unlaunched \ InGetRun /\ caller[c].pc \in Preparing
    BY DEF FindReservation, Calling, Unlaunched, Preparing, InGetRun
<1>2. PICK r \in Run : r = Subject(c)
    BY <1>1, AtCall
<1>3. PICK d \in Dataset : d = Current(c)
    BY <1>1, InHand
<1>4. /\ TypeOK /\ caller[c] \in Call /\ caller[c].run = r /\ OnlyCaller
      /\ lease[d].generation \in Nat
    BY <1>1, <1>2, AtCall DEF Subject, FindReservation, TypeOK, StoreTypeOK
<1>5. CASE lease[d].owner = r /\ NextTask(c)
    <2> DEFINE k == [caller[c] EXCEPT !.pc = "task", !.todo = @ \ {d}, !.token = 0]
    <2>1. k \in Call /\ k.pc = "task" /\ k.run = r /\ k.todo = caller[c].todo \ {d}
        BY <1>4 DEF Call
    <2>2. Becomes(c, k)
        BY <1>3, <1>5 DEF NextTask
    <2> HIDE DEF k
    <2>3. ASSUME caller'[c] = k, AttendedBy(c, r) PROVE AttendedBy(c, r)'
        BY <1>4, <2>1, <2>3 DEF AttendedBy, OnlyCaller
    <2>4. ASSUME Calm(r), PreparedBy(c, r), NEW x \in Dataset \ k.todo
          PROVE  Ended(r, x) \/ Reserved(r, x)
        <3>1. CASE x = d
            BY <1>1, <1>2, <1>3, <1>5, <2>4, <3>1, InHand DEF Reserved
        <3>2. CASE x # d
            BY <1>1, <2>1, <2>4, <3>2 DEF PreparedBy
        <3> QED BY <3>1, <3>2
    <2>5. k.pc \in Attending /\ k.pc \in Preparing
        BY <2>1 DEF Attending, Unlaunched, Preparing
    <2> QED BY <1>1, <1>2, <1>4, <2>1, <2>2, <2>3, <2>4, <2>5, MovesOn
<1> DEFINE token == IF lease[d].owner = r THEN lease[d].generation ELSE 0
           k == [caller[c] EXCEPT !.pc = "reserve", !.token = token]
<1>6. CASE Becomes(c, k)
    <2>1. k \in Call /\ k.pc = "reserve" /\ k.run = r /\ k.todo = caller[c].todo
        BY <1>4 DEF Call
    <2> HIDE DEF k
    <2>3. ASSUME caller'[c] = k, AttendedBy(c, r) PROVE AttendedBy(c, r)'
        BY <1>4, <2>1, <2>3 DEF AttendedBy, OnlyCaller
    <2>4. ASSUME PreparedBy(c, r), NEW x \in Dataset \ k.todo
          PROVE  Ended(r, x) \/ Reserved(r, x)
        BY <1>1, <2>1, <2>4 DEF PreparedBy
    <2>5. k.pc \in Attending /\ k.pc \in Preparing
        BY <2>1 DEF Attending, Unlaunched, Preparing
    <2> QED BY <1>1, <1>2, <1>4, <1>6, <2>1, <2>3, <2>4, <2>5, MovesOn
<1> QED BY <1>2, <1>3, <1>5, <1>6 DEF FindReservation

LEMMA RefusedKeeps ==
    ASSUME SubmissionInv, NEW c \in Reader, ReservationRefused(c)
    PROVE  SubmissionInv'
<1>1. /\ caller[c].pc = "reserve" /\ caller[c].pc # "idle"
      /\ caller[c].pc \in Unlaunched \ InGetRun /\ caller[c].pc \in Preparing
    BY DEF ReservationRefused, Calling, Unlaunched, Preparing, InGetRun
<1>2. PICK r \in Run : r = Subject(c)
    BY <1>1, AtCall
<1>3. /\ caller[c] \in Call /\ caller[c].run = r /\ OnlyCaller /\ caller[c].todo # {}
    BY <1>1, <1>2, AtCall DEF Subject, ReservationRefused, CallerOK
<1> DEFINE k == [caller[c] EXCEPT !.pc = "yield", !.token = 0]
<1>4. k \in Call /\ k.pc = "yield" /\ k.run = r /\ k.todo = caller[c].todo
    BY <1>3 DEF Call
<1>5. Becomes(c, k)
    BY DEF ReservationRefused, Proceed
<1> HIDE DEF k
<1>6. ASSUME caller'[c] = k, AttendedBy(c, r) PROVE AttendedBy(c, r)'
    BY <1>3, <1>4, <1>6 DEF AttendedBy, OnlyCaller
<1>7. ASSUME PreparedBy(c, r), NEW x \in Dataset \ k.todo
      PROVE  Ended(r, x) \/ Reserved(r, x)
    BY <1>1, <1>4, <1>7 DEF PreparedBy
<1>8. k.pc \in Attending /\ k.pc \in Preparing
    BY <1>4 DEF Attending, Unlaunched, Preparing
<1> QED BY <1>1, <1>2, <1>3, <1>4, <1>5, <1>6, <1>7, <1>8, MovesOn

LEMMA ListPreparedKeeps ==
    ASSUME SubmissionInv, NEW c \in Reader, ListPrepared(c)
    PROVE  SubmissionInv'
<1>1. /\ caller[c].pc = "task" /\ caller[c].pc # "idle" /\ caller[c].todo = {}
      /\ caller[c].pc \in Unlaunched \ InGetRun /\ caller[c].pc \in Preparing
    BY DEF ListPrepared, Calling, Unlaunched, Preparing, InGetRun
<1>2. PICK r \in Run : r = Subject(c)
    BY <1>1, AtCall
<1>3. caller[c] \in Call /\ caller[c].run = r /\ OnlyCaller
    BY <1>1, <1>2, AtCall DEF Subject, ListPrepared
<1> DEFINE working == \E d \in Dataset : task[r][d] = "collecting"
           k == [caller[c] EXCEPT !.pc = "observed", !.working = working]
<1>4. k \in Call /\ k.pc = "observed" /\ k.run = r
    BY <1>3 DEF Call
<1>5. Becomes(c, k)
    BY <1>2 DEF ListPrepared
<1> HIDE DEF k
<1>6. ASSUME caller'[c] = k, AttendedBy(c, r) PROVE AttendedBy(c, r)'
    BY <1>3, <1>4, <1>6 DEF AttendedBy, OnlyCaller
<1>7. ASSUME PreparedBy(c, r) PROVE Ready(r)
    BY <1>1, <1>7 DEF PreparedBy, Ready
<1>8. k.pc \in Attending /\ k.pc \in Preparing
    BY <1>4 DEF Attending, Unlaunched, Preparing
<1> QED BY <1>1, <1>2, <1>3, <1>4, <1>5, <1>6, <1>7, <1>8, MovesOn

LEMMA RejectedKeeps ==
    ASSUME SubmissionInv, NEW c \in Reader, LaunchRejected(c)
    PROVE  SubmissionInv'
<1>1. /\ caller[c].pc = "launch" /\ caller[c].pc # "idle"
      /\ caller[c].pc \in Unlaunched \ InGetRun
    BY DEF LaunchRejected, Calling, Unlaunched, Retreating, InGetRun
<1>2. PICK r \in Run : r = Subject(c)
    BY <1>1, AtCall
<1>3. caller[c] \in Call /\ caller[c].run = r /\ OnlyCaller
    BY <1>1, <1>2, AtCall DEF Subject, LaunchRejected
<1> DEFINE k == [caller[c] EXCEPT !.pc = "rejected", !.token = 0]
<1>4. k \in Call /\ k.pc = "rejected" /\ k.run = r
    BY <1>3 DEF Call
<1>5. Becomes(c, k)
    BY DEF LaunchRejected, Proceed
<1> HIDE DEF k
<1>6. ASSUME caller'[c] = k, AttendedBy(c, r) PROVE AttendedBy(c, r)'
    BY <1>3, <1>4, <1>6 DEF AttendedBy, OnlyCaller
<1>7. k.pc \in Attending /\ k.pc \in Retreating \ {"launch"}
    BY <1>4 DEF Attending, Unlaunched, Retreating
<1> QED BY <1>1, <1>2, <1>3, <1>4, <1>5, <1>6, <1>7, MovesOn

LEMMA ListReservedKeeps ==
    ASSUME SubmissionInv, NEW c \in Reader, ListReserved(c)
    PROVE  SubmissionInv'
<1>1. /\ caller[c].pc = "rejected" /\ caller[c].pc # "idle"
      /\ caller[c].pc \in Unlaunched \ InGetRun /\ caller[c].pc \in Retreating
    BY DEF ListReserved, Calling, Unlaunched, Retreating, InGetRun
<1>2. PICK r \in Run : r = Subject(c)
    BY <1>1, AtCall
<1>3. caller[c] \in Call /\ caller[c].run = r /\ OnlyCaller
    BY <1>1, <1>2, AtCall DEF Subject, ListReserved
<1> DEFINE queued == {d \in Dataset : task[r][d] = "queued"}
           k == [caller[c] EXCEPT !.pc = "unlist", !.todo = queued]
<1>4. k \in Call /\ k.pc = "unlist" /\ k.run = r /\ k.todo = queued
    BY <1>3 DEF Call
<1>5. Becomes(c, k)
    BY <1>2 DEF ListReserved
<1> HIDE DEF k
<1>6. ASSUME caller'[c] = k, AttendedBy(c, r) PROVE AttendedBy(c, r)'
    BY <1>3, <1>4, <1>6 DEF AttendedBy, OnlyCaller, storeVars
<1>7. k.pc \in Attending /\ k.pc \in Retreating \ {"launch"}
    BY <1>4 DEF Attending, Unlaunched, Retreating
<1> QED BY <1>1, <1>2, <1>3, <1>4, <1>5, <1>6, <1>7, MovesOn

LEMMA ReadReservedKeeps ==
    ASSUME SubmissionInv, NEW c \in Reader, ReadReserved(c)
    PROVE  SubmissionInv'
<1>1. /\ caller[c].pc = "unlist" /\ caller[c].pc # "idle" /\ caller[c].todo # {}
      /\ caller[c].pc \in Unlaunched \ InGetRun /\ caller[c].pc \in Retreating
    BY DEF ReadReserved, Calling, Unlaunched, Retreating, InGetRun
<1>2. PICK r \in Run : r = Subject(c)
    BY <1>1, AtCall
<1>3. PICK d \in Dataset : d = Current(c)
    BY <1>1, AtCall
<1>4. /\ caller[c] \in Call /\ caller[c].run = r /\ OnlyCaller /\ lease[d].generation \in Nat
    BY <1>1, <1>2, AtCall DEF Subject, ReadReserved, TypeOK, StoreTypeOK
<1> DEFINE token == IF lease[d].owner = r THEN lease[d].generation ELSE 0
           k == [caller[c] EXCEPT !.pc = "unlease", !.token = token]
<1>5. k \in Call /\ k.pc = "unlease" /\ k.run = r /\ k.todo = caller[c].todo /\ k.token = token
    BY <1>4 DEF Call
<1>6. Becomes(c, k)
    BY <1>2, <1>3 DEF ReadReserved
<1> HIDE DEF k
<1>7. ASSUME caller'[c] = k, AttendedBy(c, r) PROVE AttendedBy(c, r)'
    <2>1. Current(c)' = d
        BY <1>3, <1>5, <1>7 DEF Current
    <2> QED BY <1>1, <1>4, <1>5, <1>7, <2>1 DEF AttendedBy, OnlyCaller, storeVars, OwnsLive
<1>8. k.pc \in Attending /\ k.pc \in Retreating \ {"launch"}
    BY <1>5 DEF Attending, Unlaunched, Retreating
<1> QED BY <1>1, <1>2, <1>4, <1>5, <1>6, <1>7, <1>8, MovesOn

LEMMA ReserveKeeps ==
    ASSUME SubmissionInv, NEW c \in Reader, ReserveLease(c)
    PROVE  SubmissionInv'
<1>1. /\ caller[c].pc = "reserve" /\ caller[c].pc # "idle"
      /\ caller[c].pc \in Unlaunched \ InGetRun /\ caller[c].pc \in Preparing
    BY DEF ReserveLease, Calling, Unlaunched, Preparing, InGetRun
<1>2. PICK r \in Run : r = Subject(c)
    BY <1>1, AtCall
<1>3. /\ TypeOK /\ caller[c] \in Call /\ caller[c].run = r /\ caller[c].todo # {}
      /\ UNCHANGED <<run, task, snapshot, lapsed, executionVars, binding, overdue, boundVars>>
    BY <1>1, <1>2, AtCall DEF Subject, ReserveLease, CallerOK
<1>4. PICK d \in Dataset : d = Current(c)
    BY <1>1, <1>3, InHand
<1>5. /\ lease' \in [Dataset -> [owner : Run \union {NoRun}, generation : Nat, live : BOOLEAN]]
      /\ lease'[d].owner = r /\ lease'[d].live /\ ~lease[d].live
      /\ \A x \in Dataset : x # d => lease'[x] = lease[x]
    BY <1>2, <1>3, <1>4, LeaseTaken DEF ReserveLease
<1> DEFINE k == [caller[c] EXCEPT !.pc = "task", !.todo = @ \ {d}, !.token = 0]
<1>6. k \in Call /\ k.pc = "task" /\ k.run = r /\ k.todo = caller[c].todo \ {d}
    BY <1>3 DEF Call
<1>7. Becomes(c, k)
    BY <1>4 DEF ReserveLease, NextTask
<1> HIDE DEF k
<1>8. StoreTypeOK'
    BY <1>3, <1>5 DEF TypeOK, StoreTypeOK
<1>9. ASSUME caller'[c] = k, AttendedBy(c, r) PROVE AttendedBy(c, r)'
    BY <1>3, <1>6, <1>9 DEF AttendedBy
<1>10. ASSUME caller'[c] = k, PreparedBy(c, r) PROVE PreparedBy(c, r)'
    <2>1. ASSUME NEW x \in Dataset \ k.todo PROVE Ended(r, x)' \/ Reserved(r, x)'
        <3>1. CASE x = d
            <4>1. task[r][d] = "queued" \/ Ended(r, d)
                BY <1>1, <1>2, <1>3, <1>4, <1>10, InHand
            <4> QED BY <1>3, <1>5, <3>1, <4>1 DEF Ended, Reserved, OwnsLive
        <3>2. CASE x # d
            BY <1>1, <1>3, <1>5, <1>6, <1>10, <2>1, <3>2
               DEF PreparedBy, Ended, Reserved, OwnsLive
        <3> QED BY <3>1, <3>2
    <2>2. caller'[c].pc = "task" /\ caller'[c].pc \in Preparing
        BY <1>6, <1>10 DEF Preparing
    <2> QED BY <1>1, <1>3, <1>10, <2>1, <2>2, StaysPrepared
<1>11. k.pc \in Attending
    BY <1>6 DEF Attending, Unlaunched, Preparing
<1> QED BY <1>1, <1>2, <1>3, <1>5, <1>6, <1>7, <1>8, <1>9, <1>10, <1>11, Prepares

LEMMA GiveBackKeeps ==
    ASSUME SubmissionInv, NEW c \in Reader, ReleaseReserved(c)
    PROVE  SubmissionInv'
<1>1. /\ caller[c].pc = "unlease" /\ caller[c].pc # "idle"
      /\ caller[c].pc \in Unlaunched \ InGetRun /\ caller[c].pc \in Retreating
    BY DEF ReleaseReserved, Calling, Unlaunched, Retreating, InGetRun
<1>2. PICK r \in Run : r = Subject(c)
    BY <1>1, AtCall
<1>3. /\ TypeOK /\ caller[c] \in Call /\ caller[c].run = r /\ caller[c].todo # {}
      /\ r # NoRun
      /\ UNCHANGED <<run, task, snapshot, lapsed, executionVars, binding, overdue, boundVars>>
    BY <1>1, <1>2, AtCall DEF Subject, ReleaseReserved, CallerOK
<1>4. PICK d \in Dataset : d = Current(c)
    BY <1>1, <1>3, AtCall
<1>5. lease' = IF Holds(r, d, caller[c].token) THEN [lease EXCEPT ![d] = NoLease] ELSE lease
    BY <1>2, <1>4 DEF ReleaseReserved, DropLease
<1>6. /\ lease' \in [Dataset -> [owner : Run \union {NoRun}, generation : Nat, live : BOOLEAN]]
      /\ \A x \in Dataset : x # d => lease'[x] = lease[x]
      /\ lease'[d] = lease[d] \/ (lease[d].owner = r /\ lease'[d] = NoLease)
      /\ lease[d].owner = r /\ lease[d].generation = caller[c].token => lease'[d] = NoLease
    BY <1>3, <1>5 DEF TypeOK, StoreTypeOK, NoLease, Holds
<1> DEFINE k == [caller[c] EXCEPT !.pc = "unlist", !.todo = @ \ {d}, !.token = 0]
<1>7. k \in Call /\ k.pc = "unlist" /\ k.run = r /\ k.todo = caller[c].todo \ {d}
    BY <1>3 DEF Call
<1>8. Becomes(c, k)
    BY <1>4 DEF ReleaseReserved
<1> HIDE DEF k
<1>9. StoreTypeOK'
    BY <1>3, <1>6 DEF TypeOK, StoreTypeOK
<1>10. ASSUME caller'[c] = k, AttendedBy(c, r) PROVE AttendedBy(c, r)'
    <2>1. lease[d].owner = r => lease'[d] = NoLease
        BY <1>1, <1>4, <1>6, <1>10 DEF AttendedBy
    <2>2. lease'[d].owner # r
        BY <1>3, <1>6, <2>1 DEF NoLease
    <2>3. ASSUME NEW x \in Dataset, task'[r][x] = "queued", lease'[x].owner = r, lease'[x].live
          PROVE  x \in k.todo
        BY <1>1, <1>3, <1>6, <1>7, <1>10, <2>2, <2>3 DEF AttendedBy, OwnsLive
    <2> QED BY <1>3, <1>7, <1>10, <2>3 DEF AttendedBy, OwnsLive
<1>11. ASSUME caller'[c] = k, PreparedBy(c, r) PROVE PreparedBy(c, r)'
    <2>1. caller'[c].pc = "unlist" /\ caller'[c].pc \in Retreating \ {"launch"}
        BY <1>7, <1>11 DEF Retreating
    <2> QED BY <1>1, <1>3, <1>11, <2>1, StaysPrepared
<1>12. k.pc \in Attending
    BY <1>7 DEF Attending, Unlaunched, Retreating
<1> QED BY <1>1, <1>2, <1>3, <1>6, <1>7, <1>8, <1>9, <1>10, <1>11, <1>12, Prepares

LEMMA LaunchKeeps ==
    ASSUME SubmissionInv, NEW c \in Reader, LaunchRun(c)
    PROVE  SubmissionInv'
<1>1. /\ caller[c].pc = "launch" /\ caller[c].pc # "idle" /\ caller[c].pc \notin InGetRun
      /\ caller[c].pc \in Unlaunched /\ caller[c].pc \in Retreating
    BY DEF LaunchRun, Calling, Unlaunched, Retreating, InGetRun
<1>2. PICK r \in Run : r = Subject(c)
    BY <1>1, AtCall
<1>3. /\ ShapesOK /\ TypeOK /\ caller[c] \in Call /\ caller[c].run = r /\ r # NoRun
      /\ binding[r].state # "none" /\ reader[c].pc = "idle" /\ KeyOK(r) /\ Attends(c, r)
    BY <1>1, <1>2, AtCall DEF Subject, SubmissionInv, ShapesOK, Attends, Attending
<1>4. queue' = Append(queue, r) /\ queue \in Seq(Run)
      /\ UNCHANGED <<storeVars, job, reader, binding, overdue, boundVars>>
    BY <1>2, <1>3 DEF LaunchRun, Enqueue, TypeOK, ExecutionTypeOK
<1> DEFINE k == [caller[c] EXCEPT !.pc = "mark", !.token = 0]
<1>5. k \in Call /\ k.pc = "mark" /\ k.run = r
    BY <1>3 DEF Call
<1>6. Becomes(c, k)
    BY DEF LaunchRun, Proceed
<1> HIDE DEF k
<1>7. /\ caller'[c] = k /\ caller' \in [Reader -> Call]
      /\ \A b \in Reader \ {c} : caller'[b] = caller[b]
    BY <1>3, <1>5, <1>6 DEF Becomes, TypeOK
<1>8. UNCHANGED <<run, task, lease, snapshot, lapsed>>
    BY <1>4 DEF storeVars
<1>9. TypeOK'
    BY <1>3, <1>4, <1>7, <1>8
       DEF TypeOK, StoreTypeOK, ExecutionTypeOK, boundVars
<1>10. CallerStepOf(c, r)
    BY <1>3, <1>4, <1>5, <1>7, <1>8 DEF CallerStepOf, Subject
<1>11. CallerOK(c)' /\ ReaderOK(c)'
    BY <1>3, <1>4, <1>5, <1>7 DEF CallerOK, ReaderOK, Subject
<1>12. ~Placed(r) => PlacedOnce(r)'
    <2> SUFFICES ASSUME ~Placed(r) PROVE PlacedOnce(r)'
        OBVIOUS
    <2>1. \A i \in DOMAIN queue' : queue'[i] = r => i = Len(queue) + 1
        BY <1>4 DEF Placed
    <2> QED BY <1>4, <2>1 DEF Placed, PlacedOnce
<1>13. ASSUME overdue[r] # "submitting", NEW b \in Reader, Attends(b, r)'
       PROVE  b = c
    BY <1>3, <1>7, <1>13, OnlyOneAttends DEF Attends, Subject
<1>14. Attended(r)'
    <2> SUFFICES ASSUME overdue[r] # "submitting" PROVE AttendedBy(c, r)'
        BY <1>4, <1>13 DEF Attended
    <2>1. AttendedBy(c, r)
        BY <1>3 DEF SubmissionInv, Attended
    <2> QED BY <1>4, <1>5, <1>7, <2>1 DEF AttendedBy
<1>15. PlacedByOne(r)'
    <2> SUFFICES ASSUME overdue[r] = "none"
                 PROVE  /\ PlacedOnce(r)'
                        /\ binding[r].state = "submitting" /\ binding[r].live
                        /\ \A b \in Reader : ~(caller'[b].run = r /\ caller'[b].pc \in Unlaunched)
        BY <1>4 DEF PlacedByOne, Unsubmitted, Subject
    <2>1. ~Placed(r) /\ AttendedBy(c, r)
        BY <1>1, <1>2, <1>3 DEF SubmissionInv, PlacedByOne, Attended
    <2>2. ASSUME NEW b \in Reader, caller'[b].run = r, caller'[b].pc \in Unlaunched
          PROVE  FALSE
        <3>1. b = c
            BY <1>13, <2>2 DEF Attends, Attending, Subject
        <3> QED BY <1>5, <1>7, <2>2, <3>1 DEF Unlaunched, Preparing, Retreating
    <2> QED BY <1>12, <2>1, <2>2 DEF AttendedBy
<1>16. ASSUME Calm(r)' PROVE CalmOK(r)'
    <2>1. Calm(r) /\ CalmOK(r) /\ overdue[r] # "submitting"
        BY <1>4, <1>8, <1>16 DEF Calm, SubmissionInv
    <2>2. PreparedBy(c, r) /\ AttendedBy(c, r)
        BY <1>3, <2>1 DEF CalmOK, SubmissionInv, Attended
    <2>3. ~Placed(r) /\ Ready(r)
        BY <1>1, <2>2 DEF PreparedBy
    <2>4. Ready(r)'
        BY <1>8, <2>3 DEF Ready, Reserved, Ended, OwnsLive
    <2>5. \A e \in Executor : job'[e].run # r
        BY <1>4, <2>3 DEF Placed
    <2>6. ASSUME NEW b \in Reader, Attends(b, r)' PROVE PreparedBy(b, r)'
        <3>1. b = c /\ caller'[b].pc = "mark"
            BY <1>5, <1>7, <1>13, <2>1, <2>6
        <3> QED BY <3>1 DEF PreparedBy, Unlaunched, Preparing, Retreating
    <2>7. binding'[r].state = "submitting"
        BY <1>4, <2>2 DEF AttendedBy
    <2> QED BY <1>4, <1>8, <1>12, <2>1, <2>3, <2>4, <2>5, <2>6, <2>7
           DEF CalmOK, Unsubmitted, OwnsLive
<1> QED BY <1>3, <1>4, <1>8, <1>9, <1>10, <1>11, <1>14, <1>15, <1>16, CallerKeeps DEF KeyOK

LEMMA AcquireKeeps ==
    ASSUME SubmissionInv, NEW c \in Reader, AcquireSubmission(c)
    PROVE  SubmissionInv'
<1>1. /\ caller[c].pc = "acquire" /\ caller[c].pc # "idle" /\ caller[c].pc \notin InGetRun
      /\ caller[c].pc \notin Attending
    BY DEF AcquireSubmission, Calling, Attending, Unlaunched, Preparing, Retreating, InGetRun
<1>2. PICK r \in Run : r = Subject(c)
    BY <1>1, AtCall
<1>3. /\ ShapesOK /\ TypeOK /\ caller[c] \in Call /\ caller[c].run = r /\ r # NoRun
      /\ binding[r].state # "none" /\ reader[c].pc = "idle" /\ KeyOK(r)
      /\ \A d \in Dataset : task[r][d] \in Active \union Terminal
    BY <1>1, <1>2, AtCall DEF Subject, SubmissionInv, ShapesOK
<1>4. UNCHANGED <<run, task, lease, snapshot, lapsed, queue, job, reader, overdue, boundVars>>
    BY DEF AcquireSubmission, OnlyBinding, storeVars, executionVars
<1>5. /\ \A d \in Dataset : /\ Ended(r, d)' <=> Ended(r, d)
                            /\ Reserved(r, d)' <=> Reserved(r, d)
                            /\ OwnsLive(r, d)' <=> OwnsLive(r, d)
      /\ Ready(r) => Ready(r)'
      /\ (Placed(r)' <=> Placed(r)) /\ (PlacedOnce(r)' <=> PlacedOnce(r))
    BY <1>4 DEF Ended, Reserved, OwnsLive, Ready, Placed, PlacedOnce
<1>6. CalmOK(r) => \A e \in Executor : job'[e].run = r => ExecutionOK(e)'
    <2> SUFFICES ASSUME CalmOK(r), NEW e \in Executor, job'[e].run = r
                 PROVE  ExecutionOK(e)'
        OBVIOUS
    <2>1. ExecutionOK(e) /\ UNCHANGED <<job, task, lease>>
        BY <1>4 DEF CalmOK
    <2> QED BY <2>1 DEF ExecutionOK, AtHand, R, D, First, Ended, Reserved, OwnsLive, Ready,
                       Fenced, Holds
<1>7. CASE Acquirable(r) /\ Proceed(c, "prepare")
           /\ binding' = [binding EXCEPT ![r] =
                            [state |-> "submitting", owner |-> c, live |-> TRUE]]
    <2> DEFINE k == [caller[c] EXCEPT !.pc = "prepare", !.token = 0]
    <2>1. k \in Call /\ k.pc = "prepare" /\ k.run = r
        BY <1>3 DEF Call
    <2>2. Becomes(c, k)
        BY <1>7 DEF Proceed
    <2> HIDE DEF k
    <2>3. /\ caller'[c] = k /\ caller' \in [Reader -> Call]
          /\ \A b \in Reader \ {c} : caller'[b] = caller[b]
        BY <1>3, <2>1, <2>2 DEF Becomes, TypeOK
    <2>4. /\ binding'[r].state = "submitting" /\ binding'[r].owner = c /\ binding'[r].live
          /\ \A q \in Run \ {r} : binding'[q] = binding[q]
          /\ binding' \in [Run -> Binding]
        BY <1>3, <1>7 DEF TypeOK, Binding
    <2>5. TypeOK'
        BY <1>3, <1>4, <2>3, <2>4 DEF TypeOK, StoreTypeOK, ExecutionTypeOK, boundVars
    <2>6. CallerStepOf(c, r)
        BY <1>3, <1>4, <2>1, <2>3, <2>4 DEF CallerStepOf, Subject
    <2>7. CallerOK(c)' /\ ReaderOK(c)'
        BY <1>3, <1>4, <2>1, <2>3, <2>4 DEF CallerOK, ReaderOK, Subject
    <2>8. ASSUME overdue[r] # "submitting", NEW b \in Reader, Attends(b, r)' PROVE b = c
        <3> SUFFICES ASSUME b # c PROVE FALSE
            OBVIOUS
        <3>1. Attends(b, r)
            BY <2>3, <2>8 DEF Attends, Subject
        <3>2. AttendedBy(b, r)
            BY <2>8, <3>1 DEF SubmissionInv, Attended
        <3> QED BY <1>7, <3>2 DEF AttendedBy, Acquirable
    <2>9. AttendedBy(c, r)'
        BY <2>1, <2>3, <2>4 DEF AttendedBy
    <2>10. Attended(r)'
        BY <1>4, <2>8, <2>9 DEF Attended
    <2>11. PlacedByOne(r)'
        <3> SUFFICES ASSUME overdue[r] = "none" PROVE PlacedOnce(r) /\ ~Placed(r)
            BY <1>4, <1>5, <2>4 DEF PlacedByOne, Unsubmitted
        <3>1. PlacedByOne(r)
            BY DEF SubmissionInv
        <3> QED BY <1>7, <3>1 DEF PlacedByOne, Acquirable, Unsubmitted
    <2>12. ASSUME Calm(r)' PROVE CalmOK(r)'
        <3>1. Calm(r) /\ CalmOK(r) /\ overdue[r] # "submitting"
            BY <1>4, <2>12 DEF Calm, SubmissionInv
        <3>2. binding[r].state \in Unsubmitted \/ ~WorkedOn(r)
            BY <1>7 DEF Acquirable, Unsubmitted
        <3>3. \A d \in Dataset : task[r][d] # "collecting"
            <4>1. CASE binding[r].state \in Unsubmitted
                BY <3>1, <4>1 DEF CalmOK
            <4>2. CASE ~WorkedOn(r)
                BY <3>1, <4>2 DEF CalmOK, WorkedOn, Active
            <4> QED BY <3>2, <4>1, <4>2
        <3>4. \A d \in Dataset : ~WorkedOn(r) => ~Reserved(r, d)
            BY DEF WorkedOn, Reserved, Active
        <3>5. Placed(r) => \A d \in Dataset : Ended(r, d)
            <4> SUFFICES ASSUME Placed(r), ~WorkedOn(r) PROVE \A d \in Dataset : Ended(r, d)
                BY <3>1, <3>2 DEF CalmOK
            <4>1. CASE \E i \in DOMAIN queue : queue[i] = r
                BY <3>1, <3>4, <4>1 DEF CalmOK, Ready
            <4>2. ASSUME NEW e \in Executor, job[e].run = r
                  PROVE  \A d \in Dataset : Ended(r, d)
                <5>1. /\ ExecutionOK(e) /\ JobOK(e) /\ job[e] \in Job /\ job[e].pc # "idle"
                      /\ R(e) = r
                    <6>1. ExecutionOK(e) /\ JobOK(e) /\ job[e] \in Job
                        BY <1>3, <3>1, <4>2 DEF CalmOK, ShapesOK, TypeOK, ExecutionTypeOK
                    <6> QED BY <1>3, <4>2, <6>1 DEF JobOK, Idle, R
                <5>2. CASE job[e].pc \in BeforeTheTasks
                    BY <3>4, <5>1, <5>2 DEF ExecutionOK, Ready
                <5>3. CASE job[e].pc \in AfterTheTasks
                    BY <5>1, <5>3 DEF ExecutionOK
                <5>4. CASE job[e].pc \in AtATask
                    <6>1. D(e) \in Dataset /\ AtHand(e) /\ TargetOK(e)
                        BY <5>1, <5>4, FirstIsIn DEF Job, JobOK, D, ExecutionOK
                    <6>2. task[r][D(e)] # "collecting" /\ ~Reserved(r, D(e))
                        BY <3>3, <3>4, <6>1
                    <6>3. Ended(r, D(e))
                        BY <5>1, <5>4, <6>1, <6>2, StatusesDiffer
                           DEF AtHand, AtATask, TargetOK, Ended
                    <6>4. \A d \in Dataset \ {D(e)} : Ended(r, d)
                        BY <3>4, <5>1, <5>4 DEF ExecutionOK
                    <6> QED BY <6>3, <6>4
                <5> QED BY <5>1, <5>2, <5>3, <5>4
                       DEF Job, BeforeTheTasks, AfterTheTasks, AtATask
            <4> QED BY <4>1, <4>2 DEF Placed
        <3>6. PreparedBy(c, r)'
            BY <1>4, <1>5, <2>1, <2>3, <3>3, <3>5 DEF PreparedBy, Retreating
        <3>7. \A b \in Reader : Attends(b, r)' => PreparedBy(b, r)'
            BY <2>8, <3>1, <3>6
        <3>8. \A d \in Dataset : task'[r][d] = "collecting" => OwnsLive(r, d)'
            BY <1>4, <1>5, <3>1 DEF CalmOK
        <3>9. \A i \in DOMAIN queue' : queue'[i] = r => Ready(r)'
            BY <1>4, <1>5, <3>1 DEF CalmOK
        <3> QED BY <1>4, <1>5, <1>6, <2>4, <3>1, <3>7, <3>8, <3>9 DEF CalmOK, Unsubmitted
    <2> QED BY <1>3, <1>4, <2>4, <2>5, <2>6, <2>7, <2>10, <2>11, <2>12, CallerKeeps DEF KeyOK
<1>8. CASE Leave(c) /\ UNCHANGED binding
    <2>1. /\ caller'[c] = NoCall /\ caller' \in [Reader -> Call]
          /\ \A b \in Reader \ {c} : caller'[b] = caller[b]
          /\ NoCall.pc = "idle" /\ NoCall \in Call
        BY <1>3, <1>8 DEF Leave, Becomes, TypeOK, NoCall, Call
    <2>2. TypeOK'
        BY <1>3, <1>4, <1>8, <2>1 DEF TypeOK, StoreTypeOK, ExecutionTypeOK, boundVars
    <2>3. CallerStepOf(c, r)
        BY <1>3, <1>4, <1>8, <2>1 DEF CallerStepOf, Subject
    <2>4. CallerOK(c)' /\ ReaderOK(c)'
        BY <1>3, <1>4, <2>1 DEF CallerOK, ReaderOK, Subject
    <2>5. Quiet(r)
        <3>1. \A b \in Reader : Attends(b, r)' => caller'[b] = caller[b]
            BY <2>1 DEF Attends, Subject, Attending, Unlaunched, Preparing, Retreating
        <3>2. Frame(r)
            BY <1>4, <1>5, <1>8, <3>1 DEF Frame
        <3> QED BY <1>4, <3>2 DEF Quiet, CalmOK
    <2>6. Attended(r)' /\ PlacedByOne(r)' /\ (Calm(r)' => CalmOK(r)')
        BY <1>3, <2>5, FrameKeeps, QuietKeeps DEF SubmissionInv, Quiet
    <2> QED BY <1>3, <1>4, <1>8, <2>2, <2>3, <2>4, <2>6, CallerKeeps DEF KeyOK
<1> QED BY <1>2, <1>7, <1>8 DEF AcquireSubmission

(* mark_submitted and mark_submission_failed of a request that attends to  *)
(* its run and leaves it.                                                  *)
LEMMA MarkKeeps ==
    ASSUME SubmissionInv, NEW c \in Reader, caller[c].pc \in {"mark", "unlist"},
           NEW state \in {"submitted", "submission-failed"}, NEW live \in BOOLEAN,
           \/ caller[c].pc = "mark" /\ state = "submitted" /\ live
           \/ caller[c].pc = "unlist" /\ state = "submission-failed" /\ ~live,
           Finish(c, state, live)
    PROVE  SubmissionInv'
<1>1. /\ caller[c].pc # "idle" /\ caller[c].pc \notin InGetRun /\ caller[c].pc \in Attending
      /\ caller[c].pc = "unlist" => caller[c].pc \in Unlaunched /\ caller[c].pc \in Retreating
    BY DEF Attending, Unlaunched, Retreating, InGetRun
<1>2. PICK r \in Run : r = Subject(c)
    BY <1>1, AtCall
<1>3. /\ ShapesOK /\ TypeOK /\ caller[c] \in Call /\ caller[c].run = r /\ r # NoRun
      /\ binding[r].state # "none" /\ reader[c].pc = "idle" /\ KeyOK(r) /\ Attends(c, r)
    BY <1>1, <1>2, AtCall DEF Subject, SubmissionInv, ShapesOK, Attends
<1>4. UNCHANGED <<run, task, lease, snapshot, lapsed, queue, job, reader, overdue, boundVars>>
    BY DEF Finish, OnlyBinding, storeVars, executionVars
<1>5. /\ caller'[c] = NoCall /\ caller' \in [Reader -> Call]
      /\ \A b \in Reader \ {c} : caller'[b] = caller[b]
      /\ NoCall.pc = "idle"
    BY <1>3 DEF Finish, Leave, Becomes, TypeOK, NoCall, Call
<1>6. binding' = IF binding[r].state = "submitting" /\ binding[r].owner = c
                 THEN [binding EXCEPT ![r] = [state |-> state, owner |-> NoCaller, live |-> live]]
                 ELSE binding
    BY <1>2 DEF Finish
<1>7. /\ \A q \in Run \ {r} : binding'[q] = binding[q]
      /\ binding' \in [Run -> Binding] /\ binding'[r].state # "none"
      /\ binding'[r].live => binding'[r].state \in {"submitting", "submitted"}
    BY <1>3, <1>6 DEF TypeOK, Binding, KeyOK
<1>8. TypeOK'
    BY <1>3, <1>4, <1>5, <1>7 DEF TypeOK, StoreTypeOK, ExecutionTypeOK, boundVars
<1>9. CallerStepOf(c, r)
    BY <1>3, <1>4, <1>5, <1>7 DEF CallerStepOf, Subject
<1>10. CallerOK(c)' /\ ReaderOK(c)'
    BY <1>3, <1>4, <1>5 DEF CallerOK, ReaderOK, Subject
<1>11. overdue[r] # "submitting" => \A b \in Reader : ~Attends(b, r)'
    <2> SUFFICES ASSUME overdue[r] # "submitting", NEW b \in Reader, Attends(b, r)'
                 PROVE  FALSE
        OBVIOUS
    <2>1. b # c
        BY <1>5, <2>1 DEF Attends, Attending, Unlaunched, Preparing, Retreating
    <2>2. Attends(b, r)
        BY <1>5, <2>1 DEF Attends, Subject
    <2> QED BY <1>3, <2>1, <2>2, OnlyOneAttends
<1>12. overdue[r] # "submitting" => binding'[r].state = state /\ binding'[r].live = live
    BY <1>3, <1>6 DEF SubmissionInv, Attended, AttendedBy, TypeOK
<1>13. (Placed(r)' <=> Placed(r)) /\ (PlacedOnce(r)' <=> PlacedOnce(r))
    BY <1>4 DEF Placed, PlacedOnce
<1>14. Attended(r)'
    BY <1>4, <1>11 DEF Attended
<1>15. PlacedByOne(r)'
    <2> SUFFICES ASSUME overdue[r] = "none" PROVE PlacedByOne(r)'
        BY <1>4 DEF PlacedByOne
    <2>1. PlacedOnce(r) /\ (caller[c].pc = "unlist" => ~Placed(r))
        BY <1>1, <1>2 DEF SubmissionInv, PlacedByOne
    <2>2. \A b \in Reader : ~(Subject(b)' = r /\ caller'[b].pc \in Unlaunched)
        BY <1>11 DEF Attends, Attending
    <2> QED BY <1>12, <1>13, <2>1, <2>2 DEF PlacedByOne, Unsubmitted
<1>16. ASSUME Calm(r)' PROVE CalmOK(r)'
    <2>1. Calm(r) /\ CalmOK(r) /\ overdue[r] # "submitting"
        BY <1>4, <1>16 DEF Calm, SubmissionInv
    <2>2. PreparedBy(c, r)
        BY <1>3, <2>1 DEF CalmOK
    <2>3. binding'[r].state \in Unsubmitted =>
              ~Placed(r)' /\ \A d \in Dataset : task'[r][d] # "collecting"
        BY <1>1, <1>4, <1>12, <1>13, <2>1, <2>2 DEF PreparedBy, Unsubmitted
    <2>4. \A e \in Executor : job'[e].run = r => ExecutionOK(e)'
        <3> SUFFICES ASSUME NEW e \in Executor, job'[e].run = r PROVE ExecutionOK(e)'
            OBVIOUS
        <3>1. ExecutionOK(e) /\ UNCHANGED <<job, task, lease>>
            BY <1>4, <2>1 DEF CalmOK
        <3> QED BY <3>1 DEF ExecutionOK, AtHand, R, D, First, Ended, Reserved, OwnsLive, Ready,
                           Fenced, Holds
    <2>5. \A i \in DOMAIN queue' : queue'[i] = r => Ready(r)'
        BY <1>4, <2>1 DEF CalmOK, Ready, Ended, Reserved, OwnsLive
    <2> QED BY <1>4, <1>11, <1>13, <2>1, <2>3, <2>4, <2>5 DEF CalmOK, OwnsLive
<1> QED BY <1>3, <1>4, <1>7, <1>8, <1>9, <1>10, <1>14, <1>15, <1>16, CallerKeeps DEF KeyOK

LEMMA SubmittedKeeps ==
    ASSUME SubmissionInv, NEW c \in Reader, MarkSubmitted(c)
    PROVE  SubmissionInv'
BY MarkKeeps DEF MarkSubmitted, Calling

LEMMA SubmissionFailedKeeps ==
    ASSUME SubmissionInv, NEW c \in Reader, MarkSubmissionFailed(c)
    PROVE  SubmissionInv'
BY MarkKeeps DEF MarkSubmissionFailed, Calling

-----------------------------------------------------------------------------
(* The get_run calls, and requests that do not attend to their run         *)

LEMMA LooksOnKeeps ==
    ASSUME SubmissionInv, NEW c \in Reader, NEW r \in Run, CallerStepOf(c, r),
           caller'[c].pc \notin Attending, binding[r].state # "none",
           TypeOK', CallerOK(c)', ReaderOK(c)',
           \A b \in Reader \ {c} : reader'[b] = reader[b],
           run[r] # "absent" => run'[r] # "absent",
           \A q \in Run \ {r} : run'[q] = run[q],
           UNCHANGED <<task, lease, queue, binding, overdue>>
    PROVE  SubmissionInv'
<1>1. ShapesOK /\ KeyOK(r)
    BY DEF SubmissionInv, ShapesOK
<1>2. \A b \in Reader : Attends(b, r)' => caller'[b] = caller[b]
    BY DEF CallerStepOf, Attends
<1>3. job' = job /\ lapsed' = lapsed /\ \A b \in Reader : reader'[b].seen \subseteq reader[b].seen
    BY DEF CallerStepOf
<1>4. (Placed(r)' <=> Placed(r)) /\ (PlacedOnce(r)' <=> PlacedOnce(r))
    BY <1>3 DEF Placed, PlacedOnce
<1>5. Quiet(r)
    <2>1. Frame(r)
        BY <1>2, <1>4 DEF Frame
    <2> QED BY <1>3, <2>1 DEF Quiet, CalmOK
<1>6. Attended(r)' /\ PlacedByOne(r)' /\ (Calm(r)' => CalmOK(r)')
    BY <1>1, <1>5, FrameKeeps, QuietKeeps DEF SubmissionInv, Quiet
<1> QED BY <1>1, <1>6, CallerKeeps DEF KeyOK

LEMMA ReadBindingKeeps ==
    ASSUME SubmissionInv, NEW c \in Reader, ReadBinding(c)
    PROVE  SubmissionInv'
<1>1. /\ caller[c].pc = "bind" /\ caller[c].pc # "idle" /\ caller[c].pc \notin InGetRun
    BY DEF ReadBinding, Calling, InGetRun
<1>2. PICK r \in Run : r = Subject(c)
    BY <1>1, AtCall
<1>3. /\ TypeOK /\ caller[c] \in Call /\ caller[c].run = r /\ r # NoRun
      /\ binding[r].state # "none" /\ reader[c].pc = "idle"
    BY <1>1, <1>2, AtCall DEF Subject
<1>4. UNCHANGED <<run, task, lease, snapshot, lapsed, queue, job, reader, binding, overdue, boundVars>>
    BY DEF ReadBinding, OnlyCaller, storeVars, executionVars
<1> DEFINE submitted == binding[r].state = "submitted"
           k == [caller[c] EXCEPT !.pc = "checked", !.submitted = submitted]
<1>5. k \in Call /\ k.pc = "checked" /\ k.run = r
    BY <1>3 DEF Call
<1>6. Becomes(c, k)
    BY <1>2 DEF ReadBinding
<1> HIDE DEF k
<1>7. /\ caller'[c] = k /\ caller' \in [Reader -> Call]
      /\ \A b \in Reader \ {c} : caller'[b] = caller[b]
    BY <1>3, <1>5, <1>6 DEF Becomes, TypeOK
<1>8. TypeOK'
    BY <1>3, <1>4, <1>7 DEF TypeOK, StoreTypeOK, ExecutionTypeOK, boundVars
<1>9. CallerStepOf(c, r)
    BY <1>3, <1>4, <1>5, <1>7 DEF CallerStepOf, Subject
<1>10. CallerOK(c)' /\ ReaderOK(c)' /\ caller'[c].pc \notin Attending
    BY <1>3, <1>4, <1>5, <1>7
       DEF CallerOK, ReaderOK, Subject, Attending, Unlaunched, Preparing, Retreating
<1> QED BY <1>3, <1>4, <1>8, <1>9, <1>10, LooksOnKeeps

(* Sweeping, and the rest of a get_run that has not returned: nothing but  *)
(* tasks without a lease is touched.                                       *)
LEMMA ReaderMoves ==
    ASSUME SubmissionInv, NEW c \in Reader, caller[c].pc \in InGetRun,
           NEW k \in Request, reader' = [reader EXCEPT ![c] = k], k.run = Subject(c),
           k.pc \in {"expire", "read"} \/ (k.pc = "settle" /\ k.target \in RunTerminal),
           k.seen \subseteq reader[c].seen \union Inactive,
           ExpireTasks(reader[c].seen) \/ UNCHANGED storeVars,
           UNCHANGED <<queue, job, fullVars>>
    PROVE  SubmissionInv'
<1>1. /\ ShapesOK /\ TypeOK /\ reader \in [Reader -> Request]
    BY DEF SubmissionInv, ShapesOK, TypeOK, ExecutionTypeOK
<1>2. /\ reader' \in [Reader -> Request] /\ reader'[c] = k
      /\ \A b \in Reader \ {c} : reader'[b] = reader[b]
    BY <1>1
<1>3. /\ StoreTypeOK' /\ Grows /\ UNCHANGED <<lease, snapshot, lapsed>>
      /\ \A q \in Run, d \in Dataset : task'[q][d] = "queued" => task[q][d] = "queued"
      /\ \A q \in Run : (\A d \in Dataset : <<q, d>> \notin reader[c].seen) => task'[q] = task[q]
    <2>1. CASE ExpireTasks(reader[c].seen)
        <3>1. reader[c].seen \in SUBSET Task
            BY <1>1 DEF Request
        <3> QED BY <2>1, <3>1, ExpireMoves
    <2>2. CASE UNCHANGED storeVars
        BY <1>1, <2>2 DEF storeVars, TypeOK, StoreTypeOK, Grows
    <2> QED BY <2>1, <2>2
<1>4. ASSUME NEW q \in Run PROVE Quiet(q)
    <2>1. (PlacedOnce(q) => PlacedOnce(q)') /\ (Placed(q)' => Placed(q))
        BY DEF PlacedOnce, Placed
    <2>2. Frame(q)
        BY <1>3, <2>1 DEF Frame, fullVars
    <2>3. CalmOK(q) => /\ task'[q] = task[q]
                       /\ \A b \in Reader, d \in Dataset : <<q, d>> \notin reader'[b].seen
        BY <1>2, <1>3, CalmIsNotInactive DEF CalmOK
    <2> QED BY <1>3, <2>2, <2>3 DEF Quiet, CalmOK
<1>5. ShapesOK'
    <2>1. TypeOK'
        BY <1>1, <1>2, <1>3 DEF TypeOK, ExecutionTypeOK, fullVars, boundVars
    <2>2. \A q \in Run : KeyOK(q)'
        BY <1>1, <1>3, <1>4, KeyStays DEF Quiet
    <2>3. \A e \in Executor : JobOK(e)'
        BY <1>1 DEF ShapesOK, JobOK, TargetOK
    <2>4. \A b \in Reader : ReaderOK(b)' /\ CallerOK(b)'
        <3> SUFFICES ASSUME NEW b \in Reader PROVE ReaderOK(b)' /\ CallerOK(b)'
            OBVIOUS
        <3>1. ReaderOK(b) /\ CallerOK(b) /\ UNCHANGED <<caller, binding>>
            BY <1>1 DEF ShapesOK, fullVars
        <3>2. CASE b = c
            BY <1>2, <3>1, <3>2 DEF ReaderOK, CallerOK, Subject
        <3>3. CASE b # c
            BY <1>2, <3>1, <3>3 DEF ReaderOK, CallerOK, Subject
        <3> QED BY <3>2, <3>3
    <2>5. \A d \in Dataset : RowOK(d)'
        BY <1>1, <1>3 DEF ShapesOK, RowOK
    <2> QED BY <2>1, <2>2, <2>3, <2>4, <2>5 DEF ShapesOK
<1> QED BY <1>4, <1>5, AllQuiet

LEMMA GetRunKeeps ==
    ASSUME SubmissionInv, NEW c \in Reader, CallGetRun(c)
    PROVE  SubmissionInv'
<1>1. caller[c].pc \in InGetRun /\ caller[c].pc # "idle"
    BY DEF CallGetRun, InGetRun
<1>2. Subject(c) \in Run /\ Inactive \in SUBSET Task
    BY <1>1, AtCall DEF Inactive
<1> DEFINE k == [Resting EXCEPT !.run = Subject(c), !.seen = Inactive,
                    !.pc = IF Inactive = {} THEN "read" ELSE "expire"]
<1>3. k \in Request /\ k.run = Subject(c) /\ k.pc \in {"expire", "read"} /\ k.seen = Inactive
    BY <1>2 DEF Request, Resting
<1>4. /\ reader' = [reader EXCEPT ![c] = k]
      /\ UNCHANGED storeVars /\ UNCHANGED <<queue, job, fullVars>>
    BY DEF CallGetRun, GetRun, Answer, OnlyReader
<1> HIDE DEF k
<1> QED BY <1>1, <1>3, <1>4, ReaderMoves

LEMMA ExpireInGetRunKeeps ==
    ASSUME SubmissionInv, NEW c \in Reader, ExpireInGetRun(c)
    PROVE  SubmissionInv'
<1>1. reader[c].pc = "expire" /\ reader[c] \in Request /\ ReaderOK(c)
    BY DEF ExpireInGetRun, ReaderExpire, SubmissionInv, ShapesOK, TypeOK, ExecutionTypeOK
<1>2. caller[c].pc \in InGetRun /\ reader[c].run = Subject(c)
    BY <1>1 DEF ReaderOK
<1>3. Subject(c) # NoRun
    BY <1>2, AtCall DEF InGetRun
<1> DEFINE k == [reader[c] EXCEPT !.pc = "read", !.seen = {}]
<1>4. k \in Request /\ k.run = Subject(c) /\ k.pc = "read" /\ k.seen = {}
    BY <1>1, <1>2 DEF Request
<1>5. /\ reader' = [reader EXCEPT ![c] = k] /\ ExpireTasks(reader[c].seen)
      /\ UNCHANGED <<queue, job, fullVars>>
    BY <1>2, <1>3 DEF ExpireInGetRun, ReaderExpire, Answer
<1> HIDE DEF k
<1> QED BY <1>2, <1>4, <1>5, ReaderMoves

(* When get_run has returned.  A run that is in the executor although a    *)
(* request prepares it has only terminal tasks; get_run finds it so, and   *)
(* the request marks it without launching it.                              *)
LEMMA AfterKeeps ==
    ASSUME SubmissionInv, NEW c \in Reader, caller[c].pc \in InGetRun,
           NEW r \in Run, r = Subject(c), NEW terminal \in BOOLEAN,
           terminal \/ ~AllTerminal(r), AfterGetRun(c, terminal),
           reader' = [reader EXCEPT ![c] = Resting],
           run' \in [Run -> {"absent"} \union Active \union RunTerminal],
           run'[r] # "absent", \A q \in Run \ {r} : run'[q] = run[q],
           UNCHANGED <<task, lease, snapshot, lapsed, queue, job, binding, overdue, boundVars>>
    PROVE  SubmissionInv'
<1>1. /\ ShapesOK /\ TypeOK /\ caller[c] \in Call /\ caller[c].run = r /\ r # NoRun
      /\ binding[r].state # "none" /\ caller[c].pc # "idle"
      /\ \A d \in Dataset : task[r][d] \in Active \union Terminal
    BY AtCall DEF Subject, SubmissionInv, ShapesOK, InGetRun
<1>2. reader' \in [Reader -> Request] /\ reader'[c] = Resting
      /\ \A b \in Reader \ {c} : reader'[b] = reader[b]
    BY <1>1 DEF TypeOK, ExecutionTypeOK, Request, Resting
<1>3. \A b \in Reader : reader'[b].seen \subseteq reader[b].seen
    <2> SUFFICES ASSUME NEW b \in Reader PROVE reader'[b].seen \subseteq reader[b].seen
        OBVIOUS
    <2>1. CASE b = c
        BY <1>2, <2>1 DEF Resting
    <2>2. CASE b # c
        BY <1>2, <2>2
    <2> QED BY <2>1, <2>2
<1>4. ASSUME NEW k \in Call, caller' = [caller EXCEPT ![c] = k], k.pc = "idle" \/ k.run = r
      PROVE  /\ TypeOK' /\ caller'[c] = k /\ ReaderOK(c)' /\ CallerStepOf(c, r)
             /\ k.pc \notin {"reserve", "yield", "unlease"} => CallerOK(c)'
    <2>1. /\ caller'[c] = k /\ caller' \in [Reader -> Call]
          /\ \A b \in Reader \ {c} : caller'[b] = caller[b]
        BY <1>1, <1>4 DEF TypeOK
    <2>2. TypeOK'
        BY <1>1, <1>2, <2>1 DEF TypeOK, StoreTypeOK, ExecutionTypeOK, boundVars
    <2>3. ReaderOK(c)' /\ (k.pc \notin {"reserve", "yield", "unlease"} => CallerOK(c)')
        BY <1>1, <1>2, <1>4, <2>1 DEF ReaderOK, CallerOK, Subject, Resting
    <2>4. CallerStepOf(c, r)
        BY <1>1, <1>3, <1>4, <2>1 DEF CallerStepOf, Subject
    <2> QED BY <2>1, <2>2, <2>3, <2>4
<1>5. ASSUME NEW k \in Call, caller' = [caller EXCEPT ![c] = k],
             k.pc = "idle" \/ (k.run = r /\ k.pc \in {"bind", "acquire"})
      PROVE  SubmissionInv'
    <2>1. /\ TypeOK' /\ caller'[c] = k /\ ReaderOK(c)' /\ CallerStepOf(c, r) /\ CallerOK(c)'
        BY <1>4, <1>5
    <2>2. caller'[c].pc \notin Attending
        BY <1>5, <2>1 DEF Attending, Unlaunched, Preparing, Retreating
    <2> QED BY <1>1, <1>2, <2>1, <2>2, LooksOnKeeps
<1>6. NoCall \in Call /\ NoCall.pc = "idle"
    BY DEF NoCall, Call
<1>7. CASE caller[c].pc = "claimed"
    <2> DEFINE k == [caller[c] EXCEPT !.pc = "bind", !.token = 0]
    <2>1. k \in Call /\ k.pc = "bind" /\ k.run = r
        BY <1>1 DEF Call
    <2>2. caller' = [caller EXCEPT ![c] = NoCall] \/ caller' = [caller EXCEPT ![c] = k]
        BY <1>7 DEF AfterGetRun, Calling, Leave, Proceed, Becomes
    <2> HIDE DEF k
    <2> QED BY <1>5, <1>6, <2>1, <2>2
<1>8. CASE caller[c].pc = "checked"
    <2> DEFINE k == [NoCall EXCEPT !.pc = "acquire", !.run = r]
    <2>1. k \in Call /\ k.pc = "acquire" /\ k.run = r
        BY DEF Call, NoCall
    <2>2. caller' = [caller EXCEPT ![c] = NoCall] \/ caller' = [caller EXCEPT ![c] = k]
        BY <1>8 DEF AfterGetRun, Calling, Leave, Becomes
    <2> HIDE DEF k
    <2> QED BY <1>5, <1>6, <2>1, <2>2
<1>9. CASE caller[c].pc = "observed"
    <2> DEFINE next == IF terminal \/ caller[c].working THEN "mark" ELSE "launch"
               k == [NoCall EXCEPT !.run = r, !.pc = next]
    <2>1. /\ k \in Call /\ k.pc = next /\ k.run = r /\ k.pc \in {"mark", "launch"}
        BY DEF Call, NoCall
    <2>2. caller' = [caller EXCEPT ![c] = k]
        BY <1>9 DEF AfterGetRun, Calling, Becomes
    <2>3. k.pc = "launch" => ~terminal
        BY <2>1
    <2> HIDE DEF k
    <2>4. /\ TypeOK' /\ caller'[c] = k /\ ReaderOK(c)' /\ CallerStepOf(c, r) /\ CallerOK(c)'
        BY <1>4, <2>1, <2>2
    <2>5. AttendedBy(c, r) => AttendedBy(c, r)'
        BY <2>1, <2>4 DEF AttendedBy
    <2>6. PreparedBy(c, r) => PreparedBy(c, r)'
        <3> SUFFICES ASSUME PreparedBy(c, r) PROVE PreparedBy(c, r)'
            OBVIOUS
        <3>1. CASE k.pc = "mark"
            BY <2>4, <3>1 DEF PreparedBy, Unlaunched, Preparing, Retreating
        <3>2. CASE k.pc = "launch"
            <4>1. /\ \A d \in Dataset : task[r][d] # "collecting"
                  /\ Ready(r) /\ (Placed(r) => \A d \in Dataset : Ended(r, d))
                BY <1>9 DEF PreparedBy, Unlaunched, Preparing
            <4>2. (\A d \in Dataset : Ended(r, d)) => AllTerminal(r)
                BY FullAssumption, StatusesDiffer DEF AllTerminal, Statuses, Ended
            <4>3. ~Placed(r)
                BY <2>3, <3>2, <4>1, <4>2
            <4>4. ~Placed(r)' /\ Ready(r)'
                BY <4>1, <4>3 DEF Placed, Ready, Ended, Reserved, OwnsLive
            <4> QED BY <2>4, <3>2, <4>1, <4>4 DEF PreparedBy, Unlaunched, Preparing, Retreating
        <3> QED BY <2>1, <3>1, <3>2
    <2>7. caller[c].pc \in Unlaunched /\ caller'[c].pc \in Attending \union {"idle"}
        BY <1>9, <2>1, <2>4 DEF Attending, Unlaunched, Preparing, Retreating
    <2> QED BY <1>2, <2>4, <2>5, <2>6, <2>7, AttendingKeeps
<1> QED BY <1>7, <1>8, <1>9 DEF InGetRun

LEMMA ReadInGetRunKeeps ==
    ASSUME SubmissionInv, NEW c \in Reader, ReadInGetRun(c)
    PROVE  SubmissionInv'
<1>1. /\ reader[c].pc = "read" /\ reader[c] \in Request /\ ReaderOK(c) /\ TypeOK
    BY DEF ReadInGetRun, ReaderRead, SubmissionInv, ShapesOK, TypeOK, ExecutionTypeOK
<1>2. caller[c].pc \in InGetRun /\ reader[c].run = Subject(c) /\ caller[c].pc # "idle"
    BY <1>1 DEF ReaderOK, InGetRun
<1>3. PICK r \in Run : r = Subject(c)
    BY <1>2, AtCall
<1>4. run[r] \in Active \union RunTerminal
    BY <1>2, <1>3, AtCall
<1>5. /\ UNCHANGED storeVars
      /\ UNCHANGED <<run, task, lease, snapshot, lapsed, queue, job, binding, overdue, boundVars>>
    BY DEF ReadInGetRun, ReaderRead, OnlyReader, storeVars
<1> DEFINE verdict == Verdict(Statuses(r))
           k == [reader[c] EXCEPT !.pc = "settle", !.target = verdict]
<1>6. CASE run[r] \in Active /\ AllTerminal(r)
    <2>1. verdict \in RunTerminal
        BY VerdictType
    <2>2. /\ k \in Request /\ k.run = Subject(c) /\ k.pc = "settle" /\ k.target \in RunTerminal
          /\ k.seen = reader[c].seen
        BY <1>1, <1>2, <2>1 DEF Request
    <2>3. reader' = [reader EXCEPT ![c] = k]
        BY <1>2, <1>3, <1>6 DEF ReadInGetRun, ReaderRead, Answer
    <2>4. reader'[c].pc = "settle"
        BY <1>1, <2>2, <2>3 DEF TypeOK, ExecutionTypeOK
    <2>5. UNCHANGED <<queue, job, fullVars>>
        BY <1>5, <2>4 DEF ReadInGetRun, fullVars
    <2> HIDE DEF k, verdict
    <2> QED BY <1>2, <1>5, <2>2, <2>3, <2>5, ReaderMoves
<1>7. CASE ~(run[r] \in Active /\ AllTerminal(r))
    <2>1. reader' = [reader EXCEPT ![c] = Resting]
        BY <1>2, <1>3, <1>7 DEF ReadInGetRun, ReaderRead, Answer
    <2>2. reader'[c].pc # "settle"
        BY <1>1, <2>1 DEF TypeOK, ExecutionTypeOK, Resting
    <2>3. AfterGetRun(c, run[r] \in RunTerminal)
        BY <1>2, <1>3, <2>2 DEF ReadInGetRun
    <2>4. (run[r] \in RunTerminal) \in BOOLEAN
        OBVIOUS
    <2>5. run[r] \in RunTerminal \/ ~AllTerminal(r)
        BY <1>4, <1>7
    <2>6. /\ run' \in [Run -> {"absent"} \union Active \union RunTerminal]
          /\ run'[r] # "absent" /\ \A q \in Run \ {r} : run'[q] = run[q]
        BY <1>1, <1>4, <1>5 DEF TypeOK, StoreTypeOK, Active, RunTerminal
    <2> QED BY <1>2, <1>3, <1>5, <2>1, <2>3, <2>4, <2>5, <2>6, AfterKeeps
<1> QED BY <1>6, <1>7

LEMMA SettleInGetRunKeeps ==
    ASSUME SubmissionInv, NEW c \in Reader, SettleInGetRun(c)
    PROVE  SubmissionInv'
<1>1. /\ reader[c].pc = "settle" /\ reader[c] \in Request /\ ReaderOK(c) /\ TypeOK
    BY DEF SettleInGetRun, ReaderSettle, SubmissionInv, ShapesOK, TypeOK, ExecutionTypeOK
<1>2. /\ caller[c].pc \in InGetRun /\ reader[c].run = Subject(c) /\ caller[c].pc # "idle"
      /\ reader[c].target \in RunTerminal
    BY <1>1 DEF ReaderOK, InGetRun
<1>3. PICK r \in Run : r = Subject(c)
    BY <1>2, AtCall
<1>4. /\ UNCHANGED <<task, lease, snapshot, lapsed, queue, job, binding, overdue, boundVars>>
      /\ reader' = [reader EXCEPT ![c] = Resting]
      /\ AfterGetRun(c, TRUE) /\ run' = [run EXCEPT ![r] = reader[c].target]
    BY <1>2, <1>3 DEF SettleInGetRun, ReaderSettle, SetRun, Answer
<1>5. /\ run' \in [Run -> {"absent"} \union Active \union RunTerminal]
      /\ run'[r] # "absent" /\ \A q \in Run \ {r} : run'[q] = run[q]
    BY <1>1, <1>2, <1>4 DEF TypeOK, StoreTypeOK, RunTerminal
<1> QED BY <1>2, <1>3, <1>4, <1>5, AfterKeeps

LEMMA CallerStepKeeps ==
    ASSUME SubmissionInv, NEW c \in Reader, CallerStep(c)
    PROVE  SubmissionInv'
BY GetRunKeeps, ExpireInGetRunKeeps, ReadInGetRunKeeps, SettleInGetRunKeeps, ReadBindingKeeps,
   AcquireKeeps, ListQueuedKeeps, PreflightKeeps, FindKeeps, ReserveKeeps, RefusedKeeps,
   YieldKeeps, ListPreparedKeeps, LaunchKeeps, RejectedKeeps, ListReservedKeeps,
   ReadReservedKeeps, GiveBackKeeps, SubmittedKeeps, SubmissionFailedKeeps
   DEF CallerStep

-----------------------------------------------------------------------------
(* A key is claimed, or posted again *)

LEMMA ClaimKeeps ==
    ASSUME SubmissionInv, NEW c \in Reader, NEW r \in Run, Claim(c, r)
    PROVE  SubmissionInv'
<1>1. /\ ShapesOK /\ TypeOK /\ r # NoRun /\ KeyOK(r)
      /\ caller[c].pc = "idle" /\ reader[c].pc = "idle" /\ binding[r].state = "none"
      /\ ~Placed(r) /\ overdue[r] = "none" /\ ~binding[r].live
    BY StoreAssumption DEF SubmissionInv, ShapesOK, Claim, Calling, KeyOK
<1>2. UNCHANGED <<lease, snapshot, lapsed, queue, job, reader, overdue, boundVars>>
    BY DEF Claim, executionVars
<1> DEFINE k == [NoCall EXCEPT !.pc = "claimed", !.run = r]
<1>3. k \in Call /\ k.pc = "claimed" /\ k.run = r
    BY DEF NoCall, Call
<1>4. Becomes(c, k)
    BY DEF Claim
<1> HIDE DEF k
<1>5. /\ caller'[c] = k /\ caller' \in [Reader -> Call]
      /\ \A b \in Reader \ {c} : caller'[b] = caller[b]
    BY <1>1, <1>3, <1>4 DEF Becomes, TypeOK
<1>6. /\ run' \in [Run -> {"absent"} \union Active \union RunTerminal]
      /\ run'[r] = "queued" /\ \A q \in Run \ {r} : run'[q] = run[q]
    BY <1>1 DEF Claim, SetRun, TypeOK, StoreTypeOK, Active
<1>7. /\ task' \in [Run -> [Dataset -> {"absent"} \union Active \union Terminal]]
      /\ \A d \in Dataset : task'[r][d] = "queued"
      /\ \A q \in Run \ {r} : task'[q] = task[q]
    BY <1>1 DEF Claim, TypeOK, StoreTypeOK, Active
<1>8. /\ binding' \in [Run -> Binding] /\ binding'[r].state = "reserved" /\ ~binding'[r].live
      /\ \A q \in Run \ {r} : binding'[q] = binding[q]
    <2>1. binding' = [binding EXCEPT ![r].state = "reserved"]
        BY DEF Claim
    <2>2. [binding[r] EXCEPT !.state = "reserved"] \in Binding
        BY <1>1 DEF TypeOK, Binding
    <2> QED BY <1>1, <2>1, <2>2 DEF TypeOK, Binding
<1>9. TypeOK'
    BY <1>1, <1>2, <1>5, <1>6, <1>7, <1>8 DEF TypeOK, StoreTypeOK, ExecutionTypeOK, boundVars
<1>10. CallerStepOf(c, r)
    BY <1>1, <1>2, <1>3, <1>5, <1>7, <1>8 DEF CallerStepOf
<1>11. CallerOK(c)' /\ ReaderOK(c)'
    BY <1>1, <1>2, <1>3, <1>5, <1>8 DEF CallerOK, ReaderOK, Subject
<1>12. \A b \in Reader : caller'[b].run = r => caller'[b].pc \notin Attending
    <2> SUFFICES ASSUME NEW b \in Reader, caller'[b].run = r PROVE caller'[b].pc \notin Attending
        OBVIOUS
    <2>1. CASE b = c
        BY <1>3, <1>5, <2>1 DEF Attending, Unlaunched, Preparing, Retreating
    <2>2. CASE b # c
        <3>1. CallerOK(b) /\ caller'[b] = caller[b]
            BY <1>1, <1>5, <2>2 DEF ShapesOK
        <3> QED BY <1>1, <3>1 DEF CallerOK, Subject, Attending, Unlaunched, Preparing, Retreating
    <2> QED BY <2>1, <2>2
<1>13. ~Placed(r)' /\ PlacedOnce(r)'
    BY <1>1, <1>2 DEF Placed, PlacedOnce
<1>14. Attended(r)' /\ PlacedByOne(r)'
    BY <1>8, <1>12, <1>13 DEF Attended, PlacedByOne, Attends, Attending, Subject
<1>15. ASSUME Calm(r)' PROVE CalmOK(r)'
    <2>1. CalmOK(r)
        BY <1>2, <1>15 DEF Calm, SubmissionInv
    <2>2. \A d \in Dataset : task'[r][d] # "collecting"
        BY <1>7
    <2> QED BY <1>2, <1>12, <1>13, <2>1, <2>2 DEF CalmOK, Attends, Subject, Placed
<1>16. \A d \in Dataset : task'[r][d] # "absent"
    BY <1>7
<1> QED BY <1>2, <1>6, <1>8, <1>9, <1>10, <1>11, <1>14, <1>15, <1>16, CallerKeeps

LEMMA ReplayKeeps ==
    ASSUME SubmissionInv, NEW c \in Reader, NEW r \in Run, Replay(c, r)
    PROVE  SubmissionInv'
<1>1. /\ TypeOK /\ r # NoRun
      /\ caller[c].pc = "idle" /\ reader[c].pc = "idle" /\ binding[r].state # "none"
    BY StoreAssumption DEF SubmissionInv, ShapesOK, Replay, Calling
<1>2. UNCHANGED <<run, task, lease, snapshot, lapsed, queue, job, reader, binding, overdue, crashes>>
    BY DEF Replay, storeVars, executionVars
<1> DEFINE submitted == binding[r].state = "submitted"
           k == [NoCall EXCEPT !.pc = "claimed", !.run = r, !.submitted = submitted]
<1>3. k \in Call /\ k.pc = "claimed" /\ k.run = r
    BY DEF NoCall, Call
<1>4. Becomes(c, k)
    BY DEF Replay
<1> HIDE DEF k
<1>5. /\ caller'[c] = k /\ caller' \in [Reader -> Call]
      /\ \A b \in Reader \ {c} : caller'[b] = caller[b]
    BY <1>1, <1>3, <1>4 DEF Becomes, TypeOK
<1>6. replays' \in [Run -> 0 .. MaxReplays]
    BY <1>1, FullAssumption DEF Replay, TypeOK
<1>7. TypeOK'
    BY <1>1, <1>2, <1>5, <1>6 DEF TypeOK, StoreTypeOK, ExecutionTypeOK
<1>8. CallerStepOf(c, r)
    BY <1>1, <1>2, <1>3, <1>5 DEF CallerStepOf
<1>9. CallerOK(c)' /\ ReaderOK(c)' /\ caller'[c].pc \notin Attending
    BY <1>1, <1>2, <1>3, <1>5
       DEF CallerOK, ReaderOK, Subject, Attending, Unlaunched, Preparing, Retreating
<1> QED BY <1>1, <1>2, <1>7, <1>8, <1>9, LooksOnKeeps

-----------------------------------------------------------------------------
(* The surroundings *)

LEMMA LapseKeeps ==
    ASSUME SubmissionInv, NEW d \in Dataset, Lapse(d), UNCHANGED <<executionVars, fullVars>>
    PROVE  SubmissionInv'
<1>1. ShapesOK /\ TypeOK
    BY DEF SubmissionInv, ShapesOK
<1>2. UNCHANGED <<run, task, snapshot, queue, job, reader, fullVars>>
    BY DEF Lapse, executionVars
<1>3. /\ lease' \in [Dataset -> [owner : Run \union {NoRun}, generation : Nat, live : BOOLEAN]]
      /\ \A x \in Dataset : x # d => lease'[x] = lease[x]
      /\ lease'[d].owner = lease[d].owner /\ lease'[d].generation = lease[d].generation
      /\ lease[d].live /\ ~lease'[d].live
    <2>1. lease' = [lease EXCEPT ![d].live = FALSE] /\ lease[d].live
        BY DEF Lapse
    <2> QED BY <1>1, <2>1 DEF TypeOK, StoreTypeOK
<1>4. /\ lapsed \subseteq lapsed' /\ lapsed' \subseteq Task
      /\ \A q \in Run : lease[d].owner = q => <<q, d>> \in lapsed'
    BY <1>1 DEF Lapse, TypeOK, StoreTypeOK, Task
<1>5. ASSUME NEW q \in Run PROVE Quiet(q)
    <2>1. (PlacedOnce(q) => PlacedOnce(q)') /\ (Placed(q)' => Placed(q))
        BY <1>2 DEF PlacedOnce, Placed
    <2>2. Frame(q)
        BY <1>2, <1>3, <2>1 DEF Frame, fullVars
    <2>3. Calm(q)' => \A x \in Dataset : OwnsLive(q, x) => lease'[x] = lease[x]
        BY <1>3, <1>4 DEF Calm, OwnsLive
    <2> QED BY <1>2, <1>4, <2>2, <2>3 DEF Quiet, CalmOK
<1>6. TypeOK'
    BY <1>1, <1>2, <1>3, <1>4
       DEF TypeOK, StoreTypeOK, ExecutionTypeOK, fullVars, boundVars
<1>7. \A q \in Run : KeyOK(q)'
    BY <1>1, <1>2, <1>5, KeyStays DEF Quiet, Grows
<1>8. \A e \in Executor : JobOK(e)'
    BY <1>1, <1>2 DEF ShapesOK, JobOK, TargetOK
<1>9. \A b \in Reader : ReaderOK(b)' /\ CallerOK(b)'
    BY <1>1, <1>2 DEF ShapesOK, ReaderOK, CallerOK, Subject, fullVars
<1>10. ASSUME NEW x \in Dataset PROVE RowOK(x)'
    <2>1. RowOK(x) /\ lease'[x].owner = lease[x].owner /\ lease[x].owner \in Run \union {NoRun}
        BY <1>1, <1>3 DEF ShapesOK, TypeOK, StoreTypeOK
    <2>2. CASE x = d
        BY <1>4, <2>1, <2>2 DEF RowOK
    <2>3. CASE x # d
        BY <1>3, <1>4, <2>1, <2>3 DEF RowOK
    <2> QED BY <2>2, <2>3
<1>11. ShapesOK'
    BY <1>6, <1>7, <1>8, <1>9, <1>10 DEF ShapesOK
<1> QED BY <1>5, <1>11, AllQuiet

LEMMA RivalKeeps ==
    ASSUME SubmissionInv, NEW d \in Dataset, Rival(d)
    PROVE  SubmissionInv'
<1>1. ShapesOK /\ TypeOK
    BY DEF SubmissionInv, ShapesOK
<1>2. UNCHANGED <<run, task, snapshot, lapsed, queue, job, reader, fullVars>>
    BY DEF Rival, executionVars
<1>3. /\ lease' \in [Dataset -> [owner : Run \union {NoRun}, generation : Nat, live : BOOLEAN]]
      /\ \A x \in Dataset : x # d => lease'[x] = lease[x]
      /\ lease'[d].owner = NoRun
      /\ \A q \in Run : ~OwnsLive(q, d)
    <2>1. CASE ~lease[d].live /\ TakeLease(NoRun, d, Reservations)
        BY <1>1, <2>1, LeaseTaken DEF OwnsLive
    <2>2. CASE OwnsLive(NoRun, d) /\ lease' = [lease EXCEPT ![d] = NoLease]
        BY <1>1, <2>2, StoreAssumption DEF OwnsLive, NoLease, TypeOK, StoreTypeOK
    <2> QED BY <2>1, <2>2 DEF Rival
<1>4. ASSUME NEW q \in Run PROVE Quiet(q)
    <2>1. (PlacedOnce(q) => PlacedOnce(q)') /\ (Placed(q)' => Placed(q)) /\ q # NoRun
        BY <1>2, StoreAssumption DEF PlacedOnce, Placed
    <2>2. Frame(q)
        BY <1>2, <1>3, <2>1 DEF Frame, fullVars
    <2>3. \A x \in Dataset : OwnsLive(q, x) => lease'[x] = lease[x]
        BY <1>3
    <2> QED BY <1>2, <2>2, <2>3 DEF Quiet, CalmOK
<1>5. TypeOK'
    BY <1>1, <1>2, <1>3 DEF TypeOK, StoreTypeOK, ExecutionTypeOK, fullVars, boundVars
<1>6. \A q \in Run : KeyOK(q)'
    BY <1>1, <1>2, <1>4, KeyStays DEF Quiet, Grows
<1>7. \A e \in Executor : JobOK(e)'
    BY <1>1, <1>2 DEF ShapesOK, JobOK, TargetOK
<1>8. \A b \in Reader : ReaderOK(b)' /\ CallerOK(b)'
    BY <1>1, <1>2 DEF ShapesOK, ReaderOK, CallerOK, Subject, fullVars
<1>9. \A x \in Dataset : RowOK(x)'
    BY <1>1, <1>2, <1>3 DEF ShapesOK, RowOK
<1>10. ShapesOK'
    BY <1>5, <1>6, <1>7, <1>8, <1>9 DEF ShapesOK
<1> QED BY <1>4, <1>10, AllQuiet

LEMMA LapseSubmissionKeeps ==
    ASSUME SubmissionInv, NEW r \in Run, LapseSubmission(r)
    PROVE  SubmissionInv'
<1>1. /\ ShapesOK /\ TypeOK /\ KeyOK(r) /\ binding[r].live
      /\ binding[r].state \in {"submitting", "submitted"}
    BY DEF SubmissionInv, ShapesOK, LapseSubmission, KeyOK
<1>2. UNCHANGED <<run, task, lease, snapshot, lapsed, queue, job, reader, caller, boundVars>>
    BY DEF LapseSubmission, storeVars, executionVars
<1>3. /\ binding' \in [Run -> Binding]
      /\ binding'[r].state = binding[r].state /\ binding'[r].owner = binding[r].owner
      /\ ~binding'[r].live /\ \A q \in Run \ {r} : binding'[q] = binding[q]
    <2>1. binding' = [binding EXCEPT ![r].live = FALSE]
        BY DEF LapseSubmission
    <2>2. [binding[r] EXCEPT !.live = FALSE] \in Binding
        BY <1>1 DEF TypeOK, Binding
    <2> QED BY <1>1, <2>1, <2>2 DEF TypeOK, Binding
<1>4. /\ overdue' \in [Run -> {"none", "submitted", "submitting"}]
      /\ overdue'[r] = IF overdue[r] = "submitting" THEN "submitting" ELSE binding[r].state
      /\ \A q \in Run \ {r} : overdue'[q] = overdue[q]
    BY <1>1 DEF LapseSubmission, TypeOK
<1>5. \A q \in Run : /\ Placed(q)' <=> Placed(q)
                     /\ PlacedOnce(q)' <=> PlacedOnce(q)
    BY <1>2 DEF Placed, PlacedOnce
<1>6. ASSUME NEW q \in Run, q # r PROVE Quiet(q)
    <2>1. Frame(q)
        BY <1>2, <1>3, <1>4, <1>5, <1>6 DEF Frame
    <2> QED BY <1>2, <2>1 DEF Quiet, CalmOK
<1>7. ShapesOK'
    <2>1. TypeOK'
        BY <1>1, <1>2, <1>3, <1>4 DEF TypeOK, StoreTypeOK, ExecutionTypeOK, boundVars
    <2>2. ASSUME NEW q \in Run PROVE KeyOK(q)'
        <3>1. KeyOK(q)
            BY <1>1 DEF ShapesOK
        <3>2. CASE q = r
            BY <1>1, <1>2, <1>3, <3>1, <3>2 DEF KeyOK
        <3>3. CASE q # r
            BY <1>2, <1>3, <1>4, <1>5, <3>1, <3>3 DEF KeyOK
        <3> QED BY <3>2, <3>3
    <2>3. \A e \in Executor : JobOK(e)'
        BY <1>1, <1>2 DEF ShapesOK, JobOK, TargetOK
    <2>4. \A b \in Reader : ReaderOK(b)' /\ CallerOK(b)'
        <3> SUFFICES ASSUME NEW b \in Reader PROVE ReaderOK(b)' /\ CallerOK(b)'
            OBVIOUS
        <3>1. ReaderOK(b) /\ CallerOK(b) /\ caller[b].run \in Run \union {NoRun}
            BY <1>1 DEF ShapesOK, TypeOK, Call
        <3>2. \A q \in Run : binding'[q].state = binding[q].state
            BY <1>3
        <3> QED BY <1>2, <3>1, <3>2 DEF ReaderOK, CallerOK, Subject
    <2>5. \A d \in Dataset : RowOK(d)'
        BY <1>1, <1>2 DEF ShapesOK, RowOK
    <2> QED BY <2>1, <2>2, <2>3, <2>4, <2>5 DEF ShapesOK
<1>8. ASSUME overdue'[r] # "submitting"
      PROVE  overdue[r] # "submitting" /\ \A c \in Reader : ~Attends(c, r)'
    <2>1. overdue[r] # "submitting" /\ binding[r].state = "submitted"
        BY <1>1, <1>4, <1>8
    <2>2. ASSUME NEW c \in Reader, Attends(c, r)' PROVE FALSE
        <3>1. AttendedBy(c, r)
            BY <1>2, <2>1, <2>2 DEF SubmissionInv, Attended, Attends, Subject
        <3> QED BY <2>1, <3>1 DEF AttendedBy
    <2> QED BY <2>1, <2>2
<1>9. Attended(r)' /\ PlacedByOne(r)'
    BY <1>1, <1>4, <1>8 DEF Attended, PlacedByOne
<1>10. ASSUME Calm(r)' PROVE CalmOK(r)'
    <2>1. overdue'[r] # "submitting"
        BY <1>10 DEF Calm
    <2>2. Calm(r) /\ CalmOK(r)
        BY <1>2, <1>8, <1>10, <2>1 DEF Calm, SubmissionInv
    <2>3. \A e \in Executor : job'[e].run = r => ExecutionOK(e)'
        <3> SUFFICES ASSUME NEW e \in Executor, job'[e].run = r PROVE ExecutionOK(e)'
            OBVIOUS
        <3>1. ExecutionOK(e) /\ UNCHANGED <<job, task, lease>>
            BY <1>2, <2>2 DEF CalmOK
        <3> QED BY <3>1 DEF ExecutionOK, AtHand, R, D, First, Ended, Reserved, OwnsLive, Ready,
                           Fenced, Holds
    <2>4. \A i \in DOMAIN queue' : queue'[i] = r => Ready(r)'
        BY <1>2, <2>2 DEF CalmOK, Ready, Ended, Reserved, OwnsLive
    <2> QED BY <1>2, <1>3, <1>5, <1>8, <2>1, <2>2, <2>3, <2>4 DEF CalmOK, OwnsLive
<1> QED BY <1>6, <1>7, <1>9, <1>10, OnlyThisRun

LEMMA CrashKeeps ==
    ASSUME SubmissionInv, Crash
    PROVE  SubmissionInv'
<1>1. ShapesOK /\ TypeOK
    BY DEF SubmissionInv, ShapesOK
<1>2. /\ queue' = <<>> /\ job' = [e \in Executor |-> Idle]
      /\ reader' = [c \in Reader |-> Resting] /\ caller' = [c \in Reader |-> NoCall]
      /\ UNCHANGED <<run, task, lease, snapshot, lapsed, binding, overdue, replays>>
    BY DEF Crash, storeVars
<1>3. /\ \A e \in Executor : job'[e] = Idle
      /\ \A c \in Reader : reader'[c] = Resting /\ caller'[c] = NoCall
      /\ DOMAIN queue' = {}
    BY <1>2
<1>4. ASSUME NEW q \in Run PROVE Quiet(q)
    <2>1. ~Placed(q)' /\ PlacedOnce(q)'
        BY <1>3, StoreAssumption DEF Placed, PlacedOnce, Idle
    <2>2. \A c \in Reader : ~Attends(c, q)'
        BY <1>3 DEF Attends, NoCall, Attending, Unlaunched, Preparing, Retreating
    <2>3. Frame(q)
        BY <1>2, <2>1, <2>2 DEF Frame
    <2>4. /\ \A e \in Executor : job'[e].run # q /\ job'[e].seen = {}
          /\ \A c \in Reader : reader'[c].seen = {}
        BY <1>3, StoreAssumption DEF Idle, Resting
    <2> QED BY <1>2, <1>3, <2>3, <2>4 DEF Quiet
<1>5. TypeOK'
    <2>1. Idle \in Job /\ Resting \in Request /\ NoCall \in Call
        BY DEF Idle, Job, Resting, Request, NoCall, Call
    <2>2. crashes' \in 0 .. MaxCrashes
        BY <1>1, FullAssumption DEF Crash, TypeOK
    <2>3. <<>> \in Seq(Run)
        OBVIOUS
    <2> QED BY <1>1, <1>2, <2>1, <2>2, <2>3 DEF TypeOK, StoreTypeOK, ExecutionTypeOK
<1>6. \A q \in Run : KeyOK(q)'
    BY <1>1, <1>2, <1>4, KeyStays DEF Quiet, Grows
<1>7. ASSUME NEW e \in Executor PROVE JobOK(e)'
    <2>1. job'[e] = Idle
        BY <1>3
    <2>2. Idle.pc = "idle"
        BY DEF Idle
    <2> QED BY <2>1, <2>2 DEF JobOK, TargetOK, AtATask
<1>8. \A c \in Reader : ReaderOK(c)' /\ CallerOK(c)'
    BY <1>3 DEF ReaderOK, CallerOK, Resting, NoCall
<1>9. \A d \in Dataset : RowOK(d)'
    BY <1>1, <1>2 DEF ShapesOK, RowOK
<1>10. ShapesOK'
    BY <1>5, <1>6, <1>7, <1>8, <1>9 DEF ShapesOK
<1> QED BY <1>4, <1>10, AllQuiet

-----------------------------------------------------------------------------
(* The invariant *)

LEMMA InitHolds == Init => SubmissionInv
<1> SUFFICES ASSUME Init PROVE SubmissionInv
    OBVIOUS
<1>1. /\ \A e \in Executor : job[e] = Idle
      /\ \A c \in Reader : reader[c] = Resting /\ caller[c] = NoCall
      /\ queue = <<>> /\ DOMAIN queue = {} /\ lapsed = {}
      /\ \A d \in Dataset : lease[d] = NoLease
      /\ \A r \in Run : overdue[r] = "none" /\ binding[r].state = "none" /\ ~binding[r].live
      /\ \A r \in Run, d \in Dataset : task[r][d] = "absent"
    BY DEF Init, StoreInit, ExecutionInit
<1>2. ASSUME NEW r \in Run PROVE ~Placed(r) /\ PlacedOnce(r)
    BY <1>1, <1>2, StoreAssumption DEF Placed, PlacedOnce, Idle
<1>3. \A c \in Reader : caller[c].pc = "idle" /\ reader[c].pc = "idle" /\ reader[c].seen = {}
    BY <1>1 DEF NoCall, Resting
<1>4. \A e \in Executor : job[e].pc = "idle" /\ job[e].run = NoRun /\ job[e].seen = {}
    BY <1>1 DEF Idle
<1>5. TypeOK
    <2>1. Idle \in Job /\ Resting \in Request /\ NoCall \in Call /\ <<>> \in Seq(Run)
        BY DEF Idle, Job, Resting, Request, NoCall, Call
    <2>2. StoreTypeOK
        BY DEF Init, StoreInit, StoreTypeOK, NoLease
    <2>3. ExecutionTypeOK
        BY <2>1 DEF Init, ExecutionInit, ExecutionTypeOK
    <2>4. MaxReplays \in Nat /\ MaxCrashes \in Nat
        BY FullAssumption
    <2>5. replays \in [Run -> 0 .. MaxReplays] /\ crashes \in 0 .. MaxCrashes
        BY <2>4 DEF Init
    <2> QED BY <2>1, <2>2, <2>3, <2>5 DEF Init, TypeOK, Binding
<1>6. ShapesOK
    <2>1. \A r \in Run : KeyOK(r)
        BY <1>1, <1>2 DEF KeyOK
    <2>2. \A e \in Executor : JobOK(e)
        BY <1>1, <1>4 DEF JobOK, TargetOK, AtATask
    <2>3. \A c \in Reader : ReaderOK(c) /\ CallerOK(c)
        BY <1>3 DEF ReaderOK, CallerOK
    <2>4. \A d \in Dataset : RowOK(d)
        BY <1>1 DEF RowOK, NoLease
    <2> QED BY <1>5, <2>1, <2>2, <2>3, <2>4 DEF ShapesOK
<1>7. \A c \in Reader, r \in Run : ~Attends(c, r)
    BY <1>3 DEF Attends, Attending, Unlaunched, Preparing, Retreating
<1>8. ASSUME NEW r \in Run PROVE Attended(r) /\ PlacedByOne(r) /\ CalmOK(r)
    <2>1. Attended(r) /\ PlacedByOne(r)
        BY <1>1, <1>2, <1>7 DEF Attended, PlacedByOne, Attends, Attending
    <2>2. CalmOK(r)
        BY <1>1, <1>2, <1>3, <1>4, <1>7, StoreAssumption DEF CalmOK, Placed
    <2> QED BY <2>1, <2>2
<1> QED BY <1>6, <1>8 DEF SubmissionInv

LEMMA StutterKeeps ==
    ASSUME SubmissionInv, UNCHANGED vars
    PROVE  SubmissionInv'
<1>1. /\ UNCHANGED storeVars /\ UNCHANGED executionVars /\ UNCHANGED fullVars
      /\ UNCHANGED boundVars
    BY DEF vars, fullVars
<1>2. UNCHANGED <<run, task, lease, snapshot, lapsed, queue, job, reader, binding, caller,
                  overdue, replays, crashes>>
    BY <1>1 DEF storeVars, executionVars, fullVars, boundVars
<1>3. ASSUME NEW q \in Run PROVE Quiet(q)
    BY <1>2 DEF Quiet, Frame, CalmOK, PlacedOnce, Placed
<1>4. ShapesOK'
    <2>1. ShapesOK
        BY DEF SubmissionInv
    <2>2. TypeOK'
        BY <1>2, <2>1 DEF ShapesOK, TypeOK, StoreTypeOK, ExecutionTypeOK
    <2>3. \A q \in Run : KeyOK(q)'
        BY <1>2, <1>3, <2>1, KeyStays DEF Quiet, Grows
    <2>4. \A e \in Executor : JobOK(e)'
        BY <1>2, <2>1 DEF ShapesOK, JobOK, TargetOK
    <2>5. \A c \in Reader : ReaderOK(c)' /\ CallerOK(c)'
        BY <1>2, <2>1 DEF ShapesOK, ReaderOK, CallerOK, Subject
    <2>6. \A d \in Dataset : RowOK(d)'
        BY <1>2, <2>1 DEF ShapesOK, RowOK
    <2> QED BY <2>2, <2>3, <2>4, <2>5, <2>6 DEF ShapesOK
<1> QED BY <1>3, <1>4, AllQuiet

LEMMA StepKeeps ==
    ASSUME SubmissionInv, [Next]_vars
    PROVE  SubmissionInv'
<1>1. Contested \subseteq Dataset
    BY FullAssumption
<1> QED BY <1>1, ClaimKeeps, ReplayKeeps, CallerStepKeeps, ExecutorStepKeeps, LapseKeeps,
           RivalKeeps, LapseSubmissionKeeps, CrashKeeps, StutterKeeps DEF Next

(* However requests, threads, lapses of leases and crashes interleave: a   *)
(* request that attends to a run owns its submission; the run is in the    *)
(* executor once while no submission lease has run out, and once while its *)
(* tasks hold their leases; and every thread finds its tasks as it left    *)
(* them.                                                                   *)
THEOREM SubmissionsAreKeptApart == Spec => []SubmissionInv
<1>1. SubmissionInv /\ [Next]_vars => SubmissionInv'
    BY StepKeeps
<1> QED BY <1>1, InitHolds, PTL DEF Spec

(* Every variable has its type, whatever the requests, threads, lapses and *)
(* crashes do.                                                             *)
THEOREM TypeIsCorrect == Spec => []TypeOK
<1>1. SubmissionInv => TypeOK
    BY DEF SubmissionInv, ShapesOK
<1> QED BY <1>1, SubmissionsAreKeptApart, PTL

LEMMA OneIsEnough ==
    ASSUME NEW r \in Run, PlacedOnce(r)
    PROVE  ~(Executions(r) > 1)
<1> DEFINE Waiting == {i \in DOMAIN queue : queue[i] = r}
           Executing == {e \in Executor : job[e].run = r}
<1>1. Waiting = {} \/ Executing = {}
    BY DEF PlacedOnce
<1>2. Waiting = {} \/ \E i : Waiting = {i}
    <2> SUFFICES ASSUME NEW i \in Waiting PROVE Waiting = {i}
        OBVIOUS
    <2> QED BY DEF PlacedOnce
<1>3. Executing = {} \/ \E e : Executing = {e}
    <2> SUFFICES ASSUME NEW e \in Executing PROVE Executing = {e}
        OBVIOUS
    <2> QED BY DEF PlacedOnce
<1>4. Executions(r) = Cardinality(Waiting) + Cardinality(Executing)
    BY DEF Executions
<1> HIDE DEF Waiting, Executing
<1>5. Cardinality(Waiting) \in {0, 1} /\ (Waiting = {} => Cardinality(Waiting) = 0)
    BY <1>2, FS_EmptySet, FS_Singleton
<1>6. Cardinality(Executing) \in {0, 1} /\ (Executing = {} => Cardinality(Executing) = 0)
    BY <1>3, FS_EmptySet, FS_Singleton
<1> QED BY <1>1, <1>4, <1>5, <1>6

(* The run of a key is in the executor once, however many requests carry   *)
(* the key and whatever fails, until its submission lease has run out.     *)
THEOREM RunsAreExecutedOnce == Spec => []OneExecutionPerKey
<1>1. SubmissionInv => OneExecutionPerKey
    BY OneIsEnough DEF SubmissionInv, PlacedByOne, OneExecutionPerKey
<1> QED BY <1>1, SubmissionsAreKeptApart, PTL

(* A second execution needs a request that was overtaken while it          *)
(* submitted, or a task of the run whose lease ran out: it is not enough   *)
(* that the submission is old.                                             *)
THEOREM SlowCollectionsAreNotDoubled == Spec => []TakeoverWaitsForTheTasks
<1>1. ASSUME SubmissionInv, NEW r \in Run, Executions(r) > 1
      PROVE  overdue[r] = "submitting" \/ \E d \in Dataset : <<r, d>> \in lapsed
    <2>1. ~PlacedOnce(r)
        BY <1>1, OneIsEnough
    <2>2. ~Calm(r)
        BY <1>1, <2>1 DEF SubmissionInv, CalmOK
    <2> QED BY <2>2 DEF Calm
<1>2. SubmissionInv => TakeoverWaitsForTheTasks
    BY <1>1 DEF TakeoverWaitsForTheTasks
<1> QED BY <1>2, SubmissionsAreKeptApart, PTL

LEMMA OnlyTheMarkFails ==
    ASSUME TypeOK, [Next]_vars, NEW r \in Run, binding[r].state = "submitting",
           binding'[r].state = "submission-failed"
    PROVE  \E c \in Reader : MarkSubmissionFailed(c) /\ Subject(c) = r
                /\ binding[r].owner = c
<1>1. binding' # binding
    BY DEF TypeOK, Binding
<1>2. ASSUME UNCHANGED fullVars PROVE FALSE
    BY <1>1, <1>2 DEF fullVars
<1>3. ASSUME UNCHANGED vars PROVE FALSE
    BY <1>2, <1>3 DEF vars
<1>4. ASSUME NEW c \in Reader, NEW q \in Run, Claim(c, q) \/ Replay(c, q) PROVE FALSE
    BY <1>1, <1>4 DEF Claim, Replay, TypeOK
<1>5. ASSUME NEW q \in Run, LapseSubmission(q) PROVE FALSE
    BY <1>1, <1>5 DEF LapseSubmission, TypeOK, Binding
<1>6. ASSUME NEW c \in Reader, CallerStep(c), ~MarkSubmissionFailed(c) PROVE FALSE
    <2>1. CASE AcquireSubmission(c)
        BY <1>1, <2>1 DEF AcquireSubmission, TypeOK
    <2>2. CASE MarkSubmitted(c)
        BY <1>1, <2>2 DEF MarkSubmitted, Finish, TypeOK
    <2>3. CASE \/ CallGetRun(c) \/ ExpireInGetRun(c) \/ ReadInGetRun(c) \/ SettleInGetRun(c)
        BY <1>1, <2>3 DEF CallGetRun, ExpireInGetRun, ReadInGetRun, SettleInGetRun, fullVars
    <2>4. CASE \/ ReadBinding(c) \/ ListQueued(c) \/ FindReservation(c) \/ ReservationRefused(c)
               \/ ListPrepared(c) \/ LaunchRejected(c) \/ ListReserved(c) \/ ReadReserved(c)
        BY <1>1, <2>4 DEF ReadBinding, ListQueued, FindReservation, ReservationRefused,
                          ListPrepared, LaunchRejected, ListReserved, ReadReserved, OnlyCaller
    <2>5. CASE \/ PreflightRejects(c) \/ YieldQueued(c) \/ ReserveLease(c) \/ LaunchRun(c)
               \/ ReleaseReserved(c)
        BY <1>1, <2>5 DEF PreflightRejects, YieldQueued, OnlyTaskAndCaller, ReserveLease,
                          LaunchRun, ReleaseReserved
    <2> QED BY <1>6, <2>1, <2>2, <2>3, <2>4, <2>5 DEF CallerStep
<1>7. ASSUME NEW c \in Reader, MarkSubmissionFailed(c)
      PROVE  Subject(c) = r /\ binding[r].owner = c
    BY <1>1, <1>7 DEF MarkSubmissionFailed, Finish, TypeOK
<1>8. ASSUME NEW d \in Dataset, Rival(d) \/ (Lapse(d) /\ UNCHANGED <<executionVars, fullVars>>)
      PROVE  FALSE
    BY <1>2, <1>8 DEF Rival
<1>9. ASSUME Crash PROVE FALSE
    BY <1>1, <1>9 DEF Crash
<1> QED BY <1>2, <1>3, <1>4, <1>5, <1>6, <1>7, <1>8, <1>9, FullAssumption DEF Next

(* A POST that the executor rejected has given back every reservation of a *)
(* task that is still queued, unless it was overtaken before.              *)
THEOREM RejectionGivesBack == Spec => RejectionLeavesNoReservation
<1>1. ASSUME SubmissionInv, [Next]_vars, NEW r \in Run,
             binding[r].state = "submitting", binding'[r].state = "submission-failed",
             overdue[r] # "submitting", NEW d \in Dataset, task[r][d] = "queued", OwnsLive(r, d)
      PROVE  FALSE
    <2>1. PICK c \in Reader : MarkSubmissionFailed(c) /\ Subject(c) = r
        BY <1>1, OnlyTheMarkFails DEF SubmissionInv, ShapesOK
    <2>2. caller[c].pc = "unlist" /\ caller[c].todo = {}
        BY <2>1 DEF MarkSubmissionFailed, Calling
    <2>3. AttendedBy(c, r)
        BY <1>1, <2>1, <2>2
           DEF SubmissionInv, Attended, Attends, Attending, Unlaunched, Retreating
    <2> QED BY <1>1, <2>2, <2>3 DEF AttendedBy
<1>2. SubmissionInv /\ [Next]_vars =>
        [\A r \in Run :
            /\ binding[r].state = "submitting"
            /\ binding'[r].state = "submission-failed"
            /\ overdue[r] # "submitting"
            => \A d \in Dataset : task[r][d] = "queued" => ~OwnsLive(r, d)]_vars
    BY <1>1
<1> QED BY <1>2, SubmissionsAreKeptApart, PTL DEF Spec, RejectionLeavesNoReservation
=============================================================================
