---------------------- MODULE MaterializedAggregateProofs ----------------------
(***************************************************************************)
(* What is stored and served is of one moment, for any inputs, contents,   *)
(* threads, attempts and commits.                                          *)
(*                                                                         *)
(* The rows of a revision may be older than its versions, so a revision    *)
(* proves nothing about its rows. It does about its versions: they count   *)
(* up with every commit, so if they are still what they were when they     *)
(* were read, everything that was read after them is still there.          *)
(***************************************************************************)
EXTENDS MaterializedAggregate, SequenceTheorems, WellFoundedInduction, TLAPS

(* What was composed after a revision was read is there still, or the      *)
(* version of its input has been counted up.                               *)
Faithful(revision, made) ==
    \A i \in Input :
        /\ revision[2][i] <= version[i]
        /\ i \in DOMAIN made /\ revision[2][i] = version[i] => made[i] = content[i]

(* A thread has read its revision. *)
Bound(s) ==
    \/ s.pc \in {"compose", "put"}
    \/ s.then = "confirm" /\ s.pc \in {"rows", "versions"}

Works(s) == s.pc \in {"rows", "versions", "compose", "put"}

(* Nothing has been committed or stored since the attempt began. *)
Undisturbed(s) ==
    /\ ~s.raced
    /\ s.pc = "versions" => s.rows = content
    /\ Bound(s) => s.revision = Current

Events(s) == (Len(past) - s.since) + (stored - s.after)

(* What holds of a thread at any time, as far as its reading goes ... *)
ReadingOK(s) ==
    /\ s.pc \in {"rows", "versions"} /\ s.then = "compose" => s.made = <<>>
    /\ s.pc = "versions" => s.rows \in Contents
    /\ Bound(s) => s.revision \in Revisions /\ Faithful(s.revision, s.made)
    /\ s.pc = "put" \/ s.then = "confirm" => s.made \in Contents
    /\ s.seen # NoAggregate => Faithful(s.seen.revision, s.seen.made)
    /\ s.pc = "served" =>
          \E n \in s.since .. Len(past) : n \in DOMAIN past /\ s.made = past[n].content

(* ... and its attempts: each but the last was disturbed.                  *)
AttemptsOK(s) ==
    /\ s.pc # "idle" => s.since \in 1 .. Len(past) /\ s.after <= stored
    /\ Works(s) =>
          /\ Events(s) >= s.attempt - 1
          /\ Events(s) < s.attempt => Undisturbed(s)
    /\ s.pc = "limits" => s.attempt = 0 /\ s.then = "judge"
    /\ s.pc = "conflict" => Events(s) >= Attempts

LastIsCurrent ==
    /\ past # <<>>
    /\ past[Len(past)] = [content |-> content, version |-> version]

AggregateInv ==
    /\ TypeOK
    /\ LastIsCurrent
    /\ aggregate # NoAggregate => Faithful(aggregate.revision, aggregate.made)
    /\ StoredAggregateIsOneMoment
    /\ QuietAggregateIsCurrent
    /\ \A i \in Input : due[i] <= version[i]
    /\ \A t \in Thread : ReadingOK(thread[t]) /\ AttemptsOK(thread[t])

-----------------------------------------------------------------------------
(* Types *)

LEMMA NothingMade == <<>> \in Parts /\ DOMAIN <<>> = {}
<1>1. DOMAIN <<>> = {}
    OBVIOUS
<1>2. <<>> \in [{} -> Value \union {Missing}]
    BY <1>1
<1> QED BY <1>1, <1>2 DEF Parts

LEMMA WholeIsParts == Contents \subseteq Parts
    BY DEF Contents, Parts

LEMMA PartsAreParts ==
    ASSUME NEW m \in Parts
    PROVE  DOMAIN m \subseteq Input /\ m \in [DOMAIN m -> Value \union {Missing}]
    BY DEF Parts

LEMMA IdleIsState == Idle \in State
    BY NothingMade, AggregateAssumption DEF Idle, State

LEMMA AttemptIsState ==
    ASSUME NEW t \in Thread, thread[t] \in State, NEW n \in 1 .. Attempts + 1
    PROVE  Attempt(t, n) \in State
<1>1. thread[t].since \in Nat /\ thread[t].after \in Nat
    BY DEF State
<1> DEFINE pc == IF n > Attempts THEN "conflict" ELSE "rows"
           attempt == IF n > Attempts THEN 0 ELSE n
<1>2. attempt \in 0 .. Attempts /\ pc \in {"rows", "conflict"}
    BY AggregateAssumption
<1>3. Attempt(t, n) = [Idle EXCEPT !.since = thread[t].since, !.after = thread[t].after,
                                   !.pc = pc, !.attempt = attempt]
    BY DEF Attempt
<1> HIDE DEF pc, attempt
<1> QED BY <1>1, <1>2, <1>3, IdleIsState DEF State

LEMMA RevisionIsRevision ==
    ASSUME TypeOK, NEW rows \in Contents
    PROVE  Revision(rows, version) \in Revisions
    BY DEF Revision, Revisions, TypeOK

-----------------------------------------------------------------------------
(* If the one thread that changes is as it should be, everything is; a     *)
(* collection may only end when nothing is due any more.                   *)
LEMMA OneThreadChanges ==
    ASSUME AggregateInv, NEW t \in Thread, NEW s \in State,
           Becomes(t, s), UNCHANGED <<Inputs, aggregate, stored, broken, aside>>,
           ReadingOK(s), AttemptsOK(s),
           due' \in {due, [i \in Input |-> 0]},
           t \in Writer /\ s.pc = "idle" /\ ~At(t, "idle") =>
               content[Core] = Missing /\ due' = [i \in Input |-> 0]
    PROVE  AggregateInv'
<1> USE DEF AggregateInv
<1>0. UNCHANGED <<content, version, past, aggregate, stored, broken, aside>>
    BY DEF Inputs
<1>d. due' \in Versions /\ \A i \in Input : due'[i] \in Nat /\ due'[i] <= due[i]
    BY DEF TypeOK, Versions
<1>1. TypeOK'
    BY <1>0, <1>d DEF TypeOK, Becomes
<1>2. LastIsCurrent' /\ StoredAggregateIsOneMoment'
    BY <1>0 DEF LastIsCurrent, StoredAggregateIsOneMoment
<1>3. aggregate' # NoAggregate => Faithful(aggregate.revision, aggregate.made)'
    BY <1>0 DEF Faithful
<1>4. QuietAggregateIsCurrent'
    <2> SUFFICES ASSUME \A w \in Writer : thread'[w].pc = "idle", ~broken
                 PROVE  /\ \A i \in Input : due'[i] > 0 =>
                             aggregate # NoAggregate /\ due'[i] <= aggregate.revision[2][i]
                        /\ content[Core] # Missing /\ Len(past) > 1 /\ aside = 0 =>
                             aggregate # NoAggregate /\ aggregate.revision = Current
        BY <1>0 DEF QuietAggregateIsCurrent, At, Current, Revision
    <2>1. thread'[t] = s /\ \A w \in Writer : w # t => thread'[w] = thread[w]
        BY DEF Becomes, TypeOK, Thread
    <2>2. CASE t \in Writer /\ ~At(t, "idle")
        BY <2>1, <2>2
    <2>3. CASE t \notin Writer \/ At(t, "idle")
        <3>1. \A w \in Writer : At(w, "idle")
            BY <2>1, <2>3 DEF At
        <3>2. ASSUME NEW i \in Input, due'[i] > 0
              PROVE  aggregate # NoAggregate /\ due'[i] <= aggregate.revision[2][i]
            BY <3>1, <3>2 DEF QuietAggregateIsCurrent
        <3> QED BY <3>1, <3>2 DEF QuietAggregateIsCurrent
    <2> QED BY <2>2, <2>3
<1>5. ASSUME NEW u \in Thread PROVE (ReadingOK(thread[u]) /\ AttemptsOK(thread[u]))'
    <2>1. ReadingOK(thread'[u]) /\ AttemptsOK(thread'[u])
        BY DEF TypeOK, Becomes
    <2> QED BY <2>1, <1>0
        DEF ReadingOK, AttemptsOK, Faithful, Bound, Works, Undisturbed, Events, Current
<1>6. \A i \in Input : due'[i] <= version'[i]
    BY <1>0, <1>d DEF TypeOK, Versions
<1> QED BY <1>1, <1>2, <1>3, <1>4, <1>5, <1>6

LEMMA ThreadSteps ==
    ASSUME AggregateInv, NEW t \in Thread, NEW s \in State,
           Becomes(t, s), OnlyThread, ReadingOK(s), AttemptsOK(s),
           t \in Writer /\ s.pc = "idle" => At(t, "idle")
    PROVE  AggregateInv'
<1>1. UNCHANGED <<Inputs, aggregate, stored, broken, aside>> /\ due' = due
    BY DEF OnlyThread
<1> QED BY <1>1, OneThreadChanges

(* A new attempt after the n-th starts unread and undisturbed; the n-th    *)
(* must have been disturbed.                                               *)
LEMMA NewAttempts ==
    ASSUME AggregateInv, NEW t \in Thread, NEW n \in 0 .. Attempts,
           thread[t].pc # "idle", Events(thread[t]) >= n
    PROVE  /\ Attempt(t, n + 1) \in State
           /\ ReadingOK(Attempt(t, n + 1)) /\ AttemptsOK(Attempt(t, n + 1))
           /\ Attempt(t, n + 1).pc # "idle"
<1> USE DEF AggregateInv
<1>t. thread[t] \in State /\ AttemptsOK(thread[t])
    BY DEF TypeOK
<1> DEFINE s == Attempt(t, n + 1)
<1>1. s \in State
    BY <1>t, AttemptIsState, AggregateAssumption
<1>2. /\ s.since = thread[t].since /\ s.after = thread[t].after
      /\ s.then = "compose" /\ s.made = <<>> /\ s.seen = NoAggregate /\ ~s.raced
      /\ s.pc = IF n + 1 > Attempts THEN "conflict" ELSE "rows"
      /\ s.attempt = IF n + 1 > Attempts THEN 0 ELSE n + 1
    BY DEF Attempt, Idle
<1>3. Events(s) = Events(thread[t])
    BY <1>2 DEF Events
<1> HIDE DEF s
<1>4. ReadingOK(s)
    BY <1>2 DEF ReadingOK, Bound
<1>5. AttemptsOK(s)
    <2>1. Events(s) \in Int
        <3>1. Len(past) \in Nat /\ stored \in Nat
            BY LenProperties DEF TypeOK
        <3> QED BY <1>1, <3>1 DEF Events, State
    <2>2. n + 1 > Attempts => Events(s) >= Attempts
        BY <1>3, <2>1, AggregateAssumption
    <2>3. Events(s) >= (n + 1) - 1
        BY <1>3, <2>1
    <2> QED BY <1>t, <1>2, <2>2, <2>3 DEF AttemptsOK, Works, Undisturbed, Bound
<1> QED BY <1>1, <1>2, <1>4, <1>5 DEF s

LEMMA IdleIsOK == ReadingOK(Idle) /\ AttemptsOK(Idle) /\ Idle.pc = "idle"
    BY DEF Idle, ReadingOK, AttemptsOK, Bound, Works

-----------------------------------------------------------------------------
(* There is a next input to read as long as one is missing.                *)
LEMMA LeastOfRanks ==
    ASSUME NEW S, S # {}, NEW rank \in [S -> Nat]
    PROVE  \E i \in S : \A j \in S : rank[i] <= rank[j]
<1> DEFINE Less == {ss \in Nat \X Nat : ss[1] < ss[2]}
           Ranks == {rank[i] : i \in S}
<1>1. IsWellFoundedOn(Less, Nat)
    BY NatLessThanWellFounded DEF OpToRel
<1>2. \A m, n \in Nat : m < n => <<m, n>> \in Less
    OBVIOUS
<1>3. Ranks \subseteq Nat /\ Ranks # {}
    OBVIOUS
<1> HIDE DEF Less, Ranks
<1>4. \E x \in Ranks : \A y \in Ranks : ~ (<<y, x>> \in Less)
    BY <1>1, <1>3, WFMin
<1>5. PICK x \in Ranks : \A y \in Ranks : ~ (<<y, x>> \in Less)
    BY <1>4
<1>6. PICK i \in S : rank[i] = x
    BY <1>5 DEF Ranks
<1>7. ASSUME NEW j \in S PROVE rank[i] <= rank[j]
    <2>1. rank[j] \in Ranks /\ rank[j] \in Nat /\ x \in Nat
        BY <1>3 DEF Ranks
    <2>2. ~ (rank[j] < x)
        BY <1>2, <1>5, <2>1
    <2> QED BY <1>6, <2>1, <2>2
<1> QED BY <1>7

LEMMA NextIsMissing ==
    ASSUME NEW t \in Thread, Composed(t) # Input, Composed(t) \subseteq Input
    PROVE  NextInput(t) \in Input \ Composed(t)
<1> DEFINE S == Input \ Composed(t)
           rank == [i \in S |-> Rank[i]]
<1>1. S # {} /\ rank \in [S -> Nat]
    BY AggregateAssumption
<1>2. \E i \in S : \A j \in S : rank[i] <= rank[j]
    <2> HIDE DEF S, rank
    <2> QED BY <1>1, LeastOfRanks
<1> QED BY <1>2 DEF NextInput

-----------------------------------------------------------------------------
(* The steps of one thread                                                 *)

LEMMA ReadRowsPreserves ==
    ASSUME AggregateInv, NEW t \in Thread, ReadRows(t)
    PROVE  AggregateInv'
<1> USE DEF AggregateInv
<1>t. thread[t] \in State /\ ReadingOK(thread[t]) /\ AttemptsOK(thread[t]) /\ thread[t].pc = "rows"
    BY DEF TypeOK, ReadRows, At
<1> DEFINE s == [thread[t] EXCEPT !.pc = "versions", !.rows = content]
<1>1. s \in State
    BY <1>t DEF State, TypeOK
<1>2. /\ s.pc = "versions" /\ s.rows = content /\ s.then = thread[t].then
      /\ s.attempt = thread[t].attempt /\ s.since = thread[t].since
      /\ s.after = thread[t].after /\ s.raced = thread[t].raced
      /\ s.revision = thread[t].revision /\ s.made = thread[t].made
      /\ s.seen = thread[t].seen
    BY <1>t DEF State
<1>3. Becomes(t, s) /\ OnlyThread
    BY DEF ReadRows
<1> HIDE DEF s
<1>4. ReadingOK(s)
    BY <1>t, <1>2 DEF ReadingOK, Bound, TypeOK
<1>5. AttemptsOK(s)
    BY <1>t, <1>2 DEF AttemptsOK, Works, Events, Undisturbed, Bound
<1> QED BY <1>1, <1>2, <1>3, <1>4, <1>5, ThreadSteps

LEMMA TakeRevisionPreserves ==
    ASSUME AggregateInv, NEW t \in Thread, TakeRevision(t)
    PROVE  AggregateInv'
<1> USE DEF AggregateInv
<1>t. /\ thread[t] \in State /\ ReadingOK(thread[t]) /\ AttemptsOK(thread[t])
      /\ thread[t].pc = "versions" /\ thread[t].then = "compose"
    BY DEF TypeOK, TakeRevision, At
<1> DEFINE revision == Revision(thread[t].rows, version)
           s == [thread[t] EXCEPT !.pc = "compose", !.rows = <<>>, !.revision = revision]
<1>0. revision \in Revisions /\ revision[2] = version
    BY <1>t, RevisionIsRevision DEF ReadingOK, Revision
<1>1. s \in State
    BY <1>t, <1>0 DEF State
<1>2. /\ s.pc = "compose" /\ s.then = thread[t].then
      /\ s.attempt = thread[t].attempt /\ s.since = thread[t].since
      /\ s.after = thread[t].after /\ s.raced = thread[t].raced
      /\ s.revision = revision /\ s.made = thread[t].made
      /\ s.seen = thread[t].seen
    BY <1>t DEF State
<1>3. Becomes(t, s) /\ OnlyThread
    BY DEF TakeRevision
<1>4. thread[t].rows = content => revision = Current
    BY DEF Current
<1> HIDE DEF s, revision
<1>5. Faithful(s.revision, s.made)
    BY <1>t, <1>0, <1>2, NothingMade DEF Faithful, ReadingOK, TypeOK, Versions
<1>6. ReadingOK(s)
    BY <1>t, <1>0, <1>2, <1>5 DEF ReadingOK, Bound
<1>7. AttemptsOK(s)
    BY <1>t, <1>2, <1>4 DEF AttemptsOK, Works, Events, Undisturbed, Bound
<1> QED BY <1>1, <1>2, <1>3, <1>6, <1>7, ThreadSteps

LEMMA ComposePreserves ==
    ASSUME AggregateInv, NEW t \in Thread,
           ComposeNothing(t) \/ ComposeInput(t) \/ ComposeDone(t)
    PROVE  AggregateInv'
<1> USE DEF AggregateInv
<1>t. /\ thread[t] \in State /\ ReadingOK(thread[t]) /\ AttemptsOK(thread[t])
      /\ thread[t].pc = "compose"
    BY DEF TypeOK, ComposeNothing, ComposeInput, ComposeDone, At
<1>1. CASE ComposeNothing(t)
    <2>1. /\ Becomes(t, Idle) /\ UNCHANGED <<Inputs, aggregate, stored, broken, aside>>
          /\ content[Core] = Missing
          /\ due' = IF t \in Writer THEN [i \in Input |-> 0] ELSE due
        BY <1>1 DEF ComposeNothing
    <2> QED BY <2>1, IdleIsState, IdleIsOK, OneThreadChanges
<1>2. CASE ComposeInput(t)
    <2> DEFINE i == NextInput(t)
               made == [j \in Composed(t) \union {i} |-> IF j = i THEN content[i]
                                                         ELSE thread[t].made[j]]
               s == [thread[t] EXCEPT !.made = made]
    <2>1. Becomes(t, s) /\ OnlyThread
        BY <1>2, <1>t DEF ComposeInput, State
    <2>2. Composed(t) \subseteq Input /\ thread[t].made \in [Composed(t) -> Value \union {Missing}]
        BY <1>t, PartsAreParts DEF State, Composed
    <2>3. Composed(t) # Input /\ i \in Input
        BY <1>2, <2>2, NextIsMissing DEF ComposeInput
    <2> HIDE DEF i
    <2>4. made \in [Composed(t) \union {i} -> Value \union {Missing}]
        BY <2>2, <2>3 DEF TypeOK, Contents
    <2>5. made \in Parts
        BY <2>2, <2>3, <2>4 DEF Parts
    <2>6. s \in State
        BY <1>t, <2>5 DEF State
    <2>7. /\ s.pc = "compose" /\ s.then = thread[t].then
          /\ s.attempt = thread[t].attempt /\ s.since = thread[t].since
          /\ s.after = thread[t].after /\ s.raced = thread[t].raced
          /\ s.revision = thread[t].revision /\ s.made = made
          /\ s.seen = thread[t].seen /\ s.rows = thread[t].rows
        BY <1>t DEF State
    <2>8. Faithful(s.revision, made)
        BY <1>t, <2>2, <2>3, <2>7 DEF Faithful, ReadingOK, Bound, Composed
    <2>9. thread[t].then # "confirm"
        BY <1>t, <2>3 DEF ReadingOK, Composed, Contents
    <2> HIDE DEF s, made
    <2>10. ReadingOK(s)
        BY <1>t, <2>7, <2>8, <2>9 DEF ReadingOK, Bound
    <2>11. AttemptsOK(s)
        BY <1>t, <2>7 DEF AttemptsOK, Works, Events, Undisturbed, Bound
    <2> QED BY <1>t, <2>1, <2>6, <2>7, <2>10, <2>11, ThreadSteps
<1>3. CASE ComposeDone(t)
    <2> DEFINE s == IF t \in Writer THEN [thread[t] EXCEPT !.pc = "put"]
                    ELSE [thread[t] EXCEPT !.pc = "rows", !.then = "confirm"]
    <2>1. Becomes(t, s) /\ OnlyThread /\ Composed(t) = Input
        BY <1>3 DEF ComposeDone
    <2>2. s \in State
        BY <1>t DEF State
    <2>3. /\ \/ s.pc = "put" /\ s.then = thread[t].then
             \/ s.pc = "rows" /\ s.then = "confirm"
          /\ s.attempt = thread[t].attempt /\ s.since = thread[t].since
          /\ s.after = thread[t].after /\ s.raced = thread[t].raced
          /\ s.revision = thread[t].revision /\ s.made = thread[t].made
          /\ s.seen = thread[t].seen
        <3> HIDE DEF s
        <3>1. CASE s = [thread[t] EXCEPT !.pc = "put"]
            BY <1>t, <3>1 DEF State
        <3>2. CASE s = [thread[t] EXCEPT !.pc = "rows", !.then = "confirm"]
            BY <1>t, <3>2 DEF State
        <3>3. \/ s = [thread[t] EXCEPT !.pc = "put"]
              \/ s = [thread[t] EXCEPT !.pc = "rows", !.then = "confirm"]
            BY DEF s
        <3> QED BY <3>1, <3>2, <3>3
    <2>4. thread[t].made \in Contents
        BY <1>t, <2>1, PartsAreParts DEF State, Composed, Contents
    <2> HIDE DEF s
    <2>5. ReadingOK(s)
        BY <1>t, <2>3, <2>4 DEF ReadingOK, Bound
    <2>6. AttemptsOK(s)
        BY <1>t, <2>3 DEF AttemptsOK, Works, Events, Undisturbed, Bound
    <2> QED BY <2>1, <2>2, <2>3, <2>5, <2>6, ThreadSteps
<1> QED BY <1>1, <1>2, <1>3

LEMMA ReaderReadsPreserve ==
    ASSUME AggregateInv, NEW r \in Thread, ReadAggregate(r) \/ ReadLimits(r)
    PROVE  AggregateInv'
<1> USE DEF AggregateInv
<1>t. thread[r] \in State /\ ReadingOK(thread[r]) /\ AttemptsOK(thread[r])
    BY DEF TypeOK
<1>1. CASE ReadAggregate(r)
    <2> DEFINE s == [Idle EXCEPT !.pc = "limits", !.then = "judge", !.seen = aggregate,
                                 !.since = Len(past), !.after = stored]
    <2>1. Becomes(r, s) /\ OnlyThread
        BY <1>1 DEF ReadAggregate
    <2>2. Len(past) \in Nat \ {0}
        BY LenProperties, EmptySeq DEF TypeOK, LastIsCurrent
    <2>3. s \in State
        <3> HIDE DEF Idle
        <3> QED BY <2>2, IdleIsState DEF State, TypeOK
    <2>4. s.pc = "limits" /\ s.then = "judge" /\ s.seen = aggregate
          /\ s.since = Len(past) /\ s.after = stored /\ s.attempt = 0
        BY DEF Idle
    <2> HIDE DEF s
    <2>5. ReadingOK(s)
        BY <2>4 DEF ReadingOK, Bound
    <2>6. AttemptsOK(s)
        BY <2>2, <2>4 DEF AttemptsOK, Works, TypeOK
    <2> QED BY <2>1, <2>3, <2>4, <2>5, <2>6, ThreadSteps
<1>2. CASE ReadLimits(r)
    <2> DEFINE s == [thread[r] EXCEPT !.pc = "rows", !.limits = content[Limits]]
    <2>1. Becomes(r, s) /\ OnlyThread /\ thread[r].pc = "limits"
        BY <1>2 DEF ReadLimits, At
    <2>2. content[Limits] \in Value \union {Missing}
        BY AggregateAssumption DEF TypeOK, Contents
    <2>3. s \in State
        BY <1>t, <2>2 DEF State
    <2>4. /\ s.pc = "rows" /\ s.then = thread[r].then
          /\ s.attempt = thread[r].attempt /\ s.since = thread[r].since
          /\ s.after = thread[r].after /\ s.seen = thread[r].seen
        BY <1>t DEF State
    <2> HIDE DEF s
    <2>5. ReadingOK(s)
        BY <1>t, <2>1, <2>4 DEF ReadingOK, AttemptsOK, Bound
    <2>6. Events(s) \in Nat
        <3>1. /\ Len(past) \in Nat /\ stored \in Nat
              /\ s.since \in 1 .. Len(past) /\ s.after \in Nat /\ s.after <= stored
            BY <1>t, <2>1, <2>3, <2>4, LenProperties DEF AttemptsOK, TypeOK, State
        <3> QED BY <3>1 DEF Events
    <2>7. AttemptsOK(s)
        BY <1>t, <2>1, <2>4, <2>6 DEF AttemptsOK, Works
    <2> QED BY <2>1, <2>3, <2>4, <2>5, <2>7, ThreadSteps
<1> QED BY <1>1, <1>2

(* A thread that is answered with what is there now.                       *)
LEMMA Serving ==
    ASSUME AggregateInv, NEW r \in Thread, NEW made \in Contents,
           made = content, thread[r].pc # "idle",
           Becomes(r, [Idle EXCEPT !.pc = "served", !.made = made,
                                   !.since = thread[r].since]),
           OnlyThread
    PROVE  AggregateInv'
<1> USE DEF AggregateInv
<1> DEFINE s == [Idle EXCEPT !.pc = "served", !.made = made, !.since = thread[r].since]
<1>t. thread[r] \in State /\ AttemptsOK(thread[r])
    BY DEF TypeOK
<1>1. s \in State
    <2>1. thread[r].since \in Nat /\ made \in Parts
        BY <1>t, WholeIsParts DEF State
    <2> HIDE DEF Idle
    <2> QED BY <2>1, IdleIsState DEF State
<1>2. s.pc = "served" /\ s.made = content /\ s.since = thread[r].since /\ s.after = 0
      /\ s.then = "compose" /\ s.seen = NoAggregate
    BY DEF Idle
<1> HIDE DEF s
<1>3. /\ Len(past) \in thread[r].since .. Len(past) /\ Len(past) \in DOMAIN past
      /\ past[Len(past)].content = content
    BY <1>t, LenProperties DEF LastIsCurrent, AttemptsOK, TypeOK
<1>4. ReadingOK(s)
    BY <1>2, <1>3 DEF ReadingOK, Bound
<1>5. AttemptsOK(s)
    BY <1>t, <1>2 DEF AttemptsOK, Works, TypeOK
<1> QED BY <1>1, <1>2, <1>4, <1>5, ThreadSteps DEF s

LEMMA JudgePreserves ==
    ASSUME AggregateInv, NEW r \in Thread, JudgeState(r)
    PROVE  AggregateInv'
<1> USE DEF AggregateInv
<1>t. /\ thread[r] \in State /\ ReadingOK(thread[r]) /\ AttemptsOK(thread[r])
      /\ thread[r].pc = "versions" /\ OnlyThread
    BY DEF TypeOK, JudgeState, At
<1> DEFINE seen == thread[r].seen
           serves == UpToDate(seen, Revision(thread[r].rows, version), thread[r].limits)
<1>1. CASE serves
    <2>1. seen \in Aggregates /\ seen.revision[2] = version /\ seen # NoAggregate
        BY <1>t, <1>1 DEF UpToDate, Revision, State
    <2>2. seen.made \in Contents /\ Faithful(seen.revision, seen.made)
        BY <1>t, <2>1 DEF ReadingOK, Aggregates
    <2>3. seen.made = content
        BY <2>1, <2>2 DEF Faithful, Contents, TypeOK
    <2> QED BY <1>t, <1>1, <2>2, <2>3, Serving DEF JudgeState
<1>2. CASE ~serves
    <2>1. Events(thread[r]) \in Nat
        <3>1. /\ Len(past) \in Nat /\ stored \in Nat
              /\ thread[r].since \in 1 .. Len(past)
              /\ thread[r].after \in Nat /\ thread[r].after <= stored
            BY <1>t, LenProperties DEF AttemptsOK, TypeOK, State
        <3> QED BY <3>1 DEF Events
    <2>2. Becomes(r, Attempt(r, 1))
        BY <1>2 DEF JudgeState
    <2> QED BY <1>t, <2>1, <2>2, NewAttempts, AggregateAssumption, ThreadSteps
<1> QED BY <1>1, <1>2

(* An attempt that meets another revision was disturbed.                   *)
LEMMA DisturbedAttempt ==
    ASSUME AggregateInv, NEW t \in Thread, Works(thread[t]), ~Undisturbed(thread[t])
    PROVE  thread[t].attempt \in 0 .. Attempts /\ Events(thread[t]) >= thread[t].attempt
<1>1. thread[t] \in State /\ AttemptsOK(thread[t]) /\ Len(past) \in Nat /\ stored \in Nat
    BY LenProperties DEF AggregateInv, TypeOK
<1>2. thread[t].attempt \in 0 .. Attempts /\ Events(thread[t]) \in Int
    BY <1>1 DEF State, Events
<1> QED BY <1>1, <1>2, AggregateAssumption DEF AttemptsOK

LEMMA ConfirmPreserves ==
    ASSUME AggregateInv, NEW r \in Thread, ConfirmRevision(r)
    PROVE  AggregateInv'
<1> USE DEF AggregateInv
<1>t. /\ thread[r] \in State /\ ReadingOK(thread[r]) /\ thread[r].then = "confirm"
      /\ thread[r].pc = "versions" /\ OnlyThread
    BY DEF TypeOK, ConfirmRevision, At
<1>b. Bound(thread[r]) /\ Works(thread[r])
    BY <1>t DEF Bound, Works
<1>1. CASE thread[r].revision = Revision(thread[r].rows, version)
    <2>1. thread[r].made \in Contents /\ thread[r].revision[2] = version
        BY <1>t, <1>1 DEF ReadingOK, Revision
    <2>2. thread[r].made = content
        BY <1>t, <1>b, <2>1 DEF ReadingOK, Faithful, Contents, TypeOK
    <2> QED BY <1>t, <1>1, <2>1, <2>2, Serving DEF ConfirmRevision
<1>2. CASE thread[r].revision # Revision(thread[r].rows, version)
    <2>1. ~Undisturbed(thread[r])
        BY <1>t, <1>b, <1>2 DEF Undisturbed, Current
    <2>2. Becomes(r, Attempt(r, thread[r].attempt + 1))
        BY <1>2 DEF ConfirmRevision
    <2> QED BY <1>t, <1>b, <2>1, <2>2, DisturbedAttempt, NewAttempts, ThreadSteps
<1> QED BY <1>1, <1>2

LEMMA RespondPreserves ==
    ASSUME AggregateInv, NEW r \in Reader, Respond(r)
    PROVE  AggregateInv'
    BY IdleIsState, IdleIsOK, ThreadSteps, AggregateAssumption DEF Respond, Thread

-----------------------------------------------------------------------------
(* The steps of collection threads                                         *)

LEMMA PutFailsPreserves ==
    ASSUME AggregateInv, NEW w \in Writer, At(w, "put"), OnlyThread,
           Becomes(w, Attempt(w, thread[w].attempt + 1)),
           thread[w].revision # Current \/ thread[w].raced
    PROVE  AggregateInv'
<1>1. w \in Thread /\ Works(thread[w]) /\ ~Undisturbed(thread[w]) /\ thread[w].pc # "idle"
    BY DEF Thread, Works, Undisturbed, Bound, At
<1> QED BY <1>1, DisturbedAttempt, NewAttempts, ThreadSteps

(* A failed rebuild ends its thread and is remembered.                     *)
LEMMA FailuresPreserve ==
    ASSUME AggregateInv, NEW w \in Writer, RebuildRaises(w) \/ RebuildConflicts(w)
    PROVE  AggregateInv'
<1> USE DEF AggregateInv
<1>0. /\ UNCHANGED <<content, version, past, aggregate, stored, aside, due>>
      /\ Becomes(w, Idle) /\ broken' = TRUE /\ w \in Thread
    BY DEF RebuildRaises, RebuildConflicts, Inputs, Thread
<1>1. TypeOK'
    BY <1>0, IdleIsState DEF TypeOK, Becomes
<1>2. LastIsCurrent' /\ StoredAggregateIsOneMoment' /\ QuietAggregateIsCurrent'
    BY <1>0 DEF LastIsCurrent, StoredAggregateIsOneMoment, QuietAggregateIsCurrent
<1>3. aggregate' # NoAggregate => Faithful(aggregate.revision, aggregate.made)'
    BY <1>0 DEF Faithful
<1>4. ASSUME NEW u \in Thread PROVE (ReadingOK(thread[u]) /\ AttemptsOK(thread[u]))'
    <2>1. ReadingOK(thread'[u]) /\ AttemptsOK(thread'[u])
        BY <1>0, IdleIsOK DEF TypeOK, Becomes
    <2> QED BY <2>1, <1>0
        DEF ReadingOK, AttemptsOK, Faithful, Bound, Works, Undisturbed, Events, Current
<1> QED BY <1>0, <1>1, <1>2, <1>3, <1>4

(* What is stored is what is there, and whoever stores at the same time    *)
(* has been disturbed.                                                     *)
LEMMA StorePreserves ==
    ASSUME AggregateInv, NEW w \in Writer, At(w, "put"), Store(w), UNCHANGED Inputs,
           thread[w].revision = Current
    PROVE  AggregateInv'
<1> USE DEF AggregateInv
<1>t. /\ w \in Thread /\ thread[w] \in State /\ ReadingOK(thread[w]) /\ thread[w].pc = "put"
      /\ stored \in Nat /\ Len(past) \in Nat
    BY LenProperties DEF TypeOK, Thread, At
<1>0. /\ UNCHANGED <<content, version, past, due>>
      /\ stored' = stored + 1 /\ broken' = FALSE /\ aside' = 0
    BY DEF Inputs, Store
<1>1. thread[w].made = content /\ thread[w].revision[2] = version
    <2>1. thread[w].revision[2] = version /\ thread[w].made \in Contents
        BY <1>t DEF ReadingOK, Current, Revision
    <2> QED BY <1>t, <2>1 DEF ReadingOK, Bound, Faithful, Contents, TypeOK
<1>2. aggregate' = [revision |-> Current, made |-> content] /\ Current \in Revisions
    BY <1>1, RevisionIsRevision DEF Store, Current, TypeOK
<1>3. \A u \in Thread :
          \/ thread'[u] = Idle
          \/ thread'[u] = thread[u]
          \/ thread[u].pc = "put" /\ thread'[u] = [thread[u] EXCEPT !.raced = TRUE]
    BY DEF Store, At
<1>4. TypeOK'
    <2>1. ASSUME NEW u \in Thread PROVE thread'[u] \in State
        <3>1. thread[u] \in State
            BY DEF TypeOK
        <3>2. [thread[u] EXCEPT !.raced = TRUE] \in State
            BY <3>1 DEF State
        <3> QED BY <1>3, <3>1, <3>2, IdleIsState
    <2>2. thread' \in [Thread -> State]
        BY <2>1 DEF Store
    <2>3. aggregate' \in Aggregates
        BY <1>2 DEF TypeOK, Aggregates
    <2>4. stored' \in Nat
        BY <1>0, <1>t
    <2>6. broken' \in BOOLEAN /\ aside' \in Nat /\ due' \in Versions
        BY <1>0 DEF TypeOK
    <2>5. content' \in Contents /\ version' \in Versions
          /\ past' \in Seq([content : Contents, version : Versions])
        BY <1>0 DEF TypeOK
    <2> QED BY <2>2, <2>3, <2>4, <2>5, <2>6 DEF TypeOK
<1>5. LastIsCurrent'
    BY <1>0 DEF LastIsCurrent
<1>6. StoredAggregateIsOneMoment'
    <2>1. Len(past) \in DOMAIN past /\ past[Len(past)] = [content |-> content, version |-> version]
        BY LenProperties, EmptySeq DEF LastIsCurrent, TypeOK
    <2> QED BY <1>0, <1>2, <2>1 DEF StoredAggregateIsOneMoment, Current
<1>7. Faithful(aggregate.revision, aggregate.made)'
    BY <1>0, <1>2 DEF Faithful, Current, Revision, TypeOK, Versions
<1>8. QuietAggregateIsCurrent'
    <2>1. Current' = Current
        BY <1>0 DEF Current, Revision
    <2>2. aggregate' # NoAggregate
        <3>1. aggregate'.revision # <<>>
            BY <1>2 DEF Current, Revision
        <3> QED BY <3>1 DEF NoAggregate
    <2>3. \A i \in Input : due'[i] <= aggregate'.revision[2][i]
        BY <1>0, <1>2 DEF Current, Revision
    <2> QED BY <1>2, <2>1, <2>2, <2>3 DEF QuietAggregateIsCurrent
<1>9. ASSUME NEW u \in Thread PROVE (ReadingOK(thread[u]) /\ AttemptsOK(thread[u]))'
    <2>1. CASE thread'[u] = Idle
        <3>1. ReadingOK(thread'[u]) /\ AttemptsOK(thread'[u])
            BY <2>1, IdleIsOK
        <3> QED BY <2>1, <1>0
            DEF ReadingOK, AttemptsOK, Faithful, Bound, Works, Undisturbed, Events, Idle
    <2>2. CASE \/ thread'[u] = thread[u]
               \/ thread[u].pc = "put" /\ thread'[u] = [thread[u] EXCEPT !.raced = TRUE]
        <3>1. /\ thread[u] \in State /\ ReadingOK(thread[u]) /\ AttemptsOK(thread[u])
            BY DEF TypeOK
        <3>2. /\ thread'[u].pc = thread[u].pc /\ thread'[u].then = thread[u].then
              /\ thread'[u].attempt = thread[u].attempt /\ thread'[u].since = thread[u].since
              /\ thread'[u].after = thread[u].after /\ thread'[u].rows = thread[u].rows
              /\ thread'[u].revision = thread[u].revision /\ thread'[u].made = thread[u].made
              /\ thread'[u].seen = thread[u].seen
            BY <2>2, <3>1 DEF State
        <3>3. ReadingOK(thread[u])'
            BY <1>0, <3>1, <3>2 DEF ReadingOK, Bound, Faithful
        <3>4. Events(thread[u]) \in Int /\ Events(thread[u])' = Events(thread[u]) + 1
            <4>1. /\ stored \in Nat /\ Len(past) \in Nat
                  /\ thread[u].since \in Nat /\ thread[u].after \in Nat
                BY <1>t, <3>1 DEF State
            <4>2. Events(thread[u]) = (Len(past) - thread[u].since) + (stored - thread[u].after)
                BY DEF Events
            <4>3. Events(thread[u])'
                    = (Len(past) - thread[u].since) + ((stored + 1) - thread[u].after)
                BY <1>0, <3>2 DEF Events
            <4> HIDE DEF AggregateInv
            <4>4. PICK l \in Nat, a \in Nat, n \in Nat, b \in Nat :
                      l = Len(past) /\ a = thread[u].since /\ n = stored /\ b = thread[u].after
                BY <4>1
            <4>5. Events(thread[u]) = (l - a) + (n - b)
                BY <4>2, <4>4
            <4>6. Events(thread[u])' = (l - a) + ((n + 1) - b)
                BY <4>3, <4>4
            <4> QED BY <4>5, <4>6
        <3>5. thread[u].attempt \in Nat
            BY <3>1, AggregateAssumption DEF State
        <3>6. AttemptsOK(thread[u])'
            <4>1. thread[u].pc # "idle" => thread[u].since \in 1 .. Len(past') /\ thread[u].after <= stored'
                BY <1>0, <1>t, <3>1 DEF AttemptsOK, State
            <4> HIDE DEF AggregateInv
            <4>2. PICK e \in Int, n \in Nat : e = Events(thread[u]) /\ n = thread[u].attempt
                BY <3>4, <3>5
            <4>3. Works(thread[u]) => e + 1 >= n - 1 /\ ~(e + 1 < n)
                <5>1. Works(thread[u]) => e >= n - 1
                    BY <3>1, <4>2 DEF AttemptsOK
                <5> QED BY <4>2, <5>1
            <4>4. thread[u].pc = "conflict" => e + 1 >= Attempts
                <5>1. thread[u].pc = "conflict" => e >= Attempts
                    BY <3>1, <4>2 DEF AttemptsOK
                <5> QED BY <4>2, <5>1, AggregateAssumption
            <4>5. Events(thread[u])' = e + 1 /\ thread'[u].attempt = n
                BY <3>2, <3>4, <4>2
            <4>6. thread[u].pc = "limits" => thread[u].attempt = 0 /\ thread[u].then = "judge"
                BY <3>1 DEF AttemptsOK
            <4> QED BY <3>2, <4>1, <4>3, <4>4, <4>5, <4>6 DEF AttemptsOK, Works
        <3> QED BY <3>3, <3>6
    <2> QED BY <1>3, <2>1, <2>2
<1> QED BY <1>0, <1>4, <1>5, <1>6, <1>7, <1>8, <1>9

(* A commit counts its input up, so that what was read of it before binds  *)
(* nobody any more.                                                        *)
LEMMA WritePreserves ==
    ASSUME AggregateInv, NEW i \in Input, NEW value \in Value \union {Missing},
           Write(i, value), UNCHANGED <<aggregate, stored>>
    PROVE  /\ content' \in Contents /\ version' \in Versions
           /\ past' \in Seq([content : Contents, version : Versions])
           /\ Len(past) \in Nat /\ Len(past') = Len(past) + 1
           /\ \A j \in Input : version[j] <= version'[j]
           /\ LastIsCurrent' /\ StoredAggregateIsOneMoment'
           /\ aggregate' # NoAggregate => Faithful(aggregate.revision, aggregate.made)'
           /\ \A u \in Thread : thread'[u] = thread[u] =>
                 ReadingOK(thread[u])' /\ AttemptsOK(thread[u])'
<1> USE DEF AggregateInv
<1> DEFINE moment == [content |-> content', version |-> version']
<1>0. /\ content' = [content EXCEPT ![i] = value]
      /\ version' = [version EXCEPT ![i] = @ + 1]
      /\ past' = Append(past, moment)
      /\ UNCHANGED <<aggregate, stored>>
    BY DEF Write
<1>1. content' \in Contents /\ version' \in Versions
    BY <1>0 DEF TypeOK, Contents, Versions
<1>2. /\ past' \in Seq([content : Contents, version : Versions])
      /\ Len(past) \in Nat /\ Len(past') = Len(past) + 1
      /\ past'[Len(past')] = moment
      /\ DOMAIN past' = 1 .. Len(past) + 1 /\ DOMAIN past = 1 .. Len(past)
      /\ \A n \in 1 .. Len(past) : past'[n] = past[n]
    <2> HIDE DEF moment
    <2>1. moment \in [content : Contents, version : Versions]
        BY <1>1 DEF moment
    <2> QED BY <1>0, <2>1, AppendProperties, LenProperties DEF TypeOK
<1> HIDE DEF moment
<1>6. LastIsCurrent'
    BY <1>2, EmptySeq DEF LastIsCurrent, moment
<1>7. ASSUME NEW revision \in Revisions, NEW made, Faithful(revision, made)
      PROVE  \A j \in Input : /\ revision[2][j] <= version'[j]
                              /\ j \in DOMAIN made /\ revision[2][j] = version'[j]
                                     => made[j] = content'[j]
    <2>1. \A j \in Input : revision[2][j] \in Nat /\ version[j] \in Nat
        BY DEF Revisions, Versions, TypeOK
    <2> QED BY <1>0, <1>7, <2>1 DEF Faithful, TypeOK, Contents, Versions
<1>8. aggregate' # NoAggregate => Faithful(aggregate.revision, aggregate.made)'
    BY <1>0, <1>7 DEF Faithful, TypeOK, Aggregates
<1>9. StoredAggregateIsOneMoment'
    <2> SUFFICES ASSUME aggregate # NoAggregate
                 PROVE  \E n \in DOMAIN past' :
                            /\ aggregate.revision = Revision(past'[n].content, past'[n].version)
                            /\ aggregate.made = past'[n].content
        BY <1>0 DEF StoredAggregateIsOneMoment, Revision
    <2>1. PICK n \in DOMAIN past :
              /\ aggregate.revision = Revision(past[n].content, past[n].version)
              /\ aggregate.made = past[n].content
        BY DEF StoredAggregateIsOneMoment
    <2>2. n \in DOMAIN past' /\ past'[n] = past[n]
        BY <1>2
    <2> QED BY <2>1, <2>2
<1>10. \A j \in Input : version[j] <= version'[j]
    BY <1>0 DEF TypeOK, Versions
<1>11. ASSUME NEW u \in Thread, thread'[u] = thread[u]
       PROVE  (ReadingOK(thread[u]) /\ AttemptsOK(thread[u]))'
    <2>1. thread'[u] = thread[u] /\ thread[u] \in State
          /\ ReadingOK(thread[u]) /\ AttemptsOK(thread[u])
        BY <1>11 DEF TypeOK
    <2>2. thread[u].seen # NoAggregate => thread[u].seen.revision \in Revisions
        BY <2>1 DEF State, Aggregates
    <2>3. ReadingOK(thread[u])'
        <3>1. Bound(thread[u]) => Faithful(thread[u].revision, thread[u].made)'
            BY <2>1, <1>7 DEF ReadingOK, Faithful
        <3>2. thread[u].seen # NoAggregate
                => Faithful(thread[u].seen.revision, thread[u].seen.made)'
            BY <2>1, <2>2, <1>7 DEF ReadingOK, Faithful
        <3>3. thread[u].pc = "served" =>
                \E n \in thread[u].since .. Len(past') :
                    n \in DOMAIN past' /\ thread[u].made = past'[n].content
            BY <2>1, <1>2 DEF ReadingOK, State
        <3> QED BY <2>1, <3>1, <3>2, <3>3 DEF ReadingOK, Bound
    <2>4. /\ Events(thread[u]) \in Int
          /\ Events(thread[u])' = Events(thread[u]) + 1
        <3>1. stored \in Nat /\ thread[u].since \in Nat /\ thread[u].after \in Nat
            BY <2>1 DEF State, TypeOK
        <3>2. Events(thread[u])' = (Len(past') - thread[u].since) + (stored - thread[u].after)
            BY <1>0, <2>1 DEF Events
        <3>3. Len(past') = Len(past) + 1 /\ Len(past) \in Nat
            BY <1>2
        <3>4. Events(thread[u]) = (Len(past) - thread[u].since) + (stored - thread[u].after)
            BY DEF Events
        <3> HIDE DEF AggregateInv
        <3>5. PICK l \in Nat, a \in Nat, n \in Nat, b \in Nat :
                  l = Len(past) /\ a = thread[u].since /\ n = stored /\ b = thread[u].after
            BY <3>1, <3>3
        <3>6. Events(thread[u]) = (l - a) + (n - b)
            BY <3>4, <3>5
        <3>7. Events(thread[u])' = ((l + 1) - a) + (n - b)
            BY <3>2, <3>3, <3>5
        <3> QED BY <3>6, <3>7
    <2>5. AttemptsOK(thread[u])'
        <3>1. thread[u].pc # "idle" => thread[u].since \in 1 .. Len(past') /\ thread[u].after <= stored'
            BY <1>0, <1>2, <2>1 DEF AttemptsOK, State
        <3>2. thread[u].attempt \in Nat
            BY <2>1, AggregateAssumption DEF State
        <3> HIDE DEF AggregateInv
        <3>3. PICK e \in Int, n \in Nat : e = Events(thread[u]) /\ n = thread[u].attempt
            BY <2>4, <3>2
        <3>4. Works(thread[u]) => e + 1 >= n - 1 /\ ~(e + 1 < n)
            <4>1. Works(thread[u]) => e >= n - 1
                BY <2>1, <3>3 DEF AttemptsOK
            <4> QED BY <3>3, <4>1
        <3>5. thread[u].pc = "conflict" => e + 1 >= Attempts
            <4>1. thread[u].pc = "conflict" => e >= Attempts
                BY <2>1, <3>3 DEF AttemptsOK
            <4> QED BY <3>3, <4>1, AggregateAssumption
        <3>6. Events(thread[u])' = e + 1
            BY <2>4, <3>3
        <3>7. thread[u].pc = "limits" => thread[u].attempt = 0 /\ thread[u].then = "judge"
            BY <2>1 DEF AttemptsOK
        <3> QED BY <2>1, <3>1, <3>3, <3>4, <3>5, <3>6, <3>7 DEF AttemptsOK, Works
    <2> QED BY <2>3, <2>5
<1> QED BY <1>1, <1>2, <1>6, <1>8, <1>9, <1>10, <1>11

LEMMA CommitPreserves ==
    ASSUME AggregateInv, NEW w \in Writer, NEW i \in Input, NEW value \in Value,
           CommitInput(w, i, value)
    PROVE  AggregateInv'
<1> USE DEF AggregateInv
<1> DEFINE s == [Idle EXCEPT !.pc = "rows", !.attempt = 1,
                             !.since = Len(past'), !.after = stored]
<1>0. /\ Write(i, value) /\ Becomes(w, s) /\ due' = [due EXCEPT ![i] = version'[i]]
      /\ UNCHANGED <<aggregate, stored, broken, aside>>
    BY DEF CommitInput
<1>1. /\ content' \in Contents /\ version' \in Versions
      /\ past' \in Seq([content : Contents, version : Versions])
      /\ Len(past) \in Nat /\ Len(past') = Len(past) + 1
      /\ \A j \in Input : version[j] <= version'[j]
      /\ LastIsCurrent' /\ StoredAggregateIsOneMoment'
      /\ aggregate' # NoAggregate => Faithful(aggregate.revision, aggregate.made)'
    BY <1>0, WritePreserves
<1>2. \A u \in Thread : thread'[u] = thread[u] =>
          ReadingOK(thread[u])' /\ AttemptsOK(thread[u])'
    BY <1>0, WritePreserves
<1>3. s \in State
    <2>1. Len(past') \in Nat /\ stored \in Nat /\ 1 \in 0 .. Attempts
        BY <1>1, AggregateAssumption DEF TypeOK
    <2> HIDE DEF Idle
    <2> QED BY <2>1, IdleIsState DEF State
<1>4. s.pc = "rows" /\ s.then = "compose" /\ s.made = <<>> /\ s.seen = NoAggregate
      /\ s.attempt = 1 /\ s.since = Len(past') /\ s.after = stored /\ ~s.raced
    BY DEF Idle
<1> HIDE DEF s
<1>5. due' \in Versions /\ \A j \in Input : due'[j] <= version'[j]
    <2>1. due \in Versions /\ version \in Versions /\ version' \in Versions
        BY <1>1 DEF TypeOK
    <2>2. due' \in Versions
        BY <1>0, <2>1 DEF Versions
    <2>3. ASSUME NEW j \in Input PROVE due'[j] <= version'[j]
        <3>1. /\ version[j] \in Nat /\ version'[j] \in Nat /\ due[j] \in Nat
              /\ due[j] <= version[j] /\ version[j] <= version'[j]
            BY <1>1, <2>1 DEF Versions
        <3>2. due'[j] = due[j] \/ due'[j] = version'[j]
            BY <1>0, <2>1 DEF Versions
        <3> QED BY <3>1, <3>2
    <2> QED BY <2>2, <2>3
<1>6. TypeOK'
    BY <1>0, <1>1, <1>3, <1>5 DEF TypeOK, Becomes
<1>7. QuietAggregateIsCurrent'
    <2>1. thread'[w].pc = "rows"
        BY <1>0, <1>4 DEF Becomes, TypeOK, Thread
    <2> QED BY <2>1 DEF QuietAggregateIsCurrent, At
<1>8. ASSUME NEW u \in Thread PROVE (ReadingOK(thread[u]) /\ AttemptsOK(thread[u]))'
    <2>1. CASE u = w
        <3>1. thread'[u] = s
            BY <1>0, <2>1 DEF Becomes, TypeOK
        <3>2. ReadingOK(thread[u])'
            BY <1>4, <3>1 DEF ReadingOK, Bound
        <3>3. Events(thread[u])' = 0
            BY <1>0, <1>1, <1>4, <3>1 DEF Events, TypeOK
        <3>4. AttemptsOK(thread[u])'
            BY <1>0, <1>1, <1>4, <3>1, <3>3 DEF AttemptsOK, Works, Undisturbed, Bound, TypeOK
        <3> QED BY <3>2, <3>4
    <2>2. CASE u # w
        <3>1. thread'[u] = thread[u]
            BY <1>0, <2>2 DEF Becomes, TypeOK
        <3> QED BY <1>2, <3>1
    <2> QED BY <2>1, <2>2
<1> QED BY <1>1, <1>5, <1>6, <1>7, <1>8

(* What is committed aside owes nothing, and only makes the aggregate old. *)
LEMMA AsidePreserves ==
    ASSUME AggregateInv, NEW i \in Input, NEW value \in Value \union {Missing},
           CommitAside(i, value)
    PROVE  AggregateInv'
<1> USE DEF AggregateInv
<1>0. /\ Write(i, value) /\ aside' = aside + 1
      /\ UNCHANGED <<aggregate, thread, stored, broken, due>>
    BY DEF CommitAside
<1>1. /\ content' \in Contents /\ version' \in Versions
      /\ past' \in Seq([content : Contents, version : Versions])
      /\ \A j \in Input : version[j] <= version'[j]
      /\ LastIsCurrent' /\ StoredAggregateIsOneMoment'
      /\ aggregate' # NoAggregate => Faithful(aggregate.revision, aggregate.made)'
    BY <1>0, WritePreserves
<1>2. \A u \in Thread : ReadingOK(thread[u])' /\ AttemptsOK(thread[u])'
    BY <1>0, WritePreserves
<1>3. TypeOK'
    BY <1>0, <1>1 DEF TypeOK
<1>4. \A j \in Input : due'[j] <= version'[j]
    BY <1>0, <1>1 DEF TypeOK, Versions
<1>5. QuietAggregateIsCurrent'
    <2>1. aside' # 0
        BY <1>0 DEF TypeOK
    <2> QED BY <1>0, <2>1 DEF QuietAggregateIsCurrent, At
<1> QED BY <1>1, <1>2, <1>3, <1>4, <1>5

-----------------------------------------------------------------------------
LEMMA InitEstablishesAggregateInv == Init => AggregateInv
<1> SUFFICES ASSUME Init PROVE AggregateInv
    OBVIOUS
<1>1. content \in Contents /\ version \in Versions /\ aggregate = NoAggregate
    BY DEF Init, Contents, Versions
<1> DEFINE moment == [content |-> content, version |-> version]
<1>2. past = <<moment>> /\ past \in Seq([content : Contents, version : Versions])
    BY <1>1 DEF Init
<1>3. Len(past) = 1 /\ past[1] = moment /\ past # <<>>
    BY <1>2
<1>4. TypeOK
    BY <1>1, <1>2, IdleIsState DEF Init, TypeOK, Versions
<1>5. LastIsCurrent
    BY <1>3 DEF LastIsCurrent
<1>6. StoredAggregateIsOneMoment
    BY <1>1 DEF StoredAggregateIsOneMoment
<1>7. QuietAggregateIsCurrent /\ \A i \in Input : due[i] <= version[i]
    BY <1>3 DEF Init, QuietAggregateIsCurrent
<1>8. \A t \in Thread : ReadingOK(thread[t]) /\ AttemptsOK(thread[t])
    BY IdleIsOK DEF Init
<1> QED BY <1>1, <1>4, <1>5, <1>6, <1>7, <1>8 DEF AggregateInv

LEMMA StepPreservesAggregateInv ==
    ASSUME AggregateInv, [Next]_vars
    PROVE  AggregateInv'
<1>0. Writer \subseteq Thread /\ Reader \subseteq Thread
    BY DEF Thread
<1>1. ASSUME NEW t \in Thread, ThreadStep(t) PROVE AggregateInv'
    BY <1>1, ReadRowsPreserves, TakeRevisionPreserves, ComposePreserves DEF ThreadStep
<1>2. ASSUME NEW w \in Writer, NEW i \in Input, NEW value \in Value, CommitInput(w, i, value)
      PROVE  AggregateInv'
    BY <1>2, CommitPreserves
<1>8. ASSUME NEW i \in Input, NEW value \in Value \union {Missing}, CommitAside(i, value)
      PROVE  AggregateInv'
    BY <1>8, AsidePreserves
<1>3. ASSUME NEW w \in Writer, PutAggregate(w) \/ PutNotSerializable(w)
      PROVE  AggregateInv'
    <2>1. CASE PutAggregate(w) /\ thread[w].revision = Current /\ Store(w)
        BY <2>1, StorePreserves DEF PutAggregate
    <2>2. CASE PutAggregate(w) /\ thread[w].revision # Current
        BY <2>2, PutFailsPreserves DEF PutAggregate, OnlyThread
    <2>3. CASE PutNotSerializable(w)
        BY <2>3, PutFailsPreserves DEF PutNotSerializable
    <2> QED BY <1>3, <2>1, <2>2, <2>3 DEF PutAggregate
<1>4. ASSUME NEW w \in Writer, RebuildRaises(w) \/ RebuildConflicts(w)
      PROVE  AggregateInv'
    BY <1>4, FailuresPreserve
<1>5. ASSUME NEW r \in Reader, \/ ReadAggregate(r) \/ ReadLimits(r) \/ JudgeState(r)
                               \/ ConfirmRevision(r) \/ Respond(r)
      PROVE  AggregateInv'
    BY <1>0, <1>5, ReaderReadsPreserve, JudgePreserves, ConfirmPreserves, RespondPreserves
<1>6. CASE UNCHANGED vars
    BY <1>6 DEF AggregateInv, vars, TypeOK, LastIsCurrent, StoredAggregateIsOneMoment,
        QuietAggregateIsCurrent, At, Current, Faithful, ReadingOK, AttemptsOK, Bound, Works,
        Undisturbed, Events
<1>7. CASE Next
    BY <1>1, <1>2, <1>3, <1>4, <1>5, <1>7, <1>8 DEF Next
<1> QED BY <1>6, <1>7

(* The invariant of rebuilds and requests: a revision that still holds     *)
(* vouches for what was read after it, and every attempt but the last of a *)
(* thread was disturbed.                                                   *)
THEOREM AggregateInvariant == Spec => []AggregateInv
  BY InitEstablishesAggregateInv, StepPreservesAggregateInv, PTL DEF Spec

(* The tables, the threads and the history keep their types.               *)
THEOREM AggregateTypeCorrect == Spec => []TypeOK
<1>1. AggregateInv => TypeOK
    BY DEF AggregateInv
<1> QED BY <1>1, AggregateInvariant, PTL

(* What put_materialized_aggregate has stored was the state of all inputs  *)
(* at one moment, whatever was committed while it was composed.            *)
THEOREM StoredIsOneMoment == Spec => []StoredAggregateIsOneMoment
<1>1. AggregateInv => StoredAggregateIsOneMoment
    BY DEF AggregateInv
<1> QED BY <1>1, AggregateInvariant, PTL

(* When all collections have ended and no rebuild has failed, all they     *)
(* committed is in the stored aggregate, and all that is there unless it   *)
(* was committed without a rebuild.                                        *)
THEOREM QuietIsCurrent == Spec => []QuietAggregateIsCurrent
<1>1. AggregateInv => QuietAggregateIsCurrent
    BY DEF AggregateInv
<1> QED BY <1>1, AggregateInvariant, PTL

(* What _get_local_aggregate answers were the inputs at one moment since   *)
(* the request was made.                                                   *)
THEOREM ServedWasThere == Spec => []ServedIsOneMoment
<1>1. AggregateInv => ServedIsOneMoment
    <2> SUFFICES ASSUME AggregateInv, NEW r \in Reader, At(r, "served")
                 PROVE  \E n \in thread[r].since .. Len(past) : thread[r].made = past[n].content
        BY DEF ServedIsOneMoment
    <2> QED BY DEF AggregateInv, ReadingOK, At, Thread
<1> QED BY <1>1, AggregateInvariant, PTL

(* A rebuild gives up only when each of its attempts was disturbed.        *)
THEOREM GivingUpIsEarned == Spec => []ConflictsAreEarned
<1>1. AggregateInv => ConflictsAreEarned
    BY DEF AggregateInv, AttemptsOK, ConflictsAreEarned, Events, At
<1> QED BY <1>1, AggregateInvariant, PTL

(* A slow rebuild never puts an older aggregate over a newer one.          *)
THEOREM NeverGoesBack == Spec => AggregateNeverGoesBack
<1> DEFINE A == aggregate # NoAggregate /\ aggregate' # aggregate =>
                  \A i \in Input : aggregate.revision[2][i] <= aggregate'.revision[2][i]
<1>1. ASSUME AggregateInv, [Next]_vars PROVE [A]_vars
    <2>1. \/ aggregate' = aggregate
          \/ \E w \in Writer : PutAggregate(w) /\ Store(w) /\ thread[w].revision = Current
        BY <1>1 DEF Next, vars, ThreadStep, ReadRows, TakeRevision, ComposeNothing,
            ComposeInput, ComposeDone, OnlyThread, CommitInput, CommitAside, PutAggregate,
            PutNotSerializable, RebuildRaises, RebuildConflicts, ReadAggregate, ReadLimits,
            JudgeState, ConfirmRevision, Respond
    <2>2. ASSUME NEW w \in Writer, Store(w), thread[w].revision = Current, aggregate # NoAggregate
          PROVE  \A i \in Input : aggregate.revision[2][i] <= aggregate'.revision[2][i]
        <3>1. aggregate'.revision[2] = version
            BY <2>2 DEF Store, Current, Revision
        <3> QED BY <1>1, <2>2, <3>1 DEF AggregateInv, Faithful
    <2> QED BY <2>1, <2>2
<1> QED BY <1>1, AggregateInvariant, PTL DEF Spec, AggregateNeverGoesBack
=============================================================================
