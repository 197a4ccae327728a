------------------------- MODULE MaterializedAggregate -------------------------
(***************************************************************************)
(* The materialized market environment of one date: every collection       *)
(* thread that has committed a dataset rebuilds it, and requests are       *)
(* answered from it, or from a rebuild of their own that is not stored.    *)
(*                                                                         *)
(* A rebuild reads the revision of the inputs, then the inputs one by one, *)
(* and is kept only if the revision is still the same; it tries Attempts   *)
(* times.  The revision itself is read by two statements, the rows and     *)
(* their component versions, outside any snapshot: the engine leaves       *)
(* PostgreSQL at READ COMMITTED and the compatibility layer drops BEGIN.   *)
(***************************************************************************)
EXTENDS Integers, Sequences, FiniteSets

CONSTANTS
    Input,          \* the datasets an aggregate is made of
    Core, Limits,   \* the one it cannot do without; the one read twice
    Rank,           \* the order in which compose reads them
    Value,          \* contents of a snapshot row
    Missing,        \* no row
    Writer,         \* collection threads
    Reader,         \* requests
    Attempts,       \* _MATERIALIZED_REBUILD_ATTEMPTS
    MaxWrites,      \* bound: commits of inputs
    MaxAside,       \* bound: those without a rebuild, until one is stored
    MaxActive       \* bound: threads at work at the same time

ASSUME AggregateAssumption ==
    /\ {Core, Limits} \subseteq Input
    /\ Rank \in [Input -> Nat] /\ \A i \in Input \ {Core} : Rank[Core] < Rank[i]
    /\ Missing \notin Value
    /\ Writer \intersect Reader = {}
    /\ Attempts \in Nat \ {0} /\ {MaxWrites, MaxAside, MaxActive} \subseteq Nat

VARIABLES
    content,        \* content[i]: the snapshot row of i
    version,        \* version[i]: its materialization_component_versions row
    aggregate,      \* materialized_market_environment, or NoAggregate
    thread,         \* thread[t]: what a writer or a reader is doing
    past,           \* history: every state the inputs have had
    stored,         \* history: how many aggregates have been stored
    broken,         \* history: a rebuild failed and none has succeeded since
    aside,          \* history: commits of inputs without a rebuild since an
                    \* aggregate was last stored
    due             \* history: due[i] is the version of i that a collection
                    \* last committed, 0 when a rebuild has found no core since

vars == <<content, version, aggregate, thread, past, stored, broken, aside, due>>

Thread == Writer \union Reader
Contents == [Input -> Value \union {Missing}]
Versions == [Input -> Nat]

NoAggregate == [revision |-> <<>>, made |-> <<>>]

(* Mutant: the rows alone, without the versions their triggers count up. *)
RevisionOfRows(rows, versions) == <<rows, [i \in Input |-> 0]>>

(* _materialization_revision: a checksum over the rows of all inputs and   *)
(* over their component versions; what matters is when two are equal.      *)
Revision(rows, versions) == <<rows, versions>>

Current == Revision(content, version)

(* then: what a revision is read for.  seen: the aggregate a request found, *)
(* with the limits row it read next.  raced: another thread has stored its *)
(* aggregate while this one was about to.  since, after: how many states   *)
(* of the inputs and how many stored aggregates there had been when the    *)
(* request or the rebuild began.                                           *)
Parts == UNION {[S -> Value \union {Missing}] : S \in SUBSET Input}
Revisions == Contents \X Versions
Aggregates == [revision : Revisions, made : Contents]

State == [pc : {"idle", "limits", "rows", "versions", "compose", "put",
                "served", "conflict"},
          then : {"judge", "compose", "confirm"},
          attempt : 0 .. Attempts, since : Nat, after : Nat, raced : BOOLEAN,
          rows : Contents \union {<<>>}, revision : Revisions \union {<<>>},
          made : Parts, seen : Aggregates \union {NoAggregate},
          limits : Value \union {Missing}]

Idle == [pc |-> "idle", then |-> "compose", attempt |-> 0, since |-> 0,
         after |-> 0, raced |-> FALSE, rows |-> <<>>, revision |-> <<>>, made |-> <<>>,
         seen |-> NoAggregate, limits |-> Missing]

TypeOK ==
    /\ content \in Contents
    /\ version \in Versions
    /\ aggregate \in Aggregates \union {NoAggregate}
    /\ thread \in [Thread -> State]
    /\ past \in Seq([content : Contents, version : Versions])
    /\ stored \in Nat
    /\ broken \in BOOLEAN
    /\ aside \in Nat
    /\ due \in Versions

(* The date may have snapshots, and no aggregate yet. *)
Init ==
    /\ \E v \in Value \union {Missing} : content = [i \in Input |-> v]
    /\ version = [i \in Input |-> 0]
    /\ aggregate = NoAggregate
    /\ thread = [t \in Thread |-> Idle]
    /\ past = << [content |-> content, version |-> version] >>
    /\ stored = 0
    /\ broken = FALSE
    /\ aside = 0
    /\ due = [i \in Input |-> 0]

At(t, pc) == thread[t].pc = pc
Becomes(t, changed) == thread' = [thread EXCEPT ![t] = changed]
Inputs == <<content, version, past>>
MayStart == Cardinality({t \in Thread : ~At(t, "idle")}) < MaxActive
OnlyThread == UNCHANGED <<Inputs, aggregate, stored, broken, aside, due>>

(* The inputs that are composed so far, and the next one to read. *)
Composed(t) == DOMAIN thread[t].made
NextInput(t) ==
    CHOOSE i \in Input \ Composed(t) :
        \A j \in Input \ Composed(t) : Rank[i] <= Rank[j]

(* Mutants: one attempt too few; and no end of attempts. *)
AttemptOneLess(t, n) ==
    [Idle EXCEPT !.since = thread[t].since, !.after = thread[t].after,
                 !.pc = IF n >= Attempts THEN "conflict" ELSE "rows",
                 !.attempt = IF n >= Attempts THEN 0 ELSE n]

(* One more round: read the revision, compose, compare; or give up.        *)
Attempt(t, n) ==
    [Idle EXCEPT !.since = thread[t].since, !.after = thread[t].after,
                 !.pc = IF n > Attempts THEN "conflict" ELSE "rows",
                 !.attempt = IF n > Attempts THEN 0 ELSE n]

-----------------------------------------------------------------------------
(* One transaction on a row of an input; the trigger counts its component  *)
(* up with it.                                                             *)
Write(i, value) ==
    /\ content' = [content EXCEPT ![i] = value]
    /\ version' = [version EXCEPT ![i] = @ + 1]
    /\ past' = Append(past, [content |-> content', version |-> version'])

(* A collection thread commits its dataset, new rows or a changed warning, *)
(* and goes on to rebuild.                                                 *)
CommitInput(w, i, value) ==
    /\ At(w, "idle") /\ MayStart
    /\ Len(past) <= MaxWrites
    /\ Write(i, value)
    /\ Becomes(w, [Idle EXCEPT !.pc = "rows", !.attempt = 1,
                     !.since = Len(past'), !.after = stored])
    /\ due' = [due EXCEPT ![i] = version'[i]]
    /\ UNCHANGED <<aggregate, stored, broken, aside>>

(* Who commits an input and rebuilds nothing, or nothing for this date:    *)
(* SnapshotRefresher; a collection of an earlier date, whose breadth or    *)
(* limits row counts in this date's revision too; prune, which deletes     *)
(* rows, the triggers counting that up as well.                            *)
CommitAside(i, value) ==
    /\ Len(past) <= MaxWrites /\ aside < MaxAside
    /\ value = Missing => content[i] # Missing
    /\ Write(i, value)
    /\ aside' = aside + 1
    /\ UNCHANGED <<aggregate, thread, stored, broken, due>>

ReadRows(t) ==
    /\ At(t, "rows")
    /\ Becomes(t, [thread[t] EXCEPT !.pc = "versions", !.rows = content])
    /\ OnlyThread

TakeRevision(t) ==
    /\ At(t, "versions") /\ thread[t].then = "compose"
    /\ Becomes(t, [thread[t] EXCEPT !.pc = "compose", !.rows = <<>>,
                        !.revision = Revision(thread[t].rows, version)])
    /\ OnlyThread

(* compose reads core first, and makes nothing without it. *)
ComposeNothing(t) ==
    /\ At(t, "compose") /\ Composed(t) = {} /\ content[Core] = Missing
    /\ Becomes(t, Idle)
    /\ due' = IF t \in Writer THEN [i \in Input |-> 0] ELSE due
    /\ UNCHANGED <<Inputs, aggregate, stored, broken, aside>>

ComposeInput(t) ==
    /\ At(t, "compose") /\ Composed(t) # Input
    /\ Composed(t) = {} => content[Core] # Missing
    /\ LET i == NextInput(t) IN
       Becomes(t, [thread[t] EXCEPT !.made = [j \in Composed(t) \union {i} |->
                        IF j = i THEN content[i] ELSE @[j]]])
    /\ OnlyThread

(* What is composed goes on to be stored under the lease, or, without one, *)
(* to be compared with a second reading of the revision.                   *)
ComposeDone(t) ==
    /\ At(t, "compose") /\ Composed(t) = Input
    /\ Becomes(t, IF t \in Writer THEN [thread[t] EXCEPT !.pc = "put"]
                  ELSE [thread[t] EXCEPT !.pc = "rows", !.then = "confirm"])
    /\ OnlyThread

(* The aggregate is written; whoever is in the same call has been raced.   *)
Store(w) ==
    /\ aggregate' = [revision |-> thread[w].revision, made |-> thread[w].made]
    /\ stored' = stored + 1
    /\ broken' = FALSE
    /\ aside' = 0
    /\ due' = due
    /\ thread' = [t \in Thread |->
                    IF t = w THEN Idle
                    ELSE IF At(t, "put") THEN [thread[t] EXCEPT !.raced = TRUE]
                    ELSE thread[t]]

(* Mutant: the comparison is left out. *)
PutUnchecked(w) ==
    /\ At(w, "put")
    /\ Store(w)
    /\ UNCHANGED Inputs

(* put_materialized_aggregate: SERIALIZABLE, with the component versions   *)
(* locked, so the comparison and the write are one step.                   *)
PutAggregate(w) ==
    /\ At(w, "put")
    /\ \/ thread[w].revision = Current /\ Store(w)
       \/ /\ thread[w].revision # Current
          /\ Becomes(w, Attempt(w, thread[w].attempt + 1))
          /\ UNCHANGED <<aggregate, stored, broken, aside, due>>
    /\ UNCHANGED Inputs

(* Two such transactions at the same time write the same row: the second   *)
(* cannot be serialized, and that too is taken for a conflict.             *)
PutNotSerializable(w) ==
    /\ At(w, "put") /\ thread[w].raced
    /\ Becomes(w, Attempt(w, thread[w].attempt + 1))
    /\ OnlyThread

(* The lease has run out, reading or composing raised, or the process has  *)
(* died.                                                                   *)
RebuildRaises(w) ==
    /\ thread[w].pc \in {"rows", "versions", "compose", "put"}
    /\ Becomes(w, Idle)
    /\ broken' = TRUE
    /\ UNCHANGED <<Inputs, aggregate, stored, aside, due>>

(* MaterializedAggregateConflict: the task turns partial. *)
RebuildConflicts(w) ==
    /\ At(w, "conflict")
    /\ Becomes(w, Idle)
    /\ broken' = TRUE
    /\ UNCHANGED <<Inputs, aggregate, stored, aside, due>>

-----------------------------------------------------------------------------
(* _get_local_aggregate: get_materialized_aggregate_state reads aggregate, *)
(* limits row and revision by one statement each.                          *)

ReadAggregate(r) ==
    /\ At(r, "idle") /\ MayStart
    /\ Becomes(r, [Idle EXCEPT !.pc = "limits", !.then = "judge",
                     !.seen = aggregate,
                     !.since = Len(past), !.after = stored])
    /\ OnlyThread

ReadLimits(r) ==
    /\ At(r, "limits")
    /\ Becomes(r, [thread[r] EXCEPT !.pc = "rows", !.limits = content[Limits]])
    /\ OnlyThread

(* Mutant: only the limits row is compared. *)
UpToDateInLimits(seen, revision, limits) ==
    seen # NoAggregate /\ seen.made[Limits] = limits

(* The stored aggregate is served if it carries the revision just read,    *)
(* with the limits row just read in it.                                    *)
UpToDate(seen, revision, limits) ==
    /\ seen # NoAggregate
    /\ seen.revision = revision
    /\ seen.made[Limits] = limits

JudgeState(r) ==
    /\ At(r, "versions") /\ thread[r].then = "judge"
    /\ LET seen == thread[r].seen IN
       IF UpToDate(seen, Revision(thread[r].rows, version), thread[r].limits)
       THEN Becomes(r, [Idle EXCEPT !.pc = "served", !.made = seen.made,
                                    !.since = thread[r].since])
       ELSE Becomes(r, Attempt(r, 1))
    /\ OnlyThread

(* Mutant: a second reading is made, and not looked at. *)
ConfirmBlindly(r) ==
    /\ At(r, "versions") /\ thread[r].then = "confirm"
    /\ Becomes(r, [Idle EXCEPT !.pc = "served", !.made = thread[r].made,
                               !.since = thread[r].since])
    /\ OnlyThread

ConfirmRevision(r) ==
    /\ At(r, "versions") /\ thread[r].then = "confirm"
    /\ IF thread[r].revision = Revision(thread[r].rows, version)
       THEN Becomes(r, [Idle EXCEPT !.pc = "served", !.made = thread[r].made,
                                    !.since = thread[r].since])
       ELSE Becomes(r, Attempt(r, thread[r].attempt + 1))
    /\ OnlyThread

Respond(r) ==
    /\ thread[r].pc \in {"served", "conflict"}
    /\ Becomes(r, Idle)
    /\ OnlyThread

ThreadStep(t) ==
    \/ ReadRows(t) \/ TakeRevision(t)
    \/ ComposeNothing(t) \/ ComposeInput(t) \/ ComposeDone(t)

Next ==
    \/ \E t \in Thread : ThreadStep(t)
    \/ \E i \in Input, value \in Value \union {Missing} : CommitAside(i, value)
    \/ \E w \in Writer :
          \/ \E i \in Input, value \in Value : CommitInput(w, i, value)
          \/ PutAggregate(w) \/ PutNotSerializable(w)
          \/ RebuildRaises(w) \/ RebuildConflicts(w)
    \/ \E r \in Reader :
          \/ ReadAggregate(r) \/ ReadLimits(r) \/ JudgeState(r)
          \/ ConfirmRevision(r) \/ Respond(r)

Spec == Init /\ [][Next]_vars

-----------------------------------------------------------------------------
(* A stored aggregate is made of rows that were all there at one time, the *)
(* time its revision names, although they were read one after the other    *)
(* while others committed, and although a row may come back to what it was *)
(* (a warning that is set and cleared).                                    *)
StoredAggregateIsOneMoment ==
    aggregate # NoAggregate =>
        \E n \in DOMAIN past :
            /\ aggregate.revision = Revision(past[n].content, past[n].version)
            /\ aggregate.made = past[n].content

(* A slow rebuild never puts an older aggregate over a newer one. *)
AggregateNeverGoesBack ==
    [][ aggregate # NoAggregate /\ aggregate' # aggregate =>
            \A i \in Input :
                aggregate.revision[2][i] <= aggregate'.revision[2][i] ]_vars

(* When no collection is at work any more and no rebuild has failed, what  *)
(* the collections committed is in the stored aggregate, whoever committed *)
(* last and whoever rebuilt last; what was committed without a rebuild     *)
(* after it was stored is not, and all that is there is in it otherwise.   *)
QuietAggregateIsCurrent ==
    (\A w \in Writer : At(w, "idle")) /\ ~broken =>
        /\ \A i \in Input : due[i] > 0 =>
              aggregate # NoAggregate /\ due[i] <= aggregate.revision[2][i]
        /\ content[Core] # Missing /\ Len(past) > 1 /\ aside = 0 =>
              aggregate # NoAggregate /\ aggregate.revision = Current

(* What a request is answered with were the inputs at one moment since it  *)
(* was made, though it holds no lease and locks nothing.                   *)
ServedIsOneMoment ==
    \A r \in Reader : At(r, "served") =>
        \E n \in thread[r].since .. Len(past) : thread[r].made = past[n].content

(* A rebuild gives up only when others got on with their work during each  *)
(* of its attempts: they committed an input or, where two rebuilds write   *)
(* at the same time, stored an aggregate.  A torn reading of the revision  *)
(* costs no attempt of its own.                                            *)
ConflictsAreEarned ==
    \A t \in Thread : At(t, "conflict") =>
        (Len(past) - thread[t].since) + (stored - thread[t].after) >= Attempts
=============================================================================
