------------------------- MODULE DatasetCollection -------------------------
(***************************************************************************)
(* Collections of the seven datasets from their lease to their commit      *)
(* (collection/coordinator.py _execute_task and _collect_and_commit, the   *)
(* collectors, the preparer and the committers of each dataset).           *)
(*                                                                         *)
(* A collection takes the lease of its dataset and day, runs its plan one  *)
(* source at a time, and writes everything it has in one fenced            *)
(* transaction. A limits collection of D also collects P, under a second   *)
(* lease, if the detail of P is not there. Leases run out at any time.     *)
(* The check, the writes and the commit of a transaction are one step; the *)
(* gap inside it is the subject of FencedCommit. Tasks, runs, crashes and  *)
(* the aggregate are those of CollectionExecution.                         *)
(***************************************************************************)
EXTENDS ThsDatasets

CONSTANTS
    Workers,            \* threads that execute collections
    NoOne,              \* the holder of a free lease
    Scopes,             \* sets of <<dataset, day>> that are collected together
    Bound               \* per scope, bounds on a behaviour: the collections, the leases
                        \* that run out, the changes of what THS collectors read; and
                        \* the phase it begins in

VARIABLES
    scope,      \* what is collected in this behaviour
    lease,      \* per key: who holds it
    worker,     \* per thread: the collection it executes, or None
    stored,     \* per key: the snapshot, or None
    detail,     \* the days that have a complete limits detail; only P is asked for
    sessions,   \* the days whose trading session is proven, with the one before
    started, lapses, changes    \* how far the bounds are used

work == <<lease, worker, started>>
store == <<stored, detail, sessions>>
datasetVars == <<phase, thsVars, scope, work, store, lapses, changes>>

Snapshot == {"breadth", "activeDirection", "limits"}
Ths == {"industry-ranking", "sector-turnover", "sector-breadth"}
PreviousKey == <<"limits", P>>
Keys == {PreviousKey} \cup UNION Scopes
Datasets == Snapshot \cup Ths \cup {"core"}

\* What a plan may have so far: a candidate, the indices of core, the evidence of
\* a THS dataset; and what is kept of a collection under way.
Partial(S, T) == UNION {[X -> T] : X \in SUBSET S}
Candidates == [source: {"fuyao", "tdx", "eastmoney", "primary", "delayed", "derived", "union"},
               day: Days, final: BOOLEAN, settled: BOOLEAN]
CoreDrafts == [stored: Partial(Indices, Reading),
               indices: Partial(Indices, [reading: Reading, retained: BOOLEAN])]
Evidence == [revision: Catalogs, value: Values, limits: Nat]
Plans == [dataset: Datasets, day: Days, today: {D, D + 1}, settled: BOOLEAN, step: Nat \ {0},
          draft: Candidates \cup CoreDrafts \cup Evidence \cup {None}, stopped: BOOLEAN]
Collections == [at: {"preparing", "taking", "previous", "asking"}, key: Keys, id: Nat, plan: Plans,
                previous: Candidates \cup {None}, base: [Keys -> Nat]]

\* None is none of what it stands for the absence of; and where one of the THS
\* datasets is collected, all three may be.
ASSUME DatasetAssumption ==
    /\ Scopes \subseteq SUBSET (Datasets \X Days)
    /\ (\E k \in UNION Scopes : k[1] \in Ths) => Ths \X {D} \subseteq UNION Scopes
    /\ \A s \in Scopes : /\ Bound[s].from \in 0 .. 3
                         /\ {Bound[s].collections, Bound[s].lapses, Bound[s].changes} \subseteq Nat
    /\ IndexOrder \in Seq(Indices) /\ "retained" \notin Indices
    /\ Catalogs # {} /\ Values # {} /\ NoOne \notin Workers
    /\ None \notin Catalogs \cup Candidates \cup CoreDrafts \cup Evidence \cup Collections

Ranked == \E k \in scope : k[1] \in Ths

DatasetInit ==
    /\ scope \in Scopes
    /\ phase = Bound[scope].from
    /\ ThsInit(IF Ranked THEN Values ELSE {CHOOSE v \in Values : TRUE})
    /\ lease = [k \in Keys |-> NoOne]
    /\ worker = [w \in Workers |-> None]
    /\ stored = [k \in Keys |-> None]
    /\ detail = {}
    /\ sessions \in IF <<"limits", D>> \in scope THEN SUBSET {D} ELSE {{}}
    /\ started = 0 /\ lapses = 0 /\ changes = 0

-----------------------------------------------------------------------------
\* A collection begins with the lease of its key. Under it: what it holds, the
\* plan it runs, the previous day it has collected, and what was stored under
\* each key when it took the lease (kept for the properties).

StoredId(k) == IF stored[k] = None THEN 0 ELSE stored[k].id

\* The three THS datasets are collected for the session that has just settled.
\* The threads are alike, so the one that starts is any idle one.
Begins(dataset, day) ==
    LET c == Collecting(dataset, day)
    IN  IF dataset \in Ths /\ ~(day = Today /\ phase = 2) THEN [c EXCEPT !.stopped = TRUE] ELSE c

BeginCollection(w, k) ==
    /\ worker[w] = None /\ w = (CHOOSE v \in Workers : worker[v] = None)
    /\ k \in scope /\ lease[k] = NoOne
    /\ started < Bound[scope].collections
    /\ started' = started + 1
    /\ lease' = [lease EXCEPT ![k] = w]
    /\ worker' = [worker EXCEPT ![w] =
           [at |-> IF k[1] = "limits" THEN "preparing" ELSE "asking", key |-> k, id |-> started + 1,
            plan |-> Begins(k[1], k[2]), previous |-> None,
            base |-> [x \in Keys |-> IF x = k THEN StoredId(k) ELSE 0]]]
    /\ UNCHANGED <<phase, thsVars, scope, store, lapses, changes>>

Becomes(w, r) == worker' = [worker EXCEPT ![w] = r]
Now(w) == worker[w].plan
IsAt(w, place) == worker[w] # None /\ worker[w].at = place

\* The plan the thread runs is read again when it begins: the clock has moved.
Asking(w) == [worker[w] EXCEPT !.at = "asking", !.plan = Begins(worker[w].key[1], worker[w].key[2])]

\* The previous day is collected if its session is known and its detail is not there.
DetailAvailable(day) == day \in detail

PrepareLimits(w) ==
    /\ IsAt(w, "preparing")
    /\ IF worker[w].key[2] = D /\ D \in sessions /\ ~DetailAvailable(P)
       THEN Becomes(w, [worker[w] EXCEPT !.at = "taking"])
       ELSE Becomes(w, Asking(w))
    /\ UNCHANGED <<phase, thsVars, scope, lease, started, store, lapses, changes>>

\* The lease of the previous day is taken if it is free, and never waited for.
TakePrevious(w) ==
    /\ IsAt(w, "taking")
    /\ IF lease[PreviousKey] = NoOne
       THEN /\ lease' = [lease EXCEPT ![PreviousKey] = w]
            /\ Becomes(w, [worker[w] EXCEPT !.at = "previous", !.plan = Begins("limits", P),
                               !.base[PreviousKey] = StoredId(PreviousKey)])
       ELSE Becomes(w, Asking(w)) /\ UNCHANGED lease
    /\ UNCHANGED <<phase, thsVars, scope, started, store, lapses, changes>>

-----------------------------------------------------------------------------
\* The plan runs, one source at a time.

Runs(w) == worker[w] # None /\ worker[w].at \in {"asking", "previous"}
Steps(c) == IF c.dataset \in Ths THEN ThsSources[c.dataset] ELSE Sources[c.dataset]
Ended(w) == Runs(w) /\ (Now(w).stopped \/ Now(w).step > Len(Steps(Now(w))))
Source(w) == Steps(Now(w))[Now(w).step]
RunsOn(w, datasets) == Runs(w) /\ ~Ended(w) /\ Now(w).dataset \in datasets

Goes(w, c) ==
    /\ Becomes(w, [worker[w] EXCEPT !.plan = c])
    /\ UNCHANGED <<phase, thsVars, scope, lease, started, store, lapses, changes>>

SourceAnswers(w) ==
    /\ RunsOn(w, Snapshot) /\ Wanted(Now(w), Source(w)) /\ Admits(Now(w), Source(w))
    /\ Goes(w, [Onward(Now(w)) EXCEPT !.draft = Candidate(Now(w), Source(w))])

SourceFails(w) == RunsOn(w, Snapshot) /\ Goes(w, Onward(Now(w)))

SourceStops(w) ==
    /\ RunsOn(w, Snapshot) /\ MayStop(Now(w), Source(w))
    /\ Goes(w, [Now(w) EXCEPT !.stopped = TRUE])

ReadRetained(w) ==
    /\ RunsOn(w, {"core"}) /\ Source(w) = "retained"
    /\ Goes(w, [Onward(Now(w)) EXCEPT !.draft = CoreDraft(stored[worker[w].key])])

IndexAnswers(w) ==
    /\ RunsOn(w, {"core"}) /\ Source(w) # "retained" /\ HistoryTail(Now(w).day).day = Now(w).day
    /\ Goes(w, [Onward(Now(w)) EXCEPT
                   !.draft = WithIndex(@, Source(w), FreshAnswer(HistoryTail(Now(w).day)))])

IndexFails(w) ==
    /\ RunsOn(w, {"core"}) /\ Source(w) # "retained"
    /\ Goes(w, [Onward(Now(w)) EXCEPT !.draft = WithoutAnswer(@, Source(w))])

-----------------------------------------------------------------------------
\* The THS collectors. A read that finds its evidence missing or of another
\* revision stops the collection.

Reads(w, source) == RunsOn(w, Ths) /\ Source(w) = source
Read(w, acceptable, draft) ==
    Goes(w, IF acceptable THEN [Onward(Now(w)) EXCEPT !.draft = draft]
                          ELSE [Now(w) EXCEPT !.stopped = TRUE, !.draft = None])
SnapshotOf(dataset) == stored[<<dataset, D>>]

ReadBundle(w) ==
    /\ Reads(w, "bundle")
    /\ \E answered \in BOOLEAN :
         Read(w, answered, [revision |-> provider.catalog, value |-> provider.value, limits |-> 0])

ReadRankings(w) ==
    /\ Reads(w, "rankings")
    /\ Read(w, SelectedRevision # None,
            [revision |-> SelectedRevision, limits |-> 0,
             value |-> IF SelectedRevision = None THEN None ELSE facts.rankings[SelectedRevision]])

ReadRankingSnapshot(w) ==
    /\ Reads(w, "ranking-snapshot")
    /\ Read(w, /\ SnapshotOf("industry-ranking") # None
               /\ SnapshotOf("industry-ranking").data.revision = Now(w).draft.revision, Now(w).draft)

\* The bars must be those of the codes the ranking snapshot has values for.
ReadBars(w) ==
    /\ Reads(w, "bars")
    /\ Read(w, facts.rankings[Now(w).draft.revision] = Now(w).draft.value, Now(w).draft)

ReadTurnover(w) ==
    /\ Reads(w, "turnover-snapshot")
    /\ Read(w, /\ SnapshotOf("sector-turnover") # None
               /\ SnapshotOf("sector-turnover").data.revision = Now(w).draft.revision, Now(w).draft)

\* A limits detail that is missing or incomplete leaves the limit counts out.
ReadLimits(w) ==
    /\ Reads(w, "limits")
    /\ Read(w, TRUE, [Now(w).draft EXCEPT !.limits = limitsSeen])

-----------------------------------------------------------------------------
\* The plan of the previous day has ended: what it gave waits for the commit.
EndPrevious(w) ==
    /\ IsAt(w, "previous") /\ Ended(w)
    /\ Becomes(w, [Asking(w) EXCEPT !.previous = Now(w).draft])
    /\ UNCHANGED <<phase, thsVars, scope, lease, started, store, lapses, changes>>

Produced(w) ==
    /\ Now(w).draft # None
    /\ Now(w).dataset = "core" => CoreFound(Now(w).draft)

\* A bug: only the lease of the collection's own key is checked.
FencedByOwnLease(w) == lease[worker[w].key] = w

\* Every lease the writes need is still held: that of the previous day too.
Fenced(w) ==
    /\ lease[worker[w].key] = w
    /\ worker[w].previous # None => lease[PreviousKey] = w

\* A retained index must be the one the stored snapshot has at the commit.
RetainedHolds(w) ==
    Now(w).dataset = "core" =>
        LET indices == Now(w).draft.indices
            snapshot == stored[worker[w].key]
        IN  \A i \in DOMAIN indices \ FreshIndices(Now(w).draft) :
                /\ snapshot # None /\ i \in DOMAIN snapshot.data.indices
                /\ snapshot.data.indices[i] = indices[i].reading

NoConflict(w) ==
    /\ Now(w).dataset = "industry-ranking" => ~RankingConflicts(Now(w).draft)
    /\ Now(w).dataset = "sector-breadth" => ~BreadthConflicts(Now(w).draft)

CanCommit(w) == Fenced(w) /\ RetainedHolds(w) /\ NoConflict(w)

\* The snapshot of a draft, with the collection that made it and the one it replaces.
SnapshotFrom(w, k, draft) ==
    [id |-> worker[w].id, base |-> worker[w].base[k],
     data |-> IF k[1] = "core"
              THEN [settled |-> Now(w).settled,
                    indices |-> [i \in DOMAIN draft.indices |-> draft.indices[i].reading],
                    fresh |-> FreshIndices(draft)]
              ELSE draft]

Replaces(w) == Now(w).dataset = "core" => CoreReplaces(Now(w).draft)

\* The snapshots after the transaction, of the previous day too if it was collected.
WritesPrevious(w) == worker[w].previous # None
Written(w) ==
    [k \in Keys |->
        IF k = worker[w].key /\ Replaces(w) THEN SnapshotFrom(w, k, Now(w).draft)
        ELSE IF k = PreviousKey /\ WritesPrevious(w) THEN SnapshotFrom(w, k, worker[w].previous)
        ELSE stored[k]]

\* A bug: only the lease of the collection's own key is released.
FreedOwnLease(w) == [lease EXCEPT ![worker[w].key] = IF @ = w THEN NoOne ELSE @]

Freed(w) == [k \in Keys |-> IF lease[k] = w THEN NoOne ELSE lease[k]]
Done(w) ==
    /\ worker' = [worker EXCEPT ![w] = None]
    /\ lease' = Freed(w)
    /\ UNCHANGED <<phase, provider, limitsSeen, scope, started, lapses, changes>>

\* One transaction; then the previous lease and the own one are released. The
\* detail of a limits day is written with its snapshot.
Commit(w) ==
    /\ IsAt(w, "asking") /\ Ended(w) /\ Produced(w) /\ CanCommit(w)
    /\ stored' = Written(w)
    /\ detail' \in IF worker[w].key = PreviousKey \/ WritesPrevious(w)
                   THEN {detail \ {P}, detail \cup {P}} ELSE {detail}
    /\ \E proven \in BOOLEAN :
         sessions' = IF Now(w).dataset = "core" /\ proven THEN sessions \cup {Now(w).day} ELSE sessions
    /\ facts' = CASE Now(w).dataset = "industry-ranking" -> WithRanking(Now(w).draft)
                  [] Now(w).dataset = "sector-breadth" -> WithBreadth(Now(w).draft)
                  [] OTHER -> facts
    /\ Done(w)

\* Nothing was found, or the transaction was refused and rolled back.
GiveUp(w) ==
    /\ IsAt(w, "asking") /\ Ended(w) /\ ~(Produced(w) /\ CanCommit(w))
    /\ Done(w) /\ UNCHANGED <<facts, store>>

-----------------------------------------------------------------------------
\* The environment: leases run out, the clock moves on, the provider shows other
\* data, and others collect the limits of the day.

Lapse(k) ==
    /\ lease[k] # NoOne /\ lapses < Bound[scope].lapses
    /\ lease' = [lease EXCEPT ![k] = NoOne] /\ lapses' = lapses + 1
    /\ UNCHANGED <<phase, thsVars, scope, worker, started, store, changes>>

ClockAdvances ==
    /\ phase < 3 /\ phase' = phase + 1
    /\ UNCHANGED <<thsVars, scope, work, store, lapses, changes>>

ProviderChanges ==
    /\ Ranked /\ changes < Bound[scope].changes /\ changes' = changes + 1
    /\ provider' \in [catalog: Catalogs, value: Values] /\ provider' # provider
    /\ UNCHANGED <<phase, facts, limitsSeen, scope, work, store, lapses>>

LimitsArrive ==
    /\ Ranked /\ changes < Bound[scope].changes /\ changes' = changes + 1
    /\ limitsSeen' = limitsSeen + 1
    /\ UNCHANGED <<phase, provider, facts, scope, work, store, lapses>>

Executes(w) ==
    \/ PrepareLimits(w) \/ TakePrevious(w) \/ EndPrevious(w) \/ Commit(w) \/ GiveUp(w)
    \/ SourceAnswers(w) \/ SourceFails(w) \/ SourceStops(w)
    \/ ReadRetained(w) \/ IndexAnswers(w) \/ IndexFails(w)
    \/ ReadBundle(w) \/ ReadRankings(w) \/ ReadRankingSnapshot(w) \/ ReadBars(w)
    \/ ReadTurnover(w) \/ ReadLimits(w)

DatasetNext ==
    \/ \E w \in Workers : Executes(w) \/ \E k \in scope : BeginCollection(w, k)
    \/ \E k \in Keys : Lapse(k)
    \/ ClockAdvances \/ ProviderChanges \/ LimitsArrive

\* A thread of the executor goes on with its collection; nothing else is promised.
Fairness == \A w \in Workers : WF_datasetVars(Executes(w))

DatasetSpec == DatasetInit /\ [][DatasetNext]_datasetVars /\ Fairness

-----------------------------------------------------------------------------
\* A snapshot that calls itself settled is made of final data of its day: the
\* plans read the clock once, before they ask, and a source of the current
\* session is asked only when that reading says settled. Left out are the limits
\* union, which takes the clock after its two sources, and the indices a core
\* snapshot retains, which may be of the morning.
SettledIsFinal ==
    \A k \in Keys : LET s == stored[k] IN
        s # None /\ k[1] \notin Ths =>
            IF k[1] = "core"
            THEN /\ \A i \in DOMAIN s.data.indices : s.data.indices[i].day = k[2]
                 /\ s.data.settled => \A i \in s.data.fresh : s.data.indices[i].final
            ELSE /\ s.data.day = k[2]
                 /\ s.data.settled /\ s.data.source # "union" => s.data.final

\* No collection overwrites a snapshot that was written after it took the key's
\* lease: that of the previous day included, which may run out while the
\* collection of the current day goes on and somebody else collects that day.
NothingIsOverwrittenUnseen ==
    [][\A k \in Keys : stored'[k] # stored[k] => stored'[k].base = StoredId(k)]_datasetVars

\* A core snapshot never loses an index, and an index that was stored final is
\* never replaced by one of the session still under way: a source that fails
\* later leaves the stored payload in place.
CoreKeepsItsIndices ==
    [][\A k \in Keys : k[1] = "core" /\ stored[k] # None =>
          \A i \in DOMAIN stored[k].data.indices :
             /\ i \in DOMAIN stored'[k].data.indices
             /\ stored[k].data.indices[i].final => stored'[k].data.indices[i].final]_datasetVars

\* The snapshots of the THS datasets are what the normalized tables say of their
\* revision, whichever revision the provider came back to, whatever was collected
\* in between, and however late the limits of the day arrived; and a breadth
\* snapshot stands on rankings of its own revision.
SnapshotsMatchFacts ==
    Ranked =>
        LET ranking == SnapshotOf("industry-ranking")
            turnover == SnapshotOf("sector-turnover")
            breadth == SnapshotOf("sector-breadth")
        IN  /\ \A s \in {ranking, turnover, breadth} \ {None} :
                  /\ s.data.revision \in DOMAIN facts.rankings
                  /\ facts.rankings[s.data.revision] = s.data.value
            /\ breadth # None /\ breadth.data.value \notin Thin =>
                  facts.breadth[breadth.data.revision] = breadth.data.limits

\* No thread keeps a lease, not that of a previous day and not when the collection
\* under it fails, and none waits for the lease of another.
LeasesComeFree == \A w \in Workers : []<>(\A k \in Keys : lease[k] # w)
=============================================================================
