---------------------------- MODULE LimitEcosystem ----------------------------
(***************************************************************************)
(* The limit ecosystem of a date: LimitEcosystemComposer.compose, called   *)
(* by every thread that composes a market environment, over a cache that   *)
(* the threads share without a lock.                                       *)
(*                                                                         *)
(* An answer is built from the limits evidence of the date and of up to    *)
(* 250 previous sessions, read one statement at a time, and cached under   *)
(* the payload it was asked for and the revision read before the build.    *)
(* The revision is two statements as well, and covers the date and its     *)
(* previous session only.                                                  *)
(***************************************************************************)
EXTENDS Integers, SequencesExt

CONSTANTS
    Date,           \* 1 is the date composed for, d + 1 the session before d
    Covered,        \* dates whose limits rows the revision covers
    Reads,          \* the dates build_limit_ecosystem reads, in order
    Chain,          \* positions of _history_chain in Reads
    Value,          \* contents of the evidence of a date
    Missing,        \* no evidence for a date
    Cut,            \* not read: the chain has ended before
    Stored,         \* the contents of the store to begin with
    Thread,         \* threads that compose
    MaxEntries,     \* max_cache_entries
    MaxWrites       \* bound: commits of evidence

ASSUME EcosystemAssumption ==
    /\ 1 \in Covered /\ Covered \subseteq Date
    /\ Reads \in Seq(Date) /\ Reads # <<>> /\ Chain \subseteq DOMAIN Reads
    /\ Missing \notin Value /\ Cut \notin Value \union {Missing}
    /\ Stored \subseteq [Date -> Value \union {Missing}]
    /\ IsFiniteSet(Thread)
    /\ MaxEntries \in Nat \ {0} /\ MaxWrites \in Nat

VARIABLES
    content,        \* content[d]: the evidence of d
    version,        \* version[d]: its materialization_component_versions row
    cache,          \* the composer's dict, in the order of insertion
    call,           \* call[t]: the compose in progress on thread t
    recent,         \* history: what d has held since a covered date changed
    failed,         \* history: how many evictions have raised
    writes          \* commits so far

vars == <<content, version, cache, call, recent, failed, writes>>

Contents == Value \union {Missing}

(* Mutant: the rows alone, without the versions their triggers count up. *)
RevisionOfRows(rows, versions) == [rows |-> rows, versions |-> [d \in Covered |-> 0]]

(* _materialization_revision: a checksum over both; what matters is when   *)
(* two are equal.                                                          *)
Revision(rows, versions) == [rows |-> rows, versions |-> versions]

CoveredPart(f) == [d \in Covered |-> f[d]]
Current == Revision(CoveredPart(content), CoveredPart(version))

(* payload, rows, versions: the cache key.  made: what the build has read. *)
(* size: of the dict when an iteration over it began.  victim: the entry   *)
(* about to be evicted.  quiet: no covered date has changed since the call *)
(* began.                                                                  *)
Idle == [pc |-> "idle", payload |-> Missing, rows |-> <<>>, versions |-> <<>>,
         made |-> <<>>, size |-> 0, victim |-> <<>>, quiet |-> TRUE]

PCs == {"idle", "rows", "versions", "lookup", "build", "put", "check", "iterate",
        "choose", "pop", "answer"}

(* Mutant: the payload is thought to follow from the revision. *)
KeyOfRevision(t) == [payload |-> Missing,
                     revision |-> Revision(call[t].rows, call[t].versions)]

Key(t) == [payload |-> call[t].payload,
           revision |-> Revision(call[t].rows, call[t].versions)]

Keys == [payload : Contents,
         revision : [rows : [Covered -> Contents], versions : [Covered -> Nat]]]
Builds == {s \in Seq(Contents \union {Cut}) : Len(s) <= Len(Reads)}
Stores == [key : Keys, payload : Contents, made : Builds]
Calls == [pc : PCs, payload : Contents, rows : [Covered -> Contents] \union {<<>>},
          versions : [Covered -> Nat] \union {<<>>}, made : Builds, size : Nat,
          victim : Keys \union {<<>>}, quiet : BOOLEAN]

TypeOK ==
    /\ content \in [Date -> Contents]
    /\ version \in [Date -> Nat]
    /\ cache \in Seq(Stores)
    /\ call \in [Thread -> Calls]
    /\ recent \in [Date -> SUBSET Contents] /\ \A d \in Date : content[d] \in recent[d]
    /\ failed \in Nat /\ writes \in 0 .. MaxWrites

Init ==
    /\ content \in Stored
    /\ version = [d \in Date |-> 0]
    /\ cache = <<>>
    /\ call = [t \in Thread |-> Idle]
    /\ recent = [d \in Date |-> {content[d]}]
    /\ failed = 0 /\ writes = 0

-----------------------------------------------------------------------------
(* A collection commits the limits evidence of a date, and the triggers    *)
(* count its version up in the same transaction.                           *)
Commit(d, v) ==
    /\ writes < MaxWrites
    /\ content' = [content EXCEPT ![d] = v]
    /\ version' = [version EXCEPT ![d] = @ + 1]
    /\ recent' = IF d \in Covered THEN [e \in Date |-> {content'[e]}]
                 ELSE [recent EXCEPT ![d] = @ \union {v}]
    /\ call' = IF d \in Covered THEN [t \in Thread |-> [call[t] EXCEPT !.quiet = FALSE]]
               ELSE call
    /\ writes' = writes + 1
    /\ UNCHANGED <<cache, failed>>

-----------------------------------------------------------------------------
(* LimitEcosystemComposer.compose *)

At(t, pc) == call[t].pc = pc
Continue(t, changed) == call' = [call EXCEPT ![t] = changed]
Goto(t, pc) == Continue(t, [call[t] EXCEPT !.pc = pc])
OnlyCall == UNCHANGED <<content, version, cache, recent, failed, writes>>

(* The caller has read the limits row, and passes it as the payload. *)
Compose(t) ==
    /\ At(t, "idle") /\ content[1] # Missing
    /\ Continue(t, [Idle EXCEPT !.pc = "rows", !.payload = content[1]])
    /\ OnlyCall

ReadRows(t) ==
    /\ At(t, "rows")
    /\ Continue(t, [call[t] EXCEPT !.pc = "versions", !.rows = CoveredPart(content)])
    /\ OnlyCall

ReadVersions(t) ==
    /\ At(t, "versions")
    /\ Continue(t, [call[t] EXCEPT !.pc = "lookup", !.versions = CoveredPart(version)])
    /\ OnlyCall

(* What is left of a call once its answer is made: the answer *)
Made(t, answer) ==
    [Idle EXCEPT !.payload = answer.payload, !.made = answer.made, !.quiet = call[t].quiet]

Entries(key) == {n \in DOMAIN cache : cache[n].key = key}

Hit(t) ==
    /\ At(t, "lookup")
    /\ \E n \in Entries(Key(t)) :
          Continue(t, [Made(t, cache[n]) EXCEPT !.pc = "answer"])
    /\ OnlyCall

Miss(t) == At(t, "lookup") /\ Entries(Key(t)) = {} /\ Goto(t, "build") /\ OnlyCall

Position(t) == Len(call[t].made) + 1

(* _history_chain stops at the first date without evidence. *)
Ended(t) ==
    LET i == Position(t) IN
    {i - 1, i} \subseteq Chain /\ call[t].made[i - 1] \in {Missing, Cut}

Read(t) == IF Ended(t) THEN Cut ELSE content[Reads[Position(t)]]

BuildStep(t) ==
    /\ At(t, "build")
    /\ Continue(t, [call[t] EXCEPT !.made = Append(@, Read(t)),
                                   !.pc = IF Position(t) = Len(Reads) THEN "put" ELSE "build"])
    /\ OnlyCall

(* validate refuses what was built, and nothing is cached. *)
Invalid(t) == At(t, "put") /\ Continue(t, Idle) /\ OnlyCall

Entry(t) == [key |-> Key(t), payload |-> call[t].payload, made |-> call[t].made]

Put(t) ==
    /\ At(t, "put")
    /\ cache' = IF Entries(Key(t)) = {} THEN Append(cache, Entry(t))
                ELSE [n \in DOMAIN cache |-> IF n \in Entries(Key(t)) THEN Entry(t) ELSE cache[n]]
    /\ Continue(t, [Made(t, call[t]) EXCEPT !.pc = "check"])
    /\ UNCHANGED <<content, version, recent, failed, writes>>

Full == Len(cache) > MaxEntries

CheckSize(t) ==
    /\ At(t, "check")
    /\ Goto(t, IF Full THEN "iterate" ELSE "answer")
    /\ OnlyCall

(* iter(self.cache), then next of it *)
Iterate(t) ==
    /\ At(t, "iterate")
    /\ Continue(t, [call[t] EXCEPT !.pc = "choose", !.size = Len(cache)])
    /\ OnlyCall

Undisturbed(t) == cache # <<>> /\ Len(cache) = call[t].size

ChooseVictim(t) ==
    /\ At(t, "choose") /\ Undisturbed(t)
    /\ Continue(t, [call[t] EXCEPT !.pc = "pop", !.victim = cache[1].key])
    /\ OnlyCall

(* An exception leaves compose: no answer, and nothing evicted. *)
Raise(t) ==
    /\ Continue(t, Idle)
    /\ failed' = failed + 1
    /\ UNCHANGED <<content, version, cache, recent, writes>>

(* "dictionary changed size during iteration", or nothing left in it *)
ChooseRaises(t) == At(t, "choose") /\ ~ Undisturbed(t) /\ Raise(t)

Pop(t) ==
    /\ At(t, "pop")
    /\ \E n \in Entries(call[t].victim) : cache' = RemoveAt(cache, n)
    /\ Continue(t, [call[t] EXCEPT !.pc = "answer", !.size = 0, !.victim = <<>>])
    /\ UNCHANGED <<content, version, recent, failed, writes>>

(* Another thread has evicted it: KeyError, and no answer. *)
PopRaises(t) == At(t, "pop") /\ Entries(call[t].victim) = {} /\ Raise(t)

Answer(t) == At(t, "answer") /\ Continue(t, Idle) /\ OnlyCall

Next ==
    \/ \E d \in Date : \E v \in Value : Commit(d, v)
    \/ \E t \in Thread :
          \/ Compose(t) \/ ReadRows(t) \/ ReadVersions(t) \/ Hit(t) \/ Miss(t)
          \/ BuildStep(t) \/ Invalid(t) \/ Put(t)
          \/ CheckSize(t) \/ Iterate(t) \/ ChooseVictim(t) \/ ChooseRaises(t) \/ Pop(t) \/ PopRaises(t) \/ Answer(t)

Spec == Init /\ [][Next]_vars

-----------------------------------------------------------------------------
(* Properties *)

IsRecent(made) == \A i \in DOMAIN made : made[i] \in recent[Reads[i]] \union {Cut}

(* "the limits evidence under a revision": an entry whose revision is the  *)
(* current one holds the covered evidence as it is, though the threads     *)
(* that built it read it one statement at a time between other commits;    *)
(* what it holds of older dates is from since the last covered commit.     *)
CurrentEntriesAreRecent ==
    \A n \in DOMAIN cache : cache[n].key.revision = Current => IsRecent(cache[n].made)

(* A call during which no covered date has changed answers with the        *)
(* evidence of that time, whether it was built or found in the cache; and  *)
(* with a payload of that time.                                            *)
QuietAnswersAreRecent ==
    \A t \in Thread :
        At(t, "answer") /\ call[t].quiet =>
            IsRecent(call[t].made) /\ call[t].payload = content[1]

Inserting == {t \in Thread : call[t].pc \in {"check", "iterate", "choose", "pop"}}

(* The cache stays within its limit, but for the entries being inserted    *)
(* and one more for each eviction that another thread has made raise.      *)
CacheIsBounded == Len(cache) <= MaxEntries + Cardinality(Inserting) + failed
=============================================================================
