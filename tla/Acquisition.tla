---------------------------- MODULE Acquisition ----------------------------
(***************************************************************************)
(* The acquisition plans of breadth, activeDirection, limits and core:     *)
(* which source a plan asks next, which answers it admits and what it      *)
(* makes of them (infrastructure/providers/*_acquisition.py).              *)
(*                                                                         *)
(* One session D and the session before it, P. The clock of the market     *)
(* goes through four phases:                                               *)
(*   0  D before the open, when "latest" data is still of P                *)
(*   1  D before the settlement boundary                                   *)
(*   2  D after it, when the data of D is final                            *)
(*   3  the next calendar day before its open                              *)
(* What a source says is reduced to the day its data is of and to whether  *)
(* that data was final when it was read. A free choice stands for what the *)
(* model does not follow: feature gates read from the database at each     *)
(* use, failures of a provider, and whatever a normaliser may reject.      *)
(***************************************************************************)
EXTENDS Naturals, Sequences, FiniteSets, SequencesExt

CONSTANTS
    IndexOrder,     \* the indices of the core dataset, in the order asked
    None            \* no value

VARIABLE
    phase           \* where the clock of the market stands

P == 1
D == 2
Days == {P, D}
Indices == ToSet(IndexOrder)

Today == IF phase = 3 THEN D + 1 ELSE D

\* A day is settled once it is past, or at the boundary of the day itself.
IsSettled(day) == day < Today \/ (day = Today /\ phase = 2)

\* What the current market shows, and what a source shows that is asked for a day.
LatestSession == [day |-> IF phase = 0 THEN P ELSE D, final |-> phase # 1]
DatedSession(day) == [day |-> day, final |-> day < D \/ phase >= 2]

Reading == [day: Days, final: BOOLEAN]

\* The sources of each plan in their order; core reads what is stored of the
\* day and then asks for one index after the other.
Sources == [breadth         |-> <<"fuyao", "tdx", "eastmoney">>,
            activeDirection |-> <<"primary", "delayed", "derived">>,
            limits          |-> <<"fuyao", "eastmoney", "cross-check">>,
            core            |-> <<"retained">> \o IndexOrder]

\* Sources that only know the current session; the others are asked for a day.
LatestOnly(dataset, source) ==
    \/ dataset = "breadth" /\ source \in {"fuyao", "eastmoney"}
    \/ dataset = "activeDirection"

\* A collection: what it collects, the clock as its plan read it at the start,
\* how far it is and what it has.
Collecting(dataset, day) ==
    [dataset |-> dataset, day |-> day, today |-> Today, settled |-> IsSettled(day),
     step |-> 1, draft |-> None, stopped |-> FALSE]

-----------------------------------------------------------------------------
\* Breadth, active direction and limits: one formal candidate per collection.

\* Whether the plan asks this source at all. The Fuyao gate of breadth and the
\* switch of the TDX packages are free: an attempt may also fail.
Wanted(c, source) ==
    CASE c.dataset = "breadth" -> c.draft = None /\ (source = "tdx" \/ c.day = c.today)
      [] c.dataset = "activeDirection" -> c.draft = None /\ c.day = c.today
      [] c.dataset = "limits" ->
            IF source = "cross-check" THEN c.draft # None /\ c.draft.source = "fuyao"
                                      ELSE c.draft = None /\ ~c.stopped

Shown(c, source) ==
    IF LatestOnly(c.dataset, source) THEN LatestSession ELSE DatedSession(c.day)

\* A bug: a latest-only adapter that answers for its day, settled or not.
AdmitsIntraday(c, source) ==
    /\ LatestOnly(c.dataset, source) => c.day = c.today
    /\ source = "tdx" => DatedSession(c.day).final

\* A latest-only adapter answers for the settled current day alone, by the clock
\* the plan has read; a TDX package exists once its day is final.
Admits(c, source) ==
    /\ LatestOnly(c.dataset, source) => c.day = c.today /\ c.settled
    /\ source = "tdx" => DatedSession(c.day).final

\* The candidate an answer makes. The limits plan reads the clock at each
\* attempt, and once more when it merges the cross-check into a union.
Candidate(c, source) ==
    LET shown == Shown(c, source) IN
    IF source = "cross-check"
    THEN [source |-> "union", day |-> c.day, final |-> c.draft.final /\ shown.final,
          settled |-> IsSettled(c.day)]
    ELSE [source |-> source, day |-> shown.day, final |-> shown.final,
          settled |-> IF c.dataset = "limits" THEN IsSettled(c.day) ELSE c.settled]

\* A failure of Fuyao's limits for want of a key, or for a day outside its
\* calendar, stops the plan; any other failure goes on to the next source.
MayStop(c, source) == c.dataset = "limits" /\ source = "fuyao"

Onward(c) == [c EXCEPT !.step = @ + 1]
Asked(c) == Sources[c.dataset][c.step]

-----------------------------------------------------------------------------
\* Core: each index has its own chain of sources, and what is stored of the day
\* stands in for an index that none of them gives.

\* An index is read from the first source whose history ends at the asked day.
HistoryTail(day) == IF day = P THEN DatedSession(P) ELSE LatestSession

FreshAnswer(reading) == [reading |-> reading, retained |-> FALSE]
RetainedAnswer(reading) == [reading |-> reading, retained |-> TRUE]

\* The same-day snapshot as the retained reader finds it, before any index.
IndicesOf(snapshot) == IF snapshot = None THEN [i \in {} |-> None] ELSE snapshot.data.indices
CoreDraft(snapshot) == [stored |-> IndicesOf(snapshot), indices |-> [i \in {} |-> None]]

WithIndex(draft, i, result) ==
    [draft EXCEPT !.indices = [j \in DOMAIN @ \cup {i} |-> IF j = i THEN result ELSE @[j]]]

\* A bug: an index that no source gives is left out.
WithoutAnswerDropped(draft, i) == draft

\* An index that no source gives keeps its stored payload, if there is one.
WithoutAnswer(draft, i) ==
    IF i \in DOMAIN draft.stored THEN WithIndex(draft, i, RetainedAnswer(draft.stored[i])) ELSE draft

FreshIndices(draft) == {i \in DOMAIN draft.indices : ~draft.indices[i].retained}

\* No index at all is failed-missing; no fresh one is failed-retained, which
\* keeps the stored snapshot; otherwise the snapshot is replaced.
CoreFound(draft) == DOMAIN draft.indices # {}
CoreReplaces(draft) == FreshIndices(draft) # {}
=============================================================================
