---------------------------- MODULE ThsDatasets ----------------------------
(***************************************************************************)
(* The three daily THS datasets (infrastructure/collection/                *)
(* ths_datasets.py): industry-ranking observes the provider's catalog and  *)
(* values, sector-turnover and sector-breadth derive from what is stored.  *)
(*                                                                         *)
(* A catalog revision is named by its content, so the provider may come    *)
(* back to one. Rankings, bars and breadth rows are immutable facts of     *)
(* their revision: a second write of the same fact is identical or a       *)
(* conflict, which fails the whole commit. The order of the revisions of a *)
(* day is that of their first observation, which later ones do not change. *)
(***************************************************************************)
EXTENDS Acquisition

CONSTANTS
    Catalogs,   \* contents the provider's catalog may have on the day
    Values,     \* contents the provider's values may have on the day
    Thin        \* the values that rank too few codes for a selection

VARIABLES
    provider,   \* the catalog and values the provider shows
    facts,      \* the normalized tables: revisions, rankings with bars, breadth rows
    limitsSeen  \* the version of the day's complete limits detail, 0 while there is none

thsVars == <<provider, facts, limitsSeen>>

ThsSources == [i \in {"industry-ranking", "sector-turnover", "sector-breadth"} |->
                 CASE i = "industry-ranking" -> <<"bundle">>
                   [] i = "sector-turnover"  -> <<"rankings", "ranking-snapshot", "bars">>
                   [] i = "sector-breadth"   -> <<"rankings", "ranking-snapshot",
                                                  "turnover-snapshot", "limits">>]

ThsInit(values) ==
    /\ provider \in [catalog: {CHOOSE c \in Catalogs : TRUE}, value: values]
    /\ facts = [revisions |-> <<>>, rankings |-> [r \in {} |-> None],
                breadth |-> [r \in {} |-> None]]
    /\ limitsSeen = 0

-----------------------------------------------------------------------------
\* What a collector reads, one committed state after the other.

\* list_rankings: those of the revision observed last, by its first observation.
SelectedRevision ==
    LET ranked == {n \in DOMAIN facts.revisions : facts.revisions[n] \in DOMAIN facts.rankings}
    IN  IF ranked = {} THEN None
        ELSE facts.revisions[CHOOSE n \in ranked : \A m \in ranked : m <= n]

Put(f, key, value) == [k \in DOMAIN f \cup {key} |-> IF k = key THEN value ELSE f[k]]

\* A fact may be written again only as it is.
Conflicts(f, key, value) == key \in DOMAIN f /\ f[key] # value

\* A bug: rankings written over what the revision has.
RankingNeverConflicts(draft) == FALSE

\* The ranking commit: the revision keeps its place if it was seen before.
RankingConflicts(draft) == Conflicts(facts.rankings, draft.revision, draft.value)
WithRanking(draft) ==
    [facts EXCEPT !.revisions = IF Contains(@, draft.revision) THEN @ ELSE Append(@, draft.revision),
                  !.rankings = Put(@, draft.revision, draft.value)]

\* The breadth commit: rows only if there are enough rankable codes.
BreadthConflicts(draft) ==
    draft.value \notin Thin /\ Conflicts(facts.breadth, draft.revision, draft.limits)
WithBreadth(draft) ==
    IF draft.value \in Thin THEN facts
    ELSE [facts EXCEPT !.breadth = Put(@, draft.revision, draft.limits)]
=============================================================================
