----------------------------- MODULE MarketStore -----------------------------
(***************************************************************************)
(* The dashboard's market store (stores/market.ts, market-v2-api.ts): what *)
(* the browser shows of one date, while responses of the legacy API and of *)
(* the versioned one arrive in any order.                                  *)
(*                                                                         *)
(* JavaScript runs to its next await, so an action is what happens between *)
(* two of them: one response arrives and everything up to the next request *)
(* is done.  A response tells the state of the server at some moment       *)
(* between the request and its arrival.                                    *)
(*                                                                         *)
(* A stamp <<d, n>> is the n-th revision of date d: the snapshotRevision   *)
(* requests are pinned to, and the origin of a piece of evidence.          *)
(***************************************************************************)
EXTENDS Integers, FiniteSets

CONSTANTS
    Date,
    Effective,      \* Effective[d]: the trading date the legacy API answers for d
    Today,          \* getDefaultMarketDate
    Resource,       \* v2 resources, each with its legacy section
    SectionOf,
    Pinned,         \* Pinned[r]: the parts r reads at once with readPinned
    Paged,          \* Paged[r]: the part it reads page by page, or Nothing
    Group,          \* the resource whose pages are read after it: "breadth"
    Call,           \* bound: loads under way
    Nothing,
    MaxStarts,      \* bound: loads that are started
    MaxChanges,     \* bound: changes of the date
    MaxPublish      \* bound: revisions published meanwhile

Section == {SectionOf[r] : r \in Resource}
Parts(r) == Pinned[r] \union ({Paged[r]} \ {Nothing})
Part == UNION {Parts(r) : r \in Resource}
PartsOf(sections) == UNION {Parts(r) : r \in {x \in Resource : SectionOf[x] \in sections}}
Stamp == Date \X (0 .. MaxPublish)

VARIABLES
    store,          \* the reactive state
    latest,         \* the call whose number is coreSequence, and those of the sections
    call,           \* call[c]: where a load is
    reads,          \* requests of readPinned; one without a call was left behind
    published,      \* published[d]: the server's revision of d
    crossed,        \* history: the date was changed under a request it leaves valid
    chosen,         \* history: the date the reader last chose
    used            \* how much of the bounds has been used

marketVars == <<store, latest, call, reads, published, crossed, chosen, used>>

Phase == {"idle", "loading", "ready", "refreshing", "error"}
Shown == [asOf : Date, part : [Part -> Stamp \union {Nothing}]]
Bare(d) == [asOf |-> d, part |-> [p \in Part |-> Nothing]]

(* A trading date is answered by itself; Nothing is none of what it stands *)
(* for the absence of.                                                     *)
ASSUME MarketAssumption ==
    /\ Today \in Date /\ Effective \in [Date -> Date]
    /\ \A d \in Date : Effective[Effective[d]] = Effective[d]
    /\ \A r \in Resource : Parts(r) # {}
    /\ Group \in Resource /\ Paged[Group] # Nothing /\ Pinned[Group] # {}
    /\ {MaxStarts, MaxChanges, MaxPublish} \subseteq Nat
    /\ Nothing \notin Date \union Call \union Stamp \union Shown

(* lost: history; a restart of the breadth group was broken off, and no    *)
(* request for its history or restart has begun since.                     *)
Store == [selected : Date, mode : {"unknown", "v2", "legacy"},
          revision : Stamp \union {Nothing}, shown : Shown \union {Nothing},
          loading : BOOLEAN, failed : BOOLEAN,
          loaded : SUBSET Resource, phase : [Resource -> Phase], history : Phase, lost : BOOLEAN,
          sections : SUBSET Section, sectionPhase : [Section -> Phase],
          coreDate : Date \union {Nothing}]

(* date, since, rev: the request awaited; since is the server's revision   *)
(* when it was sent, rev the one it is pinned to.                          *)
CallState ==
    [pc : {"free", "shell", "core", "section", "pinned", "page", "restart",
           "repage", "group"},
     of : Resource \union Section \union {Nothing},
     date : Date \union {Nothing}, since : 0 .. MaxPublish,
     rev : Stamp \union {Nothing},
     force : BOOLEAN,           \* shell: forced; history: only a retry of it
     restart : BOOLEAN,         \* history: the group may be restarted
     got : SUBSET (Part \X Stamp),
     before : Shown \union {Nothing}, kept : SUBSET Section,
     after : {"nothing", "shell", "section"}]

Free == [pc |-> "free", of |-> Nothing, date |-> Nothing, since |-> 0,
         rev |-> Nothing, force |-> FALSE, restart |-> FALSE, got |-> {},
         before |-> Nothing, kept |-> {}, after |-> "nothing"]

MarketTypeOK ==
    /\ store \in Store
    /\ latest \in [core : Call \union {Nothing}, section : [Section -> Call \union {Nothing}]]
    /\ call \in [Call -> CallState]
    /\ reads \subseteq [call : Call \union {Nothing}, part : Part,
                        stage : {"first", "overview", "second"}, path : Date,
                        date : Date, since : 0 .. MaxPublish, rev : Stamp \union {Nothing}]
    /\ published \in [Date -> 0 .. MaxPublish]
    /\ crossed \in BOOLEAN /\ chosen \in Date

NoPhases == [r \in Resource |-> "idle"]
NoSectionPhases == [s \in Section |-> "idle"]

MarketInit ==
    /\ store = [selected |-> Today, mode |-> "unknown", revision |-> Nothing,
                shown |-> Nothing, loading |-> FALSE, failed |-> FALSE,
                loaded |-> {}, phase |-> NoPhases, history |-> "idle", lost |-> FALSE,
                sections |-> {}, sectionPhase |-> NoSectionPhases, coreDate |-> Nothing]
    /\ latest = [core |-> Nothing, section |-> [s \in Section |-> Nothing]]
    /\ call = [c \in Call |-> Free]
    /\ reads = {}
    /\ published = [d \in Date |-> 0]
    /\ crossed = FALSE /\ chosen = Today
    /\ used = [starts |-> 0, changes |-> 0]

-----------------------------------------------------------------------------
(* Requests and answers of the versioned API: only trading dates exist,    *)
(* and a request pinned to another revision is a conflict (HTTP 409).      *)

Answerable(q, n) == n \in q.since .. published[q.date] /\ Effective[q.date] = q.date
Reads(q, n) == Answerable(q, n) /\ q.rev \in {Nothing, <<q.date, n>>}
Conflicts(q) == \E n \in 0 .. MaxPublish : Answerable(q, n) /\ ~ Reads(q, n)

Ask(state, d, rev) == [state EXCEPT !.date = d, !.since = published[d], !.rev = rev]

CallAt(c, pc) == call[c].pc = pc
Becomes(c, state) == call' = [call EXCEPT ![c] = state]
Ends(c) == Becomes(c, Free)

Evidence(s, stamps) ==
    IF s.shown = Nothing THEN s
    ELSE [s EXCEPT !.shown.part = [p \in Part |->
            IF \E x \in stamps : x[1] = p THEN (CHOOSE x \in stamps : x[1] = p)[2] ELSE @[p]]]

(* responseFromOverview, with the revision it is read at *)
Overview(s, d, n) == [s EXCEPT !.revision = <<d, n>>, !.shown = Bare(d)]

Unloaded(s) == [s EXCEPT !.loaded = {}, !.phase = NoPhases, !.sections = {}]

-----------------------------------------------------------------------------
(* loadSection, as it goes on in call c when the store is s *)

Spinner(again) == IF again THEN "refreshing" ELSE "loading"

GoOnToSection(c, s, section, force) ==
    LET open == s.coreDate # Nothing /\ ~ s.loading /\ s.shown # Nothing
                    /\ s.selected = s.coreDate
        known == ~ force /\ section \in s.sections IN
    \/ /\ open /\ ~ known
       /\ store' = [s EXCEPT !.sectionPhase[section] = Spinner(section \in s.sections)]
       /\ Becomes(c, Ask([Free EXCEPT !.pc = "section", !.of = section], s.coreDate, Nothing))
       /\ latest' = [latest EXCEPT !.section[section] = c]
    \/ /\ ~ (open /\ ~ known)
       /\ store' = IF open /\ s.sectionPhase[section] = "idle"
                   THEN [s EXCEPT !.sectionPhase[section] = "ready"] ELSE s
       /\ Ends(c) /\ UNCHANGED latest

Merge(s, c, more) ==
    LET new == {<<p, <<call[c].date, published[call[c].date]>>>> :
                    p \in PartsOf({call[c].of} \union more)} IN
    [Evidence(s, new) EXCEPT !.sections = @ \union {call[c].of} \union more,
                             !.sectionPhase[call[c].of] = "ready"]

(* Mutant: the number of the request is not compared. *)
CurrentAnyway(c) == TRUE
CurrentSection(c) ==
    /\ latest.section[call[c].of] = c
    /\ call[c].date = store.coreDate

(* The answer may bring evidence of other sections too. *)
SectionArrives(c) ==
    /\ CallAt(c, "section")
    /\ \/ ~ CurrentSection(c) /\ UNCHANGED store
       \/ /\ CurrentSection(c) /\ store.shown # Nothing
          /\ IF store.shown.asOf = call[c].date
             THEN \E more \in SUBSET Section : store' = Merge(store, c, more)
             ELSE store' = [store EXCEPT !.sectionPhase[call[c].of] = "error"]
       \/ CurrentSection(c) /\ store.shown = Nothing /\ UNCHANGED store
       \/ CurrentSection(c) /\ store' = [store EXCEPT !.sectionPhase[call[c].of] = "error"]
    /\ Ends(c)
    /\ UNCHANGED <<latest, reads, published, crossed, chosen, used>>

-----------------------------------------------------------------------------
(* loadCore, as it goes on in call c when the store is s.  A new number of *)
(* the core request makes the earlier ones, and all section requests, old. *)

(* Mutant: section phases are left as they are. *)
PhasesKept(s, same) == s.sectionPhase

PhasesAnew(s, same) ==
    [x \in Section |-> IF same /\ x \in s.sections THEN "ready" ELSE "idle"]

GoOnToCore(c, s, resource, after) ==
    LET same == s.shown # Nothing /\ s.shown.asOf = s.selected IN
    /\ store' = [s EXCEPT
            !.shown = IF same THEN @ ELSE Nothing,
            !.sections = IF same THEN @ ELSE {},
            !.sectionPhase = PhasesAnew(s, same),
            !.coreDate = IF same THEN @ ELSE Nothing,
            !.loading = TRUE, !.failed = FALSE]
    /\ Becomes(c, Ask([Free EXCEPT !.pc = "core", !.of = resource, !.after = after,
                          !.before = s.shown, !.kept = s.sections], s.selected, Nothing))
    /\ latest' = [core |-> c, section |-> [x \in Section |-> Nothing]]

(* Mutant: evidence is kept whatever date it is of. *)
RetainAnyDate(c, d) ==
    LET b == call[c].before IN
    [asOf |-> d, part |-> [p \in Part |->
        IF b # Nothing /\ p \in PartsOf(call[c].kept) THEN b.part[p] ELSE Nothing]]

(* retainLoadedChapterEvidence *)
Retain(c, d) ==
    LET b == call[c].before IN
    [asOf |-> d, part |-> [p \in Part |->
        IF b # Nothing /\ b.asOf = d /\ p \in PartsOf(call[c].kept) THEN b.part[p] ELSE Nothing]]

AfterCore(c, s) ==
    CASE call[c].after = "section" -> GoOnToSection(c, s, SectionOf[call[c].of], FALSE)
      [] call[c].after = "shell" ->
            store' = [s EXCEPT !.loading = FALSE] /\ Ends(c) /\ UNCHANGED latest
      [] OTHER -> store' = s /\ Ends(c) /\ UNCHANGED latest

CurrentCore(c) == latest.core = c

CoreArrives(c) ==
    /\ CallAt(c, "core")
    /\ LET d == Effective[call[c].date] IN
       \/ ~ CurrentCore(c) /\ AfterCore(c, store)
       \/ /\ CurrentCore(c)
          /\ AfterCore(c, [store EXCEPT !.shown = Retain(c, d), !.selected = d,
                                        !.coreDate = d, !.loading = FALSE])
       \/ /\ CurrentCore(c)
          /\ AfterCore(c, [store EXCEPT !.failed = TRUE, !.loading = FALSE])
    /\ UNCHANGED <<reads, published, crossed, chosen, used>>

-----------------------------------------------------------------------------
(* loadDashboardShell *)

GoOnToShell(c, s, force) ==
    /\ store' = [s EXCEPT !.loading = TRUE, !.failed = FALSE]
    /\ Becomes(c, Ask([Free EXCEPT !.pc = "shell", !.force = force], s.selected, Nothing))
    /\ UNCHANGED latest

ShellArrives(c) ==
    /\ CallAt(c, "shell")
    /\ \/ \E n \in 0 .. MaxPublish :
            /\ Reads(call[c], n)
            /\ LET d == call[c].date
                   s == Overview(store, d, n)
                   t == IF call[c].force THEN [Unloaded(s) EXCEPT !.history = "idle"] ELSE s IN
               store' = [t EXCEPT !.mode = "v2", !.coreDate = d, !.selected = d,
                                  !.loading = FALSE]
              /\ Ends(c) /\ UNCHANGED latest
       \/ /\ store' = [store EXCEPT !.mode = "v2", !.revision = Nothing, !.shown = Nothing,
                                    !.failed = TRUE, !.loading = FALSE]
          /\ Ends(c) /\ UNCHANGED latest
       \/ GoOnToCore(c, [store EXCEPT !.mode = "legacy"], Nothing, "shell")
    /\ UNCHANGED <<reads, published, crossed, chosen, used>>

-----------------------------------------------------------------------------
(* loadV2Resource: parts read with readPinned, parts read page by page *)

(* The load of resource r fails: the store falls back to the legacy API.   *)
Abandoned(c, rest) == {[q EXCEPT !.call = Nothing] : q \in {x \in rest : x.call = c}}
                        \union {x \in rest : x.call # c}

Reject(c, s) ==
    LET r == call[c].of IN
    GoOnToCore(c, [s EXCEPT !.phase[r] = "error", !.mode = "legacy"], r, "section")

(* Where restartBreadthGroup does not come to the history it has announced *)
Restarting(state) == state.of = Group /\ (state.pc = "group" \/ ~ state.restart)
BrokenOff(s, state) == [s EXCEPT !.lost = @ \/ Restarting(state)]

(* What is read of the group is no snapshot (snapshot_integrity_error).    *)
DropGroup(c, s) ==
    /\ store' = Evidence([s EXCEPT !.phase[Group] = "error"],
                         {<<p, Nothing>> : p \in Parts(Group)})
    /\ Ends(c) /\ UNCHANGED latest

(* A page after page read of the current date, pinned to what is pinned    *)
GoOnToPages(c, s, state) ==
    /\ Becomes(c, Ask([state EXCEPT !.pc = "page", !.got = {}], s.selected, s.revision))
    /\ UNCHANGED latest

(* loadBreadthHistory *)
GoOnToHistory(c, s, state) ==
    IF s.mode = "v2" /\ s.shown # Nothing /\ s.revision # Nothing
    THEN /\ store' = [s EXCEPT !.history = Spinner(s.shown.part[Paged[Group]] # Nothing),
                               !.lost = FALSE]
         /\ GoOnToPages(c, s, state)
    ELSE store' = BrokenOff(s, state) /\ Ends(c) /\ UNCHANGED latest

PinnedReads(c, s, r) ==
    {[call |-> c, part |-> p, stage |-> "first", path |-> s.selected, date |-> s.selected,
      since |-> published[s.selected], rev |-> s.revision] : p \in Pinned[r]}

Loaded(s, r) ==
    [s EXCEPT !.loaded = @ \union {r}, !.phase[r] = "ready",
              !.sections = @ \union {SectionOf[r]}]

(* The last of the parts has come: all of them are shown at once. *)
Commit(c, got) ==
    LET r == call[c].of
        s == Loaded(Evidence(store, got), r) IN
    IF r = Group THEN GoOnToHistory(c, s, call[c])
    ELSE IF Paged[r] = Nothing THEN store' = s /\ Ends(c) /\ UNCHANGED latest
    ELSE IF s.shown # Nothing /\ s.revision # Nothing /\ s.mode = "v2"
    THEN store' = s /\ GoOnToPages(c, s, call[c])
    ELSE store' = s /\ Ends(c) /\ UNCHANGED latest

ReadArrives(q, n) ==
    /\ q.stage # "overview" /\ Reads(q, n)
    /\ reads' = reads \ {q}
    /\ IF q.call = Nothing THEN UNCHANGED <<store, call, latest>>
       ELSE LET got == call[q.call].got \union {<<q.part, <<q.date, n>>>>} IN
            IF \E x \in reads \ {q} : x.call = q.call
            THEN Becomes(q.call, [call[q.call] EXCEPT !.got = got]) /\ UNCHANGED <<store, latest>>
            ELSE Commit(q.call, got)

(* A conflict: overview of the date that is selected by now *)
ReadConflicts(q) ==
    /\ q.stage = "first" /\ Conflicts(q)
    /\ reads' = (reads \ {q}) \union
            {[q EXCEPT !.stage = "overview", !.date = store.selected,
                       !.since = published[store.selected], !.rev = Nothing]}
    /\ UNCHANGED <<store, call, latest>>

OverviewArrives(q, n) ==
    /\ q.stage = "overview" /\ Reads(q, n)
    /\ store' = Overview(store, q.date, n)
    /\ reads' = (reads \ {q}) \union
            {[q EXCEPT !.stage = "second", !.date = q.path, !.since = published[q.path],
                       !.rev = <<q.date, n>>]}
    /\ UNCHANGED <<call, latest>>

(* What loadV2Resource awaits fails; when a history is only read again,    *)
(* nobody handles the failure of its group.                                *)
LoadFails(c) ==
    LET s == BrokenOff(store, call[c]) IN
    IF call[c].force THEN store' = s /\ Ends(c) /\ UNCHANGED latest
    ELSE \/ Reject(c, s)
         \/ call[c].of = Group /\ DropGroup(c, s)

(* Not answered, or a second conflict                                      *)
ReadFails(q) ==
    /\ reads' = Abandoned(q.call, reads \ {q})
    /\ IF q.call = Nothing THEN UNCHANGED <<store, call, latest>>
       ELSE LoadFails(q.call)

ReadReturns(q) ==
    /\ \/ \E n \in 0 .. MaxPublish : ReadArrives(q, n) \/ OverviewArrives(q, n)
       \/ ReadConflicts(q)
       \/ ReadFails(q)
    /\ UNCHANGED <<published, crossed, chosen, used>>

(* fetchV2CollectionWithOverviewRestart, and loadBreadthHistory's request *)
PagesArrive(c, n) ==
    /\ call[c].pc \in {"page", "repage"} /\ Reads(call[c], n)
    /\ LET r == call[c].of
           s == Evidence(IF CallAt(c, "repage") THEN [store EXCEPT !.revision = call[c].rev]
                         ELSE store, {<<Paged[r], <<call[c].date, n>>>>}) IN
       store' = IF r = Group THEN [s EXCEPT !.history = "ready"] ELSE Loaded(s, r)
    /\ Ends(c) /\ UNCHANGED <<latest, reads>>

PagesConflict(c) ==
    /\ CallAt(c, "page") /\ Conflicts(call[c])
    /\ call[c].of = Group => call[c].restart
    /\ Becomes(c, IF call[c].of = Group
                  THEN Ask([call[c] EXCEPT !.pc = "group"], store.selected, Nothing)
                  ELSE Ask([call[c] EXCEPT !.pc = "restart"], call[c].date, Nothing))
    /\ UNCHANGED <<store, latest, reads>>

RestartArrives(c, n) ==
    /\ CallAt(c, "restart") /\ Reads(call[c], n)
    /\ Becomes(c, Ask([call[c] EXCEPT !.pc = "repage"], call[c].date, <<call[c].date, n>>))
    /\ UNCHANGED <<store, latest, reads>>

(* restartBreadthGroup *)
RestartGroup(s, d, n) ==
    [Unloaded(Overview(s, d, n)) EXCEPT !.history = "loading", !.lost = FALSE]

GroupArrives(c, n) ==
    /\ CallAt(c, "group") /\ Reads(call[c], n)
    /\ LET s == RestartGroup(store, call[c].date, n) IN
       /\ store' = s
       /\ reads' = reads \union PinnedReads(c, s, Group)
    /\ Becomes(c, [call[c] EXCEPT !.pc = "pinned", !.restart = FALSE, !.got = {}])
    /\ UNCHANGED latest

PagesFail(c) ==
    /\ call[c].pc \in {"page", "repage", "restart", "group"}
    /\ IF call[c].of = Group /\ CallAt(c, "page")
       THEN store' = [store EXCEPT !.history = "error"] /\ Ends(c) /\ UNCHANGED latest
       ELSE LoadFails(c)
    /\ UNCHANGED reads

Turn(c) ==
    /\ \/ \E n \in 0 .. MaxPublish :
            PagesArrive(c, n) \/ RestartArrives(c, n) \/ GroupArrives(c, n)
       \/ PagesConflict(c)
       \/ PagesFail(c)
    /\ UNCHANGED <<published, crossed, chosen, used>>

-----------------------------------------------------------------------------
(* The reader of the dashboard: pages are opened, refreshed, retried.      *)

Start(c) ==
    /\ CallAt(c, "free") /\ used.starts < MaxStarts
    /\ used' = [used EXCEPT !.starts = @ + 1]

(* The router guard, on a store without data *)
OpenDashboard(c) ==
    /\ Start(c) /\ store.shown = Nothing
    /\ GoOnToShell(c, store, FALSE)
    /\ UNCHANGED <<reads, published, crossed, chosen>>

(* reloadCore; the refresh button of the top bar is always loadCore. *)
Reload(c) ==
    /\ Start(c) /\ store.mode = "v2"
    /\ GoOnToShell(c, store, TRUE)
    /\ UNCHANGED <<reads, published, crossed, chosen>>

RefreshTopbar(c) ==
    /\ Start(c) /\ ~ store.loading
    /\ GoOnToCore(c, store, Nothing, "nothing")
    /\ UNCHANGED <<reads, published, crossed, chosen>>

OpenPage(c, r, force) ==
    /\ Start(c) /\ store.mode = "v2" /\ store.shown # Nothing
    /\ force \/ r \notin store.loaded
    /\ LET s == [store EXCEPT !.phase[r] = Spinner(@ = "ready")]
           state == [Free EXCEPT !.of = r, !.restart = (r = Group)] IN
       /\ store' = s
       /\ IF Pinned[r] = {} THEN GoOnToPages(c, s, state) /\ UNCHANGED reads
          ELSE /\ Becomes(c, [state EXCEPT !.pc = "pinned"])
               /\ reads' = reads \union PinnedReads(c, s, r)
               /\ UNCHANGED latest
    /\ UNCHANGED <<published, crossed, chosen>>

OpenSection(c, section, force) ==
    /\ Start(c) /\ store.mode # "v2"
    /\ GoOnToSection(c, store, section, force)
    /\ UNCHANGED <<reads, published, crossed, chosen>>

RetryHistory(c) ==
    /\ Start(c) /\ store.mode = "v2" /\ store.shown # Nothing /\ store.revision # Nothing
    /\ GoOnToHistory(c, store, [Free EXCEPT !.of = Group, !.force = TRUE, !.restart = TRUE])
    /\ UNCHANGED <<reads, published, crossed, chosen>>

(* Requests that setDate does not make old: those of v2, and, as it makes  *)
(* no loadCore in v2 mode, a loadCore that is under way.                   *)
Crossing ==
    \/ reads # {}
    \/ \E c \in Call : call[c].pc \notin {"free", "section"} /\ (CallAt(c, "core") => store.mode = "v2")

Forget(s) == [Unloaded(s) EXCEPT !.shown = Nothing, !.revision = Nothing, !.history = "idle"]

SetDate(c, d) ==
    /\ CallAt(c, "free") /\ ~ store.loading /\ d # store.selected
    /\ used.starts < MaxStarts /\ used.changes < MaxChanges
    /\ used' = [starts |-> used.starts + 1, changes |-> used.changes + 1]
    /\ IF store.mode = "v2" THEN GoOnToShell(c, [Forget(store) EXCEPT !.selected = d], FALSE)
       ELSE GoOnToCore(c, [store EXCEPT !.selected = d], Nothing, "nothing")
    /\ crossed' = (crossed \/ Crossing)
    /\ chosen' = d
    /\ UNCHANGED <<reads, published>>

Publish(d) ==
    /\ published[d] < MaxPublish
    /\ published' = [published EXCEPT ![d] = @ + 1]
    /\ UNCHANGED <<store, latest, call, reads, crossed, chosen, used>>

MarketNext ==
    \/ \E c \in Call :
          \/ SectionArrives(c) \/ CoreArrives(c) \/ ShellArrives(c) \/ Turn(c)
          \/ OpenDashboard(c) \/ Reload(c) \/ RefreshTopbar(c) \/ RetryHistory(c)
          \/ \E r \in Resource, force \in BOOLEAN : OpenPage(c, r, force)
          \/ \E s \in Section, force \in BOOLEAN : OpenSection(c, s, force)
          \/ \E d \in Date : SetDate(c, d)
    \/ \E q \in reads : ReadReturns(q)
    \/ \E d \in Date : Publish(d)

MarketSpec == MarketInit /\ [][MarketNext]_marketVars

-----------------------------------------------------------------------------
(* Properties *)

(* What is shown as one day is of that day, whatever order legacy answers  *)
(* arrive in and whenever the store falls back to them; v2 answers, which  *)
(* carry no number, break it only when the date is changed under them.     *)
OneDateShown ==
    store.shown # Nothing /\ ~ crossed =>
        \A p \in Part : store.shown.part[p] # Nothing =>
            store.shown.part[p][1] = store.shown.asOf

(* The date in the picker is the reader's, or the trading date it stands   *)
(* for: no late answer puts back another one, unless it crossed.           *)
DateIsTheReaders == ~ crossed => store.selected \in {chosen, Effective[chosen]}

(* Nothing under way, nothing spins: an answer that is dropped because a   *)
(* newer request was made does not leave its spinner behind.  Only the     *)
(* breadth history may, when restartBreadthGroup has announced it anew and *)
(* failed, or found the store in legacy mode (README, Disagreements).      *)
QuietMeansSettled ==
    (\A c \in Call : CallAt(c, "free")) /\ reads = {} =>
        /\ ~ store.loading
        /\ \A r \in Resource : store.phase[r] \notin {"loading", "refreshing"}
        /\ store.mode # "v2" =>
              \A s \in Section : store.sectionPhase[s] \notin {"loading", "refreshing"}
        /\ store.history \in {"loading", "refreshing"} => store.lost

(* docs/architecture.md: an old breadth summary is never merged with a new *)
(* history.  Not so in the code: README, Disagreements.                    *)
BreadthIsOneRevision ==
    store.shown # Nothing =>
        \A p \in Pinned[Group] :
            Nothing \notin {store.shown.part[p], store.shown.part[Paged[Group]]} =>
                store.shown.part[p] = store.shown.part[Paged[Group]]
=============================================================================
