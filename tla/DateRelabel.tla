----------------------------- MODULE DateRelabel -----------------------------
(***************************************************************************)
(* "snapshots relabel-date": an operator moves all that is stored under a  *)
(* mislabelled source date to the target date, and may roll the move back  *)
(* from the images kept in date_relabel_audits.  The plan is read in one   *)
(* connection and applied in another, and the collectors go on: those of   *)
(* the source date are the workers of FencedCommit, whose "stored" is the  *)
(* row a table has under the source date.                                  *)
(*                                                                         *)
(* Two kinds of tables: content (snapshots, sessions, limit tables and the *)
(* aggregate) is keyed by its date and is inserted under the new one; run  *)
(* rows (runs, tasks, refresh runs) have ids of their own and are re-dated *)
(* in place.                                                               *)
(***************************************************************************)
EXTENDS FencedCommit, FiniteSets

CONSTANTS
    RunRow,         \* ids of run rows
    Policy,         \* the conflict policies the operator uses
    Nothing,        \* no content
    MaxAudits,      \* bound: relabels that come to an audit row
    MaxTarget       \* bound: collections of the target date

ASSUME RelabelAssumption ==
    /\ Policy \subseteq {"reject", "skip", "overwrite"}
    /\ Nothing \notin {"moved", "own"} \X Nat
    /\ {MaxAudits, MaxTarget} \subseteq Nat

VARIABLES
    target,         \* content of the target date
    collector,      \* the collector of the target date and its lease:
                    \*   "none", "leased", or "overdue" once that has run out
    written,        \* history: collections of the target date so far
    runDate,        \* runDate[k]: the date of run row k, "none" or "gone"
    operator,       \* the relabel or rollback under way
    audits,         \* date_relabel_audits
    collected,      \* history: generation of the content last collected for the
                    \*   source date, or put back there
    later           \* history: the tables in which something was collected for
                    \*   the target date after the newest relabel that was applied

relabelVars == <<target, collector, written, runDate, operator, audits, collected, later>>
allVars == <<vars, relabelVars>>

(* "moved": content of a source generation, re-dated; "own": collected for *)
(* the target date.                                                        *)
Content == ({"moved", "own"} \X (Nat \ {0})) \union {Nothing}
Moved(generation) == IF generation = 0 THEN Nothing ELSE <<"moved", generation>>

Images == [content : Nat, runs : SUBSET RunRow, replaced : Content]
NoImages == [content |-> 0, runs |-> {}, replaced |-> Nothing]

Audit == [status : {"rejected", "applied", "rolled-back"}, images : Images,
          after : Content, afterRuns : SUBSET RunRow]

Operator == [pc : {"idle", "source", "target", "decide", "undo"},
             policy : Policy \union {Nothing}, leased : BOOLEAN,
             images : Images, audit : Nat]
Away == [pc |-> "idle", policy |-> Nothing, leased |-> FALSE,
         images |-> NoImages, audit |-> 0]

RelabelTypeOK ==
    /\ CommitTypeOK
    /\ target \in Content
    /\ collector \in {"none", "leased", "overdue"}
    /\ written \in Nat
    /\ runDate \in [RunRow -> {"none", "source", "target", "gone"}]
    /\ operator \in Operator
    /\ audits \in Seq(Audit)
    /\ collected \in Nat
    /\ later \subseteq {"content", "runs"}

RelabelInit ==
    /\ Init
    /\ target = Nothing
    /\ collector = "none"
    /\ written = 0
    /\ runDate = [k \in RunRow |-> "none"]
    /\ operator = Away
    /\ audits = <<>>
    /\ collected = 0
    /\ later = {}

RunsAt(date) == {k \in RunRow : runDate[k] = date}
Leased == LiveAt(now) \/ collector = "leased"

-----------------------------------------------------------------------------
(* The collectors of the two dates *)

CollectSource ==
    /\ Next
    /\ collected' = IF stored' = stored THEN collected ELSE stored'
    /\ UNCHANGED <<target, collector, written, runDate, operator, audits, later>>

StartRun(k, date) ==
    /\ runDate[k] = "none"
    /\ runDate' = [runDate EXCEPT ![k] = date]
    /\ later' = IF date = "target" THEN later \union {"runs"} ELSE later
    /\ UNCHANGED <<vars, target, collector, written, operator, audits, collected>>

LeaseTarget ==
    /\ collector = "none" /\ written < MaxTarget
    /\ collector' = "leased"
    /\ UNCHANGED <<vars, target, written, runDate, operator, audits, collected, later>>

LapseTarget ==
    /\ collector = "leased"
    /\ collector' = "overdue"
    /\ UNCHANGED <<vars, target, written, runDate, operator, audits, collected, later>>

(* As at the source date, a write that was admitted in time may commit     *)
(* after its lease has run out.                                            *)
WriteTarget ==
    /\ collector # "none"
    /\ written' = written + 1
    /\ target' = <<"own", written'>>
    /\ collector' = "none"
    /\ later' = later \union {"content"}
    /\ UNCHANGED <<vars, runDate, operator, audits, collected>>

LeaveTarget ==
    /\ collector # "none"
    /\ collector' = "none"
    /\ UNCHANGED <<vars, target, written, runDate, operator, audits, collected, later>>

-----------------------------------------------------------------------------
(* relabel_date(apply = True).  _build_plan reads leases, then the source  *)
(* tables, then the target tables; each SELECT sees what is committed.     *)

OnlyOperator ==
    UNCHANGED <<vars, target, collector, written, runDate, audits, collected, later>>

PlanLeases(policy) ==
    /\ operator.pc = "idle" /\ Len(audits) < MaxAudits
    /\ operator' = [Away EXCEPT !.pc = "source", !.policy = policy, !.leased = Leased]
    /\ OnlyOperator

PlanSource ==
    /\ operator.pc = "source"
    /\ operator' = [operator EXCEPT !.pc = "target", !.images.content = stored,
                                    !.images.runs = RunsAt("source")]
    /\ OnlyOperator

(* Only a table that has source rows looks for rows in its way. *)
PlanTarget ==
    /\ operator.pc = "target"
    /\ operator' = [operator EXCEPT !.pc = "decide", !.images.replaced =
                        IF operator.images.content = 0 THEN Nothing ELSE target]
    /\ OnlyOperator

(* A dry run ends with the plan, and so does evidence of a third date or a *)
(* checksum that does not match.                                           *)
EndPlan ==
    /\ operator.pc = "decide"
    /\ operator' = Away
    /\ OnlyOperator

Refused ==
    operator.leased \/ (operator.images.replaced # Nothing /\ operator.policy # "overwrite")

RejectRelabel ==
    /\ operator.pc = "decide" /\ Refused
    /\ audits' = Append(audits, [status |-> "rejected", images |-> operator.images,
                                 after |-> Nothing, afterRuns |-> {}])
    /\ operator' = Away
    /\ UNCHANGED <<vars, target, collector, written, runDate, collected, later>>

(* Mutant: what the plan saw is not compared with what is there. *)
SourceAsItIs == TRUE

SourceIsAsPlanned ==
    /\ operator.images.content = stored
    /\ operator.images.runs = RunsAt("source")

(* A plain INSERT fails on a row in its way; "overwrite" replaces it. *)
Insertable ==
    \/ operator.images.content = 0
    \/ target = Nothing
    \/ operator.policy = "overwrite"

Applicable == ~Leased /\ SourceIsAsPlanned /\ Insertable

(* Under the table locks: no lease is live, no source row has changed; the *)
(* rows move, the source rows go, and the after-image is taken.            *)
ApplyRelabel ==
    /\ operator.pc = "decide" /\ ~Refused
    /\ Applicable
    /\ target' = IF operator.images.content = 0 THEN target
                 ELSE Moved(operator.images.content)
    /\ stored' = 0
    /\ runDate' = [k \in RunRow |->
                    IF k \in operator.images.runs THEN "target" ELSE runDate[k]]
    /\ audits' = Append(audits, [status |-> "applied", images |-> operator.images,
            after |-> target', afterRuns |-> RunsAt("target") \union operator.images.runs])
    /\ later' = {}
    /\ operator' = Away
    /\ UNCHANGED <<leaseVars, admitted, unaudited, collector, written, collected>>

RelabelRaises ==
    /\ operator.pc = "decide" /\ ~Refused
    /\ ~Applicable
    /\ operator' = Away
    /\ OnlyOperator

-----------------------------------------------------------------------------
(* rollback_date_relabel(apply = True) *)

Applied(a) == audits[a].status = "applied"

(* Mutant: an audit that has been rolled back is rolled back again. *)
ReadAnyAudit(a) ==
    /\ operator.pc = "idle"
    /\ operator' = [Away EXCEPT !.pc = "undo", !.audit = a]
    /\ OnlyOperator

ReadAudit(a) ==
    /\ operator.pc = "idle"
    /\ Applied(a)
    /\ operator' = [Away EXCEPT !.pc = "undo", !.audit = a]
    /\ OnlyOperator

(* Mutant: the rows to be deleted are not compared with the after-image. *)
AnyTarget(a) == TRUE

(* A table with no row in the after-image, which has moved none then, is   *)
(* not in it, and is not compared.                                         *)
TargetIsAsLeft(a) ==
    /\ audits[a].after # Nothing => target = audits[a].after
    /\ audits[a].afterRuns # {} => RunsAt("target") = audits[a].afterRuns

(* All target rows of the tables in the after-image are deleted, and the   *)
(* source rows and the rows that were replaced are put back, over whatever *)
(* has been collected for the source date since.                           *)
RollBack ==
    LET a == operator.audit  images == audits[a].images IN
    /\ operator.pc = "undo"
    /\ TargetIsAsLeft(a)
    /\ target' = IF audits[a].after = Nothing THEN target ELSE images.replaced
    /\ stored' = IF images.content = 0 THEN stored ELSE images.content
    /\ collected' = IF images.content = 0 THEN collected ELSE images.content
    /\ runDate' = [k \in RunRow |->
                    IF k \in images.runs THEN "source"
                    ELSE IF audits[a].afterRuns # {} /\ runDate[k] = "target" THEN "gone"
                    ELSE runDate[k]]
    /\ audits' = [audits EXCEPT ![a].status = "rolled-back"]
    /\ operator' = Away
    /\ UNCHANGED <<leaseVars, admitted, unaudited, collector, written, later>>

RollBackRaises ==
    /\ operator.pc = "undo"
    /\ ~TargetIsAsLeft(operator.audit)
    /\ operator' = Away
    /\ OnlyOperator

-----------------------------------------------------------------------------
CollectTarget == LeaseTarget \/ LapseTarget \/ WriteTarget \/ LeaveTarget

Relabel ==
    \/ \E policy \in Policy : PlanLeases(policy)
    \/ PlanSource \/ PlanTarget \/ EndPlan
    \/ RejectRelabel \/ ApplyRelabel \/ RelabelRaises

Undo == (\E a \in DOMAIN audits : ReadAudit(a)) \/ RollBack \/ RollBackRaises

RelabelNext ==
    \/ CollectSource
    \/ \E k \in RunRow, date \in {"source", "target"} : StartRun(k, date)
    \/ CollectTarget
    \/ Relabel
    \/ Undo

RelabelSpec == RelabelInit /\ [][RelabelNext]_allVars

-----------------------------------------------------------------------------
(* Whatever is planned, applied and rolled back, in any order, between the *)
(* writes of the collectors, what was collected last for the source date   *)
(* is there, or an audit that can be rolled back holds it: none is deleted *)
(* that came between the plan and its application.                         *)
CollectedIsThereOrHeld ==
    \/ stored = collected
    \/ /\ stored = 0
       /\ \E a \in DOMAIN audits : Applied(a) /\ audits[a].images.content = collected

(* What has been moved answers to the audits that can be rolled back.      *)
(* Moved content is at the target date only while such an audit holds it,  *)
(* so that none is left there under a move that was taken back; a run row  *)
(* that one holds is not at the source date, and no other holds it, so     *)
(* that no rollback takes away what a later relabel moved.                 *)
MovedAnswersToAudits ==
    /\ \A generation \in 1 .. Len(issued) :
          target = Moved(generation) =>
              \E a \in DOMAIN audits :
                  Applied(a) /\ audits[a].images.content = generation /\ audits[a].after = target
    /\ \A a \in DOMAIN audits : Applied(a) =>
          /\ \A k \in audits[a].images.runs : runDate[k] \in {"target", "gone"}
          /\ \A b \in DOMAIN audits \ {a} :
                Applied(b) => audits[a].images.runs \intersect audits[b].images.runs = {}

RolledBack(a) == Applied(a) /\ audits'[a].status = "rolled-back"

(* A rollback takes nothing away that was collected for the target date    *)
(* after the relabel, however the plan, the collectors and the decision to *)
(* roll back interleave; and all that had moved is the source date's again.*)
RollbackSparesLaterWork ==
    [][ \A a \in DOMAIN audits :
            RolledBack(a) =>
                /\ "content" \in later => target' = target
                /\ "runs" \in later => \A k \in RunsAt("target") : runDate'[k] = "target"
                /\ audits[a].images.content \in {0, stored'}
                /\ \A k \in audits[a].images.runs : runDate'[k] = "source" ]_allVars
=============================================================================
