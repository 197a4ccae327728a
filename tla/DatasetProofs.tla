----------------------------- MODULE DatasetProofs -----------------------------
(***************************************************************************)
(* What is collected and stored, for any operations, plans and budgets,    *)
(* any threads, scopes and bounds, and any interleaving.                   *)
(*                                                                         *)
(* I. ThsOperations. One thread works on an operation at a time, and the   *)
(* others only add facts. So each operation has an invariant of its own    *)
(* (OperationOK): its thread's memory agrees with its checkpoints but for  *)
(* the window in hand, what it takes for done is stored, and what the      *)
(* provider has received is what the row says, plus the fetch in hand,     *)
(* plus at most one fetch for each execution that was lost.                *)
(*                                                                         *)
(* II. DatasetCollection. The clock only goes on and facts are immutable   *)
(* (Grows), so what a collection has read stays true of what it read       *)
(* (PlanOK, EvidenceOK), and whoever holds a lease has seen what is stored *)
(* under it (HasSeen), for only a holder writes.                           *)
(***************************************************************************)
EXTENDS ThsOperations, DatasetCollection, SequenceTheorems, TLAPS

-----------------------------------------------------------------------------
(* I. The THS operations (ThsOperations)                                   *)


InHand == {"fetch", "select", "commit", "fail"}
Running == {"item", "count", "finish"} \union InHand

RowOK(o) ==
    /\ thread[o] \in Threads(o)
    /\ operation[o].status \in Status /\ operation[o].used \in Nat
    /\ operation[o].used <= Budget[o]
    /\ checkpoint[o] \in [Items(o) -> Marks]
    /\ sent[o] \in Nat /\ lost[o] \in Nat

(* Where a thread is, and which item it has in hand *)
PlaceOK(o) ==
    /\ thread[o].pc \notin {"finish", "gone"} => thread[o].at \in Items(o)
    /\ thread[o].pc \in {"idle", "queued"} =>
        lost[o] = 0 /\ sent[o] = 0 /\ operation[o].used = 0 /\ thread[o].spent = 0
    /\ thread[o].pc = "idle" => operation[o].status = "none"
    /\ thread[o].pc \in {"idle", "queued"} => \A i \in Items(o) : checkpoint[o][i] = "none"
    /\ Kind[o] # "backfill" => thread[o].pc # "count"
    /\ Kind[o] = "import" => thread[o].pc # "item"

(* What counts as done is stored, or about to be with what is stored. *)
DoneOK(o) ==
    /\ \A i \in Items(o) :
          checkpoint[o][i] = "success" \/ operation[o].status = "success"
             \/ thread[o].outcome[i] = "success" => Stored(o, i)
    /\ thread[o].pc = "commit" =>
          \A k \in Plan[o][thread[o].at] : k \in DOMAIN thread[o].rows \/ fact[k] # Absent

(* The memory of a backfill is its checkpoints, but for the window in hand. *)
AgreementOK(o) ==
    Kind[o] = "backfill" =>
        /\ thread[o].pc \in Running => \A i \in Items(o) :
              (thread[o].pc \in InHand /\ i = thread[o].at) \/ thread[o].outcome[i] = checkpoint[o][i]
        /\ thread[o].pc \in InHand => checkpoint[o][thread[o].at] = "running"
        /\ thread[o].pc \in Running => operation[o].status \in Active
        /\ operation[o].status \in Terminal =>
              thread[o].pc = "gone" /\ operation[o].status = Verdict(checkpoint[o])

(* All or nothing: before the commit of its first item it has written nothing. *)
AllOrNothingOK(o) ==
    Kind[o] # "backfill" =>
        /\ thread[o].pc \in {"idle", "queued", "fetch", "fail"} => wrote[o] = {} /\ thread[o].at = 1
        /\ thread[o].pc \in {"select", "commit"} /\ thread[o].at = 1 => wrote[o] = {}
        /\ thread[o].pc = "item" => thread[o].at # 1
        /\ operation[o].status = "failed" => wrote[o] = {} /\ thread[o].pc = "gone"

Debt(o) == MaxRequests * lost[o]

SpendingOK(o) ==
    LET t == thread[o] IN
    /\ Kind[o] = "backfill" /\ t.pc \in Running =>
        /\ t.spent = operation[o].used /\ t.cost <= MaxRequests
        /\ sent[o] <= t.spent + t.cost + Debt(o)
        /\ lost[o] = 0 => sent[o] = t.spent + t.cost
        /\ t.pc \in {"item", "finish", "fetch"} => t.cost = 0
        /\ t.pc \in InHand \union {"count"} => t.spent < Budget[o]
    /\ Kind[o] = "backfill" /\ t.pc = "gone" =>
        /\ sent[o] <= operation[o].used + Debt(o)
        /\ lost[o] = 0 => sent[o] = operation[o].used
    /\ Kind[o] # "backfill" =>
        /\ sent[o] < Budget[o] + MaxRequests
        /\ t.pc # "gone" => sent[o] = t.spent
        /\ t.pc = "fetch" => t.spent = 0
        /\ t.pc = "gone" /\ lost[o] = 0 => sent[o] = operation[o].used

OperationOK(o) ==
    RowOK(o) /\ PlaceOK(o) /\ DoneOK(o) /\ AgreementOK(o) /\ AllOrNothingOK(o) /\ SpendingOK(o)

OperationsInv ==
    /\ DOMAIN thread = Operation
    /\ operation \in [Operation -> [status : Status, used : Nat]]
    /\ DOMAIN checkpoint = Operation
    /\ fact \in [Key -> Value \union {Absent}]
    /\ wrote \in [Operation -> SUBSET Key]
    /\ DOMAIN sent = Operation /\ DOMAIN lost = Operation
    /\ \A o \in Operation : OperationOK(o)

-----------------------------------------------------------------------------
(* One operation at a time *)

LEMMA PlansHaveItems ==
    ASSUME NEW o \in Operation
    PROVE  /\ Len(Plan[o]) \in Nat \ {0} /\ Items(o) = 1 .. Len(Plan[o])
           /\ \A i \in Items(o) : Plan[o][i] \subseteq Key
           /\ Budget[o] \in Nat \ {0} /\ Kind[o] \in {"backfill", "catalog", "import"}
           /\ MaxRequests \in Nat \ {0}
<1>1. Plan[o] \in Seq(SUBSET Key) /\ Plan[o] # <<>>
    BY StoreAssumption
<1>2. /\ Len(Plan[o]) \in Nat \ {0} /\ Items(o) = 1 .. Len(Plan[o])
      /\ \A i \in Items(o) : Plan[o][i] \subseteq Key
    BY <1>1 DEF Items
<1> QED BY <1>2, StoreAssumption, OperationsAssumption

(* A step of one operation, that at most adds facts, leaves the others be. *)
LEMMA OneOperation ==
    ASSUME OperationsInv, NEW o \in Operation,
           DOMAIN thread' = Operation, DOMAIN checkpoint' = Operation,
           operation' \in [Operation -> [status : Status, used : Nat]],
           fact' \in [Key -> Value \union {Absent}],
           wrote' \in [Operation -> SUBSET Key],
           DOMAIN sent' = Operation, DOMAIN lost' = Operation,
           \A k \in Key : fact[k] # Absent => fact'[k] # Absent,
           \A p \in Operation \ {o} :
               /\ thread'[p] = thread[p] /\ operation'[p] = operation[p]
               /\ checkpoint'[p] = checkpoint[p] /\ wrote'[p] = wrote[p]
               /\ sent'[p] = sent[p] /\ lost'[p] = lost[p],
           OperationOK(o)'
    PROVE  OperationsInv'
<1>1. ASSUME NEW p \in Operation \ {o} PROVE OperationOK(p)'
    <2>1. OperationOK(p)
        BY DEF OperationsInv
    <2>2. \A i \in Items(p) : Stored(p, i) => Stored(p, i)'
        BY PlansHaveItems DEF Stored
    <2>3. RowOK(p)' /\ PlaceOK(p)' /\ AgreementOK(p)' /\ AllOrNothingOK(p)' /\ SpendingOK(p)'
        BY <2>1 DEF OperationOK, RowOK, PlaceOK, AgreementOK, AllOrNothingOK, SpendingOK, Debt
    <2>4. DoneOK(p)'
        <3>1. thread[p].pc = "commit" => thread[p].at \in Items(p)
            BY <2>1 DEF OperationOK, PlaceOK
        <3>2. \A i \in Items(p) :
                  checkpoint'[p][i] = "success" \/ operation'[p].status = "success"
                     \/ thread'[p].outcome[i] = "success" => Stored(p, i)'
            BY <2>1, <2>2 DEF OperationOK, DoneOK
        <3>3. thread'[p].pc = "commit" =>
                  \A k \in Plan[p][thread'[p].at] : k \in DOMAIN thread'[p].rows \/ fact'[k] # Absent
            BY <2>1, <3>1, PlansHaveItems DEF OperationOK, DoneOK
        <3> QED BY <3>2, <3>3 DEF DoneOK
    <2> QED BY <2>3, <2>4 DEF OperationOK
<1> QED BY <1>1 DEF OperationsInv

(* The same, when the step adds no facts *)
LEMMA SameFacts ==
    ASSUME OperationsInv, NEW o \in Operation, NEW t, Continue(o, t),
           \/ UNCHANGED operation
           \/ \E s \in Status, n \in Nat :
                 operation' = [operation EXCEPT ![o] = [status |-> s, used |-> n]],
           UNCHANGED checkpoint \/ \E i, s : checkpoint' = [checkpoint EXCEPT ![o][i] = s],
           UNCHANGED <<fact, wrote>>,
           UNCHANGED sent \/ \E n : sent' = [sent EXCEPT ![o] = n],
           UNCHANGED lost \/ \E n : lost' = [lost EXCEPT ![o] = n],
           OperationOK(o)'
    PROVE  OperationsInv'
<1>1. DOMAIN thread' = Operation /\ \A p \in Operation \ {o} : thread'[p] = thread[p]
    BY DEF OperationsInv, Continue
<1>2. /\ operation' \in [Operation -> [status : Status, used : Nat]]
      /\ \A p \in Operation \ {o} : operation'[p] = operation[p]
    BY DEF OperationsInv
<1>3. DOMAIN checkpoint' = Operation /\ \A p \in Operation \ {o} : checkpoint'[p] = checkpoint[p]
    BY DEF OperationsInv
<1>4. DOMAIN sent' = Operation /\ \A p \in Operation \ {o} : sent'[p] = sent[p]
    BY DEF OperationsInv
<1>5. DOMAIN lost' = Operation /\ \A p \in Operation \ {o} : lost'[p] = lost[p]
    BY DEF OperationsInv
<1>6. /\ fact' \in [Key -> Value \union {Absent}] /\ wrote' \in [Operation -> SUBSET Key]
      /\ \A k \in Key : fact[k] # Absent => fact'[k] # Absent
      /\ \A p \in Operation \ {o} : wrote'[p] = wrote[p]
    BY DEF OperationsInv
<1> QED BY <1>1, <1>2, <1>3, <1>4, <1>5, <1>6, OneOperation

-----------------------------------------------------------------------------
(* What the helpers make of a thread *)

LEMMA NoRows == <<>> \in Rows /\ DOMAIN <<>> = {}
<1>1. <<>> \in [{} -> Value] /\ {} \in SUBSET Key
    OBVIOUS
<1> QED BY <1>1 DEF Rows

LEMMA FreshThread ==
    ASSUME NEW o \in Operation
    PROVE  /\ Fresh(o) \in Threads(o) /\ [Fresh(o) EXCEPT !.pc = "gone"] \in Threads(o)
           /\ [Fresh(o) EXCEPT !.pc = "gone"].pc = "gone"
           /\ \A i \in Items(o) : [Fresh(o) EXCEPT !.pc = "gone"].outcome[i] = "none"
<1>1. 1 \in 1 .. Len(Plan[o]) + 1 /\ [i \in Items(o) |-> "none"] \in [Items(o) -> Marks]
    BY PlansHaveItems DEF Marks
<1> QED BY <1>1, NoRows DEF Fresh, Threads, PCs

LEMMA DecidedThread ==
    ASSUME NEW o \in Operation, NEW t \in Threads(o), t.at \in Items(o), NEW s \in Marks
    PROVE  LET d == Decide(o, t, s) IN
           /\ d \in Threads(o) /\ d.pc \in {"item", "finish"}
           /\ d.pc = "item" => d.at \in Items(o)
           /\ d.at = t.at + 1 /\ d.spent = t.spent /\ d.cost = 0
           /\ d.outcome = [t.outcome EXCEPT ![t.at] = s]
           /\ t.at = Len(Plan[o]) => d.pc = "finish"
<1>1. t.at \in 1 .. Len(Plan[o]) /\ Items(o) = 1 .. Len(Plan[o]) /\ Len(Plan[o]) \in Nat
    BY PlansHaveItems
<1>2. t.at + 1 \in 1 .. Len(Plan[o]) + 1 /\ (t.at # Len(Plan[o]) => t.at + 1 \in Items(o))
    BY <1>1
<1>3. [t.outcome EXCEPT ![t.at] = s] \in [Items(o) -> Marks]
    BY DEF Threads
<1> DEFINE d == Decide(o, t, s)
<1>4. /\ d.at = t.at + 1 /\ d.spent = t.spent /\ d.cost = 0
      /\ d.outcome = [t.outcome EXCEPT ![t.at] = s]
      /\ d.pc = IF t.at = Len(Plan[o]) THEN "finish" ELSE "item"
    BY DEF Decide, Threads
<1>5. d \in Threads(o)
    BY <1>2, <1>3, NoRows DEF Decide, Threads, PCs
<1> QED BY <1>2, <1>4, <1>5

LEMMA Debts ==
    ASSUME NEW o \in Operation, lost[o] \in Nat
    PROVE  /\ Debt(o) \in Nat
           /\ lost'[o] = lost[o] + 1 => Debt(o)' = Debt(o) + MaxRequests
           /\ lost'[o] = lost[o] => Debt(o)' = Debt(o)
<1>1. ASSUME NEW m \in Nat, NEW n \in Nat
      PROVE  m * n \in Nat /\ m * (n + 1) = m * n + m
    OBVIOUS
<1>2. MaxRequests \in Nat
    BY OperationsAssumption
<1> QED BY <1>1, <1>2 DEF Debt

LEMMA Verdicts ==
    ASSUME NEW o \in Operation, NEW f \in [Items(o) -> Marks]
    PROVE  /\ Verdict(f) \in Terminal
           /\ Verdict(f) = "success" => \A i \in Items(o) : f[i] = "success"
           /\ (\A i \in Items(o) : f[i] = "none") => Verdict(f) = "failed"
<1>1. 1 \in Items(o) /\ DOMAIN f = Items(o)
    BY PlansHaveItems
<1> QED BY <1>1 DEF Verdict, Terminal

-----------------------------------------------------------------------------
(* Executions that end without a verdict *)

LEMMA Leaving ==
    ASSUME NEW o \in Operation, OperationOK(o), Alive(o),
           thread'[o] = [Fresh(o) EXCEPT !.pc = "gone"], lost'[o] = lost[o] + 1,
           operation'[o] = operation[o], checkpoint'[o] = checkpoint[o], fact' = fact,
           wrote'[o] = wrote[o], sent'[o] = sent[o]
    PROVE  OperationOK(o)'
<1> USE DEF OperationOK
<1>f. /\ thread'[o] \in Threads(o) /\ thread'[o].pc = "gone"
      /\ \A i \in Items(o) : thread'[o].outcome[i] = "none"
    BY FreshThread
<1>1. RowOK(o)'
    BY <1>f DEF RowOK
<1>2. PlaceOK(o)'
    BY <1>f DEF PlaceOK
<1>3. DoneOK(o)'
    BY <1>f DEF DoneOK, Stored
<1>4. AgreementOK(o)'
    BY <1>f DEF AgreementOK, Alive, Running, InHand
<1>5. AllOrNothingOK(o)'
    BY <1>f DEF AllOrNothingOK, Alive
<1>6. SpendingOK(o)'
    <2>1. /\ Debt(o) \in Nat /\ Debt(o)' = Debt(o) + MaxRequests /\ lost'[o] # 0
          /\ MaxRequests \in Nat /\ thread[o].pc \in PCs
          /\ thread[o].spent \in Nat /\ thread[o].cost \in Nat
        BY Debts, PlansHaveItems DEF RowOK, Threads
    <2>2. CASE Kind[o] = "backfill" /\ thread[o].pc = "queued"
        BY <1>f, <2>1, <2>2 DEF SpendingOK, PlaceOK, RowOK, Running, InHand
    <2>3. CASE Kind[o] = "backfill" /\ thread[o].pc # "queued"
        <3>1. thread[o].pc \in Running
            BY <2>1, <2>3 DEF Alive, PCs, Running, InHand
        <3> QED BY <1>f, <2>1, <2>3, <3>1 DEF SpendingOK, RowOK, Running, InHand
    <2>4. CASE Kind[o] # "backfill"
        BY <1>f, <2>1, <2>4 DEF SpendingOK
    <2> QED BY <2>2, <2>3, <2>4
<1> QED BY <1>1, <1>2, <1>3, <1>4, <1>5, <1>6

LEMMA AbandonPreserves ==
    ASSUME OperationsInv, NEW o \in Operation, NEW cause, Abandon(o, cause), Alive(o)
    PROVE  OperationsInv'
<1>1. OperationOK(o) /\ DOMAIN thread = Operation /\ DOMAIN lost = Operation
    BY DEF OperationsInv
<1>2. /\ thread' = [thread EXCEPT ![o] = [Fresh(o) EXCEPT !.pc = "gone"]]
      /\ lost' = [lost EXCEPT ![o] = lost[o] + 1]
      /\ UNCHANGED <<operation, checkpoint, fact, wrote, sent>>
    BY DEF Abandon, Exit, Continue, storeVars
<1>3. OperationOK(o)'
    BY <1>1, <1>2, Leaving
<1> QED BY <1>2, <1>3, SameFacts DEF Continue

LEMMA CrashPreserves ==
    ASSUME OperationsInv, Crash
    PROVE  OperationsInv'
<1>1. /\ thread' = [o \in Operation |->
                      IF Alive(o) THEN [Fresh(o) EXCEPT !.pc = "gone"] ELSE thread[o]]
      /\ lost' = [o \in Operation |-> IF Alive(o) THEN lost[o] + 1 ELSE lost[o]]
      /\ UNCHANGED <<operation, checkpoint, fact, wrote, sent>>
    BY DEF Crash, storeVars
<1>2. ASSUME NEW o \in Operation PROVE OperationOK(o)'
    <2>1. OperationOK(o)
        BY DEF OperationsInv
    <2>2. CASE Alive(o)
        BY <1>1, <2>1, <2>2, Leaving
    <2>3. CASE ~ Alive(o)
        <3>1. thread'[o] = thread[o] /\ lost'[o] = lost[o]
            BY <1>1, <2>3
        <3> QED BY <1>1, <2>1, <3>1
                DEF OperationOK, RowOK, PlaceOK, DoneOK, AgreementOK, AllOrNothingOK,
                    SpendingOK, Debt, Stored
    <2> QED BY <2>2, <2>3
<1> QED BY <1>1, <1>2 DEF OperationsInv

-----------------------------------------------------------------------------
(* Requested, refused, begun, resumed *)

(* put_operation *)
LEMMA PutRow ==
    ASSUME OperationsInv, NEW o \in Operation, NEW s \in Status, NEW n \in Nat,
           PutOperation(o, s, n)
    PROVE  /\ n <= Budget[o] /\ operation' = [operation EXCEPT ![o] = [status |-> s, used |-> n]]
           /\ operation'[o].status = s /\ operation'[o].used = n
    BY DEF OperationsInv, PutOperation, Representable

LEMMA StartPreserves ==
    ASSUME OperationsInv, NEW o \in Operation, Start(o)
    PROVE  OperationsInv'
<1>0. /\ OperationOK(o) /\ DOMAIN thread = Operation /\ thread[o].pc = "idle"
      /\ thread[o] \in Threads(o)
    BY DEF OperationsInv, OperationOK, RowOK, Start, At
<1>1. /\ operation' = [operation EXCEPT ![o] = [status |-> "queued", used |-> 0]]
      /\ operation'[o].status = "queued" /\ operation'[o].used = 0
    BY PutRow DEF Start, Status, Active
<1> DEFINE u == [thread[o] EXCEPT !.pc = "queued"]
<1>2. /\ u \in Threads(o) /\ u.pc = "queued" /\ u.at = thread[o].at
      /\ u.spent = thread[o].spent /\ u.outcome = thread[o].outcome
    BY <1>0 DEF Threads, PCs
<1>3. thread' = [thread EXCEPT ![o] = u] /\ UNCHANGED <<checkpoint, fact, wrote, sent, lost>>
    BY DEF Start, Goto, Continue, OnlyOperation, NoHistory, NoFacts
<1> HIDE DEF u
<1>4. thread'[o] = u
    BY <1>0, <1>3
<1>5. OperationOK(o)'
    <2> USE <1>0, <1>1, <1>2, <1>3, <1>4 DEF OperationOK
    <2>1. RowOK(o)'
        BY PlansHaveItems DEF RowOK, Status, Active
    <2>2. PlaceOK(o)' /\ DoneOK(o)'
        BY DEF PlaceOK, DoneOK, Stored
    <2>3. AgreementOK(o)' /\ AllOrNothingOK(o)' /\ SpendingOK(o)'
        BY DEF AgreementOK, AllOrNothingOK, SpendingOK, PlaceOK, Running, InHand, Terminal, Debt
    <2> QED BY <2>1, <2>2, <2>3
<1> QED BY <1>1, <1>3, <1>5, SameFacts DEF Continue, Status, Active

LEMMA RejectedPreserves ==
    ASSUME OperationsInv, NEW o \in Operation, Rejected(o)
    PROVE  OperationsInv'
<1>0. /\ OperationOK(o) /\ DOMAIN thread = Operation /\ thread[o].pc = "queued"
      /\ thread[o] \in Threads(o)
    BY DEF OperationsInv, OperationOK, RowOK, Rejected, At
<1>1. /\ operation' = [operation EXCEPT ![o] = [status |-> "failed", used |-> 0]]
      /\ operation'[o].status = "failed" /\ operation'[o].used = 0
    BY PutRow DEF Rejected, Status, Terminal
<1>2. thread' = [thread EXCEPT ![o] = [Fresh(o) EXCEPT !.pc = "gone"]]
      /\ UNCHANGED <<checkpoint, fact, wrote, sent, lost>>
    BY DEF Rejected, Exit, Continue, OnlyOperation, NoHistory, NoFacts
<1>3. /\ thread'[o] \in Threads(o) /\ thread'[o].pc = "gone"
      /\ \A i \in Items(o) : thread'[o].outcome[i] = "none"
    BY <1>0, <1>2, FreshThread
<1>4. OperationOK(o)'
    <2> USE <1>0, <1>1, <1>2, <1>3 DEF OperationOK
    <2>1. RowOK(o)'
        BY PlansHaveItems DEF RowOK, Status, Terminal
    <2>2. PlaceOK(o)' /\ DoneOK(o)'
        BY DEF PlaceOK, DoneOK, Stored
    <2>3. AgreementOK(o)'
        BY Verdicts DEF AgreementOK, PlaceOK, RowOK, Running, InHand
    <2>4. AllOrNothingOK(o)' /\ SpendingOK(o)'
        BY Debts, PlansHaveItems DEF AllOrNothingOK, SpendingOK, PlaceOK, RowOK, Running, InHand
    <2> QED BY <2>1, <2>2, <2>3, <2>4
<1> QED BY <1>1, <1>2, <1>4, SameFacts DEF Continue, Status, Terminal

(* run loads the row and the checkpoints. *)
LEMMA LoadPreserves ==
    ASSUME OperationsInv, NEW o \in Operation, Kind[o] = "backfill", Load(o),
           thread[o].pc \in {"queued", "gone"},
           UNCHANGED <<checkpoint, fact, wrote, sent, lost>>
    PROVE  OperationsInv'
<1>0. /\ OperationOK(o) /\ DOMAIN thread = Operation /\ operation[o].used \in Nat
      /\ checkpoint[o] \in [Items(o) -> Marks]
    BY DEF OperationsInv, OperationOK, RowOK
<1>1. /\ operation' = [operation EXCEPT ![o] = [status |-> "queued", used |-> operation[o].used]]
      /\ operation'[o].status = "queued" /\ operation'[o].used = operation[o].used
    BY <1>0, PutRow DEF Load, Status, Active
<1> DEFINE u == [Fresh(o) EXCEPT !.pc = "item", !.spent = operation[o].used,
                                 !.outcome = checkpoint[o]]
<1>2. /\ u \in Threads(o) /\ u.pc = "item" /\ u.at = 1 /\ u.cost = 0
      /\ u.spent = operation[o].used /\ u.outcome = checkpoint[o]
    BY <1>0, FreshThread DEF Fresh, Threads, PCs
<1>3. thread' = [thread EXCEPT ![o] = u]
    BY DEF Load, Continue
<1> HIDE DEF u
<1>4. thread'[o] = u /\ 1 \in Items(o)
    BY <1>0, <1>3, PlansHaveItems
<1>5. OperationOK(o)'
    <2> USE <1>0, <1>1, <1>2, <1>4 DEF OperationOK
    <2>1. RowOK(o)'
        BY DEF RowOK, Status, Active
    <2>2. PlaceOK(o)' /\ DoneOK(o)'
        BY DEF PlaceOK, DoneOK, Stored
    <2>3. AgreementOK(o)' /\ AllOrNothingOK(o)'
        BY DEF AgreementOK, AllOrNothingOK, Running, InHand, Active, Terminal
    <2>4. SpendingOK(o)'
        BY Debts, PlansHaveItems DEF SpendingOK, PlaceOK, RowOK, Running, InHand
    <2> QED BY <2>1, <2>2, <2>3, <2>4
<1> QED BY <1>0, <1>1, <1>3, <1>5, SameFacts DEF Continue, Status, Active

LEMMA BeginPreserves ==
    ASSUME OperationsInv, NEW o \in Operation, Begin(o)
    PROVE  OperationsInv'
<1>0. /\ OperationOK(o) /\ DOMAIN thread = Operation /\ thread[o].pc = "queued"
      /\ thread[o] \in Threads(o) /\ Kind[o] # "backfill"
    BY DEF OperationsInv, OperationOK, RowOK, Begin, At
<1>1. /\ operation' = [operation EXCEPT ![o] = [status |-> "running", used |-> 0]]
      /\ operation'[o].status = "running" /\ operation'[o].used = 0
    BY PutRow DEF Begin, Status, Active
<1> DEFINE u == [thread[o] EXCEPT !.pc = "fetch"]
<1>2. /\ u \in Threads(o) /\ u.pc = "fetch" /\ u.at = thread[o].at
      /\ u.spent = thread[o].spent /\ u.outcome = thread[o].outcome
    BY <1>0 DEF Threads, PCs
<1>3. thread' = [thread EXCEPT ![o] = u] /\ UNCHANGED <<checkpoint, fact, wrote, sent, lost>>
    BY DEF Begin, Goto, Continue, OnlyOperation, NoHistory, NoFacts
<1> HIDE DEF u
<1>4. thread'[o] = u
    BY <1>0, <1>3
<1>5. OperationOK(o)'
    <2> USE <1>0, <1>1, <1>2, <1>3, <1>4 DEF OperationOK
    <2>1. RowOK(o)'
        BY PlansHaveItems DEF RowOK, Status, Active
    <2>2. PlaceOK(o)' /\ DoneOK(o)'
        BY DEF PlaceOK, DoneOK, Stored
    <2>3. AgreementOK(o)' /\ AllOrNothingOK(o)' /\ SpendingOK(o)'
        BY DEF AgreementOK, AllOrNothingOK, SpendingOK, PlaceOK
    <2> QED BY <2>1, <2>2, <2>3
<1> QED BY <1>1, <1>3, <1>5, SameFacts DEF Continue, Status, Active

-----------------------------------------------------------------------------
(* The windows of a backfill *)

(* A step within an item that is still in hand *)
LEMMA WithinItem ==
    ASSUME OperationsInv, NEW o \in Operation, NEW u \in Threads(o),
           u.pc # thread[o].pc, thread[o].pc \in {"item"} \union InHand,
           u.pc \in InHand \union {"count"}, Continue(o, u), u.at = thread[o].at,
           u.pc = "count" => Kind[o] = "backfill",
           UNCHANGED <<operation, fact, wrote, lost>>,
           UNCHANGED sent \/ \E n : sent' = [sent EXCEPT ![o] = n],
           sent'[o] \in Nat,
           UNCHANGED checkpoint \/
               \E s \in Marks : checkpoint' = [checkpoint EXCEPT ![o][u.at] = s],
           Kind[o] # "backfill" => UNCHANGED checkpoint,
           Kind[o] = "backfill" =>
               checkpoint'[o][u.at] = IF u.pc = "count" THEN u.outcome[u.at] ELSE "running",
           u.pc \in InHand => u.outcome = thread[o].outcome,
           u.pc = "count" => \A i \in Items(o) \ {u.at} : u.outcome[i] = thread[o].outcome[i],
           u.pc = "count" /\ u.outcome[u.at] = "success" => Stored(o, u.at),
           u.pc = "commit" => \A k \in Plan[o][u.at] : k \in DOMAIN u.rows \/ fact[k] # Absent,
           Kind[o] # "backfill" /\ u.at # 1 => u.pc \in {"select", "commit"},
           Kind[o] # "backfill" /\ u.at = 1 => thread[o].pc \in InHand,
           SpendingOK(o)'
    PROVE  OperationsInv'
<1>0. OperationOK(o) /\ DOMAIN thread = Operation /\ DOMAIN checkpoint = Operation
    BY DEF OperationsInv
<1>1. thread' = [thread EXCEPT ![o] = u] /\ thread'[o] = u
    BY <1>0 DEF Continue
<1>2. u.at \in Items(o) /\ checkpoint[o] \in [Items(o) -> Marks]
    BY <1>0 DEF OperationOK, PlaceOK, RowOK, InHand
<1>3. /\ checkpoint'[o] \in [Items(o) -> Marks]
      /\ \A i \in Items(o) \ {u.at} : checkpoint'[o][i] = checkpoint[o][i]
    BY <1>0, <1>2
<1>4. OperationOK(o)'
    <2>1. RowOK(o)'
        BY <1>0, <1>1, <1>3 DEF OperationOK, RowOK
    <2>2. PlaceOK(o)'
        BY <1>0, <1>1, <1>2 DEF OperationOK, PlaceOK, InHand
    <2>3. DoneOK(o)'
        <3>1. ASSUME NEW i \in Items(o),
                     checkpoint'[o][i] = "success" \/ operation'[o].status = "success"
                        \/ thread'[o].outcome[i] = "success"
              PROVE  Stored(o, i)
            BY <1>0, <1>1, <1>2, <1>3, <3>1 DEF OperationOK, DoneOK, InHand
        <3> QED BY <1>1, <3>1 DEF DoneOK, Stored
    <2>4. AgreementOK(o)'
        BY <1>0, <1>1, <1>2, <1>3 DEF OperationOK, AgreementOK, Running, InHand, Active, Terminal
    <2>5. AllOrNothingOK(o)'
        BY <1>0, <1>1 DEF OperationOK, AllOrNothingOK, InHand
    <2> QED BY <2>1, <2>2, <2>3, <2>4, <2>5 DEF OperationOK
<1> QED BY <1>4, SameFacts

(* A step that decides the item in hand, and may have stored its facts *)
LEMMA DecidedItem ==
    ASSUME OperationsInv, NEW o \in Operation, NEW w \in Threads(o), NEW s \in Marks,
           thread[o].pc \in {"item", "commit", "count"},
           Kind[o] = "backfill" => thread[o].pc # "commit",
           w.at = thread[o].at, w.outcome = thread[o].outcome, thread'[o] = Decide(o, w, s),
           operation'[o].status \in {operation[o].status, "running"},
           operation'[o].used \in Nat, operation'[o].used <= Budget[o],
           Kind[o] # "backfill" => operation'[o] = operation[o],
           checkpoint'[o] \in [Items(o) -> Marks],
           \A i \in Items(o) \ {w.at} : checkpoint'[o][i] = checkpoint[o][i],
           checkpoint'[o][w.at] = IF Kind[o] = "backfill" THEN s ELSE checkpoint[o][w.at],
           \A k \in Key : fact[k] # Absent => fact'[k] # Absent,
           s = "success" => Stored(o, w.at)',
           sent'[o] \in Nat, lost'[o] = lost[o],
           SpendingOK(o)'
    PROVE  OperationOK(o)'
<1>0. /\ RowOK(o) /\ PlaceOK(o) /\ DoneOK(o) /\ AgreementOK(o) /\ AllOrNothingOK(o)
    BY DEF OperationsInv, OperationOK
<1>1. w.at \in Items(o) /\ Items(o) = 1 .. Len(Plan[o]) /\ Len(Plan[o]) \in Nat
    BY <1>0, PlansHaveItems DEF PlaceOK
<1> DEFINE u == thread'[o]
<1>2. /\ u \in Threads(o) /\ u.pc \in {"item", "finish"} /\ (u.pc = "item" => u.at \in Items(o))
      /\ u.at = w.at + 1 /\ u.outcome = [thread[o].outcome EXCEPT ![w.at] = s]
      /\ w.at = Len(Plan[o]) => u.pc = "finish"
    BY <1>1, DecidedThread
<1>3. /\ u.outcome[w.at] = s
      /\ \A i \in Items(o) \ {w.at} : u.outcome[i] = thread[o].outcome[i]
    BY <1>0, <1>1, <1>2 DEF RowOK, Threads
<1> HIDE DEF u
<1>4. RowOK(o)'
    BY <1>0, <1>2 DEF RowOK, Status, Active, u
<1>5. PlaceOK(o)'
    <2>1. Kind[o] = "import" => u.pc # "item"
        <3>1. Kind[o] = "import" => Len(Plan[o]) = 1
            BY StoreAssumption
        <3> QED BY <1>1, <1>2, <3>1
    <2> QED BY <1>0, <1>2, <2>1 DEF PlaceOK, u
<1>6. DoneOK(o)'
    <2>1. \A i \in Items(o) : Stored(o, i) => Stored(o, i)'
        BY PlansHaveItems DEF Stored
    <2>2. ASSUME NEW i \in Items(o),
                 checkpoint'[o][i] = "success" \/ operation'[o].status = "success"
                    \/ u.outcome[i] = "success"
          PROVE  Stored(o, i)'
        <3>1. CASE operation'[o].status = "success"
            BY <1>0, <2>1, <3>1 DEF DoneOK
        <3>2. CASE i = w.at /\ ~ operation'[o].status = "success"
            BY <1>0, <1>3, <2>1, <2>2, <3>2 DEF DoneOK
        <3>3. CASE i # w.at /\ ~ operation'[o].status = "success"
            BY <1>0, <1>3, <2>1, <2>2, <3>3 DEF DoneOK
        <3> QED BY <3>1, <3>2, <3>3
    <2> QED BY <1>2, <2>2 DEF DoneOK, u
<1>7. AgreementOK(o)'
    <2> SUFFICES ASSUME Kind[o] = "backfill" PROVE AgreementOK(o)'
        BY DEF AgreementOK
    <2>1. /\ operation[o].status \in Active
          /\ \A i \in Items(o) : thread[o].outcome[i] = checkpoint[o][i]
        BY <1>0 DEF AgreementOK, Running, InHand
    <2>2. \A i \in Items(o) : u.outcome[i] = checkpoint'[o][i]
        BY <1>3, <2>1
    <2>3. operation'[o].status \in Active
        BY <2>1 DEF Active
    <2> QED BY <1>2, <2>2, <2>3 DEF AgreementOK, Running, InHand, Active, Terminal, u
<1>8. AllOrNothingOK(o)'
    BY <1>0, <1>1, <1>2 DEF AllOrNothingOK, u
<1> QED BY <1>4, <1>5, <1>6, <1>7, <1>8 DEF OperationOK

LEMMA SkipPreserves ==
    ASSUME OperationsInv, NEW o \in Operation,
           SkipWindow(o) \/ MembershipExhausted(o)
    PROVE  OperationsInv'
<1>0. OperationOK(o) /\ DOMAIN thread = Operation /\ thread[o] \in Threads(o)
    BY DEF OperationsInv, OperationOK, RowOK
<1>w. PICK w \in Threads(o) : w = thread[o]
    BY <1>0
<1>s. PICK s \in Marks : s = IF SkipWindow(o) THEN "success" ELSE "failed"
    BY DEF Marks
<1>1. /\ w.pc = "item" /\ w.at \in Items(o)
      /\ thread' = [thread EXCEPT ![o] = Decide(o, w, s)]
      /\ UNCHANGED <<operation, checkpoint, fact, wrote, sent, lost>>
      /\ s = "success" => w.outcome[w.at] = "success"
      /\ Kind[o] = "backfill" <=> s = "success"
    BY <1>0, <1>w, <1>s
       DEF SkipWindow, MembershipExhausted, AtWindow, AtMembership, At, Decided, I,
           Continue, OnlyThread, storeVars, OperationOK, PlaceOK
<1>2. checkpoint[o][w.at] = IF Kind[o] = "backfill" THEN s ELSE checkpoint[o][w.at]
    BY <1>0, <1>w, <1>1 DEF OperationOK, AgreementOK, Running, InHand
<1>3. s = "success" => Stored(o, w.at)'
    BY <1>0, <1>w, <1>1 DEF OperationOK, DoneOK, Stored
<1>4. thread'[o] = Decide(o, w, s)
    BY <1>0, <1>1
<1>5. SpendingOK(o)'
    <2>1. /\ thread'[o].pc \in {"item", "finish"} /\ thread'[o].cost = 0
          /\ thread'[o].spent = w.spent
        BY <1>4 DEF Decide, Threads
    <2> QED BY <1>0, <1>w, <1>1, <2>1, Debts, PlansHaveItems
            DEF OperationOK, SpendingOK, RowOK, Running, InHand
<1>6. OperationOK(o)'
    <2>1. /\ operation[o].status \in {operation[o].status, "running"}
          /\ operation[o].used \in Nat /\ operation[o].used <= Budget[o]
          /\ checkpoint[o] \in [Items(o) -> Marks] /\ sent[o] \in Nat
        BY <1>0 DEF OperationOK, RowOK
    <2> QED BY <1>w, <1>1, <1>2, <1>3, <1>4, <1>5, <2>1, DecidedItem
<1> QED BY <1>1, <1>6, SameFacts DEF Continue

-----------------------------------------------------------------------------
(* Opening a window, and failing it *)

LEMMA OpenWindowPreserves ==
    ASSUME OperationsInv, NEW o \in Operation, OpenWindow(o)
    PROVE  OperationsInv'
<1>0. OperationOK(o) /\ DOMAIN thread = Operation /\ thread[o] \in Threads(o)
    BY DEF OperationsInv, OperationOK, RowOK
<1>w. PICK w \in Threads(o) : w = thread[o]
    BY <1>0
<1>1. /\ w.pc = "item" /\ w.at \in Items(o) /\ Kind[o] = "backfill" /\ w.spent < Budget[o]
      /\ Continue(o, [w EXCEPT !.pc = "fetch"])
      /\ checkpoint' = [checkpoint EXCEPT ![o][w.at] = "running"]
      /\ UNCHANGED <<operation, fact, wrote, sent, lost>>
    <2>1. w.pc = "item" /\ w.at \in Items(o) /\ Kind[o] = "backfill"
        BY <1>0, <1>w DEF OpenWindow, AtWindow, At, OperationOK, PlaceOK
    <2>2. w.spent \in Nat /\ Budget[o] \in Nat /\ ~ (w.spent >= Budget[o])
        BY <1>w, PlansHaveItems DEF OpenWindow, Exhausted, Threads
    <2> QED BY <1>w, <2>1, <2>2
            DEF OpenWindow, PutCheckpoint, I, Goto, OnlyCheckpoint, NoHistory, NoFacts
<1>u. PICK u : u = [w EXCEPT !.pc = "fetch"]
    OBVIOUS
<1>2. /\ u \in Threads(o) /\ u.pc = "fetch" /\ u.at = w.at /\ u.outcome = w.outcome
      /\ u.spent = w.spent /\ u.cost = w.cost
    BY <1>u DEF Threads, PCs
<1>3. Continue(o, u) /\ thread'[o] = u
    BY <1>0, <1>1, <1>u DEF Continue
<1>4. checkpoint'[o][u.at] = "running"
    BY <1>0, <1>1, <1>2 DEF OperationsInv, OperationOK, RowOK
<1>5. SpendingOK(o)'
    BY <1>0, <1>w, <1>1, <1>2, <1>3, Debts
       DEF OperationOK, SpendingOK, RowOK, Running, InHand
<1>6. sent[o] \in Nat /\ "running" \in Marks
    BY <1>0 DEF OperationOK, RowOK, Marks
<1> QED BY <1>w, <1>1, <1>2, <1>3, <1>4, <1>5, <1>6, WithinItem DEF InHand

LEMMA FailWindowPreserves ==
    ASSUME OperationsInv, NEW o \in Operation, FailWindow(o)
    PROVE  OperationsInv'
<1>0. OperationOK(o) /\ DOMAIN thread = Operation /\ thread[o] \in Threads(o)
    BY DEF OperationsInv, OperationOK, RowOK
<1>w. PICK w \in Threads(o) : w = thread[o]
    BY <1>0
<1>1. /\ w.pc = "fail" /\ w.at \in Items(o) /\ Kind[o] = "backfill"
      /\ Continue(o, [w EXCEPT !.pc = "count", !.outcome[w.at] = "failed"])
      /\ checkpoint' = [checkpoint EXCEPT ![o][w.at] = "failed"]
      /\ UNCHANGED <<operation, fact, wrote, sent, lost>>
    BY <1>0, <1>w DEF FailWindow, At, OperationOK, PlaceOK, PutCheckpoint, I, OnlyCheckpoint,
                      NoHistory, NoFacts
<1>u. PICK u : u = [w EXCEPT !.pc = "count", !.outcome[w.at] = "failed"]
    OBVIOUS
<1>2. /\ u \in Threads(o) /\ u.pc = "count" /\ u.at = w.at
      /\ u.outcome = [w.outcome EXCEPT ![w.at] = "failed"]
      /\ u.spent = w.spent /\ u.cost = w.cost
    <2>1. [w.outcome EXCEPT ![w.at] = "failed"] \in [Items(o) -> Marks]
        BY DEF Threads, Marks
    <2> QED BY <1>u, <2>1 DEF Threads, PCs
<1>3. Continue(o, u) /\ thread'[o] = u
    BY <1>0, <1>1, <1>u DEF Continue
<1>4. /\ checkpoint'[o][u.at] = "failed" /\ u.outcome[u.at] = "failed"
      /\ \A i \in Items(o) \ {u.at} : u.outcome[i] = w.outcome[i]
    BY <1>0, <1>1, <1>2 DEF OperationsInv, OperationOK, RowOK, Threads
<1>5. SpendingOK(o)'
    BY <1>0, <1>w, <1>1, <1>2, <1>3, Debts
       DEF OperationOK, SpendingOK, RowOK, Running, InHand
<1>6. sent[o] \in Nat /\ "failed" \in Marks
    BY <1>0 DEF OperationOK, RowOK, Marks
<1> QED BY <1>w, <1>1, <1>2, <1>3, <1>4, <1>5, <1>6, WithinItem DEF InHand

-----------------------------------------------------------------------------
(* Fetching, finding what is missing, and failing to store it *)

Moves(o, w, u) ==
    /\ Continue(o, u) /\ u.at = w.at /\ u.outcome = w.outcome
    /\ w.pc \in {"item"} \union InHand /\ u.pc \in {"select", "commit", "fail"} \ {w.pc}
    /\ Kind[o] = "backfill" => w.pc \in InHand
    /\ Kind[o] # "backfill" /\ u.at # 1 => u.pc \in {"select", "commit"}
    /\ u.pc = "commit" => \A k \in Plan[o][u.at] : k \in DOMAIN u.rows \/ fact[k] # Absent
    /\ UNCHANGED <<operation, checkpoint, fact, wrote, lost>>
    /\ UNCHANGED sent \/ \E n \in Nat : sent' = [sent EXCEPT ![o] = n]

LEMMA MovePreserves ==
    ASSUME OperationsInv, NEW o \in Operation, NEW u \in Threads(o),
           Moves(o, thread[o], u), SpendingOK(o)'
    PROVE  OperationsInv'
<1>0. OperationOK(o) /\ DOMAIN thread = Operation /\ DOMAIN sent = Operation
    BY DEF OperationsInv
<1>1. sent'[o] \in Nat
    BY <1>0 DEF Moves, OperationOK, RowOK
<1>2. Kind[o] = "backfill" => checkpoint'[o][u.at] = "running"
    BY <1>0 DEF Moves, OperationOK, AgreementOK
<1>3. Kind[o] # "backfill" /\ u.at = 1 => thread[o].pc \in InHand
    BY <1>0 DEF Moves, OperationOK, AllOrNothingOK
<1> QED BY <1>1, <1>2, <1>3, WithinItem DEF Moves, InHand

LEMMA SelectPreserves ==
    ASSUME OperationsInv, NEW o \in Operation, Select(o)
    PROVE  OperationsInv'
<1>0. OperationOK(o) /\ DOMAIN thread = Operation /\ thread[o] \in Threads(o)
    BY DEF OperationsInv, OperationOK, RowOK
<1>w. PICK w \in Threads(o) : w = thread[o]
    BY <1>0
<1>1. w.pc = "select" /\ w.at \in Items(o) /\ Plan[o][w.at] \subseteq Key
    BY <1>0, <1>w, PlansHaveItems DEF Select, At, OperationOK, PlaceOK
<1>2. PICK rows \in [Plan[o][w.at] -> Value] :
          Continue(o, [w EXCEPT !.rows = [k \in Missing(rows) |-> rows[k]],
                                !.clash = Conflict(rows), !.pc = "commit"])
    BY <1>w DEF Select, I
<1>u. PICK u : u = [w EXCEPT !.rows = [k \in Missing(rows) |-> rows[k]],
                             !.clash = Conflict(rows), !.pc = "commit"]
    OBVIOUS
<1>3. [k \in Missing(rows) |-> rows[k]] \in Rows
    <2>1. Missing(rows) \in SUBSET Key /\ Missing(rows) \subseteq Plan[o][w.at]
        BY <1>1, <1>2 DEF Missing
    <2>2. [k \in Missing(rows) |-> rows[k]] \in [Missing(rows) -> Value]
        BY <1>2, <2>1
    <2> QED BY <2>1, <2>2 DEF Rows
<1>4. Conflict(rows) \in BOOLEAN
    BY DEF Conflict
<1>5. /\ u.pc = "commit" /\ u.at = w.at /\ u.outcome = w.outcome
      /\ u.spent = w.spent /\ u.cost = w.cost /\ DOMAIN u.rows = Missing(rows)
    BY <1>u DEF Threads
<1>6. u \in Threads(o)
    BY <1>u, <1>3, <1>4 DEF Threads, PCs
<1>7. UNCHANGED <<operation, checkpoint, fact, wrote, sent, lost>>
    BY DEF Select, OnlyThread, storeVars
<1>8. \A k \in Plan[o][u.at] : k \in DOMAIN u.rows \/ fact[k] # Absent
    BY <1>2, <1>5 DEF Missing
<1>9. Moves(o, thread[o], u)
    BY <1>w, <1>1, <1>2, <1>u, <1>5, <1>7, <1>8 DEF Moves, InHand
<1>10. SpendingOK(o)'
    <2>1. thread'[o] = u
        BY <1>0, <1>9 DEF Moves, Continue
    <2> QED BY <1>0, <1>w, <1>1, <1>5, <1>7, <2>1, Debts
            DEF OperationOK, SpendingOK, RowOK, Running, InHand
<1> QED BY <1>6, <1>9, <1>10, MovePreserves

(* The transaction that stores them raises. *)
LEMMA RaisesPreserves ==
    ASSUME OperationsInv, NEW o \in Operation, StoreWindowRaises(o) \/ StoreAllRaises(o)
    PROVE  OperationsInv'
<1>0. OperationOK(o) /\ DOMAIN thread = Operation /\ thread[o] \in Threads(o)
    BY DEF OperationsInv, OperationOK, RowOK
<1>w. PICK w \in Threads(o) : w = thread[o]
    BY <1>0
<1>1. /\ w.pc = "commit" /\ Continue(o, [w EXCEPT !.pc = "fail"])
      /\ Kind[o] # "backfill" => w.at = 1
      /\ UNCHANGED <<operation, checkpoint, fact, wrote, sent, lost>>
    BY <1>w DEF StoreWindowRaises, StoreAllRaises, AllOrNothing, At, I, Goto, OnlyThread, storeVars
<1>u. PICK u : u = [w EXCEPT !.pc = "fail"]
    OBVIOUS
<1>2. /\ u \in Threads(o) /\ u.pc = "fail" /\ u.at = w.at /\ u.outcome = w.outcome
      /\ u.spent = w.spent /\ u.cost = w.cost
    BY <1>u DEF Threads, PCs
<1>3. Moves(o, thread[o], u)
    BY <1>w, <1>1, <1>u, <1>2 DEF Moves, InHand
<1>4. SpendingOK(o)'
    <2>1. thread'[o] = u
        BY <1>0, <1>3 DEF Moves, Continue
    <2> QED BY <1>0, <1>w, <1>1, <1>2, <2>1, Debts
            DEF OperationOK, SpendingOK, RowOK, Running, InHand
<1> QED BY <1>2, <1>3, <1>4, MovePreserves

LEMMA ReadDumpsPreserves ==
    ASSUME OperationsInv, NEW o \in Operation, ReadDumps(o)
    PROVE  OperationsInv'
<1>0. OperationOK(o) /\ DOMAIN thread = Operation /\ thread[o] \in Threads(o)
    BY DEF OperationsInv, OperationOK, RowOK
<1>w. PICK w \in Threads(o) : w = thread[o]
    BY <1>0
<1>1. PICK pc \in {"select", "fail"} : Continue(o, [w EXCEPT !.pc = pc])
    BY <1>w DEF ReadDumps, Goto
<1>2. /\ w.pc = "fetch" /\ Kind[o] = "import" /\ w.at = 1
      /\ UNCHANGED <<operation, checkpoint, fact, wrote, sent, lost>>
    BY <1>0, <1>w DEF ReadDumps, At, OnlyThread, storeVars, OperationOK, AllOrNothingOK
<1>u. PICK u : u = [w EXCEPT !.pc = pc]
    OBVIOUS
<1>3. /\ u \in Threads(o) /\ u.pc = pc /\ u.at = w.at /\ u.outcome = w.outcome
      /\ u.spent = w.spent /\ u.cost = w.cost
    BY <1>u, <1>1 DEF Threads, PCs
<1>4. Moves(o, thread[o], u)
    BY <1>w, <1>1, <1>2, <1>u, <1>3 DEF Moves, InHand
<1>5. SpendingOK(o)'
    <2>1. thread'[o] = u
        BY <1>0, <1>4 DEF Moves, Continue
    <2> QED BY <1>0, <1>w, <1>1, <1>2, <1>3, <2>1, Debts
            DEF OperationOK, SpendingOK, RowOK
<1> QED BY <1>3, <1>4, <1>5, MovePreserves

(* A fetch adds what it has cost to what the provider has received. *)
LEMMA FetchPreserves ==
    ASSUME OperationsInv, NEW o \in Operation,
           FetchWindow(o) \/ FetchCatalog(o) \/ FetchMembership(o)
    PROVE  OperationsInv'
<1>0. /\ OperationOK(o) /\ DOMAIN thread = Operation /\ thread[o] \in Threads(o)
      /\ DOMAIN sent = Operation
    BY DEF OperationsInv, OperationOK, RowOK
<1>w. PICK w \in Threads(o) : w = thread[o]
    BY <1>0
<1>b. /\ Budget[o] \in Nat /\ MaxRequests \in Nat /\ w.spent \in Nat /\ w.cost \in Nat
      /\ sent[o] \in Nat
    BY <1>0, <1>w, PlansHaveItems DEF Threads, OperationOK, RowOK
<1>1. \E n \in Nat, u \in Threads(o) :
          /\ Moves(o, w, u) /\ sent'[o] = sent[o] + n /\ n <= MaxRequests
          /\ u.pc \in {"select", "fail"}
          /\ Kind[o] = "backfill" => w.pc = "fetch" /\ u.cost = n /\ u.spent = w.spent
          /\ Kind[o] # "backfill" =>
                w.pc \in {"item", "fetch"} /\ u.spent = w.spent + n
                /\ (w.pc = "fetch" \/ u.spent <= Budget[o])
    <2>1. CASE FetchWindow(o)
        <3>1. PICK cost \in 0 .. MaxRequests, pc \in {"select", "fail"} :
                  Sends(o, cost, [w EXCEPT !.cost = cost, !.pc = pc])
            BY <1>w, <2>1 DEF FetchWindow
        <3>u. PICK u : u = [w EXCEPT !.cost = cost, !.pc = pc]
            OBVIOUS
        <3>2. /\ u.pc = pc /\ u.at = w.at /\ u.outcome = w.outcome
              /\ u.spent = w.spent /\ u.cost = cost /\ cost \in Nat /\ cost <= MaxRequests
            BY <1>b, <3>u DEF Threads
        <3>3. u \in Threads(o)
            BY <3>u, <3>1, <3>2 DEF Threads, PCs
        <3>4. w.pc = "fetch" /\ Kind[o] = "backfill"
            BY <1>w, <2>1 DEF FetchWindow, At
        <3>5. sent' = [sent EXCEPT ![o] = sent[o] + cost] /\ sent[o] + cost \in Nat
            BY <1>b, <3>1, <3>2 DEF Sends
        <3>6. Moves(o, w, u)
            BY <3>1, <3>u, <3>2, <3>4, <3>5 DEF Moves, Sends, InHand, storeVars
        <3>7. sent'[o] = sent[o] + cost
            BY <1>0, <3>5
        <3> QED BY <3>1, <3>2, <3>3, <3>4, <3>6, <3>7
    <2>2. CASE FetchCatalog(o)
        <3>1. PICK cost \in 0 .. MaxRequests, pc \in {"select", "fail"} :
                  Sends(o, cost, [w EXCEPT !.spent = cost, !.pc = pc])
            BY <1>w, <2>2 DEF FetchCatalog
        <3>u. PICK u : u = [w EXCEPT !.spent = cost, !.pc = pc]
            OBVIOUS
        <3>2. /\ u.pc = pc /\ u.at = w.at /\ u.outcome = w.outcome
              /\ u.spent = cost /\ u.cost = w.cost /\ cost \in Nat /\ cost <= MaxRequests
            BY <1>b, <3>u DEF Threads
        <3>3. u \in Threads(o)
            BY <3>u, <3>1, <3>2 DEF Threads, PCs
        <3>4. w.pc = "fetch" /\ Kind[o] # "backfill" /\ w.at = 1 /\ w.spent = 0
            BY <1>0, <1>w, <2>2 DEF FetchCatalog, At, OperationOK, AllOrNothingOK, SpendingOK
        <3>5. sent' = [sent EXCEPT ![o] = sent[o] + cost] /\ sent[o] + cost \in Nat
            BY <1>b, <3>1, <3>2 DEF Sends
        <3>6. Moves(o, w, u)
            BY <3>1, <3>u, <3>2, <3>4, <3>5 DEF Moves, Sends, InHand, storeVars
        <3>7. sent'[o] = sent[o] + cost /\ u.spent = w.spent + cost
            BY <1>0, <3>2, <3>4, <3>5
        <3> QED BY <3>1, <3>2, <3>3, <3>4, <3>6, <3>7
    <2>3. CASE FetchMembership(o)
        <3>1. PICK cost \in 1 .. MaxRequests :
                  /\ w.spent + cost <= Budget[o]
                  /\ Sends(o, cost, [w EXCEPT !.spent = w.spent + cost, !.pc = "select"])
            BY <1>w, <2>3 DEF FetchMembership
        <3>u. PICK u : u = [w EXCEPT !.spent = w.spent + cost, !.pc = "select"]
            OBVIOUS
        <3>2. /\ u.pc = "select" /\ u.at = w.at /\ u.outcome = w.outcome
              /\ u.spent = w.spent + cost /\ u.cost = w.cost
              /\ cost \in Nat /\ cost <= MaxRequests
            BY <1>b, <3>u DEF Threads
        <3>3. u \in Threads(o)
            <4>1. w.spent + cost \in Nat
                BY <1>b, <3>2
            <4> QED BY <3>u, <4>1 DEF Threads, PCs
        <3>4. w.pc = "item" /\ Kind[o] # "backfill"
            BY <1>w, <2>3 DEF FetchMembership, AtMembership, At
        <3>5. sent' = [sent EXCEPT ![o] = sent[o] + cost] /\ sent[o] + cost \in Nat
            BY <1>b, <3>1, <3>2 DEF Sends
        <3>6. Moves(o, w, u)
            BY <3>1, <3>u, <3>2, <3>4, <3>5 DEF Moves, Sends, storeVars
        <3>7. sent'[o] = sent[o] + cost
            BY <1>0, <3>5
        <3> QED BY <3>1, <3>2, <3>3, <3>4, <3>6, <3>7
    <2> QED BY <2>1, <2>2, <2>3
<1>2. PICK n \in Nat, u \in Threads(o) :
          /\ Moves(o, w, u) /\ sent'[o] = sent[o] + n /\ n <= MaxRequests
          /\ u.pc \in {"select", "fail"}
          /\ Kind[o] = "backfill" => w.pc = "fetch" /\ u.cost = n /\ u.spent = w.spent
          /\ Kind[o] # "backfill" =>
                w.pc \in {"item", "fetch"} /\ u.spent = w.spent + n
                /\ (w.pc = "fetch" \/ u.spent <= Budget[o])
    BY <1>1
<1>3. thread'[o] = u /\ operation' = operation /\ lost' = lost
    BY <1>0, <1>2 DEF Moves, Continue
<1>4. SpendingOK(o)'
    <2>1. CASE Kind[o] = "backfill"
        BY <1>0, <1>w, <1>b, <1>2, <1>3, <2>1, Debts
           DEF OperationOK, SpendingOK, RowOK, Running, InHand
    <2>2. CASE Kind[o] # "backfill"
        <3>1. sent[o] = w.spent /\ (w.pc = "fetch" => w.spent = 0) /\ Budget[o] > 0
            BY <1>0, <1>w, <1>2, <2>2, PlansHaveItems DEF OperationOK, SpendingOK
        <3>2. sent'[o] = u.spent /\ sent'[o] < Budget[o] + MaxRequests
            BY <1>b, <1>2, <2>2, <3>1, PlansHaveItems
        <3> QED BY <1>2, <1>3, <2>2, <3>2 DEF SpendingOK
    <2> QED BY <2>1, <2>2
<1> QED BY <1>w, <1>2, <1>4, MovePreserves

-----------------------------------------------------------------------------
(* Storing what was fetched *)

(* The transaction of the item in hand leaves all of it stored. *)
LEMMA Inserted ==
    ASSUME OperationsInv, NEW o \in Operation, thread[o].pc = "commit",
           InsertFacts(o, thread[o].rows)
    PROVE  /\ fact' \in [Key -> Value \union {Absent}] /\ wrote' \in [Operation -> SUBSET Key]
           /\ \A k \in Key : fact[k] # Absent => fact'[k] = fact[k]
           /\ \A p \in Operation \ {o} : wrote'[p] = wrote[p]
           /\ \A k \in Plan[o][thread[o].at] : fact'[k] # Absent
<1>0. /\ OperationOK(o) /\ thread[o].rows \in Rows
      /\ fact \in [Key -> Value \union {Absent}] /\ wrote \in [Operation -> SUBSET Key]
    BY DEF OperationsInv, OperationOK, RowOK, Threads
<1>1. PICK s \in SUBSET Key : thread[o].rows \in [s -> Value]
    BY <1>0 DEF Rows
<1>r. PICK rows \in [s -> Value] : rows = thread[o].rows
    BY <1>1
<1>2. /\ \A k \in s : fact[k] = Absent
      /\ fact' = [k \in Key |-> IF k \in s THEN rows[k] ELSE fact[k]]
      /\ wrote' = [wrote EXCEPT ![o] = wrote[o] \union s]
    BY <1>1, <1>r DEF InsertFacts, Duplicate
<1>3. \A k \in s : rows[k] \in Value /\ rows[k] # Absent
    BY <1>r, StoreAssumption
<1>4. wrote' \in [Operation -> SUBSET Key] /\ \A p \in Operation \ {o} : wrote'[p] = wrote[p]
    BY <1>0, <1>2
<1>5. /\ fact' \in [Key -> Value \union {Absent}]
      /\ \A k \in Key : fact[k] # Absent => fact'[k] = fact[k]
    BY <1>0, <1>2, <1>3
<1>6. \A k \in Plan[o][thread[o].at] : fact'[k] # Absent
    <2>1. thread[o].at \in Items(o)
        BY <1>0 DEF OperationOK, PlaceOK
    <2>2. \A k \in Plan[o][thread[o].at] : k \in Key /\ (k \in s \/ fact[k] # Absent)
        BY <1>0, <1>r, <2>1, PlansHaveItems DEF OperationOK, DoneOK
    <2> QED BY <1>2, <1>3, <2>2
<1> QED BY <1>4, <1>5, <1>6

LEMMA StoreWindowPreserves ==
    ASSUME OperationsInv, NEW o \in Operation, StoreWindow(o)
    PROVE  OperationsInv'
<1>0. /\ OperationOK(o) /\ DOMAIN thread = Operation /\ thread[o] \in Threads(o)
      /\ DOMAIN checkpoint = Operation /\ DOMAIN sent = Operation /\ DOMAIN lost = Operation
      /\ operation \in [Operation -> [status : Status, used : Nat]]
    BY DEF OperationsInv, OperationOK, RowOK
<1>w. PICK w \in Threads(o) : w = thread[o]
    BY <1>0
<1>s. PICK s \in Marks : s = WindowVerdict(o)
    BY DEF WindowVerdict, Marks
<1>1. /\ w.pc = "commit" /\ w.at \in Items(o) /\ Kind[o] = "backfill"
      /\ thread' = [thread EXCEPT ![o] = [w EXCEPT !.pc = "count", !.rows = <<>>,
                                                    !.outcome[w.at] = s]]
      /\ checkpoint' = [checkpoint EXCEPT ![o][w.at] = s]
      /\ UNCHANGED <<operation, sent, lost>>
      /\ InsertFacts(o, thread[o].rows)
    BY <1>0, <1>w, <1>s DEF StoreWindow, At, OperationOK, PlaceOK, PutCheckpoint, I, Continue,
                            NoHistory
<1>u. PICK u : u = [w EXCEPT !.pc = "count", !.rows = <<>>, !.outcome[w.at] = s]
    OBVIOUS
<1>2. [w.outcome EXCEPT ![w.at] = s] \in [Items(o) -> Marks]
    BY DEF Threads
<1>3. /\ u \in Threads(o) /\ u.pc = "count" /\ u.at = w.at
      /\ u.outcome = [w.outcome EXCEPT ![w.at] = s] /\ u.spent = w.spent /\ u.cost = w.cost
    BY <1>u, <1>2, NoRows DEF Threads, PCs
<1>4. thread'[o] = u /\ \A p \in Operation \ {o} : thread'[p] = thread[p]
    BY <1>0, <1>1, <1>u
<1>5. /\ u.outcome[w.at] = s /\ checkpoint'[o][w.at] = s /\ checkpoint'[o] \in [Items(o) -> Marks]
      /\ \A i \in Items(o) \ {w.at} :
            u.outcome[i] = w.outcome[i] /\ checkpoint'[o][i] = checkpoint[o][i]
      /\ \A p \in Operation \ {o} : checkpoint'[p] = checkpoint[p]
    BY <1>0, <1>1, <1>3 DEF OperationOK, RowOK, Threads
<1>6. /\ fact' \in [Key -> Value \union {Absent}] /\ wrote' \in [Operation -> SUBSET Key]
      /\ \A k \in Key : fact[k] # Absent => fact'[k] # Absent
      /\ \A p \in Operation \ {o} : wrote'[p] = wrote[p]
      /\ \A k \in Plan[o][w.at] : fact'[k] # Absent
    BY <1>w, <1>1, Inserted
<1>7. OperationOK(o)'
    <2>1. RowOK(o)'
        BY <1>0, <1>1, <1>3, <1>4, <1>5 DEF OperationOK, RowOK
    <2>2. PlaceOK(o)'
        BY <1>1, <1>3, <1>4 DEF PlaceOK
    <2>3. DoneOK(o)'
        <3>1. \A i \in Items(o) : Stored(o, i) => Stored(o, i)'
            BY <1>6, PlansHaveItems DEF Stored
        <3>2. ASSUME NEW i \in Items(o),
                     checkpoint'[o][i] = "success" \/ operation'[o].status = "success"
                        \/ u.outcome[i] = "success"
              PROVE  Stored(o, i)'
            <4>1. CASE i = w.at
                BY <1>6, <4>1 DEF Stored
            <4>2. CASE i # w.at
                BY <1>0, <1>w, <1>1, <1>5, <3>1, <3>2, <4>2 DEF OperationOK, DoneOK
            <4> QED BY <4>1, <4>2
        <3> QED BY <1>3, <1>4, <3>2 DEF DoneOK
    <2>4. AgreementOK(o)'
        <3>1. /\ operation[o].status \in Active
              /\ \A i \in Items(o) \ {w.at} : w.outcome[i] = checkpoint[o][i]
            BY <1>0, <1>w, <1>1 DEF OperationOK, AgreementOK, Running, InHand
        <3>2. \A i \in Items(o) : u.outcome[i] = checkpoint'[o][i]
            BY <1>5, <3>1
        <3> QED BY <1>1, <1>3, <1>4, <3>1, <3>2 DEF AgreementOK, Running, InHand, Active, Terminal
    <2>5. AllOrNothingOK(o)'
        BY <1>1 DEF AllOrNothingOK
    <2>6. SpendingOK(o)'
        BY <1>0, <1>w, <1>1, <1>3, <1>4, Debts
           DEF OperationOK, SpendingOK, RowOK, Running, InHand
    <2> QED BY <2>1, <2>2, <2>3, <2>4, <2>5, <2>6 DEF OperationOK
<1>8. /\ DOMAIN thread' = Operation /\ DOMAIN checkpoint' = Operation
      /\ operation' \in [Operation -> [status : Status, used : Nat]]
      /\ DOMAIN sent' = Operation /\ DOMAIN lost' = Operation
      /\ \A p \in Operation \ {o} :
            operation'[p] = operation[p] /\ sent'[p] = sent[p] /\ lost'[p] = lost[p]
    BY <1>0, <1>1
<1> QED BY <1>4, <1>5, <1>6, <1>7, <1>8, OneOperation

(* The transaction of an all-or-nothing operation, or of one membership *)
LEMMA StorePreserves ==
    ASSUME OperationsInv, NEW o \in Operation, StoreAll(o) \/ StoreMembership(o)
    PROVE  OperationsInv'
<1>0. /\ OperationOK(o) /\ DOMAIN thread = Operation /\ thread[o] \in Threads(o)
      /\ DOMAIN checkpoint = Operation /\ DOMAIN sent = Operation /\ DOMAIN lost = Operation
      /\ operation \in [Operation -> [status : Status, used : Nat]]
    BY DEF OperationsInv, OperationOK, RowOK
<1>w. PICK w \in Threads(o) : w = thread[o]
    BY <1>0
<1>1. /\ w.pc = "commit" /\ w.at \in Items(o) /\ Kind[o] # "backfill"
      /\ thread' = [thread EXCEPT ![o] = Decide(o, w, "success")]
      /\ UNCHANGED <<operation, checkpoint, sent, lost>>
      /\ InsertFacts(o, thread[o].rows)
    BY <1>0, <1>w DEF StoreAll, StoreMembership, AllOrNothing, MembershipStored, At, OperationOK,
                      PlaceOK, Continue, NoHistory
<1>2. thread'[o] = Decide(o, w, "success") /\ \A p \in Operation \ {o} : thread'[p] = thread[p]
    BY <1>0, <1>1
<1>3. /\ fact' \in [Key -> Value \union {Absent}] /\ wrote' \in [Operation -> SUBSET Key]
      /\ \A k \in Key : fact[k] # Absent => fact'[k] # Absent
      /\ \A p \in Operation \ {o} : wrote'[p] = wrote[p]
      /\ \A k \in Plan[o][w.at] : fact'[k] # Absent
    BY <1>w, <1>1, Inserted
<1>4. Stored(o, w.at)'
    BY <1>3 DEF Stored
<1>5. SpendingOK(o)'
    <2>1. thread'[o].pc \in {"item", "finish"} /\ thread'[o].spent = w.spent
        BY <1>2 DEF Decide, Threads
    <2> QED BY <1>0, <1>w, <1>1, <2>1 DEF OperationOK, SpendingOK
<1>6. OperationOK(o)'
    <2>1. /\ operation'[o].status \in {operation[o].status, "running"}
          /\ operation'[o].used \in Nat /\ operation'[o].used <= Budget[o]
          /\ checkpoint'[o] \in [Items(o) -> Marks] /\ sent'[o] \in Nat
          /\ "success" \in Marks
        BY <1>0, <1>1 DEF OperationOK, RowOK, Marks
    <2> QED BY <1>w, <1>1, <1>2, <1>3, <1>4, <1>5, <2>1, DecidedItem
<1>7. /\ DOMAIN thread' = Operation /\ DOMAIN checkpoint' = Operation
      /\ operation' \in [Operation -> [status : Status, used : Nat]]
      /\ DOMAIN sent' = Operation /\ DOMAIN lost' = Operation
      /\ \A p \in Operation \ {o} :
            /\ operation'[p] = operation[p] /\ checkpoint'[p] = checkpoint[p]
            /\ sent'[p] = sent[p] /\ lost'[p] = lost[p]
    BY <1>0, <1>1
<1> QED BY <1>2, <1>3, <1>6, <1>7, OneOperation

-----------------------------------------------------------------------------
(* Items decided without being stored, and windows counted *)

LEMMA ExhaustedPreserves ==
    ASSUME OperationsInv, NEW o \in Operation, WindowExhausted(o)
    PROVE  OperationsInv'
<1>0. /\ OperationOK(o) /\ DOMAIN thread = Operation /\ thread[o] \in Threads(o)
      /\ DOMAIN checkpoint = Operation
    BY DEF OperationsInv, OperationOK, RowOK
<1>w. PICK w \in Threads(o) : w = thread[o]
    BY <1>0
<1>1. /\ w.pc = "item" /\ w.at \in Items(o) /\ Kind[o] = "backfill"
      /\ thread' = [thread EXCEPT ![o] = Decide(o, w, "failed")]
      /\ checkpoint' = [checkpoint EXCEPT ![o][w.at] = "failed"]
      /\ UNCHANGED <<operation, fact, wrote, sent, lost>>
    BY <1>0, <1>w DEF WindowExhausted, AtWindow, At, I, Continue, PutCheckpoint, OnlyCheckpoint,
                      NoHistory, NoFacts, OperationOK, PlaceOK
<1>2. thread'[o] = Decide(o, w, "failed")
    BY <1>0, <1>1
<1>3. /\ checkpoint'[o] \in [Items(o) -> Marks] /\ checkpoint'[o][w.at] = "failed"
      /\ \A i \in Items(o) \ {w.at} : checkpoint'[o][i] = checkpoint[o][i]
    BY <1>0, <1>1 DEF OperationOK, RowOK, Marks
<1>4. SpendingOK(o)'
    <2>1. /\ thread'[o].pc \in {"item", "finish"} /\ thread'[o].cost = 0
          /\ thread'[o].spent = w.spent
        BY <1>2 DEF Decide, Threads
    <2> QED BY <1>0, <1>w, <1>1, <2>1, Debts, PlansHaveItems
            DEF OperationOK, SpendingOK, RowOK, Running, InHand
<1>5. OperationOK(o)'
    <2>1. /\ operation'[o].status \in {operation[o].status, "running"}
          /\ operation'[o].used \in Nat /\ operation'[o].used <= Budget[o]
          /\ sent'[o] \in Nat /\ "failed" \in Marks
        BY <1>0, <1>1 DEF OperationOK, RowOK, Marks
    <2> QED BY <1>w, <1>1, <1>2, <1>3, <1>4, <2>1, DecidedItem
<1> QED BY <1>1, <1>5, SameFacts DEF Continue

LEMMA CountPreserves ==
    ASSUME OperationsInv, NEW o \in Operation, CountRequests(o)
    PROVE  OperationsInv'
<1>0. /\ OperationOK(o) /\ DOMAIN thread = Operation /\ thread[o] \in Threads(o)
    BY DEF OperationsInv, OperationOK, RowOK
<1>n. PICK n \in Nat : n = thread[o].spent + thread[o].cost
    BY <1>0 DEF Threads
<1>w. PICK w : w = [thread[o] EXCEPT !.spent = n]
    OBVIOUS
<1>1. /\ w \in Threads(o) /\ w.at = thread[o].at /\ w.outcome = thread[o].outcome
      /\ w.spent = n
    BY <1>0, <1>w DEF Threads
<1>2. thread[o].pc = "count" /\ w.at \in Items(o) /\ Kind[o] = "backfill"
    BY <1>0, <1>1 DEF CountRequests, At, OperationOK, PlaceOK
<1>s. PICK s \in Marks : s = w.outcome[w.at]
    BY <1>1, <1>2 DEF Threads
<1>3. /\ thread' = [thread EXCEPT ![o] = Decide(o, w, s)]
      /\ PutOperation(o, "running", n)
      /\ UNCHANGED <<checkpoint, fact, wrote, sent, lost>>
    BY <1>n, <1>w, <1>1, <1>s DEF CountRequests, Total, I, Continue, OnlyOperation, NoHistory, NoFacts
<1>4. /\ operation' = [operation EXCEPT ![o] = [status |-> "running", used |-> n]]
      /\ operation'[o].status = "running" /\ operation'[o].used = n /\ n <= Budget[o]
    BY <1>3, PutRow DEF Status, Active
<1>5. thread'[o] = Decide(o, w, s)
    BY <1>0, <1>3
<1>6. checkpoint[o][w.at] = s
    BY <1>0, <1>1, <1>2, <1>s DEF OperationOK, AgreementOK, Running, InHand
<1>7. s = "success" => Stored(o, w.at)'
    BY <1>0, <1>1, <1>2, <1>3, <1>s DEF OperationOK, DoneOK, Stored
<1>8. SpendingOK(o)'
    <2>1. /\ thread'[o].pc \in {"item", "finish"} /\ thread'[o].cost = 0
          /\ thread'[o].spent = n
        BY <1>1, <1>5 DEF Decide, Threads
    <2> QED BY <1>0, <1>n, <1>2, <1>3, <1>4, <2>1, Debts, PlansHaveItems
            DEF OperationOK, SpendingOK, RowOK, Running, InHand
<1>9. OperationOK(o)'
    <2>1. checkpoint'[o] \in [Items(o) -> Marks] /\ sent'[o] \in Nat
        BY <1>0, <1>3 DEF OperationOK, RowOK
    <2> QED BY <1>1, <1>2, <1>3, <1>4, <1>5, <1>6, <1>7, <1>8, <2>1, DecidedItem
<1> QED BY <1>3, <1>4, <1>9, SameFacts DEF Continue, Status, Active

LEMMA LosePreserves ==
    ASSUME OperationsInv, NEW o \in Operation, LoseMembership(o)
    PROVE  OperationsInv'
<1>0. /\ OperationOK(o) /\ DOMAIN thread = Operation /\ thread[o] \in Threads(o)
      /\ DOMAIN sent = Operation
    BY DEF OperationsInv, OperationOK, RowOK
<1>b. /\ Budget[o] \in Nat /\ MaxRequests \in Nat /\ thread[o].spent \in Nat
    BY <1>0, PlansHaveItems DEF Threads
<1>c. PICK cost \in 0 .. MaxRequests :
          Sends(o, cost, Decide(o, [thread[o] EXCEPT !.spent = thread[o].spent + cost], "failed"))
    BY DEF LoseMembership
<1>n. PICK n \in Nat : n = thread[o].spent + cost
    BY <1>b
<1>w. PICK w : w = [thread[o] EXCEPT !.spent = n]
    OBVIOUS
<1>1. /\ w \in Threads(o) /\ w.at = thread[o].at /\ w.outcome = thread[o].outcome
      /\ w.spent = n
    BY <1>0, <1>w DEF Threads
<1>2. /\ thread[o].pc = "item" /\ w.at \in Items(o) /\ Kind[o] # "backfill"
      /\ thread[o].spent < Budget[o]
    BY <1>0, <1>b, <1>1 DEF LoseMembership, AtMembership, At, Exhausted, OperationOK, PlaceOK
<1>3. /\ thread' = [thread EXCEPT ![o] = Decide(o, w, "failed")]
      /\ sent' = [sent EXCEPT ![o] = sent[o] + cost]
      /\ UNCHANGED <<operation, checkpoint, fact, wrote, lost>>
    BY <1>c, <1>n, <1>w DEF Sends, Continue, storeVars
<1>4. thread'[o] = Decide(o, w, "failed") /\ sent'[o] = sent[o] + cost
    BY <1>0, <1>3
<1>5. sent'[o] = n
    BY <1>0, <1>n, <1>2, <1>4 DEF OperationOK, SpendingOK
<1>6. SpendingOK(o)'
    <2>1. thread'[o].pc \in {"item", "finish"} /\ thread'[o].spent = n
        BY <1>1, <1>4 DEF Decide, Threads
    <2>2. n < Budget[o] + MaxRequests
        BY <1>b, <1>n, <1>2
    <2> QED BY <1>2, <1>5, <2>1, <2>2 DEF SpendingOK
<1>7. OperationOK(o)'
    <2>1. /\ operation'[o].status \in {operation[o].status, "running"}
          /\ operation'[o].used \in Nat /\ operation'[o].used <= Budget[o]
          /\ checkpoint'[o] \in [Items(o) -> Marks] /\ "failed" \in Marks
        BY <1>0, <1>3 DEF OperationOK, RowOK, Marks
    <2> QED BY <1>1, <1>2, <1>3, <1>4, <1>5, <1>6, <2>1, DecidedItem
<1> QED BY <1>3, <1>7, SameFacts DEF Continue

LEMMA DropPreserves ==
    ASSUME OperationsInv, NEW o \in Operation, DropMembership(o)
    PROVE  OperationsInv'
<1>0. /\ OperationOK(o) /\ DOMAIN thread = Operation /\ thread[o] \in Threads(o)
    BY DEF OperationsInv, OperationOK, RowOK
<1>w. PICK w \in Threads(o) : w = thread[o]
    BY <1>0
<1>s. PICK s \in Marks : s # "success" /\ thread' = [thread EXCEPT ![o] = Decide(o, w, s)]
    BY <1>w DEF DropMembership, Continue, Marks
<1>1. /\ w.pc = "commit" /\ w.at \in Items(o) /\ Kind[o] # "backfill"
      /\ UNCHANGED <<operation, checkpoint, fact, wrote, sent, lost>>
    BY <1>0, <1>w DEF DropMembership, MembershipStored, At, OnlyThread, storeVars, OperationOK,
                      PlaceOK
<1>2. thread'[o] = Decide(o, w, s)
    BY <1>0, <1>s
<1>3. SpendingOK(o)'
    <2>1. thread'[o].pc \in {"item", "finish"} /\ thread'[o].spent = w.spent
        BY <1>2 DEF Decide, Threads
    <2> QED BY <1>0, <1>w, <1>1, <2>1 DEF OperationOK, SpendingOK
<1>4. OperationOK(o)'
    <2>1. /\ operation'[o].status \in {operation[o].status, "running"}
          /\ operation'[o].used \in Nat /\ operation'[o].used <= Budget[o]
          /\ checkpoint'[o] \in [Items(o) -> Marks] /\ sent'[o] \in Nat
        BY <1>0, <1>1 DEF OperationOK, RowOK
    <2> QED BY <1>w, <1>s, <1>1, <1>2, <1>3, <2>1, DecidedItem
<1> QED BY <1>s, <1>1, <1>4, SameFacts DEF Continue

-----------------------------------------------------------------------------
(* Verdicts *)

(* What a thread leaves when it records its verdict and ends *)
LEMMA VerdictPreserves ==
    ASSUME OperationsInv, NEW o \in Operation, NEW s \in Terminal,
           thread[o].pc \in {"finish", "fail"},
           PutOperation(o, s, thread[o].spent), Exit(o), OnlyOperation,
           s = "success" => \A i \in Items(o) : thread[o].outcome[i] = "success",
           Kind[o] = "backfill" => thread[o].pc = "finish" /\ s = Verdict(checkpoint[o]),
           Kind[o] # "backfill" /\ s = "failed" => thread[o].pc = "fail"
    PROVE  OperationsInv'
<1>0. /\ OperationOK(o) /\ DOMAIN thread = Operation /\ thread[o] \in Threads(o)
    BY DEF OperationsInv, OperationOK, RowOK
<1>n. PICK n \in Nat : n = thread[o].spent
    BY <1>0 DEF Threads
<1>1. /\ operation' = [operation EXCEPT ![o] = [status |-> s, used |-> n]]
      /\ operation'[o].status = s /\ operation'[o].used = n /\ n <= Budget[o] /\ s \in Status
    BY <1>n, PutRow DEF Status
<1>2. thread' = [thread EXCEPT ![o] = [Fresh(o) EXCEPT !.pc = "gone"]]
      /\ UNCHANGED <<checkpoint, fact, wrote, sent, lost>>
    BY DEF Exit, Continue, OnlyOperation, NoHistory, NoFacts
<1>3. /\ thread'[o] \in Threads(o) /\ thread'[o].pc = "gone"
      /\ \A i \in Items(o) : thread'[o].outcome[i] = "none"
    BY <1>0, <1>2, FreshThread
<1>4. OperationOK(o)'
    <2>1. RowOK(o)'
        BY <1>0, <1>1, <1>2, <1>3 DEF OperationOK, RowOK
    <2>2. PlaceOK(o)'
        BY <1>3 DEF PlaceOK
    <2>3. DoneOK(o)'
        <3>1. ASSUME NEW i \in Items(o), checkpoint[o][i] = "success" \/ s = "success"
              PROVE  Stored(o, i)
            BY <1>0, <3>1 DEF OperationOK, DoneOK
        <3> QED BY <1>1, <1>2, <1>3, <3>1 DEF DoneOK, Stored
    <2>4. AgreementOK(o)'
        BY <1>1, <1>2, <1>3 DEF AgreementOK, Running, InHand
    <2>5. AllOrNothingOK(o)'
        BY <1>0, <1>1, <1>2, <1>3 DEF OperationOK, AllOrNothingOK
    <2>6. SpendingOK(o)'
        BY <1>0, <1>n, <1>1, <1>2, <1>3, Debts
           DEF OperationOK, SpendingOK, RowOK, Running, InHand
    <2> QED BY <2>1, <2>2, <2>3, <2>4, <2>5, <2>6 DEF OperationOK
<1> QED BY <1>1, <1>2, <1>4, SameFacts DEF Continue

LEMMA FinishBackfillPreserves ==
    ASSUME OperationsInv, NEW o \in Operation, FinishBackfill(o)
    PROVE  OperationsInv'
<1>0. OperationOK(o) /\ thread[o].pc = "finish" /\ Kind[o] = "backfill"
    BY DEF OperationsInv, FinishBackfill, At
<1>1. thread[o].outcome \in [Items(o) -> Marks] /\ checkpoint[o] \in [Items(o) -> Marks]
    BY <1>0 DEF OperationOK, RowOK, Threads
<1>2. thread[o].outcome = checkpoint[o]
    BY <1>0, <1>1 DEF OperationOK, AgreementOK, Running, InHand
<1>3. PICK s : s = Verdict(checkpoint[o])
    OBVIOUS
<1>4. s \in Terminal /\ (s = "success" => \A i \in Items(o) : thread[o].outcome[i] = "success")
    BY <1>1, <1>2, <1>3, Verdicts
<1>5. PutOperation(o, s, thread[o].spent) /\ Exit(o) /\ OnlyOperation
    BY <1>2, <1>3 DEF FinishBackfill
<1> QED BY <1>0, <1>3, <1>4, <1>5, VerdictPreserves

LEMMA FinishPreserves ==
    ASSUME OperationsInv, NEW o \in Operation, Finish(o)
    PROVE  OperationsInv'
<1>1. Kind[o] # "backfill" /\ thread[o].pc = "finish"
    BY DEF Finish, At
<1>2. PICK s \in {"success", "partial"} :
          /\ s = "success" => \A i \in Items(o) : thread[o].outcome[i] = "success"
          /\ PutOperation(o, s, thread[o].spent)
    BY DEF Finish
<1>3. Exit(o) /\ OnlyOperation
    BY DEF Finish
<1> QED BY <1>1, <1>2, <1>3, VerdictPreserves DEF Terminal

LEMMA FailPreserves ==
    ASSUME OperationsInv, NEW o \in Operation, Fail(o)
    PROVE  OperationsInv'
BY VerdictPreserves DEF Fail, At, Terminal

-----------------------------------------------------------------------------
(* The invariant *)

LEMMA InvInit == Init => OperationsInv
<1> SUFFICES ASSUME Init PROVE OperationsInv
    OBVIOUS
<1>1. /\ DOMAIN thread = Operation /\ DOMAIN checkpoint = Operation
      /\ DOMAIN sent = Operation /\ DOMAIN lost = Operation
      /\ operation \in [Operation -> [status : Status, used : Nat]]
      /\ fact \in [Key -> Value \union {Absent}] /\ wrote \in [Operation -> SUBSET Key]
    BY StoreAssumption DEF Init, StoreInit, Status
<1>2. ASSUME NEW o \in Operation PROVE OperationOK(o)
    <2>1. thread[o] = Fresh(o) /\ Fresh(o) \in Threads(o)
        BY FreshThread DEF Init
    <2>2. /\ thread[o].pc = "idle" /\ thread[o].at = 1 /\ thread[o].spent = 0
          /\ \A i \in Items(o) : thread[o].outcome[i] = "none"
        BY <2>1 DEF Fresh
    <2>3. /\ operation[o].status = "none" /\ operation[o].used = 0
          /\ checkpoint[o] = [i \in Items(o) |-> "none"]
          /\ sent[o] = 0 /\ lost[o] = 0 /\ wrote[o] = {}
        BY DEF Init, StoreInit
    <2>4. RowOK(o)
        BY <2>1, <2>3, PlansHaveItems DEF RowOK, Status, Marks
    <2>5. PlaceOK(o) /\ DoneOK(o)
        BY <2>2, <2>3, PlansHaveItems DEF PlaceOK, DoneOK
    <2>6. AgreementOK(o) /\ AllOrNothingOK(o) /\ SpendingOK(o)
        BY <2>2, <2>3, PlansHaveItems
           DEF AgreementOK, AllOrNothingOK, SpendingOK, Running, InHand, Terminal
    <2> QED BY <2>4, <2>5, <2>6 DEF OperationOK
<1> QED BY <1>1, <1>2 DEF OperationsInv

LEMMA InvNext == OperationsInv /\ [Next]_vars => OperationsInv'
<1> SUFFICES ASSUME OperationsInv, [Next]_vars PROVE OperationsInv'
    OBVIOUS
<1>1. ASSUME NEW o \in Operation, Start(o) PROVE OperationsInv'
    BY <1>1, StartPreserves
<1>2. ASSUME NEW o \in Operation, BeginBackfill(o) \/ Resume(o) PROVE OperationsInv'
    <2>1. /\ Kind[o] = "backfill" /\ Load(o) /\ thread[o].pc \in {"queued", "gone"}
          /\ UNCHANGED <<checkpoint, fact, wrote, sent, lost>>
        BY <1>2 DEF BeginBackfill, Resume, At, OnlyOperation, NoHistory, NoFacts
    <2> QED BY <2>1, LoadPreserves
<1>3. ASSUME NEW o \in Operation, NEW cause, Abandon(o, cause), thread[o].pc \notin {"idle", "gone"}
      PROVE  OperationsInv'
    BY <1>3, AbandonPreserves DEF Alive
<1>4. ASSUME NEW o \in Operation, RunBackfill(o) PROVE OperationsInv'
    <2>1. CASE BeginBackfill(o)       BY <1>2, <2>1
    <2>2. CASE SkipWindow(o)          BY <2>2, SkipPreserves
    <2>3. CASE WindowExhausted(o)     BY <2>3, ExhaustedPreserves
    <2>4. CASE OpenWindow(o)          BY <2>4, OpenWindowPreserves
    <2>5. CASE UnknownSector(o)       BY <1>3, <2>5 DEF UnknownSector, AtWindow, At
    <2>6. CASE FetchWindow(o)         BY <2>6, FetchPreserves
    <2>7. CASE StoreWindow(o)         BY <2>7, StoreWindowPreserves
    <2>8. CASE StoreWindowRaises(o)   BY <2>8, RaisesPreserves
    <2>9. CASE FailWindow(o)          BY <2>9, FailWindowPreserves
    <2>10. CASE CountRequests(o)      BY <2>10, CountPreserves
    <2>11. CASE CountOverrun(o)       BY <1>3, <2>11 DEF CountOverrun, At
    <2>12. CASE FinishBackfill(o)     BY <2>12, FinishBackfillPreserves
    <2> QED BY <1>4, <2>1, <2>2, <2>3, <2>4, <2>5, <2>6, <2>7, <2>8, <2>9, <2>10, <2>11, <2>12
            DEF RunBackfill
<1>5. ASSUME NEW o \in Operation, RunAllOrNothing(o) PROVE OperationsInv'
    <2>1. CASE Begin(o)               BY <2>1, BeginPreserves
    <2>2. CASE FetchCatalog(o)        BY <2>2, FetchPreserves
    <2>3. CASE ReadDumps(o)           BY <2>3, ReadDumpsPreserves
    <2>4. CASE StoreAll(o)            BY <2>4, StorePreserves
    <2>5. CASE StoreAllRaises(o)      BY <2>5, RaisesPreserves
    <2>6. CASE MembershipExhausted(o) BY <2>6, SkipPreserves
    <2>7. CASE FetchMembership(o)     BY <2>7, FetchPreserves
    <2>8. CASE LoseMembership(o)      BY <2>8, LosePreserves
    <2>9. CASE StoreMembership(o)     BY <2>9, StorePreserves
    <2>10. CASE DropMembership(o)     BY <2>10, DropPreserves
    <2>11. CASE Finish(o)             BY <2>11, FinishPreserves
    <2>12. CASE Fail(o)               BY <2>12, FailPreserves
    <2>13. CASE Overrun(o)            BY <1>3, <2>13 DEF Overrun
    <2> QED BY <1>5, <2>1, <2>2, <2>3, <2>4, <2>5, <2>6, <2>7, <2>8, <2>9, <2>10, <2>11, <2>12,
               <2>13 DEF RunAllOrNothing
<1>6. ASSUME NEW o \in Operation, Run(o) PROVE OperationsInv'
    <2>1. CASE Rejected(o)            BY <2>1, RejectedPreserves
    <2>2. CASE GateRefuses(o)         BY <1>3, <2>2 DEF GateRefuses, At
    <2>3. CASE Select(o)              BY <2>3, SelectPreserves
    <2> QED BY <1>4, <1>5, <1>6, <2>1, <2>2, <2>3 DEF Run
<1>7. CASE Crash
    BY <1>7, CrashPreserves
<1>8. CASE UNCHANGED vars
    <2>1. UNCHANGED <<thread, operation, checkpoint, fact, wrote, sent, lost>>
        BY <1>8 DEF vars, storeVars
    <2> QED BY <2>1 DEF OperationsInv, OperationOK, RowOK, PlaceOK, DoneOK, AgreementOK,
                        AllOrNothingOK, SpendingOK, Debt, Stored
<1> QED BY <1>1, <1>2, <1>6, <1>7, <1>8 DEF Next

THEOREM Operations == Spec => []OperationsInv
BY InvInit, InvNext, PTL DEF Spec

-----------------------------------------------------------------------------
(* What follows from it *)

(* A window or operation that says success has stored everything, for any  *)
(* plan and any interleaving: put_backfill_checkpoint in the transaction   *)
(* of the bars, the run's verdict after all of them.                       *)
THEOREM SuccessIsStored == Spec => []SuccessMeansStored
<1>1. OperationsInv => SuccessMeansStored
    BY DEF OperationsInv, OperationOK, DoneOK, SuccessMeansStored
<1> QED BY <1>1, Operations, PTL

(* A failed catalog sync or import left nothing: one transaction each.     *)
THEOREM FailuresStoreNothing == Spec => []FailedOperationStoredNothing
<1>1. OperationsInv => FailedOperationStoredNothing
    BY DEF OperationsInv, OperationOK, AllOrNothingOK, FailedOperationStoredNothing, Backfills
<1> QED BY <1>1, Operations, PTL

(* The verdict of a backfill is that of its checkpoint rows.               *)
THEOREM VerdictsMatchWindows == Spec => []VerdictMatchesWindows
<1>1. OperationsInv => VerdictMatchesWindows
    BY DEF OperationsInv, OperationOK, AgreementOK, VerdictMatchesWindows, Backfills
<1> QED BY <1>1, Operations, PTL

(* The provider never receives more than the budget, but for less than one *)
(* fetch more in each execution: the comparison with request_budget.       *)
THEOREM BudgetHolds == Spec => []BudgetIsKept
<1>1. ASSUME OperationsInv, NEW o \in Operation
      PROVE  sent[o] < Budget[o] + MaxRequests * (1 + lost[o])
    <2>1. /\ OperationOK(o) /\ Budget[o] \in Nat \ {0} /\ MaxRequests \in Nat \ {0}
          /\ lost[o] \in Nat /\ sent[o] \in Nat /\ operation[o].used \in Nat
          /\ operation[o].used <= Budget[o]
          /\ thread[o].pc \in PCs /\ thread[o].spent \in Nat /\ thread[o].cost \in Nat
        BY <1>1, PlansHaveItems DEF OperationsInv, OperationOK, RowOK, Threads
    <2>2. Debt(o) \in Nat
        BY <2>1, Debts
    <2>3. MaxRequests * (1 + lost[o]) = MaxRequests + Debt(o)
        <3>1. ASSUME NEW m \in Nat, NEW n \in Nat PROVE m * (1 + n) = m + m * n
            OBVIOUS
        <3> QED BY <2>1, <3>1 DEF Debt
    <2>4. CASE Kind[o] = "backfill" /\ thread[o].pc \in Running
        BY <2>1, <2>2, <2>3, <2>4 DEF OperationOK, SpendingOK, Running, InHand
    <2>5. CASE Kind[o] = "backfill" /\ thread[o].pc \notin Running
        <3>1. thread[o].pc \in {"idle", "queued", "gone"}
            BY <2>1, <2>5 DEF PCs, Running, InHand
        <3> QED BY <2>1, <2>2, <2>3, <2>5, <3>1 DEF OperationOK, SpendingOK, PlaceOK
    <2>6. CASE Kind[o] # "backfill"
        BY <2>1, <2>2, <2>3, <2>6 DEF OperationOK, SpendingOK
    <2> QED BY <2>4, <2>5, <2>6
<1>2. OperationsInv => BudgetIsKept
    BY <1>1 DEF BudgetIsKept
<1> QED BY <1>2, Operations, PTL

(* What the row of a decided operation reports was sent, if no execution   *)
(* of it was lost: the requests of failed fetches are counted too.         *)
THEOREM ReportsMatchRequests == Spec => []ReportedRequestsWereSent
<1>1. ASSUME OperationsInv, NEW o \in Operation,
             operation[o].status \in Terminal, ~ Alive(o), lost[o] = 0
      PROVE  operation[o].used = sent[o]
    <2>1. OperationOK(o) /\ sent[o] \in Nat /\ operation[o].used \in Nat
        BY <1>1 DEF OperationsInv, OperationOK, RowOK
    <2>2. thread[o].pc = "gone"
        BY <1>1, <2>1 DEF OperationOK, PlaceOK, Alive, Terminal
    <2> QED BY <1>1, <2>1, <2>2 DEF OperationOK, SpendingOK
<1>2. OperationsInv => ReportedRequestsWereSent
    BY <1>1 DEF ReportedRequestsWereSent
<1> QED BY <1>2, Operations, PTL

-----------------------------------------------------------------------------
(* What no step undoes *)

FactsStay == \A k \in Key : fact[k] # Absent => fact'[k] = fact[k]

MarksStay ==
    \A o \in Operation : \A i \in Items(o) :
        checkpoint[o][i] = "success" => checkpoint'[o][i] = "success"

LEMMA FactsStayStored ==
    ASSUME OperationsInv, Next
    PROVE  FactsStay
<1>1. ASSUME NEW o \in Operation,
             StoreWindow(o) \/ StoreAll(o) \/ StoreMembership(o)
      PROVE  FactsStay
    <2>1. thread[o].pc = "commit" /\ InsertFacts(o, thread[o].rows)
        BY <1>1 DEF StoreWindow, StoreAll, StoreMembership, AllOrNothing, MembershipStored, At
    <2> QED BY <2>1, Inserted DEF FactsStay
<1>2. ASSUME NEW o \in Operation,
             Start(o) \/ Resume(o) \/ Rejected(o) \/ GateRefuses(o) \/ Select(o)
      PROVE  fact' = fact
    BY <1>2 DEF Start, Resume, Rejected, GateRefuses, Select, Abandon, OnlyOperation, OnlyThread,
                NoFacts, storeVars
<1>3. ASSUME NEW o \in Operation, RunBackfill(o), ~ StoreWindow(o)
      PROVE  fact' = fact
    BY <1>3 DEF RunBackfill, BeginBackfill, SkipWindow, WindowExhausted, OpenWindow, UnknownSector,
                FetchWindow, StoreWindowRaises, FailWindow, CountRequests, CountOverrun,
                FinishBackfill, Abandon, Sends, OnlyOperation, OnlyCheckpoint, OnlyThread, NoFacts,
                storeVars
<1>4. ASSUME NEW o \in Operation, RunAllOrNothing(o), ~ StoreAll(o), ~ StoreMembership(o)
      PROVE  fact' = fact
    BY <1>4 DEF RunAllOrNothing, Begin, FetchCatalog, ReadDumps, StoreAllRaises,
                MembershipExhausted, FetchMembership, LoseMembership, DropMembership, Finish, Fail,
                Overrun, Abandon, Sends, OnlyOperation, OnlyThread, NoFacts, storeVars
<1>5. CASE Crash
    BY <1>5 DEF Crash, storeVars, FactsStay
<1>6. fact' = fact => FactsStay
    BY DEF FactsStay
<1> QED BY <1>1, <1>2, <1>3, <1>4, <1>5, <1>6 DEF Next, Run

LEMMA MarksStaySuccessful ==
    ASSUME OperationsInv, Next
    PROVE  MarksStay
<1>1. ASSUME NEW o \in Operation,
             WindowExhausted(o) \/ OpenWindow(o) \/ StoreWindow(o) \/ FailWindow(o)
      PROVE  MarksStay
    <2>0. /\ OperationOK(o) /\ thread[o] \in Threads(o) /\ DOMAIN checkpoint = Operation
          /\ checkpoint[o] \in [Items(o) -> Marks] /\ Kind[o] = "backfill"
          /\ thread[o].pc \in {"item", "commit", "fail"} /\ thread[o].at \in Items(o)
        BY <1>1 DEF OperationsInv, OperationOK, RowOK, PlaceOK, WindowExhausted, OpenWindow,
                    StoreWindow, FailWindow, AtWindow, At
    <2>1. PICK s : checkpoint' = [checkpoint EXCEPT ![o][thread[o].at] = s]
        BY <1>1 DEF WindowExhausted, OpenWindow, StoreWindow, FailWindow, PutCheckpoint, I
    <2>2. checkpoint[o][thread[o].at] # "success"
        <3>1. CASE thread[o].pc = "item"
            <4>1. thread[o].outcome[thread[o].at] # "success"
                BY <1>1, <3>1 DEF WindowExhausted, OpenWindow, StoreWindow, FailWindow, At,
                                  Decided, I
            <4> QED BY <2>0, <3>1, <4>1 DEF OperationOK, AgreementOK, Running, InHand
        <3>2. CASE thread[o].pc # "item"
            BY <2>0, <3>2 DEF OperationOK, AgreementOK, InHand
        <3> QED BY <3>1, <3>2
    <2>3. ASSUME NEW p \in Operation, NEW i \in Items(p), checkpoint[p][i] = "success"
          PROVE  checkpoint'[p][i] = "success"
        <3>1. CASE p = o
            BY <2>0, <2>1, <2>2, <2>3, <3>1
        <3>2. CASE p # o
            BY <2>0, <2>1, <2>3, <3>2
        <3> QED BY <3>1, <3>2
    <2> QED BY <2>3 DEF MarksStay
<1>2. ASSUME NEW o \in Operation,
             Start(o) \/ Resume(o) \/ Rejected(o) \/ GateRefuses(o) \/ Select(o)
      PROVE  checkpoint' = checkpoint
    BY <1>2 DEF Start, Resume, Rejected, GateRefuses, Select, Abandon, OnlyOperation, OnlyThread,
                storeVars
<1>3. ASSUME NEW o \in Operation, RunBackfill(o), ~ WindowExhausted(o), ~ OpenWindow(o),
             ~ StoreWindow(o), ~ FailWindow(o)
      PROVE  checkpoint' = checkpoint
    BY <1>3 DEF RunBackfill, BeginBackfill, SkipWindow, UnknownSector, FetchWindow,
                StoreWindowRaises, CountRequests, CountOverrun, FinishBackfill, Abandon, Sends,
                OnlyOperation, OnlyThread, storeVars
<1>4. ASSUME NEW o \in Operation, RunAllOrNothing(o)
      PROVE  checkpoint' = checkpoint
    BY <1>4 DEF RunAllOrNothing, Begin, FetchCatalog, ReadDumps, StoreAll, StoreAllRaises,
                MembershipExhausted, FetchMembership, LoseMembership, StoreMembership,
                DropMembership, Finish, Fail, Overrun, Abandon, Sends, OnlyOperation, OnlyThread,
                storeVars
<1>5. CASE Crash
    BY <1>5 DEF Crash, storeVars, MarksStay
<1>6. checkpoint' = checkpoint => MarksStay
    BY DEF MarksStay
<1> QED BY <1>1, <1>2, <1>3, <1>4, <1>5, <1>6 DEF Next, Run

(* A fact is never overwritten, and a window that succeeded stays so, with *)
(* resumed runs, conflicting stores and restarts in between.               *)
THEOREM WhatIsDoneStays == Spec => DoneStaysDone
<1>1. OperationsInv /\ [Next]_vars =>
          [/\ \A k \in Key : fact[k] # Absent => fact'[k] = fact[k]
           /\ \A o \in Operation : \A i \in Items(o) :
                 checkpoint[o][i] = "success" => checkpoint'[o][i] = "success"]_vars
    BY FactsStayStored, MarksStaySuccessful DEF FactsStay, MarksStay
<1> QED BY <1>1, Operations, PTL DEF Spec, DoneStaysDone


-----------------------------------------------------------------------------
(* II. The collections of the datasets (DatasetCollection)                 *)

(* A day is over when its data is final. *)
Over(day) == day = P \/ phase >= 2

(* What a collection may have so far and what may be stored, for a day: data *)
(* of that day, and final if it is called settled. *)
CandidateOK(x, day) ==
    x \in Candidates /\ x.day = day /\ (x.settled /\ x.source # "union" => x.final)

ReadingOK(x, day) == x.day = day /\ (x.final => Over(day))

(* What was read afresh is final if the plan began on a day that is over,  *)
(* or if something stored was final, for then the day is over too.         *)
CoreDraftOK(c, d) ==
    /\ d \in CoreDrafts
    /\ \A i \in DOMAIN d.stored : ReadingOK(d.stored[i], c.day)
    /\ \A i \in DOMAIN d.indices :
        /\ ReadingOK(d.indices[i].reading, c.day)
        /\ d.indices[i].retained \/ d.indices[i].reading.final
            \/ ~ (c.settled \/ \E j \in DOMAIN d.stored : d.stored[j].final)
    /\ \A n \in 1 .. Len(IndexOrder) :
        n + 1 < c.step /\ IndexOrder[n] \in DOMAIN d.stored => IndexOrder[n] \in DOMAIN d.indices

(* Facts are immutable, so what was read of them is still there. *)
EvidenceOK(x) == x.revision \in DOMAIN facts.rankings /\ facts.rankings[x.revision] = x.value

(* A draft x of the plan c; a plan, and a collection with its plan *)
DraftOK(c, x) ==
    /\ c.dataset \in Snapshot => CandidateOK(x, c.day)
    /\ c.dataset = "core" => CoreDraftOK(c, x)
    /\ c.dataset \in Ths => x \in Evidence
    /\ c.dataset \in Ths \ {"industry-ranking"} => EvidenceOK(x)

PlanOK(c) ==
    /\ c.settled => Over(c.day)
    /\ c.dataset = "core" => ~ c.stopped
    /\ c.dataset \notin Snapshot /\ c.step > 1 /\ ~ c.stopped => c.draft # None
    /\ c.draft # None => DraftOK(c, c.draft)

CollectionOK(r) ==
    /\ r.plan.dataset = r.key[1]
    /\ r.plan.day = IF r.at = "previous" THEN P ELSE r.key[2]
    /\ r.at = "preparing" => r.key[1] = "limits"
    /\ r.at \in {"taking", "previous"} => r.key = <<"limits", D>>
    /\ r.previous # None => r.key = <<"limits", D>> /\ CandidateOK(r.previous, P)
    /\ PlanOK(r.plan)

(* What is stored under a key *)
CoreData == [settled : BOOLEAN, indices : Partial(Indices, Reading), fresh : SUBSET Indices]
Saved == [id : Nat, base : Nat, data : Candidates \union CoreData \union Evidence]

StoredOK(k, x) ==
    /\ k[1] \in Snapshot => CandidateOK(x, k[2])
    /\ k[1] = "core" =>
        /\ x \in CoreData
        /\ x.fresh \subseteq DOMAIN x.indices
        /\ \A i \in DOMAIN x.indices : ReadingOK(x.indices[i], k[2])
        /\ x.settled => \A i \in x.fresh : x.indices[i].final
    /\ k[1] \in Ths => x \in Evidence /\ EvidenceOK(x)
    /\ k[1] = "sector-breadth" /\ x.value \notin Thin =>
        x.revision \in DOMAIN facts.breadth /\ facts.breadth[x.revision] = x.limits

(* Whoever holds a lease has seen what is stored under it. *)
HasSeen(r, k) ==
    /\ r # None /\ r.base[k] = StoredId(k)
    /\ k = r.key /\ k[1] = "core" /\ r.plan.draft # None =>
        r.plan.draft.stored = IndicesOf(stored[k])

FactsTypeOK ==
    /\ facts = [revisions |-> facts.revisions, rankings |-> facts.rankings,
                breadth |-> facts.breadth]
    /\ facts.revisions \in Seq(Catalogs)
    /\ facts.rankings \in Partial(Catalogs, Values)
    /\ \E X \in SUBSET Catalogs : facts.breadth \in [X -> Nat]

DatasetTypeOK ==
    /\ phase \in 0 .. 3 /\ scope \in Scopes
    /\ provider \in [catalog : Catalogs, value : Values] /\ limitsSeen \in Nat
    /\ FactsTypeOK
    /\ lease \in [Keys -> Workers \union {NoOne}]
    /\ worker \in [Workers -> Collections \union {None}]
    /\ stored \in [Keys -> Saved \union {None}]
    /\ started \in Nat

DatasetInv ==
    /\ DatasetTypeOK
    /\ \A n \in DOMAIN facts.revisions : facts.revisions[n] \in DOMAIN facts.rankings
    /\ \A w \in Workers : worker[w] # None => CollectionOK(worker[w])
    /\ \A k \in Keys : stored[k] # None => StoredOK(k, stored[k].data)
    /\ \A k \in Keys : lease[k] # NoOne => HasSeen(worker[lease[k]], k)

-----------------------------------------------------------------------------
(* Partial functions, days and the facts *)

LEMMA PartialIs ==
    ASSUME NEW S, NEW T, NEW f \in Partial(S, T)
    PROVE  /\ DOMAIN f \subseteq S
           /\ f \in [DOMAIN f -> T]
<1>1. PICK X \in SUBSET S : f \in [X -> T]
    BY DEF Partial
<1> QED
    BY <1>1

LEMMA PartialOf ==
    ASSUME NEW S, NEW T, NEW X \in SUBSET S, NEW f \in [X -> T]
    PROVE  f \in Partial(S, T)
    BY DEF Partial

LEMMA OnceOver ==
    ASSUME phase \in 0 .. 3, NEW day \in Days
    PROVE  /\ IsSettled(day) <=> Over(day)
           /\ DatedSession(day) \in Reading
           /\ DatedSession(day).day = day
           /\ DatedSession(day).final <=> Over(day)
           /\ LatestSession \in Reading
           /\ Over(D) => LatestSession.day = D /\ LatestSession.final
           /\ LatestSession.day = D /\ LatestSession.final => Over(D)
           /\ Today \in {D, D + 1}
           /\ HistoryTail(day) \in Reading
           /\ HistoryTail(day).day = day => (HistoryTail(day).final <=> Over(day))
<1>1. day = P \/ day = D
    BY DEF Days
<1>2. phase = 0 \/ phase = 1 \/ phase = 2 \/ phase = 3
    OBVIOUS
<1>3. P = 1 /\ D = 2
    BY DEF P, D
<1>4. IsSettled(day) <=> Over(day)
    BY <1>1, <1>2, <1>3 DEF IsSettled, Over, Today
<1>5. Today \in {D, D + 1}
    BY DEF Today
<1>6. /\ DatedSession(day) \in Reading /\ DatedSession(day).day = day
      /\ DatedSession(day).final <=> Over(day)
    <2> DEFINE final == day < D \/ phase >= 2
    <2>1. final \in BOOLEAN /\ (final <=> Over(day))
        BY <1>1, <1>2, <1>3 DEF Over
    <2>2. DatedSession(day) = [day |-> day, final |-> final]
        BY DEF DatedSession
    <2> HIDE DEF final
    <2>3. [day |-> day, final |-> final] \in Reading
        BY <2>1, Zenon DEF Reading
    <2> QED
        BY <2>1, <2>2, <2>3
<1>7. LatestSession \in Reading /\ (LatestSession.day = D <=> phase # 0)
    BY <1>1, <1>2, <1>3 DEF LatestSession, Reading, Days
<1>8. LatestSession.final <=> phase # 1
    BY DEF LatestSession
<1>9. Over(D) <=> phase >= 2
    BY <1>3 DEF Over
<1>10. CASE day = P
    <2>1. HistoryTail(day) = DatedSession(day)
        BY <1>10 DEF HistoryTail
    <2> QED
        BY <1>2, <1>4, <1>5, <1>6, <1>7, <1>8, <1>9, <2>1
<1>11. CASE day = D
    <2>1. HistoryTail(day) = LatestSession
        BY <1>11, <1>3 DEF HistoryTail
    <2> QED
        BY <1>2, <1>4, <1>5, <1>6, <1>7, <1>8, <1>9, <1>11, <2>1
<1> QED
    BY <1>1, <1>10, <1>11

(* The clock goes on, and what is known stays known. *)
Grows ==
    /\ phase \in 0 .. 3 /\ phase' \in 0 .. 3 /\ phase <= phase'
    /\ \A r \in DOMAIN facts.rankings :
        r \in DOMAIN facts'.rankings /\ facts'.rankings[r] = facts.rankings[r]
    /\ \A r \in DOMAIN facts.breadth :
        r \in DOMAIN facts'.breadth /\ facts'.breadth[r] = facts.breadth[r]

LEMMA OverStays ==
    ASSUME Grows, NEW day, Over(day)
    PROVE  Over(day)'
    BY DEF Grows, Over

LEMMA ReadingStays ==
    ASSUME Grows, NEW day, NEW x, ReadingOK(x, day)
    PROVE  ReadingOK(x, day)'
    BY OverStays DEF ReadingOK

LEMMA EvidenceStays ==
    ASSUME Grows, NEW x, EvidenceOK(x)
    PROVE  EvidenceOK(x)'
    BY DEF EvidenceOK, Grows

LEMMA PlanStays ==
    ASSUME Grows, NEW c, PlanOK(c)
    PROVE  PlanOK(c)'
<1>1. ASSUME NEW x, DraftOK(c, x)
      PROVE  DraftOK(c, x)'
    <2>1. CandidateOK(x, c.day) => CandidateOK(x, c.day)'
        BY DEF CandidateOK
    <2>2. CoreDraftOK(c, x) => CoreDraftOK(c, x)'
        BY ReadingStays DEF CoreDraftOK
    <2>3. EvidenceOK(x) => EvidenceOK(x)'
        BY EvidenceStays
    <2> QED
        BY <1>1, <2>1, <2>2, <2>3 DEF DraftOK
<1> QED
    BY <1>1, OverStays DEF PlanOK

LEMMA CollectionStays ==
    ASSUME Grows, NEW r, CollectionOK(r)
    PROVE  CollectionOK(r)'
<1>1. PlanOK(r.plan)'
    BY PlanStays DEF CollectionOK
<1> QED
    BY <1>1 DEF CollectionOK, CandidateOK

LEMMA StoredStays ==
    ASSUME Grows, NEW k, NEW x, StoredOK(k, x)
    PROVE  StoredOK(k, x)'
<1>1. \A i \in DOMAIN x.indices : ReadingOK(x.indices[i], k[2]) => ReadingOK(x.indices[i], k[2])'
    BY ReadingStays
<1>2. EvidenceOK(x) => EvidenceOK(x)'
    BY EvidenceStays
<1>3. /\ x.revision \in DOMAIN facts.breadth /\ facts.breadth[x.revision] = x.limits
      => x.revision \in DOMAIN facts'.breadth /\ facts'.breadth[x.revision] = x.limits
    BY DEF Grows
<1> QED
    BY <1>1, <1>2, <1>3 DEF StoredOK, CandidateOK

-----------------------------------------------------------------------------
(* What a step has to keep *)

LEMMA KeysAreKeys ==
    /\ \A k \in Keys : k[1] \in Datasets /\ k[2] \in Days /\ k = <<k[1], k[2]>>
    /\ PreviousKey \in Keys /\ PreviousKey[1] = "limits" /\ PreviousKey[2] = P
    /\ \A s \in Scopes : s \subseteq Keys
<1>1. PreviousKey \in Datasets \X Days /\ PreviousKey[1] = "limits" /\ PreviousKey[2] = P
    BY DEF PreviousKey, Datasets, Snapshot, Days
<1>2. \A s \in Scopes : \A k \in s : k \in Datasets \X Days
    BY DatasetAssumption
<1>3. \A k \in Keys : k \in Datasets \X Days
    BY <1>1, <1>2, Zenon DEF Keys
<1>4. \A k \in Keys : k[1] \in Datasets /\ k[2] \in Days /\ k = <<k[1], k[2]>>
    BY <1>3
<1>5. PreviousKey \in Keys /\ \A s \in Scopes : s \subseteq Keys
    BY Zenon DEF Keys
<1> QED
    BY <1>1, <1>4, <1>5

LEMMA DatasetsDiffer ==
    /\ "core" \notin Snapshot /\ "core" \notin Ths /\ Snapshot \intersect Ths = {}
    /\ "limits" \in Snapshot /\ "limits" # "core" /\ P # D /\ P \in Days /\ D \in Days
    /\ PreviousKey # <<"limits", D>>
    BY DEF Snapshot, Ths, P, D, Days, PreviousKey

LEMMA NoneIsNothing ==
    /\ None \notin Catalogs /\ None \notin Candidates /\ None \notin CoreDrafts
    /\ None \notin Evidence /\ None \notin Collections /\ NoOne \notin Workers
    BY DatasetAssumption

LEMMA StepKeeps ==
    ASSUME DatasetInv, DatasetTypeOK', Grows,
           \A n \in DOMAIN facts'.revisions : facts'.revisions[n] \in DOMAIN facts'.rankings,
           \A v \in Workers : \/ worker'[v] = worker[v] \/ worker'[v] = None
                              \/ \E r : r = worker'[v] /\ CollectionOK(r),
           \A k \in Keys : stored'[k] = stored[k] \/ \E x : x = stored'[k].data /\ StoredOK(k, x)',
           \A k \in Keys : lease'[k] # NoOne => HasSeen(worker[lease[k]], k)'
    PROVE  DatasetInv'
<1>1. ASSUME NEW v \in Workers, worker'[v] # None
      PROVE  CollectionOK(worker[v])'
    <2>1. PICK r : r = worker'[v] /\ CollectionOK(r)
        BY <1>1 DEF DatasetInv
    <2>2. CollectionOK(r)'
        BY <2>1, CollectionStays
    <2> QED
        BY <2>1, <2>2
<1>2. ASSUME NEW k \in Keys, stored'[k] # None
      PROVE  StoredOK(k, stored[k].data)'
    <2>1. PICK x : x = stored'[k].data /\ StoredOK(k, x)'
        <3>1. CASE stored'[k] = stored[k]
            <4>1. PICK x : x = stored[k].data /\ StoredOK(k, x)
                BY <1>2, <3>1 DEF DatasetInv
            <4> QED
                BY <3>1, <4>1, StoredStays
        <3> QED
            BY <3>1
    <2> QED
        BY <2>1
<1> QED
    BY <1>1, <1>2 DEF DatasetInv

(* A thread goes on with what it has. *)
LEMMA ThreadKeeps ==
    ASSUME DatasetInv, NEW w \in Workers, worker[w] # None,
           NEW r \in Collections, CollectionOK(r),
           worker' = [worker EXCEPT ![w] = r],
           UNCHANGED <<phase, thsVars, scope, lease, started, store, lapses, changes>>,
           \A k \in Keys : lease[k] = w => HasSeen(r, k)
    PROVE  DatasetInv'
<1>1. DatasetTypeOK'
    BY DEF DatasetInv, DatasetTypeOK, FactsTypeOK, thsVars, store
<1>2. Grows
    BY DEF Grows, DatasetInv, DatasetTypeOK, thsVars
<1>3. \A v \in Workers : worker'[v] = IF v = w THEN r ELSE worker[v]
    BY DEF DatasetInv, DatasetTypeOK
<1>4. ASSUME NEW k \in Keys, lease'[k] # NoOne
      PROVE  HasSeen(worker[lease[k]], k)'
    <2>1. PICK v : v = lease[k] /\ v \in Workers /\ lease'[k] = v
        BY <1>4 DEF DatasetInv, DatasetTypeOK, thsVars
    <2>2. PICK x : x = worker'[v] /\ HasSeen(x, k)
        BY <1>3, <1>4, <2>1 DEF DatasetInv
    <2>3. HasSeen(x, k)'
        BY <2>2 DEF HasSeen, StoredId, store
    <2> QED
        BY <2>1, <2>2, <2>3
<1> QED
    BY <1>1, <1>2, <1>3, <1>4, StepKeeps DEF DatasetInv, thsVars, store

LEMMA WhoRuns ==
    ASSUME DatasetInv, NEW w \in Workers, worker[w] # None
    PROVE  /\ worker[w] \in Collections /\ CollectionOK(worker[w])
           /\ Now(w) \in Plans /\ PlanOK(Now(w))
           /\ worker[w].key \in Keys /\ Now(w).dataset = worker[w].key[1]
           /\ phase \in 0 .. 3
<1>1. worker[w] \in Collections /\ CollectionOK(worker[w])
    BY DEF DatasetInv, DatasetTypeOK
<1> QED
    BY <1>1 DEF Now, CollectionOK, Collections, DatasetInv, DatasetTypeOK

(* A thread goes on with its plan. *)
LEMMA PlanKeeps ==
    ASSUME DatasetInv, NEW w \in Workers, Runs(w), NEW c \in Plans, Goes(w, c), PlanOK(c),
           c.dataset = Now(w).dataset, c.day = Now(w).day,
           c.dataset = "core" /\ c.draft # None /\ lease[worker[w].key] = w =>
               c.draft.stored = IndicesOf(stored[worker[w].key])
    PROVE  DatasetInv'
<1>1. worker[w] # None
    BY DEF Runs
<1>2. PICK r0 : r0 = worker[w] /\ r0 \in Collections /\ CollectionOK(r0)
    BY <1>1, WhoRuns
<1>3. PICK r : r = [r0 EXCEPT !.plan = c]
    OBVIOUS
<1>4. r \in Collections /\ r.plan = c /\ r.key = r0.key /\ r.base = r0.base /\ r.at = r0.at
        /\ r.previous = r0.previous
    BY <1>2, <1>3 DEF Collections
<1>5. CollectionOK(r)
    BY <1>2, <1>4 DEF CollectionOK, Now
<1>6. ASSUME NEW k \in Keys, lease[k] = w PROVE HasSeen(r, k)
    <2>1. HasSeen(r0, k)
        BY <1>2, <1>6, NoneIsNothing DEF DatasetInv
    <2>2. k = r0.key /\ k[1] = "core" /\ c.draft # None => c.draft.stored = IndicesOf(stored[k])
        BY <1>2, <1>5, <1>4, <1>6 DEF CollectionOK
    <2> QED
        BY <1>4, <2>1, <2>2, NoneIsNothing DEF HasSeen
<1>7. /\ worker' = [worker EXCEPT ![w] = r]
      /\ UNCHANGED <<phase, thsVars, scope, lease, started, store, lapses, changes>>
    BY <1>2, <1>3 DEF Goes, Becomes
<1> QED
    BY <1>1, <1>4, <1>5, <1>6, <1>7, ThreadKeeps

-----------------------------------------------------------------------------
(* Breadth, active direction and limits *)

SourceNames == {"fuyao", "tdx", "eastmoney", "primary", "delayed", "derived", "cross-check"}

LEMMA StepsOfSnapshots ==
    ASSUME NEW c \in Plans, c.dataset \in Snapshot, c.step <= Len(Steps(c))
    PROVE  /\ Steps(c)[c.step] \in SourceNames
           /\ Steps(c)[c.step] = "cross-check" => c.dataset = "limits"
<1>1. Steps(c) = Sources[c.dataset]
    BY DEF Steps, Snapshot, Ths
<1>2. c.step \in Nat \ {0}
    BY DEF Plans
<1>3. CASE c.dataset = "breadth"
    <2>1. Steps(c) = <<"fuyao", "tdx", "eastmoney">>
        BY <1>1, <1>3 DEF Sources
    <2>2. c.step = 1 \/ c.step = 2 \/ c.step = 3
        BY <1>2, <2>1
    <2>3. Steps(c)[1] = "fuyao" /\ Steps(c)[2] = "tdx" /\ Steps(c)[3] = "eastmoney"
        BY <2>1
    <2> QED
        BY <2>2, <2>3 DEF SourceNames
<1>4. CASE c.dataset = "activeDirection"
    <2>1. Steps(c) = <<"primary", "delayed", "derived">>
        BY <1>1, <1>4 DEF Sources
    <2>2. c.step = 1 \/ c.step = 2 \/ c.step = 3
        BY <1>2, <2>1
    <2>3. Steps(c)[1] = "primary" /\ Steps(c)[2] = "delayed" /\ Steps(c)[3] = "derived"
        BY <2>1
    <2> QED
        BY <2>2, <2>3 DEF SourceNames
<1>5. CASE c.dataset = "limits"
    <2>1. Steps(c) = <<"fuyao", "eastmoney", "cross-check">>
        BY <1>1, <1>5 DEF Sources
    <2>2. c.step = 1 \/ c.step = 2 \/ c.step = 3
        BY <1>2, <2>1
    <2>3. Steps(c)[1] = "fuyao" /\ Steps(c)[2] = "eastmoney" /\ Steps(c)[3] = "cross-check"
        BY <2>1
    <2> QED
        BY <1>5, <2>2, <2>3 DEF SourceNames
<1> QED
    BY <1>3, <1>4, <1>5 DEF Snapshot

(* A candidate is of its day; one that is settled, and no union, is final. *)
LEMMA CandidateFits ==
    ASSUME phase \in 0 .. 3, NEW c \in Plans, PlanOK(c), c.dataset \in Snapshot,
           NEW source \in SourceNames, source = "cross-check" => c.dataset = "limits",
           Wanted(c, source), Admits(c, source)
    PROVE  CandidateOK(Candidate(c, source), c.day)
<1>1. c.day \in Days /\ c.today \in {D, D + 1} /\ c.settled \in BOOLEAN
    BY DEF Plans
<1>2. /\ IsSettled(c.day) <=> Over(c.day)
      /\ DatedSession(c.day) \in Reading
      /\ DatedSession(c.day).day = c.day
      /\ DatedSession(c.day).final <=> Over(c.day)
      /\ LatestSession \in Reading
      /\ Over(D) => LatestSession.day = D /\ LatestSession.final
    BY <1>1, OnceOver
<1>3. c.day = c.today => c.day = D
    BY <1>1 DEF Days, P, D
<1>4. PICK shown : shown = Shown(c, source)
    OBVIOUS
<1>5. shown \in Reading /\ shown.day = c.day /\ (Over(c.day) => shown.final)
    <2>1. CASE LatestOnly(c.dataset, source)
        <3>1. c.day = D /\ Over(D)
            BY <2>1, <1>3 DEF Admits, PlanOK
        <3> QED
            BY <1>2, <1>4, <2>1, <3>1 DEF Shown
    <2>2. CASE ~ LatestOnly(c.dataset, source)
        BY <1>2, <1>4, <2>2 DEF Shown
    <2> QED
        BY <2>1, <2>2
<1>6. shown.final \in BOOLEAN /\ shown.day \in Days
    BY <1>5 DEF Reading
<1>7. IsSettled(c.day) \in BOOLEAN
    BY DEF IsSettled
<1>8. PICK s : s = IsSettled(c.day) /\ s \in BOOLEAN /\ (s => Over(c.day))
    BY <1>2, <1>7
<1>9. CASE source = "cross-check"
    <2>1. c.draft \in Candidates
        BY <1>9 DEF Wanted, Snapshot, PlanOK, DraftOK, CandidateOK
    <2>2. PICK f \in BOOLEAN : f = (c.draft.final /\ shown.final)
        OBVIOUS
    <2>3. Candidate(c, source) = [source |-> "union", day |-> c.day, final |-> f, settled |-> s]
        BY <1>4, <1>8, <1>9, <2>2 DEF Candidate
    <2>4. [source |-> "union", day |-> c.day, final |-> f, settled |-> s] \in Candidates
        BY <1>1, <1>8, <2>2 DEF Candidates
    <2> QED
        BY <2>3, <2>4 DEF CandidateOK
<1>10. CASE source # "cross-check"
    <2>1. PICK t \in BOOLEAN : /\ t = (IF c.dataset = "limits" THEN s ELSE c.settled)
                               /\ t => Over(c.day)
        BY <1>1, <1>8 DEF PlanOK
    <2>2. Candidate(c, source) =
            [source |-> source, day |-> shown.day, final |-> shown.final, settled |-> t]
        BY <1>4, <1>8, <1>10, <2>1 DEF Candidate
    <2>3. [source |-> source, day |-> shown.day, final |-> shown.final, settled |-> t] \in Candidates
        BY <1>6, <1>10, <2>1 DEF Candidates, SourceNames
    <2> QED
        BY <1>5, <2>1, <2>2, <2>3 DEF CandidateOK
<1> QED
    BY <1>9, <1>10

LEMMA PlansGoOn ==
    ASSUME NEW c \in Plans,
           NEW x \in Candidates \cup CoreDrafts \cup Evidence \cup {None}
    PROVE  /\ Onward(c) \in Plans
           /\ [Onward(c) EXCEPT !.draft = x] \in Plans
           /\ [c EXCEPT !.stopped = TRUE] \in Plans
           /\ [c EXCEPT !.stopped = TRUE, !.draft = None] \in Plans
<1>1. c.step + 1 \in Nat \ {0}
    BY DEF Plans
<1>2. Onward(c) \in Plans
    BY <1>1, Zenon DEF Plans, Onward
<1>3. [Onward(c) EXCEPT !.draft = x] \in Plans
    BY <1>2, Zenon DEF Plans
<1>4. [c EXCEPT !.stopped = TRUE] \in Plans
    BY Zenon DEF Plans
<1>5. [[c EXCEPT !.stopped = TRUE] EXCEPT !.draft = None] \in Plans
    BY <1>4, Zenon DEF Plans
<1> QED
    BY <1>2, <1>3, <1>4, <1>5

LEMMA PlansBecome ==
    ASSUME NEW c \in Plans, NEW x
    PROVE  /\ LET o == [Onward(c) EXCEPT !.draft = x] IN
              /\ o.dataset = c.dataset /\ o.day = c.day /\ o.settled = c.settled
              /\ o.stopped = c.stopped /\ o.step = c.step + 1 /\ o.draft = x
           /\ LET o == Onward(c) IN
              /\ o.dataset = c.dataset /\ o.day = c.day /\ o.settled = c.settled
              /\ o.stopped = c.stopped /\ o.step = c.step + 1 /\ o.draft = c.draft
           /\ LET o == [c EXCEPT !.stopped = TRUE] IN
              /\ o.dataset = c.dataset /\ o.day = c.day /\ o.settled = c.settled
              /\ o.stopped /\ o.step = c.step /\ o.draft = c.draft
           /\ LET o == [c EXCEPT !.stopped = TRUE, !.draft = None] IN
              /\ o.dataset = c.dataset /\ o.day = c.day /\ o.settled = c.settled
              /\ o.stopped /\ o.step = c.step /\ o.draft = None
    BY DEF Plans, Onward

LEMMA SourcesAnswer ==
    ASSUME DatasetInv, NEW w \in Workers, SourceAnswers(w)
    PROVE  DatasetInv'
<1>1. worker[w] # None /\ Runs(w)
    BY DEF SourceAnswers, RunsOn, Runs
<1>2. PICK c : c = Now(w) /\ c \in Plans /\ PlanOK(c)
    BY <1>1, WhoRuns
<1>3. /\ c.dataset \in Snapshot /\ c.step <= Len(Steps(c)) /\ Source(w) = Steps(c)[c.step]
      /\ Wanted(c, Source(w)) /\ Admits(c, Source(w)) /\ phase \in 0 .. 3
    <2>1. ~ Ended(w) /\ c.dataset \in Snapshot
        BY <1>2 DEF SourceAnswers, RunsOn
    <2>2. ~ (c.step > Len(Steps(c)))
        BY <1>1, <1>2, <2>1 DEF Ended
    <2>3. Steps(c) = Sources[c.dataset]
        BY <2>1 DEF Steps, Snapshot, Ths
    <2>4. Len(Steps(c)) \in Nat
        BY <2>1, <2>3 DEF Sources, Snapshot
    <2>5. c.step <= Len(Steps(c))
        BY <1>2, <2>2, <2>4 DEF Plans
    <2> QED
        BY <1>1, <1>2, <2>1, <2>5, WhoRuns DEF SourceAnswers, Source
<1>4. PICK x : x = Candidate(c, Source(w)) /\ CandidateOK(x, c.day) /\ x \in Candidates
    BY <1>2, <1>3, StepsOfSnapshots, CandidateFits DEF CandidateOK
<1>5. PICK o : o = [Onward(c) EXCEPT !.draft = x]
    OBVIOUS
<1>6. /\ o \in Plans /\ o.dataset = c.dataset /\ o.day = c.day /\ o.settled = c.settled
      /\ o.stopped = c.stopped /\ o.draft = x
    <2>1. x \in Candidates \cup CoreDrafts \cup Evidence \cup {None}
        BY <1>4
    <2>2. o \in Plans
        BY <1>2, <1>5, <2>1, PlansGoOn
    <2> QED
        BY <1>2, <1>5, <2>2, PlansBecome
<1>7. PlanOK(o)
    BY <1>2, <1>3, <1>4, <1>6, DatasetsDiffer DEF PlanOK, DraftOK
<1>8. Goes(w, o)
    BY <1>2, <1>4, <1>5 DEF SourceAnswers
<1> QED
    BY <1>1, <1>2, <1>3, <1>6, <1>7, <1>8, PlanKeeps, DatasetsDiffer

LEMMA SourcesFail ==
    ASSUME DatasetInv, NEW w \in Workers, SourceFails(w) \/ SourceStops(w)
    PROVE  DatasetInv'
<1>1. worker[w] # None /\ Runs(w) /\ Now(w).dataset \in Snapshot
    BY DEF SourceFails, SourceStops, RunsOn, Runs
<1>2. PICK c : c = Now(w) /\ c \in Plans /\ PlanOK(c)
    BY <1>1, WhoRuns
<1>3. PICK o : /\ o = Onward(c) \/ o = [c EXCEPT !.stopped = TRUE]
               /\ Goes(w, o)
    BY <1>2 DEF SourceFails, SourceStops
<1>4. /\ o \in Plans /\ o.dataset = c.dataset /\ o.day = c.day /\ o.settled = c.settled
      /\ o.draft = c.draft
    <2>1. o \in Plans
        <3>1. None \in Candidates \cup CoreDrafts \cup Evidence \cup {None}
            OBVIOUS
        <3> QED
            BY <1>2, <1>3, <3>1, PlansGoOn
    <2>2. CASE o = Onward(c)
        BY <1>2, <2>1, <2>2, PlansBecome
    <2>3. CASE o = [c EXCEPT !.stopped = TRUE]
        BY <1>2, <2>1, <2>3, PlansBecome
    <2> QED
        BY <1>3, <2>2, <2>3
<1>5. PlanOK(o)
    BY <1>1, <1>2, <1>4, DatasetsDiffer DEF PlanOK, DraftOK
<1> QED
    BY <1>1, <1>2, <1>3, <1>4, <1>5, PlanKeeps, DatasetsDiffer

-----------------------------------------------------------------------------
(* Core *)

LEMMA StepsOfCore ==
    ASSUME NEW c \in Plans, c.dataset = "core"
    PROVE  /\ Len(IndexOrder) \in Nat /\ Len(Steps(c)) = Len(IndexOrder) + 1
           /\ Steps(c)[1] = "retained"
           /\ \A n \in 1 .. Len(IndexOrder) :
                Steps(c)[n + 1] = IndexOrder[n] /\ IndexOrder[n] \in Indices
           /\ "retained" \notin Indices
           /\ \A i \in Indices : \E n \in 1 .. Len(IndexOrder) : i = IndexOrder[n]
<1>1. Steps(c) = <<"retained">> \o IndexOrder
    BY DEF Steps, Ths, Sources
<1>2. IndexOrder \in Seq(Indices) /\ "retained" \notin Indices
    BY DatasetAssumption
<1>3. IndexOrder \in Seq(Indices \cup {"retained"}) /\ <<"retained">> \in Seq(Indices \cup {"retained"})
    BY <1>2
<1>4. /\ Len(Steps(c)) = Len(<<"retained">>) + Len(IndexOrder)
      /\ \A i \in 1 .. Len(<<"retained">>) + Len(IndexOrder) :
            Steps(c)[i] = IF i <= Len(<<"retained">>) THEN <<"retained">>[i]
                          ELSE IndexOrder[i - Len(<<"retained">>)]
    BY <1>1, <1>3, ConcatProperties
<1>5. Len(IndexOrder) \in Nat /\ Len(<<"retained">>) = 1 /\ <<"retained">>[1] = "retained"
    BY <1>2
<1>6. \A n \in 1 .. Len(IndexOrder) : IndexOrder[n] \in Indices
    BY <1>2
<1>7. \A i \in Indices : \E n \in 1 .. Len(IndexOrder) : i = IndexOrder[n]
    BY <1>2 DEF Indices, ToSet
<1>8. Steps(c)[1] = "retained"
    BY <1>4, <1>5
<1>9. ASSUME NEW n \in 1 .. Len(IndexOrder) PROVE Steps(c)[n + 1] = IndexOrder[n]
    <2>1. n + 1 \in 1 .. 1 + Len(IndexOrder) /\ ~ (n + 1 <= 1) /\ n + 1 - 1 = n
        BY <1>5
    <2> QED
        BY <1>4, <1>5, <2>1
<1> QED
    BY <1>2, <1>4, <1>5, <1>6, <1>7, <1>8, <1>9

Answers == [reading : Reading, retained : BOOLEAN]

LEMMA IndexGoesIn ==
    ASSUME NEW d \in CoreDrafts, NEW i \in Indices, NEW x \in Answers
    PROVE  LET e == WithIndex(d, i, x) IN
           /\ e \in CoreDrafts /\ e.stored = d.stored
           /\ DOMAIN e.indices = DOMAIN d.indices \cup {i}
           /\ \A j \in DOMAIN e.indices :
                e.indices[j] = IF j = i THEN x ELSE d.indices[j]
<1>1. PICK f : f = [j \in DOMAIN d.indices \cup {i} |-> IF j = i THEN x ELSE d.indices[j]]
    OBVIOUS
<1>2. d.indices \in Partial(Indices, Answers) /\ d.stored \in Partial(Indices, Reading)
    BY DEF CoreDrafts, Answers
<1>3. DOMAIN d.indices \subseteq Indices /\ d.indices \in [DOMAIN d.indices -> Answers]
    BY <1>2, PartialIs
<1>4. f \in [DOMAIN d.indices \cup {i} -> Answers]
    BY <1>1, <1>3
<1>5. f \in Partial(Indices, Answers)
    BY <1>3, <1>4, PartialOf
<1>6. WithIndex(d, i, x) = [d EXCEPT !.indices = f]
    BY <1>1 DEF WithIndex
<1>7. [d EXCEPT !.indices = f] \in CoreDrafts
    BY <1>5, Zenon DEF CoreDrafts, Answers
<1>8. [d EXCEPT !.indices = f].indices = f /\ [d EXCEPT !.indices = f].stored = d.stored
    BY DEF CoreDrafts
<1> QED
    BY <1>1, <1>4, <1>6, <1>7, <1>8

(* The day of a core plan is that of its key. *)
LEMMA CoreIsOfItsDay ==
    ASSUME DatasetInv, NEW w \in Workers, RunsOn(w, {"core"})
    PROVE  /\ worker[w] # None /\ Runs(w)
           /\ Now(w) \in Plans /\ PlanOK(Now(w)) /\ phase \in 0 .. 3
           /\ Now(w).dataset = "core" /\ worker[w].key \in Keys
           /\ worker[w].key[1] = "core" /\ worker[w].key[2] = Now(w).day
           /\ Now(w).step \in 1 .. Len(IndexOrder) + 1
           /\ Source(w) = "retained" => Now(w).step = 1
           /\ Source(w) # "retained" =>
                \E n \in 1 .. Len(IndexOrder) : n + 1 = Now(w).step /\ Source(w) = IndexOrder[n]
<1>1. worker[w] # None /\ Runs(w) /\ Now(w).dataset = "core" /\ ~ Ended(w)
    BY DEF RunsOn, Runs
<1>2. /\ worker[w] \in Collections /\ CollectionOK(worker[w])
      /\ Now(w) \in Plans /\ PlanOK(Now(w))
      /\ worker[w].key \in Keys /\ Now(w).dataset = worker[w].key[1]
      /\ phase \in 0 .. 3
    BY <1>1, WhoRuns
<1>3. worker[w].at # "previous"
    BY <1>1, <1>2 DEF CollectionOK
<1>4. worker[w].key[2] = Now(w).day
    BY <1>2, <1>3 DEF CollectionOK, Now
<1>5. /\ Len(IndexOrder) \in Nat /\ Len(Steps(Now(w))) = Len(IndexOrder) + 1
      /\ Steps(Now(w))[1] = "retained"
      /\ \A n \in 1 .. Len(IndexOrder) :
            Steps(Now(w))[n + 1] = IndexOrder[n] /\ IndexOrder[n] \in Indices
      /\ "retained" \notin Indices
    BY <1>1, <1>2, StepsOfCore
<1>6. Now(w).step \in Nat \ {0}
    BY <1>2 DEF Plans
<1>7. Now(w).step \in 1 .. Len(IndexOrder) + 1
    BY <1>1, <1>5, <1>6 DEF Ended
<1>8. Source(w) = Steps(Now(w))[Now(w).step]
    BY DEF Source
<1>9. CASE Now(w).step = 1
    BY <1>1, <1>2, <1>4, <1>5, <1>7, <1>8, <1>9
<1>10. CASE Now(w).step # 1
    <2>1. PICK n : n = Now(w).step - 1 /\ n \in 1 .. Len(IndexOrder) /\ n + 1 = Now(w).step
        BY <1>5, <1>7, <1>10
    <2>2. Source(w) = IndexOrder[n] /\ Source(w) # "retained"
        BY <1>5, <1>8, <2>1
    <2> QED
        BY <1>1, <1>2, <1>4, <1>7, <2>1, <2>2
<1> QED
    BY <1>9, <1>10

LEMMA DraftHasSeen ==
    ASSUME DatasetInv, NEW w \in Workers, worker[w] # None, NEW k \in Keys, k = worker[w].key,
           lease[k] = w, k[1] = "core", Now(w).draft # None
    PROVE  Now(w).draft.stored = IndicesOf(stored[k])
<1>1. HasSeen(worker[w], k)
    BY NoneIsNothing DEF DatasetInv
<1> QED
    BY <1>1 DEF HasSeen, Now

(* What a core plan begins with *)
LEMMA WhatIsStored ==
    ASSUME DatasetInv, NEW k \in Keys, k[1] = "core"
    PROVE  /\ IndicesOf(stored[k]) \in Partial(Indices, Reading)
           /\ \A i \in DOMAIN IndicesOf(stored[k]) : ReadingOK(IndicesOf(stored[k])[i], k[2])
<1>1. CASE stored[k] = None
    <2>1. IndicesOf(stored[k]) \in [{} -> Reading]
        BY <1>1 DEF IndicesOf
    <2>2. IndicesOf(stored[k]) \in Partial(Indices, Reading)
        BY <2>1, PartialOf
    <2> QED
        BY <2>1, <2>2
<1>2. CASE stored[k] # None
    BY <1>2 DEF IndicesOf, DatasetInv, StoredOK, CoreData
<1> QED
    BY <1>1, <1>2

LEMMA RetainedIsRead ==
    ASSUME DatasetInv, NEW w \in Workers, ReadRetained(w)
    PROVE  DatasetInv'
<1>1. RunsOn(w, {"core"}) /\ Source(w) = "retained"
    BY DEF ReadRetained
<1>2. PICK c : c = Now(w)
    OBVIOUS
<1>3. PICK k \in Keys : k = worker[w].key
    BY <1>1, CoreIsOfItsDay
<1>4. /\ worker[w] # None /\ Runs(w) /\ c \in Plans /\ PlanOK(c) /\ c.dataset = "core"
      /\ k[1] = "core" /\ k[2] = c.day /\ c.step = 1
    BY <1>1, <1>2, <1>3, CoreIsOfItsDay
<1>5. PICK d : d = CoreDraft(stored[k])
    OBVIOUS
<1>6. PICK e : e = [i \in {} |-> None] /\ e \in Partial(Indices, Answers) /\ DOMAIN e = {}
    <2>1. [i \in {} |-> None] \in [{} -> Answers]
        OBVIOUS
    <2> QED
        BY <2>1, PartialOf
<1>7. PICK s : /\ s = IndicesOf(stored[k]) /\ s \in Partial(Indices, Reading)
               /\ \A i \in DOMAIN s : ReadingOK(s[i], c.day)
    BY <1>4, WhatIsStored
<1>8. d = [stored |-> s, indices |-> e]
    BY <1>5, <1>6, <1>7 DEF CoreDraft
<1>9. d \in CoreDrafts
    BY <1>6, <1>7, <1>8, Zenon DEF CoreDrafts, Answers
<1>10. PICK o : o = [Onward(c) EXCEPT !.draft = d]
    OBVIOUS
<1>11. o \in Plans
    <2>1. d \in Candidates \cup CoreDrafts \cup Evidence \cup {None}
        BY <1>9
    <2> QED
        BY <1>4, <1>10, <2>1, PlansGoOn
<1>12. /\ o.dataset = c.dataset /\ o.day = c.day /\ o.settled = c.settled
       /\ o.stopped = c.stopped /\ o.step = 2 /\ o.draft = d
    BY <1>4, <1>10, PlansBecome
<1>13. CoreDraftOK(o, d)
    <2>1. \A n \in 1 .. Len(IndexOrder) : ~ (n + 1 < o.step)
        BY <1>4, <1>12, StepsOfCore
    <2> QED
        BY <1>6, <1>7, <1>8, <1>9, <1>12, <2>1 DEF CoreDraftOK
<1>14. PlanOK(o)
    BY <1>4, <1>9, <1>12, <1>13, NoneIsNothing, DatasetsDiffer DEF PlanOK, DraftOK
<1>15. Goes(w, o)
    BY <1>2, <1>3, <1>5, <1>10 DEF ReadRetained
<1>16. d.stored = IndicesOf(stored[worker[w].key])
    BY <1>3, <1>7, <1>8
<1> QED
    BY <1>2, <1>4, <1>11, <1>12, <1>14, <1>15, <1>16, PlanKeeps

(* The next index has been asked for. *)
LEMMA IndexKeeps ==
    ASSUME DatasetInv, NEW w \in Workers, RunsOn(w, {"core"}), Source(w) # "retained",
           NEW c, c = Now(w), NEW d \in CoreDrafts, d.stored = c.draft.stored,
           DOMAIN c.draft.indices \subseteq DOMAIN d.indices,
           \A i \in DOMAIN d.indices :
              \/ i \in DOMAIN c.draft.indices /\ d.indices[i] = c.draft.indices[i]
              \/ /\ ReadingOK(d.indices[i].reading, c.day)
                 /\ d.indices[i].retained \/ d.indices[i].reading.final \/ ~ Over(c.day),
           Source(w) \in DOMAIN d.stored => Source(w) \in DOMAIN d.indices,
           Goes(w, [Onward(c) EXCEPT !.draft = d])
    PROVE  DatasetInv'
<1>1. PICK k \in Keys : k = worker[w].key
    BY CoreIsOfItsDay
<1>2. /\ worker[w] # None /\ Runs(w) /\ c \in Plans /\ PlanOK(c) /\ c.dataset = "core"
      /\ k[1] = "core" /\ k[2] = c.day /\ c.step \in 1 .. Len(IndexOrder) + 1
    BY <1>1, CoreIsOfItsDay
<1>3. PICK n \in 1 .. Len(IndexOrder) : n + 1 = c.step /\ Source(w) = IndexOrder[n]
    BY CoreIsOfItsDay
<1>4. Len(IndexOrder) \in Nat
    BY <1>2, StepsOfCore
<1>5. c.draft # None /\ CoreDraftOK(c, c.draft)
    BY <1>2, <1>3, <1>4, DatasetsDiffer DEF PlanOK, DraftOK
<1>6. PICK o : o = [Onward(c) EXCEPT !.draft = d]
    OBVIOUS
<1>7. o \in Plans
    <2>1. d \in Candidates \cup CoreDrafts \cup Evidence \cup {None}
        OBVIOUS
    <2> QED
        BY <1>2, <1>6, <2>1, PlansGoOn
<1>8. /\ o.dataset = c.dataset /\ o.day = c.day /\ o.settled = c.settled
      /\ o.stopped = c.stopped /\ o.step = c.step + 1 /\ o.draft = d
    BY <1>2, <1>6, PlansBecome
<1>9. (c.settled \/ \E j \in DOMAIN d.stored : d.stored[j].final) => Over(c.day)
    BY <1>2, <1>5 DEF PlanOK, CoreDraftOK, ReadingOK
<1>10. ASSUME NEW i \in DOMAIN d.indices
       PROVE  /\ ReadingOK(d.indices[i].reading, c.day)
              /\ d.indices[i].retained \/ d.indices[i].reading.final
                    \/ ~ (c.settled \/ \E j \in DOMAIN d.stored : d.stored[j].final)
    BY <1>5, <1>9 DEF CoreDraftOK
<1>11. ASSUME NEW m \in 1 .. Len(IndexOrder), m + 1 < c.step + 1, IndexOrder[m] \in DOMAIN d.stored
       PROVE  IndexOrder[m] \in DOMAIN d.indices
    <2>1. m = n \/ m + 1 < c.step
        BY <1>2, <1>3, <1>4, <1>11
    <2> QED
        BY <1>3, <1>5, <1>11, <2>1 DEF CoreDraftOK
<1>12. CoreDraftOK(o, d)
    BY <1>5, <1>8, <1>10, <1>11 DEF CoreDraftOK
<1>13. PlanOK(o)
    BY <1>2, <1>8, <1>12, NoneIsNothing, DatasetsDiffer DEF PlanOK, DraftOK
<1>14. lease[k] = w => d.stored = IndicesOf(stored[k])
    BY <1>1, <1>2, <1>5, DraftHasSeen
<1> QED
    BY <1>1, <1>2, <1>6, <1>7, <1>8, <1>13, <1>14, PlanKeeps

LEMMA IndicesAnswer ==
    ASSUME DatasetInv, NEW w \in Workers, IndexAnswers(w)
    PROVE  DatasetInv'
<1>1. /\ RunsOn(w, {"core"}) /\ Source(w) # "retained"
      /\ HistoryTail(Now(w).day).day = Now(w).day
    BY DEF IndexAnswers
<1>2. PICK c : c = Now(w)
    OBVIOUS
<1>3. c \in Plans /\ PlanOK(c) /\ phase \in 0 .. 3 /\ c.dataset = "core" /\ c.day \in Days
    BY <1>1, <1>2, CoreIsOfItsDay DEF Plans
<1>4. PICK n \in 1 .. Len(IndexOrder) : n + 1 = c.step /\ Source(w) = IndexOrder[n]
    BY <1>1, <1>2, CoreIsOfItsDay
<1>5. Len(IndexOrder) \in Nat /\ Source(w) \in Indices
    BY <1>3, <1>4, StepsOfCore
<1>6. c.draft # None /\ c.draft \in CoreDrafts
    BY <1>3, <1>4, <1>5, DatasetsDiffer DEF PlanOK, DraftOK, CoreDraftOK
<1>7. PICK x : /\ x = FreshAnswer(HistoryTail(c.day)) /\ x \in Answers
               /\ ReadingOK(x.reading, c.day) /\ (x.reading.final \/ ~ Over(c.day))
    <2>1. PICK t \in Reading : t = HistoryTail(c.day) /\ t.day = c.day /\ (t.final <=> Over(c.day))
        BY <1>1, <1>2, <1>3, OnceOver
    <2>2. [reading |-> t, retained |-> FALSE] \in Answers
        BY Zenon DEF Answers
    <2> QED
        BY <2>1, <2>2 DEF FreshAnswer, ReadingOK
<1>8. PICK d : d = WithIndex(c.draft, Source(w), x)
    OBVIOUS
<1>9. /\ d \in CoreDrafts /\ d.stored = c.draft.stored
      /\ DOMAIN d.indices = DOMAIN c.draft.indices \cup {Source(w)}
      /\ \A j \in DOMAIN d.indices :
            d.indices[j] = IF j = Source(w) THEN x ELSE c.draft.indices[j]
    BY <1>5, <1>6, <1>7, <1>8, IndexGoesIn
<1>10. Goes(w, [Onward(c) EXCEPT !.draft = d])
    BY <1>2, <1>7, <1>8 DEF IndexAnswers, Onward
<1> QED
    BY <1>1, <1>2, <1>7, <1>9, <1>10, IndexKeeps

LEMMA IndicesFail ==
    ASSUME DatasetInv, NEW w \in Workers, IndexFails(w)
    PROVE  DatasetInv'
<1>1. RunsOn(w, {"core"}) /\ Source(w) # "retained"
    BY DEF IndexFails
<1>2. PICK c : c = Now(w)
    OBVIOUS
<1>3. c \in Plans /\ PlanOK(c) /\ phase \in 0 .. 3 /\ c.dataset = "core"
    BY <1>1, <1>2, CoreIsOfItsDay
<1>4. PICK n \in 1 .. Len(IndexOrder) : n + 1 = c.step /\ Source(w) = IndexOrder[n]
    BY <1>1, <1>2, CoreIsOfItsDay
<1>5. Len(IndexOrder) \in Nat /\ Source(w) \in Indices
    BY <1>3, <1>4, StepsOfCore
<1>6. c.draft # None /\ c.draft \in CoreDrafts /\ CoreDraftOK(c, c.draft)
    BY <1>3, <1>4, <1>5, DatasetsDiffer DEF PlanOK, DraftOK, CoreDraftOK
<1>7. PICK d : d = WithoutAnswer(c.draft, Source(w))
    OBVIOUS
<1>8. Goes(w, [Onward(c) EXCEPT !.draft = d])
    BY <1>2, <1>7 DEF IndexFails, Onward
<1>9. CASE Source(w) \notin DOMAIN c.draft.stored
    <2>1. d = c.draft
        BY <1>7, <1>9 DEF WithoutAnswer
    <2> QED
        BY <1>1, <1>2, <1>6, <1>8, <1>9, <2>1, IndexKeeps
<1>10. CASE Source(w) \in DOMAIN c.draft.stored
    <2>1. PICK x : /\ x = RetainedAnswer(c.draft.stored[Source(w)]) /\ x \in Answers
                   /\ ReadingOK(x.reading, c.day) /\ x.retained
        <3>1. c.draft.stored \in Partial(Indices, Reading)
            BY <1>6 DEF CoreDrafts
        <3>2. PICK t \in Reading : t = c.draft.stored[Source(w)] /\ ReadingOK(t, c.day)
            BY <1>6, <1>10, <3>1, PartialIs DEF CoreDraftOK
        <3>3. [reading |-> t, retained |-> TRUE] \in Answers
            BY Zenon DEF Answers
        <3> QED
            BY <3>2, <3>3 DEF RetainedAnswer
    <2>2. d = WithIndex(c.draft, Source(w), x)
        BY <1>7, <1>10, <2>1 DEF WithoutAnswer
    <2>3. /\ d \in CoreDrafts /\ d.stored = c.draft.stored
          /\ DOMAIN d.indices = DOMAIN c.draft.indices \cup {Source(w)}
          /\ \A j \in DOMAIN d.indices :
                d.indices[j] = IF j = Source(w) THEN x ELSE c.draft.indices[j]
        BY <1>5, <1>6, <2>1, <2>2, IndexGoesIn
    <2> QED
        BY <1>1, <1>2, <1>8, <2>1, <2>3, IndexKeeps
<1> QED
    BY <1>9, <1>10

-----------------------------------------------------------------------------
(* The THS datasets *)

LEMMA ThsRuns ==
    ASSUME DatasetInv, NEW w \in Workers, RunsOn(w, Ths)
    PROVE  /\ worker[w] # None /\ Runs(w)
           /\ Now(w) \in Plans /\ PlanOK(Now(w)) /\ Now(w).dataset \in Ths
           /\ ~ Now(w).stopped
           /\ Source(w) = "bundle" => Now(w).dataset = "industry-ranking"
           /\ Source(w) \notin {"bundle", "rankings"} =>
                /\ Now(w).dataset # "industry-ranking"
                /\ Now(w).draft \in Evidence /\ EvidenceOK(Now(w).draft)
<1>1. worker[w] # None /\ Runs(w) /\ Now(w).dataset \in Ths /\ ~ Ended(w)
    BY DEF RunsOn, Runs
<1>2. PICK c : c = Now(w) /\ c \in Plans /\ PlanOK(c)
    BY <1>1, WhoRuns
<1>3. ~ c.stopped /\ ~ (c.step > Len(Steps(c)))
    BY <1>1, <1>2 DEF Ended
<1>4. Steps(c) = ThsSources[c.dataset] /\ Source(w) = Steps(c)[c.step]
    BY <1>1, <1>2 DEF Steps, Source
<1>5. c.step \in Nat \ {0}
    BY <1>2 DEF Plans
<1>6. CASE c.dataset = "industry-ranking"
    <2>1. Steps(c) = <<"bundle">>
        BY <1>4, <1>6 DEF ThsSources
    <2>2. c.step = 1 /\ Steps(c)[1] = "bundle"
        BY <1>3, <1>5, <2>1
    <2> QED
        BY <1>1, <1>2, <1>3, <1>4, <1>6, <2>2
<1>7. ASSUME c.dataset # "industry-ranking", c.step = 1 => Source(w) = "rankings",
             Source(w) # "bundle"
      PROVE  /\ Source(w) = "bundle" => c.dataset = "industry-ranking"
             /\ Source(w) \notin {"bundle", "rankings"} =>
                  c.dataset # "industry-ranking" /\ c.draft \in Evidence /\ EvidenceOK(c.draft)
    <2>1. ASSUME Source(w) \notin {"bundle", "rankings"} PROVE c.step > 1
        BY <1>5, <1>7, <2>1
    <2>2. c.dataset \notin Snapshot
        BY <1>1, <1>2, DatasetsDiffer
    <2> QED
        BY <1>1, <1>2, <1>3, <1>7, <2>1, <2>2 DEF PlanOK, DraftOK
<1>8. CASE c.dataset = "sector-turnover"
    <2>1. Steps(c) = <<"rankings", "ranking-snapshot", "bars">>
        BY <1>4, <1>8 DEF ThsSources
    <2>2. Steps(c)[1] = "rankings" /\ Steps(c)[2] = "ranking-snapshot" /\ Steps(c)[3] = "bars"
        BY <2>1
    <2>3. Len(Steps(c)) = 3
        BY <2>1
    <2>4. c.step = 1 \/ c.step = 2 \/ c.step = 3
        BY <1>3, <1>5, <2>3
    <2>5. (c.step = 1 => Source(w) = "rankings") /\ Source(w) # "bundle"
        BY <1>4, <2>2, <2>4
    <2> QED
        BY <1>1, <1>2, <1>3, <1>7, <1>8, <2>5
<1>9. CASE c.dataset = "sector-breadth"
    <2>1. Steps(c) = <<"rankings", "ranking-snapshot", "turnover-snapshot", "limits">>
        BY <1>4, <1>9 DEF ThsSources
    <2>2. /\ Steps(c)[1] = "rankings" /\ Steps(c)[2] = "ranking-snapshot"
          /\ Steps(c)[3] = "turnover-snapshot" /\ Steps(c)[4] = "limits"
        BY <2>1
    <2>3. Len(Steps(c)) = 4
        BY <2>1
    <2>4. c.step = 1 \/ c.step = 2 \/ c.step = 3 \/ c.step = 4
        BY <1>3, <1>5, <2>3
    <2>5. (c.step = 1 => Source(w) = "rankings") /\ Source(w) # "bundle"
        BY <1>4, <2>2, <2>4
    <2> QED
        BY <1>1, <1>2, <1>3, <1>7, <1>9, <2>5
<1> QED
    BY <1>1, <1>2, <1>6, <1>8, <1>9 DEF Ths

(* Every revision of the table has its rankings, so the last one is selected. *)
LEMMA WhatIsSelected ==
    ASSUME DatasetInv, SelectedRevision # None
    PROVE  /\ SelectedRevision \in DOMAIN facts.rankings /\ SelectedRevision \in Catalogs
           /\ facts.rankings[SelectedRevision] \in Values
<1> DEFINE ranked == {n \in DOMAIN facts.revisions : facts.revisions[n] \in DOMAIN facts.rankings}
<1>1. SelectedRevision = IF ranked = {} THEN None
        ELSE facts.revisions[CHOOSE n \in ranked : \A m \in ranked : m <= n]
    BY Zenon DEF SelectedRevision
<1>2. ranked # {}
    BY <1>1
<1>3. ranked = 1 .. Len(facts.revisions) /\ Len(facts.revisions) \in Nat
    BY DEF DatasetInv, DatasetTypeOK, FactsTypeOK
<1> HIDE DEF ranked
<1>4. Len(facts.revisions) \in ranked /\ \A m \in ranked : m <= Len(facts.revisions)
    BY <1>2, <1>3
<1>5. PICK n \in ranked : SelectedRevision = facts.revisions[n]
    BY <1>1, <1>2, <1>4
<1>6. SelectedRevision \in DOMAIN facts.rankings
    BY <1>5 DEF ranked
<1>7. facts.rankings \in Partial(Catalogs, Values)
    BY DEF DatasetInv, DatasetTypeOK, FactsTypeOK
<1> QED
    BY <1>6, <1>7, PartialIs

LEMMA ReadKeeps ==
    ASSUME DatasetInv, NEW w \in Workers, RunsOn(w, Ths), NEW acceptable, NEW x,
           Read(w, acceptable, x),
           acceptable => x \in Evidence,
           acceptable /\ Now(w).dataset # "industry-ranking" => EvidenceOK(x)
    PROVE  DatasetInv'
<1>1. PICK c : c = Now(w)
    OBVIOUS
<1>2. worker[w] # None /\ Runs(w) /\ c \in Plans /\ PlanOK(c) /\ c.dataset \in Ths
    BY <1>1, ThsRuns
<1>3. c.dataset \notin Snapshot /\ c.dataset # "core"
    BY <1>2, DatasetsDiffer
<1>4. CASE acceptable
    <2>1. PICK o : o = [Onward(c) EXCEPT !.draft = x]
        OBVIOUS
    <2>2. x \in Candidates \cup CoreDrafts \cup Evidence \cup {None}
        BY <1>4
    <2>3. o \in Plans
        BY <1>2, <2>1, <2>2, PlansGoOn
    <2>4. /\ o.dataset = c.dataset /\ o.day = c.day /\ o.settled = c.settled
          /\ o.stopped = c.stopped /\ o.step = c.step + 1 /\ o.draft = x
        BY <1>2, <2>1, PlansBecome
    <2>5. x # None
        BY <1>4, NoneIsNothing
    <2>6. DraftOK(o, x)
        BY <1>1, <1>3, <1>4, <2>4 DEF DraftOK
    <2>7. PlanOK(o)
        BY <1>2, <1>3, <2>4, <2>5, <2>6 DEF PlanOK
    <2>8. Goes(w, o)
        BY <1>1, <1>4, <2>1, Zenon DEF Read
    <2> QED
        BY <1>1, <1>2, <1>3, <2>3, <2>4, <2>7, <2>8, PlanKeeps
<1>5. CASE ~ acceptable
    <2>1. PICK o : o = [c EXCEPT !.stopped = TRUE, !.draft = None]
        OBVIOUS
    <2>2. None \in Candidates \cup CoreDrafts \cup Evidence \cup {None}
        OBVIOUS
    <2>3. o \in Plans
        BY <1>2, <2>1, <2>2, PlansGoOn
    <2>4. /\ o.dataset = c.dataset /\ o.day = c.day /\ o.settled = c.settled
          /\ o.stopped /\ o.step = c.step /\ o.draft = None
        BY <1>2, <2>1, PlansBecome
    <2>5. PlanOK(o)
        BY <1>2, <1>3, <2>4 DEF PlanOK
    <2>6. Goes(w, o)
        BY <1>1, <1>5, <2>1, Zenon DEF Read
    <2> QED
        BY <1>1, <1>2, <1>3, <2>3, <2>4, <2>5, <2>6, PlanKeeps
<1> QED
    BY <1>4, <1>5

LEMMA ThsReads ==
    ASSUME DatasetInv, NEW w \in Workers,
           \/ ReadBundle(w) \/ ReadRankings(w) \/ ReadRankingSnapshot(w) \/ ReadBars(w)
           \/ ReadTurnover(w) \/ ReadLimits(w)
    PROVE  DatasetInv'
<1>1. CASE ReadBundle(w)
    <2>1. RunsOn(w, Ths) /\ Source(w) = "bundle"
        BY <1>1 DEF ReadBundle, Reads
    <2>2. PICK x : x = [revision |-> provider.catalog, value |-> provider.value, limits |-> 0]
        OBVIOUS
    <2>3. PICK answered \in BOOLEAN : Read(w, answered, x)
        BY <1>1, <2>2, Zenon DEF ReadBundle
    <2>4. provider \in [catalog : Catalogs, value : Values]
        BY DEF DatasetInv, DatasetTypeOK
    <2>5. x \in Evidence
        BY <2>2, <2>4 DEF Evidence
    <2> QED
        BY <2>1, <2>3, <2>5, ThsRuns, ReadKeeps
<1>2. CASE ReadRankings(w)
    <2>1. RunsOn(w, Ths)
        BY <1>2 DEF ReadRankings, Reads
    <2>2. PICK x : x = [revision |-> SelectedRevision, limits |-> 0,
                        value |-> IF SelectedRevision = None THEN None
                                  ELSE facts.rankings[SelectedRevision]]
        OBVIOUS
    <2>3. Read(w, SelectedRevision # None, x)
        BY <1>2, <2>2, Zenon DEF ReadRankings
    <2>4. ASSUME SelectedRevision # None PROVE x \in Evidence /\ EvidenceOK(x)
        <3>1. PICK r : /\ r = SelectedRevision /\ r \in DOMAIN facts.rankings /\ r \in Catalogs
                       /\ facts.rankings[r] \in Values
            BY <2>4, WhatIsSelected
        <3>2. x = [revision |-> r, limits |-> 0, value |-> facts.rankings[r]]
            BY <2>2, <2>4, <3>1
        <3> QED
            BY <3>1, <3>2 DEF Evidence, EvidenceOK
    <2> QED
        BY <2>1, <2>3, <2>4, ReadKeeps
<1>3. ASSUME NEW ok, RunsOn(w, Ths), Source(w) \notin {"bundle", "rankings"},
             Read(w, ok, Now(w).draft)
      PROVE  DatasetInv'
    BY <1>3, ThsRuns, ReadKeeps
<1>4. CASE ReadRankingSnapshot(w)
    BY <1>3, <1>4 DEF ReadRankingSnapshot, Reads
<1>5. CASE ReadBars(w)
    BY <1>3, <1>5 DEF ReadBars, Reads
<1>6. CASE ReadTurnover(w)
    BY <1>3, <1>6 DEF ReadTurnover, Reads
<1>7. CASE ReadLimits(w)
    <2>1. RunsOn(w, Ths) /\ Source(w) = "limits"
        BY <1>7 DEF ReadLimits, Reads
    <2>2. PICK e : e = Now(w).draft /\ e \in Evidence /\ EvidenceOK(e)
        BY <2>1, ThsRuns
    <2>3. PICK x : x = [e EXCEPT !.limits = limitsSeen]
        OBVIOUS
    <2>4. x \in Evidence /\ x.revision = e.revision /\ x.value = e.value
        BY <2>2, <2>3 DEF Evidence, DatasetInv, DatasetTypeOK
    <2>5. Read(w, TRUE, x)
        BY <1>7, <2>2, <2>3 DEF ReadLimits
    <2>6. EvidenceOK(x)
        BY <2>2, <2>4 DEF EvidenceOK
    <2> QED
        BY <2>1, <2>4, <2>5, <2>6, ReadKeeps
<1> QED
    BY <1>1, <1>2, <1>4, <1>5, <1>6, <1>7

-----------------------------------------------------------------------------
(* A collection begins *)

LEMMA BeginsFits ==
    ASSUME phase \in 0 .. 3, NEW dataset \in Datasets, NEW day \in Days
    PROVE  LET c == Begins(dataset, day) IN
           /\ c \in Plans /\ PlanOK(c)
           /\ c.dataset = dataset /\ c.day = day /\ c.draft = None
<1>1. PICK s : s = IsSettled(day) /\ s \in BOOLEAN /\ (s => Over(day))
    <2>1. IsSettled(day) \in BOOLEAN
        BY DEF IsSettled
    <2> QED
        BY <2>1, OnceOver
<1>2. PICK t : t = Today /\ t \in {D, D + 1}
    BY OnceOver
<1>3. PICK c : c = [dataset |-> dataset, day |-> day, today |-> t, settled |-> s,
                    step |-> 1, draft |-> None, stopped |-> FALSE]
    OBVIOUS
<1>4. c \in Plans
    <2>1. None \in Candidates \cup CoreDrafts \cup Evidence \cup {None} /\ 1 \in Nat \ {0}
        OBVIOUS
    <2> QED
        BY <1>1, <1>2, <1>3, <2>1, Zenon DEF Plans
<1>5. Collecting(dataset, day) = c
    BY <1>1, <1>2, <1>3, Zenon DEF Collecting
<1>6. PICK b : b = Begins(dataset, day)
    OBVIOUS
<1>7. b = c \/ (dataset \in Ths /\ b = [c EXCEPT !.stopped = TRUE])
    BY <1>5, <1>6, Zenon DEF Begins
<1>8. /\ b \in Plans /\ b.dataset = dataset /\ b.day = day /\ b.draft = None
      /\ b.settled = s /\ b.step = 1 /\ (dataset \notin Ths => ~ b.stopped)
    <2>1. CASE b = c
        BY <1>3, <1>4, <2>1
    <2>2. CASE dataset \in Ths /\ b = [c EXCEPT !.stopped = TRUE]
        <3>1. None \in Candidates \cup CoreDrafts \cup Evidence \cup {None}
            OBVIOUS
        <3>2. b \in Plans
            BY <1>4, <2>2, <3>1, PlansGoOn
        <3> QED
            BY <1>3, <1>4, <2>2, <3>2
    <2> QED
        BY <1>7, <2>1, <2>2
<1>9. PlanOK(b)
    BY <1>1, <1>8, DatasetsDiffer DEF PlanOK
<1> QED
    BY <1>6, <1>8, <1>9

LEMMA IdIsNat ==
    ASSUME DatasetInv, NEW k \in Keys
    PROVE  StoredId(k) \in Nat
<1>1. stored[k] \in Saved \cup {None}
    BY DEF DatasetInv, DatasetTypeOK
<1> QED
    BY <1>1 DEF StoredId, Saved

(* A thread takes a free lease. *)
LEMMA TakesLease ==
    ASSUME DatasetInv, NEW w \in Workers, NEW k \in Keys,
           NEW r \in Collections, CollectionOK(r), r # None,
           worker' = [worker EXCEPT ![w] = r], lease' = [lease EXCEPT ![k] = w],
           UNCHANGED <<phase, thsVars, scope, store>>, started' \in Nat,
           HasSeen(r, k), \A j \in Keys : lease[j] = w => HasSeen(r, j)
    PROVE  DatasetInv'
<1>1. DatasetTypeOK'
    BY DEF DatasetInv, DatasetTypeOK, FactsTypeOK, thsVars, store
<1>2. Grows
    BY DEF Grows, DatasetInv, DatasetTypeOK, thsVars
<1>3. \A v \in Workers : worker'[v] = IF v = w THEN r ELSE worker[v]
    BY DEF DatasetInv, DatasetTypeOK
<1>4. ASSUME NEW j \in Keys, lease'[j] # NoOne
      PROVE  HasSeen(worker[lease[j]], j)'
    <2>1. PICK v : v = lease'[j] /\ v \in Workers /\ (v = w \/ (v = lease[j] /\ j # k))
        BY <1>1, <1>4 DEF DatasetInv, DatasetTypeOK
    <2>2. PICK x : x = worker'[v] /\ HasSeen(x, j)
        <3>1. CASE v = w
            <4>1. lease[j] = w \/ j = k
                BY <2>1, <3>1 DEF DatasetInv, DatasetTypeOK
            <4> QED
                BY <1>3, <3>1, <4>1
        <3>2. CASE v # w
            <4>1. HasSeen(worker[v], j)
                BY <2>1, <3>2, <1>4 DEF DatasetInv
            <4> QED
                BY <1>3, <2>1, <3>2, <4>1
        <3> QED
            BY <3>1, <3>2
    <2>3. HasSeen(x, j)'
        BY <2>2 DEF HasSeen, StoredId, store
    <2> QED
        BY <2>1, <2>2, <2>3
<1> QED
    BY <1>1, <1>2, <1>3, <1>4, StepKeeps DEF DatasetInv, thsVars, store

LEMMA CollectionsBegin ==
    ASSUME DatasetInv, NEW w \in Workers, NEW k \in scope, BeginCollection(w, k)
    PROVE  DatasetInv'
<1>1. k \in Keys /\ k[1] \in Datasets /\ k[2] \in Days /\ k = <<k[1], k[2]>>
    BY KeysAreKeys, Zenon DEF DatasetInv, DatasetTypeOK
<1>2. phase \in 0 .. 3 /\ started \in Nat /\ worker[w] = None
    BY DEF DatasetInv, DatasetTypeOK, BeginCollection
<1>3. PICK c : /\ c = Begins(k[1], k[2]) /\ c \in Plans /\ PlanOK(c)
               /\ c.dataset = k[1] /\ c.day = k[2] /\ c.draft = None
    BY <1>1, <1>2, BeginsFits
<1>4. PICK b : b = [x \in Keys |-> IF x = k THEN StoredId(k) ELSE 0]
    OBVIOUS
<1>5. b \in [Keys -> Nat] /\ b[k] = StoredId(k)
    BY <1>1, <1>4, IdIsNat
<1>6. PICK place \in {"preparing", "taking", "previous", "asking"} :
        place = IF k[1] = "limits" THEN "preparing" ELSE "asking"
    OBVIOUS
<1>7. PICK n \in Nat : n = started + 1
    BY <1>2
<1>8. PICK r : r = [at |-> place, key |-> k, id |-> n, plan |-> c, previous |-> None, base |-> b]
    OBVIOUS
<1>9. r \in Collections
    BY <1>1, <1>3, <1>5, <1>8 DEF Collections
<1>10. /\ r.at = place /\ r.key = k /\ r.plan = c /\ r.previous = None /\ r.base = b
    BY <1>8
<1>11. CollectionOK(r)
    BY <1>3, <1>6, <1>10 DEF CollectionOK
<1>12. HasSeen(r, k)
    BY <1>3, <1>5, <1>9, <1>10, NoneIsNothing DEF HasSeen
<1>13. \A j \in Keys : lease[j] # w
    BY <1>2, NoneIsNothing DEF DatasetInv, HasSeen
<1>14. worker' = [worker EXCEPT ![w] = r]
    BY <1>3, <1>4, <1>6, <1>7, <1>8, Zenon DEF BeginCollection
<1>15. /\ lease' = [lease EXCEPT ![k] = w] /\ UNCHANGED <<phase, thsVars, scope, store>>
       /\ started' \in Nat
    BY <1>2 DEF BeginCollection
<1>16. r # None
    BY <1>9, NoneIsNothing
<1> QED
    BY <1>1, <1>9, <1>11, <1>12, <1>13, <1>14, <1>15, <1>16, TakesLease

(* It goes on to its own day, with a plan that has read the clock again. *)
LEMMA AskingFits ==
    ASSUME DatasetInv, NEW w \in Workers, worker[w] # None
    PROVE  /\ Asking(w) \in Collections /\ CollectionOK(Asking(w))
           /\ Asking(w).at = "asking" /\ Asking(w).key = worker[w].key
           /\ Asking(w).previous = worker[w].previous
           /\ \A k \in Keys : lease[k] = w => HasSeen(Asking(w), k)
<1>1. PICK r : r = worker[w] /\ r \in Collections /\ CollectionOK(r) /\ phase \in 0 .. 3
    BY WhoRuns
<1>2. r.key \in Keys /\ r.key[1] \in Datasets /\ r.key[2] \in Days
    BY <1>1, KeysAreKeys DEF Collections
<1>3. PICK c : /\ c = Begins(r.key[1], r.key[2]) /\ c \in Plans /\ PlanOK(c)
               /\ c.dataset = r.key[1] /\ c.day = r.key[2] /\ c.draft = None
    BY <1>1, <1>2, BeginsFits
<1>4. PICK a : a = [r EXCEPT !.at = "asking", !.plan = c]
    OBVIOUS
<1>5. Asking(w) = a
    BY <1>1, <1>3, <1>4 DEF Asking
<1>6. /\ a \in Collections /\ a.at = "asking" /\ a.plan = c /\ a.key = r.key
      /\ a.previous = r.previous /\ a.base = r.base
    BY <1>1, <1>3, <1>4 DEF Collections
<1>7. CollectionOK(a)
    BY <1>1, <1>3, <1>6 DEF CollectionOK
<1>8. ASSUME NEW k \in Keys, lease[k] = w PROVE HasSeen(a, k)
    <2>1. HasSeen(r, k)
        BY <1>1, <1>8, NoneIsNothing DEF DatasetInv
    <2>2. a # None
        BY <1>6, NoneIsNothing
    <2> QED
        BY <1>3, <1>6, <2>1, <2>2 DEF HasSeen
<1> QED
    BY <1>1, <1>5, <1>6, <1>7, <1>8

LEMMA LimitsPrepare ==
    ASSUME DatasetInv, NEW w \in Workers, PrepareLimits(w)
    PROVE  DatasetInv'
<1>1. worker[w] # None /\ worker[w].at = "preparing"
    BY DEF PrepareLimits, IsAt
<1>2. PICK r0 : r0 = worker[w] /\ r0 \in Collections /\ CollectionOK(r0)
    BY <1>1, WhoRuns
<1>3. UNCHANGED <<phase, thsVars, scope, lease, started, store, lapses, changes>>
    BY DEF PrepareLimits
<1>4. CASE r0.key[2] = D /\ worker' = [worker EXCEPT ![w] = [worker[w] EXCEPT !.at = "taking"]]
    <2>1. PICK r : r = [r0 EXCEPT !.at = "taking"]
        OBVIOUS
    <2>2. /\ r \in Collections /\ r.at = "taking" /\ r.plan = r0.plan /\ r.key = r0.key
          /\ r.previous = r0.previous /\ r.base = r0.base
        BY <1>2, <2>1 DEF Collections
    <2>3. r.key = <<"limits", D>>
        BY <1>1, <1>2, <1>4, <2>2, KeysAreKeys DEF CollectionOK, Collections
    <2>4. CollectionOK(r)
        BY <1>1, <1>2, <2>2, <2>3 DEF CollectionOK
    <2>5. ASSUME NEW k \in Keys, lease[k] = w PROVE HasSeen(r, k)
        <3>1. HasSeen(r0, k)
            BY <1>2, <2>5, NoneIsNothing DEF DatasetInv
        <3>2. r # None
            BY <2>2, NoneIsNothing
        <3> QED
            BY <2>2, <3>1, <3>2 DEF HasSeen
    <2>6. worker' = [worker EXCEPT ![w] = r]
        BY <1>2, <1>4, <2>1
    <2> QED
        BY <1>1, <1>3, <2>2, <2>4, <2>5, <2>6, ThreadKeeps
<1>5. CASE worker' = [worker EXCEPT ![w] = Asking(w)]
    BY <1>1, <1>3, <1>5, AskingFits, ThreadKeeps
<1> QED
    BY <1>2, <1>4, <1>5, Zenon DEF PrepareLimits, Becomes

LEMMA PreviousIsTaken ==
    ASSUME DatasetInv, NEW w \in Workers, TakePrevious(w)
    PROVE  DatasetInv'
<1>1. worker[w] # None /\ worker[w].at = "taking"
    BY DEF TakePrevious, IsAt
<1>2. PICK r0 : r0 = worker[w] /\ r0 \in Collections /\ CollectionOK(r0) /\ phase \in 0 .. 3
    BY <1>1, WhoRuns
<1>3. UNCHANGED <<phase, thsVars, scope, started, store, lapses, changes>>
    BY DEF TakePrevious
<1>4. CASE lease[PreviousKey] = NoOne
    <2>1. PICK c : /\ c = Begins("limits", P) /\ c \in Plans /\ PlanOK(c)
                   /\ c.dataset = "limits" /\ c.day = P /\ c.draft = None
        BY <1>2, BeginsFits, DatasetsDiffer DEF Datasets
    <2>2. PICK b : b = [r0.base EXCEPT ![PreviousKey] = StoredId(PreviousKey)]
        OBVIOUS
    <2>3. /\ b \in [Keys -> Nat] /\ b[PreviousKey] = StoredId(PreviousKey)
          /\ \A k \in Keys : k # PreviousKey => b[k] = r0.base[k]
        BY <1>2, <2>2, KeysAreKeys, IdIsNat DEF Collections
    <2>4. PICK r : r = [r0 EXCEPT !.at = "previous", !.plan = c, !.base = b]
        OBVIOUS
    <2>5. /\ r.at = "previous" /\ r.plan = c /\ r.key = r0.key /\ r.previous = r0.previous
          /\ r.base = b
        BY <1>2, <2>4 DEF Collections
    <2>6. r \in Collections
        BY <1>2, <2>1, <2>3, <2>4, Zenon DEF Collections
    <2>7. CollectionOK(r)
        BY <1>1, <1>2, <2>1, <2>5 DEF CollectionOK
    <2>8. r # None
        BY <2>6, NoneIsNothing
    <2>9. HasSeen(r, PreviousKey)
        BY <2>1, <2>3, <2>5, <2>8 DEF HasSeen
    <2>10. ASSUME NEW k \in Keys, lease[k] = w PROVE HasSeen(r, k)
        <3>1. HasSeen(r0, k)
            BY <1>2, <2>10, NoneIsNothing DEF DatasetInv
        <3>2. k # PreviousKey
            BY <1>4, <2>10, NoneIsNothing
        <3> QED
            BY <2>1, <2>3, <2>5, <2>8, <3>1, <3>2 DEF HasSeen
    <2>11. /\ worker' = [worker EXCEPT ![w] = r]
           /\ lease' = [lease EXCEPT ![PreviousKey] = w]
        BY <1>2, <1>4, <2>1, <2>2, <2>4 DEF TakePrevious, Becomes
    <2>12. started' \in Nat
        BY <1>3 DEF DatasetInv, DatasetTypeOK
    <2> QED
        BY <1>3, <2>6, <2>7, <2>8, <2>9, <2>10, <2>11, <2>12, KeysAreKeys, TakesLease
<1>5. CASE lease[PreviousKey] # NoOne
    BY <1>1, <1>3, <1>5, AskingFits, ThreadKeeps DEF TakePrevious, Becomes
<1> QED
    BY <1>4, <1>5

LEMMA PreviousEnds ==
    ASSUME DatasetInv, NEW w \in Workers, EndPrevious(w)
    PROVE  DatasetInv'
<1>1. worker[w] # None /\ worker[w].at = "previous"
    BY DEF EndPrevious, IsAt
<1>2. PICK r0 : r0 = worker[w] /\ r0 \in Collections /\ CollectionOK(r0)
    BY <1>1, WhoRuns
<1>3. PICK a : /\ a = Asking(w) /\ a \in Collections /\ CollectionOK(a)
               /\ a.at = "asking" /\ a.key = r0.key
               /\ \A k \in Keys : lease[k] = w => HasSeen(a, k)
    BY <1>1, <1>2, AskingFits
<1>4. PICK x : x = r0.plan.draft
    OBVIOUS
<1>5. r0.key = <<"limits", D>> /\ r0.plan.day = P /\ r0.plan.dataset = "limits" /\ PlanOK(r0.plan)
    BY <1>1, <1>2 DEF CollectionOK
<1>6. x # None => CandidateOK(x, P)
    BY <1>4, <1>5, DatasetsDiffer DEF PlanOK, DraftOK
<1>7. PICK r : r = [a EXCEPT !.previous = x]
    OBVIOUS
<1>8. x \in Candidates \cup {None}
    BY <1>6 DEF CandidateOK
<1>9. /\ r \in Collections /\ r.at = a.at /\ r.plan = a.plan /\ r.key = a.key
      /\ r.previous = x /\ r.base = a.base
    BY <1>3, <1>7, <1>8 DEF Collections
<1>10. CollectionOK(r)
    BY <1>3, <1>5, <1>6, <1>9 DEF CollectionOK
<1>11. ASSUME NEW k \in Keys, lease[k] = w PROVE HasSeen(r, k)
    <2>1. r # None
        BY <1>9, NoneIsNothing
    <2> QED
        BY <1>3, <1>9, <1>11, <2>1 DEF HasSeen
<1>12. worker' = [worker EXCEPT ![w] = r]
    BY <1>2, <1>3, <1>4, <1>7 DEF EndPrevious, Becomes, Now
<1>13. UNCHANGED <<phase, thsVars, scope, lease, started, store, lapses, changes>>
    BY DEF EndPrevious
<1> QED
    BY <1>1, <1>9, <1>10, <1>11, <1>12, <1>13, ThreadKeeps

-----------------------------------------------------------------------------
(* The commit *)

LEMMA PutGrows ==
    ASSUME NEW S, NEW T, NEW f \in Partial(S, T), NEW key \in S, NEW value \in T,
           ~ Conflicts(f, key, value)
    PROVE  /\ Put(f, key, value) \in Partial(S, T)
           /\ key \in DOMAIN Put(f, key, value) /\ Put(f, key, value)[key] = value
           /\ \A r \in DOMAIN f : r \in DOMAIN Put(f, key, value) /\ Put(f, key, value)[r] = f[r]
<1>1. PICK g : g = [k \in DOMAIN f \cup {key} |-> IF k = key THEN value ELSE f[k]]
    OBVIOUS
<1>2. DOMAIN f \subseteq S /\ f \in [DOMAIN f -> T]
    BY PartialIs
<1>3. g \in [DOMAIN f \cup {key} -> T]
    BY <1>1, <1>2
<1>4. g \in Partial(S, T)
    BY <1>2, <1>3, PartialOf
<1>5. \A r \in DOMAIN f : r \in DOMAIN g /\ g[r] = f[r]
    BY <1>1 DEF Conflicts
<1> QED
    BY <1>1, <1>4, <1>5 DEF Put

LEMMA RankingCommits ==
    ASSUME DatasetInv, NEW d \in Evidence, ~ RankingConflicts(d), facts' = WithRanking(d),
           phase' = phase
    PROVE  /\ FactsTypeOK' /\ Grows /\ EvidenceOK(d)'
           /\ \A n \in DOMAIN facts'.revisions : facts'.revisions[n] \in DOMAIN facts'.rankings
<1>1. d.revision \in Catalogs /\ d.value \in Values
    BY DEF Evidence
<1>2. /\ facts = [revisions |-> facts.revisions, rankings |-> facts.rankings,
                  breadth |-> facts.breadth]
      /\ facts.revisions \in Seq(Catalogs) /\ facts.rankings \in Partial(Catalogs, Values)
      /\ phase \in 0 .. 3
    BY DEF DatasetInv, DatasetTypeOK, FactsTypeOK
<1>3. PICK g : /\ g = Put(facts.rankings, d.revision, d.value) /\ g \in Partial(Catalogs, Values)
               /\ d.revision \in DOMAIN g /\ g[d.revision] = d.value
               /\ \A r \in DOMAIN facts.rankings : r \in DOMAIN g /\ g[r] = facts.rankings[r]
    BY <1>1, <1>2, PutGrows DEF RankingConflicts
<1>4. PICK q : q = IF Contains(facts.revisions, d.revision) THEN facts.revisions
                   ELSE Append(facts.revisions, d.revision)
    OBVIOUS
<1>5. q \in Seq(Catalogs) /\ \A n \in DOMAIN q : q[n] \in DOMAIN g
    <2>1. \A n \in DOMAIN facts.revisions : facts.revisions[n] \in DOMAIN g
        BY <1>3 DEF DatasetInv
    <2>2. CASE q = facts.revisions
        BY <1>2, <2>1, <2>2
    <2>3. CASE q = Append(facts.revisions, d.revision)
        <3>1. q \in Seq(Catalogs) /\ DOMAIN q = 1 .. Len(facts.revisions) + 1
            BY <1>1, <1>2, <2>3
        <3>2. ASSUME NEW n \in DOMAIN q PROVE q[n] \in DOMAIN g
            <4>1. CASE n = Len(facts.revisions) + 1
                BY <1>1, <1>2, <1>3, <2>3, <4>1
            <4>2. CASE n # Len(facts.revisions) + 1
                BY <1>1, <1>2, <2>1, <2>3, <3>1, <4>2
            <4> QED
                BY <4>1, <4>2
        <3> QED
            BY <3>1, <3>2
    <2> QED
        BY <1>4, <2>2, <2>3
<1>6. facts' = [facts EXCEPT !.revisions = q, !.rankings = g]
    BY <1>3, <1>4 DEF WithRanking
<1>7. /\ facts' = [revisions |-> q, rankings |-> g, breadth |-> facts.breadth]
      /\ facts'.revisions = q /\ facts'.rankings = g /\ facts'.breadth = facts.breadth
    BY <1>2, <1>6
<1>8. FactsTypeOK'
    BY <1>3, <1>5, <1>7 DEF FactsTypeOK, DatasetInv, DatasetTypeOK
<1>9. Grows
    BY <1>2, <1>3, <1>7 DEF Grows
<1>10. EvidenceOK(d)'
    BY <1>3, <1>7 DEF EvidenceOK
<1> QED
    BY <1>5, <1>7, <1>8, <1>9, <1>10

LEMMA BreadthCommits ==
    ASSUME DatasetInv, NEW d \in Evidence, ~ BreadthConflicts(d), facts' = WithBreadth(d),
           phase' = phase
    PROVE  /\ FactsTypeOK' /\ Grows
           /\ d.value \notin Thin =>
                d.revision \in DOMAIN facts'.breadth /\ facts'.breadth[d.revision] = d.limits
           /\ \A n \in DOMAIN facts'.revisions : facts'.revisions[n] \in DOMAIN facts'.rankings
<1>1. d.revision \in Catalogs /\ d.limits \in Nat
    BY DEF Evidence
<1>2. /\ facts = [revisions |-> facts.revisions, rankings |-> facts.rankings,
                  breadth |-> facts.breadth]
      /\ phase \in 0 .. 3
    BY DEF DatasetInv, DatasetTypeOK, FactsTypeOK
<1>3. CASE d.value \in Thin
    <2>1. facts' = facts
        BY <1>3 DEF WithBreadth
    <2> QED
        BY <1>2, <1>3, <2>1 DEF Grows, DatasetInv, DatasetTypeOK, FactsTypeOK
<1>4. CASE d.value \notin Thin
    <2>1. facts.breadth \in Partial(Catalogs, Nat)
        BY PartialOf DEF DatasetInv, DatasetTypeOK, FactsTypeOK
    <2>2. PICK g : /\ g = Put(facts.breadth, d.revision, d.limits) /\ g \in Partial(Catalogs, Nat)
                   /\ d.revision \in DOMAIN g /\ g[d.revision] = d.limits
                   /\ \A r \in DOMAIN facts.breadth : r \in DOMAIN g /\ g[r] = facts.breadth[r]
        BY <1>1, <1>4, <2>1, PutGrows DEF BreadthConflicts
    <2>3. facts' = [facts EXCEPT !.breadth = g]
        BY <1>4, <2>2 DEF WithBreadth
    <2>4. /\ facts' = [revisions |-> facts.revisions, rankings |-> facts.rankings, breadth |-> g]
          /\ facts'.revisions = facts.revisions /\ facts'.rankings = facts.rankings
          /\ facts'.breadth = g
        BY <1>2, <2>3
    <2>5. \E X \in SUBSET Catalogs : g \in [X -> Nat]
        BY <2>2, PartialIs
    <2>6. FactsTypeOK'
        BY <2>4, <2>5 DEF FactsTypeOK, DatasetInv, DatasetTypeOK
    <2>7. Grows
        BY <1>2, <2>2, <2>4 DEF Grows
    <2> QED
        BY <2>2, <2>4, <2>6, <2>7 DEF DatasetInv
<1> QED
    BY <1>3, <1>4

(* A thread that ends gives up its leases; it wrote under no others. *)
LEMMA EndKeeps ==
    ASSUME DatasetInv, NEW w \in Workers, Done(w), FactsTypeOK', Grows,
           \A n \in DOMAIN facts'.revisions : facts'.revisions[n] \in DOMAIN facts'.rankings,
           stored' \in [Keys -> Saved \cup {None}],
           \A k \in Keys : \/ stored'[k] = stored[k]
                           \/ lease[k] = w /\ \E x : x = stored'[k].data /\ StoredOK(k, x)'
    PROVE  DatasetInv'
<1>1. \A k \in Keys : lease'[k] = IF lease[k] = w THEN NoOne ELSE lease[k]
    BY DEF Done, Freed
<1>2. lease' \in [Keys -> Workers \cup {NoOne}]
    BY DEF Done, Freed, DatasetInv, DatasetTypeOK
<1>3. \A v \in Workers : worker'[v] = IF v = w THEN None ELSE worker[v]
    BY DEF Done, DatasetInv, DatasetTypeOK
<1>4. worker' \in [Workers -> Collections \cup {None}]
    BY DEF Done, DatasetInv, DatasetTypeOK
<1>5. DatasetTypeOK'
    BY <1>2, <1>4 DEF Done, DatasetInv, DatasetTypeOK
<1>6. ASSUME NEW k \in Keys, lease'[k] # NoOne
      PROVE  HasSeen(worker[lease[k]], k)'
    <2>1. PICK v : v = lease'[k] /\ v = lease[k] /\ v # w /\ v \in Workers
        BY <1>1, <1>2, <1>6
    <2>2. PICK x : x = worker'[v] /\ HasSeen(x, k)
        BY <1>3, <1>6, <2>1 DEF DatasetInv
    <2>3. stored'[k] = stored[k]
        BY <2>1
    <2>4. HasSeen(x, k)'
        BY <2>2, <2>3 DEF HasSeen, StoredId
    <2> QED
        BY <2>1, <2>2, <2>4
<1> QED
    BY <1>3, <1>5, <1>6, StepKeeps

(* What has ended at the day of its own key *)
LEMMA WhatIsReady ==
    ASSUME DatasetInv, NEW w \in Workers, IsAt(w, "asking")
    PROVE  /\ worker[w] \in Collections /\ CollectionOK(worker[w])
           /\ Now(w) \in Plans /\ PlanOK(Now(w))
           /\ worker[w].key \in Keys /\ worker[w].key[1] = Now(w).dataset
           /\ worker[w].key[2] = Now(w).day
<1>1. worker[w] # None /\ worker[w].at = "asking"
    BY DEF IsAt
<1>2. worker[w] \in Collections /\ CollectionOK(worker[w])
    BY <1>1, WhoRuns
<1> QED
    BY <1>1, <1>2, WhoRuns DEF CollectionOK, Now

LEMMA FactsCommit ==
    ASSUME DatasetInv, NEW w \in Workers, Commit(w), NEW x, x = Now(w).draft
    PROVE  /\ FactsTypeOK' /\ Grows
           /\ \A n \in DOMAIN facts'.revisions : facts'.revisions[n] \in DOMAIN facts'.rankings
           /\ Now(w).dataset = "industry-ranking" => EvidenceOK(x)'
           /\ Now(w).dataset = "sector-breadth" /\ x.value \notin Thin =>
                x.revision \in DOMAIN facts'.breadth /\ facts'.breadth[x.revision] = x.limits
<1>1. PICK c : c = Now(w) /\ c \in Plans /\ PlanOK(c) /\ c.draft = x
    BY WhatIsReady DEF Commit
<1>2. x # None /\ NoConflict(w) /\ phase' = phase
    BY <1>1 DEF Commit, Produced, CanCommit, Done
<1>3. c.dataset \in Ths => x \in Evidence
    BY <1>1, <1>2 DEF PlanOK, DraftOK
<1>4. CASE c.dataset = "industry-ranking"
    <2>1. x \in Evidence /\ ~ RankingConflicts(x)
        BY <1>1, <1>2, <1>3, <1>4 DEF NoConflict, Ths
    <2>2. facts' = WithRanking(x)
        BY <1>1, <1>4 DEF Commit
    <2> QED
        BY <1>1, <1>2, <1>4, <2>1, <2>2, RankingCommits
<1>5. CASE c.dataset = "sector-breadth"
    <2>1. x \in Evidence /\ ~ BreadthConflicts(x)
        BY <1>1, <1>2, <1>3, <1>5 DEF NoConflict, Ths
    <2>2. facts' = WithBreadth(x)
        BY <1>1, <1>5 DEF Commit
    <2> QED
        BY <1>1, <1>2, <1>5, <2>1, <2>2, BreadthCommits
<1>6. CASE c.dataset \notin {"industry-ranking", "sector-breadth"}
    <2>1. facts' = facts
        BY <1>1, <1>6 DEF Commit
    <2> QED
        BY <1>1, <1>2, <1>6, <2>1 DEF Grows, DatasetInv, DatasetTypeOK, FactsTypeOK
<1> QED
    BY <1>4, <1>5, <1>6

LEMMA SnapshotIsSaved ==
    ASSUME DatasetInv, NEW w \in Workers, worker[w] \in Collections, NEW k \in Keys,
           NEW data \in Candidates \cup CoreData \cup Evidence
    PROVE  [id |-> worker[w].id, base |-> worker[w].base[k], data |-> data] \in Saved
<1>1. worker[w].id \in Nat /\ worker[w].base[k] \in Nat
    BY DEF Collections
<1> QED
    BY <1>1, Zenon DEF Saved

(* The snapshot of a draft keeps what the draft says. *)
LEMMA CoreIsWritten ==
    ASSUME NEW c \in Plans, NEW d, CoreDraftOK(c, d), NEW x,
           x = [settled |-> c.settled,
                indices |-> [i \in DOMAIN d.indices |-> d.indices[i].reading],
                fresh |-> FreshIndices(d)]
    PROVE  /\ x \in CoreData /\ x.fresh \subseteq DOMAIN x.indices
           /\ DOMAIN x.indices = DOMAIN d.indices
           /\ \A i \in DOMAIN x.indices :
                x.indices[i] = d.indices[i].reading /\ ReadingOK(x.indices[i], c.day)
           /\ x.settled => \A i \in x.fresh : x.indices[i].final
<1>1. d.indices \in Partial(Indices, Answers)
    BY DEF CoreDraftOK, CoreDrafts, Answers
<1>2. DOMAIN d.indices \subseteq Indices /\ d.indices \in [DOMAIN d.indices -> Answers]
    BY <1>1, PartialIs
<1>3. PICK f : f = [i \in DOMAIN d.indices |-> d.indices[i].reading]
    OBVIOUS
<1>4. f \in [DOMAIN d.indices -> Reading]
    BY <1>2, <1>3 DEF Answers
<1>5. f \in Partial(Indices, Reading)
    BY <1>2, <1>4, PartialOf
<1>6. FreshIndices(d) \in SUBSET Indices /\ FreshIndices(d) \subseteq DOMAIN d.indices
    BY <1>2 DEF FreshIndices
<1>7. c.settled \in BOOLEAN
    BY DEF Plans
<1>8. x = [settled |-> c.settled, indices |-> f, fresh |-> FreshIndices(d)]
    BY <1>3
<1>9. x \in CoreData
    <2>1. PICK s \in BOOLEAN : s = c.settled
        BY <1>7
    <2>2. PICK g \in SUBSET Indices : g = FreshIndices(d)
        BY <1>6
    <2>3. x = [settled |-> s, indices |-> f, fresh |-> g]
        BY <1>8, <2>1, <2>2
    <2>4. [settled |-> s, indices |-> f, fresh |-> g] \in CoreData
        BY <1>5, Zenon DEF CoreData
    <2> QED
        BY <2>3, <2>4
<1>10. \A i \in DOMAIN f : f[i] = d.indices[i].reading /\ ReadingOK(f[i], c.day)
    BY <1>3 DEF CoreDraftOK
<1>11. c.settled => \A i \in FreshIndices(d) : f[i].final
    BY <1>3 DEF CoreDraftOK, FreshIndices
<1> QED
    BY <1>3, <1>6, <1>8, <1>9, <1>10, <1>11

LEMMA OwnIsWritten ==
    ASSUME DatasetInv, NEW w \in Workers, Commit(w), NEW k, k = worker[w].key,
           stored'[k] = SnapshotFrom(w, k, Now(w).draft)
    PROVE  stored'[k] \in Saved /\ \E x : x = stored'[k].data /\ StoredOK(k, x)'
<1>1. PICK c : /\ c = Now(w) /\ c \in Plans /\ PlanOK(c)
               /\ worker[w] \in Collections /\ k \in Keys /\ k[1] = c.dataset /\ k[2] = c.day
    BY WhatIsReady DEF Commit
<1>2. PICK d : d = c.draft /\ d # None /\ DraftOK(c, d)
    BY <1>1 DEF Commit, Produced, PlanOK
<1>3. /\ FactsTypeOK' /\ Grows
      /\ c.dataset = "industry-ranking" => EvidenceOK(d)'
      /\ c.dataset = "sector-breadth" /\ d.value \notin Thin =>
            d.revision \in DOMAIN facts'.breadth /\ facts'.breadth[d.revision] = d.limits
    BY <1>1, <1>2, FactsCommit
<1>4. CASE c.dataset = "core"
    <2>1. PICK x : x = [settled |-> c.settled,
                        indices |-> [i \in DOMAIN d.indices |-> d.indices[i].reading],
                        fresh |-> FreshIndices(d)]
        OBVIOUS
    <2>2. stored'[k] = [id |-> worker[w].id, base |-> worker[w].base[k], data |-> x]
        BY <1>1, <1>2, <1>4, <2>1 DEF SnapshotFrom
    <2>3. CoreDraftOK(c, d)
        BY <1>2, <1>4 DEF DraftOK
    <2>4. /\ x \in CoreData /\ x.fresh \subseteq DOMAIN x.indices
          /\ \A i \in DOMAIN x.indices : ReadingOK(x.indices[i], c.day)
          /\ x.settled => \A i \in x.fresh : x.indices[i].final
        BY <1>1, <2>1, <2>3, CoreIsWritten
    <2>5. StoredOK(k, x)
        BY <1>1, <1>4, <2>4, DatasetsDiffer DEF StoredOK
    <2>6. StoredOK(k, x)'
        BY <1>3, <2>5, StoredStays
    <2> QED
        BY <1>1, <2>2, <2>4, <2>6, SnapshotIsSaved
<1>5. CASE c.dataset # "core"
    <2>1. stored'[k] = [id |-> worker[w].id, base |-> worker[w].base[k], data |-> d]
        BY <1>1, <1>2, <1>5 DEF SnapshotFrom
    <2>2. d \in Candidates \cup CoreData \cup Evidence
        BY <1>1, <1>2, <1>5 DEF DraftOK, CandidateOK, Plans, Datasets
    <2>3. EvidenceOK(d) => EvidenceOK(d)'
        BY <1>3, EvidenceStays
    <2>4. StoredOK(k, d)'
        BY <1>1, <1>2, <1>3, <1>5, <2>3, DatasetsDiffer DEF StoredOK, DraftOK, CandidateOK, Ths
    <2> QED
        BY <1>1, <2>1, <2>2, <2>4, SnapshotIsSaved
<1> QED
    BY <1>4, <1>5

LEMMA PreviousIsWritten ==
    ASSUME DatasetInv, NEW w \in Workers, Commit(w), WritesPrevious(w),
           NEW k, k = PreviousKey, stored'[k] = SnapshotFrom(w, k, worker[w].previous)
    PROVE  stored'[k] \in Saved /\ \E x : x = stored'[k].data /\ StoredOK(k, x)'
<1>1. worker[w] \in Collections /\ CollectionOK(worker[w])
    BY WhatIsReady DEF Commit
<1>2. PICK x : x = worker[w].previous /\ CandidateOK(x, P) /\ x \in Candidates
    BY <1>1 DEF WritesPrevious, CollectionOK, CandidateOK
<1>3. k \in Keys /\ k[1] = "limits" /\ k[2] = P
    BY KeysAreKeys
<1>4. stored'[k] = [id |-> worker[w].id, base |-> worker[w].base[k], data |-> x]
    BY <1>2, <1>3 DEF SnapshotFrom
<1>5. StoredOK(k, x)'
    BY <1>2, <1>3 DEF StoredOK, CandidateOK, Ths
<1>6. x \in Candidates \cup CoreData \cup Evidence
    BY <1>2
<1> QED
    BY <1>1, <1>3, <1>4, <1>5, <1>6, SnapshotIsSaved

(* What is written under a key, by whom and from what *)
LEMMA WhatIsWritten ==
    ASSUME DatasetInv, NEW w \in Workers, Commit(w), NEW k \in Keys
    PROVE  \/ stored'[k] = stored[k]
           \/ /\ k = worker[w].key /\ lease[k] = w
              /\ stored'[k] = SnapshotFrom(w, k, Now(w).draft)
           \/ /\ k = PreviousKey /\ lease[k] = w /\ WritesPrevious(w) /\ k # worker[w].key
              /\ stored'[k] = SnapshotFrom(w, k, worker[w].previous)
<1>1. stored'[k] = IF k = worker[w].key /\ Replaces(w) THEN SnapshotFrom(w, k, Now(w).draft)
                  ELSE IF k = PreviousKey /\ WritesPrevious(w)
                       THEN SnapshotFrom(w, k, worker[w].previous)
                  ELSE stored[k]
    BY DEF Commit, Written
<1>2. lease[worker[w].key] = w /\ (WritesPrevious(w) => lease[PreviousKey] = w)
    BY DEF Commit, CanCommit, Fenced, WritesPrevious
<1>3. WritesPrevious(w) => PreviousKey # worker[w].key
    BY WhatIsReady, DatasetsDiffer DEF Commit, WritesPrevious, CollectionOK
<1> QED
    BY <1>1, <1>2, <1>3

LEMMA CommitsKeep ==
    ASSUME DatasetInv, NEW w \in Workers, Commit(w)
    PROVE  DatasetInv'
<1>1. PICK d : d = Now(w).draft
    OBVIOUS
<1>2. /\ FactsTypeOK' /\ Grows
      /\ \A n \in DOMAIN facts'.revisions : facts'.revisions[n] \in DOMAIN facts'.rankings
    BY <1>1, FactsCommit
<1>3. ASSUME NEW k \in Keys
      PROVE  /\ stored'[k] \in Saved \cup {None}
             /\ \/ stored'[k] = stored[k]
                \/ lease[k] = w /\ \E x : x = stored'[k].data /\ StoredOK(k, x)'
    <2>1. CASE stored'[k] = stored[k]
        BY <2>1 DEF DatasetInv, DatasetTypeOK
    <2>2. CASE /\ k = worker[w].key /\ lease[k] = w
               /\ stored'[k] = SnapshotFrom(w, k, Now(w).draft)
        BY <2>2, OwnIsWritten
    <2>3. CASE /\ k = PreviousKey /\ lease[k] = w /\ WritesPrevious(w)
               /\ stored'[k] = SnapshotFrom(w, k, worker[w].previous)
        BY <2>3, PreviousIsWritten
    <2> QED
        BY <2>1, <2>2, <2>3, WhatIsWritten
<1>4. DOMAIN stored' = Keys /\ stored' = [k \in Keys |-> stored'[k]]
    BY DEF Commit, Written
<1>5. stored' \in [Keys -> Saved \cup {None}]
    BY <1>3, <1>4
<1>6. Done(w)
    BY DEF Commit
<1> QED
    BY <1>2, <1>3, <1>5, <1>6, EndKeeps

LEMMA GivingUpKeeps ==
    ASSUME DatasetInv, NEW w \in Workers, GiveUp(w)
    PROVE  DatasetInv'
<1>1. Done(w) /\ facts' = facts /\ stored' = stored /\ phase' = phase
    BY DEF GiveUp, Done, store
<1>2. Grows /\ FactsTypeOK' /\ stored' \in [Keys -> Saved \cup {None}]
    BY <1>1 DEF Grows, DatasetInv, DatasetTypeOK, FactsTypeOK
<1>3. \A n \in DOMAIN facts'.revisions : facts'.revisions[n] \in DOMAIN facts'.rankings
    BY <1>1 DEF DatasetInv
<1> QED
    BY <1>1, <1>2, <1>3, EndKeeps

-----------------------------------------------------------------------------
(* The environment, and every step *)

LEMMA OthersKeep ==
    ASSUME DatasetInv, UNCHANGED <<facts, scope, worker, started, stored>>,
           phase' \in 0 .. 3, phase <= phase',
           provider' \in [catalog : Catalogs, value : Values], limitsSeen' \in Nat,
           lease' \in [Keys -> Workers \cup {NoOne}],
           \A k \in Keys : lease'[k] = lease[k] \/ lease'[k] = NoOne
    PROVE  DatasetInv'
<1>1. DatasetTypeOK'
    BY DEF DatasetInv, DatasetTypeOK, FactsTypeOK
<1>2. Grows
    BY DEF Grows, DatasetInv, DatasetTypeOK
<1>3. ASSUME NEW k \in Keys, lease'[k] # NoOne
      PROVE  HasSeen(worker[lease[k]], k)'
    <2>1. PICK v : v = lease'[k] /\ v = lease[k] /\ v # NoOne
        BY <1>3
    <2>2. PICK x : x = worker'[v] /\ HasSeen(x, k)
        BY <2>1 DEF DatasetInv
    <2>3. HasSeen(x, k)'
        BY <2>2 DEF HasSeen, StoredId
    <2> QED
        BY <2>1, <2>2, <2>3
<1> QED
    BY <1>1, <1>2, <1>3, StepKeeps DEF DatasetInv

LEMMA EnvironmentKeeps ==
    ASSUME DatasetInv,
           \/ \E k \in Keys : Lapse(k)
           \/ ClockAdvances \/ ProviderChanges \/ LimitsArrive
           \/ UNCHANGED datasetVars
    PROVE  DatasetInv'
<1>1. /\ phase \in 0 .. 3 /\ provider \in [catalog : Catalogs, value : Values] /\ limitsSeen \in Nat
      /\ lease \in [Keys -> Workers \cup {NoOne}]
    BY DEF DatasetInv, DatasetTypeOK
<1>2. ASSUME NEW k \in Keys, Lapse(k) PROVE DatasetInv'
    <2>1. lease' = [lease EXCEPT ![k] = NoOne]
        BY <1>2 DEF Lapse
    <2>2. lease' \in [Keys -> Workers \cup {NoOne}]
        BY <1>1, <2>1
    <2>3. \A j \in Keys : lease'[j] = lease[j] \/ lease'[j] = NoOne
        BY <1>1, <2>1
    <2>4. /\ UNCHANGED <<facts, scope, worker, started, stored>>
          /\ phase' = phase /\ provider' = provider /\ limitsSeen' = limitsSeen
        BY <1>2 DEF Lapse, thsVars, store
    <2> QED
        BY <1>1, <2>2, <2>3, <2>4, OthersKeep
<1>3. CASE ClockAdvances
    <2>1. phase' \in 0 .. 3 /\ phase <= phase'
        BY <1>1, <1>3 DEF ClockAdvances
    <2>2. /\ UNCHANGED <<facts, scope, worker, started, stored>>
          /\ lease' = lease /\ provider' = provider /\ limitsSeen' = limitsSeen
        BY <1>3 DEF ClockAdvances, thsVars, work, store
    <2> QED
        BY <1>1, <2>1, <2>2, OthersKeep
<1>4. CASE ProviderChanges
    <2>1. /\ UNCHANGED <<facts, scope, worker, started, stored>>
          /\ lease' = lease /\ phase' = phase /\ limitsSeen' = limitsSeen
          /\ provider' \in [catalog : Catalogs, value : Values]
        BY <1>4 DEF ProviderChanges, work, store
    <2> QED
        BY <1>1, <2>1, OthersKeep
<1>5. CASE LimitsArrive
    <2>1. /\ UNCHANGED <<facts, scope, worker, started, stored>>
          /\ lease' = lease /\ phase' = phase /\ provider' = provider /\ limitsSeen' \in Nat
        BY <1>1, <1>5 DEF LimitsArrive, work, store
    <2> QED
        BY <1>1, <2>1, OthersKeep
<1>6. CASE UNCHANGED datasetVars
    <2>1. /\ UNCHANGED <<facts, scope, worker, started, stored>>
          /\ lease' = lease /\ phase' = phase /\ provider' = provider /\ limitsSeen' = limitsSeen
        BY <1>6 DEF datasetVars, thsVars, work, store
    <2> QED
        BY <1>1, <2>1, OthersKeep
<1> QED
    BY <1>2, <1>3, <1>4, <1>5, <1>6

LEMMA DatasetInitInv ==
    ASSUME DatasetInit
    PROVE  DatasetInv
<1>1. scope \in Scopes /\ phase = Bound[scope].from /\ started = 0
    BY DEF DatasetInit
<1>2. phase \in 0 .. 3
    BY <1>1, DatasetAssumption
<1>3. provider \in [catalog : Catalogs, value : Values] /\ limitsSeen \in Nat
    <2>1. PICK values : ThsInit(values) /\ values \subseteq Values
        <3>1. ThsInit(IF Ranked THEN Values ELSE {CHOOSE v \in Values : TRUE})
            BY DEF DatasetInit
        <3>2. (IF Ranked THEN Values ELSE {CHOOSE v \in Values : TRUE}) \subseteq Values
            BY DatasetAssumption
        <3> QED
            BY <3>1, <3>2
    <2>2. (CHOOSE c \in Catalogs : TRUE) \in Catalogs
        BY DatasetAssumption
    <2> QED
        BY <2>1, <2>2 DEF ThsInit
<1>4. facts = [revisions |-> <<>>, rankings |-> [r \in {} |-> None],
               breadth |-> [r \in {} |-> None]]
    BY DEF DatasetInit, ThsInit
<1>5. FactsTypeOK
    <2>1. facts.rankings \in [{} -> Values] /\ facts.breadth \in [{} -> Nat] /\ {} \in SUBSET Catalogs
        BY <1>4
    <2>2. facts.rankings \in Partial(Catalogs, Values)
        BY <2>1, PartialOf
    <2>3. facts.revisions \in Seq(Catalogs)
        BY <1>4
    <2>4. facts = [revisions |-> facts.revisions, rankings |-> facts.rankings,
                   breadth |-> facts.breadth]
        BY <1>4
    <2> QED
        BY <2>1, <2>2, <2>3, <2>4 DEF FactsTypeOK
<1>6. \A n \in DOMAIN facts.revisions : facts.revisions[n] \in DOMAIN facts.rankings
    BY <1>4
<1>7. /\ lease = [k \in Keys |-> NoOne] /\ worker = [w \in Workers |-> None]
      /\ stored = [k \in Keys |-> None]
    BY DEF DatasetInit
<1>8. DatasetTypeOK
    BY <1>1, <1>2, <1>3, <1>5, <1>7 DEF DatasetTypeOK
<1> QED
    BY <1>6, <1>7, <1>8 DEF DatasetInv

LEMMA DatasetStep ==
    ASSUME DatasetInv, [DatasetNext]_datasetVars
    PROVE  DatasetInv'
<1>1. ASSUME NEW w \in Workers, Executes(w) PROVE DatasetInv'
    <2>1. CASE PrepareLimits(w) \/ TakePrevious(w) \/ EndPrevious(w)
        BY <2>1, LimitsPrepare, PreviousIsTaken, PreviousEnds
    <2>2. CASE Commit(w) \/ GiveUp(w)
        BY <2>2, CommitsKeep, GivingUpKeeps
    <2>3. CASE SourceAnswers(w) \/ SourceFails(w) \/ SourceStops(w)
        BY <2>3, SourcesAnswer, SourcesFail
    <2>4. CASE ReadRetained(w) \/ IndexAnswers(w) \/ IndexFails(w)
        BY <2>4, RetainedIsRead, IndicesAnswer, IndicesFail
    <2>5. CASE \/ ReadBundle(w) \/ ReadRankings(w) \/ ReadRankingSnapshot(w) \/ ReadBars(w)
               \/ ReadTurnover(w) \/ ReadLimits(w)
        BY <2>5, ThsReads
    <2> QED
        BY <1>1, <2>1, <2>2, <2>3, <2>4, <2>5 DEF Executes
<1> QED
    BY <1>1, CollectionsBegin, EnvironmentKeeps DEF DatasetNext

(* No snapshot changes but in a commit. *)
LEMMA OnlyCommitsWrite ==
    ASSUME [DatasetNext]_datasetVars
    PROVE  stored' = stored \/ \E w \in Workers : Commit(w)
<1>1. ASSUME NEW w \in Workers, Executes(w) PROVE stored' = stored \/ Commit(w)
    <2>1. ASSUME NEW c, Goes(w, c) PROVE stored' = stored
        BY <2>1 DEF Goes, store
    <2>2. ASSUME NEW ok, NEW x, Read(w, ok, x) PROVE stored' = stored
        BY <2>1, <2>2 DEF Read
    <2>3. CASE \/ PrepareLimits(w) \/ TakePrevious(w) \/ EndPrevious(w) \/ GiveUp(w)
        BY <2>3 DEF PrepareLimits, TakePrevious, EndPrevious, GiveUp, store
    <2>4. CASE \/ SourceAnswers(w) \/ SourceFails(w) \/ SourceStops(w)
               \/ ReadRetained(w) \/ IndexAnswers(w) \/ IndexFails(w)
        BY <2>1, <2>4, Zenon
           DEF SourceAnswers, SourceFails, SourceStops, ReadRetained, IndexAnswers, IndexFails
    <2>5. CASE \/ ReadBundle(w) \/ ReadRankings(w) \/ ReadRankingSnapshot(w) \/ ReadBars(w)
               \/ ReadTurnover(w) \/ ReadLimits(w)
        BY <2>2, <2>5, Zenon
           DEF ReadBundle, ReadRankings, ReadRankingSnapshot, ReadBars, ReadTurnover, ReadLimits
    <2> QED
        BY <1>1, <2>3, <2>4, <2>5 DEF Executes
<1>2. ASSUME NEW w \in Workers, NEW k \in scope, BeginCollection(w, k) PROVE stored' = stored
    BY <1>2 DEF BeginCollection, store
<1>3. ASSUME NEW k \in Keys, Lapse(k) PROVE stored' = stored
    BY <1>3 DEF Lapse, store
<1>4. CASE ClockAdvances \/ ProviderChanges \/ LimitsArrive \/ UNCHANGED datasetVars
    BY <1>4 DEF ClockAdvances, ProviderChanges, LimitsArrive, datasetVars, store
<1> QED
    BY <1>1, <1>2, <1>3, <1>4 DEF DatasetNext

-----------------------------------------------------------------------------
(* The invariant of the collections of the datasets: every reading is of   *)
(* the day it is kept for, whoever holds a lease has seen what is stored   *)
(* under it, and what is stored of THS is what the facts say.              *)
THEOREM DatasetInvariant == DatasetSpec => []DatasetInv
<1>1. DatasetInit => DatasetInv
    BY DatasetInitInv
<1>2. DatasetInv /\ [DatasetNext]_datasetVars => DatasetInv'
    BY DatasetStep
<1> QED
    BY <1>1, <1>2, PTL DEF DatasetSpec

(* A snapshot that calls itself settled is made of final data of its day,  *)
(* whichever sources answered and however late (the acquisition plans).    *)
THEOREM SettledSnapshotsAreFinal == DatasetSpec => []SettledIsFinal
<1>1. ASSUME DatasetInv PROVE SettledIsFinal
    <2>1. ASSUME NEW k \in Keys, stored[k] # None, k[1] \notin Ths
          PROVE  IF k[1] = "core"
                 THEN /\ \A i \in DOMAIN stored[k].data.indices : stored[k].data.indices[i].day = k[2]
                      /\ stored[k].data.settled =>
                            \A i \in stored[k].data.fresh : stored[k].data.indices[i].final
                 ELSE /\ stored[k].data.day = k[2]
                      /\ stored[k].data.settled /\ stored[k].data.source # "union" =>
                            stored[k].data.final
        <3>1. StoredOK(k, stored[k].data)
            BY <1>1, <2>1 DEF DatasetInv
        <3>2. CASE k[1] = "core"
            BY <3>1, <3>2 DEF StoredOK, ReadingOK
        <3>3. CASE k[1] # "core"
            <4>1. k[1] \in Snapshot
                BY <2>1, <3>3, KeysAreKeys DEF Datasets
            <4> QED
                BY <3>1, <3>3, <4>1 DEF StoredOK, CandidateOK
        <3> QED
            BY <3>2, <3>3
    <2> QED
        BY <2>1 DEF SettledIsFinal
<1> QED
    BY <1>1, DatasetInvariant, PTL

(* What is stored of the THS datasets is what the normalized tables say of *)
(* the revision (their commits, and what they read before).                *)
THEOREM ThsSnapshotsMatchTheirFacts == DatasetSpec => []SnapshotsMatchFacts
<1>1. ASSUME DatasetInv, Ranked, NEW dataset \in Ths, SnapshotOf(dataset) # None
      PROVE  StoredOK(<<dataset, D>>, SnapshotOf(dataset).data)
    <2>1. \E k \in UNION Scopes : k[1] \in Ths
        BY <1>1, Zenon DEF Ranked, DatasetInv, DatasetTypeOK
    <2>2. Ths \X {D} \subseteq UNION Scopes
        BY <2>1, DatasetAssumption
    <2>3. <<dataset, D>> \in UNION Scopes
        BY <2>2
    <2>4. <<dataset, D>> \in Keys
        BY <2>3 DEF Keys
    <2> QED
        BY <1>1, <2>4 DEF SnapshotOf, DatasetInv
<1>2. ASSUME DatasetInv PROVE SnapshotsMatchFacts
    <2>1. SUFFICES ASSUME Ranked
                   PROVE  /\ \A s \in {SnapshotOf("industry-ranking"), SnapshotOf("sector-turnover"),
                                       SnapshotOf("sector-breadth")} \ {None} :
                                /\ s.data.revision \in DOMAIN facts.rankings
                                /\ facts.rankings[s.data.revision] = s.data.value
                          /\ SnapshotOf("sector-breadth") # None
                             /\ SnapshotOf("sector-breadth").data.value \notin Thin =>
                                facts.breadth[SnapshotOf("sector-breadth").data.revision] =
                                    SnapshotOf("sector-breadth").data.limits
        BY DEF SnapshotsMatchFacts
    <2>2. ASSUME NEW dataset \in Ths, SnapshotOf(dataset) # None
          PROVE  /\ SnapshotOf(dataset).data.revision \in DOMAIN facts.rankings
                 /\ facts.rankings[SnapshotOf(dataset).data.revision] = SnapshotOf(dataset).data.value
        <3>1. StoredOK(<<dataset, D>>, SnapshotOf(dataset).data)
            BY <1>1, <1>2, <2>1, <2>2
        <3> QED
            BY <3>1 DEF StoredOK, EvidenceOK
    <2>3. ASSUME SnapshotOf("sector-breadth") # None,
                 SnapshotOf("sector-breadth").data.value \notin Thin
          PROVE  facts.breadth[SnapshotOf("sector-breadth").data.revision] =
                     SnapshotOf("sector-breadth").data.limits
        <3>1. StoredOK(<<"sector-breadth", D>>, SnapshotOf("sector-breadth").data)
            BY <1>1, <1>2, <2>1, <2>3 DEF Ths
        <3> QED
            BY <2>3, <3>1 DEF StoredOK
    <2> QED
        BY <2>2, <2>3 DEF Ths
<1> QED
    BY <1>2, DatasetInvariant, PTL

(* No collection overwrites a snapshot that was written after it took the  *)
(* lease of its key (the fence of the commit).                             *)
THEOREM WritesAreSeen == DatasetSpec => NothingIsOverwrittenUnseen
<1>1. ASSUME DatasetInv, [DatasetNext]_datasetVars, NEW k \in Keys, stored'[k] # stored[k]
      PROVE  stored'[k].base = StoredId(k)
    <2>1. PICK w \in Workers : Commit(w)
        BY <1>1, OnlyCommitsWrite
    <2>2. lease[k] = w /\ \E x : stored'[k] = SnapshotFrom(w, k, x)
        BY <1>1, <2>1, WhatIsWritten
    <2>3. stored'[k].base = worker[w].base[k]
        BY <2>2 DEF SnapshotFrom
    <2>4. HasSeen(worker[w], k)
        BY <1>1, <2>2, NoneIsNothing DEF DatasetInv
    <2> QED
        BY <2>3, <2>4 DEF HasSeen
<1>2. DatasetInv /\ [DatasetNext]_datasetVars =>
        [\A k \in Keys : stored'[k] # stored[k] => stored'[k].base = StoredId(k)]_datasetVars
    BY <1>1
<1> QED
    BY <1>2, DatasetInvariant, PTL DEF DatasetSpec, NothingIsOverwrittenUnseen

(* A core snapshot never loses an index, and one that was stored final is  *)
(* never replaced by one that is not (core acquisition and its commit).    *)
THEOREM CoreKeepsWhatIsFinal == DatasetSpec => CoreKeepsItsIndices
<1>1. ASSUME DatasetInv, [DatasetNext]_datasetVars,
             NEW k \in Keys, k[1] = "core", stored[k] # None,
             NEW i \in DOMAIN stored[k].data.indices
      PROVE  /\ i \in DOMAIN stored'[k].data.indices
             /\ stored[k].data.indices[i].final => stored'[k].data.indices[i].final
    <2>1. CASE stored'[k] = stored[k]
        BY <1>1, <2>1
    <2>2. CASE stored'[k] # stored[k]
        <3>1. PICK w \in Workers : Commit(w)
            BY <2>2, <1>1, OnlyCommitsWrite
        <3>2. /\ k = worker[w].key /\ lease[k] = w
              /\ stored'[k] = SnapshotFrom(w, k, Now(w).draft)
            BY <1>1, <2>2, <3>1, KeysAreKeys, WhatIsWritten
        <3>3. PICK c : c = Now(w) /\ c \in Plans /\ PlanOK(c) /\ c.dataset = "core" /\ c.day = k[2]
            BY <1>1, <3>1, <3>2, WhatIsReady DEF Commit
        <3>4. PICK d : d = c.draft /\ d # None /\ CoreDraftOK(c, d)
            BY <3>1, <3>3 DEF Commit, Produced, PlanOK, DraftOK
        <3>5. d.stored = stored[k].data.indices
            <4>1. worker[w] # None
                BY <3>1 DEF Commit, IsAt
            <4> QED
                BY <1>1, <3>2, <3>3, <3>4, <4>1, DraftHasSeen DEF IndicesOf
        <3>6. PICK x : x = [settled |-> c.settled,
                            indices |-> [j \in DOMAIN d.indices |-> d.indices[j].reading],
                            fresh |-> FreshIndices(d)]
            OBVIOUS
        <3>7. stored'[k].data = x
            BY <1>1, <3>2, <3>3, <3>4, <3>6 DEF SnapshotFrom
        <3>8. /\ DOMAIN x.indices = DOMAIN d.indices
              /\ \A j \in DOMAIN x.indices : x.indices[j] = d.indices[j].reading
            BY <3>3, <3>4, <3>6, CoreIsWritten
        <3>9. i \in DOMAIN d.indices
            <4>1. c.step > Len(IndexOrder) + 1 /\ c.step \in Nat /\ Len(IndexOrder) \in Nat
                BY <3>1, <3>3, StepsOfCore DEF Commit, Ended, PlanOK, Plans
            <4>2. i \in Indices
                <5>1. stored[k].data.indices \in Partial(Indices, Reading)
                    BY <1>1 DEF DatasetInv, StoredOK, CoreData
                <5> QED
                    BY <1>1, <5>1, PartialIs
            <4>3. PICK n \in 1 .. Len(IndexOrder) : i = IndexOrder[n]
                BY <3>3, <4>2, StepsOfCore
            <4>4. n + 1 < c.step
                BY <4>1
            <4> QED
                BY <1>1, <3>4, <3>5, <4>3, <4>4 DEF CoreDraftOK
        <3>10. ASSUME stored[k].data.indices[i].final PROVE d.indices[i].reading.final
            <4>1. CASE d.indices[i].retained
                <5>1. RetainedHolds(w)
                    BY <3>1 DEF Commit, CanCommit
                <5>2. i \in DOMAIN d.indices \ FreshIndices(d)
                    BY <3>9, <4>1 DEF FreshIndices
                <5>3. stored[k].data.indices[i] = d.indices[i].reading
                    BY <3>2, <3>3, <3>4, <5>1, <5>2 DEF RetainedHolds
                <5> QED
                    BY <3>10, <5>3
            <4>2. CASE ~ d.indices[i].retained
                BY <1>1, <3>4, <3>5, <3>9, <3>10, <4>2 DEF CoreDraftOK
            <4> QED
                BY <4>1, <4>2
        <3> QED
            BY <3>7, <3>8, <3>9, <3>10
    <2> QED
        BY <2>1, <2>2
<1>2. DatasetInv /\ [DatasetNext]_datasetVars =>
        [\A k \in Keys : k[1] = "core" /\ stored[k] # None =>
            \A i \in DOMAIN stored[k].data.indices :
                /\ i \in DOMAIN stored'[k].data.indices
                /\ stored[k].data.indices[i].final => stored'[k].data.indices[i].final]_datasetVars
    BY <1>1
<1> QED
    BY <1>2, DatasetInvariant, PTL DEF DatasetSpec, CoreKeepsItsIndices
=============================================================================
