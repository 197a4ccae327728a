------------------------------ MODULE ThsStore ------------------------------
(***************************************************************************)
(* The tables the THS sector operations write, and the repository calls on *)
(* them: ths_operations, ths_backfill_checkpoints, ths_sector_identities,  *)
(* and the immutable fact tables (bars, rankings, memberships, members).   *)
(*                                                                         *)
(* Rows of facts are put one by one: a SELECT says whether the row is      *)
(* identical, in conflict or absent, and an absent one is inserted.  Two   *)
(* transactions may both find it absent; the unique key then fails the     *)
(* later one.  So a transaction on facts has two steps, Select and its     *)
(* commit, and what it is about to insert is in the thread's rows.         *)
(***************************************************************************)
EXTENDS Integers, Sequences, FiniteSets

CONSTANTS
    Operation,      \* run ids
    Kind,           \* Kind[o]: "backfill", "catalog" or "import"
    Plan,           \* Plan[o]: what o does, one set of fact keys per item
    Budget,         \* Budget[o]: request_budget
    Key,            \* primary keys of facts
    CodeOf,         \* CodeOf[k]: the sector a fact is about
    Listed,         \* sectors with an identity row to begin with
    Value,          \* contents of a fact
    Absent,         \* no such fact
    Earlier         \* the facts stored by earlier operations

ASSUME StoreAssumption ==
    /\ Kind \in [Operation -> {"backfill", "catalog", "import"}]
    /\ Plan \in [Operation -> Seq(SUBSET Key)]
    /\ \A o \in Operation :
          Plan[o] # <<>> /\ (Kind[o] = "import" => Len(Plan[o]) = 1)
    /\ Budget \in [Operation -> Nat \ {0}]
    /\ Absent \notin Value /\ Earlier \in [Key -> Value \union {Absent}]

VARIABLES
    operation,      \* operation[o]: status and requests_used of its row
    checkpoint,     \* checkpoint[o][i]: status of the row of window i of o
    fact,           \* fact[k]: its content
    listed,         \* sectors in ths_sector_identities
    wrote           \* history: wrote[o], the facts o has inserted

storeVars == <<operation, checkpoint, fact, listed, wrote>>

Backfills == {o \in Operation : Kind[o] = "backfill"}
Items(o) == DOMAIN Plan[o]

Terminal == {"success", "partial", "failed", "conflict"}
Active == {"queued", "running"}
Status == Terminal \union Active \union {"none"}
Marks == {"none", "running", "success", "failed", "conflict"}

StoreTypeOK ==
    /\ operation \in [Operation -> [status : Status, used : Nat]]
    /\ \A o \in Operation : operation[o].used <= Budget[o]
    /\ DOMAIN checkpoint = Operation
    /\ \A o \in Operation : checkpoint[o] \in [Items(o) -> Marks]
    /\ fact \in [Key -> Value \union {Absent}]
    /\ listed \subseteq {CodeOf[k] : k \in Key} \union Listed
    /\ wrote \in [Operation -> SUBSET Key]

StoreInit ==
    /\ operation = [o \in Operation |-> [status |-> "none", used |-> 0]]
    /\ checkpoint = [o \in Operation |-> [i \in Items(o) |-> "none"]]
    /\ fact = Earlier
    /\ listed = Listed
    /\ wrote = [o \in Operation |-> {}]

-----------------------------------------------------------------------------
(* ThsBackfillRun and ThsOperation refuse to exist with requests_used      *)
(* beyond request_budget: the call that would write one raises ValueError. *)
Representable(o, used) == used <= Budget[o]

(* put_operation; put_backfill_run writes the same row through it *)
PutOperation(o, status, used) ==
    /\ Representable(o, used)
    /\ operation' = [operation EXCEPT ![o] = [status |-> status, used |-> used]]

Codes(o, i) == {CodeOf[k] : k \in Plan[o][i]}

(* The foreign key of ths_backfill_checkpoints to the sector's identity *)
Identified(o, i) == Codes(o, i) \subseteq listed

(* put_backfill_checkpoint *)
PutCheckpoint(o, i, status) ==
    /\ Identified(o, i)
    /\ checkpoint' = [checkpoint EXCEPT ![o][i] = status]

(* put_sector_bar, put_rankings, put_sector_memberships, put_member_fact:  *)
(* what the SELECTs of a transaction find.                                 *)
Conflict(rows) == \E k \in DOMAIN rows : fact[k] \notin {Absent, rows[k]}
Missing(rows) == {k \in DOMAIN rows : fact[k] = Absent}

(* The INSERTs: one of the rows may have been committed since. *)
Duplicate(rows) == \E k \in DOMAIN rows : fact[k] # Absent

InsertFacts(o, rows) ==
    /\ ~ Duplicate(rows)
    /\ fact' = [k \in Key |-> IF k \in DOMAIN rows THEN rows[k] ELSE fact[k]]
    /\ wrote' = [wrote EXCEPT ![o] = @ \union DOMAIN rows]
=============================================================================
