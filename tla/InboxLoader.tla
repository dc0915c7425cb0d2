------------------------------ MODULE InboxLoader ------------------------------
(***************************************************************************)
(* The warehouse inbox (entities/inbox_loader.py).  Exporters rename batch *)
(* files into one directory per table; every nightly run lists the         *)
(* directories in name order, each at the moment it is reached, and for    *)
(* each file in name order: validates it, creates the table if there is    *)
(* none, upserts its rows in one transaction and moves the file away.  A   *)
(* file that fails stays and the drain goes on; a run with an error ends   *)
(* before the workspace carry-forward.  Two directories may feed one       *)
(* table: campaigns and raw_pipeline_campaigns.                            *)
(* A batch is the number of its export, which is its file's rank in the    *)
(* directory too; a row is the batch that last wrote it.                   *)
(***************************************************************************)
EXTENDS Integers, Sequences, FiniteSets, SequencesExt, FiniteSetsExt

CONSTANTS
  Batches,    \* how many batches there are
  Table, Key,
  Dirs,       \* the directories in name order
  TableOf,    \* directory -> table (_normalize_dest)
  DirOf, KeysOf,
  Upserted,   \* tables in upsert mode; the others are insert mode
  Dim, Fact,  \* the two tables of the carry-forward
  Broken,     \* batches that never validate
  Wide,       \* batches with a column of their own
  MaxFaults   \* bound of kills, I/O errors and SQL errors

Batch == 1 .. Batches

ASSUME BatchesAssumption == Batches \in Nat /\ Broken \subseteq Batch /\ Wide \subseteq Batch
ASSUME DirsAssumption ==
  Dirs \in Seq(DOMAIN TableOf) /\ Dirs # << >> /\ TableOf \in [Range(Dirs) -> Table]
ASSUME DirOfAssumption == DirOf \in [Batch -> Range(Dirs)] /\ KeysOf \in [Batch -> SUBSET Key]
ASSUME FaultsAssumption == MaxFaults \in Nat
ASSUME TableAssumption == Upserted \subseteq Table /\ Dim \in Table /\ Fact \in Table

VARIABLES
  exported, \* how many batches were exported
  inbox,    \* the batches whose file is in the inbox
  shape,    \* shape[t]: the columns of table t
  rows,     \* rows[t][k]: the batch the row shows, 0 for no row
  filled,   \* the fact rows that have a workspace
  pc,       \* the loader: where it is
  dir,      \* the directory it is in
  files,    \* what is left of its listing
  failed,   \* report.errors is not empty
  late,     \* (history) the batches some run failed on and left behind
  faults

warehouse == <<shape, rows, filled>>
loader == <<pc, dir, files, failed>>
vars == <<exported, inbox, warehouse, loader, late, faults>>

TypeOK ==
  /\ exported \in 0 .. Batches /\ inbox \subseteq 1 .. exported
  /\ shape \in [Table -> {"none", "narrow", "wide"}]
  /\ rows \in [Table -> [Key -> {0} \cup Batch]] /\ filled \subseteq Key
  /\ pc \in {"idle", "scan", "load", "insert", "archive", "post"}
  /\ dir \in DOMAIN Dirs /\ files \subseteq Batch /\ failed \in BOOLEAN
  /\ late \subseteq Batch /\ faults \in 0 .. MaxFaults

Init ==
  /\ exported = 0 /\ inbox = {}
  /\ shape = [t \in Table |-> "none"] /\ rows = [t \in Table |-> [k \in Key |-> 0]]
  /\ filled = {}
  /\ pc = "idle" /\ dir = 1 /\ files = {} /\ failed = FALSE
  /\ late = {} /\ faults = 0

Fault == faults < MaxFaults /\ faults' = faults + 1

-----------------------------------------------------------------------------
(* Around the loader.                                                      *)

Export ==
  /\ exported < Batches
  /\ exported' = exported + 1
  /\ inbox' = inbox \cup {exported'}
  /\ UNCHANGED <<warehouse, loader, late, faults>>

\* Someone takes a batch that can never load out of the inbox, between runs.
Withdraw(b) ==
  /\ pc = "idle" /\ b \in inbox \cap Broken
  /\ inbox' = inbox \ {b}
  /\ UNCHANGED <<exported, warehouse, loader, late, faults>>

\* A DDL adds the column the wide batches have, between runs.
Migrate(t) ==
  /\ pc = "idle" /\ shape[t] = "narrow"
  /\ shape' = [shape EXCEPT ![t] = "wide"]
  /\ UNCHANGED <<exported, inbox, rows, filled, loader, late, faults>>

-----------------------------------------------------------------------------
(* The loader.                                                             *)

StartRun ==
  /\ pc = "idle"
  /\ pc' = "scan" /\ dir' = 1 /\ failed' = FALSE
  /\ UNCHANGED <<exported, inbox, warehouse, files, late, faults>>

ListDir ==
  /\ pc = "scan"
  /\ pc' = "load"
  /\ files' = {b \in inbox : DirOf[b] = Dirs[dir]}
  /\ UNCHANGED <<exported, inbox, warehouse, dir, failed, late, faults>>

Current == Min(files)
Dest == TableOf[Dirs[dir]]

\* Mutant: the first bad file ends the drain.
Reject_Aborts ==
  /\ pc' = "post"
  /\ failed' = TRUE /\ late' = late \cup {Current} /\ files' = {}
  /\ UNCHANGED <<exported, inbox, rows, filled, dir>>

\* A per-file error: the file stays, the drain goes on.
Reject ==
  /\ pc' = "load"
  /\ failed' = TRUE /\ late' = late \cup {Current} /\ files' = files \ {Current}
  /\ UNCHANGED <<exported, inbox, rows, filled, dir>>

Mismatch == Current \in Broken \/ (Current \in Wide /\ shape[Dest] = "narrow")

\* The validation, and the CREATE TABLE that is committed before the rows.
Validate ==
  /\ pc = "load" /\ files # {} /\ ~Mismatch
  /\ shape' = [shape EXCEPT ![Dest] =
       IF @ # "none" THEN @ ELSE IF Current \in Wide THEN "wide" ELSE "narrow"]
  /\ pc' = "insert"
  /\ UNCHANGED <<exported, inbox, rows, filled, dir, files, failed, late, faults>>

RejectMismatch ==
  /\ pc = "load" /\ files # {} /\ Mismatch
  /\ Reject /\ UNCHANGED <<shape, faults>>

\* ON CONFLICT DO UPDATE, whatever _exported_at says, or DO NOTHING.
Overwrites(t, k) == t \in Upserted \/ rows[t][k] = 0

\* A fact row that is written has the workspace of its batch: none.
Insert ==
  /\ pc = "insert"
  /\ LET written == {k \in KeysOf[Current] : Overwrites(Dest, k)}
     IN /\ rows' = [rows EXCEPT ![Dest] =
              [k \in Key |-> IF k \in written THEN Current ELSE @[k]]]
        /\ filled' = IF Dest = Fact THEN filled \ written ELSE filled
  /\ pc' = "archive"
  /\ UNCHANGED <<exported, inbox, shape, dir, files, failed, late, faults>>

Archive ==
  /\ pc = "archive"
  /\ inbox' = inbox \ {Current}
  /\ files' = files \ {Current} /\ pc' = "load"
  /\ UNCHANGED <<exported, warehouse, dir, failed, late, faults>>

\* Mutant: the file is archived though its rows were rolled back.
FileFails_Archives ==
  /\ pc = "insert" /\ Fault
  /\ pc' = "archive"
  /\ UNCHANGED <<exported, inbox, warehouse, dir, files, failed, late>>

\* An unreadable file, a rolled-back transaction, a move that fails after it.
FileFails ==
  /\ pc \in {"load", "insert", "archive"} /\ files # {} /\ Fault
  /\ Reject /\ UNCHANGED shape

DirDone ==
  /\ pc = "load" /\ files = {}
  /\ IF dir < Len(Dirs) THEN pc' = "scan" /\ dir' = dir + 1 ELSE pc' = "post" /\ dir' = dir
  /\ UNCHANGED <<exported, inbox, warehouse, files, failed, late, faults>>

\* run_inbox_loader raises on any error, else carries the workspaces forward.
EndRun ==
  /\ pc = "post"
  /\ pc' = "idle"
  /\ filled' = IF failed THEN filled
               ELSE filled \cup {k \in Key : rows[Fact][k] # 0 /\ rows[Dim][k] # 0}
  /\ UNCHANGED <<exported, inbox, shape, rows, dir, files, failed, late, faults>>

\* The nightly dies: an open transaction is rolled back, a committed one stays.
Kill ==
  /\ pc # "idle" /\ Fault
  /\ pc' = "idle" /\ files' = {}
  /\ UNCHANGED <<exported, inbox, warehouse, dir, failed, late>>

-----------------------------------------------------------------------------
Drain ==
  \/ StartRun \/ ListDir \/ Validate \/ RejectMismatch
  \/ Insert \/ Archive \/ DirDone \/ EndRun

Next ==
  \/ Export \/ Drain \/ FileFails \/ Kill
  \/ \E b \in Batch : Withdraw(b)
  \/ \E t \in Table : Migrate(t)

Spec == Init /\ [][Next]_vars

\* The phase runs every night and a running drain goes on.
FairSpec == Spec /\ WF_vars(Drain)

-----------------------------------------------------------------------------
(* Properties.                                                             *)

TableOfBatch(b) == TableOf[DirOf[b]]

\* A file leaves the inbox only when every one of its rows is in the table,
\* whichever step of whichever attempt failed or was killed.
LeavesOnlyLanded ==
  \A b \in (1 .. exported) \ (inbox \cup Broken) :
    \A k \in KeysOf[b] : rows[TableOfBatch(b)][k] # 0

\* An upserted row shows the newest export that has left the inbox; the older
\* one it may show instead had been left behind by a failed attempt, or came
\* by the table's other directory: the upsert does not compare _exported_at.
OnlyStragglersRegress ==
  \A b \in (1 .. exported) \ (inbox \cup Broken) :
    TableOfBatch(b) \in Upserted =>
      \A k \in KeysOf[b] :
        LET shown == rows[TableOfBatch(b)][k]
        IN shown \in 1 .. b - 1 => shown \in late \/ DirOf[shown] # DirOf[b]

\* "healthy tables still land": when the exports end, the sound batches are in,
\* however many bad ones sit before them for ever.
HealthyLands == <>[](inbox \subseteq Broken \cup Wide)
=============================================================================
