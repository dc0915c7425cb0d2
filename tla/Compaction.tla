------------------------------ MODULE Compaction ------------------------------
(***************************************************************************)
(* scripts/compact_warehouse.sh: the warehouse file is exported, imported  *)
(* into a fresh file by scripts/compact_import.py, compared, and swapped   *)
(* in by two renames under the writer flock.                               *)
(*                                                                         *)
(* A file holds the transactions checkpointed into it, a WAL those of its  *)
(* own file that are not yet.  DuckDB creates a database that is missing   *)
(* (and removes a WAL it finds there), and replays a WAL it finds beside a *)
(* file into that file.                                                    *)
(***************************************************************************)
EXTENDS Naturals, Sequences, FiniteSets

CONSTANTS MaxTransactions, MaxFailures, MaxDeaths

VARIABLES
  live,      \* REAL_DB
  wal,       \* REAL_DB.wal
  new,       \* warehouse_compact_new.duckdb
  export,    \* rows in compact_export_tmp
  backups,   \* warehouse.precompact-*.duckdb with their WALs, newest first
  pre, post, \* /tmp/compact_pre.csv, compact_post.csv
  pc, flock,
  committed, \* transactions committed so far (history)
  recreated, \* a writer found no primary and created one (history)
  left,      \* rows of a log that a restore did not bring back (history)
  failures, deaths

staging == <<new, export>>
counts  == <<pre, post>>
history == <<committed, recreated, left>>
vars == <<live, wal, staging, backups, counts, pc, flock, history, failures, deaths>>

Transactions == 1..MaxTransactions
NoRows  == {}
Missing == [id |-> 0, rows |-> NoRows]     \* no such file, no such WAL
Empty   == MaxTransactions + 1             \* a capture that wrote nothing

Files == [id : Nat, rows : SUBSET Transactions]

TypeOK ==
  /\ live \in Files /\ wal \in Files /\ new \in Files
  /\ export \subseteq Transactions
  /\ backups \in Seq([main : Files, wal : Files])
  /\ pre \in 0..Empty /\ post \in 0..Empty
  /\ pc \in {"off", "clean", "checkpoint", "count", "export", "import", "recount",
             "verify", "moveOut", "moveWal", "moveIn", "probe", "prune", "restore", "restoreWal"}
  /\ flock \in {"free", "compaction"}
  /\ committed \subseteq Transactions /\ left \subseteq Transactions
  /\ recreated \in BOOLEAN
  /\ failures \in 0..MaxFailures /\ deaths \in 0..MaxDeaths

Init ==
  /\ live = [id |-> 1, rows |-> NoRows]
  /\ wal = Missing /\ new = Missing /\ export = NoRows
  /\ backups = <<>> /\ pre = Empty /\ post = Empty
  /\ pc = "off" /\ flock = "free"
  /\ committed = {} /\ recreated = FALSE /\ left = NoRows
  /\ failures = 0 /\ deaths = 0

(* What a connection to a file sees.                                       *)
Readable(file, log) == file.rows \cup log.rows

(* A new file is none of those on disk.                                    *)
Kept  == {backups[n] : n \in DOMAIN backups}
Fresh == CHOOSE id \in 1..(4 + 2 * Len(backups)) :
           id \notin {live.id, wal.id, new.id}
                      \cup {b.main.id : b \in Kept} \cup {b.wal.id : b \in Kept}

-------------------------------------------------------------------------------
(* A writer of the queue opens the primary, commits and closes, which      *)
(* folds the WAL in, or dies and leaves it.                                *)

Commit ==
  /\ flock = "free"
  /\ \E t \in Transactions \ committed, folds \in BOOLEAN :
       LET found == IF live = Missing THEN [id |-> Fresh, rows |-> NoRows] ELSE live
           log   == (IF live = Missing THEN NoRows ELSE wal.rows) \cup {t}
       IN  /\ committed' = committed \cup {t}
           /\ live' = IF folds THEN [found EXCEPT !.rows = @ \cup log] ELSE found
           /\ wal'  = IF folds THEN Missing ELSE [id |-> found.id, rows |-> log]
  /\ recreated' = (recreated \/ live = Missing)
  /\ UNCHANGED <<staging, backups, counts, pc, flock, left, failures, deaths>>

-------------------------------------------------------------------------------
(* scripts/compact_warehouse.sh                                            *)

Step(from, to) == pc = from /\ pc' = to /\ UNCHANGED <<failures, deaths, history>>

Fault(from) ==
  /\ pc = from
  /\ failures < MaxFailures /\ failures' = failures + 1
  /\ UNCHANGED <<deaths, history>>

Leave == pc' = "off" /\ flock' = "free"

(* Below the threshold, and a missing primary has size 0, nothing is done. *)
TakeFlock ==
  /\ live # Missing /\ flock = "free"
  /\ Step("off", "clean")
  /\ flock' = "compaction"
  /\ UNCHANGED <<live, wal, staging, backups, counts>>

Clean ==
  /\ Step("clean", "checkpoint")
  /\ new' = Missing /\ export' = NoRows
  /\ UNCHANGED <<live, wal, backups, counts, flock>>

Checkpoint ==
  /\ Step("checkpoint", "count")
  /\ live' = [live EXCEPT !.rows = Readable(live, wal)] /\ wal' = Missing
  /\ UNCHANGED <<staging, backups, counts, flock>>

CheckpointFails ==   \* a warning: the WAL is carried through the swap
  /\ Fault("checkpoint")
  /\ pc' = "count"
  /\ UNCHANGED <<live, wal, staging, backups, counts, flock>>

CountOf(rows) == Cardinality(rows)

Count ==
  /\ Step("count", "export")
  /\ pre' = CountOf(Readable(live, wal))
  /\ UNCHANGED <<live, wal, staging, backups, post, flock>>

(* The manifest query or the capture comes back empty.                     *)
CountFails ==
  /\ Fault("count")
  /\ pre' = Empty /\ Leave
  /\ UNCHANGED <<live, wal, staging, backups, post>>

Export ==
  /\ Step("export", "import")
  /\ export' = Readable(live, wal)
  /\ UNCHANGED <<live, wal, new, backups, counts, flock>>

(* compact_import.py: tables, data, indexes into a fresh file.             *)
Import ==
  /\ Step("import", "recount")
  /\ new' = [id |-> Fresh, rows |-> export]
  /\ UNCHANGED <<live, wal, export, backups, counts, flock>>

(* Rows that the load drops without an error.                              *)
ImportDrops ==
  /\ Fault("import")
  /\ \E rows \in SUBSET export \ {export} : new' = [id |-> Fresh, rows |-> rows]
  /\ pc' = "recount"
  /\ UNCHANGED <<live, wal, export, backups, counts, flock>>

GiveUp == Leave /\ new' = Missing /\ export' = NoRows

ExportOrImportFails ==
  /\ \/ Fault("export") \/ Fault("import")
  /\ GiveUp
  /\ UNCHANGED <<live, wal, backups, counts>>

Recount ==
  /\ Step("recount", "verify")
  /\ post' = CountOf(new.rows)
  /\ UNCHANGED <<live, wal, staging, backups, pre, flock>>

RecountFails ==
  /\ Fault("recount")
  /\ post' = Empty /\ GiveUp
  /\ UNCHANGED <<live, wal, backups, pre>>

(* Mutant: only the number of tables is compared.                          *)
Verified_Presence == (pre = 0) = (post = 0)

Verified == pre = post

Verify ==
  /\ pc = "verify" /\ UNCHANGED <<failures, deaths, history>>
  /\ IF Verified THEN pc' = "moveOut" /\ UNCHANGED <<staging, flock>> ELSE GiveUp
  /\ UNCHANGED <<live, wal, backups, counts>>

MoveOut ==
  /\ Step("moveOut", "moveWal")
  /\ backups' = <<[main |-> live, wal |-> Missing]>> \o backups
  /\ live' = Missing
  /\ UNCHANGED <<wal, staging, counts, flock>>

MoveOutFails ==
  /\ Fault("moveOut")
  /\ GiveUp
  /\ UNCHANGED <<live, wal, backups, counts>>

(* `[ -f wal ] && mv': its status is not looked at.  A rename beside the   *)
(* one that has just worked is taken to work.                              *)
MoveWal ==
  /\ Step("moveWal", "moveIn")
  /\ backups' = [backups EXCEPT ![1].wal = wal] /\ wal' = Missing
  /\ UNCHANGED <<live, staging, counts, flock>>

MoveIn ==
  /\ Step("moveIn", "probe")
  /\ live' = new /\ new' = Missing
  /\ UNCHANGED <<wal, export, backups, counts, flock>>

MoveInFails ==
  /\ Fault("moveIn")
  /\ pc' = "restore"
  /\ UNCHANGED <<live, wal, staging, backups, counts, flock>>

Probe ==
  /\ Step("probe", "prune")
  /\ UNCHANGED <<live, wal, staging, backups, counts, flock>>

ProbeFails ==   \* the swapped file cannot be opened: it is removed
  /\ Fault("probe")
  /\ pc' = "restore" /\ live' = Missing
  /\ UNCHANGED <<wal, staging, backups, counts, flock>>

(* The backup comes back, by a rename of the database and then one of its  *)
(* log, if it has one; neither status is looked at.                        *)
Restore ==
  /\ Step("restore", "restoreWal")
  /\ live' = Head(backups).main /\ backups' = [backups EXCEPT ![1].main = Missing]
  /\ UNCHANGED <<wal, staging, counts, flock>>

RestoreFails ==
  /\ Fault("restore")
  /\ pc' = "restoreWal"
  /\ UNCHANGED <<live, wal, staging, backups, counts, flock>>

RestoreWal ==
  /\ Step("restoreWal", "off")
  /\ wal' = Head(backups).wal
  /\ backups' = IF Head(backups).main = Missing THEN Tail(backups)
                ELSE [backups EXCEPT ![1].wal = Missing]
  /\ flock' = "free" /\ export' = NoRows
  /\ UNCHANGED <<live, new, counts>>

(* A log that is not brought back after its database.                      *)
StaysBehind ==
  left' = left \cup (IF pc = "restoreWal" /\ live # Missing
                     THEN Head(backups).wal.rows \ live.rows ELSE NoRows)

RestoreWalFails ==
  /\ pc = "restoreWal" /\ Head(backups).wal # Missing
  /\ failures < MaxFailures /\ failures' = failures + 1
  /\ StaysBehind /\ Leave
  /\ export' = NoRows
  /\ UNCHANGED <<live, wal, new, backups, counts, committed, recreated, deaths>>

(* The newest database and, by a list of its own, the newest log are kept. *)
Logs == {n \in DOMAIN backups : backups[n].wal # Missing}
Prune ==
  /\ Step("prune", "off")
  /\ flock' = "free" /\ export' = NoRows
  /\ backups' = IF Logs = {} \/ 1 \in Logs THEN <<Head(backups)>>
                ELSE LET n == CHOOSE n \in Logs : \A m \in Logs : n <= m
                     IN  <<Head(backups), [main |-> Missing, wal |-> backups[n].wal]>>
  /\ UNCHANGED <<live, wal, new, counts>>

(* Out of memory, SIGKILL, a reboot: the kernel frees the flock.           *)
Die ==
  /\ pc # "off" /\ deaths < MaxDeaths
  /\ deaths' = deaths + 1
  /\ StaysBehind /\ Leave
  /\ UNCHANGED <<live, wal, staging, backups, counts, committed, recreated, failures>>

Compact ==
  \/ TakeFlock \/ Clean \/ Checkpoint \/ CheckpointFails \/ Count \/ CountFails
  \/ Export \/ Import \/ ImportDrops \/ ExportOrImportFails \/ Recount \/ RecountFails
  \/ Verify \/ MoveOut \/ MoveOutFails \/ MoveWal \/ MoveIn \/ MoveInFails
  \/ Probe \/ ProbeFails \/ Restore \/ RestoreFails \/ RestoreWal \/ RestoreWalFails \/ Prune

Next == Commit \/ Compact \/ Die

Spec == Init /\ [][Next]_vars
-------------------------------------------------------------------------------
(* What must hold.                                                         *)

(* Through every failing step, fallback and death, what was committed can  *)
(* be read: from the primary if there is one, else from the newest backup  *)
(* and whichever WAL belongs to it.  Gone are exactly the rows of a log    *)
(* that a restore cut or failing between its two renames left behind.  Not *)
(* claimed once a writer has created an empty primary in place of a        *)
(* missing one.                                                            *)
NothingForgotten ==
  ~recreated =>
    IF live # Missing
      THEN Readable(live, wal) \cup (IF pc = "restoreWal" THEN Head(backups).wal.rows ELSE NoRows)
             = committed \ left
      ELSE Readable(Head(backups).main, Head(backups).wal) \cup wal.rows = committed \ left

(* A WAL lies only beside the file it was written for, or beside none: the *)
(* fresh file must never replay the log of the file it replaces, nor a     *)
(* backup lose its own.                                                    *)
WalBelongs ==
  /\ wal # Missing /\ live # Missing => wal.id = live.id
  /\ \A n \in DOMAIN backups : backups[n].wal # Missing /\ backups[n].main # Missing =>
       backups[n].wal.id = backups[n].main.id

(* What makes them inductive: a run holds the flock to its end, the        *)
(* primary is there until it is moved out, and then the newest backup;     *)
InPlace == {"clean", "checkpoint", "count", "export", "import", "recount", "verify", "moveOut"}
SwapInOrder ==
  /\ flock = "free" <=> pc = "off"
  /\ pc \in InPlace => live # Missing
  /\ ~recreated => left \subseteq committed
  /\ pc \in {"moveWal", "moveIn", "restore"} => live = Missing
  /\ pc \in {"moveWal", "moveIn", "probe", "prune", "restore"} =>
       backups # <<>> /\ Head(backups).main # Missing
  /\ pc \in {"moveIn", "probe", "prune", "restore", "restoreWal"} => wal = Missing
  /\ pc = "restoreWal" => /\ backups # <<>>
                          /\ live = Missing <=> Head(backups).main # Missing
                          /\ live # Missing /\ Head(backups).wal # Missing => Head(backups).wal.id = live.id
  /\ pc = "moveWal" => /\ Head(backups).wal = Missing
                       /\ wal # Missing => wal.id = Head(backups).main.id

(* what was counted, exported and imported is what can be read, and where  *)
(* the counts agree the new file has all of it.                            *)
CopyInOrder ==
  /\ pc \in {"export", "import", "recount", "verify"} => pre = CountOf(Readable(live, wal))
  /\ pc = "import" => export = Readable(live, wal)
  /\ pc \in {"recount", "verify"} => new.rows \subseteq Readable(live, wal)
  /\ pc = "verify" => post = CountOf(new.rows)
  /\ pc = "moveOut" => new.rows = Readable(live, wal)
  /\ pc \in {"moveWal", "moveIn"} =>
       new.rows = Readable(Head(backups).main, Head(backups).wal) \cup wal.rows
  /\ pc \in {"probe", "prune"} => live.rows = Readable(Head(backups).main, Head(backups).wal)
CompactInv == TypeOK /\ SwapInOrder /\ CopyInOrder /\ NothingForgotten /\ WalBelongs

(* compact_warehouse.sh:7 "SAFE by construction ... The original is        *)
(* renamed to a dated pre-swap backup (never deleted here)".  A death      *)
(* between the renames leaves no primary; the next writer creates an       *)
(* empty one, and the next compaction prunes the backup that has the data. *)
NeverDeleted ==
  committed \subseteq UNION ({Readable(live, wal)} \cup
     {Readable(b.main, b.wal) : b \in Kept})
===============================================================================
