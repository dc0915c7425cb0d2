----------------------------- MODULE IntegrityGate -----------------------------
(***************************************************************************)
(* The gate after the COMMIT, moderator/bin/moderator_integrity_gate.py,   *)
(* in moderator_apply's _apply_one: the unique enforcements of _key are    *)
(* counted for every table before a file is applied and again after it;    *)
(* a file that has brought a table to two or more is marked failed, though *)
(* its effect stays.  An enforcement is a unique index or a constraint;    *)
(* the two catalogs are read separately and either reading may fail.       *)
(*                                                                         *)
(* One apply-now runs at a time, under the writer lock; setup_db.py of the *)
(* nightly applies files without a gate; the gate's command line audits    *)
(* the whole database between them.                                        *)
(***************************************************************************)
EXTENDS FiniteSets, Integers

CONSTANTS
  Table, File,
  Adds,        \* what a file does: [table, idx, cons], the last two -1, 0 or 1
  MaxFaults    \* bound

VARIABLES
  enforced,    \* table -> its unique indexes and constraints on _key
  version,     \* files in core.schema_version
  row,         \* file -> the status of its row in the apply queue
  run,         \* the apply-now: its step, file, the counts before, its verdict
  issues,      \* tables with a row in core.schema_issue
  audit,       \* what the last audit said, and how things were
  broke,       \* history: files whose effect was a duplicate
  blocked,     \* history: files that were marked failed for one
  ungated,     \* history: files no gate has judged, or only half seeing
  misread,     \* history: files whose counts before were not all there
  faults

vars == <<enforced, version, row, run, issues, audit, broke, blocked, ungated, misread, faults>>

Zero == [t \in Table |-> 0]
Idle == [at |-> "idle", file |-> CHOOSE f \in File : TRUE, pre |-> Zero, verdict |-> "committed"]
Subject == run.file

Total(e) == e.idx + e.cons
Duplicate(t) == Total(enforced[t]) >= 2

TypeOK ==
  /\ enforced \in [Table -> [idx : Nat, cons : Nat]]
  /\ row \in [File -> {"none", "queued", "applying", "committed", "failed"}]
  /\ run \in [at : {"idle", "claimed", "apply", "gate", "finish"}, file : File,
              pre : [Table -> Nat], verdict : {"committed", "failed", "blocked"}]
  /\ (run.at # "idle" => row[Subject] = "applying")
  /\ broke \cup blocked \cup ungated \cup misread \subseteq File /\ broke \subseteq version
  /\ version \subseteq File /\ issues \subseteq Table /\ faults \in 0..MaxFaults

(* A table of the pipeline with its unique index, one with a primary key;  *)
(* either may have its duplicate already.                                  *)
Init ==
  /\ enforced \in [Table -> {[idx |-> 1, cons |-> 0], [idx |-> 2, cons |-> 0], [idx |-> 0, cons |-> 1]}]
  /\ version = {} /\ row = [f \in File |-> "none"] /\ run = Idle /\ issues = {}
  /\ audit = [ok |-> TRUE, duplicate |-> FALSE, seen |-> "both"]
  /\ broke = {} /\ blocked = {} /\ ungated = {} /\ misread = {} /\ faults = 0

Faults(n) == faults + n <= MaxFaults /\ faults' = faults + n
Fault(b)  == IF b THEN 1 ELSE 0
-------------------------------------------------------------------------------
(* _combined_key_enforcement_counts: both catalogs, the indexes alone when *)
(* duckdb_constraints() fails, or an error when duckdb_indexes() does.     *)
Catalogs == {"both", "indexes", "error"}
Counts(catalogs) ==
  [t \in Table |-> CASE catalogs = "both" -> Total(enforced[t])
                     [] catalogs = "indexes" -> enforced[t].idx]

(* snapshot_key_index_counts: no table has any when it fails.              *)
Snapshot(catalogs) == IF catalogs = "error" THEN Zero ELSE Counts(catalogs)

(* find_newly_introduced_dup_key_indexes                                   *)
Offenders(pre, after) == {t \in Table : after[t] > pre[t] /\ after[t] >= 2}

Effect(f) ==
  LET plus(n, d) == IF n + d < 0 THEN 0 ELSE n + d
  IN  [enforced EXCEPT ![Adds[f].table] = [idx |-> plus(@.idx, Adds[f].idx), cons |-> plus(@.cons, Adds[f].cons)]]
Doubles(f) == Total(Effect(f)[Adds[f].table]) >= 2 /\ Total(Effect(f)[Adds[f].table]) > Total(enforced[Adds[f].table])
Lands(f) ==
  /\ enforced' = Effect(f) /\ version' = version \cup {f}
  /\ broke' = IF Doubles(f) THEN broke \cup {f} ELSE broke
-------------------------------------------------------------------------------
(* A file is enqueued, again if its last row is settled; a reaped row is   *)
(* claimed anew.                                                           *)
Enqueue(f) ==
  /\ row[f] # "queued" /\ (row[f] = "applying" => run.at = "idle")
  /\ row' = [row EXCEPT ![f] = "queued"]
  /\ UNCHANGED <<enforced, version, run, issues, audit, broke, blocked, ungated, misread, faults>>
Claim(f) ==
  /\ run.at = "idle" /\ row[f] = "queued"
  /\ row' = [row EXCEPT ![f] = "applying"] /\ run' = [Idle EXCEPT !.at = "claimed", !.file = f]
  /\ UNCHANGED <<enforced, version, issues, audit, broke, blocked, ungated, misread, faults>>

CountBefore ==
  /\ run.at = "claimed"
  /\ \E catalogs \in Catalogs :
       /\ Faults(Fault(catalogs # "both"))
       /\ run' = [run EXCEPT !.at = "apply", !.pre = Snapshot(catalogs)]
       /\ misread' = IF catalogs = "both" THEN misread ELSE misread \cup {Subject}
  /\ UNCHANGED <<enforced, version, row, issues, audit, broke, blocked, ungated>>

(* apply_ddl_file: the statements and the version in one transaction, or   *)
(* nothing of a version that is there; that is "committed" without a gate. *)
Apply ==
  /\ run.at = "apply" /\ Subject \notin version
  /\ Lands(Subject) /\ run' = [run EXCEPT !.at = "gate"]
  /\ UNCHANGED <<row, issues, audit, blocked, ungated, misread, faults>>
ApplyFails ==
  /\ run.at = "apply" /\ Subject \notin version /\ Faults(1)
  /\ run' = [run EXCEPT !.at = "finish", !.verdict = "failed"]
  /\ UNCHANGED <<enforced, version, row, issues, audit, broke, blocked, ungated, misread>>
AlreadyApplied ==
  /\ run.at = "apply" /\ Subject \in version
  /\ run' = [run EXCEPT !.at = "finish"]
  /\ UNCHANGED <<enforced, version, row, issues, audit, broke, blocked, ungated, misread, faults>>

(* _record_schema_issue: a table's issue is recorded if it can be.         *)
Records(noted) == issues' = issues \cup noted

(* run_post_apply_integrity with the counts before.                        *)
Gate ==
  /\ run.at = "gate"
  /\ \E catalogs \in Catalogs :
       LET offenders == Offenders(run.pre, Snapshot(catalogs))
       IN  \E noted \in SUBSET offenders :
             /\ Faults(Fault(catalogs # "both") + Cardinality(offenders \ noted))
             /\ run' = [run EXCEPT !.at = "finish",
                                   !.verdict = IF offenders = {} THEN "committed" ELSE "blocked"]
             /\ Records(noted)
             /\ ungated' = IF catalogs = "both" THEN ungated ELSE ungated \cup {Subject}
  /\ UNCHANGED <<enforced, version, row, audit, broke, blocked, misread>>

(* _finish: the row's status, if Postgres can be reached.                  *)
Finish ==
  /\ run.at = "finish" /\ run' = Idle
  /\ row' = [row EXCEPT ![Subject] = IF run.verdict = "blocked" THEN "failed" ELSE run.verdict]
  /\ blocked' = IF run.verdict = "blocked" THEN blocked \cup {Subject} ELSE blocked
  /\ UNCHANGED <<enforced, version, issues, audit, broke, ungated, misread, faults>>

(* Killed, or the status is lost: the row stays "applying" until the       *)
(* reaper finds it, and by then its version is there.                      *)
Dies ==
  /\ run.at # "idle" /\ Faults(1)
  /\ run' = Idle /\ ungated' = IF Subject \in version THEN ungated \cup {Subject} ELSE ungated
  /\ UNCHANGED <<enforced, version, row, issues, audit, broke, blocked, misread>>

(* setup_db.py: what is on main, under the same lock, and no gate.         *)
NightlyApplies(f) ==
  /\ run.at = "idle" /\ f \notin version
  /\ Lands(f) /\ ungated' = ungated \cup {f}
  /\ UNCHANGED <<row, run, issues, audit, blocked, misread, faults>>

(* sentinel_upsert_smoketest: an upsert of a row that is rolled back; the  *)
(* engine may fail it where there are two enforcements.                    *)
SmokeFails(fatal) == fatal /\ \E t \in Table : Duplicate(t)

(* main of the gate: every table, absolutely; an error of the indexes is   *)
(* a failure here.                                                         *)
Audit ==
  /\ run.at = "idle"
  /\ \E catalogs \in Catalogs, fatal \in BOOLEAN :
       /\ Faults(Fault(catalogs # "both"))
       /\ audit' = [ok |-> catalogs # "error" /\ ~SmokeFails(fatal)
                             /\ \A t \in Table : Counts(catalogs)[t] < 2,
                    duplicate |-> \E t \in Table : Duplicate(t), seen |-> catalogs]
  /\ UNCHANGED <<enforced, version, row, run, issues, broke, blocked, ungated, misread>>

Next ==
  \/ \E f \in File : Enqueue(f) \/ Claim(f) \/ NightlyApplies(f)
  \/ CountBefore \/ Apply \/ ApplyFails \/ AlreadyApplied \/ Gate \/ Finish \/ Dies \/ Audit

Spec == Init /\ [][Next]_vars
-------------------------------------------------------------------------------
(* A file that brought a table to a second enforcement has failed for it,  *)
(* or is being judged, unless no gate saw it: the nightly applied it, the  *)
(* apply-now died after the COMMIT, or the gate's own reading failed, which*)
(* in this mode lets the file through.                                     *)
BreakingIsBlocked ==
  \A f \in broke : f \in blocked \cup ungated \/ (run.file = f /\ run.at \in {"gate", "finish"})

(* A file is blocked for what it did: not for a duplicate that was there,  *)
(* unless the counts before had failed.                                    *)
BlockedHasBroken == blocked \subseteq broke \cup misread

(* An audit fails on a duplicate anywhere in the database, and on nothing  *)
(* else but an error of the indexes; without the catalog of the            *)
(* constraints it may pass one.                                            *)
AuditIsWhole ==
  /\ audit.ok => ~audit.duplicate \/ audit.seen = "indexes"
  /\ ~audit.ok => audit.duplicate \/ audit.seen = "error"
-------------------------------------------------------------------------------
(* Why it holds: between the counts before and the gate nobody else        *)
(* changes the tables, so that a file that broke one shows there.          *)
NotJudgedYet == run.at # "finish" => run.verdict = "committed"
BaselineIsBelow ==
  run.at = "apply" => \A t \in Table :
    /\ run.pre[t] <= Total(enforced[t])
    /\ Subject \notin misread => run.pre[t] = Total(enforced[t])
EffectShows ==
  run.at = "gate" =>
    /\ Subject \in version
    /\ Subject \in broke => \E t \in Table : Duplicate(t) /\ Total(enforced[t]) > run.pre[t]
    /\ Subject \notin broke \cup misread =>
         \A t \in Table : Duplicate(t) => Total(enforced[t]) <= run.pre[t]
VerdictIsRight ==
  run.at = "finish" =>
    /\ Subject \in broke \ (blocked \cup ungated) => run.verdict = "blocked"
    /\ run.verdict = "blocked" => Subject \in broke \cup misread
GateInv ==
  /\ TypeOK /\ NotJudgedYet /\ BaselineIsBelow /\ EffectShows /\ VerdictIsRight
  /\ BreakingIsBlocked /\ BlockedHasBroken /\ AuditIsWhole
===============================================================================
