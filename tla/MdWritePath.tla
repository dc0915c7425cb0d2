----------------------------- MODULE MdWritePath -----------------------------
(***************************************************************************)
(* The MotherDuck publish: md-migration/md_write_path.py under its wrapper *)
(* md_write_path.sh.  The promoted serving snapshot is copied into the     *)
(* colour that is not served, validated, served by a flip of the pointer   *)
(* file, recorded in the state file, and cloned under the canonical name.  *)
(*                                                                         *)
(* Every publish holds /tmp/md_write_path.lock (cron, the kick of          *)
(* nightly.sh and the commands of RUNBOOK-TUESDAY.md take it with          *)
(* `flock -n'), so there is at most one; `--rollback' takes no lock.       *)
(***************************************************************************)
EXTENDS Naturals

CONSTANTS MaxSnapshots,  \* snapshots the serving publisher promotes
          MaxFailures,   \* statements of a publish that fail
          MaxCrashes,    \* publishes that are killed
          MaxManual,     \* publishes an operator starts with a flag
          MaxRollbacks   \* --rollback commands

Colors     == {"warehouse_a", "warehouse_b"}
Canonical  == "warehouse"
Previous   == "warehouse_prev"
Databases  == Colors \cup {Canonical, Previous}
Flags      == {"force", "no-canonical", "no-flip"}

VARIABLES
  snapshot,   \* what warehouse_current.duckdb links to
  db,         \* the MotherDuck databases
  pointer,    \* md_serving_db, the file the shim reads
  state,      \* md_write_path_state.json
  stamped,    \* .md_write_path_done holds today's date
  pc,         \* where the publish is
  job,        \* its locals: SNAP, active, target, flags, and who started it
  mover,      \* who moved the pointer last (history)
  undone,     \* snapshot the last rollback withdrew, 0 for none (history)
  unrecorded, \* snapshots served by a publish that ended before its record (history)
  unfit,      \* snapshots the gate refuses for good
  manuals, rollbacks, failures, crashes

vars == <<snapshot, db, pointer, state, stamped, pc, job, mover, undone, unrecorded, unfit,
          manuals, rollbacks, failures, crashes>>

Contents == [snap : 0..MaxSnapshots, kind : {"absent", "partial", "whole"}]
Absent   == [snap |-> 0, kind |-> "absent"]

TypeOK ==
  /\ snapshot \in 0..MaxSnapshots
  /\ db \in [Databases -> Contents]
  /\ pointer \in Colors
  /\ state \in [previous : Colors \cup {"none"}, active : Colors \cup {"none"},
                last : 0..MaxSnapshots]
  /\ stamped \in BOOLEAN
  /\ pc \in {"off", "gate", "drop", "build", "swap", "save", "probe", "dropPrev",
             "copyPrev", "dropCanonical", "clone", "restore"}
  /\ job \in [snap : 0..MaxSnapshots, active : Colors, target : Colors,
              flags : SUBSET Flags, wrapped : BOOLEAN]
  /\ mover \in {"publish", "rollback"}
  /\ undone \in 0..MaxSnapshots
  /\ unrecorded \subseteq 0..MaxSnapshots /\ unfit \subseteq 0..MaxSnapshots
  /\ manuals \in 0..MaxManual /\ rollbacks \in 0..MaxRollbacks
  /\ failures \in 0..MaxFailures /\ crashes \in 0..MaxCrashes

NoJob == [snap |-> 0, active |-> "warehouse_a", target |-> "warehouse_a",
          flags |-> {}, wrapped |-> FALSE]

Init ==   \* go-live: the first colour was loaded by the retired loader
  /\ snapshot = 1
  /\ db = [d \in Databases |-> IF d \in {"warehouse_a", Canonical}
                                 THEN [snap |-> 0, kind |-> "whole"] ELSE Absent]
  /\ pointer = "warehouse_a"
  /\ state = [previous |-> "none", active |-> "none", last |-> 0]
  /\ stamped = FALSE
  /\ pc = "off" /\ job = NoJob
  /\ mover = "publish" /\ undone = 0 /\ unrecorded = {} /\ unfit = {}
  /\ manuals = 0 /\ rollbacks = 0 /\ failures = 0 /\ crashes = 0

bounds == <<manuals, rollbacks, failures, crashes>>
serving == <<pointer, mover, undone, unrecorded>>

-------------------------------------------------------------------------------
(* External: the serving publisher promotes, midnight passes, and the      *)
(* newest snapshot's last healthy nightly gets too old for the gate, or it *)
(* turns out to hold none, or fewer rows than a canary asks for.           *)

Promote ==
  /\ snapshot < MaxSnapshots
  /\ snapshot' = snapshot + 1
  /\ UNCHANGED <<db, serving, state, stamped, pc, job, unfit, bounds>>

NewDay ==
  /\ stamped
  /\ stamped' = FALSE
  /\ UNCHANGED <<snapshot, db, serving, state, pc, job, unfit, bounds>>

Expire ==
  /\ snapshot \notin unfit
  /\ unfit' = unfit \cup {snapshot}
  /\ UNCHANGED <<snapshot, db, serving, state, stamped, pc, job, bounds>>

-------------------------------------------------------------------------------
(* md_write_path.sh, and an operator who runs the script with a flag.      *)

Start(flags, wrapped) ==
  /\ pc = "off"
  /\ pc' = "gate"
  /\ job' = [NoJob EXCEPT !.snap = snapshot, !.flags = flags, !.wrapped = wrapped]
  /\ UNCHANGED <<snapshot, db, serving, state, stamped, unfit, failures, crashes, rollbacks>>

Cron ==   \* the */30 ticks, the kick of nightly.sh, the RUNBOOK command
  /\ ~stamped
  /\ Start({}, TRUE)
  /\ UNCHANGED manuals

Operator ==   \* the wrapper hands its arguments on
  /\ manuals < MaxManual
  /\ manuals' = manuals + 1
  /\ \E flag \in Flags, wrapped \in BOOLEAN :
       (wrapped => ~stamped) /\ Start({flag}, wrapped)

Exit(rc) ==
  /\ pc' = "off" /\ job' = NoJob
  /\ stamped' = (stamped \/ (job.wrapped /\ rc = 0))

Fail ==
  /\ failures < MaxFailures
  /\ failures' = failures + 1
  /\ UNCHANGED <<manuals, rollbacks, crashes>>

-------------------------------------------------------------------------------
(* md_write_path.py                                                        *)

Other(color) == CHOOSE c \in Colors : c # color

(* Mutant: deduplicates on the snapshot served, not on the one recorded.   *)
Published_Served == db[pointer].snap = job.snap

Published == state.last = job.snap   \* snapshot already published

(* No connection or an unfit snapshot, with status 1.                      *)
GateRefuses ==
  /\ pc = "gate"
  /\ Exit(1)
  /\ UNCHANGED <<snapshot, unfit, db, serving, state, bounds>>

(* Mutant: an unset active_color becomes the colour that is served.        *)
GatePasses_Unchecked ==
  /\ pc = "gate" /\ (Published \/ job.snap \in unfit => "force" \in job.flags)
  /\ job' = [job EXCEPT !.active = state.active, !.target = Other(pointer)]
  /\ pc' = "drop"
  /\ UNCHANGED <<snapshot, unfit, db, serving, state, stamped, bounds>>

GatePasses ==
  /\ pc = "gate" /\ (Published \/ job.snap \in unfit => "force" \in job.flags)
  /\ job' = [job EXCEPT !.active = pointer, !.target = Other(pointer)]
  /\ pc' = "drop"
  /\ UNCHANGED <<snapshot, unfit, db, serving, state, stamped, bounds>>

DropTarget ==
  /\ pc = "drop"
  /\ db' = [db EXCEPT ![job.target] = [snap |-> job.snap, kind |-> "partial"]]
  /\ pc' = "build"
  /\ UNCHANGED <<snapshot, unfit, serving, state, stamped, job, bounds>>

(* Tables, macros and views are copied, then counted, executed and probed  *)
(* by the canaries.                                                        *)
Validates ==
  /\ pc = "build"
  /\ db' = [db EXCEPT ![job.target].kind = "whole"]
  /\ IF "no-flip" \in job.flags THEN Exit(0)
                                ELSE pc' = "swap" /\ UNCHANGED <<job, stamped>>
  /\ UNCHANGED <<snapshot, unfit, serving, state, bounds>>

(* A copy or a check fails (status 2), or an error outside every try ends  *)
(* the interpreter (status 1).  The target stays as it is.                 *)
BuildFails ==
  /\ pc = "build"
  /\ Fail
  /\ \E rc \in {1, 2} : Exit(rc)
  /\ UNCHANGED <<snapshot, unfit, db, serving, state>>

(* Mutant: the link of the snapshot is resolved again for the record.      *)
Recorded_LinkAgain ==
  [previous |-> job.active, active |-> job.target, last |-> snapshot]

Recorded ==
  [previous |-> job.active, active |-> job.target, last |-> job.snap]

(* Mutant: the state is saved before the pointer is flipped.               *)
Swap_RecordsFirst ==
  /\ pc = "swap"
  /\ state' = Recorded
  /\ pc' = "save"
  /\ UNCHANGED <<snapshot, unfit, db, serving, stamped, job, bounds>>

Swap ==
  /\ pc = "swap"
  /\ pointer' = job.target /\ mover' = "publish" /\ undone' = 0 /\ UNCHANGED unrecorded
  /\ pc' = "save"
  /\ UNCHANGED <<snapshot, unfit, db, state, stamped, job, bounds>>

Save ==
  /\ pc = "save"
  /\ state' = Recorded /\ unrecorded' = unrecorded \ {job.snap}
  /\ IF "no-canonical" \in job.flags THEN Exit(0)
                                     ELSE pc' = "probe" /\ UNCHANGED <<job, stamped>>
  /\ UNCHANGED <<snapshot, unfit, db, pointer, mover, undone, bounds>>

Unrecorded == unrecorded' = unrecorded \cup (IF pc = "save" THEN {job.snap} ELSE {})

SaveFails ==   \* save_state raises: a full disk
  /\ pc = "save"
  /\ Fail
  /\ Unrecorded
  /\ Exit(1)
  /\ UNCHANGED <<snapshot, unfit, db, pointer, mover, undone, state>>

-------------------------------------------------------------------------------
(* The canonical republish.  Each statement may raise: the handler alerts  *)
(* and leaves with status 3.                                               *)

Statement(from, to) ==
  /\ pc = from /\ pc' = to
  /\ UNCHANGED <<snapshot, unfit, serving, state, stamped, job, bounds>>

Drop(name) == db' = [db EXCEPT ![name] = Absent]

CloneProbe    == Statement("probe", "dropPrev") /\ UNCHANGED db
DropPrev      == Statement("dropPrev", "copyPrev") /\ Drop(Previous)
CopyPrev      == Statement("copyPrev", "dropCanonical")
                   /\ db' = [db EXCEPT ![Previous] = db[Canonical]]
DropCanonical == Statement("dropCanonical", "clone") /\ Drop(Canonical)

(* No copy of the canonical database: a warning, and on.                   *)
CopyPrevFails ==
  /\ pc = "copyPrev"
  /\ IF db[Canonical] = Absent THEN UNCHANGED bounds ELSE Fail
  /\ pc' = "dropCanonical"
  /\ UNCHANGED <<snapshot, unfit, db, serving, state, stamped, job>>

Clone ==
  /\ pc = "clone"
  /\ db' = [db EXCEPT ![Canonical] = db[job.target]]
  /\ Exit(0)
  /\ UNCHANGED <<snapshot, unfit, serving, state, bounds>>

CloneFails ==
  /\ pc = "clone"
  /\ Fail
  /\ pc' = "restore"
  /\ UNCHANGED <<snapshot, unfit, db, serving, state, stamped, job>>

Restore ==
  /\ pc = "restore"
  /\ db' = [db EXCEPT ![Canonical] = db[Previous]]   \* raises when there is none
  /\ Exit(3)
  /\ UNCHANGED <<snapshot, unfit, serving, state, bounds>>

StatementRaises ==
  /\ pc \in {"probe", "dropPrev", "dropCanonical", "restore"}
  /\ Fail
  /\ Exit(3)
  /\ UNCHANGED <<snapshot, unfit, db, serving, state>>

CanonicalStage ==
  {"probe", "dropPrev", "copyPrev", "dropCanonical", "clone", "restore"}

Canonicalise ==
  \/ CloneProbe \/ DropPrev \/ CopyPrev \/ CopyPrevFails \/ DropCanonical
  \/ Clone \/ CloneFails \/ Restore \/ StatementRaises

-------------------------------------------------------------------------------
(* --rollback: no lock, and the state file is read, never written.  What   *)
(* it withdraws is what the pointer served, whatever the state file says.  *)
Rollback ==
  /\ rollbacks < MaxRollbacks
  /\ state.previous # "none"
  /\ pointer' = state.previous /\ mover' = "rollback"
  /\ undone' = IF pointer' = pointer THEN undone ELSE db[pointer].snap
  /\ rollbacks' = rollbacks + 1
  /\ UNCHANGED <<snapshot, unfit, unrecorded, db, state, stamped, pc, job, manuals, failures, crashes>>

Crash ==
  /\ pc # "off" /\ crashes < MaxCrashes
  /\ crashes' = crashes + 1
  /\ Unrecorded
  /\ pc' = "off" /\ job' = NoJob
  /\ UNCHANGED <<snapshot, unfit, db, pointer, mover, undone, state, stamped, manuals, rollbacks, failures>>

Publish ==
  \/ GateRefuses \/ GatePasses \/ DropTarget \/ Validates \/ BuildFails
  \/ Swap \/ Save \/ SaveFails \/ Canonicalise

Next == Promote \/ NewDay \/ Expire \/ Cron \/ Operator \/ Publish \/ Rollback \/ Crash

(* cron keeps starting the wrapper, days pass, a publish that runs goes    *)
(* on, and of the ticks that find the newest snapshot fit for publication  *)
(* not every one fails to reach MotherDuck.  An unfit one may stay so.     *)
Fairness ==
  /\ WF_vars(NewDay) /\ WF_vars(Cron) /\ WF_vars(Publish) /\ SF_vars(GatePasses)

Spec == Init /\ [][Next]_vars /\ Fairness
-------------------------------------------------------------------------------
(* What must hold.                                                         *)

(* Since the pointer was last moved by a publish, what it names is a copy  *)
(* that passed validation: no build, failure or death of a later publish,  *)
(* and no rollback during one, may leave readers on a half-built colour    *)
(* without an operator having put them there.                              *)
PublishedIsWhole == mover = "publish" => db[pointer].kind = "whole"

(* The state file never claims a snapshot the readers have not been given: *)
(* the gate takes the claim for a reason never to publish it again, so a   *)
(* death between the flip and the record must err on the other side.       *)
RecordedWasServed == mover = "publish" => db[pointer].snap >= state.last

(* From the record to the end of the publish, previous_color names a whole *)
(* copy other than the one served: an operator who now rolls back for the  *)
(* first time changes what is served, and to something that was validated. *)
RollbackHasTarget ==
  pc \in CanonicalStage /\ rollbacks = 0 =>
    db[state.previous].kind = "whole" /\ state.previous # pointer

(* A rollback sticks: while the snapshot that readers were taken off is    *)
(* the newest, no cron tick serves it again unless an operator forces it,  *)
(* whatever ran, failed or died around the rollback, but for a snapshot    *)
(* whose publish ended between the flip and the record: the gate has never *)
(* heard of it.                                                            *)
RollbackSticks ==
  [][undone # 0 /\ mover' = "publish" =>
       job.snap # undone \/ "force" \in job.flags \/ undone \in unrecorded]_vars

(* The canonical name survives every single failing statement: to lose it  *)
(* takes a second failure of the same publish, or its death.               *)
CanonicalSurvivesOneFailure ==
  pc = "off" /\ db[Canonical] = Absent => failures >= 2 \/ crashes >= 1

(* Whatever is promoted reaches the readers, through any number of failing *)
(* builds and deaths the bounds allow: in the end they are on the newest   *)
(* snapshot, unless it has become unfit, by its age or by what is in it,   *)
(* or the last move of the pointer was a rollback.                         *)
SnapshotReachesReaders ==
  <>[](db[pointer].snap = snapshot \/ snapshot \in unfit \/ mover = "rollback")
===============================================================================
