--------------------------- MODULE MdWritePathProofs ---------------------------
(***************************************************************************)
(* Proofs about MdWritePath for any number of snapshots, failures, deaths, *)
(* manual publishes and rollbacks.                                         *)
(***************************************************************************)
EXTENDS MdWritePath, TLAPS

Content == [snap : Nat, kind : {"absent", "partial", "whole"}]
Steps == {"off", "gate", "drop", "build", "swap", "save", "probe", "dropPrev",
          "copyPrev", "dropCanonical", "clone", "restore"}

\* The types, whatever the bounds.
Shape ==
  /\ snapshot \in Nat /\ db \in [Databases -> Content] /\ pointer \in Colors
  /\ state \in [previous : Colors \cup {"none"}, active : Colors \cup {"none"}, last : Nat]
  /\ pc \in Steps /\ stamped \in BOOLEAN
  /\ job \in [snap : Nat, active : Colors, target : Colors, flags : SUBSET Flags, wrapped : BOOLEAN]
  /\ mover \in {"publish", "rollback"} /\ undone \in Nat /\ unrecorded \subseteq Nat /\ unfit \subseteq Nat
  /\ manuals \in Nat /\ rollbacks \in Nat /\ failures \in Nat /\ crashes \in Nat

Building == {"drop", "build", "swap"}
Built == {"save"} \cup CanonicalStage

\* Snapshots get newer: no publish carries one older than the one recorded.
SnapshotsGrow ==
  /\ state.last <= snapshot
  /\ pc # "off" => job.snap <= snapshot /\ state.last <= job.snap

\* A publish builds in the colour that is not served, unless a rollback moved
\* the pointer there meanwhile, and serves it when it is whole.
BuildsAside ==
  /\ pc \in Building => job.target # pointer \/ (mover = "rollback" /\ pointer = state.previous)
  /\ pc \in Building \cup Built => job.active # job.target
  /\ pc = "save" => pointer \in {job.target, state.previous}
  /\ pc \in {"build", "swap"} \cup Built => db[job.target].snap = job.snap
  /\ pc \in {"swap"} \cup Built => db[job.target].kind = "whole"
  /\ pc \in Built /\ mover = "publish" => job.target = pointer

\* As long as nobody rolled back, what was served when the publish began stays
\* whole and is what the state file records as the colour to go back to.
KeepsPrevious ==
  rollbacks = 0 =>
    /\ mover = "publish"
    /\ pc \in Building \cup Built => db[job.active].kind = "whole" /\ job.active # job.target
    /\ pc \in CanonicalStage => state.previous = job.active

\* What readers can be taken off is what was recorded, or was served by a
\* publish that has not come to its record or never did; so is what was
\* withdrawn, until a publish has flipped.
Known(snap) == snap = state.last \/ snap \in unrecorded \/ (pc = "save" /\ snap = job.snap)
WithdrawnIsKnown ==
  /\ mover = "publish" => undone = 0
  /\ state.previous # "none" /\ pointer # state.previous => Known(db[pointer].snap)
  /\ undone # 0 => Known(undone) /\ (pc = "save" => undone = job.snap)
  /\ pc \in Building => job.snap # state.last \/ "force" \in job.flags

\* The canonical name is gone between its drop and its clone only, and then
\* the copy under the other name is there unless a statement has failed.
CanonicalAtRisk ==
  \/ crashes >= 1 \/ failures >= 2
  \/ /\ pc \notin {"clone", "restore"} => db[Canonical].kind # "absent"
     /\ pc \in {"dropCanonical", "clone"} => db[Previous].kind # "absent" \/ failures >= 1
     /\ pc = "restore" => db[Previous].kind # "absent" /\ failures >= 1

IInv ==
  /\ Shape
  /\ SnapshotsGrow
  /\ PublishedIsWhole /\ RecordedWasServed
  /\ BuildsAside
  /\ KeepsPrevious
  /\ WithdrawnIsKnown
  /\ CanonicalAtRisk
-----------------------------------------------------------------------------
LEMMA ColoursDiffer == /\ \A c \in Colors : Other(c) \in Colors /\ Other(c) # c
                       /\ Canonical \notin Colors /\ Previous \notin Colors /\ Canonical # Previous
<1>1. ASSUME NEW c \in Colors PROVE Other(c) \in Colors /\ Other(c) # c
  <2>1. \E d \in Colors : d # c
    BY DEF Colors
  <2> QED BY <2>1 DEF Other
<1>2. Canonical \notin Colors /\ Previous \notin Colors /\ Canonical # Previous
  BY DEF Colors, Canonical, Previous
<1> QED BY <1>1, <1>2

LEMMA InitIInv == Init => IInv
<1> SUFFICES ASSUME Init PROVE IInv
  OBVIOUS
<1>1. Shape
  BY DEF Init, Shape, Content, Absent, Steps, NoJob, Colors, Flags
<1>2. db["warehouse_a"] = [snap |-> 0, kind |-> "whole"] /\ db[Canonical] = [snap |-> 0, kind |-> "whole"]
  BY DEF Init, Databases, Colors, Canonical
<1>3. SnapshotsGrow /\ BuildsAside /\ KeepsPrevious /\ WithdrawnIsKnown
  BY DEF Init, SnapshotsGrow, BuildsAside, KeepsPrevious, WithdrawnIsKnown, Known, Building, Built, CanonicalStage
<1>4. PublishedIsWhole /\ RecordedWasServed /\ CanonicalAtRisk
  BY <1>2 DEF Init, PublishedIsWhole, RecordedWasServed, CanonicalAtRisk
<1> QED BY <1>1, <1>3, <1>4 DEF IInv

\* Steps that touch neither the databases nor what the publish goes by.
LEMMA AroundStep ==
  ASSUME IInv, Promote \/ NewDay \/ Expire \/ Cron \/ Operator \/ GateRefuses \/ UNCHANGED vars
  PROVE  IInv'
<1>1. CASE UNCHANGED vars
  BY <1>1 DEF vars, IInv, Shape, SnapshotsGrow, PublishedIsWhole, RecordedWasServed, BuildsAside,
     KeepsPrevious, WithdrawnIsKnown, Known, CanonicalAtRisk
<1>2. CASE Promote
  BY <1>2 DEF Promote, serving, bounds, IInv, Shape, SnapshotsGrow, PublishedIsWhole, RecordedWasServed,
     BuildsAside, KeepsPrevious, WithdrawnIsKnown, Known, CanonicalAtRisk
<1>3. CASE NewDay
  <2>1. /\ UNCHANGED <<snapshot, db, pointer, mover, undone, unrecorded, unfit, state, pc, job, manuals, rollbacks, failures, crashes>>
        /\ stamped' \in BOOLEAN
    BY <1>3 DEF NewDay, serving, bounds
  <2> QED BY <2>1 DEF IInv, Shape, SnapshotsGrow, PublishedIsWhole, RecordedWasServed,
          BuildsAside, KeepsPrevious, WithdrawnIsKnown, Known, CanonicalAtRisk
<1>6. CASE Expire
  <2>1. /\ UNCHANGED <<snapshot, db, pointer, mover, undone, unrecorded, state, stamped, pc, job, manuals, rollbacks,
                       failures, crashes>>
        /\ unfit' = unfit \cup {snapshot} /\ snapshot \in Nat
    BY <1>6 DEF Expire, serving, bounds, IInv, Shape
  <2> QED BY <2>1 DEF IInv, Shape, SnapshotsGrow, PublishedIsWhole, RecordedWasServed,
          BuildsAside, KeepsPrevious, WithdrawnIsKnown, Known, CanonicalAtRisk
<1>4. CASE Cron \/ Operator
  <2>1. /\ UNCHANGED <<snapshot, db, pointer, mover, undone, unrecorded, unfit, state, stamped, failures, crashes, rollbacks>>
        /\ manuals' \in Nat /\ pc = "off" /\ pc' = "gate"
        /\ job' \in [snap : Nat, active : Colors, target : Colors, flags : SUBSET Flags, wrapped : BOOLEAN]
        /\ job'.snap = snapshot
    <3>1. /\ manuals' = manuals \/ manuals' = manuals + 1
          /\ \E flags \in SUBSET Flags : \E wrapped \in BOOLEAN : Start(flags, wrapped)
      BY <1>4 DEF Cron, Operator
    <3>2. PICK flags \in SUBSET Flags, wrapped \in BOOLEAN : Start(flags, wrapped)
      BY <3>1
    <3>3. job' = [snap |-> snapshot, active |-> "warehouse_a", target |-> "warehouse_a",
                  flags |-> flags, wrapped |-> wrapped]
      BY <3>2 DEF Start, NoJob
    <3>4. snapshot \in Nat /\ manuals \in Nat
      BY DEF IInv, Shape
    <3> QED BY <3>1, <3>2, <3>3, <3>4 DEF Start, serving, Colors
  <2>2. Shape'
    BY <2>1 DEF IInv, Shape, Steps
  <2>3. SnapshotsGrow'
    BY <2>1 DEF IInv, Shape, SnapshotsGrow
  <2>4. PublishedIsWhole' /\ RecordedWasServed'
    BY <2>1 DEF IInv, PublishedIsWhole, RecordedWasServed
  <2>5. BuildsAside' /\ KeepsPrevious' /\ WithdrawnIsKnown'
    BY <2>1 DEF IInv, BuildsAside, KeepsPrevious, WithdrawnIsKnown, Known, Building, Built, CanonicalStage
  <2>6. CanonicalAtRisk'
    BY <2>1 DEF IInv, CanonicalAtRisk
  <2> QED BY <2>2, <2>3, <2>4, <2>5, <2>6 DEF IInv
<1>5. CASE GateRefuses
  <2>1. /\ UNCHANGED <<snapshot, db, pointer, mover, undone, unrecorded, unfit, state, manuals, failures, crashes, rollbacks>>
        /\ stamped' \in BOOLEAN /\ pc = "gate" /\ pc' = "off" /\ job' = NoJob
    BY <1>5 DEF GateRefuses, Exit, serving, bounds, IInv, Shape
  <2>2. Shape'
    BY <2>1 DEF IInv, Shape, Steps, NoJob, Colors
  <2> QED BY <2>1, <2>2 DEF IInv, SnapshotsGrow, PublishedIsWhole, RecordedWasServed,
          BuildsAside, KeepsPrevious, WithdrawnIsKnown, Known, CanonicalAtRisk, Building, Built, CanonicalStage
<1> QED BY <1>1, <1>2, <1>3, <1>4, <1>5, <1>6

\* The gate and the build.
LEMMA BuildStep ==
  ASSUME IInv, GatePasses \/ DropTarget \/ Validates \/ BuildFails
  PROVE  IInv'
<1>t. /\ Shape /\ db \in [Databases -> Content] /\ Colors \subseteq Databases
      /\ Canonical \in Databases \ Colors /\ Previous \in Databases \ Colors
      /\ job.target \in Colors /\ job.active \in Colors /\ pointer \in Colors
  BY ColoursDiffer DEF IInv, Shape, Databases
<1>1. CASE GatePasses
  <2>1. /\ UNCHANGED <<snapshot, db, pointer, mover, undone, unrecorded, unfit, state, stamped, manuals, rollbacks, failures, crashes>>
        /\ pc = "gate" /\ pc' = "drop"
        /\ job' = [job EXCEPT !.active = pointer, !.target = Other(pointer)]
        /\ state.last = job.snap => "force" \in job.flags
    BY <1>1 DEF GatePasses, Published, serving, bounds
  <2>2. Other(pointer) \in Colors /\ Other(pointer) # pointer
    BY <1>t, ColoursDiffer
  <2>3. /\ job' \in [snap : Nat, active : Colors, target : Colors, flags : SUBSET Flags, wrapped : BOOLEAN]
        /\ job'.active = pointer /\ job'.target = Other(pointer) /\ job'.snap = job.snap /\ job'.flags = job.flags
    BY <1>t, <2>1, <2>2 DEF Shape
  <2>4. Shape'
    BY <1>t, <2>1, <2>3 DEF Shape, Steps
  <2>5. SnapshotsGrow' /\ PublishedIsWhole' /\ RecordedWasServed' /\ CanonicalAtRisk'
    BY <2>1, <2>3 DEF IInv, SnapshotsGrow, PublishedIsWhole, RecordedWasServed, CanonicalAtRisk
  <2>6. BuildsAside' /\ KeepsPrevious'
    BY <2>1, <2>2, <2>3 DEF IInv, BuildsAside, KeepsPrevious, PublishedIsWhole, Building, Built, CanonicalStage
  <2>7. WithdrawnIsKnown'
    BY <2>1, <2>3 DEF IInv, WithdrawnIsKnown, Known, Building
  <2> QED BY <2>4, <2>5, <2>6, <2>7 DEF IInv
<1>2. CASE DropTarget
  <2>1. /\ UNCHANGED <<snapshot, pointer, mover, undone, unrecorded, unfit, state, stamped, job, manuals, rollbacks, failures, crashes>>
        /\ pc = "drop" /\ pc' = "build"
        /\ db' = [db EXCEPT ![job.target] = [snap |-> job.snap, kind |-> "partial"]]
    BY <1>2 DEF DropTarget, serving, bounds
  <2>2. /\ db' \in [Databases -> Content] /\ db'[job.target].snap = job.snap
        /\ \A d \in Databases \ {job.target} : db'[d] = db[d]
    BY <1>t, <2>1 DEF Shape, Content
  <2>3. /\ mover = "publish" => db'[pointer] = db[pointer]
        /\ pointer # state.previous => db'[pointer] = db[pointer]
    BY <1>t, <2>1, <2>2 DEF IInv, BuildsAside, Building
  <2>4. Shape' /\ SnapshotsGrow'
    BY <1>t, <2>1, <2>2 DEF IInv, Shape, SnapshotsGrow, Steps
  <2>5. PublishedIsWhole' /\ RecordedWasServed'
    BY <2>1, <2>3 DEF IInv, PublishedIsWhole, RecordedWasServed
  <2>6. BuildsAside' /\ WithdrawnIsKnown'
    BY <2>1, <2>2, <2>3 DEF IInv, BuildsAside, WithdrawnIsKnown, Known, Building, Built, CanonicalStage
  <2>7. KeepsPrevious'
    BY <1>t, <2>1, <2>2 DEF IInv, KeepsPrevious, Building, Built, CanonicalStage
  <2>8. db'[Canonical] = db[Canonical] /\ db'[Previous] = db[Previous]
    BY <1>t, <2>2
  <2>9. CanonicalAtRisk'
    BY <2>1, <2>8 DEF IInv, CanonicalAtRisk
  <2> QED BY <2>4, <2>5, <2>6, <2>7, <2>9 DEF IInv
<1>3. CASE Validates
  <2>1. /\ UNCHANGED <<snapshot, pointer, mover, undone, unrecorded, unfit, state, manuals, rollbacks, failures, crashes>>
        /\ pc = "build" /\ db' = [db EXCEPT ![job.target].kind = "whole"]
        /\ stamped' \in BOOLEAN
        /\ \/ pc' = "off" /\ job' = NoJob
           \/ pc' = "swap" /\ job' = job
    BY <1>3, <1>t DEF Validates, Exit, serving, bounds, Shape
  <2>2. /\ db' \in [Databases -> Content] /\ db'[job.target].snap = db[job.target].snap
        /\ db'[job.target].kind = "whole"
        /\ \A d \in Databases \ {job.target} : db'[d] = db[d]
    BY <1>t, <2>1 DEF Content
  <2>3. /\ mover = "publish" => db'[pointer] = db[pointer]
        /\ pointer # state.previous => db'[pointer] = db[pointer]
    BY <1>t, <2>1, <2>2 DEF IInv, BuildsAside, Building
  <2>4. NoJob \in [snap : Nat, active : Colors, target : Colors, flags : SUBSET Flags, wrapped : BOOLEAN]
    BY DEF NoJob, Colors
  <2>5. Shape'
    BY <1>t, <2>1, <2>2, <2>4 DEF Shape, Steps
  <2>6. SnapshotsGrow' /\ WithdrawnIsKnown'
    BY <2>1, <2>3 DEF IInv, SnapshotsGrow, WithdrawnIsKnown, Known, Building
  <2>7. PublishedIsWhole' /\ RecordedWasServed'
    BY <2>1, <2>3 DEF IInv, PublishedIsWhole, RecordedWasServed
  <2>8. BuildsAside'
    BY <2>1, <2>2 DEF IInv, BuildsAside, Building, Built, CanonicalStage
  <2>9. KeepsPrevious'
    BY <1>t, <2>1, <2>2 DEF IInv, KeepsPrevious, Building, Built, CanonicalStage
  <2>10. db'[Canonical] = db[Canonical] /\ db'[Previous] = db[Previous]
    BY <1>t, <2>2
  <2>11. CanonicalAtRisk'
    BY <2>1, <2>10 DEF IInv, CanonicalAtRisk
  <2> QED BY <2>5, <2>6, <2>7, <2>8, <2>9, <2>11 DEF IInv
<1>4. CASE BuildFails
  <2>1. /\ UNCHANGED <<snapshot, db, pointer, mover, undone, unrecorded, unfit, state, manuals, rollbacks, crashes>>
        /\ pc = "build" /\ pc' = "off" /\ job' = NoJob /\ failures' = failures + 1
        /\ stamped' \in BOOLEAN
    BY <1>4, <1>t DEF BuildFails, Fail, Exit, serving, Shape
  <2>2. Shape'
    BY <1>t, <2>1 DEF Shape, Steps, NoJob, Colors
  <2>3. SnapshotsGrow' /\ PublishedIsWhole' /\ RecordedWasServed' /\ WithdrawnIsKnown'
    BY <2>1 DEF IInv, SnapshotsGrow, PublishedIsWhole, RecordedWasServed, WithdrawnIsKnown, Known, Building
  <2>4. BuildsAside' /\ KeepsPrevious'
    BY <2>1 DEF IInv, BuildsAside, KeepsPrevious, Building, Built, CanonicalStage
  <2>5. CanonicalAtRisk'
    BY <1>t, <2>1 DEF IInv, Shape, CanonicalAtRisk
  <2> QED BY <2>2, <2>3, <2>4, <2>5 DEF IInv
<1> QED BY <1>1, <1>2, <1>3, <1>4

\* The flip, the record, a rollback and a death.
LEMMA FlipStep ==
  ASSUME IInv, Swap \/ Save \/ SaveFails \/ Rollback \/ Crash
  PROVE  IInv'
<1>t. /\ Shape /\ job.target \in Colors /\ job.active \in Colors /\ pointer \in Colors
      /\ job.snap \in Nat /\ state.last \in Nat
  BY DEF IInv, Shape
<1>j. NoJob \in [snap : Nat, active : Colors, target : Colors, flags : SUBSET Flags, wrapped : BOOLEAN]
  BY DEF NoJob, Colors
<1>1. CASE Swap
  <2>1. /\ UNCHANGED <<snapshot, db, state, stamped, job, unrecorded, unfit, manuals, rollbacks, failures, crashes>>
        /\ pc = "swap" /\ pc' = "save" /\ pointer' = job.target /\ mover' = "publish" /\ undone' = 0
    BY <1>1 DEF Swap, bounds
  <2>2. Shape' /\ SnapshotsGrow'
    BY <1>t, <2>1 DEF IInv, Shape, SnapshotsGrow, Steps
  <2>3. PublishedIsWhole' /\ RecordedWasServed'
    BY <1>t, <2>1 DEF IInv, PublishedIsWhole, RecordedWasServed, BuildsAside, SnapshotsGrow, Built
  <2>4. BuildsAside' /\ KeepsPrevious' /\ WithdrawnIsKnown'
    BY <2>1 DEF IInv, BuildsAside, KeepsPrevious, WithdrawnIsKnown, Known, Building, Built, CanonicalStage
  <2>5. CanonicalAtRisk'
    BY <2>1 DEF IInv, CanonicalAtRisk
  <2> QED BY <2>2, <2>3, <2>4, <2>5 DEF IInv
<1>2. CASE Save
  <2>1. /\ UNCHANGED <<snapshot, db, pointer, mover, undone, unfit, manuals, rollbacks, failures, crashes>>
        /\ pc = "save" /\ state' = Recorded /\ unrecorded' = unrecorded \ {job.snap} /\ stamped' \in BOOLEAN
        /\ \/ pc' = "off" /\ job' = NoJob
           \/ pc' = "probe" /\ job' = job
    BY <1>2, <1>t DEF Save, Exit, serving, bounds, Shape
  <2>2. state'.last = job.snap /\ state'.previous = job.active
    BY <2>1 DEF Recorded
  <2>3. Shape'
    BY <1>t, <1>j, <2>1 DEF Shape, Recorded, Steps
  <2>4. SnapshotsGrow'
    BY <1>t, <2>1, <2>2 DEF IInv, SnapshotsGrow
  <2>5. PublishedIsWhole' /\ RecordedWasServed'
    BY <1>t, <2>1, <2>2 DEF IInv, PublishedIsWhole, RecordedWasServed, BuildsAside, Built
  <2>6. BuildsAside' /\ KeepsPrevious'
    BY <2>1, <2>2 DEF IInv, BuildsAside, KeepsPrevious, Building, Built, CanonicalStage
  <2>8. WithdrawnIsKnown'
    <3>1. pointer \in {job.target, state.previous} /\ job.active # job.target /\ db[job.target].snap = job.snap
      BY <2>1 DEF IInv, BuildsAside, Built
    <3>2. pointer # job.active => pointer = job.target
      BY <1>t, <3>1 DEF Colors
    <3>3. undone # 0 => undone = state'.last
      BY <2>1, <2>2 DEF IInv, WithdrawnIsKnown
    <3> QED BY <2>1, <2>2, <3>1, <3>2, <3>3 DEF IInv, WithdrawnIsKnown, Known, Building
  <2>7. CanonicalAtRisk'
    BY <2>1 DEF IInv, CanonicalAtRisk
  <2> QED BY <2>3, <2>4, <2>5, <2>6, <2>7, <2>8 DEF IInv
<1>3. CASE Rollback
  <2>1. /\ UNCHANGED <<snapshot, db, state, stamped, pc, job, unrecorded, unfit, manuals, failures, crashes>>
        /\ pointer' = state.previous /\ pointer' \in Colors /\ mover' = "rollback" /\ rollbacks' = rollbacks + 1
        /\ undone' = IF pointer' = pointer THEN undone ELSE db[pointer].snap
    BY <1>3, <1>t DEF Rollback, Shape
  <2>2. Shape' /\ SnapshotsGrow'
    <3>1. db[pointer].snap \in Nat
      BY <1>t DEF Shape, Content, Databases
    <3> QED BY <1>t, <2>1, <3>1 DEF IInv, Shape, SnapshotsGrow
  <2>3. PublishedIsWhole' /\ RecordedWasServed' /\ BuildsAside'
    BY <2>1 DEF IInv, PublishedIsWhole, RecordedWasServed, BuildsAside, Building, Built, CanonicalStage
  <2>4. KeepsPrevious'
    BY <1>t, <2>1 DEF Shape, KeepsPrevious
  <2>5. CanonicalAtRisk'
    BY <2>1 DEF IInv, CanonicalAtRisk
  <2>6. WithdrawnIsKnown'
    <3>1. CASE pointer' = pointer
      BY <2>1, <3>1 DEF IInv, WithdrawnIsKnown, Known
    <3>2. CASE pointer' # pointer
      <4>1. Known(db[pointer].snap) /\ undone' = db[pointer].snap
        BY <1>t, <2>1, <3>2 DEF IInv, WithdrawnIsKnown, Colors
      <4>2. pc = "save" => db[pointer].snap = job.snap
        BY <2>1, <3>2 DEF IInv, BuildsAside, Built
      <4> QED BY <2>1, <4>1, <4>2 DEF IInv, WithdrawnIsKnown, Known
    <3> QED BY <3>1, <3>2
  <2> QED BY <2>2, <2>3, <2>4, <2>5, <2>6 DEF IInv
<1>4. CASE Crash \/ SaveFails
  <2>1. /\ UNCHANGED <<snapshot, db, pointer, mover, undone, unfit, state, manuals, rollbacks>>
        /\ unrecorded' = unrecorded \cup (IF pc = "save" THEN {job.snap} ELSE {})
        /\ pc' = "off" /\ job' = NoJob /\ stamped' \in BOOLEAN
        /\ \/ crashes' = crashes + 1 /\ failures' = failures
           \/ pc = "save" /\ failures' = failures + 1 /\ crashes' = crashes
    BY <1>4, <1>t DEF Crash, SaveFails, Unrecorded, Fail, Exit, Shape
  <2>2. Shape'
    <3>1. unrecorded' \subseteq Nat
      <4>1. unrecorded \subseteq Nat
        BY <1>t DEF Shape
      <4> QED BY <1>t, <2>1, <4>1
    <3>2. failures' \in Nat /\ crashes' \in Nat
      BY <1>t, <2>1 DEF Shape
    <3> QED BY <1>t, <1>j, <2>1, <3>1, <3>2 DEF Shape, Steps
  <2>3. SnapshotsGrow' /\ PublishedIsWhole' /\ RecordedWasServed' /\ WithdrawnIsKnown'
    BY <2>1 DEF IInv, SnapshotsGrow, PublishedIsWhole, RecordedWasServed, WithdrawnIsKnown, Known, Building
  <2>4. BuildsAside' /\ KeepsPrevious'
    BY <2>1 DEF IInv, BuildsAside, KeepsPrevious, Building, Built, CanonicalStage
  <2>5. CanonicalAtRisk'
    BY <1>t, <2>1 DEF IInv, Shape, CanonicalAtRisk
  <2> QED BY <2>2, <2>3, <2>4, <2>5 DEF IInv
<1> QED BY <1>1, <1>2, <1>3, <1>4


\* A copy, a drop or nothing under one of the two other names leaves what the
\* readers and the next rollback go by alone.
LEMMA ColoursKept ==
  ASSUME IInv, NEW name \in {Canonical, Previous}, NEW copy \in Content,
         db' = [db EXCEPT ![name] = copy] \/ db' = db,
         UNCHANGED <<snapshot, pointer, mover, undone, unrecorded, unfit, state, manuals, rollbacks, crashes>>,
         failures' \in Nat, stamped' \in BOOLEAN, pc \in CanonicalStage,
         \/ pc' \in CanonicalStage /\ job' = job
         \/ pc' = "off" /\ job' = NoJob
  PROVE  /\ Shape' /\ SnapshotsGrow' /\ PublishedIsWhole' /\ RecordedWasServed'
         /\ BuildsAside' /\ KeepsPrevious' /\ WithdrawnIsKnown'
         /\ \A d \in Databases : d # name => db'[d] = db[d]
<1>t. /\ Shape /\ db \in [Databases -> Content] /\ Colors \subseteq Databases
      /\ Canonical \in Databases \ Colors /\ Previous \in Databases \ Colors
      /\ job.target \in Colors /\ job.active \in Colors /\ pointer \in Colors
  BY ColoursDiffer DEF IInv, Shape, Databases
<1>j. NoJob \in [snap : Nat, active : Colors, target : Colors, flags : SUBSET Flags, wrapped : BOOLEAN]
  BY DEF NoJob, Colors
<1>1. db' \in [Databases -> Content] /\ \A d \in Databases : d # name => db'[d] = db[d]
  BY <1>t
<1>2. \A c \in Colors : db'[c] = db[c]
  BY <1>t, <1>1
<1>3. Shape'
  BY <1>t, <1>j, <1>1 DEF Shape, Steps, CanonicalStage
<1>4. SnapshotsGrow' /\ WithdrawnIsKnown'
  <2>1. pc # "save" /\ pc' # "save" /\ pc' \notin Building /\ db'[pointer] = db[pointer]
    BY <1>t, <1>2 DEF Building, CanonicalStage
  <2> QED BY <2>1 DEF IInv, SnapshotsGrow, WithdrawnIsKnown, Known, CanonicalStage
<1>5. PublishedIsWhole' /\ RecordedWasServed'
  BY <1>t, <1>2 DEF IInv, PublishedIsWhole, RecordedWasServed
<1>6. BuildsAside'
  BY <1>t, <1>2 DEF IInv, BuildsAside, Building, Built, CanonicalStage
<1>7. KeepsPrevious'
  BY <1>t, <1>2 DEF IInv, KeepsPrevious, Building, Built, CanonicalStage
<1> QED BY <1>1, <1>3, <1>4, <1>5, <1>6, <1>7

\* The canonical republish.
LEMMA CanonicalStep ==
  ASSUME IInv, Canonicalise
  PROVE  IInv'
<1>t. /\ db \in [Databases -> Content] /\ job.target \in Databases /\ failures \in Nat
      /\ Canonical \in Databases /\ Previous \in Databases /\ Canonical # Previous
      /\ Absent \in Content /\ stamped \in BOOLEAN /\ job.wrapped \in BOOLEAN
  BY ColoursDiffer DEF IInv, Shape, Databases, Content, Absent
<1>a. CanonicalAtRisk /\ (pc \in CanonicalStage => db[job.target].kind = "whole")
  BY DEF IInv, BuildsAside, Built
<1>1. CASE CloneProbe \/ CopyPrevFails
  <2>1. /\ UNCHANGED <<snapshot, pointer, mover, undone, unrecorded, unfit, state, stamped, job, manuals, rollbacks, crashes>>
        /\ db' = db /\ failures' \in Nat /\ failures' >= failures
        /\ \/ pc = "probe" /\ pc' = "dropPrev"
           \/ /\ pc = "copyPrev" /\ pc' = "dropCanonical"
              /\ db[Canonical] = Absent \/ failures' = failures + 1
    BY <1>1, <1>t DEF CloneProbe, CopyPrevFails, Statement, Fail, serving, bounds
  <2>2. CanonicalAtRisk'
    BY <1>t, <1>a, <2>1 DEF CanonicalAtRisk, Absent
  <2> QED BY <1>t, <2>1, <2>2, ColoursKept DEF IInv, CanonicalStage
<1>2. CASE DropPrev \/ DropCanonical
  <2>1. PICK name \in {Canonical, Previous} :
          /\ UNCHANGED <<snapshot, pointer, mover, undone, unrecorded, unfit, state, stamped, job, manuals,
                         rollbacks, crashes, failures>>
          /\ db' = [db EXCEPT ![name] = Absent]
          /\ \/ pc = "dropPrev" /\ pc' = "copyPrev" /\ name = Previous
             \/ pc = "dropCanonical" /\ pc' = "clone" /\ name = Canonical
    BY <1>2 DEF DropPrev, DropCanonical, Drop, Statement, serving, bounds
  <2>2. \A d \in Databases : d # name => db'[d] = db[d]
    BY <1>t, <2>1
  <2>3. CanonicalAtRisk'
    BY <1>t, <1>a, <2>1, <2>2 DEF CanonicalAtRisk
  <2> QED BY <1>t, <2>1, <2>3, ColoursKept DEF IInv, CanonicalStage
<1>3. CASE CopyPrev
  <2>1. /\ UNCHANGED <<snapshot, pointer, mover, undone, unrecorded, unfit, state, stamped, job, manuals,
                       rollbacks, crashes, failures>>
        /\ db' = [db EXCEPT ![Previous] = db[Canonical]]
        /\ pc = "copyPrev" /\ pc' = "dropCanonical"
    BY <1>3 DEF CopyPrev, Statement, serving, bounds
  <2>2. db'[Previous] = db[Canonical] /\ db'[Canonical] = db[Canonical]
    BY <1>t, <2>1
  <2>3. CanonicalAtRisk'
    BY <1>t, <1>a, <2>1, <2>2 DEF CanonicalAtRisk
  <2> QED BY <1>t, <2>1, <2>3, ColoursKept DEF IInv, CanonicalStage
<1>4. CASE Clone
  <2>1. /\ UNCHANGED <<snapshot, pointer, mover, undone, unrecorded, unfit, state, manuals, rollbacks, crashes, failures>>
        /\ db' = [db EXCEPT ![Canonical] = db[job.target]]
        /\ pc = "clone" /\ pc' = "off" /\ job' = NoJob /\ stamped' \in BOOLEAN
    BY <1>4, <1>t DEF Clone, Exit, serving, bounds
  <2>2. db'[Canonical] = db[job.target]
    BY <1>t, <2>1
  <2>3. CanonicalAtRisk'
    BY <1>a, <2>1, <2>2 DEF CanonicalAtRisk, CanonicalStage
  <2> QED BY <1>t, <2>1, <2>3, ColoursKept DEF IInv, CanonicalStage
<1>5. CASE CloneFails
  <2>1. /\ UNCHANGED <<snapshot, db, pointer, mover, undone, unrecorded, unfit, state, stamped, job, manuals, rollbacks, crashes>>
        /\ pc = "clone" /\ pc' = "restore" /\ failures' = failures + 1
    BY <1>5 DEF CloneFails, Fail, serving
  <2>2. CanonicalAtRisk'
    BY <1>t, <1>a, <2>1 DEF CanonicalAtRisk
  <2> QED BY <1>t, <2>1, <2>2, ColoursKept DEF IInv, CanonicalStage
<1>6. CASE Restore
  <2>1. /\ UNCHANGED <<snapshot, pointer, mover, undone, unrecorded, unfit, state, manuals, rollbacks, crashes, failures>>
        /\ db' = [db EXCEPT ![Canonical] = db[Previous]]
        /\ pc = "restore" /\ pc' = "off" /\ job' = NoJob /\ stamped' \in BOOLEAN
    BY <1>6, <1>t DEF Restore, Exit, serving, bounds
  <2>2. db'[Canonical] = db[Previous]
    BY <1>t, <2>1
  <2>3. CanonicalAtRisk'
    BY <1>a, <2>1, <2>2 DEF CanonicalAtRisk
  <2> QED BY <1>t, <2>1, <2>3, ColoursKept DEF IInv, CanonicalStage
<1>7. CASE StatementRaises
  <2>1. /\ UNCHANGED <<snapshot, db, pointer, mover, undone, unrecorded, unfit, state, manuals, rollbacks, crashes>>
        /\ pc \in {"probe", "dropPrev", "dropCanonical", "restore"} /\ pc' = "off"
        /\ job' = NoJob /\ failures' = failures + 1 /\ stamped' \in BOOLEAN
    BY <1>7, <1>t DEF StatementRaises, Fail, Exit, serving
  <2>2. CanonicalAtRisk'
    BY <1>t, <1>a, <2>1 DEF CanonicalAtRisk
  <2> QED BY <1>t, <2>1, <2>2, ColoursKept DEF IInv, CanonicalStage
<1> QED BY <1>1, <1>2, <1>3, <1>4, <1>5, <1>6, <1>7 DEF Canonicalise

LEMMA IInvStep == IInv /\ [Next]_vars => IInv'
BY AroundStep, BuildStep, FlipStep, CanonicalStep DEF Next, Publish
-----------------------------------------------------------------------------
\* The inductive invariant of the publish: whichever steps of cron, an operator,
\* a failing statement, a rollback and a death come between.
THEOREM Invariance == Spec => []IInv
<1>1. Spec => Init /\ [][Next]_vars
  BY DEF Spec
<1> QED BY <1>1, InitIInv, IInvStep, PTL

LEMMA IInvHolds ==
  IInv => /\ PublishedIsWhole /\ RecordedWasServed
          /\ RollbackHasTarget /\ CanonicalSurvivesOneFailure
<1>1. IInv => RollbackHasTarget
  BY DEF IInv, RollbackHasTarget, KeepsPrevious, BuildsAside, Built, CanonicalStage
<1>2. IInv => CanonicalSurvivesOneFailure
  BY DEF IInv, CanonicalAtRisk, CanonicalSurvivesOneFailure, Absent
<1> QED BY <1>1, <1>2 DEF IInv

\* Readers are on a validated copy whatever a later publish does or dies of.
THEOREM ReadersAreServedWhole == Spec => []PublishedIsWhole
BY IInvHolds, Invariance, PTL

\* The state file never claims a snapshot the readers were not given.
THEOREM RecordFollowsFlip == Spec => []RecordedWasServed
BY IInvHolds, Invariance, PTL

\* While a publish cleans up, the state file names another whole copy.
THEOREM RollbackHasSomewhere == Spec => []RollbackHasTarget
BY IInvHolds, Invariance, PTL

\* No single failing statement costs the canonical name.
THEOREM CanonicalSurvives == Spec => []CanonicalSurvivesOneFailure
BY IInvHolds, Invariance, PTL

\* What a publish does to a withdrawn snapshot, step by step.
LEMMA StepSticks ==
  ASSUME IInv, [Next]_vars, undone # 0, mover' = "publish"
  PROVE  job.snap # undone \/ "force" \in job.flags \/ undone \in unrecorded
<1>1. mover # "publish"
  BY DEF IInv, WithdrawnIsKnown
<1>2. Swap
  <2>1. mover' # mover
    BY <1>1
  <2> QED BY <2>1 DEF Next, vars, Promote, NewDay, Expire, Cron, Operator, Start, Publish, GateRefuses,
          GatePasses, DropTarget, Validates, BuildFails, Save, SaveFails, Canonicalise, CloneProbe, DropPrev,
          CopyPrev, CopyPrevFails, DropCanonical, Clone, CloneFails, Restore, StatementRaises,
          Statement, Rollback, Crash, serving
<1> QED BY <1>2 DEF Swap, IInv, WithdrawnIsKnown, Known, Building

\* The snapshot that a rollback took readers off is not served again by a
\* publish that nobody forced, unless a publish of it ended between the flip
\* and the record; whatever was built, served, killed or failed around the
\* rollback, and whoever rolled back how often.
THEOREM RollbacksStick == Spec => RollbackSticks
<1>1. IInv /\ [Next]_vars => [undone # 0 /\ mover' = "publish" =>
                               job.snap # undone \/ "force" \in job.flags \/ undone \in unrecorded]_vars
  BY StepSticks
<1>2. Spec => [][Next]_vars
  BY DEF Spec
<1> QED BY <1>1, <1>2, Invariance, PTL DEF RollbackSticks

-----------------------------------------------------------------------------
\* The bounds the types name.
Bounds ==
  /\ MaxSnapshots \in Nat \ {0} /\ MaxFailures \in Nat /\ MaxCrashes \in Nat
  /\ MaxManual \in Nat /\ MaxRollbacks \in Nat

Jobs == [snap : 0..MaxSnapshots, active : Colors, target : Colors,
         flags : SUBSET Flags, wrapped : BOOLEAN]

LEMMA JobTypes ==
  ASSUME Bounds, TypeOK
  PROVE  /\ NoJob \in Jobs /\ Absent \in Contents /\ job \in Jobs /\ job.snap \in 0..MaxSnapshots
         /\ job.target \in Databases /\ Canonical \in Databases /\ Previous \in Databases
         /\ \A name \in Databases : \A copy \in Contents :
              [db EXCEPT ![name] = copy] \in [Databases -> Contents]
         /\ \A name \in Databases : db[name] \in Contents /\ [db[name] EXCEPT !.kind = "whole"] \in Contents
         /\ [snap |-> job.snap, kind |-> "partial"] \in Contents
BY DEF Bounds, TypeOK, NoJob, Absent, Contents, Jobs, Databases, Colors, Flags

LEMMA TypeInit == ASSUME Bounds, Init PROVE TypeOK
<1>1. db \in [Databases -> Contents] /\ job \in Jobs
  BY DEF Bounds, Init, Contents, Absent, NoJob, Jobs, Colors, Flags
<1>b. stamped \in BOOLEAN
  BY DEF Init
<1>2. /\ snapshot \in 0..MaxSnapshots /\ pointer \in Colors /\ pc = "off"
      /\ manuals \in 0..MaxManual /\ rollbacks \in 0..MaxRollbacks
      /\ failures \in 0..MaxFailures /\ crashes \in 0..MaxCrashes
      /\ mover \in {"publish", "rollback"} /\ undone \in 0..MaxSnapshots
      /\ unrecorded \subseteq 0..MaxSnapshots /\ unfit \subseteq 0..MaxSnapshots
  <2>1. /\ snapshot = 1 /\ pointer = "warehouse_a" /\ pc = "off" /\ mover = "publish"
        /\ undone = 0 /\ unrecorded = {} /\ unfit = {} /\ manuals = 0 /\ rollbacks = 0 /\ failures = 0 /\ crashes = 0
    BY DEF Init
  <2> QED BY <2>1 DEF Bounds, Colors
<1>3. state = [previous |-> "none", active |-> "none", last |-> 0] /\ 0 \in 0..MaxSnapshots
  BY DEF Bounds, Init
<1> QED BY <1>1, <1>b, <1>2, <1>3 DEF TypeOK, Jobs

\* Every step keeps the types.
LEMMA TypeStep == ASSUME Bounds, TypeOK, [Next]_vars PROVE TypeOK'
<1>j. /\ NoJob \in Jobs /\ Absent \in Contents /\ job \in Jobs /\ job.snap \in 0..MaxSnapshots
      /\ job.target \in Databases /\ Canonical \in Databases /\ Previous \in Databases
      /\ \A name \in Databases : \A copy \in Contents :
           [db EXCEPT ![name] = copy] \in [Databases -> Contents]
      /\ \A name \in Databases : db[name] \in Contents /\ [db[name] EXCEPT !.kind = "whole"] \in Contents
      /\ [snap |-> job.snap, kind |-> "partial"] \in Contents
  BY JobTypes
<1>b. /\ MaxSnapshots \in Nat \ {0} /\ MaxFailures \in Nat /\ MaxCrashes \in Nat
      /\ MaxManual \in Nat /\ MaxRollbacks \in Nat
  BY DEF Bounds
<1>1. CASE UNCHANGED vars
  BY <1>1 DEF vars, TypeOK, Contents
<1>2. CASE Promote \/ NewDay
  <2>1. UNCHANGED <<db, pointer, mover, undone, unrecorded, unfit, state, pc, job, manuals, rollbacks, failures, crashes>>
    BY <1>2 DEF Promote, NewDay, serving, bounds
  <2>2. snapshot' \in 0..MaxSnapshots
    BY <1>2, <1>b DEF Promote, NewDay, TypeOK
  <2>3. stamped' \in BOOLEAN
    BY <1>2 DEF Promote, NewDay, TypeOK
  <2> QED BY <2>1, <2>2, <2>3 DEF TypeOK, Contents
<1>11. CASE Expire
  <2>1. snapshot \in 0..MaxSnapshots /\ unfit \subseteq 0..MaxSnapshots
    BY DEF TypeOK
  <2>2. unfit' \subseteq 0..MaxSnapshots
    BY <1>11, <2>1 DEF Expire
  <2> QED BY <1>11, <2>2 DEF Expire, serving, bounds, TypeOK, Contents
<1>3. CASE Cron \/ Operator
  <2>1. /\ manuals' \in 0..MaxManual
        /\ \E flags \in SUBSET Flags : \E wrapped \in BOOLEAN : Start(flags, wrapped)
    <3>1. manuals' \in 0..MaxManual
      <4>1. manuals \in 0..MaxManual
        BY DEF TypeOK
      <4>2. manuals' = manuals \/ (manuals < MaxManual /\ manuals' = manuals + 1)
        BY <1>3 DEF Cron, Operator
      <4> QED BY <1>b, <4>1, <4>2
    <3>2. {} \in SUBSET Flags /\ \A flag \in Flags : {flag} \in SUBSET Flags
      OBVIOUS
    <3>3. \E flags \in SUBSET Flags : \E wrapped \in BOOLEAN : Start(flags, wrapped)
      <4>1. CASE Cron
        BY <3>2, <4>1 DEF Cron
      <4>2. CASE Operator
        <5>1. PICK flag \in Flags, wrapped \in BOOLEAN : Start({flag}, wrapped)
          BY <4>2 DEF Operator
        <5> QED BY <3>2, <5>1
      <4> QED BY <1>3, <4>1, <4>2
    <3> QED BY <3>1, <3>3
  <2>2. PICK flags \in SUBSET Flags, wrapped \in BOOLEAN : Start(flags, wrapped)
    BY <2>1
  <2>3. job' \in Jobs
    BY <2>2 DEF Start, NoJob, Jobs, Colors, TypeOK
  <2> QED BY <2>1, <2>2, <2>3 DEF Start, serving, TypeOK, Jobs, Contents
<1>4. CASE GateRefuses \/ BuildFails \/ StatementRaises \/ SaveFails \/ Crash
  <2>1. /\ UNCHANGED <<snapshot, db, pointer, mover, undone, unfit, state, manuals, rollbacks>>
        /\ job' = NoJob /\ pc' = "off" /\ stamped' \in BOOLEAN
        /\ failures' \in 0..MaxFailures /\ crashes' \in 0..MaxCrashes
    BY <1>4, <1>b, <1>j DEF GateRefuses, BuildFails, StatementRaises, SaveFails, Crash, Exit, Fail, serving, bounds,
       TypeOK
  <2>2. unrecorded' \subseteq 0..MaxSnapshots
    <3>1. unrecorded' \subseteq unrecorded \cup {job.snap}
      BY <1>4 DEF GateRefuses, BuildFails, StatementRaises, SaveFails, Crash, Unrecorded, serving
    <3>2. unrecorded \subseteq 0..MaxSnapshots
      BY DEF TypeOK
    <3> QED BY <1>j, <3>1, <3>2
  <2> QED BY <1>j, <2>1, <2>2 DEF TypeOK, Jobs, Contents
<1>5. CASE GatePasses
  <2>1. Other(pointer) \in Colors
    BY ColoursDiffer DEF TypeOK
  <2>2. job' \in Jobs
    BY <1>5, <1>j, <2>1 DEF GatePasses, Jobs, TypeOK
  <2> QED BY <1>5, <2>2 DEF GatePasses, serving, bounds, TypeOK, Jobs, Contents
<1>6. CASE DropTarget \/ DropPrev \/ DropCanonical \/ CopyPrev
  <2>1. /\ UNCHANGED <<snapshot, pointer, mover, undone, unrecorded, unfit, state, stamped, job, manuals, rollbacks, failures, crashes>>
        /\ pc' \in {"build", "copyPrev", "clone", "dropCanonical"}
        /\ \E name \in Databases : \E copy \in Contents : db' = [db EXCEPT ![name] = copy]
    BY <1>6, <1>j DEF DropTarget, DropPrev, DropCanonical, CopyPrev, Drop, Statement, serving, bounds
  <2>2. db' \in [Databases -> Contents]
    BY <1>j, <2>1
  <2> QED BY <2>1, <2>2 DEF TypeOK, Contents
<1>7. CASE Validates \/ Clone \/ Restore
  <2>1. /\ UNCHANGED <<snapshot, pointer, mover, undone, unrecorded, unfit, state, manuals, rollbacks, failures, crashes>>
        /\ pc' \in {"off", "swap"} /\ job' \in Jobs /\ stamped' \in BOOLEAN
    BY <1>7, <1>j DEF Validates, Clone, Restore, Exit, serving, bounds, TypeOK, Jobs
  <2>2. \E name \in Databases : \E copy \in Contents : db' = [db EXCEPT ![name] = copy]
    <3>1. CASE Validates
      <4>1. db' = [db EXCEPT ![job.target] = [db[job.target] EXCEPT !.kind = "whole"]]
        BY <3>1 DEF Validates
      <4> QED BY <1>j, <4>1
    <3>2. CASE Clone \/ Restore
      BY <3>2, <1>j DEF Clone, Restore
    <3> QED BY <1>7, <3>1, <3>2
  <2>3. db' \in [Databases -> Contents]
    BY <1>j, <2>2
  <2> QED BY <2>1, <2>3 DEF TypeOK, Contents, Jobs
<1>8. CASE Swap \/ Save
  <2>1. Recorded \in [previous : Colors \cup {"none"}, active : Colors \cup {"none"}, last : 0..MaxSnapshots]
    BY <1>j DEF Recorded, TypeOK
  <2>2. unrecorded' \subseteq 0..MaxSnapshots
    BY <1>8 DEF Swap, Save, TypeOK
  <2> QED BY <1>8, <1>b, <1>j, <2>1, <2>2 DEF Swap, Save, Exit, serving, bounds, TypeOK, Jobs, Contents
<1>9. CASE CloneProbe \/ CopyPrevFails \/ CloneFails
  <2>1. /\ UNCHANGED <<snapshot, db, pointer, mover, undone, unrecorded, unfit, state, stamped, job, manuals,
                       rollbacks, crashes>>
        /\ pc' \in {"dropPrev", "dropCanonical", "restore"} /\ failures' \in 0..MaxFailures
    BY <1>9, <1>b DEF CloneProbe, CopyPrevFails, CloneFails, Fail, Statement, serving, bounds, TypeOK
  <2> QED BY <2>1 DEF TypeOK, Contents
<1>10. CASE Rollback
  <2>1. undone' \in 0..MaxSnapshots
    BY <1>10 DEF Rollback, TypeOK, Contents, Databases
  <2> QED BY <1>10, <1>b, <2>1 DEF Rollback, TypeOK, Contents
<1> QED BY <1>1, <1>2, <1>3, <1>4, <1>5, <1>6, <1>7, <1>8, <1>9, <1>10, <1>11 DEF Next, Publish, Canonicalise

\* Type correctness.
THEOREM TypeCorrect == ASSUME Bounds PROVE Spec => []TypeOK
<1>1. Init => TypeOK
  BY TypeInit
<1>2. TypeOK /\ [Next]_vars => TypeOK'
  BY TypeStep
<1>3. Spec => Init /\ [][Next]_vars
  BY DEF Spec
<1> QED BY <1>1, <1>2, <1>3, PTL
=============================================================================
