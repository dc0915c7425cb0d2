---------------------------- MODULE ProgressProofs ----------------------------
(***************************************************************************)
(* Proofs about the jobs of MC_Progress: InboxLoader for any batches,      *)
(* directories, tables and number of faults, and the three together.       *)
(***************************************************************************)
EXTENDS MC_Progress, WellFoundedInduction, SequenceTheorems, TLAPS

\* The batches the loader has taken in.
Left == (1 .. exported) \ (inbox \cup Broken)

\* What is left of a listing is in the inbox and in the directory of the hour.
ListingIsQueued ==
  /\ files \subseteq inbox
  /\ pc \in {"insert", "archive"} => files # {}
  /\ pc \in {"idle", "scan", "post"} => files = {}
  /\ \A b \in files : DirOf[b] = Dirs[dir]

\* Between the commit and the move of the file its rows are what the table has.
CommittedIsThere ==
  pc = "archive" =>
    \A k \in KeysOf[Current] :
      /\ rows[Dest][k] # 0
      /\ Dest \in Upserted => rows[Dest][k] = Current

\* What a running drain has passed over in its directory has failed.
PassedOverFailed ==
  pc \in {"load", "insert", "archive"} =>
    \A c \in inbox \ files, f \in files : DirOf[c] = Dirs[dir] /\ c < f => c \in late

\* What stays in the inbox while a later export of its directory left it has
\* failed in some run: a death alone lets nothing overtake.
OvertakenFailed ==
  \A c \in inbox, b \in Left : DirOf[c] = DirOf[b] /\ c < b => c \in late

InboxInv ==
  /\ TypeOK
  /\ ListingIsQueued /\ CommittedIsThere
  /\ PassedOverFailed /\ OvertakenFailed
  /\ LeavesOnlyLanded /\ OnlyStragglersRegress

-----------------------------------------------------------------------------
(* The inbox loader.                                                       *)

\* A set of numbers that is not empty has a least.
LEMMA MinOfNats ==
  ASSUME NEW Few \in SUBSET Nat, Few # {}
  PROVE  Min(Few) \in Few /\ \A y \in Few : Min(Few) <= y
<1>1. PICK x \in Few : \A y \in Few : <<y, x>> \notin OpToRel(<, Nat)
  BY NatLessThanWellFounded, WFMin, Zenon
<1>2. \A y \in Few : x <= y
  <2> SUFFICES ASSUME NEW y \in Few, y < x PROVE FALSE
    BY SMT
  <2>1. <<y, x>> \in OpToRel(<, Nat)
    BY Zenon DEF OpToRel
  <2> QED BY <1>1, <2>1, Zenon
<1> QED BY <1>2, Zenon DEF Min

\* The file in hand, while there is one.
LEMMA CurrentFile ==
  ASSUME TypeOK, ListingIsQueued, files # {}
  PROVE  /\ Current \in files /\ Current \in inbox /\ Current \in Batch /\ Current \in 1 .. exported
         /\ \A f \in files : Current <= f
         /\ DirOf[Current] = Dirs[dir] /\ Dest \in Table /\ TableOfBatch(Current) = Dest
<1>1. files \subseteq Nat /\ Batches \in Nat /\ exported \in Nat
  BY BatchesAssumption DEF TypeOK, Batch
<1>2. Current \in files /\ \A f \in files : Current <= f
  BY <1>1, MinOfNats DEF Current
<1>3. Current \in inbox /\ Current \in Batch /\ Current \in 1 .. exported /\ DirOf[Current] = Dirs[dir]
  BY <1>2 DEF TypeOK, ListingIsQueued
<1>4. Dirs[dir] \in Range(Dirs)
  BY DEF TypeOK, Range
<1>5. Dest \in Table
  BY <1>4, DirsAssumption DEF Dest
<1> QED BY <1>2, <1>3, <1>5 DEF TableOfBatch, Dest

LEMMA InboxInit == Init => InboxInv
<1> SUFFICES ASSUME Init PROVE InboxInv
  OBVIOUS
<1>1. 1 \in DOMAIN Dirs
  <2>1. Len(Dirs) \in Nat /\ Len(Dirs) # 0 /\ DOMAIN Dirs = 1 .. Len(Dirs)
    BY DirsAssumption, EmptySeq, LenProperties
  <2> QED BY <2>1
<1>2. TypeOK
  <2>1. exported \in 0 .. Batches /\ faults \in 0 .. MaxFaults
    BY BatchesAssumption, FaultsAssumption DEF Init
  <2>2. /\ shape \in [Table -> {"none", "narrow", "wide"}]
        /\ rows \in [Table -> [Key -> {0} \cup Batch]]
    BY DEF Init
  <2>3. /\ inbox = {} /\ filled = {} /\ files = {} /\ late = {} /\ pc = "idle" /\ dir = 1
        /\ failed \in BOOLEAN
    BY DEF Init
  <2> QED BY <1>1, <2>1, <2>2, <2>3 DEF TypeOK
<1>3. Left = {} /\ 1 .. exported = {}
  BY DEF Init, Left
<1> QED BY <1>2, <1>3 DEF Init, InboxInv, ListingIsQueued, CommittedIsThere, PassedOverFailed,
        OvertakenFailed, Left, LeavesOnlyLanded, OnlyStragglersRegress

\* What the other lemmas take from the invariant and the assumptions.
LEMMA InboxFacts ==
  ASSUME InboxInv
  PROVE  /\ Batches \in Nat /\ MaxFaults \in Nat /\ exported \in 0 .. Batches
         /\ Batch \subseteq Nat \ {0} /\ inbox \subseteq Batch /\ files \subseteq inbox
         /\ \A b \in Batch : KeysOf[b] \subseteq Key /\ DirOf[b] \in Range(Dirs)
                             /\ TableOfBatch(b) \in Table
BY BatchesAssumption, FaultsAssumption, DirsAssumption, DirOfAssumption
   DEF InboxInv, TypeOK, ListingIsQueued, Batch, TableOfBatch


\* Steps that neither read nor write the tables: between the runs, at their
\* ends and at the listing of a directory.
LEMMA InboxAround ==
  ASSUME InboxInv,
         \/ Export \/ StartRun \/ ListDir \/ Validate \/ DirDone \/ EndRun \/ Kill
         \/ UNCHANGED vars
         \/ \E b \in Batch : Withdraw(b)
         \/ \E t \in Table : Migrate(t)
  PROVE  InboxInv'
<1>t. /\ Batches \in Nat /\ MaxFaults \in Nat /\ exported \in 0 .. Batches
      /\ Batch \subseteq Nat \ {0} /\ inbox \subseteq Batch /\ files \subseteq inbox
      /\ Dirs \in Seq(DOMAIN TableOf) /\ DOMAIN Dirs = 1 .. Len(Dirs) /\ Len(Dirs) \in Nat
      /\ TypeOK /\ ListingIsQueued
  BY InboxFacts, DirsAssumption, LenProperties DEF InboxInv
<1>1. /\ exported' \in 0 .. Batches /\ exported' >= exported
      /\ rows' = rows /\ late' = late
      /\ \A b \in inbox' : b \in inbox \/ b \in (exported + 1) .. exported'
      /\ \A b \in 1 .. exported' : b \notin inbox' => b \in Broken \/ (b \in 1 .. exported /\ b \notin inbox)
  <2>1. CASE Export
    BY <1>t, <2>1 DEF Export, warehouse
  <2>2. CASE \E b \in Batch : Withdraw(b)
    BY <1>t, <2>2 DEF Withdraw, warehouse
  <2>3. CASE \E t \in Table : Migrate(t)
    BY <1>t, <2>3 DEF Migrate
  <2>4. CASE UNCHANGED vars
    BY <1>t, <2>4 DEF vars, warehouse
  <2>5. CASE StartRun \/ ListDir \/ Validate \/ DirDone \/ EndRun \/ Kill
    BY <1>t, <2>5 DEF StartRun, ListDir, Validate, DirDone, EndRun, Kill, warehouse
  <2> QED BY <2>1, <2>2, <2>3, <2>4, <2>5
<1>2. Left' \subseteq Left
  BY <1>1, <1>t DEF Left
<1>3. LeavesOnlyLanded' /\ OnlyStragglersRegress'
  BY <1>1, <1>2 DEF InboxInv, LeavesOnlyLanded, OnlyStragglersRegress, Left, TableOfBatch
<1>4. OvertakenFailed'
  <2> SUFFICES ASSUME NEW c \in inbox', NEW b \in Left', DirOf[c] = DirOf[b], c < b
               PROVE  c \in late
    BY <1>1 DEF OvertakenFailed
  <2>1. b \in Left /\ b \in 1 .. exported
    BY <1>2 DEF Left
  <2>2. c \in inbox
    BY <1>1, <1>t, <2>1
  <2> QED BY <2>1, <2>2 DEF InboxInv, OvertakenFailed
<1>5. TypeOK' /\ ListingIsQueued' /\ CommittedIsThere' /\ PassedOverFailed'
  <2>1. CASE UNCHANGED vars
    BY <2>1 DEF vars, warehouse, loader, InboxInv, TypeOK, ListingIsQueued, CommittedIsThere,
       PassedOverFailed, Current, Dest
  <2>2. CASE Export
    <3>1. /\ exported' = exported + 1 /\ inbox' = inbox \cup {exported + 1} /\ exported < Batches
          /\ UNCHANGED <<shape, rows, filled, pc, dir, files, failed, late, faults>>
      BY <2>2 DEF Export, warehouse, loader
    <3>2. TypeOK'
      BY <1>t, <3>1 DEF TypeOK
    <3>3. ListingIsQueued' /\ CommittedIsThere'
      BY <3>1 DEF InboxInv, ListingIsQueued, CommittedIsThere, Current, Dest
    <3>4. PassedOverFailed'
      <4>1. \A f \in files : f \in 1 .. exported
        BY <1>t DEF TypeOK
      <4> QED BY <1>t, <3>1, <4>1 DEF InboxInv, PassedOverFailed
    <3> QED BY <3>2, <3>3, <3>4
  <2>3. CASE (\E b \in Batch : Withdraw(b)) \/ (\E t \in Table : Migrate(t)) \/ StartRun
    <3>1. /\ exported' = exported /\ inbox' \subseteq inbox /\ files' = files /\ rows' = rows
          /\ shape' \in [Table -> {"none", "narrow", "wide"}]
          /\ pc = "idle" /\ pc' \in {"idle", "scan"} /\ dir' \in {1, dir} /\ failed' \in BOOLEAN
          /\ UNCHANGED <<filled, late, faults>>
      <4>1. CASE \E b \in Batch : Withdraw(b)
        BY <1>t, <4>1 DEF Withdraw, warehouse, loader, TypeOK
      <4>2. CASE \E t \in Table : Migrate(t)
        BY <1>t, <4>2 DEF Migrate, loader, TypeOK
      <4>3. CASE StartRun
        BY <1>t, <4>3 DEF StartRun, warehouse, TypeOK
      <4> QED BY <2>3, <4>1, <4>2, <4>3
    <3>2. files = {}
      BY <1>t, <3>1 DEF ListingIsQueued
    <3>3. 1 \in DOMAIN Dirs
      BY <1>t DEF TypeOK
    <3>4. TypeOK'
      BY <1>t, <3>1, <3>3 DEF TypeOK
    <3> QED BY <3>1, <3>2, <3>4 DEF ListingIsQueued, CommittedIsThere, PassedOverFailed
  <2>4. CASE ListDir
    <3>1. /\ UNCHANGED <<exported, inbox, shape, rows, filled, dir, failed, late, faults>>
          /\ pc' = "load" /\ files' = {b \in inbox : DirOf[b] = Dirs[dir]}
      BY <2>4 DEF ListDir, warehouse
    <3> QED BY <1>t, <3>1 DEF TypeOK, ListingIsQueued, CommittedIsThere, PassedOverFailed
  <2>5. CASE Validate
    <3>1. /\ UNCHANGED <<exported, inbox, rows, filled, dir, files, failed, late, faults>>
          /\ pc = "load" /\ pc' = "insert" /\ files # {}
          /\ shape' \in [Table -> {"none", "narrow", "wide"}]
      BY <1>t, <2>5 DEF Validate, TypeOK
    <3> QED BY <1>t, <3>1 DEF InboxInv, TypeOK, ListingIsQueued, CommittedIsThere, PassedOverFailed
  <2>6. CASE DirDone
    <3>1. /\ UNCHANGED <<exported, inbox, shape, rows, filled, files, failed, late, faults>>
          /\ files = {} /\ pc' \in {"scan", "post"} /\ dir' \in DOMAIN Dirs
      BY <1>t, <2>6 DEF DirDone, warehouse, TypeOK
    <3> QED BY <1>t, <3>1 DEF TypeOK, ListingIsQueued, CommittedIsThere, PassedOverFailed
  <2>7. CASE EndRun \/ Kill
    <3>1. /\ UNCHANGED <<exported, inbox, shape, rows, dir, failed, late>>
          /\ pc' = "idle" /\ files' = {} /\ filled' \subseteq Key /\ faults' \in 0 .. MaxFaults
      <4>1. CASE EndRun
        BY <1>t, <4>1 DEF EndRun, TypeOK, ListingIsQueued
      <4>2. CASE Kill
        BY <1>t, <4>2 DEF Kill, Fault, warehouse, TypeOK
      <4> QED BY <2>7, <4>1, <4>2
    <3> QED BY <1>t, <3>1 DEF TypeOK, ListingIsQueued, CommittedIsThere, PassedOverFailed
  <2> QED BY <2>1, <2>2, <2>3, <2>4, <2>5, <2>6, <2>7
<1> QED BY <1>3, <1>4, <1>5 DEF InboxInv

\* A file that fails stays, and the batches after it are free to overtake it.
LEMMA InboxReject ==
  ASSUME InboxInv, RejectMismatch \/ FileFails
  PROVE  InboxInv'
<1>1. /\ UNCHANGED <<exported, inbox, shape, rows, filled, dir>> /\ files # {}
      /\ pc \in {"load", "insert", "archive"}
      /\ pc' = "load" /\ failed' = TRUE
      /\ late' = late \cup {Current} /\ files' = files \ {Current}
  BY DEF RejectMismatch, FileFails, Reject
<1>2. /\ Current \in files /\ Current \in Batch /\ files \subseteq inbox
  BY <1>1, CurrentFile DEF InboxInv, ListingIsQueued
<1>3. faults' \in 0 .. MaxFaults
  BY InboxFacts DEF RejectMismatch, FileFails, Fault, InboxInv, TypeOK
<1>4. TypeOK'
  <2>1. failed' \in BOOLEAN
    BY <1>1
  <2> QED BY <1>1, <1>2, <1>3, <2>1 DEF InboxInv, TypeOK
<1>5. ListingIsQueued' /\ CommittedIsThere'
  BY <1>1 DEF InboxInv, ListingIsQueued, CommittedIsThere
<1>6. PassedOverFailed' /\ OvertakenFailed'
  BY <1>1 DEF InboxInv, PassedOverFailed, OvertakenFailed, Left
<1>7. LeavesOnlyLanded' /\ OnlyStragglersRegress'
  BY <1>1 DEF InboxInv, LeavesOnlyLanded, OnlyStragglersRegress, TableOfBatch
<1> QED BY <1>4, <1>5, <1>6, <1>7 DEF InboxInv

\* The commit: no row it writes hides a later export that is in, but for a
\* straggler's.
LEMMA InboxInsert ==
  ASSUME InboxInv, Insert
  PROVE  InboxInv'
<1> DEFINE written == {k \in KeysOf[Current] : Overwrites(Dest, k)}
<1>1. /\ UNCHANGED <<exported, inbox, shape, dir, files, failed, late, faults>>
      /\ pc = "insert" /\ pc' = "archive"
      /\ rows' = [rows EXCEPT ![Dest] = [k \in Key |-> IF k \in written THEN Current ELSE @[k]]]
      /\ filled' \subseteq filled
  BY DEF Insert
<1>2. /\ TypeOK /\ ListingIsQueued /\ files # {}
      /\ Current \in files /\ Current \in inbox /\ Current \in Batch
      /\ Dest \in Table /\ TableOfBatch(Current) = Dest
      /\ KeysOf[Current] \subseteq Key /\ Batch \subseteq Nat \ {0}
  BY <1>1, CurrentFile, InboxFacts DEF InboxInv, ListingIsQueued
<1>3. /\ \A t \in Table : t # Dest => rows'[t] = rows[t]
      /\ \A k \in Key : rows'[Dest][k] = IF k \in written THEN Current ELSE rows[Dest][k]
      /\ rows' \in [Table -> [Key -> {0} \cup Batch]]
  BY <1>1, <1>2 DEF TypeOK
<1>4. /\ \A k \in Key : rows[Dest][k] # 0 => rows'[Dest][k] # 0
      /\ \A k \in KeysOf[Current] : rows'[Dest][k] # 0
      /\ Dest \in Upserted => \A k \in KeysOf[Current] : rows'[Dest][k] = Current
  BY <1>2, <1>3 DEF Overwrites
<1>5. TypeOK'
  BY <1>1, <1>2, <1>3 DEF TypeOK
<1>6. ListingIsQueued' /\ CommittedIsThere' /\ PassedOverFailed' /\ OvertakenFailed'
  BY <1>1, <1>2, <1>4 DEF InboxInv, ListingIsQueued, CommittedIsThere, PassedOverFailed, OvertakenFailed,
     Left, Current, Dest
<1>7. ASSUME NEW b \in (1 .. exported) \ (inbox \cup Broken), NEW k \in KeysOf[b]
      PROVE  /\ rows'[TableOfBatch(b)][k] # 0
             /\ TableOfBatch(b) \in Upserted /\ rows'[TableOfBatch(b)][k] \in 1 .. b - 1 =>
                  \/ rows'[TableOfBatch(b)][k] \in late
                  \/ DirOf[rows'[TableOfBatch(b)][k]] # DirOf[b]
  <2>1. b \in Batch /\ k \in Key /\ TableOfBatch(b) \in Table
    BY InboxFacts DEF Batch
  <2>2. /\ rows[TableOfBatch(b)][k] # 0
        /\ TableOfBatch(b) \in Upserted /\ rows[TableOfBatch(b)][k] \in 1 .. b - 1 =>
             \/ rows[TableOfBatch(b)][k] \in late
             \/ DirOf[rows[TableOfBatch(b)][k]] # DirOf[b]
    BY DEF InboxInv, LeavesOnlyLanded, OnlyStragglersRegress
  <2>3. Current < b => Current \in late \/ DirOf[Current] # DirOf[b]
    BY <1>2 DEF InboxInv, OvertakenFailed, Left
  <2> QED BY <1>2, <1>3, <1>4, <2>1, <2>2, <2>3
<1>8. LeavesOnlyLanded' /\ OnlyStragglersRegress'
  BY <1>1, <1>7 DEF LeavesOnlyLanded, OnlyStragglersRegress, TableOfBatch
<1> QED BY <1>5, <1>6, <1>8 DEF InboxInv

\* The move of the file: its rows are in, and what stays before it has failed.
LEMMA InboxArchive ==
  ASSUME InboxInv, Archive
  PROVE  InboxInv'
<1>1. /\ UNCHANGED <<exported, shape, rows, filled, dir, failed, late, faults>>
      /\ pc = "archive" /\ pc' = "load"
      /\ inbox' = inbox \ {Current} /\ files' = files \ {Current}
  BY DEF Archive, warehouse
<1>2. /\ TypeOK /\ ListingIsQueued /\ files # {}
      /\ Current \in files /\ Current \in inbox /\ \A f \in files : Current <= f
      /\ DirOf[Current] = Dirs[dir] /\ TableOfBatch(Current) = Dest
      /\ Batch \subseteq Nat \ {0} /\ inbox \subseteq Batch
  BY <1>1, CurrentFile, InboxFacts DEF InboxInv, ListingIsQueued
<1>3. TypeOK'
  BY <1>1, <1>2 DEF TypeOK
<1>4. ListingIsQueued' /\ CommittedIsThere'
  BY <1>1, <1>2 DEF ListingIsQueued, CommittedIsThere
<1>5. PassedOverFailed'
  BY <1>1, <1>2 DEF InboxInv, PassedOverFailed
<1>6. Left' \subseteq Left \cup {Current}
  BY <1>1 DEF Left
<1>7. OvertakenFailed'
  <2> SUFFICES ASSUME NEW c \in inbox', NEW b \in Left', DirOf[c] = DirOf[b], c < b
               PROVE  c \in late
    BY <1>1 DEF OvertakenFailed
  <2>1. c \in inbox /\ c # Current
    BY <1>1
  <2>2. CASE b = Current
    <3>1. c \notin files
      <4>1. c \in Nat /\ Current \in Nat /\ c < Current
        BY <1>2, <2>1, <2>2
      <4> QED BY <1>2, <4>1
    <3> QED BY <1>1, <1>2, <2>1, <2>2, <3>1 DEF InboxInv, PassedOverFailed
  <2>3. CASE b \in Left
    BY <2>1, <2>3 DEF InboxInv, OvertakenFailed
  <2> QED BY <1>6, <2>2, <2>3
<1>8. LeavesOnlyLanded' /\ OnlyStragglersRegress'
  <2>1. \A k \in KeysOf[Current] : /\ rows[TableOfBatch(Current)][k] # 0
                                   /\ TableOfBatch(Current) \in Upserted =>
                                        rows[TableOfBatch(Current)][k] \notin 1 .. Current - 1
    BY <1>1, <1>2 DEF InboxInv, CommittedIsThere
  <2> QED BY <1>1, <1>6, <2>1 DEF InboxInv, LeavesOnlyLanded, OnlyStragglersRegress, Left, TableOfBatch
<1> QED BY <1>3, <1>4, <1>5, <1>7, <1>8 DEF InboxInv

LEMMA InboxStep == InboxInv /\ [Next]_vars => InboxInv'
BY InboxAround, InboxReject, InboxInsert, InboxArchive DEF Next, Drain

-----------------------------------------------------------------------------
(* The publish and the schema lanes, as MC_Progress instantiates them.     *)

P == INSTANCE MdWritePathProofs WITH
  MaxSnapshots <- 2, MaxFailures <- 1, MaxCrashes <- 1, MaxManual <- 1, MaxRollbacks <- 2,
  snapshot <- mdSnapshot, db <- mdDb, pointer <- mdPointer, state <- mdState,
  stamped <- mdStamped, pc <- mdPc, job <- mdJob, mover <- mdMover, undone <- mdUndone,
  unrecorded <- mdUnrecorded, unfit <- mdUnfit,
  manuals <- mdManuals, rollbacks <- mdRollbacks, failures <- mdFailures,
  crashes <- mdCrashes

Q == INSTANCE SchemaApplyProofs WITH
  MaxRows <- 1, MaxFaults <- 2, Ddl <- {first, edited}, Name <- {"7_a.sql"},
  Version <- {7}, NameOf <- [d \in {first, edited} |-> "7_a.sql"],
  NumberOf <- [n \in {"7_a.sql"} |-> 7], Landmine <- {}, NoDdl <- NoDdl, NoName <- NoName,
  queue <- ddlQueue, ledger <- ddlLedger, main <- ddlMain, merged <- ddlMerged,
  box <- ddlBox, recorded <- ddlRecorded, effects <- ddlEffects, served <- ddlServed,
  flock <- ddlFlock, now <- ddlNow, claimed <- ddlClaimed, outcome <- ddlOutcome,
  fresh <- ddlFresh, applied <- ddlApplied, review <- ddlReview, night <- ddlNight,
  todo <- ddlTodo, faults <- ddlFaults

\* P and M are instances of the same definitions.
LEMMA SamePublish == /\ M!Init => P!Init
                     /\ M!Next => P!Next
<1>1. M!Init => P!Init
  BY DEF M!Init, P!Init, M!Databases, P!Databases, M!Colors, P!Colors, M!Canonical, P!Canonical,
       M!Previous, P!Previous, M!Absent, P!Absent, M!NoJob, P!NoJob
<1>2. M!Next => P!Next
  BY DEF M!Colors, P!Colors, M!Canonical, P!Canonical, M!Previous, P!Previous, M!Flags, P!Flags,
       M!Absent, P!Absent, M!NoJob, P!NoJob, M!bounds, P!bounds, M!serving, P!serving, M!Promote,
       P!Promote, M!NewDay, P!NewDay, M!Expire, P!Expire, M!Start, P!Start, M!Cron, P!Cron, M!Operator, P!Operator,
       M!Exit, P!Exit, M!Fail, P!Fail, M!Other, P!Other, M!Published, P!Published, M!GateRefuses,
       P!GateRefuses, M!GatePasses, P!GatePasses, M!DropTarget, P!DropTarget, M!Validates,
       P!Validates, M!BuildFails, P!BuildFails, M!Recorded, P!Recorded, M!Swap, P!Swap, M!Save,
       P!Save, M!Unrecorded, P!Unrecorded, M!SaveFails, P!SaveFails, M!Statement, P!Statement, M!Drop, P!Drop, M!CloneProbe, P!CloneProbe, M!DropPrev,
       P!DropPrev, M!CopyPrev, P!CopyPrev, M!DropCanonical, P!DropCanonical, M!CopyPrevFails,
       P!CopyPrevFails, M!Clone, P!Clone, M!CloneFails, P!CloneFails, M!Restore, P!Restore,
       M!StatementRaises, P!StatementRaises, M!Canonicalise, P!Canonicalise, M!Rollback,
       P!Rollback, M!Crash, P!Crash, M!Publish, P!Publish, M!Next, P!Next
<1> QED BY <1>1, <1>2

\* So are Q and S.
LEMMA SameLanes == /\ S!Init => Q!Init
                   /\ S!Next => Q!Next
                   /\ Q!TypeOK => S!TypeOK
<1>1. S!Init => Q!Init
  BY DEF S!Init, Q!Init
<1>2. S!Next => Q!Next
  BY DEF S!postgres, Q!postgres, S!git, Q!git, S!warehouse, Q!warehouse, S!batch, Q!batch,
       S!nightly, Q!nightly, S!VersionOf, Q!VersionOf, S!InFlight, Q!InFlight, S!Fault, Q!Fault,
       S!SetStatus, Q!SetStatus, S!RecordPass, Q!RecordPass, S!Enqueue, Q!Enqueue, S!MergePr,
       Q!MergePr, S!Pull, Q!Pull, S!Age, Q!Age, S!ApplyNow, Q!ApplyNow, S!Oldest, Q!Oldest,
       S!Claim, Q!Claim, S!ClaimFails, Q!ClaimFails, S!ClaimDone, Q!ClaimDone, S!TakeFlock,
       Q!TakeFlock, S!GiveUp, Q!GiveUp, S!Subject, Q!Subject, S!Check, Q!Check, S!CheckFails,
       Q!CheckFails, S!Run, Q!Run, S!Execute, Q!Execute, S!ExecuteFails, Q!ExecuteFails,
       S!Verify, Q!Verify, S!NextRow, Q!NextRow, S!Finish, Q!Finish, S!FinishFails,
       Q!FinishFails, S!Release, Q!Release, S!PromoteNow, Q!PromoteNow, S!ReviewClaim,
       Q!ReviewClaim, S!ReviewDone, Q!ReviewDone, S!Crash, Q!Crash, S!SetupDb, Q!SetupDb,
       S!NextFile, Q!NextFile, S!SkipFile, Q!SkipFile, S!RunFile, Q!RunFile, S!RunFileFails,
       Q!RunFileFails, S!SetupDone, Q!SetupDone, S!PromoteNightly, Q!PromoteNightly, S!Writers,
       Q!Writers, S!Claiming, Q!Claiming, S!Applying, Q!Applying, S!Finishing, Q!Finishing,
       S!Reviewing, Q!Reviewing, S!Nightly, Q!Nightly, S!Next, Q!Next, S!Range, Q!Range
<1>3. Q!TypeOK => S!TypeOK
  BY DEF S!nightly, Q!nightly, S!Terminal, Q!Terminal, S!InFlight, Q!InFlight, S!Row, Q!Row,
       S!TypeOK, Q!TypeOK, S!Range, Q!Range
<1> QED BY <1>1, <1>2, <1>3

\* The constants of both instances are ones their proofs allow.
LEMMA Constants == /\ P!Bounds
                   /\ Q!NameOfAssumption /\ Q!NoDdlAssumption /\ Q!LandmineAssumption /\ Q!BoundsAssumption
BY NoDdlIsNone DEF P!Bounds, Q!NameOfAssumption, Q!NoDdlAssumption, Q!LandmineAssumption, Q!BoundsAssumption

JobsInv == InboxInv /\ P!IInv /\ P!TypeOK /\ Q!IInv

LEMMA JobsInitInv == JobsInit => JobsInv
<1> SUFFICES ASSUME JobsInit PROVE JobsInv
  OBVIOUS
<1>1. Init /\ P!Init /\ Q!Init
  BY SamePublish, SameLanes DEF JobsInit
<1>2. InboxInv
  BY <1>1, InboxInit
<1>3. P!IInv /\ P!TypeOK
  BY <1>1, Constants, P!InitIInv, P!TypeInit
<1>4. Q!IInv
  BY <1>1, Constants, Q!InitIInv
<1> QED BY <1>2, <1>3, <1>4 DEF JobsInv

LEMMA JobsStepInv == JobsInv /\ [JobsNext]_jobsVars => JobsInv'
<1> SUFFICES ASSUME JobsInv, [JobsNext]_jobsVars PROVE JobsInv'
  OBVIOUS
<1>1. [Next]_vars /\ [P!Next]_(P!vars) /\ [Q!Next]_(Q!vars)
  BY SamePublish, SameLanes
     DEF JobsNext, jobsVars, mdVars, ddlVars, P!vars, P!serving, P!bounds, Q!vars, Q!postgres,
         Q!git, Q!warehouse, Q!batch, Q!nightly
<1>2. InboxInv'
  BY <1>1, InboxStep DEF JobsInv
<1>3. P!IInv' /\ P!TypeOK'
  BY <1>1, Constants, P!IInvStep, P!TypeStep DEF JobsInv
<1>4. Q!IInv'
  BY <1>1, Constants, Q!IInvStep DEF JobsInv
<1> QED BY <1>2, <1>3, <1>4 DEF JobsInv

\* The invariants of the three jobs, whichever of them a behaviour runs.
THEOREM JobsInvariance == JobsSpec => []JobsInv
<1>1. JobsSpec => JobsInit /\ [][JobsNext]_jobsVars
  BY PTL DEF JobsSpec
<1> QED BY <1>1, JobsInitInv, JobsStepInv, PTL

\* Every variable of the jobs keeps its type.
THEOREM JobsTypes == JobsSpec => []TypesOK
<1>1. P!TypeOK => M!TypeOK
  BY DEF P!TypeOK, M!TypeOK, P!Contents, M!Contents, P!Databases, M!Databases, P!Colors, M!Colors,
       P!Canonical, M!Canonical, P!Previous, M!Previous, P!Flags, M!Flags
<1>2. JobsInv => TypesOK
  BY <1>1, SameLanes DEF JobsInv, InboxInv, Q!IInv, TypesOK
<1> QED BY <1>2, JobsInvariance, PTL

\* inbox_loader.py, for any batches, directories, modes and number of faults: a
\* file leaves the inbox with its rows in its table, and an upserted row shows
\* the newest export but for the stragglers of failed runs.
THEOREM BatchesArriveInOrder == JobsSpec => []BatchesKeepOrder
<1>1. JobsInv => BatchesKeepOrder
  BY DEF JobsInv, InboxInv, BatchesKeepOrder
<1> QED BY <1>1, JobsInvariance, PTL

\* md_write_path.py: readers are on a validated copy whatever a later publish
\* does or dies of, the state file claims only what they were given, a rollback
\* has somewhere to go, and no single failing statement costs the canonical name.
THEOREM ReadersKeepTheirCopy == JobsSpec => []ReadersKeepAWholeCopy
<1>1. P!IInv => /\ P!PublishedIsWhole /\ P!RecordedWasServed
                /\ P!RollbackHasTarget /\ P!CanonicalSurvivesOneFailure
  BY P!IInvHolds
<1>2. JobsInv => ReadersKeepAWholeCopy
  BY <1>1
     DEF JobsInv, ReadersKeepAWholeCopy, P!PublishedIsWhole, M!PublishedIsWhole, P!RecordedWasServed,
         M!RecordedWasServed, P!RollbackHasTarget, M!RollbackHasTarget, P!CanonicalStage,
         M!CanonicalStage, P!CanonicalSurvivesOneFailure, M!CanonicalSurvivesOneFailure,
         P!Canonical, M!Canonical, P!Absent, M!Absent
<1> QED BY <1>2, JobsInvariance, PTL

\* md_write_path.py: no publish that nobody forced serves again the snapshot a
\* rollback took readers off, unless a publish of it ended between the flip and
\* the record, so that the gate has never heard of it.
THEOREM RollbacksAreKept == JobsSpec => RollbackSticks
<1>1. JobsInv /\ [JobsNext]_jobsVars =>
        [mdUndone # 0 /\ mdMover' = "publish" =>
           mdJob.snap # mdUndone \/ "force" \in mdJob.flags \/ mdUndone \in mdUnrecorded]_(M!vars)
  <2> SUFFICES ASSUME JobsInv, [JobsNext]_jobsVars, mdUndone # 0, mdMover' = "publish"
               PROVE  mdJob.snap # mdUndone \/ "force" \in mdJob.flags \/ mdUndone \in mdUnrecorded
    OBVIOUS
  <2>1. [P!Next]_(P!vars)
    BY SamePublish DEF JobsNext, jobsVars, mdVars, P!vars, P!serving, P!bounds
  <2> QED BY <2>1, P!StepSticks DEF JobsInv
<1>2. JobsSpec => [][JobsNext]_jobsVars
  BY PTL DEF JobsSpec
<1> QED BY <1>1, <1>2, JobsInvariance, PTL DEF RollbackSticks, M!RollbackSticks
============================================================
