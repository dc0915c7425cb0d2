----------------------------- MODULE MC_Progress -----------------------------
(* What has to arrive: a batch in its table, a snapshot at the readers of  *)
(* MotherDuck, an approved DDL in the live database.  The three jobs share *)
(* no state their modules keep, so one behaviour runs one of them, the one *)
(* job names.                                                              *)
EXTENDS InboxLoader

CONSTANTS first, edited, NoDdl, NoName     \* two contents of one DDL file

ASSUME NoDdlIsNone == NoDdl \notin {first, edited} /\ NoName # "7_a.sql"

\* Three exports of campaign k1 by two directories, one of them with a column
\* of its own, a broken batch and one that repeats a reply.
MCDirs == <<"campaigns", "raw_pipeline_campaigns", "reply_data">>
MCTableOf == [d \in Range(MCDirs) |-> IF d = "reply_data" THEN "reply_data" ELSE "campaigns"]
MCDirOf == <<"campaigns", "reply_data", "campaigns", "raw_pipeline_campaigns", "reply_data">>
MCKeysOf == <<{"k1", "k2"}, {"k1"}, {"k1"}, {"k1"}, {"k1", "k2"}>>

VARIABLES
  job,
  mdSnapshot, mdDb, mdPointer, mdState, mdStamped, mdPc, mdJob, mdMover, mdUndone,
  mdUnrecorded, mdUnfit,
  mdManuals, mdRollbacks, mdFailures, mdCrashes,
  ddlQueue, ddlLedger, ddlMain, ddlMerged, ddlBox, ddlRecorded, ddlEffects, ddlServed,
  ddlFlock, ddlNow, ddlClaimed, ddlOutcome, ddlFresh, ddlApplied, ddlReview, ddlNight,
  ddlTodo, ddlFaults

M == INSTANCE MdWritePath WITH
  MaxSnapshots <- 2, MaxFailures <- 1, MaxCrashes <- 1, MaxManual <- 1, MaxRollbacks <- 2,
  snapshot <- mdSnapshot, db <- mdDb, pointer <- mdPointer, state <- mdState,
  stamped <- mdStamped, pc <- mdPc, job <- mdJob, mover <- mdMover, undone <- mdUndone,
  unrecorded <- mdUnrecorded, unfit <- mdUnfit,
  manuals <- mdManuals, rollbacks <- mdRollbacks, failures <- mdFailures,
  crashes <- mdCrashes

S == INSTANCE SchemaApply WITH
  MaxRows <- 1, MaxFaults <- 2, Ddl <- {first, edited}, Name <- {"7_a.sql"},
  Version <- {7}, NameOf <- [d \in {first, edited} |-> "7_a.sql"],
  NumberOf <- [n \in {"7_a.sql"} |-> 7], Landmine <- {}, NoDdl <- NoDdl, NoName <- NoName,
  queue <- ddlQueue, ledger <- ddlLedger, main <- ddlMain, merged <- ddlMerged,
  box <- ddlBox, recorded <- ddlRecorded, effects <- ddlEffects, served <- ddlServed,
  flock <- ddlFlock, now <- ddlNow, claimed <- ddlClaimed, outcome <- ddlOutcome,
  fresh <- ddlFresh, applied <- ddlApplied, review <- ddlReview, night <- ddlNight,
  todo <- ddlTodo, faults <- ddlFaults

mdVars == <<
  mdSnapshot, mdDb, mdPointer, mdState, mdStamped, mdPc, mdJob, mdMover, mdUndone,
  mdUnrecorded, mdUnfit,
  mdManuals, mdRollbacks, mdFailures, mdCrashes>>
ddlVars == <<
  ddlQueue, ddlLedger, ddlMain, ddlMerged, ddlBox, ddlRecorded, ddlEffects, ddlServed,
  ddlFlock, ddlNow, ddlClaimed, ddlOutcome, ddlFresh, ddlApplied, ddlReview, ddlNight,
  ddlTodo, ddlFaults>>
jobsVars == <<job, mdVars, ddlVars, vars>>

JobsInit ==
  /\ job \in {"inbox", "md", "schema"}
  /\ Init /\ M!Init /\ S!Init

JobsNext ==
  \/ /\ job = "md"
     /\ M!Next
     /\ UNCHANGED <<job, ddlVars, vars>>
  \/ /\ job = "schema"
     /\ S!Next
     /\ UNCHANGED <<job, mdVars, vars>>
  \/ /\ job = "inbox"
     /\ Next
     /\ UNCHANGED <<job, mdVars, ddlVars>>

(* cron keeps starting the wrapper, days pass, a publish that runs goes    *)
(* on, and of the ticks that find the newest snapshot fit not every one    *)
(* fails to reach MotherDuck; the inbox is drained every night and a       *)
(* running drain goes on; apply-now and the nightly run again and again,   *)
(* and the flock is free most of the day.                                  *)
Publishing(Step) == job = "md" /\ Step /\ UNCHANGED <<job, ddlVars, vars>>
Landing(Step) == job = "schema" /\ Step /\ UNCHANGED <<job, mdVars, vars>>
Loading(Step) == job = "inbox" /\ Step /\ UNCHANGED <<job, mdVars, ddlVars>>

JobsSpec ==
  /\ JobsInit /\ [][JobsNext]_jobsVars
  /\ WF_jobsVars(Publishing(M!NewDay)) /\ WF_jobsVars(Publishing(M!Cron))
  /\ WF_jobsVars(Publishing(M!Publish)) /\ SF_jobsVars(Publishing(M!GatePasses))
  /\ WF_jobsVars(Loading(Drain))
  /\ WF_jobsVars(Landing(S!Claiming)) /\ WF_jobsVars(Landing(S!Applying))
  /\ WF_jobsVars(Landing(S!Finishing)) /\ SF_jobsVars(Landing(S!TakeFlock))
  /\ WF_jobsVars(Landing(S!ReviewDone)) /\ WF_jobsVars(Landing(S!Nightly))
  /\ WF_jobsVars(Landing(\E q \in DOMAIN ddlQueue : S!Age(q)))
-------------------------------------------------------------------------------
(* What must hold, each explained where its module states it.              *)

(* Every variable of the jobs keeps its type.                              *)
TypesOK == TypeOK /\ M!TypeOK /\ S!TypeOK

(* md_write_path.py: readers are on a validated copy whatever a later      *)
(* publish does or dies of, the state file claims only what they were      *)
(* given, a rollback has somewhere to go, and no single failing statement  *)
(* costs the canonical name.                                               *)
ReadersKeepAWholeCopy ==
  /\ M!PublishedIsWhole /\ M!RecordedWasServed
  /\ M!RollbackHasTarget /\ M!CanonicalSurvivesOneFailure

(* md_write_path.py: no cron tick serves again the snapshot readers were   *)
(* taken off, unless its publish ended between the flip and the record.    *)
RollbackSticks == M!RollbackSticks

(* md_write_path.py: the newest snapshot reaches the readers, unless it    *)
(* has become unfit or a rollback moved the pointer last.                  *)
SnapshotReachesReaders == job = "md" => M!SnapshotReachesReaders

(* inbox_loader.py: a file leaves the inbox with its rows in its table and *)
(* an upserted row shows the newest but for the stragglers of failed runs. *)
BatchesKeepOrder == LeavesOnlyLanded /\ OnlyStragglersRegress

(* inbox_loader.py: a sound batch gets in past the broken ones.            *)
SoundBatchesLand == job = "inbox" => HealthyLands

(* moderator_apply.py: a claimed row is settled in the end, across crashes *)
(* and lost answers, unless a review takes it.                             *)
RowsSettle == job = "schema" => S!RowsSettle
===============================================================================
