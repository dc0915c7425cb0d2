--------------------------------- MODULE Jobs ---------------------------------
(* The jobs around the nightly: those of HostJobs, the publish to D1, the  *)
(* moderator's reviews and the gate behind them, the merge of a pull       *)
(* request, and the sweep of the DNS.  One behaviour runs one of them, the *)
(* one job names.                                                          *)
EXTENDS HostJobs

CONSTANTS
  PublishInserts, PublishTries, PublishNights,                         \* D1Publish
  Code, Seeded, Catalogued, Ddl, Breaks, Renamed, Unique, Swaps, FailClosed, Caller,
  MinCount, MaxVersions, MaxProposals, MaxNumber, MaxRequests,         \* SchemaReview
  Change, Destructive, Blocked, MaxPushes, MaxMarks,                   \* TwoKeyMerge
  Domain, Zone, Blacklisted, Bought, Noting, Silent, SweepFlush, SweepNights,
                                                                       \* DnsSweep
  Name, Limit,                                                         \* SpfWalk
  Table, File, Adds, GateFaults                                        \* IntegrityGate

(* A statement is sent, and there is a night at least.  A review knows     *)
(* which rules a content breaks; a file adds or drops an enforcement or    *)
(* leaves them; names are finitely many.                                   *)
ASSUME PublishAssumption ==
  PublishInserts \in Nat /\ PublishTries \in Nat \ {0} /\ PublishNights \in Nat \ {0}
ASSUME ReviewAssumption ==
  /\ Seeded \subseteq Code /\ Breaks \in [Ddl -> SUBSET Code] /\ FailClosed \in BOOLEAN
  /\ MinCount \in Nat /\ MaxVersions \in Nat \ {0} /\ MaxProposals \in Nat
  /\ MaxNumber \in Nat \ {0} /\ MaxRequests \in Nat
ASSUME MergeAssumption == MaxPushes \in Nat /\ MaxMarks \in Nat
ASSUME SweepAssumption == SweepNights \in Nat \ {0}
ASSUME WalkAssumption == IsFiniteSet(Name) /\ Limit \in Nat
ASSUME GateAssumption ==
  /\ File # {} /\ IsFiniteSet(Table) /\ GateFaults \in Nat
  /\ Adds \in [File -> [table : Table, idx : {-1, 0, 1}, cons : {-1, 0, 1}]]

VARIABLE job

D == INSTANCE D1Publish WITH
  Inserts <- PublishInserts, Tries <- PublishTries, Nights <- PublishNights, night <- v1, keyed <- v2, stage <- v3,
  n <- v4, idx <- v5, try <- v6, copies <- v7, meta <- v8, inflight <- v9,
  late <- v10, again <- v11, rc <- v12, parity <- v13, degraded <- v14

V == INSTANCE SchemaReview WITH
  rules <- v1, synonyms <- v2, proposals <- v3, issues <- v4, ledger <- v5, reserved <- v6, main <- v7,
  origin <- v8, filed <- v9, enforced <- v10, req <- v11, requests <- v12, applied <- v13

P == INSTANCE TwoKeyMerge WITH
  pr <- v1, auto <- v2, enforce <- v3, recorded <- v4,
  green <- v5, waiting <- v6, run <- v7, merged <- v8, pushes <- v9, marks <- v10,
  agreed <- v11, armed <- v12

S == INSTANCE DnsSweep WITH
  FlushEvery <- SweepFlush, Nights <- SweepNights, night <- v1, step <- v2, left <- v3, buf <- v4, rows <- v5,
  checks <- v6, core <- v7, whole <- v8

F == INSTANCE SpfWalk WITH
  targets <- v1, root <- v2, todo <- v3,
  visited <- v4, lost <- v5

G == INSTANCE IntegrityGate WITH
  MaxFaults <- GateFaults, enforced <- v1, version <- v2, row <- v3, run <- v4, issues <- v5,
  audit <- v6, broke <- v7, blocked <- v8, ungated <- v9, misread <- v10, faults <- v11

jobsVars == <<job, v1, v2, v3, v4, v5, v6, v7, v8, v9, v10, v11, v12, v13, v14, v15>>

JobsInit ==
  \/ job = "compaction" /\ C!Init /\ v15 = 0
  \/ job = "d1" /\ D!Init /\ v15 = 0
  \/ job = "report" /\ R!Init /\ v15 = 0
  \/ job = "watchdog" /\ W!Init /\ v14 = 0 /\ v15 = 0
  \/ job = "review" /\ V!Init /\ v14 = 0 /\ v15 = 0
  \/ job = "merge" /\ P!Init /\ v13 = 0 /\ v14 = 0 /\ v15 = 0
  \/ job = "dns" /\ S!Init
     /\ v9 = 0 /\ v10 = 0 /\ v11 = 0 /\ v12 = 0 /\ v13 = 0 /\ v14 = 0 /\ v15 = 0
  \/ job = "spf" /\ F!Init
     /\ v6 = 0 /\ v7 = 0 /\ v8 = 0 /\ v9 = 0 /\ v10 = 0 /\ v11 = 0 /\ v12 = 0 /\ v13 = 0
     /\ v14 = 0 /\ v15 = 0
  \/ job = "flip" /\ M!Init
  \/ job = "escrow" /\ E!Init /\ v14 = 0 /\ v15 = 0
  \/ job = "backup" /\ B!Init /\ v11 = 0 /\ v12 = 0 /\ v13 = 0 /\ v14 = 0 /\ v15 = 0
  \/ job = "calls" /\ T!Init /\ v15 = 0
  \/ job = "reads" /\ Q!Init /\ v14 = 0 /\ v15 = 0
  \/ job = "gate" /\ G!Init /\ v12 = 0 /\ v13 = 0 /\ v14 = 0 /\ v15 = 0

JobsNext ==
  \/ job = "compaction" /\ C!Next /\ UNCHANGED <<job, v15>>
  \/ job = "d1" /\ D!Next /\ UNCHANGED <<job, v15>>
  \/ job = "report" /\ R!Next /\ UNCHANGED <<job, v15>>
  \/ job = "watchdog" /\ W!Next /\ UNCHANGED <<job, v14, v15>>
  \/ job = "review" /\ V!Next /\ UNCHANGED <<job, v14, v15>>
  \/ job = "merge" /\ P!Next /\ UNCHANGED <<job, v13, v14, v15>>
  \/ job = "dns" /\ S!Next /\ UNCHANGED <<job, v9, v10, v11, v12, v13, v14, v15>>
  \/ job = "spf" /\ F!Next /\ UNCHANGED <<job, v6, v7, v8, v9, v10, v11, v12, v13, v14, v15>>
  \/ job = "flip" /\ M!Next /\ UNCHANGED job
  \/ job = "escrow" /\ E!Next /\ UNCHANGED <<job, v14, v15>>
  \/ job = "backup" /\ B!Next /\ UNCHANGED <<job, v11, v12, v13, v14, v15>>
  \/ job = "calls" /\ T!Next /\ UNCHANGED <<job, v15>>
  \/ job = "reads" /\ Q!Next /\ UNCHANGED <<job, v14, v15>>
  \/ job = "gate" /\ G!Next /\ UNCHANGED <<job, v12, v13, v14, v15>>

JobsSpec == JobsInit /\ [][JobsNext]_jobsVars
-------------------------------------------------------------------------------
(* What must hold of the job that runs, each explained where its module    *)
(* states it.                                                              *)

(* Every variable keeps its type.                                          *)
TypesOK ==
  CASE job = "compaction" -> C!TypeOK
    [] job = "d1"         -> D!TypeOK
    [] job = "report"     -> R!TypeOK
    [] job = "watchdog"   -> W!TypeOK
    [] job = "review"     -> V!TypeOK
    [] job = "merge"      -> P!TypeOK
    [] job = "dns"        -> S!TypeOK
    [] job = "spf"        -> F!TypeOK
    [] job = "flip"       -> M!TypeOK
    [] job = "escrow"     -> E!TypeOK
    [] job = "backup"     -> B!TypeOK
    [] job = "calls"      -> T!TypeOK
    [] job = "reads"      -> Q!TypeOK
    [] job = "gate"       -> G!TypeOK

(* compact_warehouse.sh: what was committed can be read, from the primary  *)
(* or from the newest backup, through every failing step and death, but    *)
(* for the rows of a log that a restore left behind between its two        *)
(* renames; no WAL lies beside a file it was not written for.              *)
(* escrow_export.py: what a successful export or a check without a problem *)
(* vouched for is in the vault, as its manifest says. backup.sh: a whole   *)
(* copy is always kept on either side once there was one.                  *)
(* transcribe_calls.py: a call's text stays unless two runs listed the     *)
(* call or one listed old data, a label had a text, and only what is gone  *)
(* or old is given up.                                                     *)
NothingForgotten ==
  /\ job = "compaction" => C!NothingForgotten /\ C!WalBelongs
  /\ job = "escrow" => E!DoneIsVaulted /\ E!ManifestIsTrue
  /\ job = "backup" => B!KeepsOne
  /\ job = "calls" => T!TextStays /\ T!LabelsHaveText /\ T!OnlyGoneAreGivenUp

(* What people look at is tonight's, or somebody was told: a meta row of   *)
(* tonight in D1 vouches for a whole table and a night that ends           *)
(* undegraded has it; a report synced without a warning has rendered what  *)
(* its phases landed, and a backfill a snapshot of tonight's.              *)
(* mcp_server.py: an answer of the read API names what it was read from,   *)
(* is whole or flagged and no older than the last, and a server that is up *)
(* cannot write, but for the exceptions QueryShim names.                   *)
ReadersAreFresh ==
  /\ job = "d1" => D!FreshMeansWhole /\ D!LoudUnlessFresh
  /\ job = "report" => R!QuietMeansFresh /\ R!BackfillReadsTonight
  /\ job = "reads" => Q!AnswersAreTraceable /\ Q!AnswersAreWhole /\ Q!ServesReadOnly

(* nightly_success_watchdog.sh, md_autoflip.py, md_health_watchdog.py: two *)
(* nights without a promote, or two checks in a row of an overdue publish, *)
(* are on the record; an outage of MotherDuck is told after two checks and *)
(* has the read API back on the local snapshot after three whole runs, a   *)
(* blip has not; two checks in a row that leave the vault's newest day     *)
(* incomplete are told unless an alarm about the read API stood before     *)
(* them, and one that tells nothing saw what can be restored; a morning    *)
(* without a backup is told. transcribe_coverage_watchdog.py: a day short  *)
(* at two counts in a row is on the last page, and a run that exits with 0 *)
(* has written what it did. A check counts only if it read and saved the   *)
(* state file of its job, and what was told may be told again, or not be   *)
(* taken back, after a state that was not: each module says which.         *)
OutagesAreAnswered ==
  /\ job = "watchdog" => W!LongOutageAlarms
  /\ job = "flip" => M!OutageReturnsToLocal /\ M!StrikesAreReal /\ M!OutageIsTold
  /\ job = "escrow" => E!GapsAreTold
  /\ job = "backup" => B!SilentIsCopied
  /\ job = "calls" => T!GapsArePaged /\ T!ZeroIsWritten

(* moderator_engine.py: a ledger row passes by the rules of its version    *)
(* whatever is published meanwhile, what a proposal was promoted with is   *)
(* in force in some version (a note changes nothing, and nothing is        *)
(* published of it), and nobody is given a number that is taken, or one at *)
(* or below what it could read of main, the queue, the ledger and the      *)
(* snapshot. moderator_integrity_gate.py: a file that brings a second      *)
(* enforcement of _key is blocked where the gate can see it, no other file *)
(* is, and an audit that passes found none.                                *)
ReviewsHold ==
  /\ job = "review" => V!RowsReproducible /\ V!PromotedIsPublished /\ V!NumbersDistinct
  /\ job = "gate" => G!BreakingIsBlocked /\ G!BlockedHasBroken /\ G!AuditIsWhole

(* two_key_merge.py: only a push or a marker that comes after the run that *)
(* armed the merge has looked gets in what the keys did not open to.       *)
MergesAreAgreed == job = "merge" => P!KeysBeforeMerge /\ P!HoldRespected

(* sources/dns.py, entities/dns_sweep.py, entities/domain.py: a silent     *)
(* blocklist is not a clean one, a lookup's failure is noted or is SPF's   *)
(* or DKIM's, core.domain says what a whole sweep found of every domain,   *)
(* and the flattening of an SPF record finds what the record reaches.      *)
SweepsAreHonest ==
  /\ job = "dns" => S!SilenceIsNotClean /\ S!NoiseIsNoted /\ S!CoreFollowsTheSweep
  /\ job = "spf" => F!WalkCovers
===============================================================================
