------------------------------- MODULE HostJobs -------------------------------
(* The jobs that cron and systemd run on the warehouse's host: the         *)
(* compaction, the daily report's scripts, the watchdog of the nightly,    *)
(* the flip of the read API and the watchdog of MotherDuck, the vault, the *)
(* backup, the calls' transcripts and the read API.                        *)
(* They share no state their modules keep, so they take turns to use the   *)
(* variables: what v1 is, a job's INSTANCE says.                           *)
EXTENDS FiniteSets, Integers, Sequences

CONSTANTS
  CompactTransactions, CompactFailures, CompactDeaths,                 \* Compaction
  ReportDays,  \* sets of the report's jobs that cron starts in one day
  ReportNow,   \* bound on the stamped events of a report's day
  WatchDays, WatchSla,                                                 \* Watchdog
  FlipOutages, FlipBlips, FlipFaults, FlipActs,                        \* MdFlip
  VaultTables, VaultExtra, VaultSeed, VaultDays, VaultFaults, VaultApi,  \* Escrow
  CopyKeep, CopyKeepOff, CopyRoom, CopyDays, CopyFaults,               \* Backup
  CallNames, CallDays, CallFlush, CallGrace, CallBack, CallTolerance,
  CallLastDay, CallFaults,                                             \* Transcription
  ReadCap, ReadKeep, ReadSnapshots, ReadFaults                         \* QueryShim

(* Bounds are numbers and there is a day at least; a burst has a row, and a *)
(* copy of yesterday is young enough to be kept on either side.            *)
ASSUME CompactAssumption ==
  CompactTransactions \in Nat /\ CompactFailures \in Nat /\ CompactDeaths \in Nat
ASSUME ReportAssumption ==
  /\ ReportNow \in Nat
  /\ ReportDays \subseteq SUBSET {"evening", "watchdog", "relock", "nightly", "backfill"}
ASSUME WatchAssumption == WatchDays \in Nat /\ WatchSla \in Nat
ASSUME FlipAssumption ==
  FlipOutages \in Nat /\ FlipBlips \in Nat /\ FlipFaults \in Nat /\ FlipActs \in Nat
ASSUME VaultAssumption ==
  /\ Len(VaultTables) \in Nat \ {0} /\ DOMAIN VaultTables = 1..Len(VaultTables)
  /\ VaultDays \in Nat \ {0} /\ VaultFaults \in Nat
ASSUME CopyAssumption ==
  /\ CopyKeep \in Nat \ {0} /\ CopyKeepOff \in Nat \ {0, 1} /\ CopyRoom \in Nat
  /\ CopyDays \in Nat \ {0} /\ CopyFaults \in Nat
ASSUME CallAssumption ==
  /\ IsFiniteSet(CallNames) /\ CallDays \in [CallNames -> Nat]
  /\ CallFlush \in Nat \ {0} /\ CallGrace \in Nat /\ CallBack \in Nat /\ CallTolerance \in Nat
  /\ CallLastDay \in Nat \ {0} /\ CallFaults \in Nat
ASSUME ReadAssumption ==
  ReadCap \in Nat /\ ReadKeep \in Nat /\ ReadSnapshots \in Nat \ {0} /\ ReadFaults \in Nat

VARIABLES
  v1, v2, v3, v4, v5, v6, v7, v8, v9, v10, v11, v12, v13, v14, v15

C == INSTANCE Compaction WITH
  MaxTransactions <- CompactTransactions, MaxFailures <- CompactFailures,
  MaxDeaths <- CompactDeaths, live <- v1, wal <- v2,
  new <- v3, export <- v4, backups <- v5, pre <- v6, post <- v7, pc <- v8,
  flock <- v9, committed <- v10, recreated <- v11, failures <- v12, deaths <- v13, left <- v14

R == INSTANCE DailyReport WITH
  MaxNow <- ReportNow, Days <- ReportDays, now <- v1, day <- v2, at <- v3,
  landed <- v4, prev <- v5, pub <- v6, read <- v7, alerted <- v8, holder <- v9,
  snap <- v10, tab <- v11, nightly <- v12, log <- v13, ended <- v14

W == INSTANCE Watchdog WITH
  Days <- WatchDays, Sla <- WatchSla, day <- v1, tick <- v2, slot <- v3, promoted <- v4,
  synced <- v5, full <- v6, published <- v7, fails <- v8, key <- v9, post <- v10,
  alarmed <- v11, rot <- v12, reads <- v13

M == INSTANCE MdFlip WITH
  MaxOutages <- FlipOutages, MaxBlips <- FlipBlips, MaxFaults <- FlipFaults,
  MaxActs <- FlipActs, token <- v1, up <- v2,
  dropin <- v3, serving <- v4, strikes <- v5, run <- v6, dog <- v7, bad <- v8,
  outage <- v9, cut <- v10, kept <- v11, outages <- v12, blips <- v13, faults <- v14,
  acts <- v15

E == INSTANCE Escrow WITH
  TablesOf <- VaultTables, Extra <- VaultExtra, Seed <- VaultSeed, Days <- VaultDays,
  MaxFaults <- VaultFaults, ApiDays <- VaultApi, day <- v1, snap <- v2, locked <- v3,
  vault <- v4, extras <- v5, manifest <- v6, export <- v7, last <- v8, dog <- v9,
  gaps <- v10, ran <- v11, quiet <- v12, faults <- v13

B == INSTANCE Backup WITH
  Keep <- CopyKeep, KeepOff <- CopyKeepOff, Room <- CopyRoom, Days <- CopyDays,
  MaxFaults <- CopyFaults, day <- v1,
  local <- v2, offbox <- v3, run <- v4, ran <- v5, told <- v6, cut <- v7,
  copied <- v8, pushed <- v9, faults <- v10

T == INSTANCE Transcription WITH
  Call <- CallNames, DayOf <- CallDays, FlushEvery <- CallFlush, Grace <- CallGrace,
  Back <- CallBack, Tol <- CallTolerance, Days <- CallLastDay, MaxFaults <- CallFaults,
  day <- v1, hour <- v2, recording <- v3, transcript <- v4, labelled <- v5, snap <- v6,
  run <- v7, dog <- v8, claimed <- v9, had <- v10, shared <- v11, behind <- v12,
  told <- v13, faults <- v14

Q == INSTANCE QueryShim WITH
  Cap <- ReadCap, Keep <- ReadKeep, MaxSnap <- ReadSnapshots, MaxFaults <- ReadFaults, backend <- v1, writable <- v2,
  server <- v3, excused <- v4, link <- v5, files <- v6, newest <- v7, pointer <- v8,
  colour <- v9, building <- v10, req <- v11, turned <- v12, faults <- v13
===============================================================================
