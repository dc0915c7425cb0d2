# renaissance-warehouse: a TLA+ model of the warehouse's control

The repository is a single-operator data warehouse: one DuckDB file on one
machine, filled every night by `scripts/nightly.sh` and
`core/orchestrator.py`, changed in its schema by an apply queue, read through
a snapshot that is copied ("promoted") while nobody writes, and copied on to
MotherDuck, Cloudflare D1, a report and two backups.  Most of its 560 files
are SQL and single-statement transforms.  What is hard in it is the control
around them: which process may touch the file, what a killed or half-failed
run leaves behind, and who believes which piece of bookkeeping the next day.
That is what is modelled here.

Contents: [1 The system](#1-the-system) · [2 The modules](#2-the-modules) ·
[3 Runs](#3-runs) · [4 Proofs](#4-proofs) · [5 Findings](#5-findings) ·
[6 What is not modelled](#6-what-is-not-modelled) · [7 Plan](#7-plan)

Each run is checked with `tlc -config <file>.cfg <Module>` as `PROJECT.json`
lists it, each proof module with `tlapm <Module>Proofs.tla`.  `PROJECT.json`
also relates every definition to the lines it stands for, and lists theorems,
hazards and findings.  A definition with an underscore in its name
(`Enters_ByDepth`, `Probe_Never`) is a plausible bug of the definition it is
named after; no specification uses it.  It is there to show that the property
it is listed with can fail.

## 1 The system

### Components

| component | state it keeps | operations | modules |
|---|---|---|---|
| Writer lock (`core/db.py`, `scripts/with_warehouse_lock.sh`, `promote_serving` in `nightly.sh`, `meetings_refresh.sh`) | kernel flock on `warehouse.write.lock`; marker text `pid=N` in that file; DuckDB's own lock on the database file | clear stale marker, wait for the flock, sign, connect (with retries), close, release, die | `WriterLock` |
| Nightly script, orchestrator, audit (`nightly.sh`, `core/orchestrator.py`, `core/sync_run.py`) | exit statuses of PASS A and PASS B, the degraded flag, `core.sync_run` and `core.sync_run_phase`, the serving snapshot | run the ingests in phase order, log each, probe the connection, abort, end; promote, gate, publish, kick MotherDuck | `NightlyRun` |
| Ingests (the 76 ingests of `PHASE_ORDER`, in `entities/`) and the processes of the nightly's tail | the tables they own | clear, fill, replace in a transaction or not, retire, carry forward, return early, note an error, raise | `IngestBlocks`, `IngestRun`, `IngestsFleet`, `IngestsChannels`, `IngestsCanonical`, `IngestsDerived`, `NightlyStages`, composed by `Ingests` |
| Email-thread drain (`entities/email_thread_sync.py`) | stage, watermarks, `failed.jsonl`, progress and quarantine sidecars, the committed table | discover, pull in a pool, stage, quarantine, rewrite the ledger, apply, merge watermarks | `ThreadDrain` |
| Inbox loader (`entities/inbox_loader.py`) | directories of batch files, `_done`, destination tables | list, validate, create, upsert, archive, carry workspaces forward | `InboxLoader` |
| DDL queue and approvals (`moderator_apply.py`, `moderator_engine.py`, `setup_db.py`) | `apply_queue`, approval ledger, `core.schema_version`, files at HEAD | enqueue, reap, claim, apply, gate, settle, re-review, nightly lane | `SchemaApply`, abstract `SchemaHistory` |
| Schema moderator service and client | rules by version, synonyms, proposals, findings, ledger, reserved numbers | review, publish rules, detect and decide proposals, reserve | `SchemaReview` |
| Integrity gate (`moderator_integrity_gate.py`) | counts of unique enforcements before a file, `core.schema_issue` | count, apply, count again, block, audit | `IntegrityGate` |
| Two-key merge, schema gate | the pull request, the required check, auto-merge | check out, gate, independent review, last look, arm; push, mark, close, merge | `TwoKeyMerge` |
| MotherDuck write path (`md_write_path.py`, `.sh`) | pointer file, state file, two colours, the canonical name and its predecessor | gate, build, validate, flip, record, republish, roll back | `MdWritePath` |
| MotherDuck flip and health (`md_autoflip.py`, `md_health_watchdog.py`) | drop-in, strikes, alert state | flip, verify, roll back after three strikes, tell | `MdFlip` |
| Read API (`md-migration/shim/mcp_server.py`, `common.py`) | what backend it was started with, the request in hand | assert read-only, find what is served, connect, execute, answer | `QueryShim` |
| Escrow (`escrow_export.py`, `escrow_watchdog.py`) | objects and manifest per day, alert state | export, verify, look, heal, tell | `Escrow` |
| Backup (`scripts/backup.sh`) | dated copies here and on a remote | copy, check, prune, push | `Backup` |
| Compaction (`compact_warehouse.sh`, `compact_import.py`) | primary, WAL, new and backup files | checkpoint, export, import, verify, two renames, sanity check, roll back | `Compaction` |
| Publish to D1 (`publish_campaign_data_d1.py`, `verify_campaign_data_parity.py`) | the D1 table, its meta row | one request per statement, retry, give up, freshness and parity check | `D1Publish` |
| Daily report (`daily_report_sync.sh`, `daily_report_sla_watchdog.sh`) | the tab, a lock, alerts | probe, refresh, promote, render; guard; heal | `DailyReport` |
| Success watchdog (`nightly_success_watchdog.sh`) | fail count, reasons told | look, suppress, count, tell | `Watchdog` |
| Call transcripts and labels (`transcribe_calls.py`, `classify_call_outcomes.py`, `transcribe_coverage_watchdog.py`) | `core.call_transcript`, `core.call_outcome_llm`, failed counts per day | list, transcribe, label, write in bursts, give up; count, heal, page | `Transcription` |
| DNS (`sources/dns.py`, `entities/dns_sweep.py`, `entities/domain.py`) | sweep rows, blocklist rows, `core.domain` | ask, flush, rebuild; flatten an SPF record | `DnsSweep`, `SpfWalk` |

`PROJECT.json` has the complete list with a note for each.

### How they interact

* **Shared state is the database file.**  Every writer of it goes through the
  lock: python code by `core.db.connect`, shell wrappers by `flock`, the
  publisher by a third protocol that also looks at the marker.  The other
  modules take from `WriterLock` that a writer inside the flock is alone: a
  run of the orchestrator is one process at a time, the schema lanes have a
  variable for the flock, the compaction too.
* **Calls.**  `nightly.sh` runs PASS A, promotes, runs PASS B, rolls the
  statuses up, runs the stages of the tail, the D1 publish and the parity
  check, promotes again and launches the MotherDuck build.  The thread drain's
  fetch and apply are one of those stages only with `THREADS_IN_NIGHTLY=1`
  (`nightly.sh:395` skips them by default; the standalone drain that has taken
  them over is not in `src/`).  `NightlyRun` sees an ingest as a step that may
  fail, poison the connection or die; `Ingests` opens that step and sees each
  statement, under the orchestrator's loop (`IngestRun`).
* **Messages through files and tables.**  Exporters rename batches into the
  inbox; fetch speaks to apply, and one night to the next, by five files; the
  moderator speaks to its lanes by `apply_queue`; the write path speaks to the
  query shim by a pointer file; the report and the watchdogs read the
  nightly's log, its audit rows and the age of what is served.
* **External.**  The publisher (`/opt/duckdb/bin/publisher.py`), its 06:30
  timer, Instantly, GitHub, Cloudflare, MotherDuck and the exporters are not
  in `src/`; they are modelled by how the code uses them and marked external.

### What is hard

1. *Interleaving.*  A check and the act on it are separated by other
   processes: reading, probing and truncating a marker; a claim in one
   Postgres transaction and its settlement minutes later; a review that reads
   rules and catalog in four statements; two callers after one DDL number.
2. *Crash.*  Nothing survives a kill by design of one transaction: stage,
   ledger, sidecars and table are written one after the other; pointer and
   state file too; a compaction renames twice.
3. *Partial failure.*  One ingest, one workspace, one batch, one row or one
   statement may fail and the rest goes on; the bookkeeping is written on the
   very connection that failed.
4. *Ordering.*  Pulls complete in any order under a watermark that must only
   pass a contiguous prefix; late batches meet an upsert that does not compare
   timestamps; a request that timed out is executed after its retry.
5. *Staleness.*  Watermarks, markers, sidecars, snapshots and counters of
   strikes are believed long after they were written.
6. *Silence.*  A resolver that does not answer, a suppressed reason, a noted
   error: what is not said is taken for good news.
7. *Liveness.*  Almost nothing has a retry loop of its own: what is missed
   tonight must be found tomorrow, from the files alone.

`PROJECT.json` lists 40 such hazards at their lines, each with the properties
that cover it.  Four have none, for the code does what is feared there, and no
property can say that it does not: the marker of a live writer is lost, a row
under review at a death stays so, a sweep that raised is recorded clean, a push
after the checkout is merged unjudged.  Section 5 names them, and their notes
which property is stated around them.

## 2 The modules

### WriterLock

One process slot per element of `Pid`; a pid whose process is gone can be
started again as another kind, which is pid reuse.  `pc` is where a process
is, `kind` its road:

| road | code | path through the model |
|---|---|---|
| `python` | `core.db.connect` | `ReadMarker`, `ProbeMarker`, `TruncateStale`, then `TakeFlock` or `WaitTimeout`, `TruncateOwn`, `SignMarker`, `OpenReadWrite`, `CloseDb`, `ReleaseFlock` |
| `wrapped` | `with_warehouse_lock.sh` | `OpenTruncating` (the `>` redirection wipes the marker before the wait), `TakeFlock`, open under `WAREHOUSE_WRITE_LOCK_HELD` |
| `flockc` | `flock -w 300` in `meetings_refresh.sh` | `TakeFlock`, open |
| `cli` | duckdb CLI and the like | open, no flock |
| `reader` | `connect(read_only=True)` | `OpenReadOnly` |
| `promoter` | `promote_serving` and the publisher | clear a stale marker, `PublisherAborts` on any marker, else `PublisherQueues` and copy |

`flock`, `marker`, `db` and `readers` are the kernel lock, the note, DuckDB's
lock and its shared openers.  `Crash` may happen anywhere; the kernel then
closes the two descriptors one at a time (`CloseLockFd`, `Reap`).

### NightlyRun

`stage` is where `nightly.sh` is, `orch` where the orchestrator process is.
`Schedule` gives the ingests of each pass in phase order; a run may find one
of them unregistered (its module did not import).  For each ingest:
`RunIngest` (returns or raises, and may leave the connection dead without
saying so), `LogRow` and `Bump` (the two statements of `log_phase`, committed
separately), `LogRaises` (either one raises; the handler logs the ingest again
as failed, and its own failure is dropped), `Probe`.  `Abort`, `EndRun`,
`EndRunFails`, `DiesEarly` and `Kill` are the ways out with their statuses.
The script's side is `AfterPassA`, `Roll`, `RunTail`, `FinalPromote`,
`Finish`; the publisher may be missing, fail, or be killed with the new
snapshot already in place (`Promote`).  `Timer` and `Reboot` are external.
`attempted` and `cut` are history variables.

### The ingests

`IngestBlocks` is a vocabulary: an ingest is a sequence of blocks, a block a
sequence of steps, and a step one statement, call or test that can fail or that
changes what the next one finds (`Clear`, `Fill`, `Rows`, `Retire`, `Carry`,
`Pull`, `Atomic`, `Each`, `Noted`, ...).  A table is a few slices (a workspace,
a day); a slice is last night's, gone, half there, tonight's or retired.
`IngestsFleet`, `IngestsChannels`, `IngestsCanonical` and `IngestsDerived`
write every registered ingest in it, statement by statement, with its
transactions, handlers and early returns; `NightlyStages` does the same for the
processes of the nightly's tail.  `IngestRun` interprets them under the
orchestrator's loop: a step may fail, a source may answer nothing, a test may
end the ingest early, the process may be killed; a statement outside a
transaction commits alone, what a failing one leaves on a shared connection is
still there for the next ingest.  `Ingests` joins them in the order of
`core/registry.py` and states what must hold.  Its lists are part of the
statement: `Exposed` are the tables emptied and filled again statement by
statement, `Trusting` those replaced by whatever a source answered, also by
nothing, `Lagging` those built in the night ahead of a table they read, or from
themselves, `Uncarried` those whose rows of yesterday are carried forward for
some workspaces only, `AskedWeekly` those that come of sources asked once a
week, `Hushed` those whose ingests note a failure and go on, or empty them
before they look; `Leaked` says that `im_bookings`, which can leave a
transaction open, has met an error in this run.  The tables on none of the
first five lists are `Kept`, and `MadeGood` says of a step of a program how:
who empties a kept table does so between BEGIN and COMMIT, and before the
COMMIT fills it again, from a kept table or from an answer the program has
tested.

### ThreadDrain

`server`, `atom` and `committed` hold, per lead, the replies that exist, that
the inbound sync has brought in, and whose threads were captured.  `Fetch`
and `Apply` are the two halves of the stage: `StartFetch` seeds marks,
`Discover` lists a workspace's candidates (after the anti-join and with the
ledger), `PullSucceeds`, `PullTruncated`, `PullFails`, `PullFailsUnrecorded`
are what the pool may return in any order, `Spill` a flush of the buffer,
`FinishWs`, `WsFailsEarly`, `WsFailsLate`, `CloseStage`, `RewriteFailed` the
end; `Commit`, `Merge`, `ApplyFails`, `Cleanup` the apply and the script's
`rm`.  Who starts them is outside: by default the nightly does not, and the
model is of the stage as it runs where `THREADS_IN_NIGHTLY=1`, or by hand.
A behaviour has one *setting*: which faults it may meet, at most
`MaxFaults` times, and whether the stage survives a run (the CLI keeps it, the
nightly removes it).  The settings are in `MC_ThreadDrain`.

### SchemaApply and SchemaHistory

`SchemaApply` has the queue with its rows' statuses and owners, the two lanes
that take rows off it (apply-now, apply/process), the nightly lane over the
files at HEAD, the flock between them, `recorded` (`core.schema_version`),
`effects` (what really ran, in order) and what the snapshot serves.  A DDL is
its content; the name of its file carries the number, so two contents may
share a name, and two names a number.  `SchemaHistory` is what the gate
promises to a reader of the warehouse: a number is spent once, on content that
was merged, never taken back, and snapshots are of what is live.
`ImplementsHistory` is the refinement of the one by the other.

### SchemaReview and TwoKeyMerge

`SchemaReview` is the service for two requests at a time.  A review is four
reads (`version`, `rules`, `catalog`, the deep review) and a ledger row;
publishing, deciding a proposal and reserving a number are as many statements
as in the code, each committing alone, and so interleave.  What a proposal is
promoted with is its draft or the editor's change of it; a draft may be a note,
which changes nothing, and then nothing is published (`Publishes`).  A number is
taken above the repository's, the snapshot's, the queue's, the ledger's and the
reserved ones; the first two count as 0 where they cannot be read (`ReadMax`).
`TwoKeyMerge` is
one pull request: the workflow from checkout to the arming of the merge, the
polling check, and the author and GitHub beside them.

### IntegrityGate

The step that `SchemaApply` sees as one verdict: the counts of what is unique
on `_key` before a file (`CountBefore`) and after its COMMIT (`Gate`), read
from two catalogs of which either may fail, and the file's row marked failed
if a table has gone to two (`Offenders`).  The file's effect stays.  Beside it
`NightlyApplies`, which has no gate, a row that is enqueued or claimed again,
and `Audit`, the gate's command line over the whole database.

### InboxLoader

Batches are numbered by their export; a row is the batch that last wrote it.
`ListDir` lists a directory when the run reaches it; `Validate` or `Reject`,
`Insert` (the upsert transaction), `Archive` or `FileFails`, `DirDone`,
`EndRun` with the carry-forward only when nothing failed.  `Export`,
`Withdraw` and `Migrate` (a column is added) are the outside world.  Two
directories may feed one table, as `campaigns` and `raw_pipeline_campaigns`
do.

### MdWritePath and MdFlip

`MdWritePath` is one publish at a time (its flock) with a death after each
step: `GatePasses` (is the snapshot at hand another than the state file's last,
and fit), the build of the colour that is not served, its validation, the flip
of the pointer, the record (`Save`, which may fail), and the three statements
that put the new copy under the canonical name.  A snapshot becomes unfit for
good when its last healthy nightly is over 30 hours old or a canary finds too
few rows in it (`Expire`).  `--rollback` takes no lock and may come between any
two of them.  Three variables are history: `undone` is the snapshot that the
pointer served when the last rollback moved it, whatever the state file said
then; `unrecorded` are the snapshots whose publish ended after the flip and
before the record; `mover` is who moved the pointer last.

`MdFlip` is the read API's way to that copy and back: drop-in, restart,
`/healthz`, three strikes, and beside it the health watchdog that tells an
operator.  Both keep a file, and either may find it unreadable or fail to write
it: the strikes are then none, or the old ones (`Monitor`), the watchdog's
memory a fresh or an old one (`Watch`).

### QueryShim

One server and one client that asks again and again.  A request is `Capture`
(what is served now), `Connect`, `Execute`, `Answer`; between any two of them
a snapshot is promoted, linked back or pruned, a colour is dropped for a
build, the pointer flips or is rolled back.  `Start` is the assertion that the
token cannot write, with the ways in which its probe can mistake itself.

### Escrow and Backup

`Escrow` exports table after table of the served snapshot under the day's
prefix, with a bucket that does or does not refuse to overwrite; the watchdog
looks, has the export run again, and tells what it could not heal.  The same
look asks the read API whether it is well, and both kinds of trouble share one
count of failures and one latch of the alarm (`Judge`): who is already alarmed
about the one does not post about the other.  `Backup`
copies the served snapshot to a file of the day, checks its size, prunes and
pushes; a copy may be torn by a death, the volume may be full, and a push may
last into the next morning.

### Compaction

The primary, its write-ahead log, the fresh file and the backups are files
that hold sets of transactions; DuckDB's habits (replay a log found beside a
file, create a missing file) are actions of the next writer.  Every command of
the script but one (section 6) may fail with its own fallback, and the process
may die between any two.  The fallback of the swap is two renames, `Restore` the
database and `RestoreWal` its log, neither of whose statuses is read; what is
in the log when the second is cut off or fails is `left` behind beside the
place the backup had.

### D1Publish, DailyReport, Watchdog

`D1Publish` sends one request per statement; a request may fail, or time out
and be executed all the same, at once or after the client has gone on.
`DailyReport` runs the four scripts of one day against a nightly of which it
sees what they see: log lines and promotes with their stamps.  `Watchdog` is
two checks a day over nights that promote early, late or never, with data that
moves on or does not.

### Transcription

Three jobs over the same calls: the cron's transcripts, the labels, and the
transcripts once more when the watchdog heals.  Each lists what is pending
(from the live file, or from the snapshot after an hour of a lock that does not
come free), works without a connection, newest call first, and writes in
bursts that may give up on the lock.  A recording may land late or be deleted;
what is gone gets a tombstone in place of a text.  `Judge` is the watchdog's
bookkeeping: counts per day, a page at the second, dropped at the first good
one; its state file may be unreadable, which counts as none, or not be written,
which leaves the old one or an empty one.

### DnsSweep and SpfWalk

`DnsSweep` lets every lookup be answered or lost, in what the DNS says nothing
changes, and so whatever differs between two nights is noise; results are
flushed a buffer at a time and `core.domain` is rebuilt from the newest sweep.
`SpfWalk` is the recursion over `include:` as a stack, checked against
reachability (`Reached`, the reference definition) for every graph over its
names.

### Compositions

`Ingests` composes the orchestrator's loop with all ingests.  `Jobs` and
`MC_Progress` put side by side what shares no state: one behaviour runs one
job (the variable `job` names it), so that the question "does each job keep
its promise" is one run rather than fourteen.  The jobs take turns to use
fifteen variables; each `INSTANCE` says what they are to it.  `HostJobs` has the
eight that cron and systemd run on the host, `Jobs` adds the six others and
composes all fourteen.  Every bound and set of theirs is a constant of one of
the two, with a named assumption; `MC_Jobs` gives those a value that a
configuration file cannot.
`MC_Progress` holds the three components of which something must eventually
happen (`MdWritePath`, `SchemaApply`, `InboxLoader`), under their fairness.

## 3 Runs

| run | states | asks |
|---|---|---|
| `lock` | 13,610 | two processes of all six kinds: serialisation, no collision inside the queue, whole copies, markers, and that the flock always comes back |
| `drain` | 3,487,249 | one workspace, two leads, four settings of faults: nothing is passed over, forgotten or committed with a hole |
| `drain_two` | 1,136,760 | two workspaces: quarantine of one, and that the drain catches up, a kill included |
| `schema` | 1,119,108 | two lanes, two rows, two contents with one number: one effect per version, and the refinement of `SchemaHistory` |
| `nightly` | 395,474 | night after night, two passes, three ingests |
| `ingests` | 1,260,544 | all 76 ingests of `PHASE_ORDER` and 17 stages, each part of the night twice in a row, two troubles |
| `jobs` | 3,319,459 | fourteen jobs around the nightly |
| `progress` | 358,969 | MotherDuck publish, schema queue and inbox: order, rollback, and that what should happen happens |
| `drain_antijoin` | violation | is a later committed message proof of the earlier ones? |
| `compact_lost` | violation | is the original "never deleted"? |
| `report_guard` | violation | does the backfill wait for the nightly's end? |
| `watchdog_silent` | violation | is data that stays old under a succeeding nightly reported? |

### What the properties say

*lock.*  `QueuedWritersExclusive`: past its flock a queued process owns it,
whatever the environment variable skipped.  `ConflictOnlyWithOutsiders`: a
queued writer that finds the file locked is blocked by the CLI or by a dying
predecessor, never by a running queued one.  `CopyNotTorn`: no queued writer
writes while the publisher copies.  `MarkerBlamesNobodyElse`: after signing,
the marker names the owner or nobody.  `FlockComesBack`: every owner gives the
flock back.

*drain, drain_two.*  `NoLeadPassedOver`: what is older than the next discovery
looks at was reached, staged or is in a ledger.  `AccountedUnlessKilled`:
between two runs each reply is committed or owed by a ledger, a discovery or a
kept stage, where no fetch was killed amid a pull.  `NoHoles`: of each lead
the oldest replies are committed, never a newer one without the older.
`CaughtUp`: once drains run again without a fault or a kill, the warehouse has
the last reply of every lead, and every other one too unless a fetch was killed
amid a pull (the finding `drain_antijoin`).

*schema.*  `OneEffectPerVersion`: a number takes effect once, and
`core.schema_version` says so exactly, through reaps, retries and both lanes.
`NotSwallowed`: a row reported committed by apply-now took effect, or an
earlier content of the same file did.  `ImplementsHistory`: the refinement.

*nightly.*  `SuccessIsWhole`: a run recorded as a success logged every ingest
it called as one and its counters agree with the rows.  `ExitZeroIsClean`,
`NoCutRunPublished`, `KickReadsTonight`: what status 0 means, that
`nightly.sh` publishes no build a run of which was cut, and that MotherDuck is
started only on a snapshot of both passes.

*ingests.*  `CleanHandover`: no ingest hands the shared connection on inside a
transaction, but `im_bookings`.  `OnlyExposedAreLost`: wherever something fails
or the process dies, and whatever the sources answer or do not, only the tables
of the five lists can be left with a hole.  `LossIsReported`: whoever makes a
hole has a failed audit row.  `FailuresStayLocal`: an ingest fails of its own
troubles, and the exit status is 1 exactly if one did.  `MendedNextNight`: a
night without trouble mends what the one before left.

*jobs.*  `NothingForgotten`: through every fallback and death of a compaction
what was committed can be read, but for the rows of a log that a restore left
behind between its two renames, and a log lies beside its own file only; an
escrow that ends well is in the vault, and its manifest is true; a backup
always has a whole copy; a call's text stays unless two runs listed the call or
one listed old data, a label had a text, and a call is given up only if its
recording is gone or old.  `ReadersAreFresh`: a meta row of tonight vouches for
the D1 table, a night that is not degraded has one; a report without a warning
has rendered what its phases landed, a backfill has read tonight's snapshot; an
answer of the read API names what it was read from, is whole or flagged, never
older than the client's last by the same route, and a server that is up cannot
write.  Each of these names its exceptions: a pointer that moved during the
request or was turned back, a start without a snapshot.  `OutagesAreAnswered`:
snapshots or publishes overdue at two checks alarm; three whole runs into an
outage the API is back on the local file, on three bad answers and no fewer,
and the outage is told; a gap of the escrow at the end of two checks is told,
unless an alarm about the read API stood when it began; mornings without a
backup are told; a day short of transcripts at two counts in a row is paged,
and a transcribing or labelling run that exits with 0 wrote what it did.  Of a
watchdog whose state file was not read or not saved the property says what is
left: the run does not count (`MdFlip`), or what was told may be told again or
not taken back until the next post (`dog.lost`).  `ReviewsHold`: a ledger row
follows from the rules of the version it names; what a proposal was promoted
with is in force in some version, where it changes anything; no number is given
twice, and none that is not above what its caller could read of main, the
snapshot, the queue and the ledger; a file that brings a second enforcement is
blocked where a gate saw it, no other is, and an audit that passes found none.
`MergesAreAgreed`: an automatic merge had both keys and no hold, up to pushes
and marks after the run looked.  `SweepsAreHonest`: a silent blocklist is never
a clean one, two sweeps without a noted failure agree, `core.domain` follows
the sweep, the SPF walk collects what the root reaches.

*progress.*  `ReadersKeepAWholeCopy`: readers are on a validated copy whatever
a later publish dies of, the state file claims only what they were given, a
rollback has a target, one failing statement does not cost the canonical
name.  `RollbackSticks`: no publish that nobody forced serves again the snapshot
readers were taken off, unless the publish that had served it ended between the
flip and the record, so that the gate has never heard of it.
`SnapshotReachesReaders`: the newest snapshot does reach them, unless it has
become unfit or a rollback moved the pointer last.
`BatchesKeepOrder`: a file leaves the inbox only when all its rows are in, and
an upserted row shows an older export only if that export was late or came by
the other directory.  `SoundBatchesLand`: bad files do not block good ones.
`RowsSettle`: a claimed row is settled, or taken for review.

### Bounds, and why they are enough

* *lock*: two slots for all six kinds, since every property is about one pair;
  slots are reused, so behaviours have any number of processes in a row.  The
  safety part is proved for any number of them.
* *drain*: `MaxTime` 5 ticks (4 with two workspaces) against `Overlap` 2 and
  `Lag` 1, so a reply can fall out of the overlap with ticks left to find it
  again; two leads, so one completes before the other and one fails while the
  other goes on; two faults in one behaviour (one of any kind where
  liveness is checked, a kill apart from the others, `OneFault`), so a fault can
  hit the recovery from another.  Faults are grouped in settings
  because all seven together only multiply the states: kills with errors,
  errors with lost ledger appends, ceilings with failing applies and torn
  ledgers, a kept stage with retries.
* *schema*: one number, two contents, two rows, two faults: the smallest world
  in which a number is contended, a row is retried after a lost settlement and
  the other lane comes in between.  `rival` is also a landmine (its effect
  fails the integrity gate).
* *nightly*: two ingests in PASS A, so that one fails and one follows, and one
  in PASS B; no bound on the number of nights.  Statuses of 2 and above are one
  value.  The safety part is proved for any schedule.
* *ingests*: two slices of a table, so that one can be there and one not; two
  nights, so that the second finds what the first left; two troubles, so that
  the second may hit the repair of the first or another ingest that reads the
  same table.  The night is cut into eleven parts of about eight ingests, since
  an ingest sees another only through the tables, the connection and its audit
  rows; the domain ingests run once as on a Sunday, then as on a weekday.
* *jobs*: compaction two transactions (one checkpointed, one in the log), two
  failures and a death, so a fallback may fail too; D1 two chunks, two
  attempts, two nights, so that last night's rows, a repeated request and one
  that outlives its client all occur; the report five stamped events, enough
  for two syncs, their promotes and a foreign one; the watchdog four days, two
  more than an alarm takes; the review two callers (taken as one up to their
  names, which nothing looks at) and two DDLs, of which one breaks what the
  other publishes; the merge three contents, one push, one mark; the sweep two domains, one zone, two nights; the walk every graph over
  three names at a limit of two; the flip two outages, two blips, two faults,
  so that a run can be cut, repaired and cut again; the escrow three days, two
  snapshots, a fault, and a read API that may be in trouble on the first day,
  so that its alarm stands when the vault's gap begins; the backup five days,
  one kept here, two away, room for four, three faults; the transcripts two
  calls of different days, a grace and a threshold of two days within four, a
  row a burst, so that every burst may be the one that is lost; the read API
  three snapshots, enough for one to be pruned or overwritten under a reader, a
  fault; the gate two tables that may have their duplicate before, a file that
  adds an enforcement and one that takes one away, two faults, one for either
  count.
* *progress*: two snapshots, so that one is superseded, a failure, a crash, an
  operator's publish and two rollbacks, since after a death between flip and
  record the first `--rollback` may name the colour that is served, or bring
  back the one before; two contents of one file and one row; five batches in
  three directories, with a broken one before sound ones, one with a column of
  its own, and a key exported three times by two directories.

Deadlock is checked where the system goes on for ever (`lock`, `drain`,
`drain_two`, `schema`, `nightly`): no modelled state there is one in which
everybody waits for everybody.  The other runs' jobs come to their end.

### Fairness, and why the code justifies it

* `WriterLock`: weak fairness of a process's next step: processes are
  scheduled, the polls of the flock and of the file are loops with a sleep,
  and every wait in the code ends in a timeout.  Strong fairness of
  `ReleaseFlock` for the path that may reconnect before it leaves: a holder
  does finish its work.  Nothing is assumed about obtaining the flock.
* `ThreadDrain`: weak fairness of fetch, apply and of the inbound sync.  For
  the first two this is an assumption on what is not in this repository: the
  nightly starts them only where `THREADS_IN_NIGHTLY=1` is set, and by default
  a standalone drain is trusted to (`nightly.sh:395`).  `CaughtUp` says what a
  drain that is started again and again achieves, not that anything starts it.
  None for faults, replies or time.
* `SchemaApply`: weak fairness of both lanes' steps, of a review that was
  begun, of the nightly lane, and of ageing (wall-clock time passes); strong
  fairness of `TakeFlock`, since `flock -w` queues in the kernel and each
  holder leaves.  None for crashes or for the start of apply/process.
* `InboxLoader`: weak fairness of the drain, which every nightly run starts.
* `MdWritePath`: weak fairness of the cron tick, of a new day and of a publish
  that has begun; strong fairness of `GatePasses`: of the ticks that find a fit
  snapshot, not every one fails to reach MotherDuck.  The gate may close for
  good to a snapshot, by its age or by a canary (`md_write_path.py:175`,
  `:179`): then `GatePasses` is not enabled for it, fairness says nothing of
  it, and `SnapshotReachesReaders` exempts it.  None for promotes, for
  snapshots becoming unfit, for rollbacks, manual publishes, failures or
  deaths.
* The rest: none.  Nothing in the code bounds an ingest or a request, and what
  the watchdogs promise is stated as safety over the checks they make.

## 4 Proofs

Eight modules prove every safety property of the runs `lock`, `drain`,
`schema`, `nightly`, `jobs` and `progress`, and four of the six of `ingests`,
for every value of the constants.  Every inductive invariant was first checked
by TLC as an invariant of its run.

| module | proves | for any |
|---|---|---|
| `HostProofs` | of the lock: types, `QueuedWritersExclusive`, `ConflictOnlyWithOutsiders`, `MarkerBlamesNobodyElse`, `CopyNotTorn`, `NoOrphanedOpen`; and that each of the eight host jobs keeps its invariant | processes and kinds; the constants of `HostJobs` |
| `NightlyRunProofs` | types, `SuccessIsWhole`, `ExitZeroIsClean`, `NoCutRunPublished`, `KickReadsTonight`, `CountersNeverAhead` | schedule |
| `ThreadDrainProofs` | types, `NoLeadPassedOver`, `NoHoles`, `AccountedUnlessKilled` | leads, workspaces, clock, lag, overlap above it, faults |
| `SchemaApplyProofs` | types, `OneEffectPerVersion`, `NotSwallowed`, the exclusion of the lanes, `ImplementsHistory` | contents, names, numbers, rows, faults |
| `IngestsProofs` | types, `CleanHandover`, `FailuresStayLocal`, `OnlyExposedAreLost` | ingests and their programs, passes, troubles |
| `MdWritePathProofs` | types, `PublishedIsWhole`, `RecordedWasServed`, `RollbackHasTarget`, `CanonicalSurvivesOneFailure`, `RollbackSticks` | snapshots, failures, deaths, manual publishes, rollbacks |
| `ProgressProofs` | `LeavesOnlyLanded`, `OnlyStragglersRegress`, and the invariants of `MC_Progress` | batches, directories, tables, modes, faults |
| `JobsProofs` | that each of the six other jobs keeps its invariant; of all fourteen `TypesOK`, `NothingForgotten`, `ReadersAreFresh`, `OutagesAreAnswered`, `MergesAreAgreed`, `SweepsAreHonest`, `ReviewsHold` | the constants of `Jobs` and `HostJobs`: transactions, nights, days, tables, files, domains, rules, outages, faults, retentions, batch sizes |

**HostProofs: the lock.**  Assumptions: `KindsAssumption` (the kinds are among
the six) and `NoPidAssumption`.  The invariant `IInv` is `TypeOK`, `StepKinds`,
`QueuedWritersExclusive`, `MarkerBlamesNobodyElse`, `NoOrphanedOpen` and
`OpenIsExclusive`.  Mutual exclusion is not inductive without `StepKinds`: one
must know that only a queued process can be past its flock, for instance that
`poll` is never reached by a reader.  `OpenIsExclusive` ties `db` to the one
process that writes; it rests on DuckDB's lock and not on the flock, and
`ConflictOnlyWithOutsiders` and `CopyNotTorn` follow from both together.
Theorems: `TypeCorrect`, `MutualExclusion`, `OnlyOutsidersConflict`,
`CopyIsWhole`, `MarkerIsOwn`, and `OpenIsOwned`, which states `NoOrphanedOpen`:
nothing that ended has the file open.

**NightlyRunProofs.**  Assumption: `ScheduleAssumption` (two passes, each a
sequence without repetition, no ingest in both).  The invariant has two
halves.  `Flow` says where the night stands: an orchestrator runs only for the
pass the script waits for (`Waiting`), passes end in their order (`InOrder`),
status 0 is left by `end_run` alone (`ZeroIsSuccess`), a run that was cut is
still on its dead connection or has left as an abort (`CutIsKnown`; without it
the gate before a promote could not be related to the state of the
connection), and what the script has decided follows from the statuses
(`Decided`).  `Audit` says what the rows and counters mean *during* a run:
which ingests are ahead (`TodoIsAhead`), that rows name only called ingests
(`AuditBegins`), that between the two statements of `log_phase` the row is
one ahead of the counters (`BumpIsDue`), and that a run without a failure so
far has logged all it called but the one at hand (`SoFarWhole`), which is what
`SuccessIsWhole` needs at `EndRun`.  `Audit` is proved on top of `Flow`.  Its
lemmas about sequences (`TailShrinks`, `RemoveAtShrinks`) and finite sets
(`IngestsFinite`, `SomeIngests`) come first.  Theorems: `TypeCorrect`,
`SuccessWhole`, `ExitZero`, `PublishesWhole`, `KickAfterBoth`, and
`CountersHold`, which states `CountersNeverAhead`: counters never claim a row
that is not there, wherever the two statements are cut.

**ThreadDrainProofs.**  Assumptions: the overlap is at least the lag and the
leads are finitely many, each at home in a workspace.  What goes wrong in the
drain depends on which faults may meet, so the theorems name the settings.
`Survives(setting)` excludes three combinations in which a lead of the retry
ledger is for a moment neither on disk nor in memory: a killed fetch that could
not append to the ledger, a ledger rewritten before a kill or before the
quarantine of its rows, and a ledger rewritten before an apply that fails and
whose stage is then removed (the finding under *Drain* below).
`CutDropped(setting)` says that a stage that may hold a thread cut by the
pagination ceiling is not kept for the next run: the `.ceiling` sidecar of a
kept stage is written anew by the next run, without what only the earlier one
had quarantined, so `NoHoles` would fail.  Every setting the runs check
satisfies both (`SurvivedAssumption`, evaluated by TLC).  The invariant `IInv`
follows a mark from where it is born to the watermark file: the keys of the
closed slots (`PullSound`), the mark in memory and in the sidecar
(`ProgressSound`), the watermark (`MarkSound`); each says that a lead the mark
passes by was *reached* by a row, staged or committed, or is in a ledger.
`RetriedSound`, `LedgerKept` and `Forgotten` say where a ledger entry is during
the rewrite, `LagKept` that what the sync has not yet brought in is younger than
the overlap.  `NoHoles` has an invariant of its own, `WInv`: what is staged or
committed of a lead is a prefix of its thread, or its workspace is in
quarantine, and the sidecar on disk is the set in memory.  Its lemmas are about
greatest elements (`MaxOfBounded`, by well-foundedness of the naturals, since
induction cannot be used), marks (`LatestMark`) and the appending of rows.

**SchemaApplyProofs.**  Assumptions: `NameOfAssumption`, `NoDdlAssumption`,
`LandmineAssumption`, `BoundsAssumption`.  The invariant relates who holds the
flock to where the lanes are (`FlockFollowsLanes`), the row in hand to its
authorisation (`SubjectIsAuthorised`), the two checkouts to what was merged
(`CheckoutsAreMerged`) and the effects to `schema_version`.
`OneEffectPerVersion` is inductive only with the first: a lane between its
check and its record must know that the other has not recorded meanwhile.
`NotSwallowed` needs that a row keeps its content while it waits for its
status (`QueueGrows`).  `Refinement` maps each step: merging, landing a merged
content on a fresh version and promoting are steps of `SchemaHistory`, all
others, among them every crash, reap, retry and review, stutter.

**IngestsProofs.**  Assumptions: `SlicesAssumption`, `ProgramAssumption` and
`ScheduleAssumption` (programs are well formed, a pass does not register an
ingest twice), and `HandledAssumption`: every BEGIN has its COMMIT in its own
block with no test between that could leave it, and a handler, but for
`im_bookings` and for the processes of the tail, which close their connection
when they end.  The last is a statement about all 76 programs; TLC evaluates
it, and it is what makes `CleanHandover` true: `TxEnclosed` says that an open
transaction has its COMMIT ahead in the block at hand.  `Booked` ties exit
status and audit rows to what has been called, `Blamed` keeps a failed row from
an ingest that met no trouble.  These hold until `im_bookings` meets an error
(`Leaked`), as the code has it.

`OnlyExposedAreLost` rests on `KeptAssumption`: every step of every program is
`MadeGood`.  That too is about the 76 programs as they are and evaluated by TLC;
what is proved is that it *suffices*, whatever fails, is killed, or does not
answer, and in whatever state the connection is taken over.  `KeepInv` says that
on disk no kept table has a hole (`Solid`), and that inside a transaction every
hole is a debt (`Debts`): a slice that the block at hand has cleared itself and
that one of its later steps, before the COMMIT, fills again.  A hole in memory
alone is harmless, for a death or a ROLLBACK drops it; the COMMIT is where the
two meet, and there `MadeGood` leaves no debt.  To pay a debt the answer must
be there: `AnswersKnown` relates the tests a block has passed to what the source
has answered, and is where it matters that an answer is tested *after* it was
pulled, and for every slice it is going to fill.  A table outside of a
transaction is never emptied at all if it is kept.

**MdWritePathProofs.**  No assumption on the bounds but that they are numbers,
and that only for the types.  `BuildsAside` is the heart: a publish builds in
the colour that is not served *unless a rollback has moved the pointer there
meanwhile*, which is why `PublishedIsWhole` speaks of a pointer last moved by a
publish.  `KeepsPrevious` says that without a rollback the colour served before
stays whole and is the one recorded, `SnapshotsGrow` that a publish never
carries an older snapshot than the recorded one.  `RollbackSticks` is about what
readers were taken off, and the gate looks at what was recorded: that the two
agree is the argument.  `Known(snap)` says that a snapshot is the recorded one,
or its publish ended before the record or is about to write it;
`WithdrawnIsKnown` that this holds of what the last rollback withdrew, and of
whatever the pointer serves other than the previous colour.
`CanonicalAtRisk` says at
which statements the canonical name is missing and what then still holds its
predecessor.

**ProgressProofs.**  The inbox loader first.  `OvertakenFailed` is what makes
`OnlyStragglersRegress` inductive: a batch that stays in the inbox while a later
one of its directory has left it has *failed* in some run.  A killed run alone
lets nothing overtake, because each run lists a directory afresh and works in
order (`PassedOverFailed`).  Then the composition: `SamePublish` and `SameLanes`
say that the instances of the proof modules are those of `MC_Progress`,
`Constants` that their assumptions hold there, and the theorems state all three
invariants of the run and `RollbackSticks` (`RollbacksAreKept`) for the three
jobs together.

**HostProofs and JobsProofs: the jobs.**  Each of the fourteen jobs has an
inductive invariant that its own module states (`CompactInv`, `ReportInv`,
`WatchInv`, `FlipInv`, `EscrowInv`, `BackupInv`, `CallsInv`, `ReadInv`;
`PublishInv`, `ReviewInv`, `GateInv`, `MergeInv`, `SweepInv`, `WalkInv`), and a
lemma that its initial states satisfy it and one that its steps keep it.  Since
a behaviour runs one job and never changes `job`, `JobsInvariance` follows from
the lemmas, and the seven theorems about `JobsSpec` from it.  The lemmas are in
two modules only because the provers' time grows with the instances in scope.
Assumptions: those `HostJobs` and `Jobs` name, one a job; all say that bounds
are numbers and sets finite where they are counted, and a few that there is one
day, file or snapshot at least.  `CopyAssumption` has the retention away from
the host be at least two days, where the default of `backup.sh` is ten: with
one day the pruning would take the copy it has just pushed when a push lasts
over midnight.

* *The merge.*  What a run has looked at it carries as a stamp, the number of
  pushes and of marks so far: `StampsAreOld` says that no stamp is ahead of
  the world, `RunKnowsItsHead` and `RunHasBothKeys` that until the author acts
  again what the run holds is what the pull request shows, `ArmedHasBothKeys`
  the same of a merge that is armed and left to GitHub.
* *The sweep.*  `OncePerNight` and `NothingMissing` say where a domain's result
  is: still to be asked, in the buffer or in exactly one row; `ChecksHaveRows`,
  `ListingsFollow` and `NoiseHasMark` tie the blocklist rows to the sweep rows
  they were flushed with, `CoreHasRows` ties `core.domain` to a whole sweep.
* *The walk.*  `NothingDropped`: a target of a visited domain is visited or on
  the stack as long as no limit was met.  Two arguments finish it: what holds
  of the root and along every target holds of all that is reached
  (`ReachedIsClosed`, since `Reached` is the least such set), and a depth never
  exceeds the number of domains visited (`DepthIsCounted`), so that the limit
  on depth stops no walk that the limit on their number would let through.
* *The reviews.*  Versions are only appended (`Kept`), so that what a request
  has read of its version stays what that version says (`Judged`) whatever is
  published before its row is written; what a decision promotes with is in force
  before it is marked (`Backed`), and versions only being appended it stays in
  force in that one; a number is above what its caller could read (`Grows`) and
  nobody's when it is reserved.
* *The gate.*  `BaselineIsBelow` and `EffectShows`: between the two counts
  nobody else moves the tables, so that a file that brought one to a second
  enforcement shows as an offender if both catalogs were read, and an offender
  is such a file unless the counts before were not all there (`GateJudges`).
  `NotJudgedYet` is needed because a file of a version that is there skips the
  gate with the verdict the run began with.

* *The compaction.*  `SwapInOrder` says at each command of the swap which file
  is there: the primary until it is moved out, then the newest backup; and that
  no log is left when the new file is moved in, since a log found beside
  another file would be replayed into it.  `CopyInOrder` says that what was
  counted, exported and imported is what can be read at that moment, from the
  one or from the other.  Between the two renames of a restore the log is still
  with the backup and belongs to the primary; that nothing but its rows is lost
  if it stays there is why `left` is counted.
* *The publish.*  `WholeSoFar` counts the copies of a chunk: those the client
  has gone past are there, those not repeated at most once, those still out
  not yet; `PublishInOrder` says that what outlives its client was repeated.
* *The report.*  `SyncInOrder`: from the end of its phases on, what is served is
  the snapshot asked for before or one that holds what was landed.
  `NightInOrder`: nothing is promoted under the first pass, so a snapshot
  younger than the nightly's start is younger than the end of that pass.
* *The success watchdog.*  `OutageIsCounted`: what two checks in a row will see
  has been counted once.
* *The flip.*  `FlipInOrder`: where no run was cut, the drop-in says what is
  served, and each run that ended in an outage left a strike; `StrikesInOrder`
  says that strikes are bad answers, of now or from before a state that was not
  saved (`kept`).
* *The vault.*  `ExportInOrder` accounts for each table of an export's
  snapshot: left, got, skipped or failed; `VaultInOrder` that nothing lies in a
  day to come and a manifest is of a snapshot.  `GapsAreCounted` ties what was
  told to the one latch: it is up exactly from the second count on, and if the
  last post was not about the vault, an older alarm stood when the gap began
  (`masked`).
* *The backup.*  `CopyAtHand`: the run at work has its copy on the volume, and
  it is too young to be pruned.
* *The calls.*  `BatchInHand` and `HandsAreApart`: all a run has done is in its
  hands or in the table, and a call in two hands, or in one and the table, is
  shared; `ViewsAreOld` says that a view of the tables has only texts that were
  written.  `CountsInOrder` ties the watchdog's counts to its last page, as
  long as its state was read and saved.
* *The read API.*  `ServedInOrder` orders pointer, link, build and what clients
  have seen as long as nothing was turned back; `AboutServed` and `NothingNewer`
  carry that through the steps of a request.

**What the attempts found.**  `OutageReturnsToLocal` was false of the model from
two faults on: a flip whose `systemctl restart` failed, and that was killed
before it took its drop-in away, was not counted as cut (`md_autoflip.py:35`
looks at no exit status); it is, and the run `jobs` has two faults.  Slices
that came through one loop of an ingest were taken to have come through the
next (`NextSlice`).  The census and the labels made from it could be found with
a hole although they were on no list (section 5).  And two assumptions had to be
made that the small values satisfied by chance: the retention above, and that
there is a day at all.

**Only model-checked.**  Liveness (`FlockComesBack`, `CaughtUp`,
`SnapshotReachesReaders`, `SoundBatchesLand`, `RowsSettle`), which is outside
the reach of the prover here.  `LossIsReported` and `MendedNextNight`: that the
maker of a hole has a failed row, and that the next night mends it, depends on
each of the 76 programs and on the order they run in, through tables that
others fill; no condition on single steps implies it, and going through the
programs is what TLC does.

## 5 Findings

With a run whose counterexample is a behaviour of the code against a sentence
of the repository:

1. `drain_antijoin`.  Rows reach the stage newest first through an unsynced
   buffer (`entities/email_thread_sync.py:560`); a killed fetch can leave the
   newest part of a thread, and discovery takes a later message as proof of
   the earlier ones.
2. `compact_lost`.  A death after the first rename leaves no primary
   (`scripts/compact_warehouse.sh:155`).  The next writer lets DuckDB create an
   empty one, and the next compaction prunes the backup that has the data,
   which line 7 says is never deleted.
3. `report_guard`.  The backfill's guard takes the last "ended" line of an
   orchestrator for the nightly's end (`scripts/daily_report_sync.sh:117`);
   since there are two passes, it may be that of PASS A.  Line 19 says that it
   skips unless the nightly completed.
4. `watchdog_silent`.  The early check takes a host for healthy whose loads it
   has just logged as stale, and clears the count the late check has begun
   (`scripts/nightly_success_watchdog.sh:163`): data that stays old under a
   nightly that promotes is never reported, against line 145.

Met while modelling and part of the models, without a run of their own:

* *Lock and nightly.*  The stale-marker guard reads, probes and truncates
  without the flock (`core/db.py:121`), so a writer that signs in between
  loses its live marker (`scripts/nightly.sh:76` says that only dead pids are
  cleared); mutual exclusion does not depend on it.  An orchestrator that dies
  before its first ingest leaves with the status of a partial run
  (`core/orchestrator.py:216` against `scripts/nightly.sh:190-194`).  A module
  that does not import is only logged (`core/orchestrator.py:95`).
* *Drain.*  The ledger is rewritten without the leads just retried before
  their rows are committed (`email_thread_sync.py:1150`); if apply fails and
  the stage is removed, a lead older than the overlap is in no ledger
  (`nightly.sh:426` promises a clean re-pull).
* *Schema.*  A row under review when the service dies stays in a status no
  reaper looks at (`moderator_engine.py:1332`).  The nightly hashes a file and
  reads it again to run it (`core/db.py:357`).  Applied versions are not served
  if the service dies before the promote (`moderator_apply.py:790`).
  `decide_proposal` checks no status (`moderator_engine.py:1137`), and marks a
  proposal promoted whose draft is a note with nothing published of it
  (`:1147-1156`).  A source of the highest number that cannot be read counts as
  0 (`:1013`, `:1021`, `:1031`), so a number only that source knows may be
  given again; `NumbersDistinct` claims no more than what was read.  Two
  changes of a unique index pass while the catalog lags (`:303`); synonyms
  carry no version, so a row can be judged by synonyms newer than it says.  The
  client turns green on a service error (`moderator_client.py:512`), and the
  automatic merge names the pull request and not the head that was judged
  (`:811`, against `two_key_merge.py:4`).
* *Ingests.*  `account_tags` deletes a workspace's tags in a statement that
  commits before the INSERT, and a failure is only noted
  (`entities/account_tags.py:287`): nobody is told, and `LossIsReported`
  exempts it; that the next night mends it is `MendedNextNight`;
  `sending_account` is emptied and refilled from a temporary copy of itself,
  which a death takes along (`entities/sending_account.py:58`); `sending_dq`
  replaces its table by an empty one before it fills it
  (`entities/sending_dq.py:237`); `im_bookings` may raise between BEGIN and
  COMMIT (`entities/im_bookings.py:193`), and what follows hangs on its
  transaction.  A workspace whose key fails is marked inactive
  (`entities/workspace.py:169-181`), and the census carries yesterday's rows
  forward for active workspaces only (`entities/account_census.py:91-118`, "so
  the census stays complete"): if both calls fail, its accounts leave the
  census.
* *MotherDuck.*  A rollback during or after a failed build serves the
  half-built colour (`md_write_path.py:130` against `:18`).  After a publish
  that died between flip and record (`:308`, `:312`) `previous_color` is of the
  publish before: a first `--rollback` flips to the colour that is served, and
  changes nothing; if an earlier one had moved the pointer back, the next does
  take readers off the unrecorded snapshot, and the next tick, whose gate
  compares with the recorded one, serves it again.  To a snapshot whose last
  healthy nightly is over 30 hours old, or that fails a canary, the gate stays
  closed (`:175`, `:179`): readers stay on what they have until the next
  promote.  The flip's probe takes any error of its write for a read-only token
  (`md_autoflip.py:85-92`), a rollback that is cut between drop-in and restart
  is not resumed (`:60`), and strikes may survive it (`:72`).  Strikes that
  cannot be read are none, and a failing write of them is passed over
  (`:49-54`), so an outage may take more runs than three, and strikes from
  before a good answer may count.  The health watchdog writes its file without
  a guard (`md_health_watchdog.py:104`): an alarm posted and not recorded is
  posted again, a recovery may never be told.
* *D1.*  A mirror written in half keeps last night's meta row
  (`publish_campaign_data_d1.py:399`, against `:336`).
* *Escrow.*  The check after an upload compares bytes, not the row count its
  docstring names (`escrow_export.py:131-140`, against `:11-12`).  Under Object
  Lock a healing run cannot write the day's manifest again (`:124`); without it
  a later failing run drops tables from it.  The watchdog has one count and one
  latch for the vault and for the read API (`escrow_watchdog.py:117-129`): a
  gap that begins while an alarm about the read API stands is not told, and no
  recovery is told while either lasts.  Its state too may be lost (`:94`,
  `:135`).
* *Compaction.*  The fallback of the swap restores the database and its log by
  two renames and reads neither status (`compact_warehouse.sh:159`, `:164`).
  If the second is cut off or fails, the primary is without its log: the
  transactions that a failed CHECKPOINT had left there, and that the comment
  above (`:161-163`) is about, are in `warehouse.precompact-*.wal` only, which
  nothing replays.
* *Backup.*  The low-disk exit comes before the pruning (`backup.sh:78`), so
  the files that fill the volume keep it full; a torn copy has the final name
  and counts as fresh (`:88`, `:59`).
* *Watchdogs and report.*  An alarm counts as posted even if Slack refused it
  (`nightly_success_watchdog.sh:403`); the SLA watchdog takes no flock
  (`daily_report_sla_watchdog.sh:67`); if the
  snapshot id cannot be read before the promote, any answer after it looks new
  (`daily_report_sync.sh:232`).
* *Transcripts.*  The watchdog's state that cannot be read is none and a
  failing write of it only goes to stdout
  (`transcribe_coverage_watchdog.py:177-180`, `:208-213`): the day's count is
  lost and its page late, or a page that was taken back, and that not saved,
  keeps the next one from going out.  The cron's run and the watchdog's healing
  run may list the same call, or one of them lists an old snapshot; the INSERT
  overwrites, so a tombstone can go over a text (`transcribe_calls.py:119`).
  The classifier knows no marker for the flock's own timeout
  (`classify_call_outcomes.py:69`), so that raises where a busy file is waited
  for.
* *Read API.*  The schema is read from one place and labelled by a second look
  (`mcp_server.py:302`).  The server refuses to start with a token that can
  write only where a local snapshot exists (`:383`), and takes any error of the
  probe for a refusal of the write.
* *Integrity gate.*  The counts after a file come from a function that turns
  an error of the index catalog into "no table has any"
  (`moderator_integrity_gate.py`, `snapshot_key_index_counts`), so the gate lets
  the file through, where `_combined_key_enforcement_counts` says that such an
  error must propagate so that the caller can fail closed (`:150`).  A blocked
  file stays applied: enqueued again it is found applied and its row is
  committed.  A count that failed before a file blames it for a duplicate
  that was there.
* *DNS.*  A domain whose sweep raised is recorded clean (`dns_sweep.py:86`
  against `dns.py:29`), and a lost SPF or DKIM answer changes the signature
  (`dns.py:713`).

The properties that hold are stated around these, and each says so: `NoHoles`
and `AccountedUnlessKilled` exempt settings with a kill amid a pull, `CaughtUp`
claims no more than the last reply where a fetch may be killed, `RowsSettle`
exempts review, `NoCutRunPublished` exempts the 06:30 timer, which has no gate,
`PublishedIsWhole` a pointer last moved by a rollback, `RollbackSticks` what a
publish served and never recorded, `SnapshotReachesReaders` an unfit snapshot,
`NothingForgotten` the log a restore left behind, `OutagesAreAnswered` a state
file that was lost and a vault gap behind a read-API alarm, `ReviewsHold` notes
and numbers that nobody could read, `SweepsAreHonest` domains whose sweep
raised, `MergesAreAgreed` pushes after the run has looked, `LossIsReported` the
ingests in `Hushed`.

## 6 What is not modelled

* *Data.*  What the transforms compute, the columns of an upsert, the texts of
  rules, the language-model panel of a review (it is a nondeterministic
  answer), the contents of reports.  A DDL, a thread and a batch are values, a
  table a few slices.
* *Other modes.*  `--dry-run`, `--phase` and `ORCHESTRATOR_ARGS` of the
  nightly; the override, full and live modes and the deadline of the drain;
  the enforcing mode of the file-hash tooth (the default, a warning, is).
* *Pure input and output.*  HTTP clients and their paging, the read API's
  tokens, its HTTP and its SQL guard, the renderers (`render_daily.py`,
  `portal_data.py` and the like, whose result is a page), portal feeds, the
  Parquet export and the off-box mirror.
* *What starts the thread drain.*  `threads_daytime_drain.sh`, the standalone
  drain the nightly defers to (`nightly.sh:395`), is not in `src/`.
* *A rename of the log that fails* before the new file is moved in
  (`compact_warehouse.sh:158`): its status is not read, and the swap goes on.
* *The drift watchdog*, and of the success watchdog the reason for a
  lock held too long and the signals that cannot be read.
* *Bulk backfill* (`email_thread_bulk.py`), an operator's tool, and the `intent`
  phase (`reply_intent_llm.py`), which `PHASE_ORDER` no longer has.
* *The retired publisher* `scripts/publish_serving.sh`, whose call is
  commented out.
* *Two nights overlapping.*  The second would wait for the writer lock; the
  night's state is one night's.  Nor a backup that is started by hand.

## 7 Plan

Open, in the order of what they would say:

* A condition on programs from which `LossIsReported` follows, as `MadeGood` is
  one for `OnlyExposedAreLost`: every hole's maker reaches a step that raises or
  notes.
* `SnapshotReachesReaders` and the other liveness properties by ranking
  arguments on paper; the prover here has no rule for them.
* The modes section 6 leaves out, the nightly's ad-hoc mode first.
