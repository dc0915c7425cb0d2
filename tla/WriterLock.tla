------------------------------ MODULE WriterLock ------------------------------
(***************************************************************************)
(* The single-writer discipline around warehouse.duckdb.                   *)
(*                                                                         *)
(* Two locks and a note in a file.  The kernel flock on                    *)
(* warehouse.write.lock queues the writers that know of it; DuckDB's own   *)
(* lock on the database file refuses a second opener whoever it is; and    *)
(* the lock file carries a marker "pid=N" which the kernel knows nothing   *)
(* about.  Processes come by six roads:                                    *)
(*   python    core/db.py connect(): clears a stale marker, polls the      *)
(*             flock, then writes its own marker                           *)
(*   wrapped   scripts/with_warehouse_lock.sh: opens the file with ">",    *)
(*             flock -w, exports WAREHOUSE_WRITE_LOCK_HELD=1, exec         *)
(*   flockc    flock -w 300 "$LOCK" -c "...", the variable exported too    *)
(*             (scripts/meetings_refresh.sh)                               *)
(*   cli       a writer that takes no flock (the duckdb CLI)               *)
(*   reader    core/db.py connect(read_only=True)                          *)
(*   promoter  scripts/nightly.sh promote_serving: clears a stale marker,  *)
(*             then runs the external publisher, which aborts on any       *)
(*             marker and holds the flock while it copies the database     *)
(* A pid whose process has gone may be given to a new process.             *)
(***************************************************************************)
EXTENDS FiniteSets

CONSTANTS Pid, Kinds, NoPid

AllKinds == {"python", "wrapped", "flockc", "cli", "reader", "promoter"}

ASSUME KindsAssumption == Kinds \subseteq AllKinds
ASSUME NoPidAssumption == NoPid \notin Pid

VARIABLES
  kind,    \* kind[p]: the road by which process p came
  pc,      \* pc[p]: where p is; "gone" is a pid that names no process
  seen,    \* seen[p]: the pid p last read from the marker
  marker,  \* the pid in the lock file's marker, NoPid for an empty file
  flock,   \* the process holding the kernel flock
  db,      \* the process holding the database file read-write
  readers  \* the processes holding the database file read-only

vars == <<kind, pc, seen, marker, flock, db, readers>>
store == <<db, readers>>

Steps == {"gone", "open", "probe", "stale", "poll", "claim", "sign", "held",
          "writing", "reading", "closed", "check", "copying", "dying"}

TypeOK ==
  /\ kind \in [Pid -> AllKinds]
  /\ pc \in [Pid -> Steps]
  /\ seen \in [Pid -> Pid \cup {NoPid}]
  /\ marker \in Pid \cup {NoPid}
  /\ flock \in Pid \cup {NoPid}
  /\ db \in Pid \cup {NoPid}
  /\ readers \in SUBSET Pid

Init ==
  /\ kind \in [Pid -> Kinds]
  /\ pc = [p \in Pid |-> "gone"]
  /\ seen = [p \in Pid |-> NoPid]
  /\ marker = NoPid /\ flock = NoPid /\ db = NoPid
  /\ readers = {}

Goto(p, from, to) == pc[p] = from /\ pc' = [pc EXCEPT ![p] = to]

\* kill -0: a pid that names a process, even one that is being torn down.
PidAlive(q) == pc[q] # "gone"

FirstStep(k) ==
  CASE k \in {"python", "wrapped", "promoter"} -> "open"
    [] k = "flockc" -> "poll"
    [] k \in {"cli", "reader"} -> "held"

Start(p, k) ==
  /\ Goto(p, "gone", FirstStep(k))
  /\ kind' = [kind EXCEPT ![p] = k]
  /\ seen' = [seen EXCEPT ![p] = NoPid]
  /\ UNCHANGED <<marker, flock, store>>

-----------------------------------------------------------------------------
(* The lock file and the flock.                                            *)

\* exec 200>"$LOCK_FILE": the shell truncates the file before flock waits.
OpenTruncating(p) ==
  /\ kind[p] = "wrapped"
  /\ Goto(p, "open", "poll")
  /\ marker' = NoPid
  /\ UNCHANGED <<kind, seen, flock, store>>

\* _clear_stale_lock_marker, in its three steps: read the pid ...
ReadMarker(p) ==
  /\ kind[p] \in {"python", "promoter"}
  /\ Goto(p, "open", "probe")
  /\ seen' = [seen EXCEPT ![p] = marker]
  /\ UNCHANGED <<kind, marker, flock, store>>

AfterClear(p) == IF kind[p] = "promoter" THEN "check" ELSE "poll"

\* ... ask whether it is alive ...
ProbeMarker(p) ==
  /\ LET stale == seen[p] # NoPid /\ ~PidAlive(seen[p])
     IN Goto(p, "probe", IF stale THEN "stale" ELSE AfterClear(p))
  /\ UNCHANGED <<kind, seen, marker, flock, store>>

\* Mutant: the guard claims the marker for itself instead of emptying it.
TruncateStale_Claims(p) ==
  /\ Goto(p, "stale", AfterClear(p))
  /\ marker' = p
  /\ UNCHANGED <<kind, seen, flock, store>>

\* ... and truncate the file in place, whatever it holds by now.
TruncateStale(p) ==
  /\ Goto(p, "stale", AfterClear(p))
  /\ marker' = NoPid
  /\ UNCHANGED <<kind, seen, flock, store>>

AfterFlock(p) ==
  CASE kind[p] = "python" -> "claim"
    [] kind[p] = "promoter" -> "copying"
    [] OTHER -> "held"

TakeFlock(p) ==
  /\ flock = NoPid
  /\ Goto(p, "poll", AfterFlock(p))
  /\ flock' = p
  /\ UNCHANGED <<kind, seen, marker, store>>

\* Mutant: the deadline ends the wait and the writer goes on without the lock.
WaitTimeout_Proceeds(p) ==
  /\ flock # NoPid
  /\ Goto(p, "poll", "held")
  /\ UNCHANGED <<kind, seen, marker, flock, store>>

\* RuntimeError after _WRITE_LOCK_WAIT_S, exit 75 after flock -w.
WaitTimeout(p) ==
  /\ flock # NoPid
  /\ Goto(p, "poll", "dying")
  /\ UNCHANGED <<kind, seen, marker, flock, store>>

\* os.ftruncate(fd, 0), then os.write(fd, "pid=...").
TruncateOwn(p) ==
  /\ Goto(p, "claim", "sign")
  /\ marker' = NoPid
  /\ UNCHANGED <<kind, seen, flock, store>>

\* Mutant: the road is written where the pid should be.
SignMarker_Road(p) ==
  /\ Goto(p, "sign", "held")
  /\ marker' = kind[p]
  /\ UNCHANGED <<kind, seen, flock, store>>

SignMarker(p) ==
  /\ Goto(p, "sign", "held")
  /\ marker' = p
  /\ UNCHANGED <<kind, seen, flock, store>>

-----------------------------------------------------------------------------
(* The database file.                                                      *)

Conflict(p) ==
  IF kind[p] = "reader" THEN db # NoPid ELSE db # NoPid \/ readers # {}

OpenReadWrite(p) ==
  /\ kind[p] # "reader" /\ ~Conflict(p)
  /\ Goto(p, "held", "writing")
  /\ db' = p
  /\ UNCHANGED <<kind, seen, marker, flock, readers>>

OpenReadOnly(p) ==
  /\ kind[p] = "reader" /\ ~Conflict(p)
  /\ Goto(p, "held", "reading")
  /\ readers' = readers \cup {p}
  /\ UNCHANGED <<kind, seen, marker, flock, db>>

\* "Conflicting lock": at once without flock, after _DB_LOCK_RETRY_S with it.
OpenFails(p) ==
  /\ Conflict(p)
  /\ Goto(p, "held", "dying")
  /\ UNCHANGED <<kind, seen, marker, flock, store>>

CloseDb(p) ==
  /\ \/ Goto(p, "writing", "closed")
     \/ Goto(p, "reading", "closed")
  /\ db' = IF db = p THEN NoPid ELSE db
  /\ readers' = readers \ {p}
  /\ UNCHANGED <<kind, seen, marker, flock>>

\* A second connect() in one process: the flock is kept, no second flock.
Reconnect(p) ==
  /\ kind[p] \in {"python", "wrapped", "flockc"}
  /\ Goto(p, "closed", "held")
  /\ UNCHANGED <<kind, seen, marker, flock, store>>

\* Mutant: the flock is given back while the connection is still open.
ReleaseFlock_Early(p) ==
  /\ pc[p] \in {"writing", "closed"} /\ flock = p
  /\ flock' = NoPid
  /\ pc' = IF pc[p] = "closed" THEN [pc EXCEPT ![p] = "gone"] ELSE pc
  /\ UNCHANGED <<kind, seen, marker, store>>

\* Mutant: the process ends but a child keeps the descriptor.
ReleaseFlock_Inherited(p) ==
  /\ Goto(p, "closed", "gone")
  /\ UNCHANGED <<kind, seen, marker, flock, store>>

\* _release_write_lock at exit, or the wrapper's fd closing.  The marker stays.
ReleaseFlock(p) ==
  /\ Goto(p, "closed", "gone")
  /\ flock' = IF flock = p THEN NoPid ELSE flock
  /\ UNCHANGED <<kind, seen, marker, store>>

-----------------------------------------------------------------------------
(* The serving publisher (external), as scripts/nightly.sh relies on it.   *)

PublisherAborts(p) ==
  /\ marker # NoPid
  /\ Goto(p, "check", "dying")
  /\ UNCHANGED <<kind, seen, marker, flock, store>>

\* Mutant: the publisher copies without taking the writer flock.
PublisherQueues_NoFlock(p) ==
  /\ marker = NoPid
  /\ Goto(p, "check", "copying")
  /\ UNCHANGED <<kind, seen, marker, flock, store>>

PublisherQueues(p) ==
  /\ marker = NoPid
  /\ Goto(p, "check", "poll")
  /\ UNCHANGED <<kind, seen, marker, flock, store>>

PublisherDone(p) ==
  /\ Goto(p, "copying", "gone")
  /\ flock' = NoPid
  /\ UNCHANGED <<kind, seen, marker, store>>

-----------------------------------------------------------------------------
(* Death.  The kernel closes the descriptors in ascending order, and the   *)
(* lock file was opened before the database: the flock goes first.         *)

Crash(p) ==
  /\ pc[p] \notin {"gone", "dying"}
  /\ pc' = [pc EXCEPT ![p] = "dying"]
  /\ UNCHANGED <<kind, seen, marker, flock, store>>

CloseLockFd(p) ==
  /\ pc[p] = "dying" /\ flock = p
  /\ flock' = NoPid
  /\ UNCHANGED <<kind, pc, seen, marker, store>>

Reap(p) ==
  /\ flock # p
  /\ Goto(p, "dying", "gone")
  /\ db' = IF db = p THEN NoPid ELSE db
  /\ readers' = readers \ {p}
  /\ UNCHANGED <<kind, seen, marker, flock>>

-----------------------------------------------------------------------------
ClearMarker(p) == ReadMarker(p) \/ ProbeMarker(p) \/ TruncateStale(p)
AcquireFlock(p) == TakeFlock(p) \/ WaitTimeout(p)
WriteMarker(p) == TruncateOwn(p) \/ SignMarker(p)
Open(p) == OpenReadWrite(p) \/ OpenReadOnly(p) \/ OpenFails(p)
Publish(p) == PublisherAborts(p) \/ PublisherQueues(p) \/ PublisherDone(p)
Die(p) == CloseLockFd(p) \/ Reap(p)

\* What p does of its own accord once started.
Proceed(p) ==
  \/ OpenTruncating(p) \/ ClearMarker(p) \/ AcquireFlock(p) \/ WriteMarker(p)
  \/ Open(p) \/ CloseDb(p) \/ Publish(p) \/ Die(p)

Next ==
  \E p \in Pid :
    \/ \E k \in Kinds : Start(p, k)
    \/ Proceed(p) \/ Reconnect(p) \/ ReleaseFlock(p) \/ Crash(p)

Spec == Init /\ [][Next]_vars

\* A started process keeps running; its timeouts are real (poll loops against
\* a deadline, flock -w); a job closes its connection and does not reconnect
\* for ever.  Nothing obliges anyone to start or to crash.
Fairness == \A p \in Pid :
  /\ WF_vars(Proceed(p))
  /\ SF_vars(ReleaseFlock(p))

FairSpec == Spec /\ Fairness

-----------------------------------------------------------------------------
(* Properties.                                                             *)

\* The steps at which a process relies on owning the flock.
Queued == {"python", "wrapped", "flockc", "promoter"}
UnderFlock(p) ==
  /\ kind[p] \in Queued
  /\ pc[p] \in {"claim", "sign", "held", "writing", "closed", "copying"}

\* Writers that queue are serialised: past its flock a process still owns it,
\* whatever the env short-cuts (WAREHOUSE_WRITE_LOCK_HELD) skipped, and no
\* exit, timeout or crash path of another process gave it away.
QueuedWritersExclusive == \A p \in Pid : UnderFlock(p) => flock = p

\* What the queue is for (db.py 36-52): a queued writer that finds the
\* database file locked is blocked by someone outside the queue, or by a
\* predecessor that died and whose descriptors are still being closed.
ConflictOnlyWithOutsiders ==
  \A p \in Pid : UnderFlock(p) /\ db \notin {NoPid, p} =>
    kind[db] = "cli" \/ pc[db] = "dying"

\* The promoted copy is not torn by a queued writer (nightly.sh 90-92).
CopyNotTorn ==
  \A p \in Pid : pc[p] = "copying" =>
    \A q \in Pid : pc[q] = "writing" => kind[q] = "cli"

\* Once a python writer has signed, the marker never names somebody else:
\* it may be wiped, but an operator is not sent after the wrong process.
MarkerBlamesNobodyElse ==
  \A p \in Pid : kind[p] = "python" /\ UnderFlock(p) /\ pc[p] # "claim" =>
    marker \in {p, NoPid}

\* A process that holds the database has a live, running open on it: nothing
\* that ended left the database locked.
NoOrphanedOpen ==
  /\ db # NoPid => pc[db] \in {"writing", "dying"}
  /\ \A p \in readers : pc[p] \in {"reading", "dying"}

\* Every holder gives the flock back, on every path out of its work.
FlockComesBack == \A p \in Pid : flock = p ~> flock # p
=============================================================================
