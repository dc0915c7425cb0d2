------------------------------ MODULE HostProofs ------------------------------
(***************************************************************************)
(* Proofs about what shares the warehouse's host: WriterLock, for any set  *)
(* of processes and of kinds, and the jobs of HostJobs, for any values of  *)
(* their constants, that each keeps the inductive invariant its module     *)
(* states.  In a lemma about a job the variables are v1 to v15: its        *)
(* INSTANCE in HostJobs says which variable of its module each stands for. *)
(***************************************************************************)
EXTENDS WriterLock, HostJobs, FiniteSetTheorems, SequenceTheorems, WellFoundedInduction, TLAPS

-----------------------------------------------------------------------------
(* The writer lock.                                                        *)

\* Which road leads to which step.
StepKinds ==
  \A p \in Pid :
    /\ pc[p] \in {"claim", "sign"} => kind[p] = "python"
    /\ pc[p] \in {"probe", "stale"} => kind[p] \in {"python", "promoter"}
    /\ pc[p] \in {"open", "poll"} => kind[p] \in Queued
    /\ pc[p] \in {"check", "copying"} => kind[p] = "promoter"
    /\ pc[p] \in {"held", "writing", "closed"} => kind[p] # "promoter"
    /\ pc[p] = "writing" => kind[p] # "reader"
    /\ pc[p] = "reading" => kind[p] = "reader"

\* A process writes if and only if it is the one that has the database open.
OpenIsExclusive ==
  /\ \A p \in Pid : pc[p] = "writing" => db = p
  /\ db # NoPid => kind[db] # "reader"

\* The inductive invariant: mutual exclusion needs to know who can be where,
\* and the database clauses need mutual exclusion.
IInv ==
  /\ TypeOK
  /\ StepKinds
  /\ QueuedWritersExclusive
  /\ MarkerBlamesNobodyElse
  /\ NoOrphanedOpen
  /\ OpenIsExclusive

-----------------------------------------------------------------------------
\* The initial states are well typed and satisfy the inductive invariant.
LEMMA InitIInv == Init => IInv
<1> SUFFICES ASSUME Init PROVE IInv
  OBVIOUS
<1>1. TypeOK
  BY KindsAssumption, SMT DEF Init, TypeOK, Steps
<1>2. \A p \in Pid : pc[p] = "gone"
  BY DEF Init
<1>3. StepKinds /\ QueuedWritersExclusive /\ MarkerBlamesNobodyElse
  BY <1>2, SMT DEF StepKinds, QueuedWritersExclusive, MarkerBlamesNobodyElse, UnderFlock
<1>4. NoOrphanedOpen /\ OpenIsExclusive
  BY <1>2, SMT DEF Init, NoOrphanedOpen, OpenIsExclusive
<1> QED BY <1>1, <1>3, <1>4 DEF IInv

\* Every step keeps every variable in its type.
LEMMA TypeStep == TypeOK /\ [Next]_vars => TypeOK'
<1> SUFFICES ASSUME TypeOK, [Next]_vars PROVE TypeOK'
  OBVIOUS
<1> USE KindsAssumption, NoPidAssumption
<1> USE DEF TypeOK, Goto, Steps, AllKinds, store
<1>1. ASSUME NEW p \in Pid, NEW k \in Kinds, Start(p, k) PROVE TypeOK'
  <2>1. FirstStep(k) \in Steps
    BY SMT DEF FirstStep
  <2> QED BY <1>1, <2>1, SMT DEF Start
<1>2. ASSUME NEW p \in Pid, OpenTruncating(p) \/ ClearMarker(p) PROVE TypeOK'
  BY <1>2, SMT DEF OpenTruncating, ClearMarker, ReadMarker, ProbeMarker, TruncateStale, AfterClear
<1>3. ASSUME NEW p \in Pid, AcquireFlock(p) \/ WriteMarker(p) PROVE TypeOK'
  BY <1>3, SMT DEF AcquireFlock, TakeFlock, WaitTimeout, AfterFlock,
                   WriteMarker, TruncateOwn, SignMarker
<1>4. ASSUME NEW p \in Pid, Open(p) \/ CloseDb(p) PROVE TypeOK'
  BY <1>4, SMT DEF Open, OpenReadWrite, OpenReadOnly, OpenFails, CloseDb
<1>5. ASSUME NEW p \in Pid, Publish(p) \/ Die(p) PROVE TypeOK'
  BY <1>5, SMT DEF Publish, PublisherAborts, PublisherQueues, PublisherDone,
                   Die, CloseLockFd, Reap
<1>6. ASSUME NEW p \in Pid, Reconnect(p) \/ ReleaseFlock(p) \/ Crash(p) PROVE TypeOK'
  BY <1>6, SMT DEF Reconnect, ReleaseFlock, Crash
<1>7. CASE UNCHANGED vars
  BY <1>7, SMT DEF vars
<1> QED BY <1>1, <1>2, <1>3, <1>4, <1>5, <1>6, <1>7 DEF Next, Proceed

\* Each of the three parts below is preserved by every single action.
LEMMA StepKindsStep == TypeOK /\ StepKinds /\ [Next]_vars => StepKinds'
<1> SUFFICES ASSUME TypeOK, StepKinds, [Next]_vars PROVE StepKinds'
  OBVIOUS
<1> USE KindsAssumption DEF TypeOK, StepKinds, Goto, Steps, AllKinds, Queued
<1>1. ASSUME NEW p \in Pid, NEW k \in Kinds, Start(p, k) PROVE StepKinds'
  BY <1>1, SMT DEF Start, FirstStep
<1>2. ASSUME NEW p \in Pid, OpenTruncating(p) \/ ClearMarker(p) PROVE StepKinds'
  BY <1>2, SMT DEF OpenTruncating, ClearMarker, ReadMarker, ProbeMarker, TruncateStale, AfterClear
<1>3. ASSUME NEW p \in Pid, AcquireFlock(p) \/ WriteMarker(p) PROVE StepKinds'
  BY <1>3, SMT DEF AcquireFlock, TakeFlock, WaitTimeout, AfterFlock,
                   WriteMarker, TruncateOwn, SignMarker
<1>4. ASSUME NEW p \in Pid, Open(p) \/ CloseDb(p) PROVE StepKinds'
  BY <1>4, SMT DEF Open, OpenReadWrite, OpenReadOnly, OpenFails, CloseDb
<1>5. ASSUME NEW p \in Pid, Publish(p) \/ Die(p) PROVE StepKinds'
  BY <1>5, SMT DEF Publish, PublisherAborts, PublisherQueues, PublisherDone,
                   Die, CloseLockFd, Reap
<1>6. ASSUME NEW p \in Pid, Reconnect(p) \/ ReleaseFlock(p) \/ Crash(p) PROVE StepKinds'
  BY <1>6, SMT DEF Reconnect, ReleaseFlock, Crash
<1>7. CASE UNCHANGED vars
  BY <1>7, SMT DEF vars
<1> QED BY <1>1, <1>2, <1>3, <1>4, <1>5, <1>6, <1>7 DEF Next, Proceed

LEMMA ExclusiveStep ==
  TypeOK /\ StepKinds /\ QueuedWritersExclusive /\ [Next]_vars => QueuedWritersExclusive'
<1> SUFFICES ASSUME TypeOK, StepKinds, QueuedWritersExclusive, [Next]_vars
             PROVE QueuedWritersExclusive'
  OBVIOUS
<1> USE KindsAssumption, NoPidAssumption
<1> USE DEF TypeOK, StepKinds, QueuedWritersExclusive, UnderFlock, Queued, Goto, Steps,
            AllKinds, store
<1>1. ASSUME NEW p \in Pid, NEW k \in Kinds, Start(p, k) PROVE QueuedWritersExclusive'
  BY <1>1, SMT DEF Start, FirstStep
<1>2. ASSUME NEW p \in Pid, OpenTruncating(p) \/ ClearMarker(p) PROVE QueuedWritersExclusive'
  BY <1>2, SMT DEF OpenTruncating, ClearMarker, ReadMarker, ProbeMarker, TruncateStale, AfterClear
<1>3. ASSUME NEW p \in Pid, AcquireFlock(p) \/ WriteMarker(p) PROVE QueuedWritersExclusive'
  BY <1>3, SMT DEF AcquireFlock, TakeFlock, WaitTimeout, AfterFlock,
                   WriteMarker, TruncateOwn, SignMarker
<1>4. ASSUME NEW p \in Pid, Open(p) \/ CloseDb(p) PROVE QueuedWritersExclusive'
  BY <1>4, SMT DEF Open, OpenReadWrite, OpenReadOnly, OpenFails, CloseDb
<1>5. ASSUME NEW p \in Pid, Publish(p) \/ Die(p) PROVE QueuedWritersExclusive'
  BY <1>5, SMT DEF Publish, PublisherAborts, PublisherQueues, PublisherDone,
                   Die, CloseLockFd, Reap
<1>6. ASSUME NEW p \in Pid, Reconnect(p) \/ ReleaseFlock(p) \/ Crash(p)
      PROVE QueuedWritersExclusive'
  BY <1>6, SMT DEF Reconnect, ReleaseFlock, Crash
<1>7. CASE UNCHANGED vars
  BY <1>7, SMT DEF vars
<1> QED BY <1>1, <1>2, <1>3, <1>4, <1>5, <1>6, <1>7 DEF Next, Proceed

LEMMA OpenStep ==
  TypeOK /\ StepKinds /\ NoOrphanedOpen /\ OpenIsExclusive /\ [Next]_vars
    => NoOrphanedOpen' /\ OpenIsExclusive'
<1> DEFINE I == NoOrphanedOpen /\ OpenIsExclusive
<1> SUFFICES ASSUME TypeOK, StepKinds, I, [Next]_vars PROVE I'
  OBVIOUS
<1> USE KindsAssumption, NoPidAssumption
<1> USE DEF TypeOK, StepKinds, NoOrphanedOpen, OpenIsExclusive, Goto, Steps, AllKinds, store
<1>1. ASSUME NEW p \in Pid, NEW k \in Kinds, Start(p, k) PROVE I'
  BY <1>1, SMT DEF Start, FirstStep
<1>2. ASSUME NEW p \in Pid, OpenTruncating(p) \/ ClearMarker(p) PROVE I'
  BY <1>2, SMT DEF OpenTruncating, ClearMarker, ReadMarker, ProbeMarker, TruncateStale, AfterClear
<1>3. ASSUME NEW p \in Pid, AcquireFlock(p) \/ WriteMarker(p) PROVE I'
  BY <1>3, SMT DEF AcquireFlock, TakeFlock, WaitTimeout, AfterFlock,
                   WriteMarker, TruncateOwn, SignMarker
<1>4. ASSUME NEW p \in Pid, Open(p) \/ CloseDb(p) PROVE I'
  BY <1>4, SMT DEF Open, OpenReadWrite, OpenReadOnly, OpenFails, CloseDb, Conflict
<1>5. ASSUME NEW p \in Pid, Publish(p) \/ Die(p) PROVE I'
  BY <1>5, SMT DEF Publish, PublisherAborts, PublisherQueues, PublisherDone,
                   Die, CloseLockFd, Reap
<1>6. ASSUME NEW p \in Pid, Reconnect(p) \/ ReleaseFlock(p) \/ Crash(p) PROVE I'
  BY <1>6, SMT DEF Reconnect, ReleaseFlock, Crash
<1>7. CASE UNCHANGED vars
  BY <1>7, SMT DEF vars
<1> QED BY <1>1, <1>2, <1>3, <1>4, <1>5, <1>6, <1>7 DEF Next, Proceed

\* Only the process that owns the flock signs the marker; the others empty it.
LEMMA MarkerStep ==
  TypeOK /\ StepKinds /\ QueuedWritersExclusive /\ MarkerBlamesNobodyElse /\ [Next]_vars
    => MarkerBlamesNobodyElse'
<1> SUFFICES ASSUME TypeOK, StepKinds, QueuedWritersExclusive, MarkerBlamesNobodyElse, [Next]_vars
             PROVE MarkerBlamesNobodyElse'
  OBVIOUS
<1> USE KindsAssumption, NoPidAssumption
<1> USE DEF TypeOK, QueuedWritersExclusive, MarkerBlamesNobodyElse, UnderFlock, Queued, Goto,
            Steps, AllKinds, store
<1>1. ASSUME NEW p \in Pid, NEW k \in Kinds, Start(p, k) PROVE MarkerBlamesNobodyElse'
  BY <1>1, SMT DEF Start, FirstStep
<1>2. ASSUME NEW p \in Pid, OpenTruncating(p) \/ ClearMarker(p) PROVE MarkerBlamesNobodyElse'
  BY <1>2, SMT DEF OpenTruncating, ClearMarker, ReadMarker, ProbeMarker, TruncateStale, AfterClear
<1>3. ASSUME NEW p \in Pid, AcquireFlock(p) PROVE MarkerBlamesNobodyElse'
  BY <1>3, SMT DEF AcquireFlock, TakeFlock, WaitTimeout, AfterFlock
<1>4. ASSUME NEW p \in Pid, TruncateOwn(p) PROVE MarkerBlamesNobodyElse'
  BY <1>4, SMT DEF TruncateOwn
<1>5. ASSUME NEW p \in Pid, SignMarker(p) PROVE MarkerBlamesNobodyElse'
  <2>1. flock = p
    BY <1>5, SMT DEF SignMarker, StepKinds
  <2>2. \A q \in Pid : UnderFlock(q)' => q = p
    BY <1>5, <2>1, SMT DEF SignMarker
  <2> QED BY <1>5, <2>2, SMT DEF SignMarker
<1>6. ASSUME NEW p \in Pid, Open(p) \/ CloseDb(p) PROVE MarkerBlamesNobodyElse'
  BY <1>6, SMT DEF Open, OpenReadWrite, OpenReadOnly, OpenFails, CloseDb, StepKinds
<1>7. ASSUME NEW p \in Pid, Publish(p) \/ Die(p) PROVE MarkerBlamesNobodyElse'
  BY <1>7, SMT DEF Publish, PublisherAborts, PublisherQueues, PublisherDone,
                   Die, CloseLockFd, Reap
<1>8. ASSUME NEW p \in Pid, Reconnect(p) \/ ReleaseFlock(p) \/ Crash(p)
      PROVE MarkerBlamesNobodyElse'
  BY <1>8, SMT DEF Reconnect, ReleaseFlock, Crash
<1>9. CASE UNCHANGED vars
  BY <1>9, SMT DEF vars
<1> QED BY <1>1, <1>2, <1>3, <1>4, <1>5, <1>6, <1>7, <1>8, <1>9 DEF Next, Proceed, WriteMarker

-----------------------------------------------------------------------------
\* The inductive invariant holds in every reachable state.
THEOREM Invariance == Spec => []IInv
<1>1. Init => IInv
  BY InitIInv
<1>2. IInv /\ [Next]_vars => IInv'
  BY TypeStep, StepKindsStep, ExclusiveStep, MarkerStep, OpenStep DEF IInv
<1> QED BY <1>1, <1>2, PTL DEF Spec

\* Every variable keeps its type.
THEOREM TypeCorrect == Spec => []TypeOK
<1>1. IInv => TypeOK
  BY DEF IInv
<1> QED BY <1>1, Invariance, PTL

\* Past its flock every queued process owns it: whatever mix of in-process,
\* wrapped, flock -c and publishing processes runs, at most one of them is
\* between taking and returning the flock.
THEOREM MutualExclusion == Spec => []QueuedWritersExclusive
<1>1. IInv => QueuedWritersExclusive
  BY DEF IInv
<1> QED BY <1>1, Invariance, PTL

\* A queued writer never finds the database locked by another queued writer
\* that is still running.
THEOREM OnlyOutsidersConflict == Spec => []ConflictOnlyWithOutsiders
<1>1. IInv => ConflictOnlyWithOutsiders
  <2> SUFFICES ASSUME IInv, NEW p \in Pid, UnderFlock(p), db \notin {NoPid, p}
               PROVE kind[db] = "cli" \/ pc[db] = "dying"
    BY DEF ConflictOnlyWithOutsiders
  <2>1. db \in Pid /\ flock = p
    BY SMT DEF IInv, TypeOK, QueuedWritersExclusive
  <2>2. CASE pc[db] = "writing"
    <3>1. ~UnderFlock(db)
      BY <2>1, SMT DEF IInv, QueuedWritersExclusive
    <3>2. kind[db] \notin Queued
      BY <2>2, <3>1, SMT DEF UnderFlock
    <3>3. kind[db] \in AllKinds /\ kind[db] # "reader"
      BY <2>1, SMT DEF IInv, TypeOK, OpenIsExclusive
    <3> QED BY <3>2, <3>3, SMT DEF AllKinds, Queued
  <2> QED BY <2>1, <2>2, SMT DEF IInv, NoOrphanedOpen
<1> QED BY <1>1, Invariance, PTL

\* While the publisher copies, nobody writes but a process outside the queue.
THEOREM CopyIsWhole == Spec => []CopyNotTorn
<1>1. IInv => CopyNotTorn
  <2> SUFFICES ASSUME IInv, NEW p \in Pid, pc[p] = "copying", NEW q \in Pid, pc[q] = "writing"
               PROVE kind[q] = "cli"
    BY DEF CopyNotTorn
  <2>1. UnderFlock(p) /\ flock = p
    BY SMT DEF IInv, StepKinds, QueuedWritersExclusive, UnderFlock, Queued
  <2>2. kind[q] \in AllKinds /\ kind[q] # "reader" /\ (kind[q] \in Queued => flock = q)
    BY SMT DEF IInv, TypeOK, StepKinds, QueuedWritersExclusive, UnderFlock
  <2> QED BY <2>1, <2>2, SMT DEF AllKinds, Queued
<1> QED BY <1>1, Invariance, PTL

\* The marker of a signed python writer never names another process, for any
\* number of starting, clearing, wrapped and dying ones.
THEOREM MarkerIsOwn == Spec => []MarkerBlamesNobodyElse
<1>1. IInv => MarkerBlamesNobodyElse
  BY DEF IInv
<1> QED BY <1>1, Invariance, PTL

\* Whoever has the database open is a process that runs or is being torn down.
THEOREM OpenIsOwned == Spec => []NoOrphanedOpen
<1>1. IInv => NoOrphanedOpen
  BY DEF IInv
<1> QED BY <1>1, Invariance, PTL

-----------------------------------------------------------------------------
(* The watchdog of the nightly: W.                                         *)

LEMMA WatchInit == ASSUME W!Init PROVE W!WatchInv
<1>1. v1 = 0 /\ v2 = 7 /\ v4 = -12 /\ v5 = -12 /\ v6 = -1 /\ v7 = -12 /\ v9 = {} /\ v8 = 0 /\ v12 = 0 /\ v13 = 0
  BY DEF W!Init, W!Early
<1>2. W!TypeOK
  <2>1. v4 \in W!Hour
    BY <1>1, WatchAssumption DEF W!Hour
  <2>2. v10 = "nothing" /\ v11 = FALSE /\ v3 \in W!Slots \cup {W!Never}
    BY DEF W!Init
  <2>3. 0 \in 0..WatchDays /\ -1 \in -1..WatchDays /\ 0 \in 0..WatchDays + 1
    BY WatchAssumption
  <2>4. 0 \in 0..2 * WatchDays + 2
    BY WatchAssumption
  <2> QED BY <1>1, <2>1, <2>2, <2>3, <2>4 DEF W!TypeOK, W!Early
<1>3. W!Last = -10
  BY <1>1 DEF W!Last, W!Early, W!Late
<1> QED BY <1>1, <1>2, <1>3 DEF W!WatchInv, W!CountedOnce, W!OutageIsCounted, W!LongOutageAlarms,
          W!Checks, W!SnapshotMax, W!ReadmodelMax, W!Late

\* What the night brought: hours of today, or what was there.
LEMMA WatchBrought ==
  ASSUME W!TypeOK, NEW w \in W!Brought
  PROVE  /\ w.full \in {v6, v1}
         /\ \/ w.promoted = v4 /\ w.synced = v5 /\ w.published = v7
            \/ /\ v3 < v2 /\ v3 \in W!Slots /\ w.promoted = 24 * v1 + v3
               /\ w.synced \in {v5, 24 * v1 + v3} /\ w.published \in {v7, 24 * v1 + v3}
<1>1. CASE v3 < v2 /\ v4 < 24 * v1
  <2>1. PICK s \in {v5, 24 * v1 + v3}, f \in {v6, v1}, p \in {v7, 24 * v1 + v3} :
          w = [promoted |-> 24 * v1 + v3, synced |-> s, full |-> f, published |-> p]
    BY <1>1 DEF W!Brought
  <2>2. v3 \in W!Slots
    BY <1>1 DEF W!TypeOK, W!Never, W!Early, W!Late
  <2> QED BY <1>1, <2>1, <2>2
<1>2. CASE ~(v3 < v2 /\ v4 < 24 * v1)
  <2>1. w = [promoted |-> v4, synced |-> v5, full |-> v6, published |-> v7]
    BY <1>2 DEF W!Brought
  <2> QED BY <2>1
<1> QED BY <1>1, <1>2

\* A check: what it found, and when the next one is.
LEMMA WatchChecks ==
  ASSUME W!WatchInv, W!Check
  PROVE  W!WatchInv'
<1>1. W!TypeOK /\ v1 \in 0..WatchDays /\ v2 \in {7, 14}
  BY DEF W!WatchInv, W!TypeOK, W!Early, W!Late
<1>2. PICK w \in W!Brought, readable \in BOOLEAN :
        /\ v4' = w.promoted /\ v5' = w.synced /\ v6' = w.full /\ v7' = w.published
        /\ W!Judge(W!Found(w, readable))
        /\ v13' = IF readable THEN v13 + 1 ELSE 0
        /\ v12' = CASE v11' -> 0
                    [] ~v11' /\ v2 = W!Early -> v12
                    [] OTHER -> IF W!Now - w.synced > WatchSla /\ ~W!InProgress(w) THEN v12 + 1 ELSE 0
  BY DEF W!Check
<1>3. /\ v1 < WatchDays
      /\ \/ v2 = 7 /\ v2' = 14 /\ UNCHANGED <<v1, v3>>
         \/ v2 = 14 /\ v2' = 7 /\ v1' = v1 + 1 /\ v3' \in W!Slots \cup {W!Never}
  BY <1>1 DEF W!Check, W!Early, W!Late
<1> DEFINE reasons == W!Found(w, readable)
<1>4. /\ reasons \subseteq W!Reasons
      /\ W!Now - v4' > 28 => reasons # {}
      /\ readable /\ W!Now - v7' > 26 => reasons # {}
  <2>1. "snapshot age" \in W!Reasons /\ "d1 age" \in W!Reasons
    BY DEF W!Reasons
  <2> QED BY <1>2, <2>1 DEF W!Found, W!SnapshotMax, W!ReadmodelMax
<1> HIDE DEF reasons
<1>5. \/ reasons = {} /\ v8' = 0 /\ v9' = {} /\ v11' = FALSE /\ v10' \in {"recovered", "nothing"}
      \/ reasons # {} /\ v8' = v8 + 1 /\ v10' \in {"alarm", "nothing"} /\
         \/ v8' >= 2 /\ reasons # v9 /\ v9' = reasons /\ v11' = TRUE
         \/ ~(v8' >= 2 /\ reasons # v9) /\ UNCHANGED <<v9, v11>>
  BY <1>2 DEF reasons, W!Judge, W!Healthy, W!Unhealthy
<1>6. /\ v8 \in Nat /\ v13 \in Nat /\ v12 \in Nat /\ v9 \subseteq W!Reasons /\ v11 \in BOOLEAN
      /\ v4 \in W!Hour /\ v5 \in W!Hour /\ v7 \in W!Hour /\ v6 \in -1..WatchDays
  BY <1>1 DEF W!TypeOK
<1>7. /\ w.full \in {v6, v1}
      /\ \/ v4' = v4 /\ v5' = v5 /\ v7' = v7
         \/ /\ v3 < v2 /\ v3 \in {6, 12} /\ v4' = 24 * v1 + v3
            /\ v5' \in {v5, 24 * v1 + v3} /\ v7' \in {v7, 24 * v1 + v3}
  BY <1>1, <1>2, WatchBrought DEF W!Slots
<1>8. W!Last' = W!Now /\ W!Before' = W!Last /\ W!Now - W!Last \in {7, 17} /\ W!Now = 24 * v1 + v2 /\ W!Last \in Int
  BY <1>1, <1>3 DEF W!Last, W!Before, W!Now, W!Early, W!Late
<1>9. /\ v12' \in {0, v12, v12 + 1} /\ (v2 = 7 => v12' <= v12)
  BY <1>1, <1>2, <1>6 DEF W!Early
<1>10. W!CountedOnce'
  BY <1>1, <1>2, <1>3, <1>5, <1>6, <1>9 DEF W!WatchInv, W!CountedOnce, W!Checks, W!Early, W!Late
<1>11. W!TypeOK'
  <2>1. v4' \in W!Hour /\ v5' \in W!Hour /\ v7' \in W!Hour
    BY <1>1, <1>3, <1>6, <1>7, WatchAssumption DEF W!Hour
  <2>2. v1' \in 0..WatchDays /\ v2' \in {7, 14} /\ v3' \in W!Slots \cup {W!Never} /\ v6' \in -1..WatchDays
    BY <1>1, <1>2, <1>3, <1>6, <1>7, WatchAssumption DEF W!TypeOK
  <2>3. v8' \in Nat /\ v13' \in Nat /\ v12' \in Nat
    BY <1>2, <1>5, <1>6, <1>9
  <2>4. PICK n \in 0..WatchDays, a \in Nat, b \in Nat, d \in Nat, k \in {0, 1} :
          n = v1' /\ a = v8' /\ b = v13' /\ d = v12' /\ W!Checks' = 2 * n + k
    BY <2>2, <2>3 DEF W!Checks
  <2>5. v9' \subseteq W!Reasons /\ v10' \in {"nothing", "alarm", "recovered"} /\ v11' \in BOOLEAN
    BY <1>4, <1>5, <1>6
  <2>6. a <= 2 * n + k /\ b <= 2 * n + k /\ d <= n
    BY <1>10, <2>4 DEF W!CountedOnce
  <2>7. v8' \in 0..2 * WatchDays + 2 /\ v13' \in 0..2 * WatchDays + 2 /\ v12' \in 0..WatchDays + 1
    <3>1. a \in 0..2 * WatchDays + 2 /\ b \in 0..2 * WatchDays + 2 /\ d \in 0..WatchDays + 1
      BY <2>6, WatchAssumption
    <3> QED BY <2>4, <3>1
  <2> QED BY <2>1, <2>2, <2>5, <2>7 DEF W!TypeOK, W!Early, W!Late
<1>12. /\ v9 # {} => v11
       /\ W!Last - v4 > 28 => v8 >= 1
       /\ v13 >= 1 /\ W!Last - v7 > 26 => v8 >= 1
  BY DEF W!WatchInv, W!OutageIsCounted, W!SnapshotMax, W!ReadmodelMax
<1>13. v4 \in Int /\ v7 \in Int /\ v4' \in Int /\ v7' \in Int
  BY <1>1, <1>6, <1>7 DEF W!Hour
<1>14. v9' # {} => v11'
  BY <1>5, <1>12
<1>15. reasons # {} /\ v8 >= 1 => v11'
  BY <1>5, <1>6, <1>12
<1>16. reasons # {} => v8' >= 1
  BY <1>5, <1>6
<1>17. W!OutageIsCounted'
  BY <1>2, <1>4, <1>6, <1>8, <1>14, <1>16 DEF W!OutageIsCounted, W!SnapshotMax, W!ReadmodelMax
<1>18. W!Last' - v4' >= 49 => v11'
  <2> SUFFICES ASSUME W!Now - v4' >= 49 PROVE v11'
    BY <1>8
  <2>1. v4' = v4
    BY <1>1, <1>7, <1>8
  <2>2. W!Last - v4 > 28
    BY <1>8, <1>13, <2>1
  <2> QED BY <1>4, <1>8, <1>12, <1>13, <1>15, <2>1, <2>2
<1>19. v13' >= 2 /\ W!Before' - v7' > 26 => v11'
  <2> SUFFICES ASSUME v13' >= 2, W!Last - v7' > 26 PROVE v11'
    BY <1>8
  <2>1. readable /\ v13 >= 1
    BY <1>2, <1>6
  <2>2. v7' = v7
    BY <1>1, <1>7, <1>8
  <2> QED BY <1>4, <1>8, <1>12, <1>13, <1>15, <2>1, <2>2
<1>20. W!LongOutageAlarms'
  BY <1>18, <1>19 DEF W!LongOutageAlarms, W!ReadmodelMax
<1> QED BY <1>10, <1>11, <1>17, <1>20 DEF W!WatchInv

LEMMA WatchStep == ASSUME W!WatchInv, [W!Next]_(W!vars) PROVE W!WatchInv'
<1>1. CASE W!Check
  BY <1>1, WatchChecks
<1>2. CASE UNCHANGED W!vars
  BY <1>2 DEF W!vars, W!world, W!WatchInv, W!TypeOK, W!CountedOnce, W!OutageIsCounted, W!LongOutageAlarms,
    W!Checks, W!Last, W!Before
<1> QED BY <1>1, <1>2 DEF W!Next

-----------------------------------------------------------------------------
(* The flip of the read API and the watchdog of MotherDuck: M.             *)

LEMMA FlipInit == ASSUME M!Init PROVE M!FlipInv
<1>1. M!TypeOK
  <2>1. v6 \in M!Run
    BY DEF M!Init, M!Idle, M!Run
  <2>2. v7 \in M!State
    BY DEF M!Init, M!State
  <2>3. v2 \in BOOLEAN /\ v3 \in BOOLEAN /\ v10 \in BOOLEAN /\ v11 \in BOOLEAN
    BY Zenon DEF M!Init
  <2>4. 0 \in 0..FlipOutages /\ 0 \in 0..FlipBlips /\ 0 \in 0..FlipFaults /\ 0 \in 0..FlipActs
    BY FlipAssumption
  <2> QED BY <2>1, <2>2, <2>3, <2>4 DEF M!Init, M!TypeOK
<1>2. v6.step = "idle" /\ v6.why = "none" /\ v7.fails = 0 /\ v7.alerted = FALSE /\ v7.told = "none"
  BY DEF M!Init, M!Idle
<1> QED BY <1>1, <1>2 DEF M!Init, M!FlipInv, M!FlipInOrder, M!StrikesInOrder, M!WordIsKept,
          M!OutageReturnsToLocal, M!StrikesAreReal, M!OutageIsTold

\* What a run is about, by its step.
LEMMA FlipRuns ==
  ASSUME M!TypeOK
  PROVE  /\ v6.step \in {"idle", "write", "restart", "verify", "rollback", "back"}
         /\ v6.step \in {"rollback", "back"} => v6.why \in {"verify", "strikes"}
         /\ v6.step \notin {"rollback", "back"} => v6.why = "none"
         /\ v2 \in BOOLEAN /\ v3 \in BOOLEAN /\ v10 \in BOOLEAN /\ v11 \in BOOLEAN
         /\ v4 \in {"local", "md"} /\ v5 \in Nat /\ v8 \in Nat /\ v9 \in 0..3
BY DEF M!TypeOK, M!Run

\* How a run ends or goes on.
LEMMA FlipEnds ==
  ASSUME M!TypeOK, M!Ends
  PROVE  /\ v6' \in M!Run /\ v6'.step = "idle" /\ v6'.why = "none"
         /\ v9' \in 0..3 /\ (v2 => v9' = v9) /\ (v9' = v9 \/ (~v2 /\ v9' = v9 + 1))
         /\ (~v2 /\ v9 < 3 => v9' = v9 + 1)
BY DEF M!TypeOK, M!Ends, M!Idle, M!Run

LEMMA FlipGoesOn ==
  ASSUME NEW step, NEW why, M!GoesOn(step, why), [step |-> step, why |-> why] \in M!Run
  PROVE  v6' \in M!Run /\ v6'.step = step /\ v6'.why = why /\ v9' = v9
BY DEF M!GoesOn

LEMMA FlipHears ==
  ASSUME M!TypeOK, NEW ok \in BOOLEAN, M!Hears(ok)
  PROVE  v13' \in 0..FlipBlips /\ (ok => v4 = "local" \/ v2)
<1>1. v13 \in 0..FlipBlips
  BY DEF M!TypeOK
<1> QED BY <1>1, FlipAssumption DEF M!Hears, M!Healthy

\* Strikes are counted, or not read, or not saved.
LEMMA FlipMonitors == ASSUME M!FlipInv, M!Monitor PROVE M!FlipInv'
<1>1. M!TypeOK /\ v5 \in Nat /\ v8 \in Nat /\ v9 \in 0..3 /\ v14 \in 0..FlipFaults
  BY DEF M!FlipInv, M!TypeOK
<1>2. PICK ok \in BOOLEAN, read \in {v5, 0} : \E file \in {M!Strikes(ok, read), v5, 0} :
        LET slips == read # v5 \/ file # M!Strikes(ok, read) IN
        /\ M!Hears(ok)
        /\ slips => v14 < FlipFaults
        /\ v14' = IF slips THEN v14 + 1 ELSE v14
        /\ v5' = file /\ v8' = IF ok THEN 0 ELSE v8 + 1
        /\ v11' = IF ok THEN file > 0 ELSE v11
        /\ v6' = IF M!Strikes(ok, read) >= 3 THEN [step |-> "rollback", why |-> "strikes"] ELSE M!Idle
        /\ v9' = IF slips THEN 0
                 ELSE IF M!Strikes(ok, read) >= 3 \/ v2 \/ v9 = 3 THEN v9 ELSE v9 + 1
  BY Zenon DEF M!Monitor
<1> DEFINE count == IF ok THEN 0 ELSE read + 1
           slips == read # v5 \/ v5' # count
<1>3. /\ M!Hears(ok) /\ v5' \in {count, v5, 0} /\ v8' = (IF ok THEN 0 ELSE v8 + 1)
      /\ v14' = (IF slips THEN v14 + 1 ELSE v14) /\ (slips => v14 < FlipFaults)
      /\ v11' = (IF ok THEN v5' > 0 ELSE v11)
      /\ v6' = (IF count >= 3 THEN [step |-> "rollback", why |-> "strikes"] ELSE M!Idle)
      /\ v9' = (IF slips THEN 0 ELSE IF count >= 3 \/ v2 \/ v9 = 3 THEN v9 ELSE v9 + 1)
  BY <1>2 DEF M!Strikes
<1>4. /\ v6.step = "idle" /\ v3
      /\ UNCHANGED <<v1, v2, v3, v4, v7, v10, v12, v15>>
  BY DEF M!Monitor
<1>5. /\ count \in Nat /\ v5' \in Nat /\ v8' \in Nat /\ v14' \in 0..FlipFaults /\ v9' \in 0..3
      /\ (ok => count = 0) /\ (~ok => count = read + 1 /\ read <= v5)
  BY <1>1, <1>3, FlipAssumption
<1> HIDE DEF count
<1>6. /\ v6' \in M!Run
      /\ \/ count >= 3 /\ v6'.step = "rollback" /\ v6'.why = "strikes"
         \/ count < 3 /\ v6'.step = "idle" /\ v6'.why = "none"
  <2>1. CASE count >= 3
    BY <1>3, <2>1 DEF M!Run
  <2>2. CASE ~(count >= 3)
    BY <1>3, <1>5, <2>2 DEF M!Run, M!Idle
  <2> QED BY <2>1, <2>2
<1>7. v13' \in 0..FlipBlips /\ (ok => v4 = "local" \/ v2)
  BY <1>1, <1>3, FlipHears
<1>8. v11' \in BOOLEAN /\ (ok /\ ~v11' => v5' = 0)
  <2> DEFINE stands == v5' > 0
  <2>1. stands \in BOOLEAN /\ v11 \in BOOLEAN /\ v11' = IF ok THEN stands ELSE v11
    BY <1>1, <1>3 DEF M!TypeOK
  <2>2. ~stands => v5' = 0
    BY <1>5
  <2> HIDE DEF stands
  <2> QED BY <2>1, <2>2, Zenon
<1>9. M!TypeOK'
  BY <1>1, <1>4, <1>5, <1>6, <1>7, <1>8 DEF M!TypeOK
<1>10. M!FlipInOrder'
  <2>1. ASSUME ~v2, ~v10, v4 = "md" PROVE v9' <= v5' /\ v9' <= 2
    <3>1. v9 <= v5 /\ v9 <= 2 /\ ~ok
      BY <1>7, <2>1 DEF M!FlipInv, M!FlipInOrder
    <3>2. CASE slips
      BY <1>3, <1>5, <3>2
    <3>3. CASE ~slips
      BY <1>1, <1>3, <1>5, <2>1, <3>1, <3>3
    <3> QED BY <3>2, <3>3
  <2>2. v2 => v9' = 0
    <3>1. v2 => v9 = 0
      BY DEF M!FlipInv, M!FlipInOrder
    <3> QED BY <1>3, <3>1
  <2> QED BY <1>1, <1>4, <1>6, <2>1, <2>2, FlipRuns DEF M!FlipInv, M!FlipInOrder
<1>11. M!StrikesInOrder' /\ M!StrikesAreReal'
  <2>1. ASSUME ~v11' PROVE v5' <= v8' /\ (v6'.why = "strikes" => v8' >= 3)
    <3>1. CASE ok
      BY <1>3, <1>5, <1>6, <1>8, <2>1, <3>1
    <3>2. CASE ~ok
      <4>1. v5 <= v8
        BY <1>3, <2>1, <3>2 DEF M!FlipInv, M!StrikesInOrder
      <4> QED BY <1>1, <1>3, <1>5, <1>6, <3>2, <4>1
    <3> QED BY <3>1, <3>2
  <2> QED BY <1>4, <1>6, <2>1 DEF M!StrikesInOrder, M!StrikesAreReal
<1>12. M!OutageReturnsToLocal'
  BY <1>6, <1>9, <1>10, FlipRuns DEF M!FlipInOrder, M!OutageReturnsToLocal, M!TypeOK
<1> QED BY <1>4, <1>9, <1>10, <1>11, <1>12 DEF M!FlipInv, M!WordIsKept, M!OutageIsTold

LEMMA FlipValidates == ASSUME M!FlipInv, M!Validate PROVE M!FlipInv'
<1>1. M!TypeOK
  BY DEF M!FlipInv
<1>2. /\ v6.step = "idle" /\ ~v3
      /\ UNCHANGED <<v1, v2, v3, v4, v5, v7, v8, v10, v11, v12, v14, v15>>
  BY DEF M!Validate
<1>3. [step |-> "write", why |-> "none"] \in M!Run
  BY DEF M!Run
<1>4. /\ v13' \in 0..FlipBlips
      /\ v6' \in M!Run /\ v6'.why = "none" /\ v9' \in 0..3
      /\ \/ v6'.step = "idle" /\ (v2 => v9' = v9)
         \/ v6'.step = "write" /\ v2 /\ v9' = v9
  <2>1. v13 \in 0..FlipBlips /\ v9 \in 0..3
    BY <1>1 DEF M!TypeOK
  <2>2. CASE M!Ends /\ UNCHANGED v13
    BY <1>1, <2>1, <2>2, FlipEnds
  <2>3. CASE v2 /\ M!GoesOn("write", "none") /\ (UNCHANGED v13 \/ (v13 < FlipBlips /\ v13' = v13 + 1))
    BY <1>3, <2>1, <2>3, FlipGoesOn, FlipAssumption
  <2> QED BY <2>2, <2>3 DEF M!Validate
<1>5. M!TypeOK'
  BY <1>1, <1>2, <1>4 DEF M!TypeOK
<1>6. M!FlipInOrder'
  BY <1>1, <1>2, <1>4, FlipRuns DEF M!FlipInv, M!FlipInOrder
<1>7. M!StrikesInOrder' /\ M!StrikesAreReal'
  BY <1>1, <1>2, <1>4, FlipRuns DEF M!FlipInv, M!StrikesInOrder, M!StrikesAreReal
<1>8. M!OutageReturnsToLocal'
  BY <1>2, <1>4, <1>5, <1>6, FlipRuns DEF M!FlipInOrder, M!OutageReturnsToLocal, M!TypeOK
<1> QED BY <1>2, <1>5, <1>6, <1>7, <1>8 DEF M!FlipInv, M!WordIsKept, M!OutageIsTold

\* The steps that go on: the drop-in is written, the service restarted, the
\* drop-in removed.
LEMMA FlipGoes ==
  ASSUME M!FlipInv, M!WriteDropin \/ M!Restart \/ M!Remove
  PROVE  M!FlipInv'
<1>1. M!TypeOK
  BY DEF M!FlipInv
<1>2. \A s \in {"restart", "verify"} : [step |-> s, why |-> "none"] \in M!Run
  BY DEF M!Run
<1>3. ASSUME M!WriteDropin PROVE M!FlipInv'
  <2>1. /\ v6.step = "write" /\ v3' = TRUE /\ v8' = 0
        /\ UNCHANGED <<v1, v2, v4, v5, v7, v10, v11, v12, v13, v14, v15>>
    BY <1>3 DEF M!WriteDropin
  <2>2. v6' \in M!Run /\ v6'.step = "restart" /\ v6'.why = "none" /\ v9' = v9
    BY <1>2, <1>3, FlipGoesOn DEF M!WriteDropin
  <2>3. M!TypeOK'
    BY <1>1, <2>1, <2>2 DEF M!TypeOK
  <2>4. M!FlipInOrder'
    BY <1>1, <2>1, <2>2, FlipRuns DEF M!FlipInv, M!FlipInOrder
  <2>5. M!StrikesInOrder'
    BY <1>1, <2>1, <2>2, FlipRuns DEF M!FlipInv, M!StrikesInOrder
  <2> QED BY <2>1, <2>2, <2>3, <2>4, <2>5
        DEF M!FlipInv, M!WordIsKept, M!OutageIsTold, M!OutageReturnsToLocal, M!StrikesAreReal
<1>4. ASSUME M!Restart PROVE M!FlipInv'
  <2>1. PICK fails \in BOOLEAN :
          /\ v4' = IF fails THEN v4 ELSE "md"
          /\ v10' = (v10 \/ fails)
          /\ v14' \in 0..FlipFaults
    <3>1. v14 \in 0..FlipFaults
      BY <1>1 DEF M!TypeOK
    <3> QED BY <1>4, <3>1, FlipAssumption DEF M!Restart, M!Restarts
  <2>2. v6.step = "restart" /\ UNCHANGED <<v1, v2, v3, v5, v7, v8, v11, v12, v13, v15>>
    BY <1>4 DEF M!Restart
  <2>3. v6' \in M!Run /\ v6'.step = "verify" /\ v6'.why = "none" /\ v9' = v9
    BY <1>2, <1>4, FlipGoesOn DEF M!Restart
  <2>4. M!TypeOK'
    BY <1>1, <2>1, <2>2, <2>3 DEF M!TypeOK
  <2>5. M!FlipInOrder'
    BY <1>1, <2>1, <2>2, <2>3, FlipRuns DEF M!FlipInv, M!FlipInOrder
  <2>6. M!StrikesInOrder'
    BY <1>1, <2>2, <2>3, FlipRuns DEF M!FlipInv, M!StrikesInOrder
  <2> QED BY <2>2, <2>3, <2>4, <2>5, <2>6
        DEF M!FlipInv, M!WordIsKept, M!OutageIsTold, M!OutageReturnsToLocal, M!StrikesAreReal
<1>5. ASSUME M!Remove PROVE M!FlipInv'
  <2>1. /\ v6.step = "rollback" /\ v3' = FALSE
        /\ UNCHANGED <<v1, v2, v4, v5, v7, v8, v10, v11, v12, v13, v14, v15>>
    BY <1>5 DEF M!Remove
  <2>2. [step |-> "back", why |-> v6.why] \in M!Run
    BY <1>1, <2>1, FlipRuns DEF M!Run
  <2>3. v6' \in M!Run /\ v6'.step = "back" /\ v6'.why = v6.why /\ v9' = v9
    BY <1>5, <2>2, FlipGoesOn DEF M!Remove
  <2>4. M!TypeOK'
    BY <1>1, <2>1, <2>3 DEF M!TypeOK
  <2>5. M!FlipInOrder'
    BY <1>1, <2>1, <2>3, FlipRuns DEF M!FlipInv, M!FlipInOrder
  <2>6. M!StrikesInOrder' /\ M!StrikesAreReal'
    BY <1>1, <2>1, <2>3, FlipRuns DEF M!FlipInv, M!StrikesInOrder, M!StrikesAreReal
  <2> QED BY <2>1, <2>3, <2>4, <2>5, <2>6
        DEF M!FlipInv, M!WordIsKept, M!OutageIsTold, M!OutageReturnsToLocal
<1> QED BY <1>3, <1>4, <1>5

LEMMA FlipVerifies == ASSUME M!FlipInv, M!Verify PROVE M!FlipInv'
<1>1. M!TypeOK
  BY DEF M!FlipInv
<1>2. /\ v6.step = "verify"
      /\ UNCHANGED <<v1, v2, v3, v4, v5, v7, v8, v11, v12, v14, v15>>
  BY DEF M!Verify
<1>3. [step |-> "rollback", why |-> "verify"] \in M!Run
  BY DEF M!Run
<1>4. /\ v13' \in 0..FlipBlips /\ v6' \in M!Run /\ v9' = v9 /\ v10' \in BOOLEAN
      /\ \/ v6'.step = "idle" /\ v6'.why = "none" /\ v10' = FALSE /\ v4 = "md" /\ v2
         \/ v6'.step = "rollback" /\ v6'.why = "verify" /\ v10' = v10
  <2>1. PICK ok \in BOOLEAN :
          /\ M!Hears(ok)
          /\ IF ok /\ v4 = "md" THEN M!Ends /\ v10' = FALSE
             ELSE M!GoesOn("rollback", "verify") /\ UNCHANGED v10
    BY DEF M!Verify
  <2>2. v13' \in 0..FlipBlips /\ (ok => v4 = "local" \/ v2)
    BY <1>1, <2>1, FlipHears
  <2>3. CASE ok /\ v4 = "md"
    BY <1>1, <2>1, <2>2, <2>3, FlipEnds
  <2>4. CASE ~(ok /\ v4 = "md")
    BY <1>1, <1>3, <2>1, <2>2, <2>4, FlipGoesOn, FlipRuns
  <2> QED BY <2>3, <2>4
<1>5. M!TypeOK'
  BY <1>1, <1>2, <1>4 DEF M!TypeOK
<1>6. M!FlipInOrder'
  BY <1>1, <1>2, <1>4, FlipRuns DEF M!FlipInv, M!FlipInOrder
<1>7. M!StrikesInOrder' /\ M!StrikesAreReal'
  BY <1>1, <1>2, <1>4, FlipRuns DEF M!FlipInv, M!FlipInOrder, M!StrikesInOrder, M!StrikesAreReal
<1>8. M!OutageReturnsToLocal'
  BY <1>2, <1>4, <1>6 DEF M!FlipInv, M!FlipInOrder, M!OutageReturnsToLocal
<1> QED BY <1>2, <1>5, <1>6, <1>7, <1>8 DEF M!FlipInv, M!WordIsKept, M!OutageIsTold

LEMMA FlipReturns == ASSUME M!FlipInv, M!BackToLocal PROVE M!FlipInv'
<1>1. M!TypeOK /\ v5 \in Nat /\ v8 \in Nat /\ v11 \in BOOLEAN /\ v14 \in 0..FlipFaults
  BY DEF M!FlipInv, M!TypeOK
<1>2. PICK fails \in BOOLEAN, file \in {0, v5} :
        /\ M!Restarts(fails)
        /\ v4' = IF fails THEN v4 ELSE "local"
        /\ v10' = (fails /\ v4 = "md")
        /\ v5' = IF v6.why = "strikes" THEN file ELSE v5
        /\ v11' = (v11 \/ v5' > 0)
        /\ LET slips == v6.why = "strikes" /\ file > 0
           IN  /\ slips => v14 < FlipFaults
               /\ v14' = IF fails \/ slips THEN v14 + 1 ELSE v14
  BY Zenon DEF M!BackToLocal
<1>3. v6.step = "back" /\ UNCHANGED <<v1, v2, v3, v7, v8, v12, v13, v15>>
  BY DEF M!BackToLocal
<1>4. v6' \in M!Run /\ v6'.step = "idle" /\ v6'.why = "none" /\ v9' \in 0..3 /\ (v2 => v9' = v9)
  BY <1>1, FlipEnds DEF M!BackToLocal
<1>5. v5' \in Nat /\ v11' \in BOOLEAN /\ v10' \in BOOLEAN /\ v14' \in 0..FlipFaults
  BY <1>1, <1>2, FlipAssumption DEF M!Restarts
<1>6. M!TypeOK'
  BY <1>1, <1>2, <1>3, <1>4, <1>5 DEF M!TypeOK
<1>7. ~v10' => v4' = "local"
  BY <1>1, <1>2, FlipRuns
<1>8. M!FlipInOrder'
  BY <1>1, <1>3, <1>4, <1>7, FlipRuns DEF M!FlipInv, M!FlipInOrder
<1>9. M!StrikesInOrder' /\ M!StrikesAreReal'
  <2>1. ~v11' => ~(v5' > 0)
    BY <1>2, Zenon
  <2>2. ~v11' => v5' = 0
    BY <1>5, <2>1
  <2> QED BY <1>1, <1>3, <1>4, <2>2 DEF M!StrikesInOrder, M!StrikesAreReal
<1>10. M!OutageReturnsToLocal'
  BY <1>7 DEF M!OutageReturnsToLocal
<1> QED BY <1>3, <1>6, <1>8, <1>9, <1>10 DEF M!FlipInv, M!WordIsKept, M!OutageIsTold

LEMMA FlipDies == ASSUME M!FlipInv, M!RunDies PROVE M!FlipInv'
<1>1. M!TypeOK
  BY DEF M!FlipInv
<1>2. /\ v6.step # "idle" /\ v6' = M!Idle
      /\ v10' = (v10 \/ v6.step \in {"restart", "verify", "back"}) /\ v11' = (v11 \/ v5 > 0)
      /\ UNCHANGED <<v1, v2, v3, v4, v5, v7, v8, v9, v12, v13, v15>>
  BY DEF M!RunDies
<1>3. v6' \in M!Run /\ v6'.step = "idle" /\ v6'.why = "none"
  BY <1>2 DEF M!Idle, M!Run
<1>4. v14' \in 0..FlipFaults
  <2>1. v14 \in 0..FlipFaults
    BY <1>1 DEF M!TypeOK
  <2> QED BY <2>1, FlipAssumption DEF M!RunDies
<1>5. M!TypeOK'
  BY <1>1, <1>2, <1>3, <1>4, FlipRuns DEF M!TypeOK
<1>6. M!FlipInOrder'
  BY <1>1, <1>2, <1>3, FlipRuns DEF M!FlipInv, M!FlipInOrder
<1>7. M!StrikesInOrder' /\ M!StrikesAreReal'
  <2>1. ~v11' => ~v11 /\ v5 = 0
    <3>1. ~v11' => ~v11 /\ ~(v5 > 0)
      BY <1>2, Zenon
    <3> QED BY <1>1, <3>1, FlipRuns
  <2>2. v8' \in Nat /\ v5' = v5
    BY <1>2, <1>5 DEF M!TypeOK
  <2> QED BY <1>3, <2>1, <2>2 DEF M!StrikesInOrder, M!StrikesAreReal
<1>8. M!OutageReturnsToLocal'
  BY <1>1, <1>2, <1>3, <1>5, <1>6, FlipRuns DEF M!FlipInv, M!FlipInOrder, M!OutageReturnsToLocal
<1> QED BY <1>2, <1>5, <1>6, <1>7, <1>8 DEF M!FlipInv, M!WordIsKept, M!OutageIsTold

\* The watchdog reads its state and saves what it says, or does not.
LEMMA FlipWatched == ASSUME M!FlipInv, M!Watch PROVE M!FlipInv'
<1>1. M!TypeOK /\ v7 \in M!State /\ v2 \in BOOLEAN /\ v14 \in 0..FlipFaults
  BY DEF M!FlipInv, M!TypeOK
<1>2. UNCHANGED <<v1, v2, v3, v4, v5, v6, v8, v9, v10, v11, v12, v13, v15>>
  BY DEF M!Watch
<1>3. PICK age \in {"fresh", "aging", "stale"}, was \in {v7, M!Forgotten}, file \in {"saved", "old", "empty"} :
       LET fails == IF v2 THEN 0 ELSE IF was.fails = 2 THEN 2 ELSE was.fails + 1
           posts == (v2 /\ was.alerted) \/ M!Alarms(fails, was.alerted)
           told  == IF posts THEN (IF v2 THEN "green" ELSE "red") ELSE v7.told
           slips == was # v7 \/ file # "saved"
       IN  /\ slips => v14 < FlipFaults
           /\ v14' = IF slips THEN v14 + 1 ELSE v14
           /\ v7' = IF file = "saved"
                    THEN [fails |-> fails, alerted |-> ~v2 /\ fails >= 2, told |-> told,
                          lost |-> was.lost /\ ~posts,
                          stale |-> IF ~v2 THEN was.stale
                                    ELSE age = "stale" \/ (was.stale /\ age = "aging")]
                    ELSE [IF file = "old" THEN v7 ELSE M!Forgotten EXCEPT !.told = told, !.lost = TRUE]
  BY Zenon DEF M!Watch
<1> DEFINE fails == IF v2 THEN 0 ELSE IF was.fails = 2 THEN 2 ELSE was.fails + 1
           posts == (v2 /\ was.alerted) \/ (fails >= 2 /\ ~was.alerted)
           told  == IF posts THEN (IF v2 THEN "green" ELSE "red") ELSE v7.told
           slips == was # v7 \/ file # "saved"
           lost  == was.lost /\ ~posts
           alerted == ~v2 /\ fails >= 2
           stale == IF ~v2 THEN was.stale ELSE age = "stale" \/ (was.stale /\ age = "aging")
<1>4. /\ slips => v14 < FlipFaults
      /\ v14' = IF slips THEN v14 + 1 ELSE v14
      /\ v7' = IF file = "saved"
               THEN [fails |-> fails, alerted |-> alerted, told |-> told, lost |-> lost, stale |-> stale]
               ELSE [IF file = "old" THEN v7 ELSE M!Forgotten EXCEPT !.told = told, !.lost = TRUE]
  BY <1>3 DEF M!Alarms
<1>5. /\ M!Forgotten \in M!State /\ M!Forgotten.fails = 0 /\ M!Forgotten.alerted = FALSE /\ M!Forgotten.lost
      /\ v7.told \in {"none", "red", "green"}
  BY <1>1 DEF M!Forgotten, M!State
<1>6. /\ was \in M!State /\ was.fails \in 0..2 /\ was.alerted \in BOOLEAN /\ was.stale \in BOOLEAN /\ was.lost \in BOOLEAN
      /\ (was.alerted <=> was.fails = 2)
      /\ was.lost \/ (was.alerted <=> v7.told = "red")
  <2>1. (v7.alerted <=> v7.fails = 2) /\ (v7.lost \/ (v7.alerted <=> v7.told = "red"))
    BY DEF M!FlipInv, M!WordIsKept
  <2>2. CASE was = v7
    BY <1>1, <2>1, <2>2 DEF M!State
  <2>3. CASE was = M!Forgotten
    BY <1>5, <2>3 DEF M!State
  <2> QED BY <2>2, <2>3
<1>7. v14' \in 0..FlipFaults
  BY <1>1, <1>4, FlipAssumption
<1> HIDE DEF slips
<1>8. fails \in 0..2 /\ told \in {"none", "red", "green"} /\ lost \in BOOLEAN /\ alerted \in BOOLEAN /\ stale \in BOOLEAN
  <2>1. fails \in 0..2 /\ told \in {"none", "red", "green"}
    BY <1>1, <1>5, <1>6
  <2>2. stale \in BOOLEAN
    BY <1>1, <1>6
  <2>3. lost \in BOOLEAN /\ alerted \in BOOLEAN
    BY <1>6, Zenon
  <2> QED BY <2>1, <2>2, <2>3, Zenon
<1>9. /\ alerted <=> fails = 2
      /\ lost \/ (alerted <=> told = "red")
  <2>1. alerted <=> fails = 2
    BY <1>1, <1>6
  <2>2. CASE v2
    BY <1>5, <1>6, <2>2
  <2>3. CASE ~v2
    BY <1>5, <1>6, <2>3
  <2> QED BY <2>1, <2>2, <2>3
<1> HIDE DEF fails, told, lost, alerted, stale
<1>10. /\ v7' \in M!State
       /\ v7'.alerted <=> v7'.fails = 2
       /\ v7'.lost \/ (v7'.alerted <=> v7'.told = "red")
  <2>1. CASE file = "saved"
    <3>1. v7' = [fails |-> fails, alerted |-> alerted, told |-> told, lost |-> lost, stale |-> stale]
      BY <1>4, <2>1
    <3> QED BY <1>8, <1>9, <3>1 DEF M!State
  <2>2. CASE file = "old"
    <3>1. v7' = [fails |-> v7.fails, alerted |-> v7.alerted, told |-> told, lost |-> TRUE, stale |-> v7.stale]
      BY <1>1, <1>4, <2>2 DEF M!State
    <3>2. v7.alerted <=> v7.fails = 2
      BY DEF M!FlipInv, M!WordIsKept
    <3>3. v7.fails \in 0..2 /\ v7.alerted \in BOOLEAN /\ v7.stale \in BOOLEAN
      BY <1>1 DEF M!State
    <3> QED BY <1>8, <3>1, <3>2, <3>3 DEF M!State
  <2>3. CASE file = "empty"
    <3>1. v7' = [fails |-> 0, alerted |-> FALSE, stale |-> FALSE, told |-> told, lost |-> TRUE]
      BY <1>4, <2>3 DEF M!Forgotten
    <3> QED BY <1>8, <3>1 DEF M!State
  <2> QED BY <2>1, <2>2, <2>3
<1>11. M!TypeOK'
  BY <1>1, <1>2, <1>7, <1>10 DEF M!TypeOK
<1>12. M!WordIsKept' /\ M!OutageIsTold'
  BY <1>10 DEF M!WordIsKept, M!OutageIsTold
<1> QED BY <1>2, <1>11, <1>12 DEF M!FlipInv, M!FlipInOrder, M!StrikesInOrder, M!OutageReturnsToLocal, M!StrikesAreReal

\* The operator, whatever restarts the service, and MotherDuck.
LEMMA FlipWorld ==
  ASSUME M!FlipInv, M!PutToken \/ M!ByHand \/ M!ServiceRestarts \/ M!MotherDuck \/ UNCHANGED M!vars
  PROVE  M!FlipInv'
<1>1. M!TypeOK
  BY DEF M!FlipInv
<1>2. v15 \in 0..FlipActs /\ v12 \in 0..FlipOutages
  BY <1>1 DEF M!TypeOK
<1>3. ASSUME M!PutToken PROVE M!FlipInv'
  <2>1. v15' \in 0..FlipActs /\ v1' \in {"none", "write", "read"}
    BY <1>2, <1>3, FlipAssumption DEF M!PutToken
  <2>2. UNCHANGED <<v2, v3, v4, v5, v6, v7, v8, v9, v10, v11, v12, v13, v14>>
    BY <1>3 DEF M!PutToken
  <2>3. M!TypeOK'
    BY <1>1, <2>1, <2>2 DEF M!TypeOK
  <2> QED BY <2>2, <2>3 DEF M!FlipInv, M!FlipInOrder, M!StrikesInOrder, M!WordIsKept,
        M!OutageReturnsToLocal, M!StrikesAreReal, M!OutageIsTold
<1>4. ASSUME M!ByHand PROVE M!FlipInv'
  <2>1. v15' \in 0..FlipActs
    BY <1>2, <1>4, FlipAssumption DEF M!ByHand
  <2>2. /\ v6.step = "idle" /\ v3' = FALSE /\ v4' = "local" /\ v11' = (v11 \/ v5 > 0) /\ v10' = FALSE
        /\ UNCHANGED <<v1, v2, v5, v6, v7, v8, v9, v12, v13, v14>>
    BY <1>4 DEF M!ByHand
  <2>3. M!TypeOK'
    BY <1>1, <2>1, <2>2, FlipRuns DEF M!TypeOK
  <2>4. M!FlipInOrder'
    BY <1>1, <2>2, FlipRuns DEF M!FlipInv, M!FlipInOrder
  <2>5. M!StrikesInOrder'
    BY <1>1, <2>2, FlipRuns DEF M!FlipInv, M!StrikesInOrder
  <2> QED BY <1>1, <2>2, <2>3, <2>4, <2>5, FlipRuns DEF M!FlipInv, M!WordIsKept,
        M!OutageReturnsToLocal, M!StrikesAreReal, M!OutageIsTold
<1>5. ASSUME M!ServiceRestarts PROVE M!FlipInv'
  <2>1. v15' \in 0..FlipActs
    BY <1>2, <1>5, FlipAssumption DEF M!ServiceRestarts
  <2>2. /\ v4' = (IF v3 THEN "md" ELSE "local")
        /\ UNCHANGED <<v1, v2, v3, v5, v6, v7, v8, v9, v10, v11, v12, v13, v14>>
    BY <1>5 DEF M!ServiceRestarts
  <2>3. M!TypeOK'
    BY <1>1, <2>1, <2>2 DEF M!TypeOK
  <2>4. M!FlipInOrder'
    BY <1>1, <2>2, FlipRuns DEF M!FlipInv, M!FlipInOrder
  <2>5. M!OutageReturnsToLocal'
    BY <1>1, <2>2, FlipRuns DEF M!FlipInv, M!FlipInOrder, M!OutageReturnsToLocal
  <2> QED BY <2>2, <2>3, <2>4, <2>5 DEF M!FlipInv, M!StrikesInOrder, M!WordIsKept,
        M!StrikesAreReal, M!OutageIsTold
<1>6. ASSUME M!MotherDuck PROVE M!FlipInv'
  <2>1. v12' \in 0..FlipOutages
    BY <1>2, <1>6, FlipAssumption DEF M!MotherDuck
  <2>2. /\ v2' = ~v2 /\ v9' = 0
        /\ UNCHANGED <<v1, v3, v4, v5, v6, v7, v8, v10, v11, v13, v14, v15>>
    BY <1>6 DEF M!MotherDuck
  <2>3. M!TypeOK'
    BY <1>1, <2>1, <2>2, FlipRuns DEF M!TypeOK
  <2>4. M!FlipInOrder'
    BY <1>1, <2>2, FlipRuns DEF M!FlipInv, M!FlipInOrder
  <2> QED BY <2>2, <2>3, <2>4 DEF M!FlipInv, M!StrikesInOrder, M!WordIsKept,
        M!OutageReturnsToLocal, M!StrikesAreReal, M!OutageIsTold
<1>7. ASSUME UNCHANGED M!vars PROVE M!FlipInv'
  <2>1. UNCHANGED <<v1, v2, v3, v4, v5, v6, v7, v8, v9, v10, v11, v12, v13, v14, v15>>
    BY <1>7 DEF M!vars
  <2> QED BY <2>1 DEF M!FlipInv, M!TypeOK, M!FlipInOrder, M!StrikesInOrder, M!WordIsKept,
        M!OutageReturnsToLocal, M!StrikesAreReal, M!OutageIsTold
<1> QED BY <1>3, <1>4, <1>5, <1>6, <1>7

LEMMA FlipStep == ASSUME M!FlipInv, [M!Next]_(M!vars) PROVE M!FlipInv'
BY FlipMonitors, FlipValidates, FlipGoes, FlipVerifies, FlipReturns, FlipDies, FlipWatched, FlipWorld, Zenon
  DEF M!Next, M!AutoFlip

-----------------------------------------------------------------------------
(* The vault: E.                                                           *)

\* Days and snapshots are numbers, a snapshot is not 0.
LEMMA VaultNumbers ==
  /\ 1 \in E!Day /\ 1 \in E!Snapshot
  /\ \A s \in E!Snapshot : s \in Nat /\ s # 0 /\ VaultTables[s] \subseteq E!Exported
  /\ \A d \in E!Day : d \in 1..VaultDays /\ d \in 0..VaultDays
<1>1. E!Snapshot = 1..Len(VaultTables) /\ Len(VaultTables) \in Nat \ {0} /\ E!Day = 1..VaultDays
  BY VaultAssumption DEF E!Snapshot, E!Day
<1>2. \A s \in E!Snapshot : VaultTables[s] \subseteq E!Exported
  BY DEF E!Exported
<1> QED BY <1>1, <1>2, VaultAssumption

\* The newest day of the vault.
LEMMA VaultNewest ==
  ASSUME E!Dates # {}
  PROVE  E!Newest \in E!Dates
<1> DEFINE Below == {ss \in Nat \X Nat : ss[1] < ss[2]}
           Rest == {VaultDays - x : x \in E!Dates}
<1>1. IsWellFoundedOn(Below, Nat)
  BY NatLessThanWellFounded DEF OpToRel
<1>2. VaultDays \in Nat /\ \A x \in E!Dates : x \in Nat /\ VaultDays - x \in Nat
  BY VaultAssumption DEF E!Dates, E!Day
<1>3. Rest \subseteq Nat /\ Rest # {}
  BY <1>2
<1>4. \A x \in Nat, y \in Nat : y < x => <<y, x>> \in Below
  OBVIOUS
<1> HIDE DEF Below
<1>5. PICK g \in Rest : \A h \in Rest : ~(<<h, g>> \in Below)
  BY <1>1, <1>3, WFMin
<1>6. PICK x \in E!Dates : g = VaultDays - x
  OBVIOUS
<1>7. ASSUME NEW y \in E!Dates PROVE y <= x
  <2>1. VaultDays - y \in Rest
    OBVIOUS
  <2>2. ~(VaultDays - y < VaultDays - x)
    BY <1>2, <1>4, <1>5, <1>6, <2>1
  <2> QED BY <1>2, <2>2
<1>8. \E z \in E!Dates : \A y \in E!Dates : y <= z
  BY <1>7
<1> QED BY <1>8, Zenon DEF E!Newest

LEMMA VaultInit == ASSUME E!Init PROVE E!EscrowInv
<1>1. /\ v1 = 1 /\ v2 = 1 /\ v3 \in BOOLEAN /\ v4 = [d \in E!Day |-> [t \in E!Exported |-> 0]]
      /\ v5 = [d \in E!Day |-> {}] /\ v6 = [d \in E!Day |-> E!NoManifest] /\ v7 = E!Nobody
      /\ v8 = [day |-> 0, snap |-> 1]
      /\ v9 = [step |-> "none", fails |-> 0, alerted |-> FALSE, told |-> "none", masked |-> FALSE, lost |-> FALSE]
      /\ v10 = 0 /\ v11 = 0 /\ v12 = [day |-> 0, snap |-> 1] /\ v13 = 0
  BY DEF E!Init, E!Unverified
<1>2. 1 \in E!Day /\ 1 \in E!Snapshot /\ 0 \in 0..VaultDays /\ 0 \in 0..VaultFaults
  BY VaultNumbers, VaultAssumption
<1>3. v7 = [step |-> "none", by |-> "nobody", day |-> 1, snap |-> 1, left |-> {},
            got |-> {}, skipped |-> {}, failed |-> {}]
  BY <1>1 DEF E!Nobody
<1>4. v7 \in E!Process
  BY <1>2, <1>3 DEF E!Process
<1>5. /\ v6 \in [E!Day -> [snap : {0} \cup E!Snapshot, got : SUBSET E!Exported, skipped : SUBSET E!Exported]]
      /\ \A d \in E!Day : v6[d].got = {} /\ v6[d].got \cap v6[d].skipped = {} /\ v6[d] = E!NoManifest
  BY <1>1 DEF E!NoManifest
<1>6. v4 \in [E!Day -> [E!Exported -> {0} \cup E!Snapshot]] /\ v5 \in [E!Day -> SUBSET VaultExtra]
  BY <1>1
<1>7. E!TypeOK
  <2>1. v9 \in E!Watchdog
    BY <1>1 DEF E!Watchdog
  <2> QED BY <1>1, <1>2, <1>3, <1>4, <1>5, <1>6, <2>1 DEF E!TypeOK
<1>8. E!ExportInOrder
  BY <1>3 DEF E!ExportInOrder, E!AtWork
<1>9. E!VaultInOrder
  BY <1>1, <1>5 DEF E!VaultInOrder
<1> QED BY <1>1, <1>5, <1>7, <1>8, <1>9 DEF E!EscrowInv, E!GapsAreCounted, E!DoneIsVaulted,
          E!ManifestIsTrue, E!GapsAreTold

LEMMA VaultFaultsCounted ==
  ASSUME E!TypeOK, NEW fault, E!Counts(fault)
  PROVE  v13' \in 0..VaultFaults
BY VaultAssumption DEF E!TypeOK, E!Counts

\* An export begins: its tables are to do.
LEMMA VaultStarts ==
  ASSUME E!TypeOK, NEW by \in {"cron", "dog"}, E!Starts(by)
  PROVE  /\ v7' \in E!Process /\ v7'.step = "tables" /\ v7'.day = v1 /\ v7'.snap = v2
         /\ v7'.left = VaultTables[v2] /\ v7'.got = {} /\ v7'.skipped = {} /\ v7'.failed = {}
<1>1. v7' = [step |-> "tables", by |-> by, day |-> v1, snap |-> v2, left |-> VaultTables[v2],
             got |-> {}, skipped |-> {}, failed |-> {}]
  BY DEF E!Starts, E!Nobody
<1>2. v1 \in E!Day /\ v2 \in E!Snapshot /\ VaultTables[v2] \subseteq E!Exported
  BY VaultNumbers DEF E!TypeOK
<1> QED BY <1>1, <1>2 DEF E!Process

\* An export is over.
LEMMA VaultEnds ==
  ASSUME E!TypeOK, NEW well \in BOOLEAN, E!Ends(well)
  PROVE  /\ v7' \in E!Process /\ v7'.step = "none" /\ v7'.left = {} /\ v7'.got = {} /\ v7'.skipped = {}
         /\ v7'.failed = {}
         /\ v8' \in [day : 0..VaultDays, snap : E!Snapshot]
         /\ v8'.day > 0 => well /\ v8'.day = v7.day /\ v8'.snap = v7.snap
<1>1. v7' = [step |-> "none", by |-> "nobody", day |-> 1, snap |-> 1, left |-> {},
             got |-> {}, skipped |-> {}, failed |-> {}]
  BY DEF E!Ends, E!Nobody
<1>2. 1 \in E!Day /\ 1 \in E!Snapshot /\ v7.day \in 0..VaultDays /\ v7.snap \in E!Snapshot /\ 0 \in 0..VaultDays
  BY VaultNumbers, VaultAssumption DEF E!TypeOK, E!Process
<1>3. v8' = IF well THEN [day |-> v7.day, snap |-> v7.snap] ELSE [day |-> 0, snap |-> 1]
  BY DEF E!Ends, E!Unverified
<1>4. v7' \in E!Process
  BY <1>1, <1>2 DEF E!Process
<1> QED BY <1>1, <1>2, <1>3, <1>4

\* What has been vouched for stays so while the vault grows.
LEMMA VaultGrows ==
  ASSUME E!EscrowInv, UNCHANGED <<v3, v8, v12>>,
         \A d \in E!Day : /\ \A t \in E!Exported : v4[d][t] # 0 => v4'[d][t] # 0
                          /\ v5[d] \subseteq v5'[d]
                          /\ v6[d].snap # 0 => v6'[d].snap # 0
                          /\ v3 /\ v6[d].snap # 0 => v6'[d] = v6[d]
  PROVE  /\ E!DoneIsVaulted'
         /\ v12'.day > 0 =>
              \E d \in {v12'.day, v12'.day - 1} \cap E!Day :
                /\ \A t \in VaultTables[v12'.snap] : v4'[d][t] # 0
                /\ v5'[d] \cap VaultSeed # {} /\ v6'[d].snap # 0
<1>1. /\ v8 \in [day : 0..VaultDays, snap : E!Snapshot] /\ v12 \in [day : 0..VaultDays, snap : E!Snapshot]
      /\ \A d \in E!Day : v6[d] = E!NoManifest \/ v6[d].snap # 0
  BY DEF E!EscrowInv, E!TypeOK, E!VaultInOrder
<1>2. VaultTables[v8.snap] \subseteq E!Exported /\ VaultTables[v12.snap] \subseteq E!Exported
  BY <1>1, VaultNumbers
<1>3. v8.day > 0 => v8.day \in E!Day
  BY <1>1 DEF E!Day
<1>4. E!DoneIsVaulted'
  <2> SUFFICES ASSUME v8.day > 0, NEW t \in VaultTables[v8.snap]
               PROVE  v4'[v8.day][t] # 0 /\ (v3 => t \in v6'[v8.day].got \cup v6'[v8.day].skipped)
    BY DEF E!DoneIsVaulted
  <2>1. v4[v8.day][t] # 0 /\ (v3 => t \in v6[v8.day].got \cup v6[v8.day].skipped)
    BY DEF E!EscrowInv, E!DoneIsVaulted
  <2>2. v3 => v6[v8.day].snap # 0
    BY <1>1, <1>3, <2>1 DEF E!NoManifest
  <2> QED BY <1>2, <1>3, <2>1, <2>2
<1>5. ASSUME v12.day > 0
      PROVE  \E d \in {v12.day, v12.day - 1} \cap E!Day :
                /\ \A t \in VaultTables[v12.snap] : v4'[d][t] # 0
                /\ v5'[d] \cap VaultSeed # {} /\ v6'[d].snap # 0
  <2>1. PICK d \in {v12.day, v12.day - 1} \cap E!Day :
                /\ \A t \in VaultTables[v12.snap] : v4[d][t] # 0
                /\ v5[d] \cap VaultSeed # {} /\ v6[d].snap # 0
    BY <1>5 DEF E!EscrowInv, E!GapsAreTold
  <2> QED BY <1>2, <2>1
<1> QED BY <1>4, <1>5

LEMMA VaultCron == ASSUME E!EscrowInv, E!Cron PROVE E!EscrowInv'
<1>1. E!TypeOK
  BY DEF E!EscrowInv
<1>2. /\ v11' = v1 /\ UNCHANGED <<v1, v2, v3, v4, v5, v6, v8, v9, v10, v12, v13>>
      /\ v7' \in E!Process /\ v7'.step = "tables" /\ v7'.day = v1 /\ v7'.snap = v2
      /\ v7'.left = VaultTables[v2] /\ v7'.got = {} /\ v7'.skipped = {} /\ v7'.failed = {}
  BY <1>1, VaultStarts DEF E!Cron
<1>3. v1 \in 0..VaultDays /\ v1 \in Nat
  BY <1>1, VaultNumbers DEF E!TypeOK
<1>4. E!TypeOK'
  BY <1>1, <1>2, <1>3 DEF E!TypeOK
<1>5. E!ExportInOrder'
  BY <1>2, <1>3 DEF E!ExportInOrder, E!AtWork
<1> QED BY <1>2, <1>4, <1>5 DEF E!EscrowInv, E!VaultInOrder, E!GapsAreCounted, E!DoneIsVaulted,
          E!ManifestIsTrue, E!GapsAreTold

\* A table is skipped, copied or fails.
LEMMA VaultTable == ASSUME E!EscrowInv, E!ExportTable PROVE E!EscrowInv'
<1>1. /\ E!TypeOK /\ v7 \in E!Process /\ v7.step = "tables" /\ v7.left # {}
      /\ v7.day \in E!Day /\ v7.snap \in E!Snapshot /\ v7.day <= v1
      /\ v4 \in [E!Day -> [E!Exported -> {0} \cup E!Snapshot]]
      /\ UNCHANGED <<v1, v2, v3, v5, v6, v8, v9, v10, v11, v12>>
  BY DEF E!EscrowInv, E!TypeOK, E!ExportTable, E!Process, E!ExportInOrder, E!AtWork
<1> DEFINE t == CHOOSE name \in v7.left : TRUE
<1>2. t \in v7.left
  BY <1>1
<1>3. /\ v13' \in 0..VaultFaults
      /\ \/ v7' = [v7 EXCEPT !.left = @ \ {t}, !.skipped = @ \cup {t}] /\ UNCHANGED v4
         \/ /\ ~(v3 /\ v4[v7.day][t] # 0)
            /\ v7' = [v7 EXCEPT !.left = @ \ {t}, !.got = @ \cup {t}]
            /\ v4' = [v4 EXCEPT ![v7.day][t] = v7.snap]
         \/ v7' = [v7 EXCEPT !.left = @ \ {t}, !.failed = @ \cup {t}] /\ UNCHANGED v4
  <2>1. PICK error \in BOOLEAN, fails \in BOOLEAN :
         LET refused == v3 /\ v4[v7.day][t] # 0
         IN /\ E!Counts(error \/ fails)
           /\ \/ /\ v7' = [v7 EXCEPT !.left = @ \ {t}, !.skipped = @ \cup {t}]
                 /\ UNCHANGED v4
              \/ /\ ~refused
                 /\ v7' = [v7 EXCEPT !.left = @ \ {t}, !.got = @ \cup {t}]
                 /\ v4' = [v4 EXCEPT ![v7.day][t] = v7.snap]
              \/ /\ v7' = [v7 EXCEPT !.left = @ \ {t}, !.failed = @ \cup {t}]
                 /\ UNCHANGED v4
    BY Zenon DEF E!ExportTable
  <2> QED BY <1>1, <2>1, VaultFaultsCounted
<1> HIDE DEF t
<1>4. t \in E!Exported /\ v7.snap # 0 /\ VaultTables[v7.snap] \subseteq E!Exported /\ v7.left \subseteq VaultTables[v7.snap]
  <2>1. v7.left \subseteq VaultTables[v7.snap]
    BY <1>1 DEF E!TypeOK
  <2> QED BY <1>1, <1>2, <2>1, VaultNumbers
<1>5. /\ v7' \in E!Process /\ v7'.step = "tables" /\ v7'.day = v7.day /\ v7'.snap = v7.snap
      /\ v7'.left = v7.left \ {t}
      /\ \/ v7'.got = v7.got /\ v7'.skipped = v7.skipped \cup {t} /\ v7'.failed = v7.failed
         \/ v7'.got = v7.got \cup {t} /\ v7'.skipped = v7.skipped /\ v7'.failed = v7.failed
         \/ v7'.got = v7.got /\ v7'.skipped = v7.skipped /\ v7'.failed = v7.failed \cup {t}
  <2>1. CASE v7' = [v7 EXCEPT !.left = @ \ {t}, !.skipped = @ \cup {t}]
    <3>1. v7' = [step |-> "tables", by |-> v7.by, day |-> v7.day, snap |-> v7.snap, left |-> v7.left \ {t},
                 got |-> v7.got, skipped |-> v7.skipped \cup {t}, failed |-> v7.failed]
      BY <1>1, <2>1 DEF E!Process
    <3> QED BY <1>1, <1>4, <3>1 DEF E!Process
  <2>2. CASE v7' = [v7 EXCEPT !.left = @ \ {t}, !.got = @ \cup {t}]
    <3>1. v7' = [step |-> "tables", by |-> v7.by, day |-> v7.day, snap |-> v7.snap, left |-> v7.left \ {t},
                 got |-> v7.got \cup {t}, skipped |-> v7.skipped, failed |-> v7.failed]
      BY <1>1, <2>2 DEF E!Process
    <3> QED BY <1>1, <1>4, <3>1 DEF E!Process
  <2>3. CASE v7' = [v7 EXCEPT !.left = @ \ {t}, !.failed = @ \cup {t}]
    <3>1. v7' = [step |-> "tables", by |-> v7.by, day |-> v7.day, snap |-> v7.snap, left |-> v7.left \ {t},
                 got |-> v7.got, skipped |-> v7.skipped, failed |-> v7.failed \cup {t}]
      BY <1>1, <2>3 DEF E!Process
    <3> QED BY <1>1, <1>4, <3>1 DEF E!Process
  <2> QED BY <1>3, <2>1, <2>2, <2>3
<1>6. /\ v4' \in [E!Day -> [E!Exported -> {0} \cup E!Snapshot]]
      /\ \A d \in E!Day, u \in E!Exported : v4'[d][u] = v4[d][u] \/ (d = v7.day /\ u = t /\ v4'[d][u] = v7.snap)
      /\ \A d \in E!Day, u \in E!Exported : v3 /\ v4[d][u] # 0 => v4'[d][u] = v4[d][u]
  <2>1. CASE UNCHANGED v4
    BY <1>1, <2>1
  <2>2. CASE v4' = [v4 EXCEPT ![v7.day][t] = v7.snap] /\ ~(v3 /\ v4[v7.day][t] # 0)
    <3>1. v4' \in [E!Day -> [E!Exported -> {0} \cup E!Snapshot]]
      BY <1>1, <1>4, <2>2
    <3>2. \A d \in E!Day, u \in E!Exported :
            v4'[d][u] = IF d = v7.day /\ u = t THEN v7.snap ELSE v4[d][u]
      BY <1>1, <1>4, <2>2
    <3> QED BY <2>2, <3>1, <3>2
  <2> QED BY <1>3, <2>1, <2>2
<1>7. E!TypeOK'
  BY <1>1, <1>2, <1>3, <1>4, <1>5, <1>6 DEF E!TypeOK
<1>8. v3 => \A u \in v7'.got : v4'[v7.day][u] = v7.snap
  <2> SUFFICES ASSUME v3, NEW u \in v7'.got PROVE v4'[v7.day][u] = v7.snap
    OBVIOUS
  <2>1. CASE u \in v7.got
    <3>1. v4[v7.day][u] = v7.snap /\ u \in E!Exported
      BY <1>1, <2>1 DEF E!EscrowInv, E!ExportInOrder, E!AtWork, E!Process
    <3> QED BY <1>1, <1>4, <1>6, <3>1
  <2>2. CASE u \notin v7.got
    <3>1. u = t /\ v7'.got # v7.got
      BY <1>5, <2>2
    <3>2. v4' = [v4 EXCEPT ![v7.day][t] = v7.snap]
      <4>1. \/ v7'.got = v7.got
            \/ v4' = [v4 EXCEPT ![v7.day][t] = v7.snap]
        BY <1>1, <1>3 DEF E!Process
      <4> QED BY <3>1, <4>1
    <3> QED BY <1>1, <1>4, <3>1, <3>2
  <2> QED BY <2>1, <2>2
<1>9. E!ExportInOrder'
  <2>1. /\ v7.left \cap (v7.got \cup v7.skipped) = {} /\ v7.got \cap v7.skipped = {}
        /\ VaultTables[v7.snap] \subseteq v7.left \cup v7.got \cup v7.skipped \cup v7.failed
    BY <1>1 DEF E!EscrowInv, E!ExportInOrder, E!AtWork
  <2>2. v7'.left \cap (v7'.got \cup v7'.skipped) = {} /\ v7'.got \cap v7'.skipped = {}
    BY <1>2, <1>5, <2>1
  <2>3. VaultTables[v7'.snap] \subseteq UNION {v7'.left, v7'.got, v7'.skipped, v7'.failed}
    BY <1>5, <2>1
  <2> QED BY <1>1, <1>5, <1>8, <2>2, <2>3 DEF E!ExportInOrder, E!AtWork
<1>10. E!VaultInOrder'
  <2>1. \A d \in E!Day : d > v1 => d # v7.day
    BY <1>1 DEF E!TypeOK, E!Day
  <2> QED BY <1>1, <1>6, <2>1 DEF E!EscrowInv, E!VaultInOrder
<1>11. \A d \in E!Day, u \in E!Exported : v4[d][u] # 0 => v4'[d][u] # 0
  BY <1>4, <1>6
<1>12. E!ManifestIsTrue'
  <2> SUFFICES ASSUME v3, NEW d \in E!Day, NEW u \in v6[d].got PROVE v4'[d][u] = v6[d].snap
    BY <1>1 DEF E!ManifestIsTrue
  <2>1. v4[d][u] = v6[d].snap
    BY DEF E!EscrowInv, E!ManifestIsTrue
  <2>2. v6[d].snap # 0
    BY DEF E!EscrowInv, E!VaultInOrder, E!NoManifest
  <2>3. u \in E!Exported
    BY <1>1 DEF E!TypeOK
  <2> QED BY <1>6, <2>1, <2>2, <2>3
<1>13. E!DoneIsVaulted' /\ E!GapsAreTold'
  BY <1>1, <1>11, VaultGrows DEF E!EscrowInv, E!GapsAreTold
<1> QED BY <1>1, <1>7, <1>9, <1>10, <1>12, <1>13 DEF E!EscrowInv, E!GapsAreCounted

LEMMA VaultExtras == ASSUME E!EscrowInv, E!ExportExtras PROVE E!EscrowInv'
<1>1. /\ E!TypeOK /\ v7 \in E!Process /\ v7.step = "tables" /\ v7.left = {}
      /\ v7.day \in E!Day /\ v7.day <= v1 /\ v5 \in [E!Day -> SUBSET VaultExtra] /\ v1 \in E!Day
      /\ UNCHANGED <<v1, v2, v3, v4, v6, v8, v9, v10, v11, v12>>
      /\ v7' = [v7 EXCEPT !.step = "manifest"]
  BY DEF E!EscrowInv, E!TypeOK, E!ExportExtras, E!Process, E!ExportInOrder, E!AtWork
<1>2. PICK missed \in SUBSET (VaultExtra \ v5[v7.day]) :
        /\ v5' = [v5 EXCEPT ![v7.day] = VaultExtra \ missed]
        /\ v13' \in 0..VaultFaults
  BY <1>1, VaultFaultsCounted DEF E!ExportExtras
<1>3. /\ v5' \in [E!Day -> SUBSET VaultExtra] /\ \A d \in E!Day : v5[d] \subseteq v5'[d]
      /\ \A d \in E!Day : d # v7.day => v5'[d] = v5[d]
  BY <1>1, <1>2
<1>4. /\ v7' \in E!Process /\ v7'.step = "manifest" /\ v7'.day = v7.day /\ v7'.snap = v7.snap
      /\ v7'.left = {} /\ v7'.got = v7.got /\ v7'.skipped = v7.skipped /\ v7'.failed = v7.failed
  BY <1>1 DEF E!Process
<1>5. E!TypeOK'
  BY <1>1, <1>2, <1>3, <1>4 DEF E!TypeOK
<1>6. E!ExportInOrder'
  BY <1>1, <1>4 DEF E!EscrowInv, E!ExportInOrder, E!AtWork
<1>7. E!VaultInOrder'
  <2>1. \A d \in E!Day : d > v1 => d # v7.day
    BY <1>1 DEF E!Day
  <2> QED BY <1>1, <1>3, <2>1 DEF E!EscrowInv, E!VaultInOrder
<1>8. E!DoneIsVaulted' /\ E!GapsAreTold'
  BY <1>1, <1>3, VaultGrows DEF E!EscrowInv, E!GapsAreTold
<1> QED BY <1>1, <1>5, <1>6, <1>7, <1>8 DEF E!EscrowInv, E!GapsAreCounted, E!ManifestIsTrue

\* The manifest is written, or the export is over.
LEMMA VaultManifest == ASSUME E!EscrowInv, E!WriteManifest PROVE E!EscrowInv'
<1>1. /\ E!TypeOK /\ v7 \in E!Process /\ v7.step = "manifest" /\ v1 \in E!Day
      /\ v7.day \in E!Day /\ v7.snap \in E!Snapshot /\ v7.snap # 0
      /\ UNCHANGED <<v1, v2, v3, v4, v5, v9, v10, v11, v12>>
  BY VaultNumbers DEF E!EscrowInv, E!TypeOK, E!WriteManifest, E!Process
<1>2. v13' \in 0..VaultFaults
  BY <1>1, VaultFaultsCounted DEF E!WriteManifest
<1>3. CASE E!Ends(FALSE) /\ UNCHANGED v6
  <2>1. /\ v7' \in E!Process /\ v7'.step = "none" /\ v7'.left = {} /\ v7'.got = {} /\ v7'.skipped = {}
        /\ v7'.failed = {}
        /\ v8' \in [day : 0..VaultDays, snap : E!Snapshot] /\ ~(v8'.day > 0)
    BY <1>1, <1>3, VaultEnds
  <2>2. E!TypeOK'
    BY <1>1, <1>2, <1>3, <2>1 DEF E!TypeOK
  <2>3. E!ExportInOrder'
    BY <2>1 DEF E!ExportInOrder, E!AtWork
  <2> QED BY <1>1, <1>3, <2>1, <2>2, <2>3 DEF E!EscrowInv, E!VaultInOrder, E!GapsAreCounted,
          E!DoneIsVaulted, E!ManifestIsTrue, E!GapsAreTold
<1>4. CASE /\ ~(v3 /\ v6[v7.day] # E!NoManifest) /\ UNCHANGED v8 /\ v7' = [v7 EXCEPT !.step = "verify"]
           /\ v6' = [v6 EXCEPT ![v7.day] = [snap |-> v7.snap, got |-> v7.got, skipped |-> v7.skipped]]
  <2> DEFINE new == [snap |-> v7.snap, got |-> v7.got, skipped |-> v7.skipped]
             Manifests == [snap : {0} \cup E!Snapshot, got : SUBSET E!Exported, skipped : SUBSET E!Exported]
  <2>1. /\ v7' \in E!Process /\ v7'.step = "verify" /\ v7'.day = v7.day /\ v7'.snap = v7.snap
        /\ v7'.left = v7.left /\ v7'.got = v7.got /\ v7'.skipped = v7.skipped /\ v7'.failed = v7.failed
    BY <1>1, <1>4 DEF E!Process
  <2>2. new \in Manifests /\ new.snap = v7.snap /\ new.got = v7.got /\ new.skipped = v7.skipped
    BY <1>1 DEF E!Process
  <2>3. v6 \in [E!Day -> Manifests]
    BY <1>1 DEF E!TypeOK
  <2> HIDE DEF new, Manifests
  <2>4. v6' \in [E!Day -> Manifests] /\ v6'[v7.day] = new /\ \A d \in E!Day : d # v7.day => v6'[d] = v6[d]
    BY <1>1, <1>4, <2>2, <2>3 DEF new
  <2>5. v7.got \cap v7.skipped = {}
    BY DEF E!EscrowInv, E!ExportInOrder
  <2>6. \A d \in E!Day : v6'[d].got \cap v6'[d].skipped = {}
    BY <1>1, <2>2, <2>4, <2>5 DEF E!TypeOK
  <2>7. E!TypeOK'
    BY <1>1, <1>2, <1>4, <2>1, <2>4, <2>6 DEF E!TypeOK, Manifests
  <2>8. E!ExportInOrder'
    BY <1>1, <2>1, <2>4 DEF E!EscrowInv, E!ExportInOrder, E!AtWork, new
  <2>9. v7.day <= v1
    BY <1>1 DEF E!EscrowInv, E!ExportInOrder, E!AtWork
  <2>10. E!VaultInOrder'
    <3>1. \A d \in E!Day : d > v1 => d # v7.day
      BY <1>1, <2>9 DEF E!Day
    <3> QED BY <1>1, <2>2, <2>4, <3>1 DEF E!EscrowInv, E!VaultInOrder
  <2>11. E!ManifestIsTrue'
    <3>1. v3 => \A u \in v7.got : v4[v7.day][u] = v7.snap
      BY <1>1 DEF E!EscrowInv, E!ExportInOrder, E!AtWork
    <3> QED BY <1>1, <2>2, <2>4, <3>1 DEF E!EscrowInv, E!ManifestIsTrue
  <2>12. \A d \in E!Day : /\ v6[d].snap # 0 => v6'[d].snap # 0
                          /\ v3 /\ v6[d].snap # 0 => v6'[d] = v6[d]
    <3>1. v6[v7.day].snap # 0 => v6[v7.day] # E!NoManifest
      BY DEF E!NoManifest
    <3> QED BY <1>1, <1>4, <2>2, <2>4, <3>1
  <2>13. E!DoneIsVaulted' /\ E!GapsAreTold'
    BY <1>1, <1>4, <2>12, VaultGrows DEF E!EscrowInv, E!GapsAreTold
  <2> QED BY <1>1, <2>7, <2>8, <2>10, <2>11, <2>13 DEF E!EscrowInv, E!GapsAreCounted
<1> QED BY <1>3, <1>4 DEF E!WriteManifest

\* What is verified is all there; an export that dies vouches for nothing.
LEMMA VaultVerifies == ASSUME E!EscrowInv, E!Verify \/ E!Dies PROVE E!EscrowInv'
<1>1. E!TypeOK /\ UNCHANGED <<v1, v2, v3, v4, v5, v6, v9, v10, v11, v12>>
  BY DEF E!EscrowInv, E!Verify, E!Dies
<1>2. PICK well \in BOOLEAN :
        /\ v13' \in 0..VaultFaults /\ E!Ends(well) /\ (well => v7.step = "verify" /\ E!Verified)
  <2>1. CASE E!Verify
    <3>1. PICK error \in BOOLEAN : E!Counts(error) /\ E!Ends(E!Verified /\ ~error) /\ v7.step = "verify"
      BY <2>1 DEF E!Verify
    <3>2. (E!Verified /\ ~error) \in BOOLEAN
      BY DEF E!Verified
    <3> QED BY <1>1, <3>1, <3>2, VaultFaultsCounted
  <2>2. CASE E!Dies
    BY <1>1, <2>2, VaultFaultsCounted DEF E!Dies
  <2> QED BY <2>1, <2>2
<1>3. /\ v7' \in E!Process /\ v7'.step = "none" /\ v7'.left = {} /\ v7'.got = {} /\ v7'.skipped = {}
      /\ v7'.failed = {}
      /\ v8' \in [day : 0..VaultDays, snap : E!Snapshot]
      /\ v8'.day > 0 => well /\ v8'.day = v7.day /\ v8'.snap = v7.snap
  BY <1>1, <1>2, VaultEnds
<1>4. E!TypeOK'
  BY <1>1, <1>2, <1>3 DEF E!TypeOK
<1>5. E!ExportInOrder'
  BY <1>3 DEF E!ExportInOrder, E!AtWork
<1>6. E!DoneIsVaulted'
  <2> SUFFICES ASSUME v8'.day > 0, NEW t \in VaultTables[v7.snap]
               PROVE  v4[v7.day][t] # 0 /\ (v3 => t \in v6[v7.day].got \cup v6[v7.day].skipped)
    BY <1>1, <1>3 DEF E!DoneIsVaulted
  <2>1. v7.step = "verify" /\ v7.failed = {} /\ \A u \in v7.got \cup v7.skipped : v4[v7.day][u] # 0
    BY <1>2, <1>3 DEF E!Verified, E!Landed
  <2>2. /\ v7.left = {} /\ t \in v7.left \cup v7.got \cup v7.skipped \cup v7.failed
        /\ v6[v7.day].got = v7.got /\ v6[v7.day].skipped = v7.skipped
    BY <2>1 DEF E!EscrowInv, E!ExportInOrder, E!AtWork
  <2> QED BY <2>1, <2>2
<1> QED BY <1>1, <1>4, <1>5, <1>6 DEF E!EscrowInv, E!VaultInOrder, E!GapsAreCounted,
          E!ManifestIsTrue, E!GapsAreTold

\* What the state file says.
LEMMA VaultFiles ==
  /\ E!Filed.fails = v9.fails /\ E!Filed.alerted = v9.alerted
  /\ E!Fresh.fails = 0 /\ E!Fresh.alerted \in BOOLEAN /\ ~E!Fresh.alerted
BY DEF E!Filed, E!Fresh

\* A check comes to its end: a gap is a problem, and counted as one.
LEMMA VaultOver ==
  ASSUME E!EscrowInv, NEW vaultBad \in BOOLEAN, NEW apiBad \in BOOLEAN, NEW fault \in BOOLEAN,
         E!Bad => vaultBad, E!Over(vaultBad, apiBad, fault)
  PROVE  /\ v9' \in E!Watchdog
         /\ v10' \in 0..2 /\ v12' \in [day : 0..VaultDays, snap : E!Snapshot] /\ v13' \in 0..VaultFaults
         /\ E!GapsAreCounted'
         /\ \/ v12' = v12
            \/ v12' = [day |-> v1, snap |-> v2] /\ ~E!Bad
<1>1. E!TypeOK /\ v1 \in 0..VaultDays /\ v2 \in E!Snapshot
  BY VaultNumbers DEF E!EscrowInv, E!TypeOK
<1>2. /\ v9 \in E!Watchdog /\ v9.fails \in 0..2 /\ v9.alerted \in BOOLEAN /\ v10 \in 0..2
      /\ v9.told \in {"none", "vault", "other"} /\ v9.masked \in BOOLEAN /\ v9.lost \in BOOLEAN
      /\ v9.fails = 2 <=> v9.alerted
      /\ v9.lost \/ /\ v10 <= v9.fails
                    /\ v9.alerted <=> v9.told # "none"
                    /\ v10 > 0 => v9.told # "other" \/ v9.masked
  BY <1>1 DEF E!TypeOK, E!Watchdog, E!EscrowInv, E!GapsAreCounted
<1>3. \A n \in 0..2 : E!Capped(n) \in 0..2 /\ (E!Capped(n) = 2 <=> n >= 1)
                      /\ \A m \in 0..2 : m <= n => E!Capped(m) <= E!Capped(n)
  BY DEF E!Capped
<1> DEFINE problem == vaultBad \/ apiBad
<1>4. PICK was \in {E!Filed, E!Fresh} :
        LET clears == ~problem /\ was.alerted
            new    == IF problem THEN [fails |-> E!Capped(was.fails), alerted |-> was.alerted \/ was.fails >= 1]
                      ELSE E!Fresh
        IN  \E file \in {new, E!Filed, E!Fresh} :
              LET slips == was # E!Filed \/ file # new
                  lost  == slips \/ (v9.lost /\ ~E!Alarms(problem, was) /\ ~clears)
              IN  /\ E!Counts(fault \/ slips)
                  /\ v9' = [step |-> "none", fails |-> file.fails, alerted |-> file.alerted,
                            told |-> CASE lost -> "none"
                                       [] ~lost /\ E!Alarms(problem, was) -> IF vaultBad THEN "vault" ELSE "other"
                                       [] ~lost /\ ~E!Alarms(problem, was) -> IF clears THEN "none" ELSE v9.told,
                            masked |-> ~lost /\ E!Bad /\ IF v10 = 0 THEN v9.told = "other" ELSE v9.masked,
                            lost |-> lost]
  BY Zenon DEF E!Over, E!Judge
<1> DEFINE clears == ~problem /\ was.alerted
           alarms == E!Alarms(problem, was)
           new    == IF problem THEN [fails |-> E!Capped(was.fails), alerted |-> was.alerted \/ was.fails >= 1]
                     ELSE E!Fresh
<1>5. PICK file \in {new, E!Filed, E!Fresh} :
        LET slips == was # E!Filed \/ file # new
            lost  == slips \/ (v9.lost /\ ~alarms /\ ~clears)
        IN  /\ E!Counts(fault \/ slips)
            /\ v9' = [step |-> "none", fails |-> file.fails, alerted |-> file.alerted,
                      told |-> CASE lost -> "none"
                                 [] ~lost /\ alarms -> IF vaultBad THEN "vault" ELSE "other"
                                 [] ~lost /\ ~alarms -> IF clears THEN "none" ELSE v9.told,
                      masked |-> ~lost /\ E!Bad /\ IF v10 = 0 THEN v9.told = "other" ELSE v9.masked,
                      lost |-> lost]
  BY <1>4
<1> DEFINE slips == was # E!Filed \/ file # new
           lost  == slips \/ (v9.lost /\ ~alarms /\ ~clears)
           told  == CASE lost -> "none"
                      [] ~lost /\ alarms -> IF vaultBad THEN "vault" ELSE "other"
                      [] ~lost /\ ~alarms -> IF clears THEN "none" ELSE v9.told
           masked == ~lost /\ E!Bad /\ IF v10 = 0 THEN v9.told = "other" ELSE v9.masked
<1>6. /\ E!Counts(fault \/ slips)
      /\ v9' = [step |-> "none", fails |-> file.fails, alerted |-> file.alerted,
                told |-> told, masked |-> masked, lost |-> lost]
  BY <1>5
<1>7. /\ was.fails \in 0..2 /\ was.alerted \in BOOLEAN /\ (was.fails = 2 <=> was.alerted)
      /\ was = E!Filed => was.fails = v9.fails /\ was.alerted = v9.alerted
  <2>1. CASE was = E!Filed
    BY <1>2, <2>1, VaultFiles
  <2>2. CASE was = E!Fresh /\ was # E!Filed
    BY <2>2, VaultFiles
  <2> QED BY <2>1, <2>2
<1>8. /\ new.fails = IF problem THEN E!Capped(was.fails) ELSE 0
      /\ new.alerted = (problem /\ (was.alerted \/ was.fails >= 1))
  BY <1>7 DEF E!Fresh
<1>9. file.fails \in 0..2 /\ file.alerted \in BOOLEAN /\ (file.fails = 2 <=> file.alerted)
  <2>1. CASE file = new
    <3> HIDE DEF new
    <3> QED BY <1>3, <1>7, <1>8, <2>1
  <2>2. CASE file = E!Filed
    BY <1>2, <2>2, VaultFiles
  <2>3. CASE file = E!Fresh
    BY <2>3, VaultFiles
  <2> HIDE DEF new
  <2> QED BY <2>1, <2>2, <2>3
<1>10. ~slips => was = E!Filed /\ file.fails = new.fails /\ file.alerted = new.alerted
  OBVIOUS
<1>11. slips \in BOOLEAN /\ clears \in BOOLEAN /\ (alarms <=> problem /\ was.fails >= 1 /\ ~was.alerted)
  BY <1>7 DEF E!Alarms
<1>12. v13' \in 0..VaultFaults
  BY <1>1, <1>6, VaultFaultsCounted
<1> HIDE DEF new, slips, alarms
<1>13. lost \in BOOLEAN /\ masked \in BOOLEAN
  BY <1>2
<1>14. /\ lost => told = "none"
       /\ ~lost /\ alarms => told = IF vaultBad THEN "vault" ELSE "other"
       /\ ~lost /\ ~alarms => told = IF clears THEN "none" ELSE v9.told
  <2> HIDE DEF lost, clears
  <2> QED OBVIOUS
<1>15. told \in {"none", "vault", "other"}
  BY <1>2, <1>14
<1>16. v9' \in E!Watchdog /\ v9'.fails = file.fails /\ v9'.alerted = file.alerted
       /\ v9'.told = told /\ v9'.masked = masked /\ v9'.lost = lost
  <2> HIDE DEF told, masked, lost
  <2> QED BY <1>6, <1>9, <1>13, <1>15 DEF E!Watchdog
<1>17. v10' = IF E!Bad THEN E!Capped(v10) ELSE 0
  BY DEF E!Over
<1>18. v10' \in 0..2
  BY <1>2, <1>3, <1>17
<1>19. v12' = (IF problem THEN v12 ELSE [day |-> v1, snap |-> v2]) /\ v12 \in [day : 0..VaultDays, snap : E!Snapshot]
  BY <1>1 DEF E!Over, E!TypeOK
<1>20. /\ v12' \in [day : 0..VaultDays, snap : E!Snapshot]
       /\ \/ v12' = v12
          \/ v12' = [day |-> v1, snap |-> v2] /\ ~E!Bad
  BY <1>1, <1>19
<1>21. ~lost => /\ v10' <= file.fails
                /\ file.alerted <=> told # "none"
                /\ v10' > 0 => told # "other" \/ masked
  <2> SUFFICES ASSUME ~lost
               PROVE  /\ v10' <= file.fails
                      /\ file.alerted <=> told # "none"
                      /\ v10' > 0 => told # "other" \/ masked
    OBVIOUS
  <2>1. ~slips /\ (~alarms /\ ~clears => ~v9.lost)
    BY <1>2
  <2>2. /\ was.fails = v9.fails /\ was.alerted = v9.alerted
        /\ file.fails = IF problem THEN E!Capped(v9.fails) ELSE 0
        /\ file.alerted = (problem /\ (v9.alerted \/ v9.fails >= 1))
    BY <1>7, <1>8, <1>10, <2>1
  <2>3. v10' <= file.fails
    <3>1. CASE E!Bad
      <4>1. problem /\ ~clears /\ v10' = E!Capped(v10) /\ file.fails = E!Capped(v9.fails)
        BY <1>17, <2>2, <3>1
      <4>2. CASE alarms
        <5>1. v9.fails >= 1
          BY <1>11, <2>2, <4>2
        <5> QED BY <1>2, <1>3, <4>1, <5>1
      <4>3. CASE ~alarms
        <5>1. v10 <= v9.fails
          BY <1>2, <2>1, <4>1, <4>3
        <5> QED BY <1>2, <1>3, <4>1, <5>1
      <4> QED BY <4>2, <4>3
    <3>2. CASE ~E!Bad
      BY <1>9, <1>17, <3>2
    <3> QED BY <3>1, <3>2
  <2>4. file.alerted <=> told # "none"
    <3>1. CASE alarms
      BY <1>11, <1>14, <2>2, <3>1
    <3>2. CASE ~alarms /\ clears
      BY <1>14, <2>2, <3>2
    <3>3. CASE ~alarms /\ ~clears
      BY <1>2, <1>11, <1>14, <2>1, <2>2, <3>3
    <3> QED BY <3>1, <3>2, <3>3
  <2>5. v10' > 0 => told # "other" \/ masked
    <3> SUFFICES ASSUME v10' > 0, told = "other" PROVE masked
      OBVIOUS
    <3>1. E!Bad /\ vaultBad /\ ~clears
      BY <1>17
    <3>2. ~alarms
      BY <1>14, <3>1
    <3>3. v9.told = "other" /\ ~v9.lost
      BY <1>14, <2>1, <3>1, <3>2
    <3>4. IF v10 = 0 THEN v9.told = "other" ELSE v9.masked
      BY <1>2, <3>3
    <3> QED BY <3>1, <3>4
  <2> QED BY <2>3, <2>4, <2>5
<1>22. E!GapsAreCounted'
  <2> HIDE DEF told, masked, lost
  <2> QED BY <1>9, <1>13, <1>16, <1>21 DEF E!GapsAreCounted
<1> QED BY <1>12, <1>16, <1>18, <1>20, <1>22

\* A check that tells nothing has seen what can be restored.
LEMMA VaultQuiet ==
  ASSUME E!EscrowInv, ~E!Bad
  PROVE  \E d \in {v1, v1 - 1} \cap E!Day :
           /\ \A t \in VaultTables[v2] : v4[d][t] # 0
           /\ v5[d] \cap VaultSeed # {} /\ v6[d].snap # 0
<1>1. E!Dates # {} /\ ~(v1 - E!Newest > 1) /\ E!Complete(E!Newest)
  BY DEF E!Bad
<1>2. E!Newest \in E!Dates
  BY <1>1, VaultNewest
<1> DEFINE d == E!Newest
<1>3. d \in E!Day /\ (v5[d] # {} \/ v6[d] # E!NoManifest \/ \E t \in E!Exported : v4[d][t] # 0)
  BY <1>2 DEF E!Dates
<1>4. ~(d > v1)
  BY <1>3 DEF E!EscrowInv, E!VaultInOrder
<1>5. v1 \in E!Day
  BY DEF E!EscrowInv, E!TypeOK
<1>6. d \in {v1, v1 - 1}
  <2>1. v1 \in Int /\ d \in Int
    BY <1>3, <1>5 DEF E!Day
  <2> QED BY <1>1, <1>4, <2>1
<1>7. (\A t \in VaultTables[v2] : v4[d][t] # 0) /\ v5[d] \cap VaultSeed # {} /\ v6[d] # E!NoManifest
  BY <1>1 DEF E!Complete
<1>8. v6[d].snap # 0
  BY <1>3, <1>7 DEF E!EscrowInv, E!VaultInOrder
<1> QED BY <1>3, <1>6, <1>7, <1>8

\* What is counted twice has been told, or there is a reason why not.
LEMMA VaultSaid ==
  ASSUME v9' \in E!Watchdog, v10' \in 0..2, E!GapsAreCounted', v10' = 2
  PROVE  v9'.told = "vault" \/ v9'.masked \/ v9'.lost
BY DEF E!GapsAreCounted, E!Watchdog

\* The watchdog looks, has the export run again, and looks again.
LEMMA VaultWatches == ASSUME E!EscrowInv, E!Check \/ E!HealReturns \/ E!Recheck PROVE E!EscrowInv'
<1>1. E!TypeOK /\ UNCHANGED <<v1, v2, v3, v4, v5, v6, v8, v11>>
  BY DEF E!EscrowInv, E!Check, E!HealReturns, E!Recheck
<1>2. ASSUME NEW vaultBad \in BOOLEAN, NEW apiBad \in BOOLEAN, NEW fault \in BOOLEAN,
             E!Bad => vaultBad, E!Over(vaultBad, apiBad, fault), UNCHANGED v7
      PROVE  E!EscrowInv'
  <2>1. /\ v9' \in E!Watchdog
        /\ v10' \in 0..2 /\ v12' \in [day : 0..VaultDays, snap : E!Snapshot] /\ v13' \in 0..VaultFaults
        /\ E!GapsAreCounted'
        /\ \/ v12' = v12
           \/ v12' = [day |-> v1, snap |-> v2] /\ ~E!Bad
    BY <1>2, VaultOver
  <2>2. E!TypeOK'
    BY <1>1, <1>2, <2>1 DEF E!TypeOK
  <2>3. E!GapsAreTold'
    <3>1. v10' = 2 => v9'.told = "vault" \/ v9'.masked \/ v9'.lost
      BY <2>1, VaultSaid
    <3>2. CASE v12' = v12
      BY <1>1, <3>1, <3>2 DEF E!EscrowInv, E!GapsAreTold
    <3>3. CASE v12' = [day |-> v1, snap |-> v2] /\ ~E!Bad
      <4>1. v12'.day = v1 /\ v12'.snap = v2
        BY <3>3
      <4> QED BY <1>1, <3>1, <3>3, <4>1, VaultQuiet DEF E!GapsAreTold
    <3> QED BY <2>1, <3>2, <3>3
  <2> QED BY <1>1, <1>2, <2>1, <2>2, <2>3 DEF E!EscrowInv, E!ExportInOrder, E!AtWork, E!VaultInOrder,
          E!DoneIsVaulted, E!ManifestIsTrue
<1>3. CASE /\ v7' = v7 \/ (v7.step = "none" /\ E!Starts("dog"))
           /\ \E step \in {"heal", "read"} : v9' = [v9 EXCEPT !.step = step]
           /\ v13' \in 0..VaultFaults /\ UNCHANGED <<v10, v12>>
  <2>1. /\ v9' \in E!Watchdog
        /\ v9'.fails = v9.fails /\ v9'.alerted = v9.alerted
        /\ v9'.told = v9.told /\ v9'.masked = v9.masked /\ v9'.lost = v9.lost
    BY <1>1, <1>3 DEF E!TypeOK, E!Watchdog
  <2>2. v1 \in Nat
    BY <1>1, VaultNumbers DEF E!TypeOK
  <2>3. E!TypeOK' /\ E!ExportInOrder'
    <3>1. CASE v7' = v7
      <4>1. E!TypeOK'
        BY <1>1, <1>3, <2>1, <3>1 DEF E!TypeOK
      <4> QED BY <1>1, <3>1, <4>1 DEF E!EscrowInv, E!ExportInOrder, E!AtWork
    <3>2. CASE E!Starts("dog")
      <4>1. /\ v7' \in E!Process /\ v7'.step = "tables" /\ v7'.day = v1 /\ v7'.snap = v2
            /\ v7'.left = VaultTables[v2] /\ v7'.got = {} /\ v7'.skipped = {} /\ v7'.failed = {}
        BY <1>1, <3>2, VaultStarts
      <4>2. E!TypeOK'
        BY <1>1, <1>3, <2>1, <4>1 DEF E!TypeOK
      <4>3. E!ExportInOrder'
        BY <1>1, <2>2, <4>1 DEF E!ExportInOrder, E!AtWork
      <4> QED BY <4>2, <4>3
    <3> QED BY <1>3, <3>1, <3>2
  <2> QED BY <1>1, <1>3, <2>1, <2>3 DEF E!EscrowInv, E!VaultInOrder, E!GapsAreCounted,
          E!DoneIsVaulted, E!ManifestIsTrue, E!GapsAreTold
<1>4. CASE E!Check
  <2>1. CASE (\E fails \in BOOLEAN, apiBad \in E!ApiMay : (E!Bad => fails) /\ E!Over(fails, apiBad, fails)) /\ UNCHANGED v7
    <3>1. PICK fails \in BOOLEAN, apiBad \in E!ApiMay : (E!Bad => fails) /\ E!Over(fails, apiBad, fails)
      BY <2>1
    <3>2. apiBad \in BOOLEAN
      BY DEF E!ApiMay
    <3> QED BY <1>2, <2>1, <3>1, <3>2
  <2>2. CASE /\ v7.step = "none" /\ E!Starts("dog") /\ v9' = [v9 EXCEPT !.step = "heal"]
             /\ UNCHANGED <<v10, v12, v13>>
    BY <1>1, <1>3, <2>2 DEF E!TypeOK
  <2>3. CASE v9' = [v9 EXCEPT !.step = "read"] /\ UNCHANGED <<v7, v10, v12, v13>>
    BY <1>1, <1>3, <2>3 DEF E!TypeOK
  <2> QED BY <1>4, <2>1, <2>2, <2>3, Zenon DEF E!Check
<1>5. CASE E!HealReturns
  <2>1. v9' = [v9 EXCEPT !.step = "read"] /\ UNCHANGED <<v7, v10, v12>> /\ v13' \in 0..VaultFaults
    BY <1>1, <1>5, VaultFaultsCounted DEF E!HealReturns
  <2> QED BY <1>3, <2>1
<1>6. CASE E!Recheck
  <2>1. PICK fails \in BOOLEAN, apiBad \in E!ApiMay : E!Over(E!Bad \/ fails, apiBad, fails) /\ UNCHANGED v7
    BY <1>6 DEF E!Recheck
  <2>2. (E!Bad \/ fails) \in BOOLEAN /\ (E!Bad => E!Bad \/ fails) /\ apiBad \in BOOLEAN
    BY DEF E!ApiMay
  <2> QED BY <1>2, <2>1, <2>2
<1> QED BY <1>4, <1>5, <1>6

\* A snapshot is promoted; the next day comes.
LEMMA VaultTurns == ASSUME E!EscrowInv, E!Promote \/ E!NewDay PROVE E!EscrowInv'
<1>1. /\ E!TypeOK /\ v2' \in E!Snapshot /\ v1 \in E!Day /\ v1' \in E!Day /\ v1 <= v1'
      /\ UNCHANGED <<v3, v4, v5, v6, v7, v8, v9, v10, v11, v12, v13>>
  BY VaultAssumption DEF E!EscrowInv, E!TypeOK, E!Promote, E!NewDay, E!Day
<1>2. E!TypeOK'
  BY <1>1 DEF E!TypeOK
<1>3. E!ExportInOrder'
  <2>1. v7.step # "none" => v7.day <= v1'
    <3>1. v7.day \in E!Day
      BY <1>1 DEF E!TypeOK, E!Process
    <3> QED BY <1>1, <3>1 DEF E!EscrowInv, E!ExportInOrder, E!AtWork, E!Day
  <2> QED BY <1>1, <2>1 DEF E!EscrowInv, E!ExportInOrder, E!AtWork
<1>4. E!VaultInOrder'
  <2>1. \A d \in E!Day : d > v1' => d > v1
    BY <1>1 DEF E!Day
  <2> QED BY <1>1, <2>1 DEF E!EscrowInv, E!VaultInOrder
<1> QED BY <1>1, <1>2, <1>3, <1>4 DEF E!EscrowInv, E!GapsAreCounted, E!DoneIsVaulted,
          E!ManifestIsTrue, E!GapsAreTold

LEMMA VaultStep == ASSUME E!EscrowInv, [E!Next]_(E!vars) PROVE E!EscrowInv'
<1>1. CASE UNCHANGED E!vars
  BY <1>1 DEF E!vars, E!EscrowInv, E!TypeOK, E!ExportInOrder, E!AtWork, E!VaultInOrder, E!GapsAreCounted,
    E!DoneIsVaulted, E!ManifestIsTrue, E!GapsAreTold
<1> QED BY <1>1, VaultCron, VaultTable, VaultExtras, VaultManifest, VaultVerifies, VaultWatches, VaultTurns
      DEF E!Next, E!Export

-----------------------------------------------------------------------------
(* The morning's backup: B.                                                *)

LEMMA BackupInit == ASSUME B!Init PROVE B!BackupInv
<1>1. /\ v1 = 1 /\ v10 = 0 /\ v4 = B!Idle /\ v2 = [d \in B!Day |-> "none"] /\ v3 = v2
      /\ v5 = {} /\ v6 = {} /\ v7 = {} /\ v8 = {} /\ v9 = {}
  BY DEF B!Init
<1>2. 1 \in B!Day /\ B!Day = 1..CopyDays
  BY CopyAssumption DEF B!Day
<1>3. B!TypeOK
  BY <1>1, <1>2, CopyAssumption DEF B!TypeOK, B!Copy, B!Idle
<1> QED BY <1>1, <1>3 DEF B!BackupInv, B!CopyAtHand, B!KeepsOne, B!SilentIsCopied, B!Idle

\* A fault is counted.
LEMMA BackupFaults ==
  ASSUME B!TypeOK, NEW fault, B!Counts(fault)
  PROVE  v10' \in 0..CopyFaults
BY CopyAssumption DEF B!TypeOK, B!Counts

\* The cron line finds another run at work.
LEMMA BackupSkips == ASSUME B!BackupInv, B!Skip PROVE B!BackupInv'
<1>1. /\ v1 \notin v5 /\ v5' = v5 \cup {v1} /\ v6 \subseteq v6' /\ v6' \subseteq v6 \cup {v1}
      /\ v7' = v7 \cup {v1} /\ UNCHANGED <<v1, v2, v3, v4, v8, v9, v10>>
  BY DEF B!Skip
<1>2. B!TypeOK /\ v1 \in B!Day
  BY DEF B!BackupInv, B!TypeOK
<1>3. B!TypeOK'
  BY <1>1, <1>2 DEF B!TypeOK
<1>4. B!CopyAtHand'
  BY <1>1, <1>2 DEF B!BackupInv, B!CopyAtHand, B!Day
<1>5. B!KeepsOne' /\ B!SilentIsCopied'
  BY <1>1 DEF B!BackupInv, B!KeepsOne, B!SilentIsCopied
<1> QED BY <1>3, <1>4, <1>5 DEF B!BackupInv

\* A run begins: what it writes is of a day without a copy.
LEMMA BackupStarts == ASSUME B!BackupInv, B!Start PROVE B!BackupInv'
<1>1. /\ v4.step = "idle" /\ v1 \notin v5 /\ v5' = v5 \cup {v1} /\ v10' \in 0..CopyFaults
      /\ UNCHANGED <<v1, v3, v7, v8, v9>>
      /\ \/ v6' = v6 \cup {v1} /\ UNCHANGED <<v4, v2>>
         \/ v4' = [step |-> "copy", day |-> v1] /\ v2' = [v2 EXCEPT ![v1] = "partial"] /\ UNCHANGED v6
  BY BackupFaults DEF B!Start, B!BackupInv
<1>2. B!TypeOK /\ v1 \in B!Day /\ v2 \in [B!Day -> B!Copy]
  BY DEF B!BackupInv, B!TypeOK
<1>3. B!TypeOK'
  BY <1>1, <1>2 DEF B!TypeOK, B!Copy
<1>4. v2[v1] = "none" /\ \A d \in B!Day : d # v1 => v2'[d] = v2[d]
  BY <1>1, <1>2 DEF B!BackupInv, B!CopyAtHand
<1>5. B!CopyAtHand'
  <2>1. v1 - v1 <= 1 /\ v1 <= v1
    BY <1>2 DEF B!Day
  <2> QED BY <1>1, <1>2, <1>4, <2>1 DEF B!BackupInv, B!CopyAtHand
<1>6. B!KeepsOne'
  BY <1>1, <1>4 DEF B!BackupInv, B!KeepsOne
<1>7. B!SilentIsCopied'
  BY <1>1 DEF B!BackupInv, B!SilentIsCopied
<1> QED BY <1>3, <1>5, <1>6, <1>7 DEF B!BackupInv

\* The copy is verified, or given up.
LEMMA BackupCopies == ASSUME B!BackupInv, B!Copying PROVE B!BackupInv'
<1>1. v4.step = "copy" /\ UNCHANGED <<v1, v3, v5, v7, v9>>
  BY DEF B!Copying
<1>2. /\ B!TypeOK /\ v4.day \in B!Day /\ v2 \in [B!Day -> B!Copy] /\ v2[v4.day] = "partial"
      /\ v4.day \in v5
  BY <1>1 DEF B!BackupInv, B!TypeOK, B!CopyAtHand
<1>3. CASE B!Verified
  <2>1. /\ v2' = [v2 EXCEPT ![v4.day] = "whole"] /\ v8' = v8 \cup {v4.day} /\ UNCHANGED <<v6, v10>>
        /\ v4' = [v4 EXCEPT !.step = "seed"]
    BY <1>3 DEF B!Verified
  <2>2. v4'.step = "seed" /\ v4'.day = v4.day /\ v4' \in [step : {"idle", "copy", "seed", "push"}, day : B!Day]
    BY <1>2, <2>1 DEF B!TypeOK
  <2>3. B!TypeOK'
    BY <1>1, <1>2, <2>1, <2>2 DEF B!TypeOK, B!Copy
  <2>4. B!CopyAtHand'
    BY <1>1, <1>2, <2>1, <2>2 DEF B!BackupInv, B!CopyAtHand
  <2>5. B!KeepsOne'
    BY <1>1, <1>2, <2>1 DEF B!BackupInv, B!KeepsOne
  <2>6. B!SilentIsCopied'
    BY <1>1, <1>2, <2>1, <2>2 DEF B!BackupInv, B!SilentIsCopied
  <2> QED BY <2>3, <2>4, <2>5, <2>6 DEF B!BackupInv
<1>4. CASE B!Mismatch
  <2>1. /\ v10' \in 0..CopyFaults /\ v6' = v6 \cup {v4.day} /\ v4' = B!Idle /\ UNCHANGED v8
        /\ v2' \in {v2, [v2 EXCEPT ![v4.day] = "none"]}
    BY <1>2, <1>4, BackupFaults DEF B!Mismatch, B!Alert
  <2>2. v4'.step = "idle" /\ v4' \in [step : {"idle", "copy", "seed", "push"}, day : B!Day]
    BY <2>1, CopyAssumption DEF B!Idle, B!Day
  <2>3. \A d \in B!Day : v2'[d] \in {v2[d], "none"} /\ (v2[d] = "whole" => v2'[d] = "whole")
    BY <1>2, <2>1
  <2>4. B!TypeOK'
    BY <1>1, <1>2, <2>1, <2>2 DEF B!TypeOK, B!Copy
  <2>5. B!CopyAtHand'
    BY <1>1, <2>2, <2>3 DEF B!BackupInv, B!CopyAtHand
  <2>6. B!KeepsOne'
    BY <1>1, <2>1, <2>3 DEF B!BackupInv, B!KeepsOne
  <2>7. B!SilentIsCopied'
    BY <1>1, <2>1 DEF B!BackupInv, B!SilentIsCopied
  <2> QED BY <2>4, <2>5, <2>6, <2>7 DEF B!BackupInv
<1> QED BY <1>3, <1>4 DEF B!Copying

\* Pruning keeps what is young, and makes nothing.
LEMMA BackupPrunes ==
  ASSUME B!TypeOK, NEW copies \in [B!Day -> B!Copy], NEW days
  PROVE  /\ B!Pruned(copies, days) \in [B!Day -> B!Copy]
         /\ \A d \in B!Day : B!Pruned(copies, days)[d] \in {copies[d], "none"}
         /\ \A d \in B!Day : ~(v1 - d > days) => B!Pruned(copies, days)[d] = copies[d]
BY DEF B!Pruned, B!Copy

LEMMA BackupSeeds == ASSUME B!BackupInv, B!SeedAndPrune PROVE B!BackupInv'
<1>1. v4.step = "seed" /\ UNCHANGED <<v1, v3, v5, v7, v8, v9>>
  BY DEF B!SeedAndPrune
<1>2. /\ B!TypeOK /\ v4.day \in B!Day /\ v2 \in [B!Day -> B!Copy] /\ v2[v4.day] = "whole"
      /\ v4.day \in v5 /\ v4.day \in v8 /\ v1 - v4.day <= 1 /\ v1 \in B!Day
  BY <1>1 DEF B!BackupInv, B!TypeOK, B!CopyAtHand
<1>3. CASE B!Counts(TRUE) /\ B!Alert /\ UNCHANGED v2
  <2>1. v10' \in 0..CopyFaults /\ v6' = v6 \cup {v4.day} /\ v4' = B!Idle /\ UNCHANGED v2
    BY <1>2, <1>3, BackupFaults DEF B!Alert
  <2>2. v4'.step = "idle" /\ v4' \in [step : {"idle", "copy", "seed", "push"}, day : B!Day]
    BY <2>1, CopyAssumption DEF B!Idle, B!Day
  <2>3. B!TypeOK'
    BY <1>1, <1>2, <2>1, <2>2 DEF B!TypeOK
  <2> QED BY <1>1, <2>1, <2>2, <2>3 DEF B!BackupInv, B!CopyAtHand, B!KeepsOne, B!SilentIsCopied
<1>4. CASE v2' = B!Pruned(v2, CopyKeep) /\ v4' = [v4 EXCEPT !.step = "push"] /\ UNCHANGED <<v6, v10>>
  <2>1. v4'.step = "push" /\ v4'.day = v4.day /\ v4' \in [step : {"idle", "copy", "seed", "push"}, day : B!Day]
    BY <1>2, <1>4 DEF B!TypeOK
  <2>2. /\ v2' \in [B!Day -> B!Copy] /\ v2'[v4.day] = "whole"
        /\ \A d \in B!Day : v2'[d] \in {v2[d], "none"}
    <3>1. ~(v1 - v4.day > CopyKeep)
      BY <1>2, CopyAssumption DEF B!Day
    <3> QED BY <1>2, <1>4, <3>1, BackupPrunes
  <2>3. B!TypeOK'
    BY <1>1, <1>2, <1>4, <2>1, <2>2 DEF B!TypeOK
  <2>4. B!CopyAtHand'
    BY <1>1, <1>2, <2>1, <2>2 DEF B!BackupInv, B!CopyAtHand
  <2>5. B!KeepsOne' /\ B!SilentIsCopied'
    BY <1>1, <1>2, <1>4, <2>1, <2>2 DEF B!BackupInv, B!KeepsOne, B!SilentIsCopied
  <2> QED BY <2>3, <2>4, <2>5 DEF B!BackupInv
<1> QED BY <1>3, <1>4 DEF B!SeedAndPrune

\* The copy goes to the remote, and old ones there go.
LEMMA BackupPushes == ASSUME B!BackupInv, B!Push PROVE B!BackupInv'
<1>1. v4.step = "push" /\ UNCHANGED <<v1, v2, v5, v7, v8>>
  BY DEF B!Push
<1>2. /\ B!TypeOK /\ v4.day \in B!Day /\ v3 \in [B!Day -> B!Copy] /\ v2[v4.day] = "whole"
      /\ v4.day \in v5 /\ v4.day \in v8 /\ v1 - v4.day <= 1 /\ v1 \in B!Day
  BY <1>1 DEF B!BackupInv, B!TypeOK, B!CopyAtHand
<1>3. v4' = B!Idle /\ v4'.step = "idle" /\ v4' \in [step : {"idle", "copy", "seed", "push"}, day : B!Day]
  <2>1. v4' = B!Idle
    BY Zenon DEF B!Push, B!Alert
  <2> QED BY <2>1, CopyAssumption DEF B!Idle, B!Day
<1>4. CASE B!Counts(TRUE) /\ B!Alert /\ UNCHANGED <<v3, v9>>
  <2>1. v10' \in 0..CopyFaults /\ v6' = v6 \cup {v4.day} /\ UNCHANGED <<v3, v9>>
    BY <1>2, <1>4, BackupFaults DEF B!Alert
  <2>2. B!TypeOK'
    BY <1>1, <1>2, <1>3, <2>1 DEF B!TypeOK
  <2> QED BY <1>1, <1>3, <2>1, <2>2 DEF B!BackupInv, B!CopyAtHand, B!KeepsOne, B!SilentIsCopied
<1>5. CASE /\ v9' = v9 \cup {v4.day} /\ v3' \in {B!Landed, B!Pruned(B!Landed, CopyKeepOff - 1)}
           /\ UNCHANGED <<v6, v10>>
  <2>1. /\ B!Landed \in [B!Day -> B!Copy] /\ B!Landed[v4.day] = "whole"
        /\ \A d \in B!Day : d # v4.day => B!Landed[d] = v3[d]
    BY <1>2 DEF B!Landed, B!Copy
  <2>2. ~(v1 - v4.day > CopyKeepOff - 1)
    BY <1>2, CopyAssumption DEF B!Day
  <2>3. /\ v3' \in [B!Day -> B!Copy] /\ v3'[v4.day] = "whole"
        /\ \A d \in B!Day : d # v4.day => v3'[d] \in {v3[d], "none"}
    BY <1>2, <1>5, <2>1, <2>2, BackupPrunes
  <2>4. B!TypeOK'
    BY <1>1, <1>2, <1>3, <1>5, <2>3 DEF B!TypeOK
  <2>5. B!CopyAtHand'
    BY <1>1, <1>2, <1>3, <2>3 DEF B!BackupInv, B!CopyAtHand
  <2>6. B!KeepsOne'
    BY <1>1, <1>2, <2>3 DEF B!BackupInv, B!KeepsOne
  <2>7. B!SilentIsCopied'
    BY <1>1, <1>2, <1>5 DEF B!BackupInv, B!SilentIsCopied
  <2> QED BY <2>4, <2>5, <2>6, <2>7 DEF B!BackupInv
<1> QED BY <1>4, <1>5 DEF B!Push

\* A run is killed; the next morning comes.
LEMMA BackupEnds == ASSUME B!BackupInv, B!Killed \/ B!NewDay PROVE B!BackupInv'
<1>1. B!TypeOK
  BY DEF B!BackupInv
<1>2. CASE B!Killed
  <2>1. /\ v10' \in 0..CopyFaults /\ v4' = B!Idle /\ v7' = v7 \cup {v4.day} /\ v4.day \in B!Day
        /\ UNCHANGED <<v1, v2, v3, v5, v6, v8, v9>>
    BY <1>1, <1>2, BackupFaults DEF B!Killed, B!TypeOK
  <2>2. v4'.step = "idle" /\ v4' \in [step : {"idle", "copy", "seed", "push"}, day : B!Day]
    BY <2>1, CopyAssumption DEF B!Idle, B!Day
  <2>3. B!TypeOK'
    BY <1>1, <2>1, <2>2 DEF B!TypeOK
  <2> QED BY <2>1, <2>2, <2>3 DEF B!BackupInv, B!CopyAtHand, B!KeepsOne, B!SilentIsCopied
<1>3. CASE B!NewDay
  <2>1. /\ v1 < CopyDays /\ v1' = v1 + 1 /\ (v4.step # "idle" => v4.day = v1)
        /\ UNCHANGED <<v2, v3, v4, v5, v6, v7, v8, v9, v10>>
    BY <1>3 DEF B!NewDay
  <2>2. v1 \in B!Day /\ v1' \in B!Day /\ v5 \subseteq B!Day
    BY <1>1, <2>1, CopyAssumption DEF B!TypeOK, B!Day
  <2>3. B!TypeOK'
    BY <1>1, <2>1, <2>2 DEF B!TypeOK
  <2>4. B!CopyAtHand'
    <3>1. \A d \in v5 : d <= v1'
      BY <2>1, <2>2 DEF B!BackupInv, B!CopyAtHand, B!Day
    <3>2. v4.step # "idle" => v1' - v4.day <= 1
      BY <2>1, <2>2 DEF B!Day
    <3> QED BY <2>1, <3>1, <3>2 DEF B!BackupInv, B!CopyAtHand
  <2> QED BY <2>1, <2>3, <2>4 DEF B!BackupInv, B!KeepsOne, B!SilentIsCopied
<1> QED BY <1>2, <1>3

LEMMA BackupStep == ASSUME B!BackupInv, [B!Next]_(B!vars) PROVE B!BackupInv'
<1>1. CASE UNCHANGED B!vars
  BY <1>1 DEF B!vars, B!BackupInv, B!TypeOK, B!CopyAtHand, B!KeepsOne, B!SilentIsCopied
<1> QED BY <1>1, BackupSkips, BackupStarts, BackupCopies, BackupSeeds, BackupPushes, BackupEnds DEF B!Next

-----------------------------------------------------------------------------
(* The compaction: C.                                                      *)

LEMMA CompactCardinality == \A Few : C!Cardinality(Few) = Cardinality(Few)
BY Zenon DEF C!Cardinality, Cardinality

LEMMA CompactUpTo ==
  ASSUME NEW k \in Nat PROVE IsFiniteSet(1..k) /\ Cardinality(1..k) = k
BY FS_Interval

\* Counting: the rows of a transaction are finitely many, a part that counts
\* as many as the whole is the whole.
LEMMA CompactCounts ==
  ASSUME NEW few \in SUBSET C!Transactions
  PROVE  /\ C!CountOf(few) \in 0..CompactTransactions
         /\ \A part \in SUBSET few : C!CountOf(part) = C!CountOf(few) => part = few
<1>1. IsFiniteSet(1..CompactTransactions) /\ Cardinality(1..CompactTransactions) = CompactTransactions
  BY CompactUpTo, CompactAssumption
<1>2. IsFiniteSet(few) /\ Cardinality(few) <= CompactTransactions /\ Cardinality(few) \in Nat
  <2>1. few \in SUBSET (1..CompactTransactions)
    BY DEF C!Transactions
  <2>2. IsFiniteSet(few) /\ Cardinality(few) <= Cardinality(1..CompactTransactions)
    BY <1>1, <2>1, FS_Subset
  <2> QED BY <1>1, <2>2, FS_CardinalityType
<1>3. \A part \in SUBSET few : Cardinality(few) = Cardinality(part) => few = part
  BY <1>2, FS_Subset
<1>4. \A some : C!CountOf(some) = Cardinality(some)
  BY CompactCardinality DEF C!CountOf
<1> QED BY <1>2, <1>3, <1>4, CompactAssumption

LEMMA CompactTypes ==
  ASSUME C!TypeOK
  PROVE  /\ v1 \in C!Files /\ v2 \in C!Files /\ v3 \in C!Files
         /\ v1.rows \subseteq C!Transactions /\ v2.rows \subseteq C!Transactions /\ v3.rows \subseteq C!Transactions
         /\ C!Readable(v1, v2) \subseteq C!Transactions
         /\ v5 \in Seq([main : C!Files, wal : C!Files]) /\ DOMAIN v5 = 1..Len(v5) /\ Len(v5) \in Nat
         /\ \A m \in DOMAIN v5 : v5[m] \in [main : C!Files, wal : C!Files]
<1>1. v1 \in C!Files /\ v2 \in C!Files /\ v3 \in C!Files /\ v5 \in Seq([main : C!Files, wal : C!Files])
  BY DEF C!TypeOK
<1>2. DOMAIN v5 = 1..Len(v5) /\ Len(v5) \in Nat /\ \A m \in DOMAIN v5 : v5[m] \in [main : C!Files, wal : C!Files]
  BY <1>1, LenProperties, ElementOfSeq
<1> QED BY <1>1, <1>2 DEF C!Files, C!Readable

\* There is always a number for a new file.
LEMMA CompactFresh == ASSUME C!TypeOK PROVE C!Fresh \in Nat
<1> DEFINE L == Len(v5)
           mains == {b.main.id : b \in C!Kept}
           logs  == {b.wal.id : b \in C!Kept}
           few   == {v1.id, v2.id, v3.id}
<1>1. L \in Nat /\ DOMAIN v5 = 1..L
  BY CompactTypes
<1>2. IsFiniteSet(1..L) /\ Cardinality(1..L) = L
  BY <1>1, CompactUpTo
<1>3. IsFiniteSet(mains) /\ Cardinality(mains) <= L
  <2> DEFINE f == [m \in 1..L |-> v5[m].main.id]
  <2>1. f \in Surjection(1..L, mains)
    BY <1>1 DEF Surjection, C!Kept
  <2> HIDE DEF f, mains
  <2> QED BY <1>2, <2>1, FS_Surjection
<1>4. IsFiniteSet(logs) /\ Cardinality(logs) <= L
  <2> DEFINE f == [m \in 1..L |-> v5[m].wal.id]
  <2>1. f \in Surjection(1..L, logs)
    BY <1>1 DEF Surjection, C!Kept
  <2> HIDE DEF f, logs
  <2> QED BY <1>2, <2>1, FS_Surjection
<1>5. IsFiniteSet(few) /\ Cardinality(few) <= 3
  <2> DEFINE f == [m \in 1..3 |-> IF m = 1 THEN v1.id ELSE IF m = 2 THEN v2.id ELSE v3.id]
  <2>1. f \in Surjection(1..3, few)
    <3>1. f[1] = v1.id /\ f[2] = v2.id /\ f[3] = v3.id
      OBVIOUS
    <3>2. f \in [1..3 -> few]
      OBVIOUS
    <3>3. \A x \in few : \E m \in 1..3 : f[m] = x
      BY <3>1
    <3> QED BY <3>2, <3>3 DEF Surjection
  <2>2. IsFiniteSet(1..3) /\ Cardinality(1..3) = 3
    <3>1. 3 \in Nat
      OBVIOUS
    <3> QED BY <3>1, CompactUpTo
  <2> HIDE DEF f, few
  <2> QED BY <2>1, <2>2, FS_Surjection
<1> DEFINE all == few \cup mains \cup logs
<1> HIDE DEF L, mains, logs, few
<1>6. IsFiniteSet(few \cup mains) /\ Cardinality(few \cup mains) <= 3 + L
  <2>1. /\ IsFiniteSet(few \cup mains)
        /\ Cardinality(few \cup mains) = Cardinality(few) + Cardinality(mains) - Cardinality(few \cap mains)
    BY <1>3, <1>5, FS_Union
  <2>2. Cardinality(few \cap mains) \in Nat /\ Cardinality(few) \in Nat /\ Cardinality(mains) \in Nat
    BY <1>3, <1>5, FS_Intersection, FS_CardinalityType
  <2> QED BY <1>1, <1>3, <1>5, <2>1, <2>2
<1>7. IsFiniteSet(all) /\ Cardinality(all) <= 3 + L + L
  <2>1. /\ IsFiniteSet(all)
        /\ Cardinality(all) = Cardinality(few \cup mains) + Cardinality(logs) - Cardinality((few \cup mains) \cap logs)
    BY <1>4, <1>6, FS_Union
  <2>2. /\ Cardinality((few \cup mains) \cap logs) \in Nat /\ Cardinality(few \cup mains) \in Nat
        /\ Cardinality(logs) \in Nat
    BY <1>4, <1>6, FS_Intersection, FS_CardinalityType
  <2> QED BY <1>1, <1>4, <1>6, <2>1, <2>2
<1> HIDE DEF all
<1>8. \E id \in 1..(4 + 2 * L) : id \notin all
  <2> SUFFICES ASSUME 1..(4 + 2 * L) \in SUBSET all PROVE FALSE
    OBVIOUS
  <2>1. Cardinality(1..(4 + 2 * L)) <= Cardinality(all)
    BY <1>7, FS_Subset
  <2>2. Cardinality(1..(4 + 2 * L)) = 4 + 2 * L
    <3>1. 4 + 2 * L \in Nat
      BY <1>1
    <3> QED BY <3>1, CompactUpTo
  <2>3. Cardinality(all) \in Nat
    BY <1>7, FS_CardinalityType
  <2> QED BY <1>1, <1>7, <2>1, <2>2, <2>3
<1>9. C!Fresh = CHOOSE id \in 1..(4 + 2 * L) : id \notin all
  BY DEF C!Fresh, all, L, few, mains, logs
<1> QED BY <1>1, <1>8, <1>9

LEMMA CompactInit == ASSUME C!Init PROVE C!CompactInv
<1>1. v1 = [id |-> 1, rows |-> {}] /\ v2 = C!Missing /\ v3 = C!Missing /\ v4 = {} /\ v5 = <<>> /\ v8 = "off"
      /\ v9 = "free" /\ v10 = {} /\ v6 = C!Empty /\ v7 = C!Empty /\ v12 = 0 /\ v13 = 0 /\ v14 = {}
  BY DEF C!Init, C!NoRows
<1>2. C!TypeOK
  <2>1. C!Missing \in C!Files /\ [id |-> 1, rows |-> {}] \in C!Files
    BY DEF C!Missing, C!Files, C!NoRows
  <2>2. C!Empty \in 0..C!Empty /\ 0 \in 0..CompactFailures /\ 0 \in 0..CompactDeaths
    BY CompactAssumption DEF C!Empty
  <2>3. v11 \in BOOLEAN
    BY Zenon DEF C!Init
  <2>4. v5 \in Seq([main : C!Files, wal : C!Files])
    BY <1>1, EmptySeq
  <2> QED BY <1>1, <2>1, <2>2, <2>3, <2>4 DEF C!TypeOK
<1>3. v1 # C!Missing /\ C!Readable(v1, v2) = {} /\ DOMAIN v5 = {}
  BY <1>1 DEF C!Missing, C!Readable, C!NoRows
<1> QED BY <1>1, <1>2, <1>3 DEF C!CompactInv, C!SwapInOrder, C!CopyInOrder, C!NothingForgotten, C!WalBelongs,
          C!InPlace, C!NoRows

\* A writer of the queue, with the flock free.
LEMMA CompactCommits == ASSUME C!CompactInv, C!Commit PROVE C!CompactInv'
<1>1. C!TypeOK /\ v9 = "free" /\ v8 = "off"
  BY DEF C!CompactInv, C!SwapInOrder, C!Commit
<1>2. UNCHANGED <<v3, v4, v5, v6, v7, v8, v9, v12, v13, v14>>
  BY DEF C!Commit, C!staging, C!counts
<1>3. PICK t \in C!Transactions \ v10, folds \in BOOLEAN : \E found, log :
        /\ found = IF v1 = C!Missing THEN [id |-> C!Fresh, rows |-> C!NoRows] ELSE v1
        /\ log = (IF v1 = C!Missing THEN C!NoRows ELSE v2.rows) \cup {t}
        /\ v10' = v10 \cup {t}
        /\ v1' = IF folds THEN [found EXCEPT !.rows = @ \cup log] ELSE found
        /\ v2' = IF folds THEN C!Missing ELSE [id |-> found.id, rows |-> log]
  BY DEF C!Commit
<1>4. PICK found, log :
        /\ found = IF v1 = C!Missing THEN [id |-> C!Fresh, rows |-> C!NoRows] ELSE v1
        /\ log = (IF v1 = C!Missing THEN C!NoRows ELSE v2.rows) \cup {t}
        /\ v10' = v10 \cup {t}
        /\ v1' = IF folds THEN [found EXCEPT !.rows = @ \cup log] ELSE found
        /\ v2' = IF folds THEN C!Missing ELSE [id |-> found.id, rows |-> log]
  BY <1>3
<1>5. v11' = (v11 \/ v1 = C!Missing)
  BY DEF C!Commit
<1>6. found \in C!Files /\ log \subseteq C!Transactions /\ t \in log
  <2>1. [id |-> C!Fresh, rows |-> C!NoRows] \in C!Files
    BY <1>1, CompactFresh DEF C!Files, C!NoRows
  <2> QED BY <1>1, <1>4, <2>1, CompactTypes DEF C!NoRows
<1>7. C!Missing \in C!Files
  BY DEF C!Missing, C!Files, C!NoRows
<1>8. /\ v1' \in C!Files /\ v2' \in C!Files
      /\ C!Readable(v1', v2') = found.rows \cup log
      /\ v2' # C!Missing => v2'.id = v1'.id
  <2>1. CASE folds
    <3>1. v1' = [id |-> found.id, rows |-> found.rows \cup log]
      BY <1>4, <1>6, <2>1 DEF C!Files
    <3> QED BY <1>4, <1>6, <1>7, <2>1, <3>1 DEF C!Files, C!Readable, C!Missing, C!NoRows
  <2>2. CASE ~folds
    <3>1. v1' = found /\ v2' = [id |-> found.id, rows |-> log]
      BY <1>4, <2>2
    <3> QED BY <1>6, <3>1 DEF C!Files, C!Readable
  <2> QED BY <2>1, <2>2
<1>9. C!TypeOK'
  <2>1. v10' \subseteq C!Transactions
    BY <1>1, <1>4 DEF C!TypeOK
  <2>2. v11' \in BOOLEAN
    BY <1>1, <1>5 DEF C!TypeOK
  <2> QED BY <1>1, <1>2, <1>8, <2>1, <2>2 DEF C!TypeOK
<1>10. C!NothingForgotten'
  <2> SUFFICES ASSUME ~v11' PROVE v1' # C!Missing /\ C!Readable(v1', v2') = v10' \ v14'
    BY <1>1, <1>2 DEF C!NothingForgotten, C!NoRows
  <2>1. ~v11 /\ v1 # C!Missing
    BY <1>5, Zenon
  <2>2. /\ C!Readable(v1, v2) = v10 \ v14 /\ found = v1 /\ log = v2.rows \cup {t}
        /\ v14 \subseteq v10 /\ v14' = v14
    BY <1>1, <1>2, <1>4, <2>1 DEF C!CompactInv, C!NothingForgotten, C!SwapInOrder, C!NoRows
  <2>3. v1' # C!Missing
    <3>1. CASE folds
      <4>1. v1' = [id |-> v1.id, rows |-> v1.rows \cup log]
        BY <1>4, <1>6, <2>2, <3>1 DEF C!Files
      <4> QED BY <1>6, <4>1 DEF C!Missing, C!NoRows
    <3>2. CASE ~folds
      BY <1>4, <2>1, <2>2, <3>2
    <3> QED BY <3>1, <3>2
  <2> QED BY <1>4, <1>8, <2>2, <2>3 DEF C!Readable
<1>11. C!WalBelongs'
  BY <1>2, <1>8 DEF C!CompactInv, C!WalBelongs
<1>12. ~v11' => v14' \subseteq v10'
  BY <1>1, <1>2, <1>4, <1>5, Zenon DEF C!CompactInv, C!SwapInOrder
<1> QED BY <1>1, <1>2, <1>9, <1>10, <1>11, <1>12 DEF C!CompactInv, C!SwapInOrder, C!CopyInOrder, C!InPlace

\* The steps up to the comparison, the probe, what gives up in place and a
\* death leave the files in place.
LEMMA CompactLeaves ==
  ASSUME C!CompactInv, UNCHANGED <<v1, v2, v5, v10, v11, v14>>, v8 # "restoreWal",
         v3' \in C!Files, v4' \subseteq C!Transactions, v6' \in 0..C!Empty, v7' \in 0..C!Empty,
         v12' \in 0..CompactFailures, v13' \in 0..CompactDeaths,
         \/ v8' = "off" /\ v9' = "free"
         \/ /\ v9' = "compaction"
            /\ \/ v8' \in {"clean", "checkpoint", "count", "export", "import", "recount", "verify", "moveOut"}
                  /\ v1 # C!Missing
               \/ v8' = "prune" /\ v8 = "probe",
         C!CopyInOrder'
  PROVE  C!CompactInv'
<1>1. C!TypeOK
  BY DEF C!CompactInv
<1>2. C!TypeOK'
  BY <1>1 DEF C!TypeOK
<1>3. C!SwapInOrder'
  BY DEF C!CompactInv, C!SwapInOrder, C!InPlace
<1> QED BY <1>2, <1>3 DEF C!CompactInv, C!NothingForgotten, C!WalBelongs

\* Steps to the comparison.
LEMMA CompactCopies ==
  ASSUME C!CompactInv,
         \/ C!TakeFlock \/ C!Clean \/ C!CheckpointFails \/ C!Count \/ C!CountFails \/ C!Export
         \/ C!Import \/ C!ImportDrops \/ C!ExportOrImportFails \/ C!Recount \/ C!RecountFails
  PROVE  C!CompactInv'
<1>1. /\ C!TypeOK /\ C!SwapInOrder /\ C!CopyInOrder
      /\ v3 \in C!Files /\ v4 \subseteq C!Transactions /\ v6 \in 0..C!Empty /\ v7 \in 0..C!Empty
      /\ v12 \in 0..CompactFailures /\ v13 \in 0..CompactDeaths
  BY DEF C!CompactInv, C!TypeOK
<1>2. C!Missing \in C!Files /\ {} \subseteq C!Transactions /\ C!Empty \in 0..C!Empty
  BY CompactAssumption DEF C!Missing, C!Files, C!NoRows, C!Empty
<1>3. \A few \in SUBSET C!Transactions : C!CountOf(few) \in 0..C!Empty
  BY CompactCounts, CompactAssumption DEF C!Empty
<1>4. \A few \in SUBSET C!Transactions : [id |-> C!Fresh, rows |-> few] \in C!Files
  BY <1>1, CompactFresh DEF C!Files
<1>5. C!Readable(v1, v2) \subseteq C!Transactions
  BY <1>1, CompactTypes
<1>6. ASSUME C!TakeFlock PROVE C!CompactInv'
  <2>1. /\ v8 = "off" /\ v8' = "clean" /\ v9' = "compaction" /\ v1 # C!Missing
        /\ UNCHANGED <<v1, v2, v3, v4, v5, v6, v7, v10, v11, v12, v13, v14>>
    BY <1>6 DEF C!TakeFlock, C!Step, C!staging, C!counts, C!history
  <2>2. C!CopyInOrder'
    BY <2>1 DEF C!CopyInOrder
  <2> QED BY <1>1, <2>1, <2>2, CompactLeaves
<1>7. ASSUME C!Clean PROVE C!CompactInv'
  <2>1. /\ v8 = "clean" /\ v8' = "checkpoint" /\ v3' = C!Missing /\ v4' = {}
        /\ UNCHANGED <<v1, v2, v5, v6, v7, v9, v10, v11, v12, v13, v14>>
    BY <1>7 DEF C!Clean, C!Step, C!counts, C!history, C!NoRows
  <2>2. C!CopyInOrder'
    BY <2>1 DEF C!CopyInOrder
  <2>3. v9 = "compaction" /\ v1 # C!Missing
    BY <1>1, <2>1 DEF C!SwapInOrder, C!InPlace, C!TypeOK
  <2> QED BY <1>1, <1>2, <2>1, <2>2, <2>3, CompactLeaves
<1>8. ASSUME C!CheckpointFails PROVE C!CompactInv'
  <2>1. /\ v8 = "checkpoint" /\ v8' = "count" /\ v12' \in 0..CompactFailures
        /\ UNCHANGED <<v1, v2, v3, v4, v5, v6, v7, v9, v10, v11, v13, v14>>
    BY <1>1, <1>8, CompactAssumption DEF C!CheckpointFails, C!Fault, C!staging, C!counts, C!history
  <2>2. C!CopyInOrder'
    BY <2>1 DEF C!CopyInOrder
  <2>3. v9 = "compaction" /\ v1 # C!Missing
    BY <1>1, <2>1 DEF C!SwapInOrder, C!InPlace, C!TypeOK
  <2> QED BY <1>1, <2>1, <2>2, <2>3, CompactLeaves
<1>9. ASSUME C!Count PROVE C!CompactInv'
  <2>1. /\ v8 = "count" /\ v8' = "export" /\ v6' = C!CountOf(C!Readable(v1, v2))
        /\ UNCHANGED <<v1, v2, v3, v4, v5, v7, v9, v10, v11, v12, v13, v14>>
    BY <1>9 DEF C!Count, C!Step, C!staging, C!history
  <2>2. C!CopyInOrder'
    BY <2>1 DEF C!CopyInOrder
  <2>3. v9 = "compaction" /\ v1 # C!Missing
    BY <1>1, <2>1 DEF C!SwapInOrder, C!InPlace, C!TypeOK
  <2> QED BY <1>1, <1>3, <1>5, <2>1, <2>2, <2>3, CompactLeaves
<1>10. ASSUME C!CountFails PROVE C!CompactInv'
  <2>1. /\ v8 = "count" /\ v6' = C!Empty /\ v8' = "off" /\ v9' = "free" /\ v12' \in 0..CompactFailures
        /\ UNCHANGED <<v1, v2, v3, v4, v5, v7, v10, v11, v13, v14>>
    BY <1>1, <1>10, CompactAssumption DEF C!CountFails, C!Fault, C!Leave, C!staging, C!history
  <2>2. C!CopyInOrder'
    BY <2>1 DEF C!CopyInOrder
  <2> QED BY <1>1, <1>2, <2>1, <2>2, CompactLeaves
<1>11. ASSUME C!Export PROVE C!CompactInv'
  <2>1. /\ v8 = "export" /\ v8' = "import" /\ v4' = C!Readable(v1, v2)
        /\ UNCHANGED <<v1, v2, v3, v5, v6, v7, v9, v10, v11, v12, v13, v14>>
    BY <1>11 DEF C!Export, C!Step, C!counts, C!history
  <2>2. C!CopyInOrder'
    BY <1>1, <2>1 DEF C!CopyInOrder
  <2>3. v9 = "compaction" /\ v1 # C!Missing
    BY <1>1, <2>1 DEF C!SwapInOrder, C!InPlace, C!TypeOK
  <2> QED BY <1>1, <1>5, <2>1, <2>2, <2>3, CompactLeaves
<1>12. ASSUME C!Import \/ C!ImportDrops PROVE C!CompactInv'
  <2>1. /\ v8 = "import" /\ v8' = "recount" /\ v12' \in 0..CompactFailures
        /\ UNCHANGED <<v1, v2, v4, v5, v6, v7, v9, v10, v11, v13, v14>>
    BY <1>1, <1>12, CompactAssumption DEF C!Import, C!ImportDrops, C!Step, C!Fault, C!counts, C!history
  <2>2. PICK rows \in SUBSET v4 : v3' = [id |-> C!Fresh, rows |-> rows]
    BY <1>12 DEF C!Import, C!ImportDrops
  <2>3. v3' \in C!Files /\ v3'.rows \subseteq C!Readable(v1, v2)
    BY <1>1, <1>4, <2>1, <2>2 DEF C!CopyInOrder
  <2>4. C!CopyInOrder'
    BY <1>1, <2>1, <2>3 DEF C!CopyInOrder
  <2>5. v9 = "compaction" /\ v1 # C!Missing
    BY <1>1, <2>1 DEF C!SwapInOrder, C!InPlace, C!TypeOK
  <2> QED BY <1>1, <2>1, <2>3, <2>4, <2>5, CompactLeaves
<1>13. ASSUME C!ExportOrImportFails PROVE C!CompactInv'
  <2>1. /\ v8 \in {"export", "import"} /\ v8' = "off" /\ v9' = "free"
        /\ v3' = C!Missing /\ v4' = {} /\ v12' \in 0..CompactFailures
        /\ UNCHANGED <<v1, v2, v5, v6, v7, v10, v11, v13, v14>>
    BY <1>1, <1>13, CompactAssumption DEF C!ExportOrImportFails, C!GiveUp, C!Leave, C!Fault, C!counts, C!history, C!NoRows
  <2>2. C!CopyInOrder'
    BY <2>1 DEF C!CopyInOrder
  <2> QED BY <1>1, <1>2, <2>1, <2>2, CompactLeaves
<1>14. ASSUME C!Recount PROVE C!CompactInv'
  <2>1. /\ v8 = "recount" /\ v8' = "verify" /\ v7' = C!CountOf(v3.rows)
        /\ UNCHANGED <<v1, v2, v3, v4, v5, v6, v9, v10, v11, v12, v13, v14>>
    BY <1>14 DEF C!Recount, C!Step, C!staging, C!history
  <2>2. v3.rows \subseteq C!Transactions
    BY <1>1 DEF C!Files
  <2>3. C!CopyInOrder'
    BY <1>1, <2>1 DEF C!CopyInOrder
  <2>4. v9 = "compaction" /\ v1 # C!Missing
    BY <1>1, <2>1 DEF C!SwapInOrder, C!InPlace, C!TypeOK
  <2> QED BY <1>1, <1>3, <2>1, <2>2, <2>3, <2>4, CompactLeaves
<1>15. ASSUME C!RecountFails PROVE C!CompactInv'
  <2>1. /\ v8 = "recount" /\ v8' = "off" /\ v9' = "free" /\ v3' = C!Missing /\ v4' = {} /\ v7' = C!Empty
        /\ v12' \in 0..CompactFailures
        /\ UNCHANGED <<v1, v2, v5, v6, v10, v11, v13, v14>>
    BY <1>1, <1>15, CompactAssumption DEF C!RecountFails, C!GiveUp, C!Leave, C!Fault, C!history, C!NoRows
  <2>2. C!CopyInOrder'
    BY <2>1 DEF C!CopyInOrder
  <2> QED BY <1>1, <1>2, <2>1, <2>2, CompactLeaves
<1> QED BY <1>6, <1>7, <1>8, <1>9, <1>10, <1>11, <1>12, <1>13, <1>14, <1>15

\* The comparison, what leaves the swap before it has begun, the probe and a
\* death.
LEMMA CompactVerifies ==
  ASSUME C!CompactInv, C!Verify \/ C!MoveOutFails \/ C!Probe \/ (C!Die /\ v8 # "restoreWal")
  PROVE  C!CompactInv'
<1>1. /\ C!TypeOK /\ C!SwapInOrder /\ C!CopyInOrder
      /\ v3 \in C!Files /\ v4 \subseteq C!Transactions /\ v6 \in 0..C!Empty /\ v7 \in 0..C!Empty
      /\ v12 \in 0..CompactFailures /\ v13 \in 0..CompactDeaths
  BY DEF C!CompactInv, C!TypeOK
<1>2. C!Missing \in C!Files /\ {} \subseteq C!Transactions
  BY DEF C!Missing, C!Files, C!NoRows
<1>3. ASSUME C!Verify PROVE C!CompactInv'
  <2>1. v8 = "verify" /\ UNCHANGED <<v1, v2, v5, v6, v7, v10, v11, v12, v13, v14>>
    BY <1>3 DEF C!Verify, C!counts, C!history
  <2>2. CASE C!Verified
    <3>1. v8' = "moveOut" /\ UNCHANGED <<v3, v4, v9>>
      BY <1>3, <2>2 DEF C!Verify, C!staging
    <3>2. v9 = "compaction" /\ v1 # C!Missing
      BY <1>1, <2>1 DEF C!SwapInOrder, C!InPlace, C!TypeOK
    <3>3. v3.rows = C!Readable(v1, v2)
      <4>1. v3.rows \in SUBSET C!Readable(v1, v2) /\ C!CountOf(v3.rows) = C!CountOf(C!Readable(v1, v2))
        BY <1>1, <2>1, <2>2 DEF C!CopyInOrder, C!Verified
      <4>2. C!Readable(v1, v2) \in SUBSET C!Transactions
        BY <1>1, CompactTypes
      <4> QED BY <4>1, <4>2, CompactCounts
    <3>4. C!CopyInOrder'
      BY <2>1, <3>1, <3>3 DEF C!CopyInOrder
    <3> QED BY <1>1, <2>1, <3>1, <3>2, <3>4, CompactLeaves
  <2>3. CASE ~C!Verified
    <3>1. v8' = "off" /\ v9' = "free" /\ v3' = C!Missing /\ v4' = {}
      BY <1>3, <2>3 DEF C!Verify, C!GiveUp, C!Leave, C!NoRows
    <3>2. C!CopyInOrder'
      BY <3>1 DEF C!CopyInOrder
    <3> QED BY <1>1, <1>2, <2>1, <3>1, <3>2, CompactLeaves
  <2> QED BY <2>2, <2>3
<1>4. ASSUME C!MoveOutFails PROVE C!CompactInv'
  <2>1. /\ v8 = "moveOut" /\ v8' = "off" /\ v9' = "free"
        /\ v3' = C!Missing /\ v4' = {} /\ v12' \in 0..CompactFailures
        /\ UNCHANGED <<v1, v2, v5, v6, v7, v10, v11, v13, v14>>
    BY <1>1, <1>4, CompactAssumption DEF C!MoveOutFails, C!GiveUp, C!Leave, C!Fault, C!counts, C!history, C!NoRows
  <2>2. C!CopyInOrder'
    BY <2>1 DEF C!CopyInOrder
  <2> QED BY <1>1, <1>2, <2>1, <2>2, CompactLeaves
<1>5. ASSUME C!Probe PROVE C!CompactInv'
  <2>1. v8 = "probe" /\ v8' = "prune" /\ UNCHANGED <<v1, v2, v3, v4, v5, v6, v7, v9, v10, v11, v12, v13, v14>>
    BY <1>5 DEF C!Probe, C!Step, C!staging, C!counts, C!history
  <2>2. C!CopyInOrder'
    BY <1>1, <2>1 DEF C!CopyInOrder
  <2>3. v9 = "compaction"
    BY <1>1, <2>1 DEF C!SwapInOrder, C!TypeOK
  <2> QED BY <1>1, <2>1, <2>2, <2>3, CompactLeaves
<1>6. ASSUME C!Die, v8 # "restoreWal" PROVE C!CompactInv'
  <2>1. /\ v8' = "off" /\ v9' = "free" /\ v13' \in 0..CompactDeaths
        /\ UNCHANGED <<v1, v2, v3, v4, v5, v6, v7, v10, v11, v12>>
    BY <1>1, <1>6, CompactAssumption DEF C!Die, C!Leave, C!staging, C!counts
  <2>2. v14' = v14
    BY <1>6 DEF C!Die, C!StaysBehind, C!NoRows
  <2>3. C!CopyInOrder'
    BY <2>1 DEF C!CopyInOrder
  <2> QED BY <1>1, <1>6, <2>1, <2>2, <2>3, CompactLeaves
<1> QED BY <1>3, <1>4, <1>5, <1>6

\* The WAL is folded into the primary.
LEMMA CompactCheckpoints == ASSUME C!CompactInv, C!Checkpoint PROVE C!CompactInv'
<1>1. C!TypeOK /\ C!SwapInOrder
  BY DEF C!CompactInv
<1>2. /\ v8 = "checkpoint" /\ v8' = "count" /\ v1' = [v1 EXCEPT !.rows = C!Readable(v1, v2)] /\ v2' = C!Missing
      /\ UNCHANGED <<v3, v4, v5, v6, v7, v9, v10, v11, v12, v13, v14>>
  BY DEF C!Checkpoint, C!Step, C!staging, C!counts, C!history
<1>3. v1' = [id |-> v1.id, rows |-> C!Readable(v1, v2)]
  BY <1>1, <1>2, CompactTypes DEF C!Files
<1>4. v1' \in C!Files /\ v2' \in C!Files
  BY <1>1, <1>2, <1>3, CompactTypes DEF C!Files, C!Missing, C!NoRows
<1>5. C!Readable(v1', v2') = C!Readable(v1, v2)
  BY <1>2, <1>3 DEF C!Readable, C!Missing, C!NoRows
<1>6. v1 # C!Missing /\ v1' # C!Missing
  <2>1. v1 # C!Missing
    BY <1>1, <1>2 DEF C!SwapInOrder, C!InPlace
  <2>2. v1 = [id |-> v1.id, rows |-> v1.rows]
    BY <1>1, CompactTypes DEF C!Files
  <2>3. v1.id # 0 \/ v1.rows # {}
    BY <2>1, <2>2 DEF C!Missing, C!NoRows
  <2> QED BY <1>3, <2>1, <2>3 DEF C!Missing, C!NoRows, C!Readable
<1>7. C!TypeOK'
  BY <1>1, <1>2, <1>4 DEF C!TypeOK
<1>8. C!NothingForgotten'
  BY <1>2, <1>5, <1>6 DEF C!CompactInv, C!NothingForgotten
<1>9. C!WalBelongs'
  BY <1>2 DEF C!CompactInv, C!WalBelongs
<1> QED BY <1>1, <1>2, <1>6, <1>7, <1>8, <1>9 DEF C!CompactInv, C!SwapInOrder, C!CopyInOrder, C!InPlace

\* The swap: the primary becomes the newest backup,
LEMMA CompactMovesOut == ASSUME C!CompactInv, C!MoveOut PROVE C!CompactInv'
<1>1. C!TypeOK /\ C!SwapInOrder /\ C!CopyInOrder
  BY DEF C!CompactInv
<1> DEFINE Backup == [main : C!Files, wal : C!Files]
           copy == [main |-> v1, wal |-> C!Missing]
<1>2. /\ v8 = "moveOut" /\ v8' = "moveWal" /\ v5' = <<copy>> \o v5 /\ v1' = C!Missing
      /\ UNCHANGED <<v2, v3, v4, v6, v7, v9, v10, v11, v12, v13, v14>>
  BY DEF C!MoveOut, C!Step, C!staging, C!counts, C!history
<1>3. v1' \in C!Files /\ copy \in Backup /\ copy.main = v1 /\ copy.wal = C!Missing
  BY <1>1, <1>2, CompactTypes DEF C!Files, C!Missing, C!NoRows
<1> HIDE DEF Backup, copy
<1>4. /\ v5' \in Seq(Backup) /\ v5' # <<>> /\ Head(v5') = copy
      /\ \A m \in DOMAIN v5' : v5'[m] = copy \/ \E k \in DOMAIN v5 : v5'[m] = v5[k]
  <2>1. v5 \in Seq(Backup) /\ <<copy>> \in Seq(Backup) /\ Len(<<copy>>) = 1
    BY <1>1, <1>3, CompactTypes DEF Backup
  <2>2. /\ v5' \in Seq(Backup) /\ Len(v5') = 1 + Len(v5)
        /\ \A i \in 1..1 + Len(v5) : v5'[i] = IF i <= 1 THEN copy ELSE v5[i - 1]
    BY <1>2, <2>1, ConcatProperties
  <2>3. Len(v5) \in Nat /\ DOMAIN v5 = 1..Len(v5) /\ DOMAIN v5' = 1..1 + Len(v5)
    BY <2>1, <2>2, LenProperties
  <2>4. v5'[1] = copy /\ \A m \in DOMAIN v5' : v5'[m] = copy \/ (m - 1 \in DOMAIN v5 /\ v5'[m] = v5[m - 1])
    BY <2>2, <2>3
  <2>5. v5' # <<>> /\ Head(v5') = v5'[1]
    BY <2>2, <2>3
  <2> QED BY <2>2, <2>4, <2>5
<1>5. v1 # C!Missing /\ v9 = "compaction" /\ v3.rows = C!Readable(v1, v2)
  BY <1>1, <1>2 DEF C!SwapInOrder, C!CopyInOrder, C!InPlace, C!TypeOK
<1>6. C!TypeOK'
  BY <1>1, <1>2, <1>3, <1>4 DEF C!TypeOK, Backup
<1>7. C!WalBelongs'
  <2>1. \A k \in DOMAIN v5 : v5[k].wal # C!Missing /\ v5[k].main # C!Missing => v5[k].wal.id = v5[k].main.id
    BY DEF C!CompactInv, C!WalBelongs
  <2> QED BY <1>2, <1>3, <1>4, <2>1 DEF C!WalBelongs
<1>8. C!SwapInOrder'
  <2>1. v2 # C!Missing => v2.id = v1.id
    BY <1>5 DEF C!CompactInv, C!WalBelongs
  <2> QED BY <1>1, <1>2, <1>3, <1>4, <1>5, <2>1 DEF C!SwapInOrder, C!InPlace
<1>9. C!Readable(Head(v5').main, Head(v5').wal) \cup v2'.rows = C!Readable(v1, v2)
  BY <1>2, <1>3, <1>4 DEF C!Readable, C!Missing, C!NoRows
<1>10. C!CopyInOrder'
  BY <1>2, <1>5, <1>9 DEF C!CopyInOrder
<1>11. C!NothingForgotten'
  BY <1>2, <1>5, <1>9 DEF C!CompactInv, C!NothingForgotten, C!NoRows
<1> QED BY <1>6, <1>7, <1>8, <1>10, <1>11 DEF C!CompactInv

\* its WAL goes with it,
LEMMA CompactMovesWal == ASSUME C!CompactInv, C!MoveWal PROVE C!CompactInv'
<1>1. C!TypeOK /\ C!SwapInOrder /\ C!CopyInOrder
  BY DEF C!CompactInv
<1> DEFINE Backup == [main : C!Files, wal : C!Files]
<1>2. /\ v8 = "moveWal" /\ v8' = "moveIn" /\ v5' = [v5 EXCEPT ![1].wal = v2] /\ v2' = C!Missing
      /\ UNCHANGED <<v1, v3, v4, v6, v7, v9, v10, v11, v12, v13, v14>>
  BY DEF C!MoveWal, C!Step, C!staging, C!counts, C!history
<1>3. /\ v5 # <<>> /\ Head(v5).main # C!Missing /\ Head(v5).wal = C!Missing /\ v1 = C!Missing
      /\ v2 # C!Missing => v2.id = Head(v5).main.id
      /\ v3.rows = C!Readable(Head(v5).main, Head(v5).wal) \cup v2.rows
  BY <1>1, <1>2 DEF C!SwapInOrder, C!CopyInOrder
<1>4. /\ v5 \in Seq(Backup) /\ DOMAIN v5 = 1..Len(v5) /\ Len(v5) \in Nat
      /\ 1 \in DOMAIN v5 /\ Head(v5) = v5[1] /\ v5[1] \in Backup /\ v2 \in C!Files
  <2>1. v5 \in Seq(Backup) /\ DOMAIN v5 = 1..Len(v5) /\ Len(v5) \in Nat /\ v2 \in C!Files
    BY <1>1, CompactTypes
  <2>2. 1 \in DOMAIN v5 /\ Head(v5) = v5[1]
    BY <1>3, <2>1, EmptySeq
  <2> QED BY <1>1, <2>1, <2>2, CompactTypes
<1> DEFINE copy == [main |-> v5[1].main, wal |-> v2]
<1>5. v5' = [v5 EXCEPT ![1] = copy] /\ copy \in Backup
  <2>1. [v5[1] EXCEPT !.wal = v2] = copy
    BY <1>4
  <2> QED BY <1>2, <1>4, <2>1
<1>6. copy.main = Head(v5).main /\ copy.wal = v2
  BY <1>4
<1> HIDE DEF Backup, copy
<1>7. /\ v5' \in Seq(Backup) /\ v5' # <<>> /\ Head(v5') = copy /\ DOMAIN v5' = DOMAIN v5
      /\ \A m \in DOMAIN v5' : v5'[m] = copy \/ v5'[m] = v5[m]
  <2>1. /\ v5' \in Seq(Backup) /\ Len(v5') = Len(v5)
        /\ \A m \in 1..Len(v5) : v5'[m] = IF m = 1 THEN copy ELSE v5[m]
    BY <1>4, <1>5, ExceptSeq
  <2>2. DOMAIN v5' = 1..Len(v5)
    BY <2>1, LenProperties
  <2> QED BY <1>4, <2>1, <2>2
<1>8. C!TypeOK'
  <2>1. v2' \in C!Files
    BY <1>2 DEF C!Files, C!Missing, C!NoRows
  <2> QED BY <1>1, <1>2, <1>7, <2>1 DEF C!TypeOK, Backup
<1>9. C!WalBelongs'
  <2>1. \A k \in DOMAIN v5 : v5[k].wal # C!Missing /\ v5[k].main # C!Missing => v5[k].wal.id = v5[k].main.id
    BY DEF C!CompactInv, C!WalBelongs
  <2> QED BY <1>2, <1>3, <1>6, <1>7, <2>1 DEF C!WalBelongs
<1>10. C!SwapInOrder'
  BY <1>1, <1>2, <1>3, <1>6, <1>7 DEF C!SwapInOrder, C!InPlace
<1>11. C!Readable(Head(v5').main, Head(v5').wal) \cup v2'.rows = C!Readable(Head(v5).main, Head(v5).wal) \cup v2.rows
  BY <1>2, <1>3, <1>6, <1>7 DEF C!Readable, C!Missing, C!NoRows
<1>12. C!CopyInOrder'
  BY <1>2, <1>3, <1>11 DEF C!CopyInOrder
<1>13. C!NothingForgotten'
  BY <1>2, <1>3, <1>11 DEF C!CompactInv, C!NothingForgotten
<1> QED BY <1>8, <1>9, <1>10, <1>12, <1>13 DEF C!CompactInv

\* and the new file takes its place.
LEMMA CompactMovesIn == ASSUME C!CompactInv, C!MoveIn PROVE C!CompactInv'
<1>1. C!TypeOK /\ C!SwapInOrder /\ C!CopyInOrder
  BY DEF C!CompactInv
<1>2. /\ v8 = "moveIn" /\ v8' = "probe" /\ v1' = v3 /\ v3' = C!Missing
      /\ UNCHANGED <<v2, v4, v5, v6, v7, v9, v10, v11, v12, v13, v14>>
  BY DEF C!MoveIn, C!Step, C!counts, C!history
<1>3. /\ v1 = C!Missing /\ v2 = C!Missing /\ v5 # <<>> /\ Head(v5).main # C!Missing
      /\ v3.rows = C!Readable(Head(v5).main, Head(v5).wal)
  <2>1. v1 = C!Missing /\ v2 = C!Missing /\ v5 # <<>> /\ Head(v5).main # C!Missing
    BY <1>1, <1>2 DEF C!SwapInOrder
  <2>2. v3.rows = C!Readable(Head(v5).main, Head(v5).wal) \cup v2.rows
    BY <1>1, <1>2 DEF C!CopyInOrder
  <2>3. v2.rows = {}
    BY <2>1 DEF C!Missing, C!NoRows
  <2> QED BY <2>1, <2>2, <2>3
<1>4. C!TypeOK'
  <2>1. v3' \in C!Files
    BY <1>2 DEF C!Files, C!Missing, C!NoRows
  <2> QED BY <1>1, <1>2, <2>1 DEF C!TypeOK
<1>5. C!SwapInOrder'
  BY <1>1, <1>2, <1>3 DEF C!SwapInOrder, C!InPlace
<1>6. C!CopyInOrder'
  BY <1>2, <1>3 DEF C!CopyInOrder
<1>7. C!NothingForgotten'
  BY <1>2, <1>3 DEF C!CompactInv, C!NothingForgotten, C!Readable, C!Missing, C!NoRows
<1>8. C!WalBelongs'
  BY <1>2, <1>3 DEF C!CompactInv, C!WalBelongs
<1> QED BY <1>4, <1>5, <1>6, <1>7, <1>8 DEF C!CompactInv

\* Where that fails, or the new file cannot be opened, the backup is to come back:
LEMMA CompactGivesUp == ASSUME C!CompactInv, C!MoveInFails \/ C!ProbeFails PROVE C!CompactInv'
<1>1. C!TypeOK /\ C!SwapInOrder /\ C!CopyInOrder
  BY DEF C!CompactInv
<1>2. /\ v8 \in {"moveIn", "probe"} /\ v8' = "restore" /\ v12' \in 0..CompactFailures
      /\ v8 = "moveIn" => v1' = v1
      /\ v8 = "probe" => v1' = C!Missing
      /\ UNCHANGED <<v2, v3, v4, v5, v6, v7, v9, v10, v11, v13, v14>>
  <2>1. v12 \in 0..CompactFailures
    BY <1>1 DEF C!TypeOK
  <2> QED BY <2>1, CompactAssumption DEF C!MoveInFails, C!ProbeFails, C!Fault, C!staging, C!counts, C!history
<1>3. /\ v5 # <<>> /\ Head(v5).main # C!Missing /\ v2 = C!Missing /\ v1' = C!Missing /\ v9 # "free"
  BY <1>1, <1>2 DEF C!SwapInOrder
<1>4. v1' \in C!Files
  BY <1>3 DEF C!Files, C!Missing, C!NoRows
<1>5. C!TypeOK'
  BY <1>1, <1>2, <1>4 DEF C!TypeOK
<1>6. C!WalBelongs'
  BY <1>2, <1>3 DEF C!CompactInv, C!WalBelongs
<1>7. C!NothingForgotten'
  <2> SUFFICES ASSUME ~v11 PROVE C!Readable(Head(v5).main, Head(v5).wal) \cup v2.rows = v10 \ v14
    BY <1>2, <1>3 DEF C!NothingForgotten
  <2>1. v8 = "probe" => v1.rows = C!Readable(Head(v5).main, Head(v5).wal)
    BY <1>1 DEF C!CopyInOrder
  <2>2. v8 = "moveIn" => v1 = C!Missing
    BY <1>1 DEF C!SwapInOrder
  <2> QED BY <1>2, <1>3, <2>1, <2>2 DEF C!CompactInv, C!NothingForgotten, C!Readable, C!Missing, C!NoRows
<1>8. C!SwapInOrder'
  BY <1>1, <1>2, <1>3 DEF C!SwapInOrder, C!InPlace
<1> QED BY <1>2, <1>5, <1>6, <1>7, <1>8 DEF C!CompactInv, C!CopyInOrder

\* the database by one rename,
LEMMA CompactRestores == ASSUME C!CompactInv, C!Restore \/ C!RestoreFails PROVE C!CompactInv'
<1>1. C!TypeOK /\ C!SwapInOrder
  BY DEF C!CompactInv
<1> DEFINE Backup == [main : C!Files, wal : C!Files]
<1>2. /\ v8 = "restore" /\ v8' = "restoreWal" /\ v12' \in 0..CompactFailures
      /\ UNCHANGED <<v2, v3, v4, v6, v7, v9, v10, v11, v13, v14>>
      /\ \/ v1' = Head(v5).main /\ v5' = [v5 EXCEPT ![1].main = C!Missing]
         \/ v1' = v1 /\ v5' = v5
  <2>1. v12 \in 0..CompactFailures
    BY <1>1 DEF C!TypeOK
  <2> QED BY <2>1, CompactAssumption
          DEF C!Restore, C!RestoreFails, C!Step, C!Fault, C!staging, C!counts, C!history
<1>3. /\ v5 # <<>> /\ Head(v5).main # C!Missing /\ v2 = C!Missing /\ v1 = C!Missing /\ v9 # "free"
  BY <1>1, <1>2 DEF C!SwapInOrder
<1>4. /\ v5 \in Seq(Backup) /\ DOMAIN v5 = 1..Len(v5) /\ Len(v5) \in Nat
      /\ 1 \in DOMAIN v5 /\ Head(v5) = v5[1] /\ v5[1] \in Backup
  <2>1. v5 \in Seq(Backup) /\ DOMAIN v5 = 1..Len(v5) /\ Len(v5) \in Nat
    BY <1>1, CompactTypes
  <2>2. 1 \in DOMAIN v5 /\ Head(v5) = v5[1]
    BY <1>3, <2>1, EmptySeq
  <2> QED BY <1>1, <2>1, <2>2, CompactTypes
<1>5. CASE v1' = v1 /\ v5' = v5
  <2>1. C!TypeOK'
    BY <1>1, <1>2, <1>5 DEF C!TypeOK
  <2> QED BY <1>1, <1>2, <1>3, <1>5, <2>1
          DEF C!CompactInv, C!SwapInOrder, C!CopyInOrder, C!NothingForgotten, C!WalBelongs, C!InPlace
<1>6. CASE v1' = Head(v5).main /\ v5' = [v5 EXCEPT ![1].main = C!Missing]
  <2> DEFINE copy == [main |-> C!Missing, wal |-> v5[1].wal]
  <2>1. v5' = [v5 EXCEPT ![1] = copy] /\ copy \in Backup
    <3>1. [v5[1] EXCEPT !.main = C!Missing] = copy
      BY <1>4
    <3> QED BY <1>4, <1>6, <3>1 DEF C!Files, C!Missing, C!NoRows
  <2>2. copy.main = C!Missing /\ copy.wal = Head(v5).wal /\ v1' \in C!Files /\ v1' # C!Missing
    BY <1>3, <1>4, <1>6
  <2> HIDE DEF Backup, copy
  <2>3. /\ v5' \in Seq(Backup) /\ v5' # <<>> /\ Head(v5') = copy /\ DOMAIN v5' = DOMAIN v5
        /\ \A m \in DOMAIN v5' : v5'[m] = copy \/ v5'[m] = v5[m]
    <3>1. /\ v5' \in Seq(Backup) /\ Len(v5') = Len(v5)
          /\ \A m \in 1..Len(v5) : v5'[m] = IF m = 1 THEN copy ELSE v5[m]
      BY <1>4, <2>1, ExceptSeq
    <3>2. DOMAIN v5' = 1..Len(v5)
      BY <3>1, LenProperties
    <3> QED BY <1>4, <3>1, <3>2
  <2>4. C!TypeOK'
    BY <1>1, <1>2, <2>2, <2>3 DEF C!TypeOK, Backup
  <2>5. C!WalBelongs'
    BY <1>2, <1>3, <2>2, <2>3 DEF C!CompactInv, C!WalBelongs
  <2>6. C!SwapInOrder'
    <3>1. Head(v5).wal # C!Missing => Head(v5).wal.id = Head(v5).main.id
      BY <1>3, <1>4 DEF C!CompactInv, C!WalBelongs
    <3> QED BY <1>1, <1>2, <1>3, <1>6, <2>2, <2>3, <3>1 DEF C!SwapInOrder, C!InPlace
  <2>7. C!NothingForgotten'
    BY <1>2, <1>3, <1>6, <2>2, <2>3
       DEF C!CompactInv, C!NothingForgotten, C!Readable, C!Missing, C!NoRows
  <2> QED BY <1>2, <2>4, <2>5, <2>6, <2>7 DEF C!CompactInv, C!CopyInOrder
<1> QED BY <1>2, <1>5, <1>6

\* and its log by another.
LEMMA CompactRestoresWal == ASSUME C!CompactInv, C!RestoreWal PROVE C!CompactInv'
<1>1. C!TypeOK /\ C!SwapInOrder
  BY DEF C!CompactInv
<1> DEFINE Backup == [main : C!Files, wal : C!Files]
<1>2. /\ v8 = "restoreWal" /\ v8' = "off" /\ v9' = "free" /\ v4' = {} /\ v2' = Head(v5).wal
      /\ v5' = IF Head(v5).main = C!Missing THEN Tail(v5) ELSE [v5 EXCEPT ![1].wal = C!Missing]
      /\ UNCHANGED <<v1, v3, v6, v7, v10, v11, v12, v13, v14>>
  BY DEF C!RestoreWal, C!Step, C!counts, C!history, C!NoRows
<1>3. /\ v5 # <<>> /\ v2 = C!Missing
      /\ v1 = C!Missing <=> Head(v5).main # C!Missing
      /\ v1 # C!Missing /\ Head(v5).wal # C!Missing => Head(v5).wal.id = v1.id
      /\ ~v11 => v14 \subseteq v10
  BY <1>1, <1>2 DEF C!SwapInOrder
<1>4. /\ v5 \in Seq(Backup) /\ DOMAIN v5 = 1..Len(v5) /\ Len(v5) \in Nat
      /\ 1 \in DOMAIN v5 /\ Head(v5) = v5[1] /\ v5[1] \in Backup
  <2>1. v5 \in Seq(Backup) /\ DOMAIN v5 = 1..Len(v5) /\ Len(v5) \in Nat
    BY <1>1, CompactTypes
  <2>2. 1 \in DOMAIN v5 /\ Head(v5) = v5[1]
    BY <1>3, <2>1, EmptySeq
  <2> QED BY <1>1, <2>1, <2>2, CompactTypes
<1>5. ~v11 => IF v1 # C!Missing
                THEN C!Readable(v1, v2') = v10 \ v14
                ELSE C!Readable(Head(v5).main, C!Missing) \cup v2'.rows = v10 \ v14
  BY <1>2, <1>3 DEF C!CompactInv, C!NothingForgotten, C!Readable, C!Missing, C!NoRows
<1> DEFINE copy == [main |-> v5[1].main, wal |-> C!Missing]
<1>6. /\ v5' \in Seq(Backup)
      /\ \A m \in DOMAIN v5' : v5'[m] = copy \/ \E k \in DOMAIN v5 : v5'[m] = v5[k]
      /\ v1 = C!Missing => Head(v5') = copy
  <2>1. CASE Head(v5).main = C!Missing
    <3>1. /\ v5' \in Seq(Backup) /\ Len(v5') = Len(v5) - 1
          /\ \A i \in 1..Len(v5') : v5'[i] = v5[i + 1]
      BY <1>2, <1>3, <1>4, <2>1, HeadTailProperties
    <3>2. DOMAIN v5' = 1..Len(v5')
      BY <3>1, LenProperties
    <3>3. \A m \in DOMAIN v5' : m + 1 \in DOMAIN v5 /\ v5'[m] = v5[m + 1]
      BY <1>4, <3>1, <3>2
    <3> QED BY <1>3, <2>1, <3>1, <3>3
  <2>2. CASE Head(v5).main # C!Missing
    <3>1. [v5[1] EXCEPT !.wal = C!Missing] = copy /\ copy \in Backup
      <4>1. C!Missing \in C!Files
        BY DEF C!Files, C!Missing, C!NoRows
      <4> QED BY <1>4, <4>1
    <3>2. v5' = [v5 EXCEPT ![1] = copy]
      BY <1>2, <1>4, <2>2, <3>1
    <3> HIDE DEF Backup, copy
    <3>3. /\ v5' \in Seq(Backup) /\ Len(v5') = Len(v5)
          /\ \A m \in 1..Len(v5) : v5'[m] = IF m = 1 THEN copy ELSE v5[m]
      BY <1>4, <3>1, <3>2, ExceptSeq
    <3>4. DOMAIN v5' = 1..Len(v5)
      BY <3>3, LenProperties
    <3>5. v5' # <<>> /\ Head(v5') = copy
      BY <1>4, <3>3, <3>4
    <3> QED BY <1>4, <3>3, <3>4, <3>5
  <2> QED BY <2>1, <2>2
<1>7. copy.main = Head(v5).main /\ copy.wal = C!Missing /\ v2' \in C!Files
  BY <1>2, <1>4
<1> HIDE DEF copy
<1>8. C!TypeOK'
  BY <1>1, <1>2, <1>6, <1>7 DEF C!TypeOK, C!Transactions
<1>9. C!WalBelongs'
  <2>1. \A k \in DOMAIN v5 : v5[k].wal # C!Missing /\ v5[k].main # C!Missing => v5[k].wal.id = v5[k].main.id
    BY DEF C!CompactInv, C!WalBelongs
  <2>2. v2' # C!Missing /\ v1' # C!Missing => v2'.id = v1'.id
    BY <1>2, <1>3
  <2>3. \A m \in DOMAIN v5' : v5'[m].wal # C!Missing /\ v5'[m].main # C!Missing => v5'[m].wal.id = v5'[m].main.id
    BY <1>6, <1>7, <2>1
  <2> QED BY <2>2, <2>3 DEF C!WalBelongs
<1>10. C!NothingForgotten'
  BY <1>2, <1>5, <1>6, <1>7 DEF C!NothingForgotten, C!Readable, C!NoRows
<1>11. C!SwapInOrder'
  BY <1>2, <1>3 DEF C!SwapInOrder, C!InPlace
<1> QED BY <1>2, <1>8, <1>9, <1>10, <1>11 DEF C!CompactInv, C!CopyInOrder

\* A restore that ends between the two leaves the log of its database behind.
LEMMA CompactStays ==
  ASSUME C!CompactInv, C!RestoreWalFails \/ (C!Die /\ v8 = "restoreWal")
  PROVE  C!CompactInv'
<1>1. C!TypeOK /\ C!SwapInOrder
  BY DEF C!CompactInv
<1>2. /\ v8 = "restoreWal" /\ v8' = "off" /\ v9' = "free" /\ v4' \in {v4, {}}
      /\ v12' \in 0..CompactFailures /\ v13' \in 0..CompactDeaths
      /\ v14' = v14 \cup (IF v1 # C!Missing THEN Head(v5).wal.rows \ v1.rows ELSE {})
      /\ UNCHANGED <<v1, v2, v3, v5, v6, v7, v10, v11>>
  <2>1. v12 \in 0..CompactFailures /\ v13 \in 0..CompactDeaths
    BY <1>1 DEF C!TypeOK
  <2> QED BY <2>1, CompactAssumption
          DEF C!RestoreWalFails, C!Die, C!StaysBehind, C!Leave, C!staging, C!counts, C!NoRows
<1>3. /\ v5 # <<>> /\ v2 = C!Missing /\ ~v11 => v14 \subseteq v10
  BY <1>1, <1>2 DEF C!SwapInOrder
<1>4. Head(v5).wal.rows \subseteq C!Transactions
  <2>1. v5 \in Seq([main : C!Files, wal : C!Files]) /\ v5 # <<>>
    BY <1>1, <1>2, <1>3, CompactTypes DEF C!SwapInOrder
  <2>2. 1 \in DOMAIN v5 /\ Head(v5) = v5[1]
    BY <1>1, <2>1, CompactTypes, EmptySeq
  <2> QED BY <1>1, <2>2, CompactTypes DEF C!Files
<1>5. C!TypeOK'
  BY <1>1, <1>2, <1>4 DEF C!TypeOK
<1>6. C!NothingForgotten' /\ (~v11' => v14' \subseteq v10')
  <2>1. ~v11 /\ v1 # C!Missing => v1.rows \cup Head(v5).wal.rows = v10 \ v14
    BY <1>2, <1>3, <1>1 DEF C!CompactInv, C!NothingForgotten, C!SwapInOrder, C!Readable, C!Missing, C!NoRows
  <2>2. ~v11 /\ v1 # C!Missing => C!Readable(v1, v2) = v10 \ v14' /\ v14' \subseteq v10
    <3>1. C!Readable(v1, v2) = v1.rows
      BY <1>1, <1>2 DEF C!SwapInOrder, C!Readable, C!Missing, C!NoRows
    <3> QED BY <1>1, <1>2, <2>1, <3>1 DEF C!SwapInOrder
  <2>3. ~v11 /\ v1 = C!Missing => v14' = v14 /\ v14 \subseteq v10
    BY <1>1, <1>2 DEF C!SwapInOrder
  <2> QED BY <1>2, <2>2, <2>3 DEF C!CompactInv, C!NothingForgotten, C!NoRows
<1>7. C!SwapInOrder' /\ C!WalBelongs'
  BY <1>1, <1>2, <1>6 DEF C!CompactInv, C!SwapInOrder, C!InPlace, C!WalBelongs
<1> QED BY <1>2, <1>5, <1>6, <1>7 DEF C!CompactInv, C!CopyInOrder

\* The newest log on disk.
LEMMA CompactNewestLog ==
  ASSUME C!TypeOK, C!Logs # {}
  PROVE  (CHOOSE n \in C!Logs : \A m \in C!Logs : n <= m) \in DOMAIN v5
<1> DEFINE Below == {ss \in Nat \X Nat : ss[1] < ss[2]}
<1>1. IsWellFoundedOn(Below, Nat)
  BY NatLessThanWellFounded DEF OpToRel
<1>2. C!Logs \subseteq DOMAIN v5 /\ C!Logs \subseteq Nat
  BY CompactTypes DEF C!Logs
<1>3. \A x \in Nat, y \in Nat : y < x => <<y, x>> \in Below
  OBVIOUS
<1> HIDE DEF Below
<1>4. PICK n \in C!Logs : \A m \in C!Logs : ~(<<m, n>> \in Below)
  BY <1>1, <1>2, WFMin
<1>5. \A m \in C!Logs : n <= m
  <2> SUFFICES ASSUME NEW m \in C!Logs PROVE ~(m < n)
    BY <1>2
  <2> QED BY <1>2, <1>3, <1>4
<1>6. (CHOOSE k \in C!Logs : \A m \in C!Logs : k <= m) \in C!Logs
  BY <1>5, Zenon
<1> QED BY <1>2, <1>6

LEMMA CompactPrunes == ASSUME C!CompactInv, C!Prune PROVE C!CompactInv'
<1>1. C!TypeOK /\ C!SwapInOrder /\ C!CopyInOrder
  BY DEF C!CompactInv
<1> DEFINE Backup == [main : C!Files, wal : C!Files]
           n == CHOOSE n \in C!Logs : \A m \in C!Logs : n <= m
           log == [main |-> C!Missing, wal |-> v5[n].wal]
<1>2. /\ v8 = "prune" /\ v8' = "off" /\ v9' = "free" /\ v4' = {}
      /\ v5' = IF C!Logs = {} \/ 1 \in C!Logs THEN <<Head(v5)>> ELSE <<Head(v5), log>>
      /\ UNCHANGED <<v1, v2, v3, v6, v7, v10, v11, v12, v13, v14>>
  BY DEF C!Prune, C!Step, C!counts, C!history, C!NoRows
<1>3. v5 # <<>> /\ v2 = C!Missing
  BY <1>1, <1>2 DEF C!SwapInOrder
<1>4. 1 \in DOMAIN v5 /\ Head(v5) = v5[1] /\ Head(v5) \in Backup
  <2>1. v5 \in Seq(Backup) /\ DOMAIN v5 = 1..Len(v5) /\ Len(v5) \in Nat
    BY <1>1, CompactTypes
  <2>2. 1 \in DOMAIN v5 /\ Head(v5) = v5[1]
    BY <1>3, <2>1, EmptySeq
  <2> QED BY <1>1, <2>2, CompactTypes
<1>5. C!Logs # {} => log \in Backup
  <2>1. C!Logs # {} => v5[n] \in Backup
    BY <1>1, CompactNewestLog, CompactTypes
  <2> QED BY <2>1 DEF C!Files, C!Missing, C!NoRows
<1>6. log.main = C!Missing
  OBVIOUS
<1> HIDE DEF log
<1>7. /\ v5' \in Seq(Backup) /\ Head(v5') = Head(v5)
      /\ \A m \in DOMAIN v5' : v5'[m] = v5[1] \/ v5'[m] = log
  <2>1. CASE C!Logs = {} \/ 1 \in C!Logs
    <3>1. v5' = <<Head(v5)>>
      BY <1>2, <2>1
    <3> HIDE DEF Backup
    <3> QED BY <1>4, <3>1
  <2>2. CASE ~(C!Logs = {} \/ 1 \in C!Logs)
    <3>1. v5' = <<Head(v5), log>> /\ log \in Backup
      BY <1>2, <1>5, <2>2
    <3> HIDE DEF Backup
    <3> QED BY <1>4, <3>1
  <2> QED BY <2>1, <2>2
<1>8. C!TypeOK'
  BY <1>1, <1>2, <1>7 DEF C!TypeOK
<1>9. C!WalBelongs'
  BY <1>2, <1>3, <1>4, <1>6, <1>7 DEF C!CompactInv, C!WalBelongs
<1>10. C!NothingForgotten'
  BY <1>2, <1>7 DEF C!CompactInv, C!NothingForgotten
<1> QED BY <1>1, <1>2, <1>8, <1>9, <1>10 DEF C!CompactInv, C!SwapInOrder, C!CopyInOrder, C!InPlace

LEMMA CompactStep == ASSUME C!CompactInv, [C!Next]_(C!vars) PROVE C!CompactInv'
<1>1. CASE UNCHANGED C!vars
  <2>1. UNCHANGED <<v1, v2, v3, v4, v5, v6, v7, v8, v9, v10, v11, v12, v13, v14>>
    BY <1>1 DEF C!vars, C!staging, C!counts, C!history
  <2> QED BY <2>1 DEF C!CompactInv, C!TypeOK, C!SwapInOrder, C!CopyInOrder, C!NothingForgotten, C!WalBelongs
<1> QED BY <1>1, CompactCommits, CompactCopies, CompactVerifies, CompactCheckpoints, CompactMovesOut,
          CompactMovesWal, CompactMovesIn, CompactGivesUp, CompactRestores, CompactRestoresWal,
          CompactStays, CompactPrunes, Zenon DEF C!Next, C!Compact

-----------------------------------------------------------------------------
(* The daily report: R.                                                    *)

LEMMA ReportTypes ==
  ASSUME R!TypeOK
  PROVE  /\ v1 \in Nat /\ v1 <= ReportNow /\ v10 \in Nat
         /\ v3 \in [R!Script -> R!Stages] /\ v6 \in [R!Script -> {"none", "running", "dead"}]
         /\ v4 \in [R!Script -> 0..ReportNow] /\ v7 \in [R!Script -> 0..ReportNow]
         /\ v5 \in [R!Script -> 0..R!NoAnswer]
         /\ \A s \in R!Script : v4[s] \in Nat /\ v7[s] \in Nat
         /\ v13 \in [start : 0..ReportNow, line : [ok : BOOLEAN, ts : 0..ReportNow], exit : {"none", "0", "2"}]
         /\ v14 \in [{"A", "B"} -> 0..ReportNow]
         /\ v14["A"] \in Nat /\ v14["B"] \in Nat /\ v13.start \in Nat
BY ReportAssumption DEF R!TypeOK

LEMMA ReportCron == R!Range(R!Cron) = {"evening", "watchdog", "relock", "nightly", "backfill"}
<1>1. DOMAIN R!Cron = 1..5
  BY DEF R!Cron
<1>2. /\ R!Cron[1] = "evening" /\ R!Cron[2] = "watchdog" /\ R!Cron[3] = "relock" /\ R!Cron[4] = "nightly"
      /\ R!Cron[5] = "backfill"
  BY DEF R!Cron
<1>3. 1..5 = {1, 2, 3, 4, 5}
  OBVIOUS
<1> QED BY <1>1, <1>2, <1>3 DEF R!Range

LEMMA ReportInit == ASSUME R!Init PROVE R!ReportInv
<1>1. /\ v1 = 0 /\ v10 = 0 /\ v11 = 0 /\ v12 = "none" /\ v8 = {} /\ v9 = "nobody" /\ v2 \in ReportDays
      /\ v3 = [s \in R!Script |-> "idle"] /\ v6 = [s \in R!Script |-> "none"]
      /\ v4 = [s \in R!Script |-> 0] /\ v7 = [s \in R!Script |-> 0] /\ v5 = [s \in R!Script |-> 0]
      /\ v13 = [start |-> 0, line |-> [ok |-> FALSE, ts |-> 0], exit |-> "none"]
      /\ v14 = [p \in {"A", "B"} |-> 0]
  BY DEF R!Init, R!Never, R!NoLine
<1>2. 0 \in 0..ReportNow /\ 0 \in 0..R!NoAnswer
  BY ReportAssumption DEF R!NoAnswer
<1>3. v2 \subseteq R!Range(R!Cron)
  BY <1>1, ReportAssumption, ReportCron
<1>4. "idle" \in R!Stages /\ "backfill" \in R!Script /\ R!Refresh \subseteq R!Script
  BY DEF R!Stages, R!Script
<1>5. v13 \in [start : 0..ReportNow, line : [ok : BOOLEAN, ts : 0..ReportNow], exit : {"none", "0", "2"}]
  BY <1>1, <1>2
<1>6. R!TypeOK
  BY <1>1, <1>2, <1>3, <1>4, <1>5 DEF R!TypeOK
<1>7. R!ClockInOrder
  BY <1>1 DEF R!ClockInOrder
<1>8. R!SyncInOrder /\ R!QuietMeansFresh
  BY <1>1, <1>4 DEF R!SyncInOrder, R!QuietMeansFresh
<1>9. v13.start = 0 /\ v13.exit = "none" /\ v13.line.ok = FALSE
  BY <1>1
<1>10. R!NightInOrder
  BY <1>1, <1>9, Zenon DEF R!NightInOrder, R!Never
<1>11. R!BackfillInOrder /\ R!BackfillReadsTonight
  BY <1>1, <1>4 DEF R!BackfillInOrder, R!BackfillReadsTonight
<1> QED BY <1>6, <1>7, <1>8, <1>10, <1>11 DEF R!ReportInv

\* A script steps on, without a stamp or a promote: what is asked of it is
\* asked of where it has come.
LEMMA ReportSteps ==
  ASSUME R!ReportInv, NEW s \in R!Script, NEW stage \in R!Stages,
         v3' = [v3 EXCEPT ![s] = stage], v8 \subseteq v8', v8' \subseteq v8 \cup {s},
         UNCHANGED <<v1, v4, v6, v10, v12, v13, v14>>,
         v2' \subseteq v2, v9' \in R!Script \cup {"nobody"}, v11' \in 0..ReportNow,
         v5' \in [R!Script -> 0..R!NoAnswer], v7' \in [R!Script -> 0..ReportNow],
         \A o \in R!Script : o # s => v5'[o] = v5[o] /\ v7'[o] = v7[o],
         s \in R!Refresh /\ v5'[s] # R!NoAnswer =>
           /\ stage = "poll" => v10 = v5'[s] \/ v10 >= v4[s]
           /\ stage = "render" /\ s \notin v8' => v10 >= v4[s]
           /\ stage \in {"write", "done"} /\ s \notin v8' => v7'[s] >= v4[s],
         s = "backfill" =>
           /\ stage \in {"idle", "begin", "render", "write", "done"}
           /\ stage = "render" /\ s \notin v8' => R!AfterAPass(v10)
           /\ stage \in {"write", "done"} /\ s \notin v8' /\ v7'[s] # 0 => R!AfterAPass(v7'[s])
  PROVE  R!ReportInv'
<1>1. R!TypeOK
  BY DEF R!ReportInv
<1>2. /\ v3 \in [R!Script -> R!Stages] /\ v3' \in [R!Script -> R!Stages] /\ v3'[s] = stage
      /\ \A o \in R!Script : o # s => v3'[o] = v3[o] /\ (o \in v8' <=> o \in v8)
  BY <1>1, ReportTypes
<1>3. R!TypeOK'
  BY <1>1, <1>2 DEF R!TypeOK
<1>4. R!ClockInOrder'
  BY DEF R!ReportInv, R!ClockInOrder
<1>5. R!SyncInOrder' /\ R!QuietMeansFresh'
  <2> SUFFICES ASSUME NEW o \in R!Refresh, v5'[o] # R!NoAnswer
      PROVE  /\ v3'[o] = "poll" => v10 = v5'[o] \/ v10 >= v4[o]
             /\ v3'[o] = "render" /\ o \notin v8' => v10 >= v4[o]
             /\ v3'[o] \in {"write", "done"} /\ o \notin v8' => v7'[o] >= v4[o]
    BY DEF R!SyncInOrder, R!QuietMeansFresh, R!NoAnswer
  <2>1. o \in R!Script
    BY DEF R!Script
  <2>2. CASE o = s
    BY <1>2, <2>2
  <2>3. CASE o # s
    <3>1. /\ v3[o] = "poll" => v10 = v5[o] \/ v10 >= v4[o]
          /\ v3[o] = "render" /\ o \notin v8 => v10 >= v4[o]
          /\ v3[o] \in {"write", "done"} /\ o \notin v8 => v7[o] >= v4[o]
      BY <2>1, <2>3 DEF R!ReportInv, R!SyncInOrder, R!QuietMeansFresh
    <3> QED BY <1>2, <2>1, <2>3, <3>1
  <2> QED BY <2>2, <2>3
<1>6. R!NightInOrder'
  BY DEF R!ReportInv, R!NightInOrder, R!BothEnded
<1>7. R!BackfillInOrder' /\ R!BackfillReadsTonight'
  <2>1. "backfill" \in R!Script
    BY DEF R!Script
  <2>2. CASE s = "backfill"
    BY <1>2, <2>2 DEF R!BackfillInOrder, R!BackfillReadsTonight, R!AfterAPass, R!Never
  <2>3. CASE s # "backfill"
    BY <1>2, <2>1, <2>3 DEF R!ReportInv, R!BackfillInOrder, R!BackfillReadsTonight, R!AfterAPass
  <2> QED BY <2>2, <2>3
<1> QED BY <1>3, <1>4, <1>5, <1>6, <1>7 DEF R!ReportInv

\* What a promote leaves: every snapshot that was young enough is so still.
LEMMA ReportPromotes ==
  ASSUME R!ReportInv, R!Tick, v10' = v1', v12 \notin {"A", "B"},
         v6' \in [R!Script -> {"none", "running", "dead"}],
         UNCHANGED <<v2, v3, v4, v5, v7, v8, v9, v11, v13, v14>>,
         \/ v12' = v12
         \/ v12 = "gap" /\ v12' = "B"
         \/ v12 = "tail" /\ v12' = "over"
  PROVE  R!ReportInv'
<1>1. R!TypeOK /\ v1 \in Nat /\ v1 <= ReportNow /\ v1 < ReportNow /\ v1' = v1 + 1
  BY ReportTypes DEF R!ReportInv, R!Tick
<1>2. /\ v1' \in 0..ReportNow /\ v10 \in Nat /\ v10' > v10
      /\ \A o \in R!Script : v4[o] \in Nat /\ v10' >= v4[o]
      /\ v10' >= v14["A"] /\ v10' >= v14["B"] /\ v14["A"] \in Nat /\ v14["B"] \in Nat
  BY <1>1, ReportTypes, ReportAssumption DEF R!ReportInv, R!ClockInOrder
<1>3. R!TypeOK'
  BY <1>1, <1>2 DEF R!TypeOK
<1>4. R!ClockInOrder'
  <2>1. \A o \in R!Script : v4[o] <= v1'
    BY <1>1, <1>2
  <2>2. \A p \in {"A", "B"} : v14[p] <= v1'
    BY <1>2
  <2> QED BY <1>1, <2>1, <2>2 DEF R!ClockInOrder
<1>5. R!SyncInOrder'
  BY <1>2 DEF R!ReportInv, R!SyncInOrder, R!Script, R!NoAnswer
<1>6. R!NightInOrder'
  BY <1>2 DEF R!ReportInv, R!NightInOrder, R!BothEnded
<1>7. R!BackfillInOrder'
  <2>1. \A p \in {"A", "B"} : v10' >= v14[p]
    BY <1>2
  <2> QED BY <2>1 DEF R!ReportInv, R!BackfillInOrder, R!AfterAPass
<1> QED BY <1>3, <1>4, <1>5, <1>6, <1>7 DEF R!ReportInv, R!QuietMeansFresh, R!BackfillReadsTonight, R!NoAnswer

\* Cron starts a script, or finds another one at work; the watchdog.
LEMMA ReportStarts ==
  ASSUME R!ReportInv, (\E task \in R!Script : R!CronStarts(task)) \/ R!Watchdog
  PROVE  R!ReportInv'
<1>1. R!TypeOK /\ "begin" \in R!Stages
  BY DEF R!ReportInv, R!Stages
<1>2. ASSUME NEW task \in R!Script, R!CronStarts(task) PROVE R!ReportInv'
  <2>1. v2' \subseteq v2 /\ UNCHANGED <<v1, v4, v5, v6, v7, v8, v10, v11, v12, v13, v14>>
    BY <1>2 DEF R!CronStarts, R!Due, R!night
  <2>2. CASE v9 = "nobody"
    <3>1. v3' = [v3 EXCEPT ![task] = "begin"] /\ v9' = task
      BY <1>2, <2>2 DEF R!CronStarts, R!Goto
    <3> QED BY <1>1, <2>1, <3>1, ReportSteps, ReportTypes DEF R!TypeOK
  <2>3. CASE v9 # "nobody"
    <3>1. UNCHANGED <<v3, v9>>
      BY <1>2, <2>3 DEF R!CronStarts
    <3>2. R!TypeOK'
      BY <1>1, <2>1, <3>1 DEF R!TypeOK
    <3> QED BY <2>1, <3>1, <3>2 DEF R!ReportInv, R!ClockInOrder, R!SyncInOrder, R!NightInOrder, R!BothEnded,
          R!BackfillInOrder, R!AfterAPass, R!QuietMeansFresh, R!BackfillReadsTonight
  <2> QED BY <2>2, <2>3
<1>3. ASSUME R!Watchdog PROVE R!ReportInv'
  <2>1. v2' \subseteq v2 /\ UNCHANGED <<v1, v4, v5, v6, v7, v8, v9, v10, v11, v12, v13, v14>>
    BY <1>3 DEF R!Watchdog, R!Due, R!night
  <2>2. CASE v3' = [v3 EXCEPT !["heal"] = "begin"]
    <3>1. "heal" \in R!Script
      BY DEF R!Script, R!Refresh
    <3> QED BY <1>1, <2>1, <2>2, <3>1, ReportSteps, ReportTypes DEF R!TypeOK
  <2>3. CASE UNCHANGED v3
    <3>1. R!TypeOK'
      BY <1>1, <2>1, <2>3 DEF R!TypeOK
    <3> QED BY <2>1, <2>3, <3>1 DEF R!ReportInv, R!ClockInOrder, R!SyncInOrder, R!NightInOrder, R!BothEnded,
          R!BackfillInOrder, R!AfterAPass, R!QuietMeansFresh, R!BackfillReadsTonight
  <2> QED BY <1>3, <2>2, <2>3 DEF R!Watchdog, R!Goto
<1> QED BY <1>2, <1>3

\* The phases of a sync, which stamp what they land.
LEMMA ReportPhases ==
  ASSUME R!ReportInv, NEW s \in R!Script, R!Phases(s)
  PROVE  R!ReportInv'
<1>1. R!TypeOK /\ "promote" \in R!Stages /\ v3[s] = "phases" /\ v3' = [v3 EXCEPT ![s] = "promote"]
  BY DEF R!ReportInv, R!Stages, R!Phases, R!Goto
<1>2. UNCHANGED <<v2, v5, v6, v7, v8, v9, v10, v11, v12, v13, v14>> /\ s # "backfill"
  BY <1>1 DEF R!Phases, R!night, R!ReportInv, R!BackfillInOrder
<1>3. CASE UNCHANGED <<v1, v4>>
  BY <1>1, <1>2, <1>3, ReportSteps, ReportTypes DEF R!TypeOK
<1>4. CASE R!Tick /\ v4' = [v4 EXCEPT ![s] = v1']
  <2>1. v1 \in Nat /\ v1 < ReportNow /\ v1' = v1 + 1 /\ v1' \in 0..ReportNow /\ v10 \in Nat
    BY <1>1, <1>4, ReportTypes, ReportAssumption DEF R!Tick
  <2>2. /\ v4' \in [R!Script -> 0..ReportNow] /\ v4'[s] = v1' /\ \A o \in R!Script : o # s => v4'[o] = v4[o]
        /\ v3' \in [R!Script -> R!Stages] /\ v3'[s] = "promote" /\ \A o \in R!Script : o # s => v3'[o] = v3[o]
    BY <1>1, <1>4, <2>1, ReportTypes
  <2>3. R!TypeOK'
    BY <1>1, <1>2, <2>1, <2>2 DEF R!TypeOK
  <2>4. R!ClockInOrder'
    <3>1. \A o \in R!Script : v4[o] \in Nat /\ v4[o] <= v1
      BY <1>1, ReportTypes DEF R!ReportInv, R!ClockInOrder
    <3>2. \A o \in R!Script : v4'[o] <= v1'
      BY <2>1, <2>2, <3>1
    <3>3. v14["A"] <= v1' /\ v14["B"] <= v1' /\ v10 <= v1'
      BY <1>1, <2>1, ReportTypes DEF R!ReportInv, R!ClockInOrder
    <3> QED BY <1>2, <3>2, <3>3 DEF R!ClockInOrder
  <2>5. R!SyncInOrder' /\ R!QuietMeansFresh'
    BY <1>2, <2>2 DEF R!ReportInv, R!SyncInOrder, R!QuietMeansFresh, R!Script, R!NoAnswer
  <2>6. R!BackfillInOrder' /\ R!BackfillReadsTonight'
    BY <1>2, <2>2 DEF R!ReportInv, R!BackfillInOrder, R!BackfillReadsTonight, R!AfterAPass, R!Script
  <2> QED BY <1>2, <2>3, <2>4, <2>5, <2>6 DEF R!ReportInv, R!NightInOrder, R!BothEnded
<1> QED BY <1>3, <1>4 DEF R!Phases

\* The probe, the publisher's start, the poll and the render.
LEMMA ReportSyncs ==
  ASSUME R!ReportInv, NEW s \in R!Script,
         \/ R!Probe(s) \/ R!StartPublisher(s) \/ R!Poll(s)
         \/ R!RenderReads(s) \/ R!RenderWrites(s) \/ R!RenderFails(s)
  PROVE  R!ReportInv'
<1>1. /\ R!TypeOK /\ {"phases", "promote", "poll", "render", "write", "done"} \subseteq R!Stages
      /\ v10 \in 0..ReportNow
  BY DEF R!ReportInv, R!Stages, R!TypeOK
<1>2. /\ v3 \in [R!Script -> R!Stages] /\ v4 \in [R!Script -> 0..ReportNow] /\ v7 \in [R!Script -> 0..ReportNow]
      /\ v5 \in [R!Script -> 0..R!NoAnswer] /\ v6 \in [R!Script -> {"none", "running", "dead"}]
      /\ v8 \subseteq R!Script /\ v9 \in R!Script \cup {"nobody"} /\ v11 \in 0..ReportNow
      /\ \A o \in R!Script : v7[o] \in 0..ReportNow
  BY <1>1, ReportTypes DEF R!TypeOK
<1>3. s = "backfill" => v3[s] \in {"idle", "begin", "render", "write", "done"}
  BY DEF R!ReportInv, R!BackfillInOrder
<1>4. s \in R!Refresh /\ v5[s] # R!NoAnswer =>
        /\ v3[s] = "poll" => v10 = v5[s] \/ v10 >= v4[s]
        /\ v3[s] = "render" /\ s \notin v8 => v10 >= v4[s]
        /\ v3[s] = "write" /\ s \notin v8 => v7[s] >= v4[s]
  BY DEF R!ReportInv, R!SyncInOrder
<1>5. s = "backfill" /\ s \notin v8 =>
        /\ v3[s] = "render" => R!AfterAPass(v10)
        /\ v3[s] \in {"write", "done"} /\ v7[s] # 0 => R!AfterAPass(v7[s])
  BY DEF R!ReportInv, R!BackfillInOrder, R!BackfillReadsTonight, R!AfterAPass, R!Never
<1>6. "backfill" \notin R!Refresh /\ s \in R!Refresh \cup {"backfill"}
  BY DEF R!Refresh, R!Script
<1>7. ASSUME R!Probe(s) PROVE R!ReportInv'
  <2>1. /\ s \in R!Refresh
        /\ UNCHANGED <<v1, v2, v4, v5, v6, v7, v9, v10, v11, v12, v13, v14>>
    BY <1>7 DEF R!Probe, R!night
  <2>2. CASE v3' = [v3 EXCEPT ![s] = "phases"] /\ UNCHANGED v8
    BY <1>1, <1>2, <1>6, <2>1, <2>2, ReportSteps
  <2>3. CASE v3' = [v3 EXCEPT ![s] = "render"] /\ v8' = v8 \cup {s}
    BY <1>1, <1>2, <1>6, <2>1, <2>3, ReportSteps
  <2> QED BY <1>7, <2>2, <2>3 DEF R!Probe, R!Goto, R!Alert
<1>8. ASSUME R!Poll(s) PROVE R!ReportInv'
  <2>1. v3' = [v3 EXCEPT ![s] = "render"] /\ v3[s] = "poll" /\ UNCHANGED <<v1, v2, v4, v5, v6, v7, v9, v10, v11, v12, v13, v14>>
    BY <1>8 DEF R!Poll, R!Served, R!Goto, R!night
  <2>2. s # "backfill"
    BY <1>3, <2>1
  <2>3. CASE v10 # v5[s] /\ UNCHANGED v8
    BY <1>1, <1>2, <1>4, <2>1, <2>2, <2>3, ReportSteps
  <2>4. CASE v8' = v8 \cup {s}
    BY <1>1, <1>2, <2>1, <2>2, <2>4, ReportSteps
  <2> QED BY <1>8, <2>3, <2>4 DEF R!Poll, R!Served, R!Alert
<1>9. ASSUME R!RenderReads(s) PROVE R!ReportInv'
  <2>1. /\ v3' = [v3 EXCEPT ![s] = "write"] /\ v3[s] = "render" /\ v7' = [v7 EXCEPT ![s] = v10]
        /\ UNCHANGED <<v1, v2, v4, v5, v6, v8, v9, v10, v11, v12, v13, v14>>
    BY <1>9 DEF R!RenderReads, R!Goto, R!night
  <2>2. v7' \in [R!Script -> 0..ReportNow] /\ v7'[s] = v10 /\ \A o \in R!Script : o # s => v7'[o] = v7[o]
    BY <1>1, <1>2, <2>1
  <2> QED BY <1>1, <1>2, <1>4, <1>5, <2>1, <2>2, ReportSteps
<1>10. ASSUME R!RenderWrites(s) PROVE R!ReportInv'
  <2>1. /\ v3' = [v3 EXCEPT ![s] = "done"] /\ v3[s] = "write" /\ v11' = v7[s] /\ v9' \in {v9, "nobody"}
        /\ UNCHANGED <<v1, v2, v4, v5, v6, v7, v8, v10, v12, v13, v14>>
    BY <1>10 DEF R!RenderWrites, R!Goto, R!Released, R!night
  <2> QED BY <1>1, <1>2, <1>4, <1>5, <2>1, ReportSteps
<1>11. ASSUME R!RenderFails(s) PROVE R!ReportInv'
  <2>1. /\ v3' = [v3 EXCEPT ![s] = "done"] /\ v8' = v8 \cup {s} /\ v9' \in {v9, "nobody"}
        /\ UNCHANGED <<v1, v2, v4, v5, v6, v7, v10, v11, v12, v13, v14>>
    BY <1>11 DEF R!RenderFails, R!Goto, R!Alert, R!Released, R!night
  <2> QED BY <1>1, <1>2, <2>1, ReportSteps
<1>12. ASSUME R!StartPublisher(s) PROVE R!ReportInv'
  <2>1. /\ v3' = [v3 EXCEPT ![s] = "poll"] /\ v3[s] = "promote" /\ v6' = [v6 EXCEPT ![s] = "running"]
        /\ UNCHANGED <<v1, v2, v4, v7, v8, v9, v10, v11, v12, v13, v14>>
    BY <1>12 DEF R!StartPublisher, R!Goto, R!night
  <2>2. PICK id \in {v10, R!NoAnswer} : v5' = [v5 EXCEPT ![s] = id]
    BY <1>12 DEF R!StartPublisher
  <2>3. s # "backfill"
    BY <1>3, <2>1
  <2>4. v5' \in [R!Script -> 0..R!NoAnswer] /\ v5'[s] = id /\ \A o \in R!Script : o # s => v5'[o] = v5[o]
    <3>1. id \in 0..R!NoAnswer
      BY <1>1, ReportAssumption DEF R!NoAnswer
    <3> QED BY <1>2, <2>2, <3>1
  <2>5. /\ v3' \in [R!Script -> R!Stages] /\ v3'[s] = "poll" /\ \A o \in R!Script : o # s => v3'[o] = v3[o]
        /\ v6' \in [R!Script -> {"none", "running", "dead"}]
    BY <1>1, <1>2, <2>1
  <2>6. R!TypeOK'
    BY <1>1, <2>1, <2>4, <2>5 DEF R!TypeOK
  <2>7. R!SyncInOrder'
    BY <2>1, <2>2, <2>4, <2>5 DEF R!ReportInv, R!SyncInOrder, R!Script, R!NoAnswer
  <2>8. R!QuietMeansFresh'
    BY <2>1, <2>4, <2>5 DEF R!ReportInv, R!QuietMeansFresh, R!Script, R!NoAnswer
  <2>9. R!BackfillInOrder' /\ R!BackfillReadsTonight'
    BY <2>1, <2>3, <2>5 DEF R!ReportInv, R!BackfillInOrder, R!BackfillReadsTonight, R!AfterAPass, R!Script
  <2> QED BY <2>1, <2>6, <2>7, <2>8, <2>9 DEF R!ReportInv, R!ClockInOrder, R!NightInOrder, R!BothEnded
<1> QED BY <1>7, <1>8, <1>9, <1>10, <1>11, <1>12

\* The guard of the backfill: what the log says of the passes is true.
LEMMA ReportGuards == ASSUME R!ReportInv, R!Guard PROVE R!ReportInv'
<1>1. R!TypeOK /\ {"render", "done"} \subseteq R!Stages /\ "backfill" \in R!Script /\ "backfill" \notin R!Refresh
  BY DEF R!ReportInv, R!Stages, R!Script, R!Refresh
<1>2. UNCHANGED <<v1, v2, v4, v5, v6, v7, v10, v11, v12, v13, v14>>
  BY DEF R!Guard, R!night
<1>3. /\ v5 \in [R!Script -> 0..R!NoAnswer] /\ v7 \in [R!Script -> 0..ReportNow]
      /\ v9 \in R!Script \cup {"nobody"} /\ v11 \in 0..ReportNow
  BY <1>1, ReportTypes DEF R!TypeOK
<1>4. CASE R!GuardOk /\ v3' = [v3 EXCEPT !["backfill"] = "render"] /\ UNCHANGED <<v8, v9>>
  <2>1. R!AfterAPass(v10)
    <3>1. v13.start # 0 /\ R!Completed /\ v10 >= R!Since
      BY <1>4 DEF R!GuardOk, R!Never
    <3>2. CASE v13.exit = "none"
      <4>1. v13.line.ok /\ v10 >= v13.line.ts
        BY <3>1, <3>2 DEF R!Completed, R!Since
      <4>2. PICK p \in {"A", "B"} : v14[p] # 0 /\ v13.line.ts = v14[p]
        BY <4>1 DEF R!ReportInv, R!NightInOrder, R!Never
      <4> QED BY <4>1, <4>2 DEF R!AfterAPass, R!Never
    <3>3. CASE v13.exit # "none"
      <4>1. v13.exit = "0" /\ v10 >= v13.start
        BY <3>1, <3>3 DEF R!Completed, R!Since
      <4>2. v14["A"] # 0
        BY <4>1 DEF R!ReportInv, R!NightInOrder, R!BothEnded, R!Never
      <4>3. v10 < v13.start \/ v10 >= v14["A"]
        BY <3>1, <4>2 DEF R!ReportInv, R!NightInOrder, R!Never
      <4>4. v10 >= v14["A"]
        BY <1>1, <4>1, <4>3, ReportTypes
      <4> QED BY <4>2, <4>4 DEF R!AfterAPass, R!Never
    <3> QED BY <3>2, <3>3
  <2> QED BY <1>1, <1>2, <1>3, <1>4, <2>1, ReportSteps
<1>5. CASE v3' = [v3 EXCEPT !["backfill"] = "done"] /\ v8' = v8 \cup {"backfill"} /\ v9' \in {v9, "nobody"}
  BY <1>1, <1>2, <1>3, <1>5, ReportSteps
<1> QED BY <1>4, <1>5 DEF R!Guard, R!Goto, R!Alert, R!Released

\* The publisher of a sync and the other promotes.
LEMMA ReportPublishes ==
  ASSUME R!ReportInv, (\E s \in R!Script : R!Publisher(s)) \/ R!OtherPromote
  PROVE  R!ReportInv'
<1>1. R!TypeOK /\ v6 \in [R!Script -> {"none", "running", "dead"}]
  BY ReportTypes DEF R!ReportInv
<1>2. ASSUME NEW s \in R!Script, R!Publisher(s) PROVE R!ReportInv'
  <2>1. v6' = [v6 EXCEPT ![s] = "dead"] /\ UNCHANGED <<v2, v3, v4, v5, v7, v8, v9, v11, v12, v13, v14>>
    BY <1>2 DEF R!Publisher, R!night
  <2>2. v6' \in [R!Script -> {"none", "running", "dead"}]
    BY <1>1, <2>1
  <2>3. CASE ~R!Locked /\ R!Tick /\ v10' = v1'
    BY <2>1, <2>2, <2>3, ReportPromotes DEF R!Locked
  <2>4. CASE UNCHANGED <<v1, v10>>
    <3>1. R!TypeOK'
      BY <1>1, <2>1, <2>2, <2>4 DEF R!TypeOK
    <3> QED BY <2>1, <2>4, <3>1 DEF R!ReportInv, R!ClockInOrder, R!SyncInOrder, R!NightInOrder, R!BothEnded,
          R!BackfillInOrder, R!AfterAPass, R!QuietMeansFresh, R!BackfillReadsTonight
  <2> QED BY <1>2, <2>3, <2>4 DEF R!Publisher
<1>3. ASSUME R!OtherPromote PROVE R!ReportInv'
  <2>1. ~R!Locked /\ R!Tick /\ v10' = v1' /\ UNCHANGED <<v2, v3, v4, v5, v6, v7, v8, v9, v11, v12, v13, v14>>
    BY <1>3 DEF R!OtherPromote, R!others, R!scripts, R!night
  <2> QED BY <1>1, <2>1, ReportPromotes DEF R!Locked
<1> QED BY <1>2, <1>3

\* The nightly starts, and its passes end.
LEMMA ReportNights ==
  ASSUME R!ReportInv, R!NightlyStarts \/ R!PassEnds("A", "gap") \/ R!PassEnds("B", "tail")
  PROVE  R!ReportInv'
<1>1. /\ R!TypeOK /\ v1 \in Nat /\ v10 \in Nat /\ v10 <= v1 /\ v1 <= ReportNow
      /\ v13 \in [start : 0..ReportNow, line : [ok : BOOLEAN, ts : 0..ReportNow], exit : {"none", "0", "2"}]
      /\ v14 \in [{"A", "B"} -> 0..ReportNow] /\ v14["A"] \in Nat /\ v14["B"] \in Nat /\ v13.start \in Nat
      /\ v14["A"] <= v1 /\ v14["B"] <= v1 /\ \A o \in R!Script : v4[o] \in Nat /\ v4[o] <= v1
  BY ReportTypes DEF R!ReportInv, R!ClockInOrder
<1>2. v2' \subseteq v2 /\ UNCHANGED <<v3, v4, v5, v6, v7, v8, v9, v10, v11>>
  BY DEF R!NightlyStarts, R!PassEnds, R!Due, R!others, R!scripts
<1>3. v1' \in 0..ReportNow /\ v1' >= v1 /\ (R!Tick => v1' = v1 + 1 /\ v1 < ReportNow)
  BY <1>1, ReportAssumption DEF R!NightlyStarts, R!PassEnds, R!Tick, R!night
<1>4. ASSUME v12' \in {"none", "A", "gap", "B", "tail", "over", "died"},
             v13' \in [start : 0..ReportNow, line : [ok : BOOLEAN, ts : 0..ReportNow], exit : {"none", "0", "2"}],
             v14' \in [{"A", "B"} -> 0..ReportNow], v14'["A"] <= v1', v14'["B"] <= v1',
             \A p \in {"A", "B"} : v14[p] # 0 => v14'[p] = v14[p],
             R!NightInOrder'
      PROVE  R!ReportInv'
  <2>1. R!TypeOK'
    BY <1>1, <1>2, <1>3, <1>4 DEF R!TypeOK
  <2>2. R!ClockInOrder'
    <3>1. v10 <= v1' /\ \A o \in R!Script : v4[o] <= v1'
      BY <1>1, <1>3
    <3> QED BY <1>2, <1>4, <3>1 DEF R!ClockInOrder
  <2>3. R!SyncInOrder' /\ R!QuietMeansFresh'
    BY <1>2 DEF R!ReportInv, R!SyncInOrder, R!QuietMeansFresh, R!NoAnswer
  <2>5. R!BackfillInOrder'
    <3>1. R!AfterAPass(v10) => R!AfterAPass(v10)'
      BY <1>2, <1>4 DEF R!AfterAPass, R!Never
    <3> QED BY <1>2, <3>1 DEF R!ReportInv, R!BackfillInOrder
  <2>6. R!BackfillReadsTonight'
    BY <1>2, <1>4 DEF R!ReportInv, R!BackfillReadsTonight, R!Never
  <2> QED BY <1>4, <2>1, <2>2, <2>3, <2>5, <2>6 DEF R!ReportInv
<1>5. ASSUME R!NightlyStarts PROVE R!ReportInv'
  <2>1. "nightly" \in v2 /\ "nightly" \notin v2' /\ v12 = "none" /\ v14["A"] = 0 /\ v14["B"] = 0
    BY <1>5 DEF R!NightlyStarts, R!Due, R!ReportInv, R!NightInOrder, R!Never
  <2>2. CASE R!Tick /\ v12' = "A" /\ v13' = [v13 EXCEPT !.start = v1'] /\ UNCHANGED v14
    <3>1. v13' = [start |-> v1', line |-> v13.line, exit |-> v13.exit]
      BY <1>1, <2>2
    <3>2. v13' \in [start : 0..ReportNow, line : [ok : BOOLEAN, ts : 0..ReportNow], exit : {"none", "0", "2"}]
      BY <1>1, <1>3, <3>1
    <3>3. v10 < v13'.start
      BY <1>1, <1>3, <2>2, <3>1
    <3>4. R!NightInOrder'
      BY <1>2, <2>1, <2>2, <3>1, <3>3 DEF R!ReportInv, R!NightInOrder, R!BothEnded, R!Never
    <3>5. v14'["A"] <= v1' /\ v14'["B"] <= v1'
      BY <1>1, <1>3, <2>2
    <3> QED BY <1>1, <1>4, <2>2, <3>2, <3>4, <3>5
  <2>3. CASE UNCHANGED <<v1, v12, v13, v14>>
    <3>1. R!NightInOrder'
      BY <1>2, <2>1, <2>3 DEF R!ReportInv, R!NightInOrder, R!BothEnded
    <3>2. v12 \in {"none", "A", "gap", "B", "tail", "over", "died"}
      BY <1>1 DEF R!TypeOK
    <3> QED BY <1>1, <1>4, <2>3, <3>1, <3>2
  <2> QED BY <1>5, <2>2, <2>3 DEF R!NightlyStarts, R!night
<1>6. ASSUME NEW p \in {"A", "B"}, NEW next \in {"gap", "tail"}, R!PassEnds(p, next),
             p = "A" => next = "gap", p = "B" => next = "tail"
      PROVE  R!ReportInv'
  <2>1. v12 = p /\ v12' = next /\ "nightly" \notin v2 /\ "nightly" \notin v2' /\ v14[p] = 0
    BY <1>2, <1>6 DEF R!PassEnds, R!ReportInv, R!NightInOrder, R!Never
  <2>2. p = "A" => v14["B"] = 0 /\ v10 < v13.start
    BY <2>1 DEF R!ReportInv, R!NightInOrder, R!Never
  <2>3. CASE R!Tick /\ v13' = [v13 EXCEPT !.line = [ok |-> TRUE, ts |-> v1']] /\ v14' = [v14 EXCEPT ![p] = v1']
    <3>1. v13' = [start |-> v13.start, line |-> [ok |-> TRUE, ts |-> v1'], exit |-> v13.exit]
      BY <1>1, <2>3
    <3>2. v13' \in [start : 0..ReportNow, line : [ok : BOOLEAN, ts : 0..ReportNow], exit : {"none", "0", "2"}]
      BY <1>1, <1>3, <3>1
    <3>3. /\ v14' \in [{"A", "B"} -> 0..ReportNow] /\ v14'[p] = v1' /\ v1' # 0
          /\ \A o \in {"A", "B"} : o # p => v14'[o] = v14[o]
      BY <1>1, <1>3, <2>3
    <3>4. v14'["A"] <= v1' /\ v14'["B"] <= v1'
      BY <1>1, <1>3, <3>3
    <3>5. \A o \in {"A", "B"} : v14[o] # 0 => v14'[o] = v14[o]
      BY <2>1, <3>3
    <3>6. R!NightInOrder'
      <4>1. v13'.start = v13.start /\ v13'.exit = v13.exit /\ v13'.line.ts = v1'
        BY <3>1
      <4>2. \E o \in {"A", "B"} : v14'[o] # 0 /\ v13'.line.ts = v14'[o]
        BY <3>3, <4>1
      <4>3. v13.start # 0 /\ v14'["A"] # 0 => v10 < v13.start \/ v10 >= v14'["A"]
        BY <2>2, <3>3 DEF R!ReportInv, R!NightInOrder, R!Never
      <4>4. v13.exit = "0" => v14'["A"] # 0 /\ v14'["B"] # 0
        BY <3>3, <3>5 DEF R!ReportInv, R!NightInOrder, R!BothEnded, R!Never
      <4>5. next = "gap" => v14'["B"] = 0
        BY <1>6, <2>2, <3>3
      <4> QED BY <1>2, <2>1, <4>1, <4>2, <4>3, <4>4, <4>5 DEF R!NightInOrder, R!BothEnded, R!Never
    <3> QED BY <1>4, <2>1, <3>2, <3>3, <3>4, <3>5, <3>6
  <2>4. CASE UNCHANGED <<v1, v13, v14>>
    <3>1. R!NightInOrder'
      BY <1>2, <1>6, <2>1, <2>2, <2>4 DEF R!ReportInv, R!NightInOrder, R!BothEnded, R!Never
    <3> QED BY <1>1, <1>4, <2>1, <2>4, <3>1
  <2> QED BY <1>6, <2>3, <2>4 DEF R!PassEnds
<1> QED BY <1>5, <1>6

\* The promotes of the nightly, its exit line, and its death.
LEMMA ReportTails ==
  ASSUME R!ReportInv, R!Gap \/ R!NightlyEnds \/ R!NightlyDies
  PROVE  R!ReportInv'
<1>1. /\ R!TypeOK
      /\ v13 \in [start : 0..ReportNow, line : [ok : BOOLEAN, ts : 0..ReportNow], exit : {"none", "0", "2"}]
      /\ v6 \in [R!Script -> {"none", "running", "dead"}]
  BY ReportTypes DEF R!ReportInv
<1>2. UNCHANGED <<v2, v3, v4, v5, v6, v7, v8, v9, v11, v14>>
  BY DEF R!Gap, R!NightlyEnds, R!NightlyDies, R!others, R!scripts
<1>3. ASSUME R!Gap PROVE R!ReportInv'
  <2>1. v12 = "gap" /\ v12' = "B" /\ v13' = v13
    BY <1>3 DEF R!Gap
  <2>2. CASE R!Tick /\ v10' = v1'
    <3>1. v12 \notin {"A", "B"}
      BY <2>1
    <3>2. v6' \in [R!Script -> {"none", "running", "dead"}]
      BY <1>1, <1>2
    <3>3. UNCHANGED <<v2, v3, v4, v5, v7, v8, v9, v11, v13, v14>>
      BY <1>2, <2>1
    <3> QED BY <2>1, <2>2, <3>1, <3>2, <3>3, ReportPromotes
  <2>3. CASE UNCHANGED <<v1, v10>>
    <3>1. R!TypeOK'
      BY <1>1, <1>2, <2>1, <2>3 DEF R!TypeOK
    <3> QED BY <1>2, <2>1, <2>3, <3>1 DEF R!ReportInv, R!ClockInOrder, R!SyncInOrder, R!NightInOrder, R!BothEnded,
          R!BackfillInOrder, R!AfterAPass, R!QuietMeansFresh, R!BackfillReadsTonight
  <2> QED BY <1>3, <2>2, <2>3 DEF R!Gap
<1>4. ASSUME R!NightlyEnds PROVE R!ReportInv'
  <2>1. v12 = "tail" /\ v12' = "over"
    BY <1>4 DEF R!NightlyEnds
  <2> DEFINE status == IF R!BothEnded THEN "0" ELSE "2"
  <2>2. v13' = [start |-> v13.start, line |-> v13.line, exit |-> status]
    BY <1>1, <1>4 DEF R!NightlyEnds
  <2>3. /\ v13' \in [start : 0..ReportNow, line : [ok : BOOLEAN, ts : 0..ReportNow], exit : {"none", "0", "2"}]
        /\ v13'.start = v13.start /\ v13'.line = v13.line /\ (v13'.exit = "0" => R!BothEnded)
    BY <1>1, <2>2
  <2>4. /\ v1' \in 0..ReportNow /\ v10' \in 0..ReportNow /\ v10 <= v10' /\ v10' <= v1' /\ v1 <= v1'
        /\ (v10' = v10 \/ v10' = v1') /\ v10 \in Nat /\ v1 \in Nat
    <3>1. v1 \in Nat /\ v10 \in Nat /\ v10 <= v1 /\ v1 \in 0..ReportNow /\ v10 \in 0..ReportNow
      BY <1>1, ReportTypes DEF R!ReportInv, R!ClockInOrder, R!TypeOK
    <3>2. CASE UNCHANGED <<v1, v10>>
      BY <3>1, <3>2
    <3>3. CASE R!Tick /\ v10' = v1'
      BY <3>1, <3>3, ReportAssumption DEF R!Tick
    <3> QED BY <1>4, <3>2, <3>3 DEF R!NightlyEnds
  <2>5. R!TypeOK'
    BY <1>1, <1>2, <2>1, <2>3, <2>4 DEF R!TypeOK
  <2>6. /\ \A o \in R!Script : v4[o] \in Nat /\ v4[o] <= v1
        /\ \A p \in {"A", "B"} : v14[p] \in Nat /\ v14[p] <= v1
    BY <1>1, ReportTypes DEF R!ReportInv, R!ClockInOrder
  <2>7. R!ClockInOrder'
    <3>1. (\A o \in R!Script : v4[o] <= v1') /\ (\A p \in {"A", "B"} : v14[p] <= v1')
      BY <2>4, <2>6
    <3> QED BY <1>2, <2>4, <3>1 DEF R!ClockInOrder
  <2>8. \A k \in Nat : v10 >= k => v10' >= k
    BY <2>4
  <2>9. R!SyncInOrder'
    <3> SUFFICES ASSUME NEW s \in R!Refresh, v5[s] # R!NoAnswer
        PROVE  /\ v3[s] = "poll" => v10' = v5[s] \/ v10' >= v4[s]
               /\ v3[s] = "render" /\ s \notin v8 => v10' >= v4[s]
               /\ v3[s] = "write" /\ s \notin v8 => v7[s] >= v4[s]
      BY <1>2 DEF R!SyncInOrder, R!NoAnswer
    <3>1. s \in R!Script
      BY DEF R!Script
    <3>2. v10' = v10 \/ v10' >= v4[s]
      BY <2>4, <2>6, <3>1
    <3> QED BY <2>6, <2>8, <3>1, <3>2 DEF R!ReportInv, R!SyncInOrder
  <2>10. R!NightInOrder'
    <3>1. v10' = v10 \/ v10' >= v14["A"]
      BY <2>4, <2>6
    <3> QED BY <1>2, <2>1, <2>3, <3>1 DEF R!ReportInv, R!NightInOrder, R!BothEnded
  <2>11. R!BackfillInOrder'
    BY <1>2, <2>6, <2>8 DEF R!ReportInv, R!BackfillInOrder, R!AfterAPass
  <2> QED BY <1>2, <2>5, <2>7, <2>9, <2>10, <2>11 DEF R!ReportInv, R!QuietMeansFresh, R!BackfillReadsTonight, R!NoAnswer
<1>5. ASSUME R!NightlyDies PROVE R!ReportInv'
  <2>1. v12 \in {"A", "gap", "B", "tail"} /\ v12' = "died" /\ UNCHANGED <<v1, v10, v13>>
    BY <1>5 DEF R!NightlyDies
  <2>2. R!TypeOK'
    BY <1>1, <1>2, <2>1 DEF R!TypeOK
  <2> QED BY <1>2, <2>1, <2>2 DEF R!ReportInv, R!ClockInOrder, R!SyncInOrder, R!NightInOrder, R!BothEnded,
        R!BackfillInOrder, R!AfterAPass, R!QuietMeansFresh, R!BackfillReadsTonight
<1> QED BY <1>3, <1>4, <1>5

LEMMA ReportStep == ASSUME R!ReportInv, [R!Next]_(R!vars) PROVE R!ReportInv'
<1>1. CASE UNCHANGED R!vars
  <2>1. UNCHANGED <<v1, v2, v3, v4, v5, v6, v7, v8, v9, v10, v11, v12, v13, v14>>
    BY <1>1 DEF R!vars, R!scripts, R!night
  <2> QED BY <2>1 DEF R!ReportInv, R!TypeOK, R!ClockInOrder, R!SyncInOrder, R!NightInOrder, R!BothEnded,
        R!BackfillInOrder, R!AfterAPass, R!QuietMeansFresh, R!BackfillReadsTonight
<1> QED BY <1>1, ReportStarts, ReportPhases, ReportSyncs, ReportGuards, ReportPublishes, ReportNights,
          ReportTails, Zenon DEF R!Next

-----------------------------------------------------------------------------
(* The read API: Q.                                                        *)

\* Places that can be read, and the request nobody made.
LEMMA ReadPlaces ==
  ASSUME Q!TypeOK
  PROVE  /\ \A c \in Q!Colour : Q!Md(c) \in Q!Place /\ Q!Md(c).md /\ Q!Md(c).colour = c
         /\ \A n \in 0..v7 : Q!Local(n) \in Q!Place /\ ~Q!Local(n).md /\ Q!Local(n).snap = n
         /\ v5 \in 0..v7 /\ v7 \in Nat /\ v8 \in Q!Colour
         /\ \A route : Q!Serving(route) \in Q!Place /\ Q!Serving(route).md = Q!OnMd(route)
         /\ \A route : Q!Serving(route) = IF Q!OnMd(route) THEN Q!Md(v8) ELSE Q!Local(v5)
         /\ \A known \in [md : 0..v7, local : 0..v7] :
              [Q!Unasked EXCEPT !.seen = known] \in Q!Request
<1>1. v7 \in Nat /\ v5 \in 0..v7 /\ v8 \in Q!Colour
  BY ReadAssumption DEF Q!TypeOK
<1>2. \A c \in Q!Colour : Q!Md(c) \in Q!Place /\ Q!Md(c).md /\ Q!Md(c).colour = c
  BY <1>1 DEF Q!Md, Q!Place
<1>3. \A n \in 0..v7 : Q!Local(n) \in Q!Place /\ ~Q!Local(n).md /\ Q!Local(n).snap = n
  BY <1>1 DEF Q!Local, Q!Place, Q!Colour
<1>4. \A route : Q!Serving(route) = IF Q!OnMd(route) THEN Q!Md(v8) ELSE Q!Local(v5)
  BY Zenon DEF Q!Serving
<1>5. \A route : Q!Serving(route) \in Q!Place /\ Q!Serving(route).md = Q!OnMd(route)
  <2> TAKE route
  <2>1. Q!OnMd(route) \in BOOLEAN
    BY DEF Q!OnMd
  <2>2. CASE Q!OnMd(route)
    <3>1. Q!Serving(route) = Q!Md(v8) /\ Q!Md(v8).md = TRUE /\ Q!OnMd(route) = TRUE
      BY <1>4, <2>1, <2>2 DEF Q!Md
    <3> QED BY <1>1, <1>2, <3>1, Zenon
  <2>3. CASE ~Q!OnMd(route)
    <3>1. Q!Serving(route) = Q!Local(v5) /\ Q!Local(v5).md = FALSE /\ Q!OnMd(route) = FALSE
      BY <1>4, <2>1, <2>3 DEF Q!Local
    <3> QED BY <1>1, <1>3, <3>1, Zenon
  <2> QED BY <2>2, <2>3
<1>6. ASSUME NEW known \in [md : 0..v7, local : 0..v7], NEW r, r = [Q!Unasked EXCEPT !.seen = known]
      PROVE  r \in Q!Request
  <2>1. Q!Nowhere \in Q!Place
    BY <1>1, <1>3 DEF Q!Nowhere
  <2>2. r = [at |-> "idle", kind |-> "query", label |-> Q!Nowhere, source |-> Q!Nowhere, got |-> 0,
             all |-> TRUE, truncated |-> FALSE, moved |-> FALSE, before |-> 0, seen |-> known]
    BY <1>6 DEF Q!Unasked
  <2>3. "query" \in Q!Kind /\ 0 \in 0..v7
    BY <1>1 DEF Q!Kind
  <2> QED BY <2>1, <2>2, <2>3 DEF Q!Request
<1> QED BY <1>1, <1>2, <1>3, <1>4, <1>5, <1>6

LEMMA ReadInit == ASSUME Q!Init PROVE Q!ReadInv
<1>1. /\ v5 \in {0, 1} /\ v6 = {1} /\ v7 = 1 /\ v8 = "a" /\ v9 = [c \in Q!Colour |-> 1]
      /\ v10 = [colour |-> "none", from |-> 0] /\ v11 = Q!Unasked /\ v12 = FALSE /\ v13 = 0
      /\ v1 \in {"local", "md"} /\ v2 \in BOOLEAN /\ (v2 => v1 = "md") /\ v3 = "down" /\ v4 = FALSE
  BY DEF Q!Init
<1>2. Q!Nowhere \in Q!Place /\ ~Q!Nowhere.md
  BY <1>1 DEF Q!Nowhere, Q!Local, Q!Place, Q!Colour
<1>3. v11 \in Q!Request
  BY <1>1, <1>2 DEF Q!Unasked, Q!Request, Q!Kind
<1>4. Q!TypeOK
  <2>1. v11.kind = "query"
    BY <1>1 DEF Q!Unasked
  <2>2. /\ v9 \in [Q!Colour -> 0..1] /\ v10 \in [colour : Q!Colour \cup {"none"}, from : 0..1]
        /\ v10.colour \notin Q!Colour /\ v8 \in Q!Colour
    BY <1>1 DEF Q!Colour
  <2>3. v5 \in {0} \cup v6 /\ v6 \subseteq 1..v7 /\ v7 \in 0..ReadSnapshots /\ v13 \in 0..ReadFaults
    BY <1>1, ReadAssumption
  <2> QED BY <1>1, <1>3, <2>1, <2>2, <2>3 DEF Q!TypeOK
<1> QED BY <1>1, <1>4 DEF Q!ReadInv, Q!ServedInOrder, Q!AboutServed, Q!NothingNewer, Q!WritesToMd,
          Q!AnswersAreTraceable, Q!AnswersAreWhole, Q!ServesReadOnly, Q!Answered, Q!Colour, Q!Unasked

LEMMA ReadFaultsCounted ==
  ASSUME Q!TypeOK, NEW fault, Q!Counts(fault)
  PROVE  v13' \in 0..ReadFaults
BY ReadAssumption DEF Q!TypeOK, Q!Counts

\* The server comes up, or does not.
LEMMA ReadServer == ASSUME Q!ReadInv, Q!Start \/ Q!Restart PROVE Q!ReadInv'
<1>1. Q!TypeOK /\ Q!WritesToMd
  BY DEF Q!ReadInv
<1>2. CASE Q!Start
  <2>1. PICK trouble \in {"none", "open", "probe"} :
          /\ v13' \in 0..ReadFaults
          /\ v3' = IF ~Q!ReadOnly(trouble) /\ v5 # 0 THEN "refused" ELSE "up"
          /\ v4' = (trouble = "probe" \/ v5 = 0)
    BY <1>1, <1>2, ReadFaultsCounted DEF Q!Start
  <2>2. UNCHANGED <<v1, v2, v5, v6, v7, v8, v9, v10, v11, v12>>
    BY <1>2 DEF Q!Start, Q!served
  <2>3. Q!TypeOK'
    BY <1>1, <2>1, <2>2 DEF Q!TypeOK, Q!Request, Q!Place
  <2>4. Q!ServesReadOnly'
    BY <1>1, <2>1, <2>2 DEF Q!ServesReadOnly, Q!ReadOnly, Q!WritesToMd
  <2> QED BY <2>2, <2>3, <2>4 DEF Q!ReadInv, Q!ServedInOrder, Q!AboutServed, Q!NothingNewer, Q!WritesToMd,
          Q!AnswersAreTraceable, Q!AnswersAreWhole, Q!Answered, Q!Serving, Q!OnMd
<1>3. CASE Q!Restart
  <2>1. /\ v13' \in 0..ReadFaults /\ v3' = "down" /\ v4' = FALSE
        /\ v11' = [Q!Unasked EXCEPT !.seen = v11.seen]
        /\ UNCHANGED <<v1, v2, v5, v6, v7, v8, v9, v10, v12>>
    BY <1>1, <1>3, ReadFaultsCounted DEF Q!Restart, Q!served
  <2>2. v11.seen \in [md : 0..v7, local : 0..v7]
    BY <1>1 DEF Q!TypeOK, Q!Request
  <2>3. v11' \in Q!Request
    BY <1>1, <2>1, <2>2, ReadPlaces
  <2>4. v11'.at = "idle" /\ v11'.kind = "query" /\ v11'.seen = v11.seen
    BY <2>1 DEF Q!Unasked
  <2>5. Q!TypeOK'
    <3>1. Q!Request' = Q!Request
      BY <2>1 DEF Q!Request, Q!Place
    <3> QED BY <1>1, <2>1, <2>3, <2>4, <3>1 DEF Q!TypeOK
  <2> QED BY <2>1, <2>4, <2>5 DEF Q!ReadInv, Q!ServedInOrder, Q!AboutServed, Q!NothingNewer, Q!WritesToMd,
          Q!AnswersAreTraceable, Q!AnswersAreWhole, Q!ServesReadOnly, Q!Answered
<1> QED BY <1>2, <1>3

\* A request is made, of what is served.
LEMMA ReadCaptures == ASSUME Q!ReadInv, NEW route \in Q!Kind, Q!Capture(route) PROVE Q!ReadInv'
<1>1. Q!TypeOK
  BY DEF Q!ReadInv
<1>2. UNCHANGED <<v1, v2, v3, v4, v5, v6, v7, v8, v9, v10, v12, v13>>
  BY DEF Q!Capture, Q!Requests, Q!served
<1>3. PICK at \in {"refused", "connect"} :
        v11' = [Q!Unasked EXCEPT !.at = at, !.kind = route, !.label = Q!Serving(route), !.seen = v11.seen]
  BY DEF Q!Capture
<1>4. /\ v11'.at = at /\ v11'.kind = route /\ v11'.label = Q!Serving(route) /\ v11'.seen = v11.seen
      /\ v11'.source = Q!Nowhere /\ v11'.moved = FALSE
  BY <1>3 DEF Q!Unasked
<1>5. /\ Q!Serving(route) \in Q!Place /\ Q!Serving(route).md = Q!OnMd(route) /\ v7 \in Nat /\ v5 \in 0..v7
      /\ Q!Nowhere \in Q!Place /\ ~Q!Nowhere.md /\ Q!Local(v5).snap = v5
      /\ ~Q!OnMd(route) => Q!Serving(route) = Q!Local(v5)
  <2>1. 0 \in 0..v7 /\ v5 \in 0..v7
    BY <1>1, ReadPlaces
  <2> QED BY <1>1, <2>1, ReadPlaces DEF Q!Nowhere
<1>6. v11' \in Q!Request
  <2>1. v11.seen \in [md : 0..v7, local : 0..v7]
    BY <1>1 DEF Q!TypeOK, Q!Request
  <2>2. v11' =
           [at |-> at, kind |-> route, label |-> Q!Serving(route), source |-> Q!Nowhere, got |-> 0, all |-> TRUE,
            truncated |-> FALSE, moved |-> FALSE, before |-> 0, seen |-> v11.seen]
    BY <1>3 DEF Q!Unasked
  <2> QED BY <1>5, <2>1, <2>2 DEF Q!Request
<1>7. Q!TypeOK'
  <2>1. route = "federated" => ~Q!OnMd(route)
    BY DEF Q!OnMd
  <2> QED BY <1>1, <1>2, <1>4, <1>5, <1>6, <2>1 DEF Q!TypeOK, Q!Request, Q!Place
<1>8. Q!Serving(route)' = Q!Serving(route)
  BY <1>2 DEF Q!Serving, Q!OnMd
<1>9. Q!AboutServed'
  BY <1>4, <1>8 DEF Q!AboutServed
<1>10. Q!ServedInOrder'
  BY <1>2, <1>4 DEF Q!ReadInv, Q!ServedInOrder
<1>11. Q!NothingNewer'
  <2>1. ~v11'.label.md => v11'.label.snap <= v5
    BY <1>4, <1>5
  <2> QED BY <1>2, <1>4, <2>1 DEF Q!NothingNewer
<1> QED BY <1>2, <1>4, <1>7, <1>9, <1>10, <1>11 DEF Q!ReadInv, Q!WritesToMd,
          Q!AnswersAreTraceable, Q!AnswersAreWhole, Q!ServesReadOnly, Q!Answered

\* It is connected to what was captured, or to the colour of the moment.
LEMMA ReadConnects == ASSUME Q!ReadInv, Q!Connect PROVE Q!ReadInv'
<1>1. Q!TypeOK /\ v11 \in Q!Request /\ v11.at = "connect"
  BY DEF Q!ReadInv, Q!TypeOK, Q!Connect
<1>2. UNCHANGED <<v1, v2, v3, v4, v5, v6, v7, v8, v9, v10, v12, v13>>
  BY DEF Q!Connect, Q!Requests, Q!served
<1> DEFINE place == IF v11.kind = "schema" /\ v1 = "md" THEN Q!Md(v8) ELSE v11.label
<1>3. \/ v11' = [v11 EXCEPT !.at = "refused"]
      \/ /\ place.md \/ place.snap \in v6
         /\ v11' = [v11 EXCEPT !.at = "execute", !.source = place, !.before = v11.seen[Q!Route(place)]]
  BY DEF Q!Connect
<1>4. /\ place \in Q!Place /\ Q!Route(place) \in {"md", "local"} /\ v11.seen \in [md : 0..v7, local : 0..v7]
      /\ v7 \in Nat /\ v5 \in 0..v7 /\ Q!Md(v8).md
  BY <1>1, ReadPlaces DEF Q!Request, Q!Route
<1>5. ~v11.moved => place = Q!Serving(v11.kind)
  BY <1>1, ReadPlaces DEF Q!ReadInv, Q!AboutServed, Q!OnMd
<1>6. v11.kind = "federated" => ~place.md
  BY <1>1 DEF Q!TypeOK
<1>7. v11.kind # "schema" => place = v11.label
  OBVIOUS
<1>8. ~v12 /\ ~place.md => place.snap <= v5
  BY <1>1, <1>4 DEF Q!ReadInv, Q!NothingNewer
<1>9. \A n \in v6 : n # 0
  BY <1>1 DEF Q!TypeOK
<1> HIDE DEF place
<1>10. CASE v11' = [v11 EXCEPT !.at = "refused"]
  <2>1. /\ v11' \in Q!Request /\ v11'.at = "refused" /\ v11'.seen = v11.seen /\ v11'.kind = v11.kind
        /\ v11'.label = v11.label /\ v11'.source = v11.source
    BY <1>1, <1>10 DEF Q!Request
  <2>2. Q!TypeOK'
    BY <1>1, <1>2, <2>1 DEF Q!TypeOK, Q!Request, Q!Place
  <2> QED BY <1>2, <2>1, <2>2 DEF Q!ReadInv, Q!ServedInOrder, Q!AboutServed, Q!NothingNewer, Q!WritesToMd,
          Q!AnswersAreTraceable, Q!AnswersAreWhole, Q!ServesReadOnly, Q!Answered
<1>11. CASE /\ place.md \/ place.snap \in v6
            /\ v11' = [v11 EXCEPT !.at = "execute", !.source = place, !.before = v11.seen[Q!Route(place)]]
  <2>1. /\ v11' \in Q!Request /\ v11'.at = "execute" /\ v11'.seen = v11.seen /\ v11'.kind = v11.kind
        /\ v11'.label = v11.label /\ v11'.source = place /\ v11'.moved = v11.moved
        /\ v11'.before = v11.seen[Q!Route(place)] /\ v11'.before \in 0..v7
    BY <1>1, <1>4, <1>11 DEF Q!Request
  <2>2. Q!TypeOK'
    BY <1>1, <1>2, <1>6, <2>1 DEF Q!TypeOK, Q!Request, Q!Place
  <2>3. Q!AboutServed'
    BY <1>2, <1>5, <1>7, <2>1 DEF Q!AboutServed, Q!Serving, Q!OnMd
  <2>4. Q!NothingNewer'
    <3>1. v11'.before <= v11'.seen[Q!Route(v11'.source)]
      BY <2>1, <1>4
    <3> QED BY <1>2, <1>8, <1>9, <1>11, <2>1, <3>1 DEF Q!NothingNewer, Q!Route
  <2>5. Q!ServedInOrder'
    BY <1>2, <2>1 DEF Q!ReadInv, Q!ServedInOrder
  <2> QED BY <1>2, <2>1, <2>2, <2>3, <2>4, <2>5 DEF Q!ReadInv, Q!WritesToMd,
          Q!AnswersAreTraceable, Q!AnswersAreWhole, Q!ServesReadOnly, Q!Answered
<1> QED BY <1>3, <1>10, <1>11

\* An error ends the request; its rows are fetched.
LEMMA ReadExecutes == ASSUME Q!ReadInv, Q!Fails \/ Q!Execute PROVE Q!ReadInv'
<1>1. Q!TypeOK /\ v11 \in Q!Request
  BY DEF Q!ReadInv, Q!TypeOK
<1>2. UNCHANGED <<v1, v2, v3, v4, v5, v6, v7, v8, v9, v10, v12>>
  BY DEF Q!Fails, Q!Execute, Q!Requests, Q!served
<1>3. v13' \in 0..ReadFaults
  BY <1>1, ReadFaultsCounted DEF Q!Fails, Q!Execute, Q!TypeOK
<1>4. CASE Q!Fails
  <2>1. /\ v11' \in Q!Request /\ v11'.at = "refused" /\ v11'.seen = v11.seen /\ v11'.kind = v11.kind
        /\ v11'.label = v11.label /\ v11'.source = v11.source
    BY <1>1, <1>4 DEF Q!Fails, Q!Request
  <2>2. Q!TypeOK'
    BY <1>1, <1>2, <1>3, <2>1 DEF Q!TypeOK, Q!Request, Q!Place
  <2> QED BY <1>2, <2>1, <2>2 DEF Q!ReadInv, Q!ServedInOrder, Q!AboutServed, Q!NothingNewer, Q!WritesToMd,
          Q!AnswersAreTraceable, Q!AnswersAreWhole, Q!ServesReadOnly, Q!Answered
<1>5. CASE Q!Execute
  <2>1. PICK over \in BOOLEAN :
          v11' = [v11 EXCEPT !.at = "answer", !.got = Q!Held(v11.source), !.all = ~over, !.truncated = over]
    <3>1. \E n \in {ReadCap, ReadCap + 1} :
            v11' = [v11 EXCEPT !.at = "answer", !.got = Q!Held(v11.source),
                               !.all = ~(n > ReadCap /\ v11.kind # "schema"),
                               !.truncated = n > ReadCap /\ v11.kind # "schema"]
      BY <1>5 DEF Q!Execute
    <3> QED BY <3>1
  <2>2. v11.source \in Q!Place /\ Q!Held(v11.source) \in 0..v7 /\ v11.at = "execute"
    BY <1>1, <1>5 DEF Q!Execute, Q!Held, Q!Request, Q!Place, Q!TypeOK
  <2>3. /\ v11' \in Q!Request /\ v11'.at = "answer" /\ v11'.seen = v11.seen /\ v11'.kind = v11.kind
        /\ v11'.label = v11.label /\ v11'.source = v11.source /\ v11'.moved = v11.moved
        /\ v11'.before = v11.before /\ v11'.got = Q!Held(v11.source) /\ (v11'.all \/ v11'.truncated)
    BY <1>1, <2>1, <2>2 DEF Q!Request
  <2>4. Q!TypeOK'
    BY <1>1, <1>2, <1>3, <2>3 DEF Q!TypeOK, Q!Request, Q!Place
  <2>5. Q!AboutServed'
    BY <1>2, <2>2, <2>3 DEF Q!ReadInv, Q!AboutServed, Q!Serving, Q!OnMd
  <2>6. Q!NothingNewer'
    <3> SUFFICES ASSUME ~v12 PROVE Q!NothingNewer'
      BY <1>2 DEF Q!NothingNewer
    <3>1. /\ ~v11.source.md => v11.source.snap <= v5 /\ v11.source.snap # 0
          /\ v11.before <= v11.seen[Q!Route(v11.source)]
      BY <2>2 DEF Q!ReadInv, Q!NothingNewer
    <3>2. /\ v9[v8] # 0 /\ \A c \in Q!Colour : v9[c] <= v9[v8]
          /\ v11.seen.md <= v9[v8] /\ v11.seen.local <= v5
      BY DEF Q!ReadInv, Q!ServedInOrder
    <3>3. /\ v11.seen.md \in Nat /\ v11.seen.local \in Nat /\ v11.before \in Nat /\ v5 \in Nat
          /\ v9[v8] \in Nat /\ v8 \in Q!Colour /\ v11.source.colour \in Q!Colour /\ v11.source.snap \in Nat
          /\ v11.source.md \in BOOLEAN
      BY <1>1, <2>2, ReadPlaces DEF Q!TypeOK, Q!Request, Q!Place
    <3>4. v11'.got <= IF v11.source.md THEN v9[v8] ELSE v5
      BY <2>3, <3>1, <3>2, <3>3 DEF Q!Held
    <3>5. ~v11.moved => v11'.got = IF v11.source.md THEN v9[v8] ELSE v5
      <4> SUFFICES ASSUME ~v11.moved PROVE v11'.got = IF v11.source.md THEN v9[v8] ELSE v5
        OBVIOUS
      <4>1. v11.source = Q!Serving(v11.kind)
        BY <2>2 DEF Q!ReadInv, Q!AboutServed
      <4>2. v11.source = IF v11.source.md THEN Q!Md(v8) ELSE Q!Local(v5)
        BY <1>1, <4>1, ReadPlaces
      <4>3. Q!Md(v8).colour = v8 /\ Q!Local(v5).snap = v5
        BY DEF Q!Md, Q!Local
      <4> QED BY <2>3, <4>2, <4>3, <3>3 DEF Q!Held
    <3>6. ~v11.moved => v11'.got # 0 /\ v11'.got >= v11.before
      <4> SUFFICES ASSUME ~v11.moved PROVE v11'.got # 0 /\ v11'.got >= v11.before
        OBVIOUS
      <4>1. CASE v11.source.md
        BY <3>1, <3>2, <3>3, <3>5, <4>1 DEF Q!Route
      <4>2. CASE ~v11.source.md
        <5>1. v11'.got = v5 /\ v11'.got = v11.source.snap
          BY <2>3, <3>5, <4>2 DEF Q!Held
        <5>2. v11.before <= v11.seen.local
          BY <3>1, <4>2 DEF Q!Route
        <5> QED BY <3>1, <3>2, <3>3, <4>2, <5>1, <5>2
      <4> QED BY <4>1, <4>2, <3>3
    <3>7. v11'.before <= v11'.seen[Q!Route(v11'.source)]
      BY <2>3, <3>1
    <3> QED BY <1>2, <2>3, <3>1, <3>4, <3>6, <3>7 DEF Q!NothingNewer, Q!Route
  <2>7. Q!ServedInOrder'
    BY <1>2, <2>3 DEF Q!ReadInv, Q!ServedInOrder
  <2> QED BY <1>2, <2>3, <2>4, <2>5, <2>6, <2>7 DEF Q!ReadInv, Q!WritesToMd,
          Q!AnswersAreTraceable, Q!AnswersAreWhole, Q!ServesReadOnly, Q!Answered
<1> QED BY <1>4, <1>5

\* The answer, with its name.
LEMMA ReadAnswers == ASSUME Q!ReadInv, Q!Answer PROVE Q!ReadInv'
<1>1. Q!TypeOK /\ v11 \in Q!Request /\ v11.at = "answer" /\ v7 \in Nat
  BY ReadPlaces DEF Q!ReadInv, Q!TypeOK, Q!Answer
<1>2. UNCHANGED <<v1, v2, v3, v4, v5, v6, v7, v8, v9, v10, v12, v13>>
  BY DEF Q!Answer, Q!Requests, Q!served
<1> DEFINE label == IF v11.kind = "schema" THEN Q!Serving("schema") ELSE v11.label
           known == [v11.seen EXCEPT ![Q!Route(v11.source)] = v11.got]
<1>3. v11' = [v11 EXCEPT !.at = "answered", !.label = label, !.seen = known]
  BY <1>1 DEF Q!Answer, Q!Request
<1>4. /\ label \in Q!Place /\ (v11.kind # "schema" => label = v11.label)
      /\ v11.kind = "schema" => label = Q!Serving(v11.kind)
  BY <1>1, ReadPlaces DEF Q!Request
<1>5. /\ known \in [md : 0..v7, local : 0..v7]
      /\ known.md = IF v11.source.md THEN v11.got ELSE v11.seen.md
      /\ known.local = IF v11.source.md THEN v11.seen.local ELSE v11.got
  <2>1. v11.seen \in [md : 0..v7, local : 0..v7] /\ v11.got \in 0..v7
    BY <1>1 DEF Q!Request
  <2> QED BY <2>1 DEF Q!Route
<1> HIDE DEF label, known
<1>6. /\ v11' \in Q!Request /\ v11'.at = "answered" /\ v11'.seen = known /\ v11'.kind = v11.kind
      /\ v11'.label = label /\ v11'.source = v11.source /\ v11'.moved = v11.moved
      /\ v11'.before = v11.before /\ v11'.got = v11.got /\ v11'.all = v11.all /\ v11'.truncated = v11.truncated
  BY <1>1, <1>3, <1>4, <1>5 DEF Q!Request
<1>7. Q!TypeOK'
  BY <1>1, <1>2, <1>4, <1>6 DEF Q!TypeOK, Q!Request, Q!Place
<1>8. Q!AboutServed' /\ Q!AnswersAreTraceable'
  BY <1>1, <1>4, <1>6 DEF Q!ReadInv, Q!AboutServed, Q!AnswersAreTraceable, Q!Answered
<1>9. Q!AnswersAreWhole'
  BY <1>1, <1>2, <1>6 DEF Q!ReadInv, Q!AboutServed, Q!NothingNewer, Q!AnswersAreWhole, Q!Answered
<1>10. Q!NothingNewer'
  BY <1>6 DEF Q!NothingNewer
<1>11. Q!ServedInOrder'
  <2> SUFFICES ASSUME ~v12 PROVE Q!ServedInOrder'
    BY <1>2 DEF Q!ServedInOrder
  <2>1. v11.got <= IF v11.source.md THEN v9[v8] ELSE v5
    BY <1>1 DEF Q!ReadInv, Q!NothingNewer
  <2> QED BY <1>2, <1>5, <1>6, <2>1 DEF Q!ReadInv, Q!ServedInOrder
<1> QED BY <1>2, <1>7, <1>8, <1>9, <1>10, <1>11 DEF Q!ReadInv, Q!WritesToMd, Q!ServesReadOnly

\* What goes on beside the server is noted in a request that is under way.
LEMMA ReadMoves ==
  ASSUME Q!TypeOK, Q!Moves
  PROVE  /\ v11'.at = v11.at /\ v11'.kind = v11.kind /\ v11'.label = v11.label /\ v11'.source = v11.source
         /\ v11'.got = v11.got /\ v11'.all = v11.all /\ v11'.truncated = v11.truncated
         /\ v11'.before = v11.before /\ v11'.seen = v11.seen
         /\ v11'.moved = (v11.moved \/ v11.at \in {"connect", "execute", "answer"})
         /\ v11' \in Q!Request
<1>1. v11 \in Q!Request
  BY DEF Q!TypeOK
<1> QED BY <1>1 DEF Q!Moves, Q!Request

\* More snapshots make more places.
LEMMA ReadGrows ==
  ASSUME Q!TypeOK, v7' = v7 + 1, v11' \in Q!Request
  PROVE  v11' \in Q!Request'
<1>1. v7 \in Nat
  BY ReadPlaces
<1>2. 0..v7 \subseteq 0..v7'
  BY <1>1
<1>3. Q!Place \subseteq Q!Place'
  BY <1>2 DEF Q!Place, Q!Colour
<1> QED BY <1>2, <1>3 DEF Q!Request, Q!Kind

LEMMA ReadPromotes == ASSUME Q!ReadInv, Q!Promote PROVE Q!ReadInv'
<1>1. Q!TypeOK /\ v11 \in Q!Request /\ v7 \in Nat /\ v5 \in 0..v7
  BY ReadPlaces DEF Q!ReadInv, Q!TypeOK
<1>2. /\ v7 < ReadSnapshots /\ v7' = v7 + 1 /\ v5' = v7 + 1 /\ v6' \subseteq v6 \cup {v7 + 1} /\ v7 + 1 \in v6'
      /\ UNCHANGED <<v1, v2, v3, v4, v8, v9, v10, v12, v13>>
  BY DEF Q!Promote, Q!Beside
<1>3. /\ v11'.at = v11.at /\ v11'.kind = v11.kind /\ v11'.label = v11.label /\ v11'.source = v11.source
      /\ v11'.got = v11.got /\ v11'.all = v11.all /\ v11'.truncated = v11.truncated
      /\ v11'.before = v11.before /\ v11'.seen = v11.seen
      /\ v11'.moved = (v11.moved \/ v11.at \in {"connect", "execute", "answer"})
      /\ v11' \in Q!Request /\ v11' \in Q!Request'
  BY <1>1, <1>2, ReadMoves, ReadGrows DEF Q!Promote
<1>4. Q!TypeOK'
  <2>1. v6' \subseteq 1..v7' /\ v7' \in 0..ReadSnapshots /\ 0..v7 \subseteq 0..v7'
    BY <1>1, <1>2, ReadAssumption DEF Q!TypeOK
  <2>2. v9' \in [Q!Colour -> 0..v7'] /\ v10' \in [colour : Q!Colour \cup {"none"}, from : 0..v7']
    BY <1>1, <1>2, <2>1 DEF Q!TypeOK
  <2> QED BY <1>1, <1>2, <1>3, <2>1, <2>2 DEF Q!TypeOK
<1>5. Q!AboutServed'
  BY <1>3 DEF Q!ReadInv, Q!AboutServed
<1>6. Q!ServedInOrder'
  <2>1. v9[v8] \in 0..v7 /\ v10.from \in 0..v7 /\ v11.seen.local \in 0..v7
    BY <1>1 DEF Q!TypeOK, Q!Request
  <2> QED BY <1>1, <1>2, <1>3, <2>1 DEF Q!ReadInv, Q!ServedInOrder
<1>7. Q!NothingNewer'
  <2> SUFFICES ASSUME ~v12 PROVE Q!NothingNewer'
    BY <1>2 DEF Q!NothingNewer
  <2>1. v11.label.snap \in 0..v7 /\ v11.source.snap \in 0..v7 /\ v11.got \in 0..v7
    BY <1>1 DEF Q!Request, Q!Place
  <2>2. v11'.at \in {"execute", "answer"} =>
          /\ ~v11'.source.md => v11'.source.snap <= v5' /\ v11'.source.snap # 0
          /\ v11'.before <= v11'.seen[Q!Route(v11'.source)]
    BY <1>1, <1>2, <1>3, <2>1 DEF Q!ReadInv, Q!NothingNewer
  <2>3. v11'.at = "answer" => v11'.got <= IF v11'.source.md THEN v9'[v8'] ELSE v5'
    BY <1>1, <1>2, <1>3, <2>1 DEF Q!ReadInv, Q!NothingNewer
  <2>4. v11'.at = "connect" => v11'.label.snap <= v5'
    BY <1>1, <1>2, <1>3, <2>1
  <2> QED BY <1>3, <2>2, <2>3, <2>4 DEF Q!NothingNewer, Q!Route
<1> QED BY <1>2, <1>3, <1>4, <1>5, <1>6, <1>7 DEF Q!ReadInv, Q!WritesToMd,
          Q!AnswersAreTraceable, Q!AnswersAreWhole, Q!ServesReadOnly, Q!Answered

\* Once something was turned back, only what a request says of itself holds.
LEMMA ReadTurns == ASSUME Q!ReadInv, Q!LinkBack \/ Q!Rollback PROVE Q!ReadInv'
<1>1. Q!TypeOK
  BY DEF Q!ReadInv
<1>2. /\ v13' \in 0..ReadFaults /\ v12' = TRUE /\ v5' \in {0, v5} \cup v6 /\ v8' \in {v8, Q!Other(v8)}
      /\ UNCHANGED <<v1, v2, v3, v4, v6, v7, v9, v10>>
  BY <1>1, ReadFaultsCounted DEF Q!LinkBack, Q!Rollback, Q!Beside
<1>3. /\ v11'.at = v11.at /\ v11'.kind = v11.kind /\ v11'.label = v11.label /\ v11'.source = v11.source
      /\ v11'.got = v11.got /\ v11'.all = v11.all /\ v11'.truncated = v11.truncated
      /\ v11'.before = v11.before /\ v11'.seen = v11.seen
      /\ v11'.moved = (v11.moved \/ v11.at \in {"connect", "execute", "answer"})
      /\ v11' \in Q!Request
  BY <1>1, ReadMoves DEF Q!LinkBack, Q!Rollback
<1>4. Q!TypeOK'
  BY <1>1, <1>2, <1>3 DEF Q!TypeOK, Q!Request, Q!Place, Q!Other, Q!Colour
<1> QED BY <1>2, <1>3, <1>4 DEF Q!ReadInv, Q!ServedInOrder, Q!AboutServed, Q!NothingNewer, Q!WritesToMd,
          Q!AnswersAreTraceable, Q!AnswersAreWhole, Q!ServesReadOnly, Q!Answered

\* A colour is built beside the served one, and the pointer turned to it.
LEMMA ReadBuilds == ASSUME Q!ReadInv, Q!StartBuild PROVE Q!ReadInv'
<1>1. Q!TypeOK /\ v8 \in Q!Colour /\ v5 \in 0..v7 /\ v7 \in Nat
  BY ReadPlaces DEF Q!ReadInv
<1>2. /\ v5 # 0 /\ v10' = [colour |-> Q!Other(v8), from |-> v5] /\ v9' = [v9 EXCEPT ![Q!Other(v8)] = 0]
      /\ UNCHANGED <<v1, v2, v3, v4, v5, v6, v7, v8, v11, v12, v13>>
  BY DEF Q!StartBuild, Q!Beside
<1>3. Q!Other(v8) \in Q!Colour /\ Q!Other(v8) # v8
  BY <1>1 DEF Q!Other, Q!Colour
<1>4. v9' \in [Q!Colour -> 0..v7] /\ v9'[v8] = v9[v8] /\ v9'[Q!Other(v8)] = 0
      /\ \A c \in Q!Colour : v9'[c] \in {v9[c], 0}
  BY <1>1, <1>2, <1>3 DEF Q!TypeOK
<1>5. Q!TypeOK'
  BY <1>1, <1>2, <1>3, <1>4 DEF Q!TypeOK, Q!Request, Q!Place
<1>6. Q!ServedInOrder'
  <2>1. v9[v8] \in Nat /\ v5 \in Nat
    BY <1>1 DEF Q!TypeOK
  <2> QED BY <1>1, <1>2, <1>3, <1>4, <2>1 DEF Q!ReadInv, Q!ServedInOrder
<1>7. Q!AboutServed' /\ Q!NothingNewer'
  BY <1>2, <1>4 DEF Q!ReadInv, Q!AboutServed, Q!NothingNewer, Q!Serving, Q!OnMd, Q!Route
<1> QED BY <1>2, <1>5, <1>6, <1>7 DEF Q!ReadInv, Q!WritesToMd,
          Q!AnswersAreTraceable, Q!AnswersAreWhole, Q!ServesReadOnly, Q!Answered

LEMMA ReadFlips == ASSUME Q!ReadInv, Q!Flip PROVE Q!ReadInv'
<1>1. Q!TypeOK /\ v8 \in Q!Colour /\ v5 \in 0..v7 /\ v7 \in Nat
  BY ReadPlaces DEF Q!ReadInv
<1>2. /\ v10.colour # "none" /\ v10' = [colour |-> "none", from |-> 0] /\ v8' = v10.colour
      /\ v9' = [v9 EXCEPT ![v10.colour] = v10.from]
      /\ UNCHANGED <<v1, v2, v3, v4, v5, v6, v7, v12, v13>>
  BY DEF Q!Flip, Q!Beside
<1>3. /\ v11'.at = v11.at /\ v11'.kind = v11.kind /\ v11'.label = v11.label /\ v11'.source = v11.source
      /\ v11'.got = v11.got /\ v11'.all = v11.all /\ v11'.truncated = v11.truncated
      /\ v11'.before = v11.before /\ v11'.seen = v11.seen
      /\ v11'.moved = (v11.moved \/ v11.at \in {"connect", "execute", "answer"})
      /\ v11' \in Q!Request
  BY <1>1, ReadMoves DEF Q!Flip
<1>4. v10.colour \in Q!Colour /\ v10.from \in 0..v7
  BY <1>1, <1>2 DEF Q!TypeOK
<1>5. /\ v9' \in [Q!Colour -> 0..v7] /\ v9'[v8'] = v10.from
      /\ \A c \in Q!Colour : c # v10.colour => v9'[c] = v9[c]
  BY <1>1, <1>2, <1>4 DEF Q!TypeOK
<1>6. Q!TypeOK'
  BY <1>1, <1>2, <1>3, <1>4, <1>5 DEF Q!TypeOK, Q!Request, Q!Place, Q!Colour
<1>7. ~v12 => /\ v9[v8] # 0 /\ v9[v8] <= v10.from /\ v10.from <= v5 /\ v10.colour = Q!Other(v8)
              /\ v11.seen.md <= v9[v8] /\ v11.seen.local <= v5
              /\ \A c \in Q!Colour : v9[c] <= v9[v8]
  BY <1>2 DEF Q!ReadInv, Q!ServedInOrder
<1>8. v9[v8] \in Nat /\ v10.from \in Nat /\ v5 \in Nat /\ v11.seen.md \in Nat /\ \A c \in Q!Colour : v9[c] \in Nat
  BY <1>1, <1>4 DEF Q!TypeOK, Q!Request
<1>9. Q!ServedInOrder'
  <2> SUFFICES ASSUME ~v12 PROVE Q!ServedInOrder'
    BY <1>2 DEF Q!ServedInOrder
  <2>1. v9'[v8'] # 0
    BY <1>5, <1>7, <1>8
  <2>2. ASSUME NEW c \in Q!Colour PROVE v9'[c] <= v9'[v8']
    <3>1. CASE c = v10.colour
      BY <1>2, <1>5, <1>8, <3>1
    <3>2. CASE c # v10.colour
      BY <1>5, <1>7, <1>8, <3>2
    <3> QED BY <3>1, <3>2
  <2>3. v10'.from = 0 /\ v10'.colour = "none" /\ v11'.seen.md <= v9'[v8']
    BY <1>2, <1>3, <1>5, <1>7, <1>8
  <2> QED BY <1>2, <1>3, <1>5, <1>7, <1>8, <2>1, <2>2, <2>3 DEF Q!ServedInOrder
<1>10. Q!AboutServed'
  BY <1>3 DEF Q!ReadInv, Q!AboutServed
<1>11. Q!NothingNewer'
  <2> SUFFICES ASSUME ~v12 PROVE Q!NothingNewer'
    BY <1>2 DEF Q!NothingNewer
  <2>1. v11.at = "answer" => v11.got <= IF v11.source.md THEN v9'[v8'] ELSE v5
    <3>1. v11.got \in Nat
      BY <1>1 DEF Q!TypeOK, Q!Request
    <3> QED BY <1>5, <1>7, <1>8, <3>1 DEF Q!ReadInv, Q!NothingNewer
  <2> QED BY <1>2, <1>3, <2>1 DEF Q!ReadInv, Q!NothingNewer, Q!Route
<1> QED BY <1>2, <1>3, <1>6, <1>9, <1>10, <1>11 DEF Q!ReadInv, Q!WritesToMd,
          Q!AnswersAreTraceable, Q!AnswersAreWhole, Q!ServesReadOnly, Q!Answered

LEMMA ReadStep == ASSUME Q!ReadInv, [Q!Next]_(Q!vars) PROVE Q!ReadInv'
<1>1. CASE UNCHANGED Q!vars
  BY <1>1 DEF Q!vars, Q!ReadInv, Q!TypeOK, Q!Request, Q!Place, Q!ServedInOrder, Q!AboutServed, Q!NothingNewer,
    Q!WritesToMd, Q!AnswersAreTraceable, Q!AnswersAreWhole, Q!ServesReadOnly, Q!Answered, Q!Serving, Q!OnMd
<1> QED BY <1>1, ReadServer, ReadCaptures, ReadConnects, ReadExecutes, ReadAnswers, ReadPromotes, ReadTurns,
          ReadBuilds, ReadFlips DEF Q!Next

-----------------------------------------------------------------------------
(* The calls' transcripts: T.                                              *)

\* What the variables are.
LEMMA CallTypes ==
  ASSUME T!TypeOK
  PROVE  /\ v1 \in T!Day /\ v1 \in Nat /\ v1 >= 1 /\ v1 <= CallLastDay
         /\ v3 \in [CallNames -> {"processing", "there", "deleted"}]
         /\ v4 \in T!Texts /\ v5 \subseteq CallNames
         /\ v6 \in [day : 0..CallLastDay, transcript : T!Texts, labelled : SUBSET CallNames]
         /\ v7 \in [T!Job -> T!Run]
         /\ \A k \in T!Job : /\ v7[k] \in T!Run
                             /\ v7[k].todo \subseteq CallNames /\ v7[k].text \subseteq CallNames
                             /\ v7[k].gone \subseteq CallNames /\ v7[k].done \subseteq CallNames
         /\ \A c \in CallNames : CallDays[c] \in Nat
         /\ T!Live \in [day : 0..CallLastDay, transcript : T!Texts, labelled : SUBSET CallNames]
         /\ T!Live.day = v1 /\ T!Live.transcript = v4 /\ T!Live.labelled = v5
         /\ v9 \in [T!Job -> SUBSET CallNames] /\ v10 \subseteq CallNames /\ v14 \in 0..CallFaults
<1>1. v1 \in T!Day /\ v1 \in Nat /\ v1 >= 1 /\ v1 <= CallLastDay
  BY CallAssumption DEF T!TypeOK, T!Day
<1>2. v7 \in [T!Job -> T!Run] /\ v4 \in T!Texts /\ v5 \subseteq CallNames
  BY DEF T!TypeOK
<1>3. \A k \in T!Job : v7[k] \in T!Run
  BY <1>2
<1>4. \A k \in T!Job : /\ v7[k].todo \subseteq CallNames /\ v7[k].text \subseteq CallNames
                       /\ v7[k].gone \subseteq CallNames /\ v7[k].done \subseteq CallNames
  BY <1>3 DEF T!Run
<1>5. T!Live = [day |-> v1, transcript |-> v4, labelled |-> v5]
  BY DEF T!Live
<1>6. /\ T!Live \in [day : 0..CallLastDay, transcript : T!Texts, labelled : SUBSET CallNames]
      /\ T!Live.day = v1 /\ T!Live.transcript = v4 /\ T!Live.labelled = v5
  BY <1>1, <1>2, <1>5, CallAssumption
<1>7. \A c \in CallNames : CallDays[c] \in Nat
  BY CallAssumption
<1> QED BY <1>1, <1>2, <1>3, <1>4, <1>6, <1>7 DEF T!TypeOK

\* Sets of calls have a size, larger ones a larger one.
LEMMA CallsAreCounted ==
  ASSUME NEW Many \in SUBSET CallNames
  PROVE  /\ T!Cardinality(Many) \in Nat
         /\ \A Few \in SUBSET Many : T!Cardinality(Few) <= T!Cardinality(Many)
         /\ \A c \in CallNames : T!Cardinality(Many \cup {c}) <= T!Cardinality(Many) + 1
         /\ T!Cardinality({}) = 0
<1>1. \A Some : T!Cardinality(Some) = Cardinality(Some)
  BY Zenon DEF T!Cardinality, Cardinality
<1>2. IsFiniteSet(Many)
  BY CallAssumption, FS_Subset
<1>3. Cardinality(Many) \in Nat
  BY <1>2, FS_CardinalityType
<1>4. \A Few \in SUBSET Many : Cardinality(Few) <= Cardinality(Many)
  BY <1>2, FS_Subset
<1>5. ASSUME NEW c \in CallNames PROVE Cardinality(Many \cup {c}) <= Cardinality(Many) + 1
  <2>1. CASE c \in Many
    <3>1. Many \cup {c} = Many
      BY <2>1
    <3> QED BY <1>3, <3>1
  <2>2. CASE c \notin Many
    <3>1. Cardinality(Many \cup {c}) = Cardinality(Many) + 1
      BY <1>2, <2>2, FS_AddElement
    <3> QED BY <1>3, <3>1
  <2> QED BY <2>1, <2>2
<1>6. Cardinality({}) = 0
  BY FS_EmptySet
<1> QED BY <1>1, <1>3, <1>4, <1>5, <1>6

\* No view of today is short of less than the tables are.
LEMMA ViewsCountMore ==
  ASSUME T!TypeOK, T!ViewsAreOld, NEW view \in {T!Live, v6}, view.day = v1, NEW d \in T!Day
  PROVE  T!Gap(d, T!Live) > CallTolerance => T!Gap(d, view) > CallTolerance
<1> DEFINE Few == {c \in T!Known(T!Live) : CallDays[c] = d /\ T!Live.transcript[c] = "none"}
           Many == {c \in T!Known(view) : CallDays[c] = d /\ view.transcript[c] = "none"}
<1>1. Few \subseteq Many /\ Many \in SUBSET CallNames
  BY CallTypes DEF T!Known, T!ViewsAreOld
<1>2. T!Gap(d, T!Live) = T!Cardinality(Few) /\ T!Gap(d, view) = T!Cardinality(Many)
  BY DEF T!Gap
<1> HIDE DEF Few, Many
<1>3. /\ T!Cardinality(Many) \in Nat /\ T!Cardinality(Few) \in Nat
      /\ T!Cardinality(Few) <= T!Cardinality(Many)
  BY <1>1, CallsAreCounted
<1> QED BY <1>2, <1>3, CallAssumption

\* A day that falls short no more does not disturb the watchdog.
LEMMA CallsStillCounted ==
  ASSUME T!TypeOK, T!CountsInOrder, v1' = v1, v4' \in T!Texts, v8' = v8,
         \A c \in CallNames : v4'[c] = "none" => v4[c] = "none",
         UNCHANGED <<v12, v13>>
  PROVE  T!CountsInOrder'
<1>1. ASSUME NEW d \in T!Day PROVE T!Gap(d, T!Live)' > CallTolerance => T!Gap(d, T!Live) > CallTolerance
  <2> DEFINE Few == {c \in T!Known(T!Live)' : CallDays[c] = d /\ v4'[c] = "none"}
             Many == {c \in T!Known(T!Live) : CallDays[c] = d /\ v4[c] = "none"}
  <2>1. T!Known(T!Live)' = T!Known(T!Live)
    BY DEF T!Known, T!Live
  <2>2. Few \subseteq Many /\ Many \in SUBSET CallNames
    BY <2>1 DEF T!Known
  <2>3. T!Gap(d, T!Live)' = T!Cardinality(Few)
    BY DEF T!Gap, T!Live, T!Cardinality
  <2>4. T!Gap(d, T!Live) = T!Cardinality(Many)
    BY DEF T!Gap, T!Live
  <2> HIDE DEF Few, Many
  <2>5. /\ T!Cardinality(Many) \in Nat /\ T!Cardinality(Few) \in Nat
        /\ T!Cardinality(Few) <= T!Cardinality(Many)
    BY <2>2, CallsAreCounted
  <2> QED BY <2>3, <2>4, <2>5, CallAssumption
<1>2. T!Window' = T!Window /\ T!Window \subseteq T!Day
  BY DEF T!Window
<1> QED BY <1>1, <1>2 DEF T!CountsInOrder

LEMMA CallsInit == ASSUME T!Init PROVE T!CallsInv
<1>1. /\ v1 = 1 /\ v2 = 0 /\ v3 = [c \in CallNames |-> "processing"] /\ v4 = [c \in CallNames |-> "none"]
      /\ v5 = {} /\ v6 = [day |-> 0, transcript |-> v4, labelled |-> {}] /\ v7 = [k \in T!Job |-> T!Idle]
      /\ v8 = [step |-> "idle", issues |-> T!NoIssues, fresh |-> FALSE,
               fails |-> T!NoFails, sig |-> T!NoIssues, lost |-> FALSE]
      /\ v9 = [k \in T!Job |-> {}] /\ v10 = {} /\ v11 = {} /\ v12 = [d \in T!Day |-> 0]
      /\ v13 = {} /\ v14 = 0
  BY DEF T!Init
<1>2. DOMAIN T!NoIssues = {}
  BY DEF T!NoIssues
<1>3. T!Idle \in T!Run /\ T!Idle.at = "idle" /\ T!Idle.todo = {} /\ T!Idle.text = {} /\ T!Idle.gone = {}
      /\ T!Idle.done = {}
  BY DEF T!Idle, T!Run
<1>4. T!TypeOK
  <2>1. v1 \in T!Day /\ 0 \in 0..CallFaults /\ 0 \in 0..CallLastDay /\ T!Threshold \in Nat /\ 0 \in 0..T!Threshold
    BY <1>1, CallAssumption DEF T!Day, T!Threshold
  <2>2. v4 \in T!Texts
    BY <1>1 DEF T!Texts
  <2>3. v6 \in [day : 0..CallLastDay, transcript : T!Texts, labelled : SUBSET CallNames]
    BY <1>1, <2>1, <2>2
  <2>4. T!Cardinality({}) + T!Cardinality({}) <= CallFlush
    BY CallsAreCounted, CallAssumption
  <2>5. DOMAIN v8 = {"step", "issues", "fresh", "fails", "sig", "lost"} /\ DOMAIN v8.issues \subseteq T!Day
    BY <1>1, <1>2
  <2>6. \A k \in T!Job : v7[k] = T!Idle
    BY <1>1
  <2>7. v7 \in [T!Job -> T!Run] /\ v9 \in [T!Job -> SUBSET CallNames]
    BY <1>1, <1>3
  <2>8. v8.fails \in [T!Day -> 0..T!Threshold] /\ v12 \in [T!Day -> 0..T!Threshold]
        /\ v8.step = "idle" /\ v8.fresh \in BOOLEAN /\ v8.lost \in BOOLEAN
    BY <1>1, <2>1 DEF T!NoFails
  <2>9. v3 \in [CallNames -> {"processing", "there", "deleted"}]
    BY <1>1
  <2>10. \A k \in T!Job : /\ v7[k].todo \cap v7[k].done = {}
                          /\ T!Cardinality(v7[k].text) + T!Cardinality(v7[k].gone) <= CallFlush
    BY <1>3, <2>4, <2>6
  <2>11. v2 \in 0..4 /\ v5 \subseteq CallNames /\ v10 \subseteq CallNames /\ v14 \in 0..CallFaults
    BY <1>1, <2>1
  <2> QED BY <2>1, <2>2, <2>3, <2>5, <2>6, <2>7, <2>8, <2>9, <2>10, <2>11 DEF T!TypeOK
<1>5. T!CountsInOrder
  <2>1. \A d \in T!Day : v12[d] <= v8.fails[d] /\ v8.fails[d] # T!Threshold
    BY <1>1 DEF T!Threshold, T!NoFails
  <2> QED BY <1>1, <1>2, <2>1 DEF T!CountsInOrder
<1>6. T!BatchInHand
  BY <1>1, <1>3 DEF T!BatchInHand
<1>7. T!ViewsAreOld /\ T!HandsAreApart
  BY <1>1, <1>3 DEF T!ViewsAreOld, T!HandsAreApart, T!Hands, T!Job
<1> QED BY <1>1, <1>4, <1>5, <1>6, <1>7 DEF T!CallsInv, T!TextStays, T!LabelsHaveText,
      T!OnlyGoneAreGivenUp, T!ZeroIsWritten, T!Job

\* Close, the nightly and the days: no table and no run changes.
LEMMA CallsKept ==
  ASSUME T!CallsInv, v1' \in T!Day, v1' >= v1, v1' = v1 \/ v8.step = "idle",
         v2' \in 0..4, v3' \in [CallNames -> {"processing", "there", "deleted"}],
         \A c \in CallNames : v3[c] = "deleted" => v3'[c] = "deleted",
         v6' = v6 \/ v6' = T!Live, v14' \in 0..CallFaults,
         UNCHANGED <<v4, v5, v7, v8, v9, v10, v11, v12, v13>>
  PROVE  T!CallsInv'
<1>1. T!TypeOK
  BY DEF T!CallsInv
<1>2. T!TypeOK'
  BY <1>1, CallTypes DEF T!TypeOK
<1>3. ASSUME NEW c \in CallNames, T!Gone(c) PROVE T!Gone(c)'
  <2>1. v1 \in Nat /\ v1' \in Nat /\ CallDays[c] \in Nat /\ CallGrace \in Nat
    BY <1>1, CallTypes, CallAssumption DEF T!Day
  <2> QED BY <1>3, <2>1 DEF T!Gone
<1>4. T!BatchInHand'
  BY <1>1, <1>3, CallTypes DEF T!CallsInv, T!BatchInHand, T!Written
<1>5. T!ViewsAreOld' /\ T!HandsAreApart'
  BY <1>1, CallTypes DEF T!CallsInv, T!ViewsAreOld, T!HandsAreApart, T!Hands, T!Written
<1>6. T!CountsInOrder'
  <2>1. CASE v1' = v1
    BY <1>1, <2>1, CallTypes, CallsStillCounted DEF T!CallsInv
  <2>2. CASE v8.step = "idle"
    BY <2>2 DEF T!CallsInv, T!CountsInOrder
  <2> QED BY <2>1, <2>2
<1>7. T!OnlyGoneAreGivenUp'
  BY <1>3 DEF T!CallsInv, T!OnlyGoneAreGivenUp, T!Gone
<1>8. T!TextStays' /\ T!LabelsHaveText' /\ T!ZeroIsWritten'
  BY DEF T!CallsInv, T!TextStays, T!LabelsHaveText, T!ZeroIsWritten, T!Written
<1> QED BY <1>2, <1>4, <1>5, <1>6, <1>7, <1>8 DEF T!CallsInv

LEMMA CallFaultsCounted ==
  ASSUME T!TypeOK, NEW fault \in BOOLEAN, T!Counts(fault)
  PROVE  v14' \in 0..CallFaults
BY CallTypes, CallAssumption DEF T!Counts

\* A job lists what is pending.
LEMMA CallsList ==
  ASSUME T!CallsInv, NEW k \in T!Job, T!Lists(k), v1' = v1, v2' \in 0..4,
         v8' = v8 \/ (v8.step = "heal" /\ v8' = [v8 EXCEPT !.step = "read"])
  PROVE  T!CallsInv'
<1>1. T!TypeOK /\ T!ViewsAreOld
  BY DEF T!CallsInv
<1>2. /\ v7[k] = T!Idle /\ v9' = [v9 EXCEPT ![k] = {}]
      /\ UNCHANGED <<v3, v4, v5, v6, v10, v12, v13>>
  BY DEF T!Lists
<1>3. PICK view \in {T!Live, v6} :
        /\ T!Loads(view)
        /\ v7' = [v7 EXCEPT ![k] = IF T!Pending(k, view) = {} THEN T!Idle
                                   ELSE [T!Idle EXCEPT !.at = "work", !.todo = T!Pending(k, view)]]
        /\ v11' = IF k = "label" THEN v11
                  ELSE v11 \cup (T!Pending(k, view) \cap (T!Elsewhere(k) \cup IF view = T!Live THEN {} ELSE T!Written))
  BY DEF T!Lists
<1> DEFINE list == T!Pending(k, view)
<1>4. /\ list \subseteq CallNames
      /\ k = "label" => list \subseteq v10
      /\ k # "label" => \A c \in list : view.transcript[c] = "none"
  BY <1>1, CallTypes DEF T!Pending, T!Known, T!ViewsAreOld
<1>5. v7'[k] = [at |-> IF list = {} THEN "idle" ELSE "work", todo |-> list, text |-> {}, gone |-> {},
                done |-> {}, lost |-> FALSE]
  BY <1>1, <1>3, CallTypes DEF T!Idle
<1>6. \A o \in T!Job \ {k} : v7'[o] = v7[o] /\ v9'[o] = v9[o]
  BY <1>1, <1>2, <1>3, CallTypes
<1>7. v11 \subseteq v11' /\ (k = "label" => v11' = v11)
  BY <1>3
<1>8. /\ k # "label" => list \cap T!Elsewhere(k) \subseteq v11'
      /\ k # "label" => list \cap T!Written \subseteq v11'
  <2>1. ASSUME k # "label", view = T!Live PROVE list \cap T!Written = {}
    BY <1>1, <1>4, <2>1, CallTypes DEF T!Written
  <2> QED BY <1>3, <2>1
<1> HIDE DEF list
<1>9. T!TypeOK'
  <2>1. v14' \in 0..CallFaults
    <3>1. (view # T!Live) \in BOOLEAN /\ T!Counts(view # T!Live)
      BY <1>3 DEF T!Loads
    <3> QED BY <1>1, <3>1, CallFaultsCounted
  <2>2. v7'[k] \in T!Run
    BY <1>4, <1>5 DEF T!Run
  <2>3. v7' \in [T!Job -> T!Run]
    BY <1>1, <1>3, <1>6, <2>2, CallTypes
  <2>4. v9' \in [T!Job -> SUBSET CallNames]
    BY <1>1, <1>2, CallTypes
  <2>5. ASSUME NEW o \in T!Job
        PROVE  /\ v7'[o].at = "idle" => v7'[o] = T!Idle
               /\ v7'[o].todo \cap v7'[o].done = {}
               /\ T!Cardinality(v7'[o].text) + T!Cardinality(v7'[o].gone) <= CallFlush
    <3>1. CASE o = k
      <4>1. T!Cardinality({}) + T!Cardinality({}) <= CallFlush
        BY CallsAreCounted, CallAssumption
      <4>2. ASSUME v7'[k].at = "idle" PROVE v7'[k] = T!Idle
        <5>1. list = {}
          BY <1>5, <4>2
        <5> QED BY <1>5, <5>1 DEF T!Idle
      <4>3. /\ v7'[k].todo \cap v7'[k].done = {}
            /\ T!Cardinality(v7'[k].text) + T!Cardinality(v7'[k].gone) <= CallFlush
        BY <1>5, <4>1
      <4> QED BY <3>1, <4>2, <4>3
    <3>2. CASE o # k
      BY <1>1, <1>6, <3>2 DEF T!TypeOK
    <3> QED BY <3>1, <3>2
  <2>6. /\ DOMAIN v8' = {"step", "issues", "fresh", "fails", "sig", "lost"} /\ v8'.step \in {"idle", "heal", "read"}
        /\ v8'.issues = v8.issues /\ v8'.fresh = v8.fresh /\ v8'.fails = v8.fails /\ v8'.lost = v8.lost
    BY <1>1 DEF T!TypeOK
  <2> QED BY <1>1, <1>2, <2>1, <2>3, <2>4, <2>5, <2>6, CallTypes DEF T!TypeOK
<1>10. T!BatchInHand'
  <2> SUFFICES ASSUME NEW o \in T!Job
               PROVE  /\ v7'[o].at = "work" => T!Cardinality(v7'[o].text) + T!Cardinality(v7'[o].gone) < CallFlush
                      /\ v7'[o].text \cup v7'[o].gone \subseteq v7'[o].done /\ v7'[o].text \cap v7'[o].gone = {}
                      /\ \A c \in v7'[o].gone : o # "label" /\ T!Gone(c)'
                      /\ ~v7'[o].lost => v7'[o].done \subseteq v7'[o].text \cup v7'[o].gone
                                                     \cup IF o = "label" THEN v5' ELSE T!Written'
    BY DEF T!BatchInHand, T!Cardinality
  <2>1. CASE o = k
    <3>1. T!Cardinality({}) + T!Cardinality({}) < CallFlush
      BY CallsAreCounted, CallAssumption
    <3> QED BY <1>5, <2>1, <3>1
  <2>2. CASE o # k
    BY <1>2, <1>6, <2>2 DEF T!CallsInv, T!BatchInHand, T!Gone, T!Written
  <2> QED BY <2>1, <2>2
<1>11. T!ViewsAreOld'
  <2>1. v7'["label"].todo \cup v7'["label"].text \subseteq v10
    BY <1>1, <1>4, <1>5, <1>6 DEF T!ViewsAreOld, T!Job
  <2> QED BY <1>1, <1>2, <2>1 DEF T!ViewsAreOld
<1>12. T!HandsAreApart'
  <2>1. \A o \in T!Job \ {k} : T!Hands(o)' = T!Hands(o)
    BY <1>6 DEF T!Hands
  <2>2. T!Hands(k)' = list
    BY <1>5 DEF T!Hands
  <2>3. T!Written' = T!Written
    BY <1>2 DEF T!Written
  <2>4. /\ T!Hands("cron") \cap T!Hands("heal") \subseteq v11
        /\ (T!Hands("cron") \cup T!Hands("heal")) \cap T!Written \subseteq v11
    BY DEF T!CallsInv, T!HandsAreApart
  <2>5. CASE k = "label"
    BY <1>7, <2>1, <2>3, <2>4, <2>5 DEF T!HandsAreApart, T!Job
  <2>6. CASE k = "cron"
    <3>1. T!Elsewhere(k) = T!Hands("heal")
      BY <2>6 DEF T!Elsewhere
    <3> QED BY <1>7, <1>8, <2>1, <2>2, <2>3, <2>4, <2>6, <3>1 DEF T!HandsAreApart, T!Job
  <2>7. CASE k = "heal"
    <3>1. T!Elsewhere(k) = T!Hands("cron")
      BY <2>7 DEF T!Elsewhere
    <3> QED BY <1>7, <1>8, <2>1, <2>2, <2>3, <2>4, <2>7, <3>1 DEF T!HandsAreApart, T!Job
  <2> QED BY <2>5, <2>6, <2>7 DEF T!Job
<1>13. T!CountsInOrder'
  <2>1. T!Live' = T!Live /\ T!Window' = T!Window
    BY <1>2 DEF T!Live, T!Window
  <2>2. \A d \in T!Day : T!Gap(d, T!Live)' = T!Gap(d, T!Live)
    BY <2>1 DEF T!Gap, T!Known, T!Cardinality
  <2>3. /\ v8'.issues = v8.issues /\ v8'.fresh = v8.fresh /\ v8'.fails = v8.fails /\ v8'.sig = v8.sig
        /\ v8'.lost = v8.lost
        /\ v8'.step = v8.step \/ v8.step # "idle"
    BY <1>1 DEF T!TypeOK
  <2> QED BY <1>2, <2>1, <2>2, <2>3 DEF T!CallsInv, T!CountsInOrder, T!Window
<1>14. T!TextStays' /\ T!LabelsHaveText' /\ T!OnlyGoneAreGivenUp'
  BY <1>2, <1>7 DEF T!CallsInv, T!TextStays, T!LabelsHaveText, T!OnlyGoneAreGivenUp
<1>15. T!ZeroIsWritten'
  <2>1. \A o \in T!Job : v9'[o] \subseteq v9[o]
    BY <1>1, <1>2, CallTypes
  <2> QED BY <1>2, <2>1 DEF T!CallsInv, T!ZeroIsWritten, T!Written, T!Job
<1> QED BY <1>9, <1>10, <1>11, <1>12, <1>13, <1>14, <1>15 DEF T!CallsInv

\* One call of a batch: a text, a tombstone or nothing.
LEMMA CallsTake ==
  ASSUME T!CallsInv, NEW k \in T!Job, v7[k].at = "work", NEW c \in v7[k].todo,
         NEW text, NEW gone,
         \/ text = {} /\ gone = {}
         \/ text = {c} /\ gone = {}
         \/ text = {} /\ gone = {c} /\ k # "label" /\ T!Gone(c),
         T!Takes(k, c, text, gone), v14' \in 0..CallFaults,
         UNCHANGED <<v1, v2, v3, v4, v5, v6, v8, v9, v10, v11, v12, v13>>
  PROVE  T!CallsInv'
<1>1. T!TypeOK /\ T!BatchInHand /\ c \in CallNames
  BY CallTypes DEF T!CallsInv
<1> DEFINE texts == v7[k].text \cup text
           tombs == v7[k].gone \cup gone
<1>2. PICK at \in {"work", "flush"} :
        /\ v7' = [v7 EXCEPT ![k] = [at |-> at, todo |-> v7[k].todo \ {c}, text |-> texts, gone |-> tombs,
                                    done |-> v7[k].done \cup text \cup gone, lost |-> v7[k].lost]]
        /\ at = "work" => ~(T!Cardinality(texts) + T!Cardinality(tombs) >= CallFlush)
  <2> DEFINE r == [v7[k] EXCEPT !.todo = @ \ {c}, !.text = @ \cup text, !.gone = @ \cup gone,
                                !.done = @ \cup text \cup gone]
             full == T!Cardinality(r.text) + T!Cardinality(r.gone) >= CallFlush \/ r.todo = {}
  <2>1. v7[k] \in T!Run
    BY <1>1, CallTypes
  <2>2. r = [at |-> "work", todo |-> v7[k].todo \ {c}, text |-> texts, gone |-> tombs,
             done |-> v7[k].done \cup text \cup gone, lost |-> v7[k].lost]
    <3>1. r \in [at : {"work"}, todo : {v7[k].todo \ {c}}, text : {texts}, gone : {tombs},
                 done : {v7[k].done \cup text \cup gone}, lost : {v7[k].lost}]
      BY <2>1 DEF T!Run
    <3> HIDE DEF r, texts, tombs
    <3> QED BY <3>1
  <2>3. v7' = [v7 EXCEPT ![k] = IF full THEN [r EXCEPT !.at = "flush"] ELSE r]
    BY DEF T!Takes
  <2>4. r.text = texts /\ r.gone = tombs
    BY <2>2
  <2>5. CASE full
    <3>1. [r EXCEPT !.at = "flush"] = [at |-> "flush", todo |-> v7[k].todo \ {c}, text |-> texts, gone |-> tombs,
             done |-> v7[k].done \cup text \cup gone, lost |-> v7[k].lost]
      <4> HIDE DEF r, full, texts, tombs
      <4>1. [r EXCEPT !.at = "flush"] \in [at : {"flush"}, todo : {v7[k].todo \ {c}}, text : {texts}, gone : {tombs},
                                          done : {v7[k].done \cup text \cup gone}, lost : {v7[k].lost}]
        BY <2>2
      <4> QED BY <4>1
    <3> QED BY <2>3, <2>5, <3>1
  <2>6. CASE ~full
    <3>1. ~(T!Cardinality(texts) + T!Cardinality(tombs) >= CallFlush)
      BY <2>4, <2>6, Zenon
    <3>2. v7' = [v7 EXCEPT ![k] = r]
      BY <2>3, <2>6
    <3> HIDE DEF r, full
    <3> QED BY <2>2, <3>1, <3>2
  <2> QED BY <2>5, <2>6
<1>3. /\ texts \in SUBSET CallNames /\ tombs \in SUBSET CallNames
      /\ v7[k].todo \subseteq CallNames /\ v7[k].done \subseteq CallNames /\ v7[k].lost \in BOOLEAN
      /\ text \subseteq {c} /\ gone \subseteq {c}
  BY <1>1, CallTypes DEF T!Run
<1>4. /\ T!Cardinality(texts) \in Nat /\ T!Cardinality(tombs) \in Nat
      /\ T!Cardinality(texts) + T!Cardinality(tombs) <= CallFlush
  <2>1. /\ T!Cardinality(v7[k].text) \in Nat /\ T!Cardinality(v7[k].gone) \in Nat
        /\ T!Cardinality(v7[k].text \cup {c}) <= T!Cardinality(v7[k].text) + 1
        /\ T!Cardinality(v7[k].gone \cup {c}) <= T!Cardinality(v7[k].gone) + 1
    BY <1>1, CallTypes, CallsAreCounted
  <2>2. T!Cardinality(v7[k].text) + T!Cardinality(v7[k].gone) < CallFlush
    BY <1>1 DEF T!BatchInHand
  <2>3. T!Cardinality(texts) \in Nat /\ T!Cardinality(tombs) \in Nat
    BY <1>3, CallsAreCounted
  <2>4. CASE text = {} /\ gone = {}
    <3>1. texts = v7[k].text /\ tombs = v7[k].gone
      BY <2>4
    <3> HIDE DEF texts, tombs
    <3> QED BY <2>1, <2>2, <3>1, CallAssumption
  <2>5. CASE text = {c} /\ gone = {}
    <3>1. texts = v7[k].text \cup {c} /\ tombs = v7[k].gone
      BY <2>5
    <3> HIDE DEF texts, tombs
    <3> QED BY <2>1, <2>2, <2>3, <3>1, CallAssumption
  <2>6. CASE text = {} /\ gone = {c}
    <3>1. texts = v7[k].text /\ tombs = v7[k].gone \cup {c}
      BY <2>6
    <3> HIDE DEF texts, tombs
    <3> QED BY <2>1, <2>2, <2>3, <3>1, CallAssumption
  <2> QED BY <2>4, <2>5, <2>6
<1>5. /\ v7'[k] = [at |-> at, todo |-> v7[k].todo \ {c}, text |-> texts, gone |-> tombs,
                   done |-> v7[k].done \cup text \cup gone, lost |-> v7[k].lost]
      /\ \A o \in T!Job \ {k} : v7'[o] = v7[o]
  BY <1>1, <1>2, CallTypes
<1>6. T!TypeOK'
  <2>1. v7'[k] \in T!Run
    BY <1>1, <1>3, <1>5 DEF T!Run
  <2>2. v7' \in [T!Job -> T!Run]
    BY <1>1, <1>2, <1>5, <2>1, CallTypes
  <2>3. ASSUME NEW o \in T!Job
        PROVE  /\ v7'[o].at = "idle" => v7'[o] = T!Idle
               /\ v7'[o].todo \cap v7'[o].done = {}
               /\ T!Cardinality(v7'[o].text) + T!Cardinality(v7'[o].gone) <= CallFlush
    <3>1. CASE o = k
      <4>1. (v7[k].todo \ {c}) \cap (v7[k].done \cup text \cup gone) = {}
        BY <1>1, <1>3 DEF T!TypeOK
      <4> HIDE DEF texts, tombs
      <4> QED BY <1>4, <1>5, <3>1, <4>1
    <3>2. CASE o # k
      BY <1>1, <1>5, <3>2 DEF T!TypeOK
    <3> QED BY <3>1, <3>2
  <2> QED BY <1>1, <2>2, <2>3 DEF T!TypeOK
<1>7. T!BatchInHand'
  <2> SUFFICES ASSUME NEW o \in T!Job
               PROVE  /\ v7'[o].at = "work" => T!Cardinality(v7'[o].text) + T!Cardinality(v7'[o].gone) < CallFlush
                      /\ v7'[o].text \cup v7'[o].gone \subseteq v7'[o].done /\ v7'[o].text \cap v7'[o].gone = {}
                      /\ \A b \in v7'[o].gone : o # "label" /\ T!Gone(b)'
                      /\ ~v7'[o].lost => v7'[o].done \subseteq v7'[o].text \cup v7'[o].gone
                                                     \cup IF o = "label" THEN v5' ELSE T!Written'
    BY DEF T!BatchInHand, T!Cardinality
  <2>1. \A b : T!Gone(b)' = T!Gone(b)
    BY DEF T!Gone
  <2>2. T!Written' = T!Written
    BY DEF T!Written
  <2>3. CASE o = k
    <3>1. v7'[o].at = "work" => T!Cardinality(v7'[o].text) + T!Cardinality(v7'[o].gone) < CallFlush
      <4> HIDE DEF texts, tombs
      <4> QED BY <1>2, <1>4, <1>5, <2>3, CallAssumption
    <3>2. /\ v7[k].text \cup v7[k].gone \subseteq v7[k].done
          /\ \A b \in v7[k].gone : k # "label" /\ T!Gone(b)
          /\ ~v7[k].lost => v7[k].done \subseteq v7[k].text \cup v7[k].gone
                                              \cup IF k = "label" THEN v5 ELSE T!Written
      BY <1>1 DEF T!BatchInHand
    <3>3. \A b \in tombs : k # "label" /\ T!Gone(b)
      BY <3>2
    <3>4. ~v7[k].lost => v7[k].done \cup text \cup gone
                           \subseteq texts \cup tombs \cup IF k = "label" THEN v5 ELSE T!Written
      BY <3>2
    <3>5. texts \cup tombs \subseteq v7[k].done \cup text \cup gone /\ texts \cap tombs = {}
      <4>1. v7[k].text \cap v7[k].gone = {} /\ c \notin v7[k].done
        BY <1>1 DEF T!BatchInHand, T!TypeOK
      <4> QED BY <3>2, <4>1
    <3> HIDE DEF texts, tombs
    <3> QED BY <1>5, <2>1, <2>2, <2>3, <3>1, <3>3, <3>4, <3>5
  <2>4. CASE o # k
    BY <1>1, <1>5, <2>1, <2>2, <2>4 DEF T!BatchInHand
  <2> QED BY <2>3, <2>4
<1>8. T!ViewsAreOld' /\ T!HandsAreApart'
  <2>1. \A o \in T!Job : T!Hands(o)' \subseteq T!Hands(o)
    BY <1>3, <1>5 DEF T!Hands
  <2>2. v7'["label"].todo \cup v7'["label"].text \subseteq v7["label"].todo \cup v7["label"].text
    BY <1>3, <1>5 DEF T!Job
  <2>3. T!ViewsAreOld'
    BY <2>2 DEF T!CallsInv, T!ViewsAreOld
  <2>4. T!Written' = T!Written /\ v11' = v11
    BY DEF T!Written
  <2>5. T!HandsAreApart'
    BY <2>1, <2>4 DEF T!CallsInv, T!HandsAreApart, T!Job
  <2> QED BY <2>3, <2>5
<1>9. T!CountsInOrder'
  BY <1>1, CallTypes, CallsStillCounted DEF T!CallsInv
<1>10. T!TextStays' /\ T!LabelsHaveText' /\ T!OnlyGoneAreGivenUp' /\ T!ZeroIsWritten'
  BY DEF T!CallsInv, T!TextStays, T!LabelsHaveText, T!OnlyGoneAreGivenUp, T!ZeroIsWritten, T!Written
<1> QED BY <1>6, <1>7, <1>8, <1>9, <1>10 DEF T!CallsInv

\* A burst, whole or in part, and what becomes of the run.
LEMMA CallsEnd ==
  ASSUME T!CallsInv, NEW k \in T!Job, NEW rows \in SUBSET (v7[k].text \cup v7[k].gone), T!Insert(k, rows),
         v7' \in [T!Job -> T!Run], \A o \in T!Job \ {k} : v7'[o] = v7[o] /\ v9'[o] = v9[o],
         \/ v7'[k] = T!Idle
         \/ /\ v7'[k].at = "work" /\ v7'[k].todo = v7[k].todo /\ v7'[k].text = {} /\ v7'[k].gone = {}
            /\ v7'[k].done = v7[k].done
            /\ v7'[k].lost \/ (~v7[k].lost /\ rows = v7[k].text \cup v7[k].gone),
         v9' \in [T!Job -> SUBSET CallNames],
         \/ v9'[k] = v9[k] \/ v9'[k] = {}
         \/ v9'[k] = v7[k].done /\ ~v7[k].lost /\ rows = v7[k].text \cup v7[k].gone,
         v14' \in 0..CallFaults, UNCHANGED <<v1, v2, v3, v6, v8, v11, v12, v13>>
  PROVE  T!CallsInv'
<1>1. /\ T!TypeOK /\ T!BatchInHand /\ T!ViewsAreOld /\ T!HandsAreApart
      /\ T!TextStays /\ T!LabelsHaveText /\ T!OnlyGoneAreGivenUp /\ T!ZeroIsWritten
  BY DEF T!CallsInv
<1>2. /\ rows \subseteq CallNames /\ rows \subseteq v7[k].done /\ v7[k].todo \cap v7[k].done = {}
      /\ v7[k].text \cap v7[k].gone = {}
      /\ \A c \in v7[k].gone : k # "label" /\ T!Gone(c)
      /\ ~v7[k].lost => v7[k].done \subseteq v7[k].text \cup v7[k].gone
                                          \cup IF k = "label" THEN v5 ELSE T!Written
  BY <1>1, CallTypes DEF T!BatchInHand, T!TypeOK
<1>3. /\ v4' \in T!Texts /\ v5' \subseteq CallNames /\ v10' \subseteq CallNames
      /\ v5 \subseteq v5' /\ v10 \subseteq v10'
      /\ k = "label" => v5' = v5 \cup rows /\ v4' = v4 /\ v10' = v10
      /\ k # "label" => /\ v5' = v5 /\ v10' = v10 \cup (v7[k].text \cap rows)
                        /\ \A c \in CallNames :
                             /\ c \in v7[k].text \cap rows => v4'[c] = "text"
                             /\ c \notin v7[k].text \cap rows /\ c \in v7[k].gone \cap rows => v4'[c] = "sentinel"
                             /\ c \notin rows => v4'[c] = v4[c]
  <2>1. CASE k = "label"
    BY <1>1, <1>2, <2>1, CallTypes DEF T!Insert
  <2>2. CASE k # "label"
    <3>1. /\ v4' = T!Upserted(v7[k].text \cap rows, v7[k].gone \cap rows)
          /\ v10' = v10 \cup (v7[k].text \cap rows) /\ v5' = v5
      BY <2>2 DEF T!Insert
    <3>2. \A c \in CallNames :
            v4'[c] = CASE c \in v7[k].text \cap rows -> "text"
                       [] c \in v7[k].gone \cap rows -> "sentinel" [] OTHER -> v4[c]
      BY <3>1 DEF T!Upserted
    <3>3. \A c \in CallNames : v4[c] \in {"none", "text", "sentinel"}
      BY <1>1, CallTypes DEF T!Texts
    <3>4. \A c \in CallNames :
            /\ c \in v7[k].text \cap rows => v4'[c] = "text"
            /\ c \notin v7[k].text \cap rows /\ c \in v7[k].gone \cap rows => v4'[c] = "sentinel"
            /\ c \notin rows => v4'[c] = v4[c]
      <4> SUFFICES ASSUME NEW c \in CallNames
                   PROVE  /\ c \in v7[k].text \cap rows => v4'[c] = "text"
                          /\ c \notin v7[k].text \cap rows /\ c \in v7[k].gone \cap rows => v4'[c] = "sentinel"
                          /\ c \notin rows => v4'[c] = v4[c]
        OBVIOUS
      <4>1. v4'[c] = CASE c \in v7[k].text \cap rows -> "text"
                       [] c \in v7[k].gone \cap rows -> "sentinel" [] OTHER -> v4[c]
        BY <3>2
      <4>2. CASE c \in v7[k].text \cap rows
        BY <1>2, <4>1, <4>2
      <4>3. CASE c \notin v7[k].text \cap rows /\ c \in v7[k].gone \cap rows
        BY <4>1, <4>3
      <4>4. CASE c \notin rows
        BY <4>1, <4>4
      <4> QED BY <4>2, <4>3, <4>4
    <3>5. \A c \in CallNames : v4'[c] \in {"none", "text", "sentinel"}
      BY <3>3, <3>4
    <3>6. v4' = [c \in CallNames |-> v4'[c]]
      BY <3>1 DEF T!Upserted
    <3>7. v4' \in T!Texts
      BY <3>5, <3>6 DEF T!Texts
    <3> QED BY <1>1, <2>2, <3>1, <3>4, <3>7, CallTypes
  <2> QED BY <2>1, <2>2
<1>4. /\ T!Written \subseteq T!Written' /\ (k # "label" => rows \subseteq T!Written')
      /\ T!Written' \subseteq T!Written \cup (IF k = "label" THEN {} ELSE rows)
  BY <1>2, <1>3 DEF T!Written
<1>5. /\ v7'[k].text = {} /\ v7'[k].gone = {} /\ v7'[k].todo \subseteq v7[k].todo
      /\ v7'[k].done = {} \/ (v7'[k].done = v7[k].done /\ v7'[k].at = "work")
      /\ v7'[k].todo \cap v7'[k].done = {}
      /\ v7'[k].at = "idle" => v7'[k] = T!Idle
  BY <1>2 DEF T!Idle
<1>6. T!Cardinality({}) + T!Cardinality({}) < CallFlush
  BY CallsAreCounted, CallAssumption
<1>7. T!TypeOK'
  <2>1. ASSUME NEW o \in T!Job
        PROVE  /\ v7'[o].at = "idle" => v7'[o] = T!Idle
               /\ v7'[o].todo \cap v7'[o].done = {}
               /\ T!Cardinality(v7'[o].text) + T!Cardinality(v7'[o].gone) <= CallFlush
    <3>1. CASE o = k
      <4>1. T!Cardinality({}) + T!Cardinality({}) <= CallFlush
        BY CallsAreCounted, CallAssumption
      <4> QED BY <1>5, <3>1, <4>1
    <3>2. CASE o # k
      BY <1>1, <3>2 DEF T!TypeOK
    <3> QED BY <3>1, <3>2
  <2> QED BY <1>1, <1>3, <2>1 DEF T!TypeOK
<1>8. T!BatchInHand'
  <2> SUFFICES ASSUME NEW o \in T!Job
               PROVE  /\ v7'[o].at = "work" => T!Cardinality(v7'[o].text) + T!Cardinality(v7'[o].gone) < CallFlush
                      /\ v7'[o].text \cup v7'[o].gone \subseteq v7'[o].done /\ v7'[o].text \cap v7'[o].gone = {}
                      /\ \A c \in v7'[o].gone : o # "label" /\ T!Gone(c)'
                      /\ ~v7'[o].lost => v7'[o].done \subseteq v7'[o].text \cup v7'[o].gone
                                                     \cup IF o = "label" THEN v5' ELSE T!Written'
    BY DEF T!BatchInHand, T!Cardinality
  <2>1. CASE o = k
    <3>1. ASSUME ~v7'[k].lost, v7'[k].done # {}
          PROVE  v7[k].done \subseteq IF k = "label" THEN v5' ELSE T!Written'
      <4>1. ~v7[k].lost /\ rows = v7[k].text \cup v7[k].gone
        BY <3>1 DEF T!Idle
      <4> QED BY <1>2, <1>3, <1>4, <4>1
    <3>2. ~v7'[k].lost => v7'[k].done \subseteq IF k = "label" THEN v5' ELSE T!Written'
      BY <1>5, <3>1
    <3> QED BY <1>5, <1>6, <2>1, <3>2
  <2>2. CASE o # k
    BY <1>1, <1>3, <1>4, <2>2 DEF T!BatchInHand, T!Gone
  <2> QED BY <2>1, <2>2
<1>9. T!ViewsAreOld'
  <2>1. v7'["label"].todo \cup v7'["label"].text \subseteq v10'
    BY <1>1, <1>3, <1>5 DEF T!ViewsAreOld, T!Job
  <2>2. ASSUME NEW c \in CallNames
        PROVE  /\ v4'[c] = "text" => c \in v10'
               /\ v4'[c] = "none" => v4[c] = "none"
    BY <1>1, <1>3 DEF T!ViewsAreOld
  <2>3. \A c \in CallNames : v6[c] = v6[c] /\ (v6.transcript[c] = "text" => c \in v10')
    BY <1>1, <1>3 DEF T!ViewsAreOld
  <2> QED BY <1>1, <2>1, <2>2, <2>3 DEF T!ViewsAreOld
<1>10. T!HandsAreApart'
  <2>1. \A o \in T!Job \ {k} : T!Hands(o)' = T!Hands(o)
    BY DEF T!Hands
  <2>2. T!Hands(k)' \subseteq v7[k].todo /\ v7[k].todo \subseteq T!Hands(k) /\ rows \subseteq T!Hands(k)
        /\ v7[k].todo \cap rows = {}
    BY <1>2, <1>5 DEF T!Hands
  <2>3. /\ T!Hands("cron") \cap T!Hands("heal") \subseteq v11
        /\ (T!Hands("cron") \cup T!Hands("heal")) \cap T!Written \subseteq v11
    BY <1>1 DEF T!HandsAreApart
  <2>4. CASE k = "label"
    BY <1>4, <2>1, <2>3, <2>4 DEF T!HandsAreApart, T!Job
  <2>5. CASE k = "cron"
    BY <1>4, <2>1, <2>2, <2>3, <2>5 DEF T!HandsAreApart, T!Job
  <2>6. CASE k = "heal"
    BY <1>4, <2>1, <2>2, <2>3, <2>6 DEF T!HandsAreApart, T!Job
  <2> QED BY <2>4, <2>5, <2>6 DEF T!Job
<1>11. T!CountsInOrder'
  <2>1. \A c \in CallNames : v4'[c] = "none" => v4[c] = "none"
    BY <1>3
  <2> QED BY <1>1, <1>3, <2>1, CallsStillCounted DEF T!CallsInv
<1>12. T!TextStays'
  <2> SUFFICES ASSUME NEW c \in v10' PROVE v4'[c] = "text" \/ c \in v11
    BY DEF T!TextStays
  <2>1. CASE k = "label"
    BY <1>1, <1>3, <2>1 DEF T!TextStays
  <2>2. CASE k # "label" /\ c \in v7[k].text \cap rows
    BY <1>2, <1>3, <2>2
  <2>3. CASE k # "label" /\ c \notin v7[k].text \cap rows
    <3>1. c \in v10 /\ (v4[c] = "text" \/ c \in v11)
      BY <1>1, <1>3, <2>3 DEF T!TextStays
    <3>2. CASE c \in rows /\ v4[c] = "text"
      <4>1. c \in T!Hands(k) /\ c \in T!Written
        BY <1>2, <3>2 DEF T!Hands, T!Written
      <4> QED BY <1>1, <2>3, <4>1 DEF T!HandsAreApart, T!Job
    <3>3. CASE c \notin rows /\ v4[c] = "text"
      <4>1. c \in CallNames
        BY <1>1, <3>1, CallTypes
      <4> QED BY <1>3, <2>3, <3>3, <4>1
    <3> QED BY <3>1, <3>2, <3>3
  <2> QED BY <2>1, <2>2, <2>3
<1>13. T!LabelsHaveText'
  <2>1. k = "label" => rows \subseteq v7["label"].text
    BY <1>2
  <2> QED BY <1>1, <1>3, <2>1 DEF T!LabelsHaveText, T!ViewsAreOld
<1>14. T!OnlyGoneAreGivenUp'
  <2> SUFFICES ASSUME NEW c \in CallNames, v4'[c] = "sentinel" PROVE v3[c] = "deleted" \/ v1 - CallDays[c] > CallGrace
    BY DEF T!OnlyGoneAreGivenUp
  <2>1. CASE v4[c] = "sentinel"
    BY <1>1, <2>1 DEF T!OnlyGoneAreGivenUp
  <2>2. CASE v4[c] # "sentinel"
    <3>1. c \in v7[k].gone
      BY <1>3, <2>2
    <3> QED BY <1>2, <3>1 DEF T!Gone
  <2> QED BY <2>1, <2>2
<1>15. T!ZeroIsWritten'
  <2>1. v9["cron"] \cup v9["heal"] \subseteq T!Written /\ v9["label"] \subseteq v5
    BY <1>1 DEF T!ZeroIsWritten
  <2>2. v9'[k] = v9[k] \/ v9'[k] \subseteq IF k = "label" THEN v5' ELSE T!Written'
    BY <1>2, <1>3, <1>4
  <2>3. \A o \in T!Job : v9'[o] = v9[o] \/ (o = k /\ v9'[o] \subseteq IF o = "label" THEN v5' ELSE T!Written')
    BY <2>2
  <2> QED BY <1>3, <1>4, <2>1, <2>3 DEF T!ZeroIsWritten, T!Job
<1> QED BY <1>7, <1>8, <1>9, <1>10, <1>11, <1>12, <1>13, <1>14, <1>15 DEF T!CallsInv

\* A state that was read or is new: a day at the threshold is in its page.
LEMMA CallsRemembered ==
  ASSUME T!CallsInv, NEW issues, DOMAIN issues \subseteq T!Day, NEW was \in {T!Filed, T!NoState}
  PROVE  /\ T!Fails(issues, was) \in [T!Day -> 0..2] /\ was.fails \in [T!Day -> 0..2]
         /\ \A d \in T!Day : was.fails[d] = 2 => d \in DOMAIN was.sig
         /\ \A d \in T!Day : T!Fails(issues, was)[d] = 2 => d \in DOMAIN T!Paged(issues, was)
         /\ \A d \in DOMAIN issues : was.fails[d] # 2 => T!Fails(issues, was)[d] = was.fails[d] + 1
         /\ \A d \in DOMAIN issues : was.fails[d] = 2 => T!Fails(issues, was)[d] = 2
<1>1. v8.fails \in [T!Day -> 0..2] /\ \A d \in T!Day : v8.fails[d] = 2 => d \in DOMAIN v8.sig
  BY DEF T!CallsInv, T!TypeOK, T!CountsInOrder, T!Threshold
<1>2. was.fails \in [T!Day -> 0..2] /\ \A d \in T!Day : was.fails[d] = 2 => d \in DOMAIN was.sig
  <2>1. T!NoFails \in [T!Day -> 0..2] /\ \A d \in T!Day : T!NoFails[d] = 0
    BY DEF T!NoFails
  <2>2. CASE was = T!Filed
    BY <1>1, <2>2 DEF T!Filed
  <2>3. CASE was = T!NoState
    BY <2>1, <2>3 DEF T!NoState
  <2> QED BY <2>2, <2>3
<1>3. T!Fails(issues, was) = [d \in T!Day |-> IF d \notin DOMAIN issues THEN 0
                                            ELSE IF was.fails[d] = 2 THEN 2 ELSE was.fails[d] + 1]
  BY DEF T!Fails, T!Threshold
<1>4. \A d \in T!Day : T!Fails(issues, was)[d] \in 0..2
  <2> SUFFICES ASSUME NEW d \in T!Day PROVE T!Fails(issues, was)[d] \in 0..2
    OBVIOUS
  <2>1. was.fails[d] \in 0..2
    BY <1>2
  <2> QED BY <1>3, <2>1
<1>5. T!Fails(issues, was) \in [T!Day -> 0..2]
  BY <1>3, <1>4
<1>6. \A d \in T!Day : T!Fails(issues, was)[d] = 2 => d \in DOMAIN issues
  BY <1>3
<1>7. DOMAIN T!Paged(issues, was) = {e \in DOMAIN issues : T!Fails(issues, was)[e] = 2}
  BY DEF T!Paged, T!Threshold
<1> QED BY <1>2, <1>3, <1>5, <1>6, <1>7

\* The watchdog's verdict.
LEMMA CallsJudged ==
  ASSUME T!CallsInv, NEW issues, NEW fresh \in BOOLEAN, NEW fault \in BOOLEAN, T!Judge(issues, fresh, fault),
         DOMAIN issues \subseteq T!Day,
         fresh => \A d \in T!Window : T!Gap(d, T!Live) > CallTolerance => d \in DOMAIN issues,
         v1' = v1, v2' \in 0..4,
         UNCHANGED <<v3, v4, v5, v6, v7, v9, v10, v11>>
  PROVE  T!CallsInv'
<1>1. T!TypeOK /\ T!CountsInOrder /\ v8.lost \in BOOLEAN
  BY DEF T!CallsInv, T!TypeOK
<1>2. PICK was \in {T!Filed, T!NoState} :
        \E file \in {[fails |-> T!Fails(issues, was), sig |-> T!Paged(issues, was)], T!Filed, T!NoState} :
          LET new   == [fails |-> T!Fails(issues, was), sig |-> T!Paged(issues, was)]
              slips == was # T!Filed \/ file # new
          IN  /\ T!Counts(fault \/ slips)
              /\ v8' = [step |-> "idle", issues |-> T!NoIssues, fresh |-> FALSE,
                        fails |-> file.fails, sig |-> file.sig,
                        lost |-> slips \/ (v8.lost /\ new.sig = was.sig)]
              /\ v13' = IF new.sig # was.sig THEN DOMAIN new.sig ELSE v13
              /\ v12' = [d \in T!Day |->
                           IF d \in T!Window /\ T!Gap(d, T!Live) > CallTolerance /\ fresh /\ ~slips
                           THEN IF v12[d] = T!Threshold THEN T!Threshold ELSE v12[d] + 1 ELSE 0]
  BY Zenon DEF T!Judge
<1> DEFINE fails == T!Fails(issues, was)
           sig   == T!Paged(issues, was)
           new   == [fails |-> fails, sig |-> sig]
<1>3. PICK file \in {new, T!Filed, T!NoState} :
          LET slips == was # T!Filed \/ file # new
          IN  /\ T!Counts(fault \/ slips)
              /\ v8' = [step |-> "idle", issues |-> T!NoIssues, fresh |-> FALSE,
                        fails |-> file.fails, sig |-> file.sig,
                        lost |-> slips \/ (v8.lost /\ new.sig = was.sig)]
              /\ v13' = IF new.sig # was.sig THEN DOMAIN new.sig ELSE v13
              /\ v12' = [d \in T!Day |->
                           IF d \in T!Window /\ T!Gap(d, T!Live) > CallTolerance /\ fresh /\ ~slips
                           THEN IF v12[d] = T!Threshold THEN T!Threshold ELSE v12[d] + 1 ELSE 0]
  BY <1>2
<1> DEFINE slips == was # T!Filed \/ file # new
<1>4. /\ fails \in [T!Day -> 0..2] /\ \A d \in T!Day : fails[d] = 2 => d \in DOMAIN sig
      /\ \A d \in DOMAIN issues : was.fails[d] # 2 => fails[d] = was.fails[d] + 1
      /\ \A d \in DOMAIN issues : was.fails[d] = 2 => fails[d] = 2
  BY CallsRemembered
<1>5. /\ v8.fails \in [T!Day -> 0..2] /\ v12 \in [T!Day -> 0..2]
      /\ \A d \in T!Day : v12[d] \in 0..2 /\ v8.fails[d] \in 0..2 /\ v12[d] <= v8.fails[d]
  BY <1>1 DEF T!TypeOK, T!Threshold, T!CountsInOrder
<1>6. file.fails \in [T!Day -> 0..2] /\ \A d \in T!Day : file.fails[d] = 2 => d \in DOMAIN file.sig
  <2>1. CASE file \in {T!Filed, T!NoState}
    BY <2>1, CallsRemembered
  <2>2. CASE file = new
    <3>1. file.fails = fails /\ file.sig = sig
      BY <2>2
    <3> HIDE DEF fails, sig, new
    <3> QED BY <1>4, <3>1
  <2> HIDE DEF new
  <2> QED BY <2>1, <2>2
<1>7. ~slips => /\ was.fails = v8.fails /\ was.sig = v8.sig
                /\ file.fails = fails /\ file.sig = sig
  BY DEF T!Filed
<1>8. /\ v8' = [step |-> "idle", issues |-> T!NoIssues, fresh |-> FALSE, fails |-> file.fails,
                sig |-> file.sig, lost |-> slips \/ (v8.lost /\ sig = was.sig)]
      /\ v13' = IF sig # was.sig THEN DOMAIN sig ELSE v13
      /\ v12' = [d \in T!Day |->
                   IF d \in T!Window /\ T!Gap(d, T!Live) > CallTolerance /\ fresh /\ ~slips
                   THEN IF v12[d] = 2 THEN 2 ELSE v12[d] + 1 ELSE 0]
  BY <1>3 DEF T!Threshold
<1>9. v14' \in 0..CallFaults
  <2>1. T!Counts(fault \/ slips) /\ (fault \/ slips) \in BOOLEAN
    BY <1>3
  <2> QED BY <1>1, <2>1, CallFaultsCounted
<1> HIDE DEF fails, sig, new, slips
<1>10. \A d \in T!Day : v12'[d] \in 0..2 /\ v12'[d] <= file.fails[d]
  <2> SUFFICES ASSUME NEW d \in T!Day PROVE v12'[d] \in 0..2 /\ v12'[d] <= file.fails[d]
    OBVIOUS
  <2>1. v12[d] \in 0..2 /\ v8.fails[d] \in 0..2 /\ v12[d] <= v8.fails[d] /\ file.fails[d] \in 0..2
    BY <1>5, <1>6
  <2>2. CASE d \in T!Window /\ T!Gap(d, T!Live) > CallTolerance /\ fresh /\ ~slips
    <3>1. d \in DOMAIN issues
      BY <2>2
    <3>2. file.fails[d] = IF v8.fails[d] = 2 THEN 2 ELSE v8.fails[d] + 1
      BY <1>4, <1>7, <2>2, <3>1
    <3>3. v12'[d] = IF v12[d] = 2 THEN 2 ELSE v12[d] + 1
      BY <1>8, <2>2
    <3> QED BY <2>1, <3>2, <3>3
  <2>3. CASE ~(d \in T!Window /\ T!Gap(d, T!Live) > CallTolerance /\ fresh /\ ~slips)
    <3>1. v12'[d] = 0
      BY <1>8, <2>3
    <3> QED BY <2>1, <3>1
  <2> QED BY <2>2, <2>3
<1>11. v12' \in [T!Day -> 0..2]
  BY <1>8, <1>10
<1>12. v8'.lost \in BOOLEAN /\ (v8'.lost \/ v13' = DOMAIN v8'.sig)
  <2>1. v8'.lost = (slips \/ (v8.lost /\ sig = was.sig)) /\ v8'.sig = file.sig
    BY <1>8
  <2>2. CASE slips
    BY <2>1, <2>2
  <2>3. CASE ~slips /\ sig # was.sig
    <3>1. v13' = DOMAIN sig /\ file.sig = sig
      BY <1>7, <1>8, <2>3
    <3> QED BY <2>1, <2>3, <3>1
  <2>4. CASE ~slips /\ sig = was.sig
    <3>1. v13' = v13 /\ file.sig = v8.sig /\ (v8.lost \/ v13 = DOMAIN v8.sig)
      BY <1>1, <1>7, <1>8, <2>4 DEF T!CountsInOrder
    <3> QED BY <1>1, <2>1, <2>4, <3>1
  <2> QED BY <2>2, <2>3, <2>4
<1>13. /\ DOMAIN v8' = {"step", "issues", "fresh", "fails", "sig", "lost"} /\ v8'.step = "idle"
       /\ v8'.issues = T!NoIssues /\ v8'.fresh = FALSE /\ v8'.fails = file.fails /\ v8'.sig = file.sig
  BY <1>8
<1>14. T!TypeOK'
  <2>1. DOMAIN v8'.issues \subseteq T!Day
    BY <1>13 DEF T!NoIssues
  <2> QED BY <1>1, <1>6, <1>9, <1>11, <1>12, <1>13, <2>1 DEF T!TypeOK, T!Threshold
<1>15. T!CountsInOrder'
  BY <1>6, <1>10, <1>12, <1>13 DEF T!CountsInOrder, T!Threshold
<1>16. T!BatchInHand' /\ T!ViewsAreOld' /\ T!HandsAreApart'
  BY DEF T!CallsInv, T!BatchInHand, T!ViewsAreOld, T!HandsAreApart, T!Hands, T!Written, T!Gone
<1>17. T!TextStays' /\ T!LabelsHaveText' /\ T!OnlyGoneAreGivenUp' /\ T!ZeroIsWritten'
  BY DEF T!CallsInv, T!TextStays, T!LabelsHaveText, T!OnlyGoneAreGivenUp, T!ZeroIsWritten, T!Written
<1> QED BY <1>14, <1>15, <1>16, <1>17 DEF T!CallsInv

\* What a look finds, and its finding today what the tables are short of.
LEMMA CallsFound ==
  ASSUME T!CallsInv, NEW view \in {T!Live, v6}
  PROVE  /\ DOMAIN T!Issues(view) \subseteq T!Day
         /\ view.day = v1 => \A d \in T!Window : T!Gap(d, T!Live) > CallTolerance => d \in DOMAIN T!Issues(view)
<1>1. DOMAIN T!Issues(view) = {d \in T!Window : T!Gap(d, view) > CallTolerance} /\ T!Window \subseteq T!Day
  BY DEF T!Issues, T!Window
<1> QED BY <1>1, ViewsCountMore DEF T!CallsInv

\* The first look.
LEMMA CallsWatched == ASSUME T!CallsInv, T!Watchdog PROVE T!CallsInv'
<1>1. T!TypeOK /\ v8.step = "idle" /\ v2' \in 0..4
      /\ UNCHANGED <<v1, v3, v4, v5, v6, v7, v9, v10, v11>>
  BY DEF T!CallsInv, T!Watchdog, T!Begins
<1>2. CASE T!Counts(TRUE) /\ UNCHANGED <<v8, v12, v13>>
  <2>1. v14' \in 0..CallFaults
    BY <1>1, <1>2, CallFaultsCounted
  <2> QED BY <1>1, <1>2, <2>1, CallTypes, CallsKept
<1>3. ASSUME NEW view \in {T!Live, v6},
             IF T!Issues(view) = T!NoIssues THEN T!Judge(T!NoIssues, view.day = v1, view # T!Live)
             ELSE /\ T!Counts(view # T!Live)
                  /\ v8' = [v8 EXCEPT !.step = "heal", !.issues = T!Issues(view), !.fresh = view.day = v1]
                  /\ UNCHANGED <<v12, v13>>
      PROVE  T!CallsInv'
  <2>2. (view.day = v1) \in BOOLEAN /\ (view # T!Live) \in BOOLEAN
    OBVIOUS
  <2>3. CASE T!Issues(view) = T!NoIssues
    <3>1. DOMAIN T!NoIssues \subseteq T!Day
          /\ (view.day = v1 => \A d \in T!Window : T!Gap(d, T!Live) > CallTolerance => d \in DOMAIN T!NoIssues)
      BY <1>3, <2>3, CallsFound
    <3>2. T!Judge(T!NoIssues, view.day = v1, view # T!Live)
      BY <1>3, <2>3
    <3> QED BY <1>1, <2>2, <3>1, <3>2, CallsJudged
  <2>4. CASE T!Issues(view) # T!NoIssues
    <3>0. T!Counts(view # T!Live)
      BY <1>3, <2>4
    <3>6. v14' \in 0..CallFaults
      BY <1>1, <2>2, <3>0, CallFaultsCounted
    <3>1. v8' = [v8 EXCEPT !.step = "heal", !.issues = T!Issues(view), !.fresh = view.day = v1] /\ UNCHANGED <<v12, v13>>
      BY <1>3, <2>4
    <3>2. /\ DOMAIN v8' = {"step", "issues", "fresh", "fails", "sig", "lost"} /\ v8'.step = "heal"
          /\ v8'.issues = T!Issues(view) /\ v8'.fresh = (view.day = v1) /\ v8'.fails = v8.fails /\ v8'.sig = v8.sig
          /\ v8'.lost = v8.lost
      BY <1>1, <3>1 DEF T!TypeOK
    <3>3. T!TypeOK'
      BY <1>1, <1>3, <2>2, <3>1, <3>2, <3>6, CallsFound DEF T!TypeOK
    <3>4. T!CountsInOrder'
      <4>1. T!Live' = T!Live /\ T!Window' = T!Window
        BY <1>1 DEF T!Live, T!Window
      <4>2. \A d \in T!Day : T!Gap(d, T!Live)' = T!Gap(d, T!Live)
        BY <4>1 DEF T!Gap, T!Known, T!Cardinality
      <4>3. T!CountsInOrder
        BY DEF T!CallsInv
      <4> QED BY <1>3, <3>1, <3>2, <4>1, <4>2, <4>3, CallsFound DEF T!CountsInOrder, T!Window
    <3>5. T!BatchInHand' /\ T!ViewsAreOld' /\ T!HandsAreApart'
      BY <1>1 DEF T!CallsInv, T!BatchInHand, T!ViewsAreOld, T!HandsAreApart, T!Hands, T!Written, T!Gone
    <3>7. T!TextStays' /\ T!LabelsHaveText' /\ T!OnlyGoneAreGivenUp' /\ T!ZeroIsWritten'
      BY <1>1 DEF T!CallsInv, T!TextStays, T!LabelsHaveText, T!OnlyGoneAreGivenUp, T!ZeroIsWritten, T!Written
    <3> QED BY <3>3, <3>4, <3>5, <3>7 DEF T!CallsInv
  <2> QED BY <2>3, <2>4
<1> QED BY <1>2, <1>3 DEF T!Watchdog

\* The second look, after the job.
LEMMA CallsRechecked == ASSUME T!CallsInv, T!ReCheck PROVE T!CallsInv'
<1>1. T!TypeOK /\ v8.step = "read" /\ v2 \in 0..4
      /\ UNCHANGED <<v1, v2, v3, v4, v5, v6, v7, v9, v10, v11>>
  BY DEF T!CallsInv, T!ReCheck, T!TypeOK
<1>2. CASE T!Judge(v8.issues, v8.fresh, TRUE)
  <2>1. v8.fresh \in BOOLEAN /\ DOMAIN v8.issues \subseteq T!Day
    BY <1>1 DEF T!TypeOK
  <2>2. v8.fresh => \A d \in T!Window : T!Gap(d, T!Live) > CallTolerance => d \in DOMAIN v8.issues
    BY <1>1 DEF T!CallsInv, T!CountsInOrder
  <2> QED BY <1>1, <1>2, <2>1, <2>2, CallsJudged
<1>3. ASSUME NEW view \in {T!Live, v6}, T!Judge(T!Issues(view), view.day = v1, view # T!Live)
      PROVE  T!CallsInv'
  <2>1. (view.day = v1) \in BOOLEAN /\ (view # T!Live) \in BOOLEAN
    OBVIOUS
  <2> QED BY <1>1, <1>3, <2>1, CallsFound, CallsJudged
<1> QED BY <1>2, <1>3 DEF T!ReCheck

\* A burst that lands, one that gives up, and a death.
LEMMA CallsEnded ==
  ASSUME T!CallsInv, NEW k \in T!Job, T!Flush(k) \/ T!FlushGivesUp(k) \/ T!Dies(k)
  PROVE  T!CallsInv'
<1>1. /\ T!TypeOK /\ T!BatchInHand /\ v7 \in [T!Job -> T!Run] /\ v9 \in [T!Job -> SUBSET CallNames]
      /\ v7[k] \in T!Run /\ v7[k].done \subseteq CallNames /\ v7[k].lost \in BOOLEAN /\ v14 \in 0..CallFaults
  BY CallTypes DEF T!CallsInv, T!Run
<1>2. UNCHANGED <<v1, v2, v3, v6, v8, v11, v12, v13>>
  BY DEF T!Flush, T!FlushGivesUp, T!Dies
<1>3. T!Idle \in T!Run
  BY DEF T!Idle, T!Run
<1>4. ASSUME NEW lost \in BOOLEAN, T!AfterFlush(k, lost)
      PROVE  /\ v7' \in [T!Job -> T!Run] /\ \A o \in T!Job \ {k} : v7'[o] = v7[o] /\ v9'[o] = v9[o]
             /\ \/ v7'[k] = T!Idle
                \/ /\ v7'[k].at = "work" /\ v7'[k].todo = v7[k].todo /\ v7'[k].text = {} /\ v7'[k].gone = {}
                   /\ v7'[k].done = v7[k].done /\ v7'[k].lost = lost
             /\ v9' \in [T!Job -> SUBSET CallNames]
             /\ v9'[k] = v9[k] \/ v9'[k] = {} \/ (v9'[k] = v7[k].done /\ ~lost)
  <2>1. CASE v7[k].todo # {}
    <3>1. v7' = [v7 EXCEPT ![k].at = "work", ![k].text = {}, ![k].gone = {}, ![k].lost = lost] /\ v9' = v9
      BY <1>4, <2>1 DEF T!AfterFlush
    <3>2. /\ DOMAIN v7' = T!Job /\ v7' = [o \in T!Job |-> v7'[o]]
          /\ \A o \in T!Job \ {k} : v7'[o] = v7[o]
          /\ v7'[k].at = "work" /\ v7'[k].todo = v7[k].todo /\ v7'[k].text = {} /\ v7'[k].gone = {}
          /\ v7'[k].done = v7[k].done /\ v7'[k].lost = lost
      BY <1>1, <3>1 DEF T!Run
    <3>3. v7'[k] \in T!Run
      BY <1>1, <3>1 DEF T!Run
    <3>4. \A o \in T!Job : v7'[o] \in T!Run
      BY <1>1, <3>2, <3>3
    <3>5. v7' \in [T!Job -> T!Run]
      BY <3>2, <3>4
    <3> QED BY <1>1, <3>1, <3>2, <3>5
  <2>2. CASE v7[k].todo = {}
    <3>1. v7' = [v7 EXCEPT ![k] = T!Idle] /\ v9' = [v9 EXCEPT ![k] = IF lost THEN {} ELSE v7[k].done]
      BY <1>4, <2>2 DEF T!AfterFlush
    <3> QED BY <1>1, <1>3, <3>1
  <2> QED BY <2>1, <2>2
<1>5. CASE T!Flush(k)
  <2>1. T!Insert(k, v7[k].text \cup v7[k].gone) /\ T!AfterFlush(k, v7[k].lost) /\ v14' = v14
    BY <1>5 DEF T!Flush
  <2> DEFINE rows == v7[k].text \cup v7[k].gone
  <2>2. rows \in SUBSET (v7[k].text \cup v7[k].gone) /\ rows = v7[k].text \cup v7[k].gone /\ T!Insert(k, rows)
    BY <2>1
  <2> HIDE DEF rows
  <2> QED BY <1>1, <1>2, <1>4, <2>1, <2>2, CallsEnd
<1>6. ASSUME v14' \in 0..CallFaults, UNCHANGED <<v4, v5, v10>>,
             T!AfterFlush(k, TRUE) \/ (v7' = [v7 EXCEPT ![k] = T!Idle] /\ v9' = v9)
      PROVE  T!CallsInv'
  <2>1. {} \in SUBSET (v7[k].text \cup v7[k].gone) /\ T!Insert(k, {})
    <3>1. v4 = T!Upserted({}, {})
      <4>1. \A c \in CallNames : T!Upserted({}, {})[c] = v4[c]
        BY DEF T!Upserted
      <4>2. v4 = [c \in CallNames |-> v4[c]] /\ T!Upserted({}, {}) = [c \in CallNames |-> T!Upserted({}, {})[c]]
        BY <1>1, CallTypes DEF T!Upserted, T!Texts
      <4> QED BY <4>1, <4>2
    <3>2. v7[k].text \cap {} = {} /\ v7[k].gone \cap {} = {} /\ v10 \cup {} = v10 /\ v5 \cup {} = v5
      OBVIOUS
    <3> QED BY <1>6, <3>1, <3>2 DEF T!Insert
  <2>2. CASE T!AfterFlush(k, TRUE)
    <3>1. /\ v7' \in [T!Job -> T!Run] /\ \A o \in T!Job \ {k} : v7'[o] = v7[o] /\ v9'[o] = v9[o]
          /\ \/ v7'[k] = T!Idle
             \/ /\ v7'[k].at = "work" /\ v7'[k].todo = v7[k].todo /\ v7'[k].text = {} /\ v7'[k].gone = {}
                /\ v7'[k].done = v7[k].done /\ v7'[k].lost
          /\ v9' \in [T!Job -> SUBSET CallNames] /\ (v9'[k] = v9[k] \/ v9'[k] = {})
      BY <1>4, <2>2
    <3> QED BY <1>2, <1>6, <2>1, <3>1, CallsEnd
  <2>3. CASE v7' = [v7 EXCEPT ![k] = T!Idle] /\ v9' = v9
    <3>1. /\ v7' \in [T!Job -> T!Run] /\ v7'[k] = T!Idle /\ v9'[k] = v9[k] /\ v9' \in [T!Job -> SUBSET CallNames]
          /\ \A o \in T!Job \ {k} : v7'[o] = v7[o] /\ v9'[o] = v9[o]
      BY <1>1, <1>3, <2>3
    <3> QED BY <1>2, <1>6, <2>1, <3>1, CallsEnd
  <2> QED BY <1>6, <2>2, <2>3
<1>7. CASE T!FlushGivesUp(k)
  <2>1. T!Counts(TRUE) /\ UNCHANGED <<v4, v5, v10>>
        /\ (T!AfterFlush(k, TRUE) \/ (v7' = [v7 EXCEPT ![k] = T!Idle] /\ v9' = v9))
    BY <1>7 DEF T!FlushGivesUp
  <2> QED BY <1>1, <1>6, <2>1, CallFaultsCounted
<1>8. CASE T!Dies(k)
  <2>1. PICK rows \in SUBSET (v7[k].text \cup v7[k].gone) : T!Insert(k, rows)
    BY <1>8 DEF T!Dies
  <2>2. T!Counts(TRUE) /\ v7' = [v7 EXCEPT ![k] = T!Idle] /\ v9' = v9
    BY <1>8 DEF T!Dies
  <2>3. v14' \in 0..CallFaults
    BY <1>1, <2>2, CallFaultsCounted
  <2>4. /\ v7' \in [T!Job -> T!Run] /\ v7'[k] = T!Idle /\ v9'[k] = v9[k] /\ v9' \in [T!Job -> SUBSET CallNames]
        /\ \A o \in T!Job \ {k} : v7'[o] = v7[o] /\ v9'[o] = v9[o]
    BY <1>1, <1>3, <2>2
  <2> QED BY <1>2, <2>1, <2>3, <2>4, CallsEnd
<1> QED BY <1>5, <1>7, <1>8

\* A call, or a text, of the list.
LEMMA CallsTaken ==
  ASSUME T!CallsInv, (\E k \in {"cron", "heal"} : T!Transcribe(k)) \/ T!Classify
  PROVE  T!CallsInv'
<1>1. T!TypeOK
  BY DEF T!CallsInv
<1>2. ASSUME NEW k \in {"cron", "heal"}, T!Transcribe(k) PROVE T!CallsInv'
  <2>1. k \in T!Job /\ k # "label" /\ v7[k].at = "work" /\ UNCHANGED <<v1, v2, v3, v4, v5, v6, v8, v9, v10, v11, v12, v13>>
    BY <1>2 DEF T!Transcribe, T!Job
  <2>2. PICK c \in T!Newest(v7[k].todo), error \in BOOLEAN :
          /\ T!Counts(error)
          /\ \/ error /\ T!Takes(k, c, {}, {})
             \/ ~error /\ v3[c] = "there" /\ T!Takes(k, c, {c}, {})
             \/ v3[c] # "there" /\ T!Takes(k, c, {}, IF T!GivenUp(c, ~error) THEN {c} ELSE {})
    BY <1>2 DEF T!Transcribe
  <2>3. c \in v7[k].todo /\ v14' \in 0..CallFaults
    BY <1>1, <2>2, CallFaultsCounted DEF T!Newest
  <2>4. T!GivenUp(c, ~error) => T!Gone(c)
    BY DEF T!GivenUp, T!Gone
  <2>5. CASE T!Takes(k, c, {}, {})
    BY <2>1, <2>3, <2>5, CallsTake
  <2>6. CASE T!Takes(k, c, {c}, {})
    BY <2>1, <2>3, <2>6, CallsTake
  <2>7. CASE T!Takes(k, c, {}, {c}) /\ T!GivenUp(c, ~error)
    BY <2>1, <2>3, <2>4, <2>7, CallsTake
  <2> QED BY <2>2, <2>5, <2>6, <2>7
<1>3. ASSUME T!Classify PROVE T!CallsInv'
  <2>1. "label" \in T!Job /\ v7["label"].at = "work" /\ UNCHANGED <<v1, v2, v3, v4, v5, v6, v8, v9, v10, v11, v12, v13>>
    BY <1>3 DEF T!Classify, T!Job
  <2>2. PICK c \in v7["label"].todo, error \in BOOLEAN :
          T!Counts(error) /\ T!Takes("label", c, T!Labels(c, error), {})
    BY <1>3 DEF T!Classify
  <2>3. v14' \in 0..CallFaults
    BY <1>1, <2>2, CallFaultsCounted
  <2>4. T!Labels(c, error) = {} \/ T!Labels(c, error) = {c}
    BY DEF T!Labels
  <2> QED BY <2>1, <2>2, <2>3, <2>4, CallsTake
<1> QED BY <1>2, <1>3

LEMMA CallsStep == ASSUME T!CallsInv, T!Next \/ UNCHANGED T!vars PROVE T!CallsInv'
<1>1. T!TypeOK /\ v1 \in T!Day /\ v1 \in Nat /\ v1 >= 1 /\ v1 <= CallLastDay /\ v2 \in 0..4 /\ v14 \in 0..CallFaults
      /\ v3 \in [CallNames -> {"processing", "there", "deleted"}]
  BY CallTypes DEF T!CallsInv, T!TypeOK
<1>2. ASSUME NEW c \in CallNames, T!Lands(c) \/ T!Deleted(c) PROVE T!CallsInv'
  <2>1. UNCHANGED <<v1, v2, v4, v5, v6, v7, v8, v9, v10, v11, v12, v13>>
    BY <1>2 DEF T!Lands, T!Deleted
  <2>2. /\ v3' \in [CallNames -> {"processing", "there", "deleted"}]
        /\ \A b \in CallNames : v3[b] = "deleted" => v3'[b] = "deleted"
    BY <1>1, <1>2 DEF T!Lands, T!Deleted
  <2>3. v14' \in 0..CallFaults
    BY <1>1, <1>2, CallFaultsCounted DEF T!Lands, T!Deleted
  <2> QED BY <1>1, <2>1, <2>2, <2>3, CallsKept
<1>3. ASSUME T!Nightly PROVE T!CallsInv'
  <2>1. v2' \in 0..4 /\ UNCHANGED <<v1, v3, v4, v5, v7, v8, v9, v10, v11, v12, v13>>
    BY <1>3 DEF T!Nightly, T!Begins
  <2>2. PICK fails \in BOOLEAN : T!Counts(fails) /\ v6' = IF fails THEN v6 ELSE T!Live
    BY <1>3 DEF T!Nightly
  <2>3. v14' \in 0..CallFaults
    BY <1>1, <2>2, CallFaultsCounted
  <2> QED BY <1>1, <2>1, <2>2, <2>3, CallsKept
<1>4. ASSUME T!NextDay PROVE T!CallsInv'
  <2>1. /\ v8.step = "idle" /\ v1 < CallLastDay /\ v1' = v1 + 1 /\ v2' = 0
        /\ UNCHANGED <<v3, v4, v5, v6, v7, v8, v9, v10, v11, v12, v13, v14>>
    BY <1>4 DEF T!NextDay
  <2>2. v1' \in T!Day /\ v1' >= v1
    BY <1>1, <2>1, CallAssumption DEF T!Day
  <2> QED BY <1>1, <2>1, <2>2, CallsKept
<1>5. ASSUME T!StillRuns \/ UNCHANGED T!vars PROVE T!CallsInv'
  <2>1. v2' \in 0..4 /\ UNCHANGED <<v1, v3, v4, v5, v6, v7, v8, v9, v10, v11, v12, v13, v14>>
    BY <1>1, <1>5 DEF T!StillRuns, T!Begins, T!vars
  <2> QED BY <1>1, <2>1, CallsKept
<1>6. ASSUME T!Label PROVE T!CallsInv'
  <2>1. "label" \in T!Job /\ T!Lists("label") /\ v1' = v1 /\ v2' \in 0..4 /\ v8' = v8
    BY <1>6 DEF T!Label, T!Begins, T!Job
  <2> QED BY <2>1, CallsList
<1>7. ASSUME T!Cron PROVE T!CallsInv'
  <2>1. "cron" \in T!Job /\ T!Lists("cron") /\ v1' = v1 /\ v2' \in 0..4 /\ v8' = v8
    BY <1>7 DEF T!Cron, T!Begins, T!Job
  <2> QED BY <2>1, CallsList
<1>8. ASSUME T!Heal PROVE T!CallsInv'
  <2>1. "heal" \in T!Job /\ T!Lists("heal") /\ v1' = v1 /\ v2' \in 0..4
        /\ v8.step = "heal" /\ v8' = [v8 EXCEPT !.step = "read"]
    BY <1>1, <1>8 DEF T!Heal, T!Job
  <2> QED BY <2>1, CallsList
<1> QED BY <1>2, <1>3, <1>4, <1>5, <1>6, <1>7, <1>8, CallsWatched, CallsRechecked, CallsEnded, CallsTaken
      DEF T!Next

\* A day short twice in a row is on the page, or the state was lost since.
LEMMA CallsArePaged == ASSUME T!CallsInv PROVE T!GapsArePaged
<1>1. T!Threshold = 2 /\ v8.fails \in [T!Day -> 0..2] /\ v12 \in [T!Day -> 0..2]
  BY DEF T!CallsInv, T!TypeOK, T!Threshold
<1>2. \A d \in T!Day : v12[d] \in 0..2 /\ v8.fails[d] \in 0..2
  BY <1>1
<1> QED BY <1>1, <1>2 DEF T!CallsInv, T!CountsInOrder, T!GapsArePaged
===============================================================================
