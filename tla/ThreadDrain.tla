----------------------------- MODULE ThreadDrain -----------------------------
(***************************************************************************)
(* entities/email_thread_sync.py: the resumable ordered drain that keeps   *)
(* raw_instantly_email_message complete, and the stage script that drives  *)
(* it where THREADS_IN_NIGHTLY=1 (scripts/nightly.sh: fetch under a        *)
(* timeout, apply, rm).  By default the nightly skips the stage: a         *)
(* standalone drain, which is not in this repository, owns the threads.    *)
(*                                                                         *)
(* A reply is a lead and a time; it stands for an exchange, the inbound    *)
(* message with the outbound one it answers, the least a pull must bring   *)
(* for the discovery anti-join to take the lead for captured.  Every tick  *)
(* brings at most one reply, so times order replies.  fetch discovers the  *)
(* leads of one workspace after the other from the locally synced inbound  *)
(* atom, pulls their whole threads in any order (a worker pool), buffers   *)
(* rows into a stage file and records how far the contiguous prefix got;   *)
(* apply commits the stage and then advances the watermark file.           *)
(*                                                                         *)
(* A behaviour has one setting: what may go wrong in it, at most MaxFaults *)
(* times, and whether the stage file survives a run.  The faults are:      *)
(*   kill          the fetch is killed (timeout -k, SIGKILL)               *)
(*   rewrite_kill  it is killed while it rewrites failed.jsonl             *)
(*   pull_error    a lead's pull raises; the ledger append is fsynced      *)
(*   append_error  a lead's pull raises and the append fails too           *)
(*   ceiling       a lead's history is cut at the pagination ceiling       *)
(*   ws_error      a workspace fails as a whole                            *)
(*   apply_error   apply dies before or after its COMMIT                   *)
(***************************************************************************)
EXTENDS Integers, FiniteSets, Sequences, SequencesExt, FiniteSetsExt

CONSTANTS
  Lead, Ws,
  Home,       \* the workspace of each lead
  MaxTime,    \* bound of the clock
  Overlap,    \* _OVERLAP, the re-pull window below a watermark
  Lag,        \* the inbound atom is at most this late
  SyncEvery,  \* completions between two fsyncs (50 in the code)
  Settings,   \* the settings to explore
  MaxFaults   \* bound of the faults in a behaviour

ASSUME HomeAssumption == IsFiniteSet(Lead) /\ Home \in [Lead -> Ws]
ASSUME BoundsAssumption ==
  /\ MaxTime \in Nat \ {0} /\ SyncEvery \in Nat \ {0} /\ MaxFaults \in Nat
  /\ Lag \in Nat \ {0} /\ Overlap \in Nat /\ Lag < Overlap
ASSUME SettingsAssumption == Settings \subseteq [may : SUBSET STRING, keep : BOOLEAN]

VARIABLES
  now,         \* the clock
  server,      \* server[l]: times of l's replies at Instantly
  atom,        \* atom[l]: those synced to raw_instantly_email
  committed,   \* committed[l]: those in raw_instantly_email_message
  wm,          \* wm[w]: threads_watermark.json, Unset where there is no entry
  failed,      \* the leads in failed.jsonl
  stage,       \* stage[l]: rows in the stage file
  quarantined, \* the workspaces in the .ceiling sidecar
  progress,    \* progress[w]: drained_through in the .progress sidecar
  phase,       \* where the nightly script is
  toVisit,     \* fetch: the workspaces still to do
  ws,          \* fetch: the workspace being pulled
  since,       \* fetch: its lower bound, also the baseline of its progress
  started,     \* fetch: discovery_started
  slots,       \* fetch: its leads with their keys, ascending
  handled,     \* fetch: slots whose future was consumed
  closed,      \* fetch: slots marked done in the _DrainTracker
  buffer,      \* fetch: rows written to the stage handle, not yet on disk
  drained,     \* fetch: the progress dictionary in memory
  prior,       \* fetch: failed.jsonl as it was read at the start
  again,       \* fetch: new_failed
  retried,     \* fetch: retried_ws
  ceiled,      \* fetch: ceiling_hit_ws
  faults,      \* faults so far
  setting      \* what may fail; keep: the stage survives (the CLI's --work-dir)

world == <<now, server, atom>>
slot == <<ws, since, started, slots, handled, closed>>
memory == <<toVisit, buffer, drained, prior, again, retried, ceiled>>
files == <<wm, failed, stage, quarantined, progress>>
vars == <<world, committed, files, phase, slot, memory, faults, setting>>

Unset == -1
Time == 1 .. MaxTime
Mark == Time \cup {0, Unset}
Phases == {"idle", "fetch", "pull", "rewrite", "apply", "merge", "cleanup"}

Later(a, b) == IF a > b THEN a ELSE b
Latest(T) == IF T = {} THEN Unset ELSE Max(T)
LeadsOf(w) == {l \in Lead : Home[l] = w}

TypeOK ==
  /\ now \in Time
  /\ server \in [Lead -> SUBSET Time]
  /\ atom \in [Lead -> SUBSET Time]
  /\ committed \in [Lead -> SUBSET Time]
  /\ wm \in [Ws -> Mark] /\ progress \in [Ws -> Mark] /\ drained \in [Ws -> Mark]
  /\ failed \subseteq Lead /\ prior \subseteq Lead /\ again \subseteq Lead
  /\ stage \in [Lead -> SUBSET Time]
  /\ quarantined \subseteq Ws /\ retried \subseteq Ws /\ ceiled \subseteq Ws
  /\ phase \in Phases /\ toVisit \subseteq Ws /\ ws \in Ws
  /\ since \in Mark /\ started \in Time
  /\ slots \in Seq([lead : Lead, key : Mark])
  /\ handled \subseteq 1 .. Len(slots) /\ closed \subseteq handled
  /\ buffer \in Seq(Lead \X Time)
  /\ faults \in 0 .. MaxFaults /\ setting \in Settings

NoRows == [l \in Lead |-> {}]
NoMarks == [w \in Ws |-> Unset]

Init ==
  /\ now = 1 /\ server = NoRows /\ atom = NoRows /\ committed = NoRows
  /\ wm = NoMarks /\ failed = {} /\ stage = NoRows
  /\ quarantined = {} /\ progress = NoMarks
  /\ phase = "idle" /\ toVisit = {}
  /\ ws \in Ws /\ since = 0 /\ started = 1
  /\ slots = <<>> /\ handled = {} /\ closed = {} /\ buffer = <<>>
  /\ drained = NoMarks /\ prior = {} /\ again = {} /\ retried = {} /\ ceiled = {}
  /\ faults = 0 /\ setting \in Settings

Fault(f) == f \in setting.may /\ faults < MaxFaults /\ faults' = faults + 1

-----------------------------------------------------------------------------
(* The world: leads reply, the inbound sync catches up.                    *)

\* The clock may pass t only if no reply is left unsynced for longer than Lag.
Tick ==
  /\ now < MaxTime
  /\ \A l \in Lead : \A t \in server[l] \ atom[l] : now + 1 - t <= Lag
  /\ now' = now + 1

Wait == Tick /\ UNCHANGED <<server, atom, committed, files, phase, slot, memory, faults>>

Reply(l) ==
  /\ Tick
  /\ server' = [server EXCEPT ![l] = @ \cup {now}]
  /\ UNCHANGED <<atom, committed, files, phase, slot, memory, faults>>

Sync(l) ==
  /\ atom[l] # server[l]
  /\ atom' = [atom EXCEPT ![l] = server[l]]
  /\ UNCHANGED <<now, server, committed, files, phase, slot, memory, faults>>

-----------------------------------------------------------------------------
(* Discovery.                                                              *)

\* Mutant: the overlap is subtracted below the epoch.
Since_Negative(w) ==
  LET mark == IF wm[w] # Unset THEN wm[w]
              ELSE Latest(UNION {committed[l] : l \in LeadsOf(w)})
  IN mark - Overlap

\* Mutant: no overlap is re-pulled below the watermark.
Since_NoOverlap(w) ==
  LET mark == IF wm[w] # Unset THEN wm[w]
              ELSE Latest(UNION {committed[l] : l \in LeadsOf(w)})
  IN Later(0, mark)

\* workspace_watermark: the file entry, else max(message_at), less the overlap.
Since(w) ==
  LET mark == IF wm[w] # Unset THEN wm[w]
              ELSE Latest(UNION {committed[l] : l \in LeadsOf(w)})
  IN Later(0, mark - Overlap)

\* The anti-join: the last reply is already committed.
AlreadyCommitted(l) == Latest(atom[l]) <= Latest(committed[l])

Candidate(l) == Latest(atom[l]) > Since(Home[l]) /\ ~AlreadyCommitted(l)

\* Candidates keyed by their last reply; a lead only in the ledger has no key.
Found(w) ==
  {[lead |-> l, key |-> IF Candidate(l) THEN Latest(atom[l]) ELSE Unset] :
     l \in {m \in LeadsOf(w) : Candidate(m) \/ m \in prior}}

\* They are pulled oldest key first; ties, as in SQL's ORDER BY, fall either way.
InOrder(w) ==
  {s \in SetToSeqs(Found(w)) : \A i, j \in DOMAIN s : i < j => s[i].key <= s[j].key}

\* _DrainTracker.drained_through: the best key of the closed prefix.
DrainedThrough(done) ==
  Latest({slots[i].key : i \in {j \in DOMAIN slots : 1 .. j \subseteq done}})

StartFetch ==
  /\ phase = "idle"
  /\ phase' = "fetch"
  /\ toVisit' = Ws /\ prior' = failed
  /\ again' = {} /\ retried' = {} /\ ceiled' = {}
  /\ drained' = NoMarks /\ buffer' = <<>>
  /\ UNCHANGED <<world, committed, files, slot, faults>>

\* The watermark entry is seeded before any row of w can be committed (M1).
SeededMarks(w) == [wm EXCEPT ![w] = Later(@, Since(w))]

Discover(w) ==
  /\ phase = "fetch" /\ w \in toVisit
  /\ phase' = "pull"
  /\ toVisit' = toVisit \ {w}
  /\ ws' = w /\ since' = Since(w) /\ started' = now
  /\ slots' \in InOrder(w)
  /\ handled' = {} /\ closed' = {}
  /\ wm' = SeededMarks(w)
  /\ drained' = [drained EXCEPT ![w] = Since(w)]
  /\ progress' = drained'
  /\ UNCHANGED <<world, committed, failed, stage, quarantined,
                 buffer, prior, again, retried, ceiled, faults>>

-----------------------------------------------------------------------------
(* The pull: futures complete in any order.                                *)

TimesIn(rows, l) == {t \in Time : <<l, t>> \in Range(rows)}
Append2(rows, file) == [l \in Lead |-> file[l] \cup TimesIn(rows, l)]
Staged(l) == stage[l] \cup TimesIn(buffer, l)

\* The rows of l at T that are not staged yet, newest first.
Rows(l, T) ==
  {s \in SetToSeqs({l} \X (T \ Staged(l))) : \A i, j \in DOMAIN s : i < j => s[i][2] > s[j][2]}

\* Mutant: the progress sidecar is written before the stage is fsynced.
Consume_ProgressFirst(i, rows, done) ==
  /\ handled' = handled \cup {i}
  /\ closed' = done
  /\ buffer' = buffer \o rows
  /\ IF Cardinality(handled') % SyncEvery = 0
     THEN /\ drained' = [drained EXCEPT ![ws] = Later(since, DrainedThrough(done))]
          /\ progress' = drained'
     ELSE UNCHANGED <<drained, progress>>
  /\ UNCHANGED <<world, committed, wm, stage, phase, toVisit, ws, since, started, slots,
                 prior, retried>>

\* Slot i is consumed and rows are written; every SyncEvery completions the
\* stage is fsynced and only then the progress sidecar is written.
Consume(i, rows, done) ==
  /\ handled' = handled \cup {i}
  /\ closed' = done
  /\ IF Cardinality(handled') % SyncEvery = 0
     THEN /\ stage' = Append2(buffer \o rows, stage)
          /\ buffer' = <<>>
          /\ drained' = [drained EXCEPT ![ws] = Later(since, DrainedThrough(done))]
          /\ progress' = drained'
     ELSE /\ buffer' = buffer \o rows
          /\ UNCHANGED <<stage, drained, progress>>
  /\ UNCHANGED <<world, committed, wm, phase, toVisit, ws, since, started, slots,
                 prior, retried>>

Pending(i) == phase = "pull" /\ i \in DOMAIN slots \ handled

\* Mutant: only the replies of the window are pulled, not the whole thread.
Pulled_Window(i, s) == {t \in server[slots[i].lead] : t < s /\ t > since}

\* A worker read the thread at some moment s since the discovery.
Pulled(i, s) == {t \in server[slots[i].lead] : t < s}

PullSucceeds(i) ==
  /\ Pending(i)
  /\ \E s \in started .. now : \E rows \in Rows(slots[i].lead, Pulled(i, s)) :
       Consume(i, rows, closed \cup {i})
  /\ UNCHANGED <<failed, again, ceiled, quarantined, faults>>

\* The walk stops at the ceiling, newest first: the slot never closes and the
\* workspace is quarantined at once.
PullTruncated(i) ==
  /\ Pending(i) /\ Fault("ceiling")
  /\ \E s \in started .. now : \E t \in Pulled(i, s) \ {Min(Pulled(i, s))} :
       \E rows \in Rows(slots[i].lead, {u \in Pulled(i, s) : u >= t}) : Consume(i, rows, closed)
  /\ ceiled' = ceiled \cup {ws}
  /\ quarantined' = ceiled'
  /\ UNCHANGED <<failed, again>>

\* The retry record is on disk before the slot closes (B1); no fsync here.
PullFails(i) ==
  /\ Pending(i) /\ Fault("pull_error")
  /\ handled' = handled \cup {i} /\ closed' = closed \cup {i}
  /\ failed' = failed \cup {slots[i].lead}
  /\ again' = again \cup {slots[i].lead}
  /\ UNCHANGED <<world, committed, wm, stage, quarantined, progress, phase, toVisit,
                 ws, since, started, slots, buffer, drained, prior, retried, ceiled>>

\* The append failed: the slot stays open, the record is in memory only.
PullFailsUnrecorded(i) ==
  /\ Pending(i) /\ Fault("append_error")
  /\ handled' = handled \cup {i}
  /\ again' = again \cup {slots[i].lead}
  /\ UNCHANGED <<world, committed, files, phase, toVisit, ws, since, started, slots,
                 closed, buffer, drained, prior, retried, ceiled>>

\* The handle's own buffering puts rows on disk, whole lines in order; a line
\* cut in two is dropped by _sanitize_stage.
Spill ==
  /\ phase = "pull" /\ buffer # <<>>
  /\ stage' = Append2(<<Head(buffer)>>, stage)
  /\ buffer' = Tail(buffer)
  /\ UNCHANGED <<world, committed, wm, failed, quarantined, progress, phase, slot,
                 toVisit, drained, prior, again, retried, ceiled, faults>>

FinishWs ==
  /\ phase = "pull" /\ handled = DOMAIN slots
  /\ phase' = "fetch"
  /\ stage' = Append2(buffer, stage) /\ buffer' = <<>>
  /\ retried' = retried \cup {ws}
  /\ drained' = [drained EXCEPT ![ws] =
       IF ws \in ceiled THEN Later(since, DrainedThrough(closed)) ELSE started]
  /\ progress' = drained'
  /\ slots' = <<>> /\ handled' = {} /\ closed' = {}
  /\ UNCHANGED <<world, committed, wm, failed, quarantined, ws, since, started,
                 toVisit, prior, again, ceiled, faults>>

\* An exception outside a future: before the discovery of w, or amid its pull.
WsFailsEarly(w) ==
  /\ phase = "fetch" /\ w \in toVisit /\ Fault("ws_error")
  /\ toVisit' = toVisit \ {w}
  /\ UNCHANGED <<world, committed, files, phase, slot, buffer, drained, prior,
                 again, retried, ceiled>>

WsFailsLate ==
  /\ phase = "pull" /\ Fault("ws_error")
  /\ phase' = "fetch"
  /\ slots' = <<>> /\ handled' = {} /\ closed' = {}
  /\ UNCHANGED <<world, committed, files, ws, since, started, memory>>

-----------------------------------------------------------------------------
(* The end of a fetch, one way or the other.                               *)

\* The stage handle closes; failed.jsonl is opened with "w".
CloseStage ==
  /\ phase = "fetch" /\ toVisit = {}
  /\ phase' = "rewrite"
  /\ stage' = Append2(buffer, stage) /\ buffer' = <<>>
  /\ failed' = {}
  /\ UNCHANGED <<world, committed, wm, quarantined, progress, slot,
                 toVisit, drained, prior, again, retried, ceiled, faults>>

\* Mutant: only this run's failures are carried.
Carried_OnlyNew == again

\* This run's failures and the prior ones that had no retry; then the sidecar.
Carried == again \cup {l \in prior : Home[l] \notin retried}

Forget ==
  /\ toVisit' = {} /\ buffer' = <<>> /\ drained' = NoMarks
  /\ prior' = {} /\ again' = {} /\ retried' = {} /\ ceiled' = {}
  /\ slots' = <<>> /\ handled' = {} /\ closed' = {}
  /\ UNCHANGED <<ws, since, started>>

RewriteFailed ==
  /\ phase = "rewrite"
  /\ phase' = "apply"
  /\ failed' = Carried
  /\ quarantined' = ceiled
  /\ Forget
  /\ UNCHANGED <<world, committed, wm, stage, progress, faults>>

\* The script applies what landed.
Kill ==
  /\ \/ phase \in {"fetch", "pull"} /\ Fault("kill")
     \/ phase = "rewrite" /\ Fault("rewrite_kill")
  /\ phase' = "apply"
  /\ Forget
  /\ UNCHANGED <<world, committed, files>>

-----------------------------------------------------------------------------
(* Apply and clean up.                                                     *)

Commit ==
  /\ phase = "apply"
  /\ phase' = "merge"
  /\ committed' = [l \in Lead |->
       IF Home[l] \in quarantined THEN committed[l] ELSE committed[l] \cup stage[l]]
  /\ UNCHANGED <<world, files, slot, memory, faults>>

\* _merge_drain_watermarks, after the rows are durable; monotone.
MergedMarks == [w \in Ws |-> IF w \in quarantined THEN wm[w] ELSE Later(wm[w], progress[w])]

Merge ==
  /\ phase = "merge"
  /\ phase' = "cleanup"
  /\ wm' = MergedMarks
  /\ UNCHANGED <<world, committed, failed, stage, quarantined, progress, slot, memory, faults>>

ApplyFails ==
  /\ phase \in {"apply", "merge"} /\ Fault("apply_error")
  /\ phase' = "cleanup"
  /\ UNCHANGED <<world, committed, files, slot, memory>>

\* rm stage, .ceiling, .progress; .failed is preserved.
Cleanup ==
  /\ phase = "cleanup"
  /\ phase' = "idle"
  /\ IF setting.keep
     THEN UNCHANGED <<stage, quarantined, progress>>
     ELSE stage' = NoRows /\ quarantined' = {} /\ progress' = NoMarks
  /\ UNCHANGED <<world, committed, wm, failed, slot, memory, faults>>

-----------------------------------------------------------------------------
Pull(i) == PullSucceeds(i) \/ PullTruncated(i) \/ PullFails(i) \/ PullFailsUnrecorded(i)

World ==
  /\ Wait \/ \E l \in Lead : Reply(l) \/ Sync(l)
  /\ UNCHANGED setting

Fetch ==
  /\ \/ StartFetch
     \/ \E w \in Ws : Discover(w) \/ WsFailsEarly(w)
     \/ \E i \in DOMAIN slots : Pull(i)
     \/ Spill \/ FinishWs \/ WsFailsLate \/ CloseStage \/ RewriteFailed \/ Kill
  /\ UNCHANGED setting

Apply ==
  /\ Commit \/ Merge \/ ApplyFails \/ Cleanup
  /\ UNCHANGED setting

Next == World \/ Fetch \/ Apply

Spec == Init /\ [][Next]_vars

\* An assumption on what is not in this repository: drains are started again
\* and again, by the standalone drain that owns the threads now or, where
\* THREADS_IN_NIGHTLY=1, by the nightly.  A step of a drain ends, and only
\* MaxFaults of them are killed or fail; the inbound sync runs.
Fairness == WF_vars(Fetch) /\ WF_vars(Apply) /\ \A l \in Lead : WF_vars(Sync(l) /\ UNCHANGED setting)

FairSpec == Spec /\ Fairness

-----------------------------------------------------------------------------
(* Properties.                                                             *)

Ledgered(s) == "pull_error" \in s.may \/ "append_error" \in s.may

\* The combinations of faults in which no lead is passed over.  A lead in the
\* retry ledger is safe on disk or in memory, not in both at every moment:
\*   - a killed fetch forgets what could not be appended;
\*   - the ledger is rewritten before the rows are applied, so the fetch must
\*     not be killed there, nor the rows be withheld or lost with the stage.
Survives(s) ==
  /\ "kill" \in s.may => "append_error" \notin s.may
  /\ Ledgered(s) =>
       /\ "rewrite_kill" \notin s.may /\ "ceiling" \notin s.may
       /\ "apply_error" \in s.may => s.keep

\* A stage that may hold a cut thread goes with the sidecar that says so.
CutDropped(s) == "ceiling" \in s.may => ~s.keep

\* Somebody still owes the row: the retry ledger, the next discovery, or a
\* stage file that is kept and will be applied.
Owed(l, t) ==
  \/ l \in failed
  \/ Candidate(l)
  \/ setting.keep /\ t \in stage[l] /\ Home[l] \notin quarantined

\* Between two runs every synced reply is in the warehouse or still owed:
\* no watermark, anti-join or ledger rewrite made anybody forget it.
EveryReplyAccounted ==
  phase = "idle" => \A l \in Lead : \A t \in atom[l] : t \in committed[l] \/ Owed(l, t)

\* The same where the fetch is never killed amid a pull: a kill breaks it, see
\* AntiJoinSound.
AccountedUnlessKilled == "kill" \in setting.may \/ EveryReplyAccounted

\* The watermark never passes a lead over: one whose last reply is older than
\* what the next discovery looks at was reached by a pull up to that reply,
\* committed or in the stage, or it is in a ledger.
NoLeadPassedOver ==
  \A l \in Lead : atom[l] # {} /\ Latest(atom[l]) <= wm[Home[l]] - Overlap =>
    \/ Latest(committed[l]) >= Latest(atom[l])
    \/ l \in failed \cup again \cup prior
    \/ Latest(stage[l]) >= Latest(atom[l]) /\ Home[l] \notin quarantined

\* Where no fetch is killed a cut thread leaves nothing behind: of each lead
\* the oldest replies are committed, never a newer one without the older.
NoHoles ==
  "kill" \in setting.may \/
  \A l \in Lead : \A t \in committed[l] : \A u \in server[l] : u < t => u \in committed[l]

\* Claim of email_thread_sync.py 518-525: a committed message at or after the
\* lead's last known reply proves that a pull captured that reply.
AntiJoinSound ==
  \A l \in Lead : atom[l] # {} /\ AlreadyCommitted(l) => Latest(atom[l]) \in committed[l]

\* Once drains run again without a fault or a kill the warehouse catches up
\* with Instantly: it has the last reply of every lead, and unless a fetch was
\* killed amid a pull, see AntiJoinSound, every other one as well.
CaughtUp ==
  <>[](\A l \in Lead : /\ Latest(committed[l]) = Latest(server[l])
                       /\ "kill" \in setting.may \/ committed[l] = server[l])
=============================================================================
