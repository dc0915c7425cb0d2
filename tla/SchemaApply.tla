----------------------------- MODULE SchemaApply -----------------------------
(***************************************************************************)
(* How a DDL file reaches the live warehouse.  Writers have it reviewed    *)
(* (record_pass, the approval ledger), enqueue it and merge it; two lanes  *)
(* then apply it under the writer flock:                                   *)
(*   apply-now   moderator/bin/moderator_apply.py: reaps, claims queue     *)
(*               rows one Postgres transaction at a time, takes the flock, *)
(*               checks and applies each row, then re-promotes the serving *)
(*               snapshot; apply_now is serialised inside the service      *)
(*   nightly     scripts/setup_db.py over the files committed at the box's *)
(*               HEAD, which any git pull may replace while it runs        *)
(* and a third one takes rows off the same queue without applying them:    *)
(*   process     moderator_engine.process_apply_queue re-reviews a row     *)
(* A DDL is its content; the file name fixes the version number, several   *)
(* contents may bear one name and several names one number.                *)
(***************************************************************************)
EXTENDS Integers, FiniteSets, Sequences, SequencesExt

CONSTANTS
  Ddl, Name, Version,
  NameOf,     \* the file name of each content
  NumberOf,   \* the number a file name starts with
  Landmine,   \* contents that leave a second unique index on _key
  NoDdl, NoName,
  MaxRows,    \* bound of the queue
  MaxFaults   \* bound of crashes, SQL errors and lost Postgres calls

ASSUME NameOfAssumption == NameOf \in [Ddl -> Name] /\ NumberOf \in [Name -> Version]
ASSUME NoDdlAssumption == NoDdl \notin Ddl /\ NoName \notin Name
ASSUME LandmineAssumption == Landmine \subseteq Ddl
ASSUME BoundsAssumption == MaxRows \in Nat /\ MaxFaults \in Nat

VARIABLES
  queue,    \* moderator.apply_queue in enqueued_at order
  ledger,   \* moderator.approval_ledger: the contents with a recorded pass
  main,     \* main[n]: the content of file n at origin/main
  merged,   \* the contents that were ever there
  box,      \* box[n]: the file as the box's checkout has it
  recorded, \* recorded[v]: core.schema_version, the sql_file of version v
  effects,  \* the contents executed in the live database, in order
  served,   \* those the serving snapshot shows
  flock,    \* who holds the writer flock
  now,      \* apply-now: where it is
  claimed,  \* apply-now: the claimed queue ids still to do
  outcome,  \* apply-now: the status the first of them will get
  fresh,    \* apply-now: that row was newly applied
  applied,  \* apply-now: some row of the batch was
  review,   \* process: the queue id under review, 0 for none
  night,    \* nightly: where setup_db is
  todo,     \* nightly: the files still to look at
  faults

postgres == <<queue, ledger>>
git == <<main, merged, box>>
warehouse == <<recorded, effects, served>>
batch == <<claimed, outcome, fresh, applied>>
nightly == <<night, todo>>
vars == <<postgres, git, warehouse, flock, now, batch, review, nightly, faults>>

VersionOf == [d \in Ddl |-> NumberOf[NameOf[d]]]
Terminal == {"committed", "failed", "blocked"}
InFlight == {"queued", "reviewing", "applying", "stale"}
Row == [ddl : Ddl, status : Terminal \cup InFlight, by : {"nobody", "apply", "process"}]

TypeOK ==
  /\ queue \in Seq(Row) /\ Len(queue) <= MaxRows
  /\ ledger \subseteq Ddl /\ merged \subseteq Ddl
  /\ main \in [Name -> Ddl \cup {NoDdl}] /\ box \in [Name -> Ddl \cup {NoDdl}]
  /\ recorded \in [Version -> Name \cup {NoName}]
  /\ effects \in Seq(Ddl) /\ served \subseteq Range(effects)
  /\ flock \in {"free", "apply", "nightly"}
  /\ now \in {"idle", "claim", "wait", "check", "execute", "verify", "finish", "promote"}
  /\ claimed \in Seq(DOMAIN queue) /\ outcome \in Terminal
  /\ fresh \in BOOLEAN /\ applied \in BOOLEAN
  /\ review \in {0} \cup DOMAIN queue
  /\ night \in {"idle", "setup", "promote"} /\ todo \subseteq Name
  /\ faults \in 0 .. MaxFaults

Init ==
  /\ queue = <<>> /\ ledger = {} /\ merged = {}
  /\ main = [n \in Name |-> NoDdl] /\ box = main
  /\ recorded = [v \in Version |-> NoName] /\ effects = <<>> /\ served = {}
  /\ flock = "free"
  /\ now = "idle" /\ claimed = <<>> /\ outcome = "failed" /\ fresh = FALSE /\ applied = FALSE
  /\ review = 0
  /\ night = "idle" /\ todo = {}
  /\ faults = 0

Fault == faults < MaxFaults /\ faults' = faults + 1

SetStatus(q, s, who) == [queue EXCEPT ![q].status = s, ![q].by = who]

-----------------------------------------------------------------------------
(* Writers and the repository.                                             *)

\* record_pass for a DDL the current rules let through.
RecordPass(d) ==
  /\ d \notin ledger
  /\ ledger' = ledger \cup {d}
  /\ UNCHANGED <<queue, git, warehouse, flock, now, batch, review, nightly, faults>>

\* enqueue_apply: a no-op while the same content is in flight.
Enqueue(d) ==
  /\ Len(queue) < MaxRows
  /\ \A q \in DOMAIN queue : queue[q].ddl = d => queue[q].status \notin InFlight
  /\ queue' = Append(queue, [ddl |-> d, status |-> "queued", by |-> "nobody"])
  /\ UNCHANGED <<ledger, git, warehouse, flock, now, batch, review, nightly, faults>>

MergePr(d) ==
  /\ d \notin merged
  /\ main' = [main EXCEPT ![NameOf[d]] = d]
  /\ merged' = merged \cup {d}
  /\ UNCHANGED <<postgres, box, warehouse, flock, now, batch, review, nightly, faults>>

\* git pull --ff-only on the box, before an apply-now or by hand; no flock.
Pull ==
  /\ box # main
  /\ box' = main
  /\ UNCHANGED <<postgres, main, merged, warehouse, flock, now, batch, review, nightly, faults>>

-----------------------------------------------------------------------------
(* apply-now.                                                              *)

\* started_at falls behind STALE_APPLYING_MIN.
Age(q) ==
  /\ queue[q].status = "applying"
  /\ queue' = [queue EXCEPT ![q].status = "stale"]
  /\ UNCHANGED <<ledger, git, warehouse, flock, now, batch, review, nightly, faults>>

\* Mutant: the reaper is gone.
ApplyNow_NoReap ==
  /\ now = "idle"
  /\ now' = "claim"
  /\ claimed' = <<>> /\ outcome' = "failed" /\ fresh' = FALSE /\ applied' = FALSE
  /\ UNCHANGED <<queue, ledger, git, warehouse, flock, review, nightly, faults>>

\* _reap_stale_applying, on entry only; it swallows a Postgres error.
ApplyNow ==
  /\ now = "idle"
  /\ now' = "claim"
  /\ \/ /\ queue' = [q \in DOMAIN queue |->
            IF queue[q].status = "stale" THEN [queue[q] EXCEPT !.status = "queued"]
            ELSE queue[q]]
        /\ UNCHANGED faults
     \/ UNCHANGED queue /\ Fault
  /\ claimed' = <<>> /\ outcome' = "failed" /\ fresh' = FALSE /\ applied' = FALSE
  /\ UNCHANGED <<ledger, git, warehouse, flock, review, nightly>>

\* SELECT ... WHERE status='queued' ORDER BY enqueued_at: the oldest.
Oldest(q) ==
  /\ queue[q].status = "queued"
  /\ \A r \in DOMAIN queue : queue[r].status = "queued" => q <= r

Claim(q) ==
  /\ now = "claim" /\ Oldest(q)
  /\ queue' = SetStatus(q, "applying", "apply")
  /\ claimed' = Append(claimed, q)
  /\ UNCHANGED <<ledger, git, warehouse, flock, now, outcome, fresh, applied, review, nightly, faults>>

\* A Postgres error leaves the call, not the service: the rows stay claimed.
ClaimFails ==
  /\ now = "claim" /\ Fault
  /\ now' = "idle" /\ claimed' = <<>>
  /\ UNCHANGED <<postgres, git, warehouse, flock, outcome, fresh, applied, review, nightly>>

\* An empty claim ends the call, unless a promote alone was asked for.
ClaimDone ==
  /\ now = "claim"
  /\ \A q \in DOMAIN queue : queue[q].status # "queued"
  /\ now' \in IF claimed = <<>> THEN {"idle", "promote"} ELSE {"wait"}
  /\ UNCHANGED <<postgres, git, warehouse, flock, batch, review, nightly, faults>>

TakeFlock ==
  /\ now = "wait" /\ flock = "free"
  /\ flock' = "apply" /\ now' = "check"
  /\ UNCHANGED <<postgres, git, warehouse, batch, review, nightly, faults>>

\* TimeoutError, or the warehouse cannot be opened: the claims go back, those
\* whose update reaches Postgres.
GiveUp ==
  /\ now = "wait" /\ Fault
  /\ now' = "idle"
  /\ \E reached \in SUBSET Range(claimed) :
       queue' = [q \in DOMAIN queue |->
         IF q \in reached THEN [queue[q] EXCEPT !.status = "queued"] ELSE queue[q]]
  /\ claimed' = <<>>
  /\ UNCHANGED <<ledger, git, warehouse, flock, outcome, fresh, applied, review, nightly>>

Subject == queue[Head(claimed)].ddl

\* Mutant: the ledger alone decides.
Check_LedgerOnly ==
  /\ now = "check" /\ claimed # <<>>
  /\ now' = IF Subject \in ledger THEN "execute" ELSE "finish"
  /\ outcome' = "blocked" /\ fresh' = FALSE
  /\ UNCHANGED <<postgres, git, warehouse, flock, claimed, applied, review, nightly, faults>>

\* The authority and apply==commit checks of _apply_one, outside the database.
Check ==
  /\ now = "check" /\ claimed # <<>>
  /\ LET allowed == Subject \in ledger /\ main[NameOf[Subject]] = Subject
     IN /\ now' = IF allowed THEN "execute" ELSE "finish"
        /\ outcome' = "blocked" /\ fresh' = FALSE
  /\ UNCHANGED <<postgres, git, warehouse, flock, claimed, applied, review, nightly, faults>>

\* A Postgres error during the check fails this row only.
CheckFails ==
  /\ now = "check" /\ claimed # <<>> /\ Fault
  /\ now' = "finish" /\ outcome' = "failed" /\ fresh' = FALSE
  /\ UNCHANGED <<postgres, git, warehouse, flock, claimed, applied, review, nightly>>

\* Mutant: two transactions, the second of which may be lost.
Run_Split(d) ==
  /\ effects' = Append(effects, d)
  /\ recorded' \in {recorded, [recorded EXCEPT ![VersionOf[d]] = NameOf[d]]}

\* apply_ddl_file: effect and version row are one transaction.
Run(d) ==
  /\ effects' = Append(effects, d)
  /\ recorded' = [recorded EXCEPT ![VersionOf[d]] = NameOf[d]]

\* Mutant: a version already recorded is done, whatever file has it.
Execute_VersionOnly ==
  /\ now = "execute"
  /\ outcome' = "committed"
  /\ IF recorded[VersionOf[Subject]] = NoName
     THEN Run(Subject) /\ now' = "verify" /\ fresh' = TRUE
     ELSE now' = "finish" /\ UNCHANGED <<effects, recorded, fresh>>
  /\ UNCHANGED <<postgres, git, served, flock, claimed, applied, review, nightly, faults>>

\* Collision guard, idempotence by version, then the transaction.
Execute ==
  /\ now = "execute"
  /\ CASE recorded[VersionOf[Subject]] = NoName ->
            /\ Run(Subject)
            /\ now' = "verify" /\ outcome' = "committed" /\ fresh' = TRUE
       [] recorded[VersionOf[Subject]] = NameOf[Subject] ->
            /\ now' = "finish" /\ outcome' = "committed"
            /\ UNCHANGED <<effects, recorded, fresh>>
       [] OTHER ->
            /\ now' = "finish" /\ outcome' = "blocked"
            /\ UNCHANGED <<effects, recorded, fresh>>
  /\ UNCHANGED <<postgres, git, served, flock, claimed, applied, review, nightly, faults>>

\* Mutant: a status of its own for a failed statement.
ExecuteFails_Error ==
  /\ now = "execute" /\ recorded[VersionOf[Subject]] = NoName /\ Fault
  /\ now' = "finish" /\ outcome' = "error"
  /\ UNCHANGED <<postgres, git, warehouse, flock, claimed, fresh, applied, review, nightly>>

ExecuteFails ==
  /\ now = "execute" /\ recorded[VersionOf[Subject]] = NoName /\ Fault
  /\ now' = "finish" /\ outcome' = "failed"
  /\ UNCHANGED <<postgres, git, warehouse, flock, claimed, fresh, applied, review, nightly>>

\* The post-apply integrity gate: the effect stays, the row fails.
Verify ==
  /\ now = "verify"
  /\ now' = "finish"
  /\ IF Subject \in Landmine
     THEN outcome' = "failed" /\ fresh' = FALSE
     ELSE UNCHANGED <<outcome, fresh>>
  /\ UNCHANGED <<postgres, git, warehouse, flock, claimed, applied, review, nightly, faults>>

\* One more row is done, whether or not Postgres took note of it.
NextRow ==
  /\ now' = "check"
  /\ claimed' = Tail(claimed)
  /\ applied' = (applied \/ fresh)
  /\ UNCHANGED <<ledger, git, warehouse, flock, outcome, fresh, review, nightly>>

Finish ==
  /\ now = "finish"
  /\ queue' = SetStatus(Head(claimed), outcome, "apply")
  /\ NextRow /\ UNCHANGED faults

FinishFails ==
  /\ now = "finish" /\ Fault
  /\ NextRow /\ UNCHANGED queue

\* The connection closes and the flock is released before the promote, which
\* is skipped when nothing is new.
Release ==
  /\ now = "check" /\ claimed = <<>>
  /\ flock' = "free"
  /\ now' = IF applied THEN "promote" ELSE "idle"
  /\ UNCHANGED <<postgres, git, warehouse, batch, review, nightly, faults>>

\* The publisher copies under the flock, is busy or refuses: never mid-write.
PromoteNow ==
  /\ now = "promote"
  /\ now' = "idle"
  /\ \/ flock = "free" /\ served' = Range(effects)
     \/ UNCHANGED served
  /\ UNCHANGED <<postgres, git, recorded, effects, flock, batch, review, nightly, faults>>

-----------------------------------------------------------------------------
(* apply/process: the same queue, no physical apply.                       *)

ReviewClaim(q) ==
  /\ review = 0 /\ Oldest(q)
  /\ queue' = SetStatus(q, "reviewing", "process")
  /\ review' = q
  /\ UNCHANGED <<ledger, git, warehouse, flock, now, batch, nightly, faults>>

\* record_pass again, with today's rules, then the status.
ReviewDone ==
  /\ review # 0
  /\ \/ /\ ledger' = ledger \cup {queue[review].ddl}
        /\ queue' = SetStatus(review, "committed", "process")
     \/ /\ queue' = SetStatus(review, "failed", "process")
        /\ UNCHANGED ledger
  /\ review' = 0
  /\ UNCHANGED <<git, warehouse, flock, now, batch, nightly, faults>>

-----------------------------------------------------------------------------
(* The service dies and systemd restarts it; the kernel drops its flock.   *)

Crash ==
  /\ now # "idle" \/ review # 0
  /\ Fault
  /\ now' = "idle" /\ claimed' = <<>> /\ review' = 0
  /\ flock' = IF flock = "apply" THEN "free" ELSE flock
  /\ UNCHANGED <<postgres, git, warehouse, outcome, fresh, applied, nightly>>

-----------------------------------------------------------------------------
(* The nightly.                                                            *)

SetupDb ==
  /\ night = "idle" /\ flock = "free"
  /\ flock' = "nightly" /\ night' = "setup"
  /\ todo' = {n \in Name : box[n] # NoDdl}
  /\ UNCHANGED <<postgres, git, warehouse, now, batch, review, faults>>

\* Ascending versions.
NextFile(n) ==
  /\ night = "setup"
  /\ n \in todo /\ \A m \in todo : NumberOf[n] <= NumberOf[m]
  /\ todo' = todo \ {n}
  /\ UNCHANGED <<postgres, git, served, flock, now, batch, review, night>>

\* A version already recorded is skipped, whatever file it is recorded for.
SkipFile(n) ==
  /\ NextFile(n) /\ recorded[NumberOf[n]] # NoName
  /\ UNCHANGED <<recorded, effects, faults>>

\* The file as the box has it by now; the gate's tooth only warns.
RunFile(n) ==
  /\ NextFile(n) /\ recorded[NumberOf[n]] = NoName
  /\ Run(box[n]) /\ UNCHANGED faults

\* One bad DDL does not stop the rest.
RunFileFails(n) ==
  /\ NextFile(n) /\ recorded[NumberOf[n]] = NoName
  /\ Fault /\ UNCHANGED <<effects, recorded>>

SetupDone ==
  /\ night = "setup" /\ todo = {}
  /\ flock' = "free" /\ night' = "promote"
  /\ UNCHANGED <<postgres, git, warehouse, now, batch, review, todo, faults>>

PromoteNightly ==
  /\ night = "promote" /\ flock = "free"
  /\ night' = "idle" /\ served' = Range(effects)
  /\ UNCHANGED <<postgres, git, recorded, effects, flock, now, batch, review, todo, faults>>

-----------------------------------------------------------------------------
Writers == \E d \in Ddl : RecordPass(d) \/ Enqueue(d) \/ MergePr(d)

Claiming == ApplyNow \/ ClaimFails \/ ClaimDone \/ \E q \in DOMAIN queue : Claim(q)
Applying == Check \/ CheckFails \/ Execute \/ ExecuteFails \/ Verify
Finishing == Finish \/ FinishFails \/ Release \/ PromoteNow
Reviewing == ReviewDone \/ \E q \in DOMAIN queue : ReviewClaim(q)

Nightly ==
  \/ SetupDb \/ SetupDone \/ PromoteNightly
  \/ \E n \in Name : SkipFile(n) \/ RunFile(n) \/ RunFileFails(n)

Next ==
  \/ Writers \/ Pull
  \/ \E q \in DOMAIN queue : Age(q)
  \/ Claiming \/ TakeFlock \/ GiveUp \/ Applying \/ Finishing
  \/ Reviewing \/ Crash \/ Nightly

Spec == Init /\ [][Next]_vars

\* apply-now is called again and again (the retry-every-minute rule), time
\* passes, reviews end, the nightly runs, and the flock, free most of the day,
\* is polled for half an hour.
Fairness ==
  /\ WF_vars(Claiming) /\ WF_vars(Applying) /\ WF_vars(Finishing)
  /\ WF_vars(ReviewDone) /\ WF_vars(Nightly)
  /\ SF_vars(TakeFlock)
  /\ WF_vars(\E q \in DOMAIN queue : Age(q))

FairSpec == Spec /\ Fairness

-----------------------------------------------------------------------------
(* Properties.                                                             *)

\* A version's DDL takes effect once, whatever was reaped, released, retried
\* or applied by the other lane meanwhile, and schema_version says so exactly.
OneEffectPerVersion ==
  /\ \A i, j \in DOMAIN effects :
       VersionOf[effects[i]] = VersionOf[effects[j]] => i = j
  /\ \A v \in Version : \A n \in Name : recorded[v] = n <=>
       \E i \in DOMAIN effects : VersionOf[effects[i]] = v /\ NameOf[effects[i]] = n

\* A row that apply-now reports committed was not swallowed: its content took
\* effect, or an earlier content of the very same file did.
NotSwallowed ==
  \A q \in DOMAIN queue : queue[q].status = "committed" /\ queue[q].by = "apply" =>
    \E i \in DOMAIN effects : NameOf[effects[i]] = NameOf[queue[q].ddl]

\* Whoever applies, the live database never shows a content that was not merged
\* (moderator_apply.py: apply==commit), and it is a history as SchemaHistory
\* promises: versions spent once, snapshots whole.
LiveDdl(v) ==
  IF \E i \in DOMAIN effects : VersionOf[effects[i]] = v
  THEN effects[CHOOSE i \in DOMAIN effects : VersionOf[effects[i]] = v]
  ELSE NoDdl

History == INSTANCE SchemaHistory WITH
  live <- [v \in Version |-> LiveDdl(v)],
  served <- [v \in Version |-> IF LiveDdl(v) \in served THEN LiveDdl(v) ELSE NoDdl]

ImplementsHistory == History!Spec

StatusIn(q, S) == q \in DOMAIN queue /\ queue[q].status \in S

\* A claimed row is settled in the end, across crashes, lost answers and runs
\* that gave up, unless a review takes it.
RowsSettle ==
  \A q \in 1 .. MaxRows :
    StatusIn(q, {"applying", "stale"}) ~> StatusIn(q, Terminal \cup {"reviewing"})
=============================================================================
