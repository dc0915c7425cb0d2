------------------------------ MODULE NightlyRun ------------------------------
(***************************************************************************)
(* The night of the warehouse: scripts/nightly.sh runs the orchestrator    *)
(* twice (PASS A, then PASS B), promotes the serving snapshot in between   *)
(* and at the end, and starts the MotherDuck publish.  The orchestrator    *)
(* runs its ingests on one DuckDB connection and writes the audit rows of  *)
(* core.sync_run and core.sync_run_phase on that same connection, so a     *)
(* fatal error takes the bookkeeping down with the data.                   *)
(*                                                                         *)
(* Everything but `served' belongs to the night at hand: run ids are       *)
(* unique, no statement touches the rows of an earlier night, and          *)
(* StartNight therefore starts from empty audit tables.                    *)
(***************************************************************************)
EXTENDS Naturals, Sequences, FiniteSets, SequencesExt

CONSTANT Schedule     \* pass -> its ingests, in PHASE_ORDER

Passes == {"A", "B"}

ASSUME ScheduleAssumption ==
  /\ DOMAIN Schedule = Passes
  /\ \A p \in Passes : Schedule[p] \in Seq(STRING) /\ IsInjective(Schedule[p])
  /\ Range(Schedule["A"]) \cap Range(Schedule["B"]) = {}

Ingests == UNION {Range(Schedule[p]) : p \in Passes}
NoExit  == 9          \* no exit status yet
Partial == 1
Aborted == 2          \* stands for every status of 2 and above (137, 143)
NoPublisher == 127

VARIABLES
  stage,      \* where nightly.sh is
  exit,       \* EXIT_A, EXIT_B
  exitCode,   \* EXIT_CODE
  degraded,   \* NIGHTLY_DEGRADED
  finalExit,  \* FINAL_EXIT
  kicked,     \* the MotherDuck publish was launched
  orch,       \* where the orchestrator process is
  todo,       \* registrations the run has still to visit
  outcome,    \* status log_phase is about to write for the first of todo
  failures,   \* total_failed
  alive,      \* the connection still executes statements
  run,        \* pass -> its row of core.sync_run
  row,        \* pass -> ingest -> status in core.sync_run_phase
  attempted,  \* ingests whose function was called (history)
  cut,        \* passes whose run lost its connection or process (history)
  served      \* the serving snapshot: who published it, and of tonight's
              \* passes those finished and those cut when it was copied

nightVars == <<stage, exitCode, degraded, finalExit, kicked>>
auditVars == <<run, row>>
orchVars  == <<todo, outcome, failures, alive>>
vars == <<nightVars, exit, orch, orchVars, auditVars, attempted, cut, served>>

NoRun  == [status |-> "none", count |-> 0, failed |-> 0]
NoRows == [p \in Passes |-> [i \in Ingests |-> "none"]]

TypeOK ==
  /\ stage \in {"idle", "passA", "passB", "roll", "tail", "promote", "exit"}
  /\ exit \in [Passes -> {0, Partial, Aborted, NoExit}]
  /\ exitCode \in {0, Partial, Aborted, NoExit}
  /\ finalExit \in {0, Partial, Aborted, NoExit}
  /\ degraded \in BOOLEAN /\ kicked \in BOOLEAN /\ alive \in BOOLEAN
  /\ orch \in {"off", "connect", "loop", "log", "bump", "probe", "abort"}
  /\ todo \in Seq(Ingests)
  /\ outcome \in {"success", "failed"}
  /\ failures \in 0..Cardinality(Ingests)
  /\ run \in [Passes -> [status : {"none", "running", "success", "partial", "failed"},
                         count : 0..Cardinality(Ingests),
                         failed : 0..Cardinality(Ingests)]]
  /\ row \in [Passes -> [Ingests -> {"none", "success", "failed"}]]
  /\ attempted \subseteq Ingests
  /\ cut \subseteq Passes
  /\ served \in [by : {"nobody", "nightly", "timer"},
                 after : SUBSET Passes, cut : SUBSET Passes]

NoExits == [p \in Passes |-> NoExit]
NoRuns  == [p \in Passes |-> NoRun]

Init ==
  /\ exit = NoExits /\ exitCode = NoExit /\ finalExit = NoExit
  /\ degraded = FALSE /\ kicked = FALSE
  /\ run = NoRuns /\ row = NoRows
  /\ attempted = {} /\ cut = {}
  /\ stage = "idle" /\ orch = "off"
  /\ todo = <<>> /\ outcome = "success" /\ failures = 0 /\ alive = TRUE
  /\ served = [by |-> "nobody", after |-> {}, cut |-> {}]

Pass     == IF stage = "passA" THEN "A" ELSE "B"
Ingest   == Head(todo)
Finished == {p \in Passes : exit[p] # NoExit}

-------------------------------------------------------------------------------
(* core/orchestrator.py: one process per pass.                             *)

Launch ==
  /\ stage \in {"passA", "passB"} /\ orch = "off" /\ exit[Pass] = NoExit
  /\ orch' = "connect"
  /\ UNCHANGED <<nightVars, exit, orchVars, auditVars, attempted, cut, served>>

Leave(status) ==
  /\ orch' = "off"
  /\ exit' = [exit EXCEPT ![Pass] = status]
  /\ UNCHANGED <<nightVars, orchVars, row, attempted, served>>

(* The lock wait, the foundation DDL, a register() and start_run are under *)
(* no try: the interpreter ends with status 1.                             *)
DiesEarly ==
  /\ orch = "connect"
  /\ Leave(Partial)
  /\ UNCHANGED <<run, cut>>

(* A module that fails to import is only logged: its ingest is not         *)
(* registered in this run.  At most one does here.                         *)
StartRun ==
  /\ orch = "connect"
  /\ \/ todo' = Schedule[Pass]
     \/ \E n \in DOMAIN Schedule[Pass] : todo' = RemoveAt(Schedule[Pass], n)
  /\ run' = [run EXCEPT ![Pass].status = "running"]
  /\ orch' = "loop" /\ failures' = 0 /\ alive' = TRUE /\ outcome' = "success"
  /\ UNCHANGED <<nightVars, exit, row, attempted, cut, served>>

(* The statement at hand invalidates the database, or does not.            *)
MayPoison ==
  /\ alive' \in {alive, FALSE}
  /\ cut' = IF alive' THEN cut ELSE cut \cup {Pass}

(* reg.fn(ctx) returns or raises.  An ingest may swallow a fatal error and *)
(* return on a dead connection.                                            *)
RunIngest ==
  /\ orch = "loop" /\ todo # <<>>
  /\ outcome' \in {"success", "failed"}
  /\ MayPoison
  /\ attempted' = attempted \cup {Ingest}
  /\ orch' = "log"
  /\ UNCHANGED <<nightVars, exit, todo, failures, auditVars, served>>

(* log_phase: the INSERT and the UPDATE of the counters are two            *)
(* statements, each committed by itself.                                   *)
LogRow ==
  /\ orch = "log" /\ alive /\ row[Pass][Ingest] = "none"
  /\ row' = [row EXCEPT ![Pass][Ingest] = outcome]
  /\ orch' = "bump"
  /\ UNCHANGED <<nightVars, exit, orchVars, run, attempted, cut, served>>

Bump ==
  /\ orch = "bump" /\ alive
  /\ run' = [run EXCEPT ![Pass].count = @ + 1,
                        ![Pass].failed = IF outcome = "failed" THEN @ + 1 ELSE @]
  /\ failures' = IF outcome = "failed" THEN failures + 1 ELSE failures
  /\ orch' = "probe"
  /\ UNCHANGED <<nightVars, exit, todo, outcome, alive, row, attempted, cut, served>>

(* Mutant: the handler forgets to count the failure.                       *)
LogRaises_Uncounted ==
  /\ orch \in {"log", "bump"}
  /\ MayPoison
  /\ IF outcome = "success" THEN orch' = "log" /\ outcome' = "failed"
                            ELSE orch' = "probe" /\ UNCHANGED outcome
  /\ UNCHANGED <<nightVars, exit, todo, failures, auditVars, attempted, served>>

(* Either statement may raise.  While a success is logged this lands in    *)
(* the handler, which logs the ingest again as failed; the handler's own   *)
(* log_phase is guarded, so there the error is dropped.                    *)
LogRaises ==
  /\ orch \in {"log", "bump"}
  /\ MayPoison
  /\ IF outcome = "success"
       THEN orch' = "log" /\ outcome' = "failed" /\ UNCHANGED failures
       ELSE orch' = "probe" /\ failures' = failures + 1 /\ UNCHANGED outcome
  /\ UNCHANGED <<nightVars, exit, todo, auditVars, attempted, served>>

(* Mutant: the run marches on over a dead connection.                      *)
Probe_Never ==
  /\ orch = "probe"
  /\ orch' = "loop" /\ todo' = Tail(todo)
  /\ UNCHANGED <<nightVars, exit, outcome, failures, alive, auditVars, attempted,
                 cut, served>>

(* _connection_is_alive, after every ingest.                               *)
Probe ==
  /\ orch = "probe"
  /\ IF alive THEN orch' = "loop" /\ todo' = Tail(todo)
              ELSE orch' = "abort" /\ UNCHANGED todo
  /\ UNCHANGED <<nightVars, exit, outcome, failures, alive, auditVars, attempted,
                 cut, served>>

(* FatalDBError: the run row is closed on a fresh connection, best effort. *)
Abort ==
  /\ orch = "abort"
  /\ Leave(Aborted)
  /\ \E status \in {"running", "failed"} : run' = [run EXCEPT ![Pass].status = status]
  /\ UNCHANGED cut

EndRun ==
  /\ orch = "loop" /\ todo = <<>> /\ alive
  /\ run' = [run EXCEPT ![Pass].status = IF failures = 0 THEN "success" ELSE "partial"]
  /\ Leave(IF failures = 0 THEN 0 ELSE Partial)
  /\ UNCHANGED cut

EndRunFails ==   \* uncaught: status 1, the row keeps saying running
  /\ orch = "loop" /\ todo = <<>>
  /\ Leave(Partial)
  /\ UNCHANGED <<run, cut>>

(* SIGKILL, SIGTERM, out of memory.                                        *)
Kill ==
  /\ orch # "off"
  /\ Leave(Aborted)
  /\ cut' = IF orch = "connect" THEN cut ELSE cut \cup {Pass}
  /\ UNCHANGED run

Orchestrator ==
  \/ Launch \/ DiesEarly \/ StartRun \/ RunIngest \/ LogRow \/ Bump
  \/ LogRaises \/ Probe \/ Abort \/ EndRun \/ EndRunFails \/ Kill

-------------------------------------------------------------------------------
(* scripts/nightly.sh                                                      *)

StartNight ==
  /\ stage = "idle"
  /\ stage' = "passA"
  /\ exit' = NoExits /\ exitCode' = NoExit /\ finalExit' = NoExit
  /\ degraded' = FALSE /\ kicked' = FALSE
  /\ run' = NoRuns /\ row' = NoRows
  /\ attempted' = {} /\ cut' = {}
  /\ served' = [served EXCEPT !.after = {}]
  /\ UNCHANGED <<orch, orchVars>>

(* A copy of the database as it is now, by the external publisher.         *)
Copy(by) == [by |-> by, after |-> Finished, cut |-> cut]

(* promote_serving.  The publisher may be missing, may fail, and may be    *)
(* killed by its timeout with the new snapshot already swapped in.         *)
Promote(rc) ==
  CASE rc = 0           -> served' = Copy("nightly")
    [] rc = NoPublisher -> served' = served
    [] OTHER            -> served' \in {served, Copy("nightly")}

PromoteCodes == {0, 1, NoPublisher}

AfterPassA ==
  /\ stage = "passA" /\ exit["A"] # NoExit
  /\ IF exit["A"] \in {0, Partial} THEN \E rc \in PromoteCodes : Promote(rc)
                                   ELSE UNCHANGED served
  /\ stage' = "passB"
  /\ UNCHANGED <<exitCode, degraded, finalExit, kicked, exit, orch, orchVars,
                 auditVars, attempted, cut>>

AfterPassB ==
  /\ stage = "passB" /\ exit["B"] # NoExit
  /\ stage' = "roll"
  /\ UNCHANGED <<exitCode, degraded, finalExit, kicked, exit, orch, orchVars,
                 auditVars, attempted, cut, served>>

Rolled_Sum == exit["A"] + exit["B"]   \* mutant
Rolled_LastPass == exit["B"]          \* mutant

Rolled ==   \* a hard abort dominates, then a partial
  IF \E p \in Passes : exit[p] = Aborted THEN Aborted
  ELSE IF \E p \in Passes : exit[p] = Partial THEN Partial ELSE 0

Roll ==
  /\ stage = "roll"
  /\ exitCode' = Rolled
  /\ stage' = IF Rolled = Aborted THEN "exit" ELSE "tail"
  /\ UNCHANGED <<degraded, finalExit, kicked, exit, orch, orchVars, auditVars,
                 attempted, cut, served>>

(* The post-orchestrator steps.  Only a failed or timed out D1 publish and *)
(* a parity divergence degrade the night; the others warn.                 *)
RunTail ==
  /\ stage = "tail"
  /\ degraded' \in BOOLEAN
  /\ stage' = "promote"
  /\ UNCHANGED <<exitCode, finalExit, kicked, exit, orch, orchVars, auditVars,
                 attempted, cut, served>>

(* Mutant: only a failed promote withholds the publish.                    *)
FinalPromote_KicksUnlessFailed ==
  /\ stage = "promote"
  /\ \E rc \in PromoteCodes : Promote(rc) /\ kicked' = (rc # 1)
  /\ stage' = "exit"
  /\ UNCHANGED <<exitCode, degraded, finalExit, exit, orch, orchVars, auditVars,
                 attempted, cut>>

(* The promote at completion, and the MotherDuck publish if it landed.     *)
FinalPromote ==
  /\ stage = "promote"
  /\ \E rc \in PromoteCodes : Promote(rc) /\ kicked' = (rc = 0)
  /\ stage' = "exit"
  /\ UNCHANGED <<exitCode, degraded, finalExit, exit, orch, orchVars, auditVars,
                 attempted, cut>>

Finish ==
  /\ stage = "exit"
  /\ finalExit' = IF degraded /\ exitCode = 0 THEN Partial ELSE exitCode
  /\ stage' = "idle"
  /\ UNCHANGED <<exitCode, degraded, kicked, exit, orch, orchVars, auditVars,
                 attempted, cut, served>>

(* External: the 06:30 timer publishes whatever the database holds once no *)
(* orchestrator has it open, and the box may go down.                      *)
Timer ==
  /\ orch = "off"
  /\ served' = Copy("timer")
  /\ UNCHANGED <<nightVars, exit, orch, orchVars, auditVars, attempted, cut>>

Reboot ==
  /\ stage # "idle"
  /\ stage' = "idle" /\ orch' = "off"
  /\ UNCHANGED <<exitCode, degraded, finalExit, kicked, exit, orchVars, auditVars,
                 attempted, cut, served>>

Night == StartNight \/ AfterPassA \/ AfterPassB \/ Roll \/ RunTail \/ FinalPromote \/ Finish

Next == Orchestrator \/ Night \/ Timer \/ Reboot

Spec == Init /\ [][Next]_vars
-------------------------------------------------------------------------------
(* What must hold.                                                         *)

Rows(p, status) == {i \in Ingests : row[p][i] = status}

(* A run recorded as a success is one: each of its ingests that the        *)
(* registry held was called and has a success row, none has a failed row,  *)
(* and the counters the watchdog reads agree with the rows.  The audit is  *)
(* written statement by statement on the connection under test, so every   *)
(* statement that raises must leave the run partial.                       *)
SuccessIsWhole ==
  \A p \in Passes : run[p].status = "success" =>
    /\ Rows(p, "failed") = {}
    /\ Rows(p, "success") = attempted \cap Range(Schedule[p])
    /\ run[p].count = Cardinality(Rows(p, "success"))
    /\ run[p].failed = 0

(* Whatever is cut between the two statements of log_phase, the counters   *)
(* of a run never claim an ingest, or a failure, that has no row.          *)
CountersNeverAhead ==
  \A p \in Passes :
    /\ run[p].count <= Cardinality(Rows(p, "success") \cup Rows(p, "failed"))
    /\ run[p].failed <= Cardinality(Rows(p, "failed"))

(* The exit status monitoring reads is 0 only for a night both runs of     *)
(* which ended as a success and whose D1 publish and parity check passed.  *)
ExitZeroIsClean ==
  finalExit = 0 => ~degraded /\ \A p \in Passes : run[p].status = "success"

(* nightly.sh itself never publishes a build of which a run lost its       *)
(* connection or its process: "keeps last-good dashboards/serving instead  *)
(* of publishing a half-built DB".  (The 06:30 timer knows no such gate.)  *)
NoCutRunPublished == served.by = "nightly" => served.cut = {}

(* The MotherDuck publish is launched only when the serving snapshot it    *)
(* will read was copied after both of tonight's passes.                    *)
KickReadsTonight == kicked => served.after = Passes
===============================================================================
