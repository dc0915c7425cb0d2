------------------------------ MODULE IngestRun ------------------------------
(***************************************************************************)
(* The orchestrator (core/orchestrator.py) calling one ingest after the    *)
(* other on ONE DuckDB connection, statement by statement.  What an ingest *)
(* leaves behind on the connection (a transaction nobody closed, a table   *)
(* it has emptied) is what the next one starts from, and the audit rows    *)
(* are written through the same connection, hence inside whatever          *)
(* transaction is open.                                                    *)
(*                                                                         *)
(* A statement outside of a transaction commits at once.  In a transaction *)
(* an error either leaves it open (binder, catalog, parameters) or aborts  *)
(* it, after which every statement but ROLLBACK raises: the build's error  *)
(* class decides, so the model takes either.                               *)
(***************************************************************************)
EXTENDS IngestBlocks, Naturals, Functions

CONSTANTS
  Program,      \* ingest or stage -> its blocks
  Processes,    \* those that are a process of their own, without audit row
  Schedules,    \* runs that follow each other, each the registrations in
                \* order, and a bound on the troubles they meet (failing
                \* steps, empty answers, early returns, a kill)
  Slices        \* how many slices a table has

Slice == 1 .. Slices

(* A pass visits a registration at most once.                              *)
Orders(names) == {o \in Seq(names) : \A i, j \in DOMAIN o : o[i] = o[j] => i = j}

ASSUME SlicesAssumption == Slices \in Nat \ {0}
ASSUME ProgramAssumption ==
  \A g \in DOMAIN Program :
    /\ Program[g] \in Seq(BlockType)
    /\ \A st \in StepsOf(Program[g]) : st.op \in {"copy", "carry"} => st.from # ""
ASSUME ScheduleAssumption ==
  \A c \in Schedules :
    c.troubles \in Nat /\ c.runs # <<>> /\ c.runs \in Seq(Orders(DOMAIN Program))

VARIABLES
  runs,      \* orders of the runs still to come
  todo,      \* registrations still to visit
  stage,     \* where the orchestrator is
  pos,       \* block, slice and step of the ingest at hand
  mem, disk, \* the database as the connection sees it, and as committed
  tx,        \* "none", "open" or "aborted"
  seen,      \* slices that the ingest's last loop got through
  answer,    \* slice -> what its last Pull answered
  noted,     \* a failure was caught and noted
  status,    \* what log_phase is about to write
  exit,      \* exit status of the process
  troubles,  \* that may still come
  hit,       \* ingests that met a failing step (history)
  lean,      \* ingests that met an empty answer or returned early (history)
  had        \* tables with a hole when the run began (history)

ingestVars == <<pos, seen, answer, noted>>
history    == <<troubles, hit, lean, had>>
vars == <<runs, todo, stage, ingestVars, mem, disk, tx, status, exit, history>>

Val == {"last", "gone", "half", "tonight", "retired"}
Holed(v) == v \in {"gone", "half"}
HoledTables == {t \in DOMAIN disk.content : \E s \in Slice : Holed(disk.content[t][s])}
Stages == {"next", "step", "log", "probe", "closed", "killed"}
NoExit == 9
Db == [content: [DOMAIN mem.content -> [Slice -> Val]],
       audit: [DOMAIN mem.audit -> {"none", "success", "failed"}],
       run: {"running", "success", "partial", "failed"}]
Ingests == DOMAIN mem.audit
Tables  == DOMAIN mem.content

TypeOK ==
  /\ stage \in Stages /\ tx \in {"none", "open", "aborted"}
  /\ mem \in Db /\ disk \in Db
  /\ tx = "none" => mem = disk
  /\ seen \subseteq Slice /\ answer \in [Slice -> {"full", "empty"}]
  /\ noted \in BOOLEAN /\ status \in {"none", "success", "failed"}
  /\ exit \in {0, 1, 2, NoExit} /\ troubles \in Nat
  /\ hit \subseteq Ingests /\ lean \subseteq Ingests /\ had \subseteq Tables

Init ==
  /\ \E c \in Schedules :
       LET names  == UNION {Range(c.runs[n]) : n \in DOMAIN c.runs}
           tables == UNION {Written(Program[g]) \cup Read(Program[g]) : g \in names} IN
       /\ runs = Tail(c.runs) /\ todo = Head(c.runs) /\ troubles = c.troubles
       /\ mem = [content |-> [t \in tables |-> [s \in Slice |-> "last"]],
                 audit |-> [g \in names |-> "none"], run |-> "running"]
  /\ stage = "next" /\ pos = <<1, 1, 1>>
  /\ disk = mem /\ tx = "none"
  /\ seen = {} /\ answer = [s \in Slice |-> "full"] /\ noted = FALSE
  /\ status = "none" /\ exit = NoExit
  /\ hit = {} /\ lean = {} /\ had = {}

At == Head(todo)
block == Program[At][pos[1]]
step  == block.steps[pos[3]]
Here  == IF block.each THEN {pos[2]} ELSE Slice

Scope(st) == CASE st.on = "seen" -> seen
               [] st.on = "unseen" -> Slice \ seen
               [] OTHER -> Here

Trouble == troubles > 0 /\ troubles' = troubles - 1

(* The statement or call at hand touches the database.                     *)
Tests == {"refuse", "skip", "insist", "noted"}
OnDatabase == step.op \notin Tests \cup {"pull"}

(* What step leaves of slice s of its table.                               *)
Source(st, s) == IF st.from = "" THEN answer[s]
                 ELSE CASE mem.content[st.from][s] = "gone" -> "empty"
                        [] mem.content[st.from][s] = "half" -> "half"
                        [] OTHER -> "full"

NewVal(st, s) ==
  LET v == mem.content[st.t][s] IN
  CASE st.op = "clear" -> "gone"
    [] st.op = "sweep" -> IF v = "tonight" THEN v ELSE "gone"
    [] st.op = "retire" -> "retired"
    [] st.op = "copy" -> mem.content[st.from][s]
    [] st.op = "merge" /\ Source(st, s) # "empty" ->
         IF Holed(mem.content[st.with][s]) \/ Source(st, s) = "half" THEN "half" ELSE "tonight"
    [] st.op = "carry" /\ v = "gone" /\ mem.content[st.with][s] # "retired" -> mem.content[st.from][s]
    [] st.op \in {"rows", "append"} /\ Source(st, s) = "full" -> "tonight"
    [] st.op = "fill" /\ Source(st, s) = "full" /\ v # "half" -> "tonight"
    [] st.op \in {"fill", "rows"} /\ Source(st, s) = "half" /\ v = "gone" -> "half"
    [] st.op = "part" /\ v = "gone" /\ st.from # "" /\ Holed(mem.content[st.from][s]) -> "half"
    [] st.op = "append" /\ Source(st, s) # "full" /\ \E r \in Scope(st) : Source(st, r) = "full" -> "gone"
    [] OTHER -> v

Put(t, S, val) ==
  [mem EXCEPT !.content[t] = [s \in Slice |-> IF s \in S THEN val[s] ELSE @[s]]]

(* A statement took effect: at once, unless a transaction is open.         *)
Store(db) == mem' = db /\ disk' = IF tx = "none" THEN db ELSE disk

(* The next slice, the next block, the end: got are the slices that came   *)
(* through; a loop over the slices begins with none.                       *)
NextSlice(got) ==
  IF block.each /\ pos[2] < Slices THEN pos' = <<pos[1], pos[2] + 1, 1>> /\ seen' = got
  ELSE /\ pos' = <<pos[1] + 1, 1, 1>>
       /\ seen' = IF pos[1] < Len(Program[At]) /\ Program[At][pos[1] + 1].each THEN {} ELSE got

Forward ==
  IF pos[3] < Len(block.steps)
  THEN pos' = <<pos[1], pos[2], pos[3] + 1>> /\ UNCHANGED seen
  ELSE NextSlice(IF block.each THEN seen \cup Here ELSE seen)

(* run_phase: the function of the next registration is called.             *)
CallIngest_KeepsNotes ==
  /\ stage = "next" /\ todo # <<>>
  /\ stage' = "step" /\ pos' = <<1, 1, 1>>
  /\ seen' = {} /\ answer' = [s \in Slice |-> "full"]
  /\ UNCHANGED <<runs, todo, mem, disk, tx, noted, status, exit, history>>
CallIngest ==
  /\ stage = "next" /\ todo # <<>>
  /\ stage' = "step" /\ pos' = <<1, 1, 1>>
  /\ seen' = {} /\ answer' = [s \in Slice |-> "full"] /\ noted' = FALSE
  /\ UNCHANGED <<runs, todo, mem, disk, tx, status, exit, history>>

InStep == stage = "step" /\ pos[1] <= Len(Program[At])

(* A statement succeeds.                                                   *)
Execute ==
  /\ InStep /\ OnDatabase /\ step.op \notin {"begin", "commit"} /\ tx # "aborted"
  /\ Store(IF step.op \in Writes THEN Put(step.t, Scope(step), [s \in Slice |-> NewVal(step, s)]) ELSE mem)
  /\ Forward
  /\ UNCHANGED <<runs, todo, stage, answer, noted, tx, status, exit, history>>

BeginTx ==
  /\ InStep /\ step.op = "begin" /\ tx = "none"
  /\ tx' = "open" /\ Forward
  /\ UNCHANGED <<runs, todo, stage, answer, noted, mem, disk, status, exit, history>>

CommitTx ==
  /\ InStep /\ step.op = "commit" /\ tx = "open"
  /\ tx' = "none" /\ disk' = mem /\ Forward
  /\ UNCHANGED <<runs, todo, stage, answer, noted, mem, status, exit, history>>

(* A call answers, with rows or (a trouble) with nothing for some slices.  *)
PullAnswers ==
  /\ InStep /\ step.op = "pull"
  /\ \/ answer' = [s \in Slice |-> IF s \in Here THEN "full" ELSE answer[s]] /\ UNCHANGED history
     \/ /\ Trouble /\ lean' = lean \cup {At} /\ UNCHANGED <<hit, had>>
        /\ \E S \in IF step.t = "parts" THEN SUBSET Here \ {{}} ELSE {Here} :
             answer' = [s \in Slice |-> IF s \in S THEN "empty" ELSE IF s \in Here THEN "full" ELSE answer[s]]
  /\ Forward
  /\ UNCHANGED <<runs, todo, stage, noted, mem, disk, tx, status, exit>>

Empty == \A s \in Here : answer[s] = "empty"

(* Mutant: an answer without rows passes for one that has some.            *)
TestPasses_Unread ==
  /\ InStep /\ step.op \in Tests /\ (step.op = "noted" => ~noted)
  /\ Forward
  /\ UNCHANGED <<runs, todo, stage, answer, noted, mem, disk, tx, status, exit, history>>

(* The tests that pass.                                                    *)
TestPasses ==
  /\ InStep
  /\ \/ step.op \in Tests \ {"noted"} /\ ~Empty
     \/ step.op = "noted" /\ ~noted
  /\ Forward
  /\ UNCHANGED <<runs, todo, stage, answer, noted, mem, disk, tx, status, exit, history>>

(* The function returns: at its end, or early with success.                *)
Succeeded == stage' = "log" /\ status' = "success" /\ UNCHANGED <<ingestVars, mem, disk, tx>>

Return ==
  /\ stage = "step" /\ pos[1] > Len(Program[At])
  /\ Succeeded /\ UNCHANGED <<runs, todo, exit, history>>

ReturnEarly ==
  /\ InStep
  /\ \/ step.op = "unless" /\ tx # "aborted" /\ Trouble /\ lean' = lean \cup {At} /\ UNCHANGED <<hit, had>>
     \/ step.op = "refuse" /\ Empty /\ UNCHANGED history
  /\ Succeeded
  /\ UNCHANGED <<runs, todo, exit>>

Skip ==
  /\ InStep /\ step.op = "skip" /\ Empty
  /\ NextSlice(seen)
  /\ UNCHANGED <<runs, todo, stage, answer, noted, mem, disk, tx, status, exit, history>>

(* Mutant: only an exception that is let out is rolled back.               *)
Covered_Raised ==
  \E b \in 1 .. pos[3], c \in pos[3] .. Len(block.steps) :
    /\ block.steps[b].op = "begin" /\ block.steps[c].op = "commit" /\ block.catch = "raise"
    /\ \A k \in b + 1 .. c - 1 : block.steps[k].op \notin {"begin", "commit"}
    /\ block.undo = "with" \/ (block.undo = "after" /\ b < pos[3])

(* The handler of the block's transaction covers the step at hand.         *)
Covered ==
  \E b \in 1 .. pos[3], c \in pos[3] .. Len(block.steps) :
    /\ block.steps[b].op = "begin" /\ block.steps[c].op = "commit"
    /\ \A k \in b + 1 .. c - 1 : block.steps[k].op \notin {"begin", "commit"}
    /\ block.undo = "with" \/ (block.undo = "after" /\ b < pos[3])

Caught == block.catch # "raise" /\ (block.of = "any" \/ step.op = "pull")

(* An exception, with the database and the transaction as the failing step *)
(* leaves them: the handler rolls back, then the block's except clause     *)
(* notes it, returns, or lets it out of the function.                      *)
Raise(db, t) ==
  /\ IF Covered /\ t # "none"
     THEN mem' = disk /\ tx' = "none" /\ UNCHANGED disk
     ELSE /\ tx' = t /\ mem' = db
          /\ disk' = IF t = "none" THEN db ELSE disk
  /\ answer' = IF step.op = "pull" THEN [s \in Slice |-> IF s \in Here THEN "empty" ELSE answer[s]]
               ELSE answer
  /\ noted' = (noted \/ Caught)
  /\ IF Caught /\ block.catch = "next" THEN NextSlice(seen) /\ UNCHANGED <<stage, status>>
     ELSE /\ stage' = "log" /\ UNCHANGED <<pos, seen>>
          /\ status' = IF Caught THEN "success" ELSE "failed"
  /\ UNCHANGED <<runs, todo, exit, lean, had>>

(* What a failing statement may leave behind: nothing, but for the rows of *)
(* a loop that had already gone in.                                        *)
Leftover ==
  {mem} \cup
  {Put(st.t, Scope(st), [s \in Slice |-> IF st.op = "append" \/ mem.content[st.t][s] = "gone" THEN "half"
                                         ELSE mem.content[st.t][s]]) :
     st \in {x \in {step} : x.op \in {"rows", "append"}}}

StepFails ==
  /\ InStep /\ step.op \notin Tests /\ Trouble
  /\ tx # "aborted" /\ ~(step.op = "begin" /\ tx # "none")
  /\ hit' = hit \cup {At}
  /\ \/ step.op = "commit" /\ Raise(disk, "none")
     \/ /\ step.op # "commit"
        /\ \E db \in Leftover : \E t \in IF tx = "none" \/ ~OnDatabase THEN {tx} ELSE {"open", "aborted"} :
             Raise(db, t)

(* An aborted transaction refuses every statement, an open one BEGIN.      *)
StepRefused ==
  /\ InStep
  /\ (tx = "aborted" /\ OnDatabase) \/ (tx = "open" /\ step.op = "begin")
  /\ Raise(mem, tx) /\ UNCHANGED <<troubles, hit>>

(* The ingest itself raises over what it was given or has noted.           *)
Complains ==
  /\ InStep
  /\ \/ step.op = "insist" /\ Empty
     \/ step.op = "noted" /\ noted
  /\ Raise(mem, tx) /\ UNCHANGED <<troubles, hit>>

ProcessEnds ==
  /\ stage = "log" /\ At \in Processes
  /\ disk' = [disk EXCEPT !.audit[At] = status] /\ mem' = disk' /\ tx' = "none"
  /\ stage' = "next" /\ todo' = Tail(todo)
  /\ UNCHANGED <<runs, ingestVars, status, exit, history>>

(* log_phase; in an aborted transaction it raises, which the first time    *)
(* makes the ingest a failed one and the second time is only logged.       *)
LogPhase ==
  /\ stage = "log" /\ At \notin Processes
  /\ IF tx = "aborted" THEN status' = "failed" /\ UNCHANGED <<mem, disk>>
     ELSE Store([mem EXCEPT !.audit[At] = status]) /\ UNCHANGED status
  /\ stage' = "probe"
  /\ UNCHANGED <<runs, todo, ingestVars, tx, exit, history>>

(* The liveness probe passes, also in a transaction left open.             *)
ProbePasses ==
  /\ stage = "probe" /\ tx # "aborted"
  /\ stage' = "next" /\ todo' = Tail(todo)
  /\ exit' = IF status = "failed" THEN 1 ELSE exit
  /\ UNCHANGED <<runs, ingestVars, mem, disk, tx, status, history>>

(* FatalDBError: close (which rolls back), write the run's row through a   *)
(* fresh connection, exit 2.                                               *)
ProbeFails ==
  /\ stage = "probe" /\ tx = "aborted"
  /\ stage' = "closed" /\ exit' = 2 /\ tx' = "none"
  /\ disk' = [disk EXCEPT !.run = "failed"] /\ mem' = disk'
  /\ UNCHANGED <<runs, todo, ingestVars, status, history>>

(* end_run, then close: a transaction still open is rolled back.           *)
EndRun_CommitsNothing ==
  /\ stage = "next" /\ todo = <<>>
  /\ exit' = IF exit = 1 THEN 1 ELSE 0
  /\ mem' = [mem EXCEPT !.run = "success"] /\ UNCHANGED disk
  /\ stage' = "closed" /\ tx' = "none"
  /\ UNCHANGED <<runs, todo, ingestVars, status, history>>
EndRun ==
  /\ stage = "next" /\ todo = <<>>
  /\ exit' = IF exit = 1 THEN 1 ELSE 0
  /\ IF tx = "none"
     THEN Store([mem EXCEPT !.run = IF exit = 1 THEN "partial" ELSE "success"])
     ELSE mem' = disk /\ UNCHANGED disk
  /\ stage' = "closed" /\ tx' = "none"
  /\ UNCHANGED <<runs, todo, ingestVars, status, history>>

(* SIGKILL: what was not committed is gone.                                *)
Killed ==
  /\ stage \notin {"closed", "killed"} /\ Trouble /\ stage' = "killed"
  /\ disk' \in IF InStep /\ tx = "none" THEN Leftover ELSE {disk}
  /\ mem' = disk' /\ tx' = "none"
  /\ UNCHANGED <<runs, todo, ingestVars, status, exit, hit, lean, had>>

(* The next run, on a connection of its own: what the last one built is    *)
(* last night's now.                                                       *)
Aged(v) == IF v = "tonight" THEN "last" ELSE v
NextRun ==
  /\ stage \in {"closed", "killed"} /\ runs # <<>>
  /\ runs' = Tail(runs) /\ todo' = Head(runs) /\ stage' = "next"
  /\ disk' = [content |-> [t \in Tables |-> [s \in Slice |-> Aged(disk.content[t][s])]],
              audit |-> [g \in Ingests |-> "none"], run |-> "running"]
  /\ mem' = disk' /\ exit' = NoExit /\ hit' = {} /\ lean' = {} /\ had' = HoledTables
  /\ UNCHANGED <<ingestVars, tx, status, troubles>>

Next ==
  \/ CallIngest \/ Execute \/ BeginTx \/ CommitTx \/ PullAnswers \/ TestPasses
  \/ Return \/ ReturnEarly \/ Skip \/ StepFails \/ StepRefused \/ Complains
  \/ ProcessEnds \/ LogPhase \/ ProbePasses \/ ProbeFails \/ EndRun \/ Killed \/ NextRun

Spec == Init /\ [][Next]_vars
==============================================================================
