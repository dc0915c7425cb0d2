---------------------------- MODULE IngestBlocks ----------------------------
(***************************************************************************)
(* The vocabulary in which the ingests of entities/ are written down.  An  *)
(* ingest is a sequence of blocks; a block is a sequence of steps, one per *)
(* statement, call or test of the function that can fail or that changes   *)
(* what the next one finds.  What a statement says about columns and rows  *)
(* is left out: a table is a few slices (a workspace, a day, one of the    *)
(* tables a loop goes through) and a slice is last night's, gone, half     *)
(* there, tonight's or retired.                                            *)
(***************************************************************************)
EXTENDS Sequences

(* One step: what it does, the table it does it to, the slices it covers,  *)
(* the warehouse table it takes the rows from ("" for a source outside of  *)
(* the warehouse), and one more table it consults.                         *)
Step(op, t) == [op |-> op, t |-> t, on |-> "here", from |-> "", with |-> ""]

(* DELETE of what the ingest is about to replace.                          *)
Clear(t) == Step("clear", t)

(* One INSERT or CREATE TABLE AS: all of its rows or none.                 *)
Fill(t) == Step("fill", t)
FillFrom(t, u) == [Fill(t) EXCEPT !.from = u]

(* One INSERT of some of the rows, of which a Fill has the last: until     *)
(* then the slice counts as gone, or as half there if u has a hole.        *)
Part(t) == Step("part", t)
PartFrom(t, u) == [Part(t) EXCEPT !.from = u]

(* executemany, or a loop of INSERTs: outside of a transaction each row    *)
(* commits on its own.                                                     *)
Rows(t) == Step("rows", t)
RowsFrom(t, u) == [Rows(t) EXCEPT !.from = u]

(* executemany of a run of its own, beside the runs before it; those who   *)
(* read the table take the latest run.                                     *)
AddRun(t) == Step("append", t)

(* DELETE of every run but this one.                                       *)
Sweep(t) == Step("sweep", t)

(* UPDATE ... SET is_active = FALSE, or a DELETE, of what was not found.   *)
Retire(t) == Step("retire", t)

(* CREATE TABLE AS SELECT * FROM u, holes included.                        *)
Copy(t, u) == [Step("copy", t) EXCEPT !.from = u]

(* One INSERT that completes the rows of u by those of w.                  *)
Merge(t, u, w) == [Step("merge", t) EXCEPT !.from = u, !.with = w]

(* Takes the rows of u for the slices that came out empty and that w has   *)
(* as active.                                                              *)
Carry(t, u, w) == [Step("carry", t) EXCEPT !.from = u, !.with = w]

(* A statement that reads, prepares or appends what nobody replaces.       *)
Run(t) == Step("run", t)
Prepare == Run("")

Rebuild(t)        == <<Clear(t), Fill(t)>>
RebuildFrom(t, u) == <<Clear(t), FillFrom(t, u)>>
Reload(t)         == <<Clear(t), Rows(t)>>
ReloadFrom(t, u)  == <<Clear(t), RowsFrom(t, u)>>

(* A call to a service, a file or a database outside of the warehouse: it  *)
(* raises, answers, or answers with nothing; PullSome may also answer for  *)
(* some of the slices only.                                                *)
Pull     == Step("pull", "")
PullSome == Step("pull", "parts")

(* Return early, with success: a table, a file or a setting is missing.    *)
Unless(t) == Step("unless", t)

(* Rather than replace rows by an empty answer: return early, with success,*)
(* or go on to the next slice or block.                                    *)
RefuseEmpty == Step("refuse", "")
SkipEmpty   == Step("skip", "")

(* Raise on an empty answer.                                               *)
RaiseEmpty == Step("insist", "")

(* Raise if an earlier slice or block failed and was only noted.           *)
RaiseNoted == Step("noted", "")

Begin  == Step("begin", "")
Commit == Step("commit", "")
Atomic(steps) == <<Begin>> \o steps \o <<Commit>>

(* The slices a step covers, when not the ones of its block: those the     *)
(* ingest has got through in this run, or the others.                      *)
Seen(st)   == [st EXCEPT !.on = "seen"]
Unseen(st) == [st EXCEPT !.on = "unseen"]

(* A block: its steps; the handler of its transaction (none, one that      *)
(* covers what follows BEGIN, one that covers BEGIN too); what becomes of  *)
(* an exception (raised, noted and on to the next slice or block, noted    *)
(* and returned), if of any kind or of calls only; whether it is repeated  *)
(* for every slice.                                                        *)
Block(steps) ==
  [steps |-> steps, undo |-> "none", catch |-> "raise", of |-> "any", each |-> FALSE]

(* BEGIN; try: ...; COMMIT; except: ROLLBACK; raise                        *)
Undone(steps) == [Block(steps) EXCEPT !.undo = "after"]

(* try: BEGIN; ...; COMMIT; except: ROLLBACK; raise                        *)
UndoneWithBegin(steps) == [Block(steps) EXCEPT !.undo = "with"]

Noted(block)    == [block EXCEPT !.catch = "next"]
Returned(block) == [block EXCEPT !.catch = "return"]
OfCalls(block)  == [block EXCEPT !.of = "call"]
Each(block)     == [block EXCEPT !.each = TRUE]

(* A program is a sequence of blocks, each with a step at least.           *)
StepType == [op : STRING, t : STRING, on : STRING, from : STRING, with : STRING]
BlockType ==
  [steps : Seq(StepType) \ {<<>>}, undo : {"none", "after", "with"},
   catch : {"raise", "next", "return"}, of : {"any", "call"}, each : BOOLEAN]

(* The tables a program replaces or fills.                                 *)
Writes == {"clear", "part", "fill", "rows", "append", "sweep", "retire", "copy", "merge", "carry"}
StepsOf(program) == UNION {{program[b].steps[i] : i \in DOMAIN program[b].steps} : b \in DOMAIN program}
Written(program) ==
  {st.t : st \in {s \in StepsOf(program) : s.op \in Writes}}
Read(program) == (UNION {{st.from, st.with} : st \in StepsOf(program)}) \ {""}
=============================================================================
