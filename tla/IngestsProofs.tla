--------------------------- MODULE IngestsProofs ---------------------------
(***************************************************************************)
(* Proofs about the orchestrator for any programs, any registrations of a  *)
(* pass, any number of runs and any troubles: what is left behind on the   *)
(* connection, and what the audit rows and the exit status say.            *)
(***************************************************************************)
EXTENDS Ingests, SequenceTheorems, TLAPS

DbOf(T, G) == [content : [T -> [Slice -> Val]],
               audit : [G -> {"none", "success", "failed"}],
               run : {"running", "success", "partial", "failed"}]

\* Where the ingest is in its program.
PosOK(p) ==
  /\ p \in Nat \X Nat \X Nat /\ p[1] >= 1
  /\ p[1] <= Len(Program[At]) => p[2] \in Slice /\ p[3] \in DOMAIN Program[At][p[1]].steps

\* What TypeOK needs to be inductive: the registrations are programs, their
\* tables are there, and the orchestrator is somewhere in one of them.
Shape ==
  /\ TypeOK
  /\ Ingests \subseteq DOMAIN Program
  /\ \A g \in Ingests : Written(Program[g]) \cup Read(Program[g]) \subseteq Tables
  /\ runs \in Seq(Orders(Ingests)) /\ todo \in Orders(Ingests)
  /\ stage \in {"step", "log", "probe"} => todo # <<>>
  /\ stage = "step" => PosOK(pos)
-----------------------------------------------------------------------------
(* Orders, steps and tables.                                               *)

\* The rest of a pass does not come back to the registration at hand.
LEMMA TailOrder ==
  ASSUME NEW G, NEW o \in Orders(G), o # <<>>
  PROVE  /\ Head(o) \in G /\ Tail(o) \in Orders(G)
         /\ \A i \in DOMAIN Tail(o) : Tail(o)[i] = o[i + 1] /\ Tail(o)[i] # Head(o)
<1>1. /\ o \in Seq(G) /\ Len(o) \in Nat \ {0} /\ Head(o) = o[1] /\ Tail(o) \in Seq(G)
      /\ Len(Tail(o)) = Len(o) - 1
      /\ \A i \in 1 .. Len(o) - 1 : Tail(o)[i] = o[i + 1]
  BY HeadTailProperties, EmptySeq, LenProperties DEF Orders
<1>2. DOMAIN o = 1 .. Len(o) /\ DOMAIN Tail(o) = 1 .. Len(o) - 1
  BY <1>1
<1>3. \A i, j \in 1 .. Len(o) : o[i] = o[j] => i = j
  BY <1>2 DEF Orders
<1>4. \A i \in DOMAIN Tail(o) : Tail(o)[i] = o[i + 1] /\ Tail(o)[i] # Head(o)
  BY <1>1, <1>2, <1>3
<1>5. \A i, j \in DOMAIN Tail(o) : Tail(o)[i] = Tail(o)[j] => i = j
  BY <1>1, <1>2, <1>3
<1>6. Head(o) \in G
  BY <1>1
<1> QED BY <1>1, <1>4, <1>5, <1>6 DEF Orders

LEMMA AtFacts ==
  ASSUME Shape, todo # <<>>
  PROVE  At \in Ingests /\ At \in DOMAIN Program /\ Program[At] \in Seq(BlockType)
BY TailOrder, ProgramAssumption DEF Shape, At

\* The step at hand and what it may touch.
LEMMA StepFacts ==
  ASSUME Shape, InStep
  PROVE  /\ block \in BlockType /\ pos[3] \in 1 .. Len(block.steps) /\ block.steps \in Seq(StepType)
         /\ pos[1] \in 1 .. Len(Program[At]) /\ pos[2] \in Slice
         /\ step \in StepType /\ step \in StepsOf(Program[At])
         /\ step.op \in Writes => step.t \in Tables
         /\ step.from # "" => step.from \in Tables
         /\ step.op \in {"copy", "carry"} => step.from # ""
         /\ Here \subseteq Slice /\ Here # {}
<1>1. /\ At \in Ingests /\ At \in DOMAIN Program /\ Program[At] \in Seq(BlockType)
      /\ PosOK(pos) /\ stage = "step" /\ pos[1] <= Len(Program[At])
  BY AtFacts DEF Shape, InStep
<1>2. pos[1] \in 1 .. Len(Program[At]) /\ pos[2] \in Slice /\ pos[3] \in DOMAIN block.steps
  BY <1>1, LenProperties DEF PosOK, block
<1>3. block \in BlockType
  BY <1>1, <1>2 DEF block
<1>4. block.steps \in Seq(StepType) /\ block.each \in BOOLEAN
  BY <1>3 DEF BlockType
<1>5. pos[3] \in 1 .. Len(block.steps)
  BY <1>2, <1>4
<1>6. step \in StepType
  BY <1>4, <1>5 DEF step
<1>7. step \in StepsOf(Program[At])
  BY <1>1, <1>2 DEF StepsOf, step, block
<1>8. /\ step.op \in Writes => step.t \in Written(Program[At])
      /\ step.from # "" => step.from \in Read(Program[At])
  <2> DEFINE All == StepsOf(Program[At])
  <2>1. step \in All
    BY <1>7
  <2> HIDE DEF All
  <2>2. step.op \in Writes => step.t \in {st.t : st \in {s \in All : s.op \in Writes}}
    BY <2>1
  <2>3. step.from \in {step.from, step.with} /\ {step.from, step.with} \in {{st.from, st.with} : st \in All}
    BY <2>1
  <2>4. step.op \in Writes => step.t \in Written(Program[At])
    BY <2>2, Zenon DEF Written, All
  <2>5. step.from \in UNION {{st.from, st.with} : st \in All}
    BY <2>3, Zenon
  <2>6. step.from # "" => step.from \in Read(Program[At])
    BY <2>5, Zenon DEF Read, All
  <2> QED BY <2>4, <2>6
<1>9. /\ step.op \in Writes => step.t \in Tables
      /\ step.from # "" => step.from \in Tables
  BY <1>1, <1>8 DEF Shape
<1>10. step.op \in {"copy", "carry"} => step.from # ""
  BY <1>1, <1>7, ProgramAssumption
<1>11. Here \subseteq Slice /\ Here # {}
  BY <1>2, SlicesAssumption DEF Here, Slice
<1> QED BY <1>1, <1>2, <1>3, <1>4, <1>5, <1>6, <1>7, <1>9, <1>10, <1>11

\* A slice takes one of the values.
LEMMA NewValType ==
  ASSUME Shape, InStep, step.op \in Writes, NEW s \in Slice
  PROVE  NewVal(step, s) \in Val
<1>1. mem.content \in [Tables -> [Slice -> Val]]
  BY DEF Shape, TypeOK, Db, Tables
<1>2. mem.content[step.t][s] \in Val
  BY <1>1, StepFacts
<1>3. step.op \in {"copy", "carry"} => mem.content[step.from][s] \in Val
  BY <1>1, StepFacts
<1> QED BY <1>2, <1>3 DEF NewVal, Val

\* A write of some slices changes the contents only.
LEMMA PutType ==
  ASSUME NEW T, NEW G, mem \in DbOf(T, G), NEW t \in T, NEW S, NEW val \in [Slice -> Val]
  PROVE  /\ Put(t, S, val) \in DbOf(T, G)
         /\ Put(t, S, val).audit = mem.audit /\ Put(t, S, val).run = mem.run
<1> DEFINE c == [mem.content EXCEPT ![t] = [s \in Slice |-> IF s \in S THEN val[s] ELSE @[s]]]
<1>1. mem.content \in [T -> [Slice -> Val]]
  BY DEF DbOf
<1>2. [s \in Slice |-> IF s \in S THEN val[s] ELSE mem.content[t][s]] \in [Slice -> Val]
  BY <1>1
<1>3. c \in [T -> [Slice -> Val]]
  BY <1>1, <1>2
<1>4. Put(t, S, val) = [mem EXCEPT !.content = c]
  BY DEF Put, DbOf
<1> HIDE DEF c
<1> QED BY <1>3, <1>4 DEF DbOf

\* The next step, or the next slice, is a step of the program or its end.
LEMMA NextSlicePos ==
  ASSUME Shape, InStep, NEW got \in SUBSET Slice, NextSlice(got), UNCHANGED todo
  PROVE  PosOK(pos)' /\ seen' \subseteq Slice
<1>1. /\ block \in BlockType /\ pos[1] \in 1 .. Len(Program[At]) /\ pos[2] \in Slice
      /\ Program[At] \in Seq(BlockType)
  BY StepFacts, AtFacts DEF Shape, InStep
<1>2. \A n \in 1 .. Len(Program[At]) : 1 \in DOMAIN Program[At][n].steps
  <2> TAKE n \in 1 .. Len(Program[At])
  <2>1. Program[At][n] \in BlockType
    BY <1>1
  <2>2. Program[At][n].steps \in Seq(StepType) /\ Program[At][n].steps # <<>>
    BY <2>1 DEF BlockType
  <2> QED BY <2>2, EmptySeq, LenProperties
<1>3. pos \in Nat \X Nat \X Nat
  BY DEF Shape, InStep, PosOK
<1>4. 1 \in Slice
  BY SlicesAssumption DEF Slice
<1>5. At' = At
  BY DEF At
<1>6. CASE block.each /\ pos[2] < Slices
  <2>1. pos' = <<pos[1], pos[2] + 1, 1>> /\ seen' = got
    BY <1>6 DEF NextSlice
  <2>2. pos[2] + 1 \in Slice
    BY <1>1, <1>6, SlicesAssumption DEF Slice
  <2> QED BY <1>1, <1>2, <1>3, <1>5, <2>1, <2>2 DEF PosOK
<1>7. CASE ~(block.each /\ pos[2] < Slices)
  <2>1. pos' = <<pos[1] + 1, 1, 1>> /\ seen' \in SUBSET Slice
    BY <1>7 DEF NextSlice
  <2>2. pos[1] + 1 <= Len(Program[At]) => pos[1] + 1 \in 1 .. Len(Program[At])
    BY <1>1, LenProperties
  <2> QED BY <1>1, <1>2, <1>3, <1>4, <1>5, <2>1, <2>2 DEF PosOK
<1> QED BY <1>6, <1>7

LEMMA ForwardPos ==
  ASSUME Shape, InStep, Forward, UNCHANGED todo
  PROVE  PosOK(pos)' /\ seen' \subseteq Slice
<1>0. /\ pos[3] \in 1 .. Len(block.steps) /\ pos[1] \in 1 .. Len(Program[At]) /\ pos[2] \in Slice
      /\ pos \in Nat \X Nat \X Nat /\ seen \subseteq Slice /\ Here \subseteq Slice
      /\ block.steps \in Seq(StepType) /\ At' = At
  BY StepFacts DEF Shape, InStep, PosOK, At, TypeOK
<1>1. CASE pos[3] < Len(block.steps)
  <2>1. pos' = <<pos[1], pos[2], pos[3] + 1>> /\ seen' = seen
    BY <1>1 DEF Forward
  <2>2. pos[3] + 1 \in 1 .. Len(block.steps)
    BY <1>0, <1>1, LenProperties
  <2> QED BY <1>0, <2>1, <2>2 DEF PosOK, block
<1>2. CASE ~(pos[3] < Len(block.steps))
  <2>1. PICK got \in SUBSET Slice : NextSlice(got)
    BY <1>0, <1>2 DEF Forward
  <2> QED BY <1>0, <2>1, NextSlicePos
<1> QED BY <1>1, <1>2

-----------------------------------------------------------------------------
(* The type invariant.                                                     *)

DbType == DbOf(Tables, Ingests)

LEMMA ShapeFacts ==
  ASSUME Shape
  PROVE  /\ Db = DbType /\ mem \in DbType /\ disk \in DbType /\ (tx = "none" => mem = disk)
         /\ tx \in {"none", "open", "aborted"} /\ stage \in Stages
         /\ runs \in Seq(Orders(Ingests)) /\ todo \in Orders(Ingests)
         /\ seen \subseteq Slice /\ answer \in [Slice -> {"full", "empty"}]
         /\ noted \in BOOLEAN /\ status \in {"none", "success", "failed"}
         /\ exit \in {0, 1, 2, NoExit} /\ troubles \in Nat
         /\ hit \subseteq Ingests /\ lean \subseteq Ingests /\ had \subseteq Tables
<1>1. Db = DbType
  BY DEF Db, DbType, DbOf, Tables, Ingests
<1> QED BY <1>1 DEF Shape, TypeOK

\* What an action has to keep.
LEMMA ShapeKept ==
  ASSUME Shape,
         mem' \in DbType, disk' \in DbType, tx' = "none" => mem' = disk',
         tx' \in {"none", "open", "aborted"}, stage' \in Stages,
         runs' \in Seq(Orders(Ingests)), todo' \in Orders(Ingests),
         stage' \in {"step", "log", "probe"} => todo' # <<>>,
         stage' = "step" => PosOK(pos)',
         seen' \subseteq Slice, answer' \in [Slice -> {"full", "empty"}],
         noted' \in BOOLEAN, status' \in {"none", "success", "failed"},
         exit' \in {0, 1, 2, NoExit}, troubles' \in Nat,
         hit' \subseteq Ingests, lean' \subseteq Ingests, had' \subseteq Tables
  PROVE  Shape' /\ Ingests' = Ingests /\ Tables' = Tables
<1>1. Ingests' = Ingests /\ Tables' = Tables
  BY DEF DbType, DbOf, Tables, Ingests
<1>2. Db' = DbType
  BY <1>1 DEF Db, DbType, DbOf, Tables, Ingests
<1>3. TypeOK'
  BY <1>1, <1>2 DEF TypeOK
<1> QED BY <1>1, <1>3 DEF Shape

LEMMA InitShape == Init => Shape
<1> SUFFICES ASSUME Init PROVE Shape
  OBVIOUS
<1> DEFINE Names(c) == UNION {Range(c.runs[n]) : n \in DOMAIN c.runs}
           Of(c) == UNION {Written(Program[g]) \cup Read(Program[g]) : g \in Names(c)}
<1>1. PICK c \in Schedules :
        /\ runs = Tail(c.runs) /\ todo = Head(c.runs) /\ troubles = c.troubles
        /\ mem = [content |-> [t \in Of(c) |-> [s \in Slice |-> "last"]],
                  audit |-> [g \in Names(c) |-> "none"], run |-> "running"]
  BY DEF Init
<1>2. Ingests = Names(c) /\ Tables = Of(c)
  BY <1>1 DEF Ingests, Tables
<1>3. mem \in DbType
  BY <1>1, <1>2 DEF DbType, DbOf, Val
<1> HIDE DEF Of
<1>4. /\ c.troubles \in Nat /\ c.runs # <<>> /\ c.runs \in Seq(Orders(DOMAIN Program))
      /\ DOMAIN c.runs = 1 .. Len(c.runs)
  BY ScheduleAssumption
<1>5. \A n \in DOMAIN c.runs : c.runs[n] \in Orders(Names(c)) /\ Range(c.runs[n]) \subseteq DOMAIN Program
  <2> TAKE n \in DOMAIN c.runs
  <2> DEFINE o == c.runs[n]
  <2>1. o \in Orders(DOMAIN Program)
    BY <1>4
  <2> HIDE DEF o
  <2>2. o \in Seq(DOMAIN Program) /\ \A i, j \in DOMAIN o : o[i] = o[j] => i = j
    BY <2>1 DEF Orders
  <2>3. Range(o) = {o[i] : i \in DOMAIN o} /\ DOMAIN o = 1 .. Len(o)
    BY <2>2 DEF Range
  <2>4. Range(o) \subseteq DOMAIN Program
    BY <2>2, <2>3
  <2>5. Range(o) \subseteq Names(c)
    BY DEF o
  <2>6. o \in Seq(Names(c))
    BY <2>2, <2>3, <2>5
  <2> QED BY <2>2, <2>4, <2>6 DEF o, Orders
<1>6. Names(c) \subseteq DOMAIN Program
  BY <1>5
<1>7. \A g \in Names(c) : Written(Program[g]) \cup Read(Program[g]) \subseteq Of(c)
  BY DEF Of
<1> HIDE DEF Names
<1>8. c.runs \in Seq(Orders(Names(c)))
  BY <1>4, <1>5
<1>9. runs \in Seq(Orders(Ingests)) /\ todo \in Orders(Ingests)
  BY <1>1, <1>2, <1>4, <1>8, HeadTailProperties
<1>10. TypeOK
  <2>1. Db = DbType
    BY DEF Db, DbType, DbOf, Tables, Ingests
  <2> QED BY <1>1, <1>3, <1>4, <2>1 DEF Init, TypeOK, Stages, NoExit
<1> QED BY <1>2, <1>6, <1>7, <1>9, <1>10 DEF Init, Shape

\* An exception leaves the database as db, and goes where the block sends it.
LEMMA RaiseShape ==
  ASSUME Shape, InStep, NEW db \in DbType, NEW t \in {"none", "open", "aborted"}, Raise(db, t),
         troubles' \in Nat, hit' \subseteq Ingests
  PROVE  Shape' /\ Ingests' = Ingests /\ Tables' = Tables
<1>1. UNCHANGED <<runs, todo, exit, lean, had>> /\ noted' \in BOOLEAN
  BY ShapeFacts DEF Raise
<1>2. mem' \in DbType /\ disk' \in DbType /\ (tx' = "none" => mem' = disk')
      /\ tx' \in {"none", "open", "aborted"}
  BY ShapeFacts DEF Raise
<1>3. answer' \in [Slice -> {"full", "empty"}]
  BY ShapeFacts DEF Raise
<1>4. todo # <<>>
  BY DEF Shape, InStep
<1>5. /\ stage' \in Stages /\ status' \in {"none", "success", "failed"}
      /\ stage' = "step" => PosOK(pos)'
      /\ seen' \subseteq Slice
  <2>1. CASE Caught /\ block.catch = "next"
    BY <1>1, <2>1, NextSlicePos, ShapeFacts DEF Raise
  <2>2. CASE ~(Caught /\ block.catch = "next")
    BY <2>2, ShapeFacts DEF Raise, Stages
  <2> QED BY <2>1, <2>2
<1> QED BY <1>1, <1>2, <1>3, <1>4, <1>5, ShapeFacts, ShapeKept

\* What a failing statement leaves is a database.
LEMMA LeftoverType ==
  ASSUME Shape, InStep, NEW db \in Leftover
  PROVE  db \in DbType /\ db.audit = mem.audit /\ db.run = mem.run
<1>1. CASE db = mem
  BY <1>1, ShapeFacts
<1>2. CASE db # mem
  <2> DEFINE val == [s \in Slice |-> IF step.op = "append" \/ mem.content[step.t][s] = "gone" THEN "half"
                                     ELSE mem.content[step.t][s]]
  <2>1. step.op \in {"rows", "append"} /\ db = Put(step.t, Scope(step), val)
    BY <1>2 DEF Leftover
  <2>2. step.t \in Tables
    BY <2>1, StepFacts DEF Writes
  <2>3. mem.content \in [Tables -> [Slice -> Val]]
    BY ShapeFacts DEF DbType, DbOf
  <2>4. val \in [Slice -> Val]
    BY <2>2, <2>3 DEF Val
  <2> HIDE DEF val
  <2> QED BY <2>1, <2>2, <2>4, PutType, ShapeFacts DEF DbType
<1> QED BY <1>1, <1>2

\* Every action keeps the types, and the names of tables and registrations.
LEMMA ShapeStep ==
  ASSUME Shape, [Next]_vars
  PROVE  Shape' /\ Ingests' = Ingests /\ Tables' = Tables
<1>f. /\ mem \in DbType /\ disk \in DbType /\ (tx = "none" => mem = disk)
      /\ tx \in {"none", "open", "aborted"} /\ stage \in Stages
      /\ runs \in Seq(Orders(Ingests)) /\ todo \in Orders(Ingests)
      /\ seen \subseteq Slice /\ answer \in [Slice -> {"full", "empty"}]
      /\ noted \in BOOLEAN /\ status \in {"none", "success", "failed"}
      /\ exit \in {0, 1, 2, NoExit} /\ troubles \in Nat
      /\ hit \subseteq Ingests /\ lean \subseteq Ingests /\ had \subseteq Tables
  BY ShapeFacts
<1>p. /\ stage \in {"step", "log", "probe"} => todo # <<>> /\ At \in Ingests /\ Tail(todo) \in Orders(Ingests)
      /\ stage = "step" => PosOK(pos)
  BY AtFacts, TailOrder DEF Shape
<1>s. Here \subseteq Slice \/ ~InStep
  BY StepFacts
<1>1. CASE UNCHANGED vars
  BY <1>1, <1>f, <1>p, ShapeKept DEF vars, ingestVars, history, PosOK, At
<1>2. CASE CallIngest
  <2>1. /\ UNCHANGED <<runs, todo, mem, disk, tx, status, exit, history>> /\ stage' = "step"
        /\ pos' = <<1, 1, 1>> /\ seen' = {} /\ answer' = [s \in Slice |-> "full"] /\ noted' = FALSE
        /\ todo # <<>>
    BY <1>2 DEF CallIngest
  <2>2. At \in DOMAIN Program /\ Program[At] \in Seq(BlockType) /\ At' = At
    BY <2>1, AtFacts DEF At
  <2>3. 1 <= Len(Program[At]) => Program[At][1].steps \in Seq(StepType) /\ Program[At][1].steps # <<>>
    <3>1. 1 <= Len(Program[At]) => Program[At][1] \in BlockType
      BY <2>2
    <3> QED BY <3>1 DEF BlockType
  <2>4. PosOK(pos)'
    BY <2>1, <2>2, <2>3, SlicesAssumption, EmptySeq, LenProperties DEF PosOK, Slice
  <2> QED BY <2>1, <2>4, <1>f, ShapeKept DEF history, Stages
<1>3. CASE Execute
  <2> DEFINE val == [s \in Slice |-> NewVal(step, s)]
             new == IF step.op \in Writes THEN Put(step.t, Scope(step), val) ELSE mem
  <2>1. /\ UNCHANGED <<runs, todo, stage, answer, noted, tx, status, exit, history>>
        /\ InStep /\ Forward /\ Store(new)
    BY <1>3 DEF Execute
  <2>2. new \in DbType
    <3>1. step.op \in Writes => val \in [Slice -> Val]
      BY <2>1, NewValType
    <3> HIDE DEF val
    <3> QED BY <2>1, <3>1, <1>f, StepFacts, PutType DEF DbType
  <2> HIDE DEF new
  <2>3. mem' \in DbType /\ disk' \in DbType /\ (tx' = "none" => mem' = disk')
    BY <2>1, <2>2, <1>f DEF Store
  <2> QED BY <2>1, <2>3, <1>f, <1>p, ForwardPos, ShapeKept DEF history, InStep
<1>4. CASE BeginTx
  <2>1. /\ UNCHANGED <<runs, todo, stage, answer, noted, mem, disk, status, exit, history>>
        /\ InStep /\ Forward /\ tx' = "open"
    BY <1>4 DEF BeginTx
  <2> QED BY <2>1, <1>f, <1>p, ForwardPos, ShapeKept DEF history, InStep
<1>5. CASE CommitTx
  <2>1. /\ UNCHANGED <<runs, todo, stage, answer, noted, mem, status, exit, history>>
        /\ InStep /\ Forward /\ tx' = "none" /\ disk' = mem
    BY <1>5 DEF CommitTx
  <2> QED BY <2>1, <1>f, <1>p, ForwardPos, ShapeKept DEF history, InStep
<1>6. CASE PullAnswers
  <2>1. /\ UNCHANGED <<runs, todo, stage, noted, mem, disk, tx, status, exit, hit, had>>
        /\ InStep /\ Forward /\ answer' \in [Slice -> {"full", "empty"}]
        /\ troubles' \in Nat /\ (lean' = lean \/ lean' = lean \cup {At})
    <3>1. CASE UNCHANGED history
      BY <3>1, <1>6, <1>f DEF PullAnswers, history
    <3>2. CASE ~UNCHANGED history
      BY <3>2, <1>6, <1>f DEF PullAnswers, Trouble
    <3> QED BY <3>1, <3>2
  <2> QED BY <2>1, <1>f, <1>p, ForwardPos, ShapeKept DEF InStep
<1>7. CASE TestPasses
  <2>1. /\ UNCHANGED <<runs, todo, stage, answer, noted, mem, disk, tx, status, exit, history>>
        /\ InStep /\ Forward
    BY <1>7 DEF TestPasses
  <2> QED BY <2>1, <1>f, <1>p, ForwardPos, ShapeKept DEF history, InStep
<1>8. CASE Return \/ ReturnEarly
  <2>1. /\ UNCHANGED <<runs, todo, exit, ingestVars, mem, disk, tx, hit, had>>
        /\ stage = "step" /\ stage' = "log" /\ status' = "success"
        /\ troubles' \in Nat /\ (lean' = lean \/ lean' = lean \cup {At})
    BY <1>8, <1>f DEF Return, ReturnEarly, Succeeded, InStep, Trouble, history
  <2> QED BY <2>1, <1>f, <1>p, ShapeKept DEF ingestVars, Stages
<1>9. CASE Skip
  <2>1. /\ UNCHANGED <<runs, todo, stage, answer, noted, mem, disk, tx, status, exit, history>>
        /\ InStep /\ NextSlice(seen)
    BY <1>9 DEF Skip
  <2> QED BY <2>1, <1>f, <1>p, NextSlicePos, ShapeKept DEF history, InStep
<1>10. CASE StepFails
  <2>1. InStep /\ troubles' \in Nat /\ hit' \subseteq Ingests
    BY <1>10, <1>f, <1>p DEF StepFails, Trouble, InStep
  <2>2. \E db \in DbType : \E t \in {"none", "open", "aborted"} : Raise(db, t)
    BY <1>10, <1>f, LeftoverType DEF StepFails
  <2> QED BY <2>1, <2>2, RaiseShape
<1>11. CASE StepRefused \/ Complains
  <2>1. InStep /\ troubles' \in Nat /\ hit' \subseteq Ingests /\ Raise(mem, tx)
    BY <1>11, <1>f DEF StepRefused, Complains
  <2> QED BY <2>1, <1>f, RaiseShape
<1>12. CASE ProcessEnds
  <2>1. /\ UNCHANGED <<runs, ingestVars, status, exit, history>>
        /\ stage = "log" /\ stage' = "next" /\ todo' = Tail(todo)
        /\ disk' = [disk EXCEPT !.audit[At] = status] /\ mem' = disk' /\ tx' = "none"
        /\ status \in {"none", "success", "failed"}
    BY <1>12, <1>f DEF ProcessEnds
  <2>2. disk' \in DbType
    BY <2>1, <1>f DEF DbType, DbOf
  <2> QED BY <2>1, <2>2, <1>f, <1>p, ShapeKept DEF ingestVars, history, Stages
<1>13. CASE LogPhase
  <2>1. /\ UNCHANGED <<runs, todo, ingestVars, tx, exit, history>>
        /\ stage = "log" /\ stage' = "probe"
        /\ status' \in {"none", "success", "failed"}
    BY <1>13, <1>f DEF LogPhase
  <2>2. [mem EXCEPT !.audit[At] = status] \in DbType
    BY <1>f DEF DbType, DbOf
  <2>3. mem' \in DbType /\ disk' \in DbType /\ (tx' = "none" => mem' = disk')
    BY <1>13, <2>2, <1>f DEF LogPhase, Store
  <2> QED BY <2>1, <2>3, <1>f, <1>p, ShapeKept DEF ingestVars, history, Stages
<1>14. CASE ProbePasses
  <2>1. /\ UNCHANGED <<runs, ingestVars, mem, disk, tx, status, history>>
        /\ stage = "probe" /\ stage' = "next" /\ todo' = Tail(todo) /\ exit' \in {0, 1, 2, NoExit}
    BY <1>14, <1>f DEF ProbePasses
  <2> QED BY <2>1, <1>f, <1>p, ShapeKept DEF ingestVars, history, Stages
<1>15. CASE ProbeFails
  <2>1. /\ UNCHANGED <<runs, todo, ingestVars, status, history>>
        /\ stage' = "closed" /\ exit' = 2 /\ tx' = "none"
        /\ disk' = [disk EXCEPT !.run = "failed"] /\ mem' = disk'
    BY <1>15 DEF ProbeFails
  <2>2. disk' \in DbType
    BY <2>1, <1>f DEF DbType, DbOf
  <2> QED BY <2>1, <2>2, <1>f, ShapeKept DEF ingestVars, history, Stages
<1>16. CASE EndRun
  <2>1. /\ UNCHANGED <<runs, todo, ingestVars, status, history>>
        /\ stage' = "closed" /\ exit' \in {0, 1} /\ tx' = "none"
    BY <1>16 DEF EndRun
  <2>2. \A r \in {"partial", "success"} : [mem EXCEPT !.run = r] \in DbType
    BY <1>f DEF DbType, DbOf
  <2>3. mem' \in DbType /\ disk' \in DbType /\ mem' = disk'
    BY <1>16, <2>2, <1>f DEF EndRun, Store
  <2> QED BY <2>1, <2>3, <1>f, ShapeKept DEF ingestVars, history, Stages
<1>17. CASE Killed
  <2>1. /\ UNCHANGED <<runs, todo, ingestVars, status, exit, hit, lean, had>>
        /\ stage' = "killed" /\ tx' = "none" /\ mem' = disk' /\ troubles' \in Nat
    BY <1>17, <1>f DEF Killed, Trouble
  <2>2. disk' \in DbType
    BY <1>17, <1>f, LeftoverType DEF Killed
  <2> QED BY <2>1, <2>2, <1>f, ShapeKept DEF ingestVars, history, Stages
<1>18. CASE NextRun
  <2>1. /\ UNCHANGED <<ingestVars, tx, status, troubles>>
        /\ runs # <<>> /\ runs' = Tail(runs) /\ todo' = Head(runs) /\ stage' = "next"
        /\ mem' = disk' /\ exit' = NoExit /\ hit' = {} /\ lean' = {} /\ had' = HoledTables
    BY <1>18 DEF NextRun
  <2>2. disk.content \in [Tables -> [Slice -> Val]]
    BY <1>f DEF DbType, DbOf
  <2>3. [t \in Tables |-> [s \in Slice |-> Aged(disk.content[t][s])]] \in [Tables -> [Slice -> Val]]
    BY <2>2 DEF Aged, Val
  <2>4. disk' \in DbType
    BY <1>18, <2>3 DEF NextRun, DbType, DbOf
  <2>5. had' \subseteq Tables
    BY <2>1, <2>2 DEF HoledTables
  <2>6. runs' \in Seq(Orders(Ingests)) /\ todo' \in Orders(Ingests)
    BY <2>1, <1>f, HeadTailProperties
  <2> QED BY <2>1, <2>4, <2>5, <2>6, <1>f, ShapeKept DEF ingestVars, Stages
<1> QED BY <1>1, <1>2, <1>3, <1>4, <1>5, <1>6, <1>7, <1>8, <1>9, <1>10, <1>11, <1>12, <1>13,
           <1>14, <1>15, <1>16, <1>17, <1>18 DEF Next

\* Every variable keeps its type, for any programs and any troubles.
THEOREM TypeCorrect == Spec => []TypeOK
<1>1. Shape => TypeOK
  BY DEF Shape
<1>2. Shape /\ [Next]_vars => Shape'
  BY ShapeStep
<1> QED BY <1>1, <1>2, InitShape, PTL DEF Spec

-----------------------------------------------------------------------------
(* The connection and the books.                                           *)

\* The step at hand lies between a BEGIN that was executed and its COMMIT.
Enclosed == Inside(block, pos[3])

\* An open transaction is the ingest's own and will be closed by its COMMIT or
\* its handler, or by the end of the process that has failed.
TxEnclosed ==
  \/ tx = "none"
  \/ InStep /\ tx = "open" /\ Enclosed
  \/ stage \in {"step", "log"} /\ At \in Processes /\ At \in hit

FailedOf(G) == \E g \in G \ Processes : disk.audit[g] = "failed"

\* The audit rows and the exit status follow what the ingests returned.
Booked ==
  /\ mem.audit = disk.audit
  /\ stage \in {"next", "step", "log"} =>
       /\ \A i \in DOMAIN todo : disk.audit[todo[i]] = "none"
       /\ exit = IF FailedOf(Ingests) THEN 1 ELSE NoExit
  /\ stage = "probe" =>
       /\ At \notin Processes /\ disk.audit[At] = status
       /\ \A i \in DOMAIN todo \ {1} : disk.audit[todo[i]] = "none"
       /\ exit = IF FailedOf(Ingests \ {At}) THEN 1 ELSE NoExit
  /\ stage = "closed" => exit = IF FailedOf(Ingests) THEN 1 ELSE 0

\* Nothing is taken for a failure of an ingest that had no trouble itself.
Blamed ==
  /\ \A g \in Ingests : disk.audit[g] = "failed" => g \in hit \cup lean
  /\ stage \in {"log", "probe"} /\ status = "failed" => At \in hit \cup lean
  /\ stage = "step" /\ (noted \/ \E s \in Slice : answer[s] = "empty") => At \in hit \cup lean

\* The inductive invariant.  What holds while no transaction has leaked has to
\* be kept apart from what holds regardless.
IInv ==
  /\ Shape
  /\ stage \in {"closed", "killed"} => tx = "none"
  /\ Leaked \/ (TxEnclosed /\ Booked /\ Blamed)

LEMMA InitIInv == Init => IInv
<1> SUFFICES ASSUME Init PROVE IInv
  OBVIOUS
<1>1. Shape /\ stage = "next" /\ tx = "none" /\ disk = mem /\ exit = NoExit
  BY InitShape DEF Init
<1>2. \A g \in Ingests : disk.audit[g] = "none"
  BY DEF Init, Ingests
<1>3. todo \in Seq(Ingests)
  BY <1>1 DEF Shape, Orders
<1>4. \A i \in DOMAIN todo : disk.audit[todo[i]] = "none"
  BY <1>2, <1>3
<1>5. ~FailedOf(Ingests)
  BY <1>2 DEF FailedOf
<1> QED BY <1>1, <1>2, <1>4, <1>5 DEF IInv, TxEnclosed, Booked, Blamed

\* Between BEGIN and COMMIT there is no test, and the COMMIT is ahead.
LEMMA EnclosedFacts ==
  ASSUME Shape, InStep, Enclosed
  PROVE  /\ step.op \notin {"begin", "unless"} \cup Tests
         /\ At \notin {"im_bookings"} \cup Processes => Covered
<1>1. PICK b \in 1 .. pos[3] - 1, c \in pos[3] .. Len(block.steps) :
        /\ block.steps[b].op = "begin" /\ block.steps[c].op = "commit"
        /\ Between(block, b, c)
  BY DEF Enclosed, Inside
<1>0. /\ pos[3] \in 1 .. Len(block.steps) /\ block.steps \in Seq(StepType)
      /\ block \in BlockType /\ pos[1] \in 1 .. Len(Program[At])
      /\ At \in DOMAIN Program /\ Program[At] \in Seq(BlockType)
  BY StepFacts, AtFacts DEF Shape, InStep
<1>2. /\ pos[3] \in 1 .. Len(block.steps) /\ block.steps \in Seq(StepType)
      /\ block \in BlockType /\ At \in DOMAIN Program /\ pos[1] \in DOMAIN Program[At]
  BY <1>0
<1>3. step.op \notin {"begin", "unless"} \cup Tests
  <2>1. CASE pos[3] = c
    BY <1>1, <2>1 DEF step, Tests
  <2>2. CASE pos[3] # c
    <3>1. pos[3] \in b + 1 .. c - 1
      BY <1>1, <1>2, <2>2, LenProperties
    <3> QED BY <1>1, <3>1 DEF Between, step
  <2> QED BY <2>1, <2>2
<1>4. ASSUME At \notin {"im_bookings"} \cup Processes PROVE Covered
  <2>1. b \in DOMAIN Program[At][pos[1]].steps
    BY <1>1, <1>2, LenProperties DEF block
  <2>2. block.undo # "none"
    BY <1>1, <1>2, <1>4, <2>1, HandledAssumption DEF block
  <2>3. block.undo \in {"after", "with"}
    BY <1>2, <2>2 DEF BlockType
  <2>4. b \in 1 .. pos[3] /\ b < pos[3]
    BY <1>1, <1>2, LenProperties
  <2>5. \A k \in b + 1 .. c - 1 : block.steps[k].op \notin {"begin", "commit"}
    BY <1>1 DEF Between
  <2> QED BY <1>1, <2>3, <2>4, <2>5 DEF Covered
<1> QED BY <1>3, <1>4

\* A step that is not the COMMIT goes on to one that is enclosed too, and so
\* does BEGIN.
LEMMA EnclosedForward ==
  ASSUME Shape, InStep, Forward, UNCHANGED <<todo, stage>>,
         step.op = "begin" \/ (Enclosed /\ step.op # "commit")
  PROVE  InStep' /\ Enclosed'
<1>1. /\ pos[3] \in 1 .. Len(block.steps) /\ block.steps \in Seq(StepType)
      /\ block \in BlockType /\ At \in DOMAIN Program /\ pos[1] \in 1 .. Len(Program[At])
      /\ Program[At] \in Seq(BlockType) /\ pos \in Nat \X Nat \X Nat
  BY StepFacts, AtFacts DEF Shape, InStep, PosOK
<1>2. PICK b \in 1 .. pos[3], c \in pos[3] + 1 .. Len(block.steps) :
        /\ block.steps[b].op = "begin" /\ block.steps[c].op = "commit"
        /\ Between(block, b, c)
  <2>1. CASE step.op = "begin"
    <3>1. pos[1] \in DOMAIN Program[At] /\ pos[3] \in DOMAIN Program[At][pos[1]].steps
      BY <1>1 DEF block
    <3>2. Closes(block, pos[3])
      BY <1>1, <2>1, <3>1, HandledAssumption DEF step, block
    <3>3. PICK c \in DOMAIN block.steps : /\ c > pos[3] /\ block.steps[c].op = "commit"
                                          /\ Between(block, pos[3], c)
      BY <3>2 DEF Closes
    <3>4. c \in pos[3] + 1 .. Len(block.steps)
      BY <1>1, <3>3, LenProperties
    <3> QED BY <1>1, <2>1, <3>3, <3>4 DEF step
  <2>2. CASE Enclosed /\ step.op # "commit"
    <3>1. PICK b \in 1 .. pos[3] - 1, c \in pos[3] .. Len(block.steps) :
            /\ block.steps[b].op = "begin" /\ block.steps[c].op = "commit"
            /\ Between(block, b, c)
      BY <2>2 DEF Enclosed, Inside
    <3>2. c # pos[3]
      BY <2>2, <3>1 DEF step
    <3> QED BY <1>1, <3>1, <3>2, LenProperties
  <2> QED BY <2>1, <2>2
<1>3. pos[3] < Len(block.steps)
  BY <1>1, <1>2, LenProperties
<1>4. pos' = <<pos[1], pos[2], pos[3] + 1>>
  BY <1>3 DEF Forward
<1>5. At' = At /\ block' = block /\ pos'[1] = pos[1] /\ pos'[3] = pos[3] + 1
  BY <1>1, <1>4 DEF At, block
<1>6. InStep'
  BY <1>5 DEF InStep
<1>7. b \in 1 .. pos'[3] - 1 /\ c \in pos'[3] .. Len(block'.steps)
  BY <1>1, <1>2, <1>5, LenProperties
<1>8. Between(block, b, c)'
  BY <1>2, <1>5 DEF Between
<1> QED BY <1>2, <1>5, <1>6, <1>7, <1>8 DEF Enclosed, Inside

\* While an ingest runs the books stand still.
LEMMA BooksKept ==
  ASSUME Booked, Blamed, stage = "step", stage' \in {"step", "log"}, Ingests' = Ingests,
         UNCHANGED <<todo, exit>>, disk'.audit = disk.audit, mem'.audit = disk.audit,
         hit \subseteq hit', lean \subseteq lean',
         stage' = "log" /\ status' = "failed" => At \in hit' \cup lean',
         stage' = "step" /\ (noted' \/ \E s \in Slice : answer'[s] = "empty") => At \in hit' \cup lean'
  PROVE  Booked' /\ Blamed'
<1>1. At' = At /\ (FailedOf(Ingests)' <=> FailedOf(Ingests))
  BY DEF At, FailedOf
<1>2. Booked'
  BY <1>1 DEF Booked
<1>3. Blamed'
  BY <1>1 DEF Blamed
<1> QED BY <1>2, <1>3

\* An exception rolls back what the handler covers, and is only noted or let
\* out when the ingest had its trouble.
LEMMA RaiseTidy ==
  ASSUME Shape, Ingests' = Ingests, Booked, Blamed, InStep,
         NEW db, db.audit = mem.audit, NEW t, Raise(db, t),
         hit \subseteq hit', At \in hit' \cup lean',
         t = "none" \/ Covered \/ (At \in Processes /\ At \in hit')
  PROVE  TxEnclosed' /\ Booked' /\ Blamed'
<1>1. UNCHANGED <<todo, exit, lean>> /\ stage = "step" /\ At' = At
  BY DEF Raise, InStep, At
<1>2. stage' \in {"step", "log"}
  BY <1>1 DEF Raise
<1>3. disk'.audit = disk.audit /\ mem'.audit = disk.audit
  BY DEF Raise, Booked
<1>4. Booked' /\ Blamed'
  BY <1>1, <1>2, <1>3, BooksKept
<1>5. TxEnclosed'
  BY <1>1, <1>2 DEF Raise, TxEnclosed
<1> QED BY <1>4, <1>5

\* A step that succeeds, in a transaction or out of one.
LEMMA ForwardTidy ==
  ASSUME Shape, Ingests' = Ingests, TxEnclosed, Booked, Blamed, InStep, Forward,
         UNCHANGED <<stage, todo, exit, noted, hit>>, lean \subseteq lean',
         mem'.audit = mem.audit, disk' = disk \/ disk' = mem \/ disk' = mem',
         answer' = answer \/ At \in lean' \/ \A s \in Slice : answer'[s] = "empty" => answer[s] = "empty",
         \/ tx' = "none"
         \/ tx' = "open" /\ step.op = "begin"
         \/ tx' = tx /\ step.op # "commit"
  PROVE  TxEnclosed' /\ Booked' /\ Blamed'
<1>1. stage = "step" /\ At' = At
  BY DEF InStep, At
<1>2. disk'.audit = disk.audit /\ mem'.audit = disk.audit
  BY DEF Booked
<1>3. noted' \/ (\E s \in Slice : answer'[s] = "empty") => At \in hit' \cup lean'
  BY <1>1 DEF Blamed
<1>4. Booked' /\ Blamed'
  BY <1>1, <1>2, <1>3, BooksKept
<1>5. TxEnclosed'
  <2>1. CASE tx' = "none"
    BY <2>1 DEF TxEnclosed
  <2>2. CASE tx' = "open" /\ step.op = "begin"
    BY <2>2, EnclosedForward DEF TxEnclosed
  <2>3. CASE tx' = tx /\ tx # "none" /\ step.op # "commit"
    <3>1. CASE tx = "open" /\ Enclosed
      BY <2>3, <3>1, EnclosedForward DEF TxEnclosed
    <3>2. CASE At \in Processes /\ At \in hit
      BY <1>1, <3>2 DEF TxEnclosed
    <3> QED BY <2>3, <3>1, <3>2 DEF TxEnclosed
  <2> QED BY <2>1, <2>2, <2>3
<1> QED BY <1>4, <1>5

\* No ingest but im_bookings opens what it does not close: only a run's first
\* action can make Leaked false again.
LEMMA HitGrows == ASSUME [Next]_vars, ~NextRun PROVE hit \subseteq hit'
<1>1. CASE UNCHANGED vars
  BY <1>1 DEF vars, history
<1>2. CASE CallIngest \/ Execute \/ BeginTx \/ CommitTx \/ TestPasses \/ Return \/ Skip
  BY <1>2 DEF CallIngest, Execute, BeginTx, CommitTx, TestPasses, Return, Skip, history
<1>3. CASE PullAnswers \/ ReturnEarly \/ StepFails \/ StepRefused \/ Complains
  BY <1>3 DEF PullAnswers, ReturnEarly, StepFails, StepRefused, Complains, history
<1>4. CASE ProcessEnds \/ LogPhase \/ ProbePasses \/ ProbeFails \/ EndRun \/ Killed
  BY <1>4 DEF ProcessEnds, LogPhase, ProbePasses, ProbeFails, EndRun, Killed, history
<1> QED BY <1>1, <1>2, <1>3, <1>4 DEF Next

\* The connection is closed at the end of a run.
LEMMA ClosedStep ==
  ASSUME stage \in {"closed", "killed"} => tx = "none", [Next]_vars, stage' \in {"closed", "killed"}
  PROVE  tx' = "none"
<1>1. CASE UNCHANGED vars
  BY <1>1 DEF vars
<1>2. CASE CallIngest \/ Execute \/ BeginTx \/ CommitTx \/ PullAnswers \/ TestPasses \/ Return
           \/ ReturnEarly \/ Skip
  BY <1>2 DEF CallIngest, Execute, BeginTx, CommitTx, PullAnswers, TestPasses, Return, ReturnEarly,
     Skip, InStep, Succeeded
<1>3. CASE StepFails \/ StepRefused \/ Complains
  <2>1. InStep /\ \E db, t : Raise(db, t)
    BY <1>3 DEF StepFails, StepRefused, Complains
  <2> QED BY <2>1 DEF Raise, InStep
<1>4. CASE ProcessEnds \/ LogPhase \/ ProbePasses \/ ProbeFails \/ EndRun \/ Killed \/ NextRun
  BY <1>4 DEF ProcessEnds, LogPhase, ProbePasses, ProbeFails, EndRun, Killed, NextRun
<1> QED BY <1>1, <1>2, <1>3, <1>4 DEF Next

\* An ingest at work, from its call to its return.
LEMMA IngestTidy ==
  ASSUME Shape, Shape', Ingests' = Ingests, TxEnclosed, Booked, Blamed,
         \/ CallIngest \/ Execute \/ BeginTx \/ CommitTx \/ PullAnswers \/ TestPasses
         \/ Return \/ ReturnEarly \/ Skip \/ StepFails \/ StepRefused \/ Complains
  PROVE  Leaked' \/ (TxEnclosed' /\ Booked' /\ Blamed')
<1>1. CASE CallIngest
  <2>1. /\ UNCHANGED <<todo, mem, disk, tx, exit, hit, lean>> /\ stage = "next" /\ stage' = "step"
        /\ answer' = [s \in Slice |-> "full"] /\ noted' = FALSE
    BY <1>1 DEF CallIngest, history
  <2>2. tx = "none"
    BY <2>1 DEF TxEnclosed, InStep
  <2>3. Booked'
    BY <2>1 DEF Booked, FailedOf
  <2>4. Blamed'
    BY <2>1 DEF Blamed
  <2> QED BY <2>1, <2>2, <2>3, <2>4 DEF TxEnclosed
<1>2. CASE Execute
  <2> DEFINE val == [s \in Slice |-> NewVal(step, s)]
             new == IF step.op \in Writes THEN Put(step.t, Scope(step), val) ELSE mem
  <2>1. /\ UNCHANGED <<stage, todo, exit, noted, hit, lean, answer, tx>> /\ InStep /\ Forward
        /\ step.op # "commit" /\ Store(new)
    BY <1>2 DEF Execute, history
  <2>2. new.audit = mem.audit
    <3>1. step.op \in Writes => val \in [Slice -> Val]
      BY <2>1, NewValType
    <3>2. mem \in DbOf(Tables, Ingests)
      BY ShapeFacts DEF DbType
    <3> HIDE DEF val
    <3>3. ASSUME step.op \in Writes PROVE Put(step.t, Scope(step), val).audit = mem.audit
      <4>1. step.t \in Tables /\ val \in [Slice -> Val]
        BY <2>1, <3>1, <3>3, StepFacts
      <4> QED BY <3>2, <4>1, PutType
    <3> QED BY <3>3
  <2> HIDE DEF new
  <2>3. mem'.audit = mem.audit /\ (disk' = disk \/ disk' = mem')
    BY <2>1, <2>2 DEF Store
  <2> QED BY <2>1, <2>3, ForwardTidy
<1>3. CASE BeginTx
  <2>1. /\ UNCHANGED <<stage, todo, exit, noted, hit, lean, answer, mem, disk>> /\ InStep /\ Forward
        /\ step.op = "begin" /\ tx' = "open"
    BY <1>3 DEF BeginTx, history
  <2> QED BY <2>1, ForwardTidy
<1>4. CASE CommitTx
  <2>1. /\ UNCHANGED <<stage, todo, exit, noted, hit, lean, answer, mem>> /\ InStep /\ Forward
        /\ disk' = mem /\ tx' = "none"
    BY <1>4 DEF CommitTx, history
  <2> QED BY <2>1, ForwardTidy
<1>5. CASE PullAnswers
  <2>1. /\ UNCHANGED <<stage, todo, exit, noted, hit, tx, mem, disk>> /\ InStep /\ Forward
        /\ step.op # "commit" /\ lean \subseteq lean'
    BY <1>5 DEF PullAnswers, history
  <2>2. answer' = answer \/ At \in lean' \/ \A s \in Slice : answer'[s] = "empty" => answer[s] = "empty"
    <3>1. CASE answer' = [s \in Slice |-> IF s \in Here THEN "full" ELSE answer[s]]
      BY <3>1
    <3>2. CASE lean' = lean \cup {At}
      BY <3>2
    <3> QED BY <1>5, <3>1, <3>2 DEF PullAnswers
  <2> QED BY <2>1, <2>2, ForwardTidy
<1>6. CASE TestPasses
  <2>1. /\ UNCHANGED <<stage, todo, exit, noted, hit, lean, answer, tx, mem, disk>> /\ InStep /\ Forward
        /\ step.op # "commit"
    BY <1>6 DEF TestPasses, history, Tests
  <2> QED BY <2>1, ForwardTidy
<1>7. CASE Return \/ ReturnEarly
  <2>1. /\ UNCHANGED <<todo, exit, mem, disk, tx, hit>> /\ lean \subseteq lean'
        /\ stage = "step" /\ stage' = "log" /\ status' = "success"
        /\ InStep => step.op \in {"unless"} \cup Tests
    <3>1. CASE Return
      <4>1. pos[1] > Len(Program[At])
        BY <3>1 DEF Return
      <4>2. stage = "step" /\ Program[At] \in Seq(BlockType) /\ PosOK(pos)
        BY <3>1, AtFacts DEF Return, Shape
      <4>3. ~InStep
        BY <4>1, <4>2, LenProperties DEF InStep, PosOK
      <4> QED BY <3>1, <4>3 DEF Return, Succeeded, history
    <3>2. CASE ReturnEarly
      <4>1. stage = "step" /\ (step.op = "unless" \/ step.op \in Tests)
        BY <3>2 DEF ReturnEarly, InStep, Tests
      <4>2. hit' = hit /\ lean \subseteq lean'
        BY <3>2 DEF ReturnEarly, history
      <4> QED BY <3>2, <4>1, <4>2 DEF ReturnEarly, Succeeded
    <3> QED BY <1>7, <3>1, <3>2
  <2>2. disk'.audit = disk.audit /\ mem'.audit = disk.audit
    BY <2>1 DEF Booked
  <2>3. Booked' /\ Blamed'
    BY <2>1, <2>2, BooksKept
  <2>4. tx = "none" \/ (At \in Processes /\ At \in hit)
    BY <2>1, EnclosedFacts DEF TxEnclosed
  <2> QED BY <2>1, <2>3, <2>4 DEF TxEnclosed, At
<1>8. CASE Skip
  <2>1. /\ UNCHANGED <<stage, todo, exit, noted, hit, lean, answer, tx, mem, disk>> /\ InStep
        /\ stage = "step" /\ step.op \in Tests
    BY <1>8 DEF Skip, history, Tests, InStep
  <2>2. disk'.audit = disk.audit /\ mem'.audit = disk.audit
    BY <2>1 DEF Booked
  <2>3. noted' \/ (\E s \in Slice : answer'[s] = "empty") => At \in hit' \cup lean'
    BY <2>1 DEF Blamed
  <2>4. Booked' /\ Blamed'
    BY <2>1, <2>2, <2>3, BooksKept
  <2>5. tx = "none" \/ (At \in Processes /\ At \in hit)
    BY <2>1, EnclosedFacts DEF TxEnclosed
  <2> QED BY <2>1, <2>4, <2>5 DEF TxEnclosed, At
<1>9. CASE StepFails /\ At # "im_bookings"
  <2>1. InStep /\ step.op \notin Tests /\ hit' = hit \cup {At}
    BY <1>9 DEF StepFails
  <2>2. PICK db, t : /\ Raise(db, t) /\ db.audit = mem.audit
                     /\ t # "none" => tx # "none"
    <3>1. CASE step.op = "commit" /\ Raise(disk, "none")
      BY <3>1 DEF Booked
    <3>2. CASE step.op # "commit"
      <4>1. PICK db \in Leftover : \E t \in IF tx = "none" \/ ~OnDatabase THEN {tx} ELSE {"open", "aborted"} :
                 Raise(db, t)
        BY <1>9, <3>2 DEF StepFails
      <4> QED BY <2>1, <4>1, LeftoverType
    <3> QED BY <1>9, <3>1, <3>2 DEF StepFails
  <2>3. t = "none" \/ Covered \/ (At \in Processes /\ At \in hit')
    BY <1>9, <2>1, <2>2, EnclosedFacts DEF TxEnclosed
  <2> QED BY <2>1, <2>2, <2>3, RaiseTidy, ShapeFacts DEF Raise
<1>10. CASE StepFails /\ At = "im_bookings"
  BY <1>10 DEF StepFails, Leaked
<1>11. CASE StepRefused
  <2>1. /\ InStep /\ Raise(mem, tx) /\ hit' = hit /\ lean' = lean
        /\ (tx = "aborted" \/ (tx = "open" /\ step.op = "begin"))
    BY <1>11 DEF StepRefused, Raise
  <2>2. At \in Processes /\ At \in hit
    BY <2>1, EnclosedFacts DEF TxEnclosed
  <2> QED BY <2>1, <2>2, RaiseTidy
<1>12. CASE Complains
  <2>1. /\ InStep /\ Raise(mem, tx) /\ hit' = hit /\ lean' = lean /\ stage = "step"
        /\ step.op \in Tests /\ (Empty \/ noted)
    BY <1>12 DEF Complains, Raise, Tests, InStep
  <2>2. At \in hit \cup lean
    BY <2>1, StepFacts DEF Empty, Blamed
  <2>3. tx = "none" \/ (At \in Processes /\ At \in hit)
    BY <2>1, EnclosedFacts DEF TxEnclosed
  <2> QED BY <2>1, <2>2, <2>3, RaiseTidy
<1> QED BY <1>1, <1>2, <1>3, <1>4, <1>5, <1>6, <1>7, <1>8, <1>9, <1>10, <1>11, <1>12

\* The orchestrator between two ingests, and at the end of the run.
LEMMA OrchestratorTidy ==
  ASSUME Shape, Shape', Ingests' = Ingests, TxEnclosed, Booked, Blamed,
         ProcessEnds \/ LogPhase \/ ProbePasses \/ ProbeFails \/ EndRun \/ Killed
  PROVE  TxEnclosed' /\ Booked' /\ Blamed'
<1>f. mem.audit = disk.audit /\ disk.audit \in [Ingests -> {"none", "success", "failed"}]
      /\ (tx = "none" => mem = disk) /\ mem \in DbType /\ disk \in DbType /\ todo \in Orders(Ingests)
  BY ShapeFacts DEF Booked, DbType, DbOf
<1>n. stage \in {"log", "probe"} =>
        /\ todo # <<>> /\ At \in Ingests /\ At = todo[1] /\ DOMAIN Tail(todo) \subseteq Nat
        /\ DOMAIN todo = 1 .. Len(todo) /\ Len(todo) \in Nat \ {0}
        /\ \A i \in DOMAIN Tail(todo) : /\ Tail(todo)[i] = todo[i + 1] /\ Tail(todo)[i] # At
                                        /\ Tail(todo)[i] \in Ingests /\ i + 1 \in DOMAIN todo \ {1}
  <2> SUFFICES ASSUME stage \in {"log", "probe"}
               PROVE  /\ todo # <<>> /\ At \in Ingests /\ At = todo[1] /\ DOMAIN Tail(todo) \subseteq Nat
                      /\ DOMAIN todo = 1 .. Len(todo) /\ Len(todo) \in Nat \ {0}
                      /\ \A i \in DOMAIN Tail(todo) :
                           /\ Tail(todo)[i] = todo[i + 1] /\ Tail(todo)[i] # At
                           /\ Tail(todo)[i] \in Ingests /\ i + 1 \in DOMAIN todo \ {1}
    OBVIOUS
  <2>1. todo # <<>> /\ At = Head(todo)
    BY DEF Shape, At
  <2>2. /\ todo \in Seq(Ingests) /\ At = todo[1] /\ Len(todo) \in Nat \ {0}
        /\ Tail(todo) \in Seq(Ingests) /\ Len(Tail(todo)) = Len(todo) - 1
    BY <1>f, <2>1, HeadTailProperties, EmptySeq, LenProperties DEF Orders
  <2>3. DOMAIN todo = 1 .. Len(todo) /\ DOMAIN Tail(todo) = 1 .. Len(todo) - 1
    BY <2>2
  <2>4. \A i \in DOMAIN Tail(todo) : Tail(todo)[i] = todo[i + 1] /\ Tail(todo)[i] # At
    BY <1>f, <2>1, TailOrder
  <2>5. At \in Ingests
    BY <1>f, <2>1, TailOrder
  <2> QED BY <2>1, <2>2, <2>3, <2>4, <2>5
<1>1. CASE ProcessEnds
  <2>1. /\ stage = "log" /\ stage' = "next" /\ At \in Processes /\ todo' = Tail(todo)
        /\ disk' = [disk EXCEPT !.audit[At] = status] /\ mem' = disk' /\ tx' = "none"
        /\ UNCHANGED <<exit, hit, lean, status>>
    BY <1>1 DEF ProcessEnds, history
  <2>2. disk'.audit = [disk.audit EXCEPT ![At] = status]
    BY <2>1, <1>f DEF DbType, DbOf
  <2>3. FailedOf(Ingests)' <=> FailedOf(Ingests)
    BY <2>1, <2>2, <1>f DEF FailedOf
  <2>4. Booked'
    BY <2>1, <2>2, <2>3, <1>f, <1>n DEF Booked
  <2>5. Blamed'
    BY <2>1, <2>2, <1>f, <1>n DEF Blamed
  <2> QED BY <2>1, <2>4, <2>5 DEF TxEnclosed
<1>2. CASE LogPhase
  <2>1. /\ stage = "log" /\ stage' = "probe" /\ At \notin Processes
        /\ UNCHANGED <<todo, tx, exit, hit, lean>>
    BY <1>2 DEF LogPhase, history
  <2>2. tx = "none"
    BY <2>1 DEF TxEnclosed, InStep
  <2>3. mem' = [mem EXCEPT !.audit[At] = status] /\ disk' = mem' /\ status' = status
    BY <1>2, <2>2 DEF LogPhase, Store
  <2>4. disk'.audit = [disk.audit EXCEPT ![At] = status] /\ mem'.audit = disk'.audit /\ At' = At
    BY <2>1, <2>3, <1>f DEF DbType, DbOf, At
  <2>5. FailedOf(Ingests \ {At})' <=> FailedOf(Ingests \ {At})
    BY <2>1, <2>4, <1>f, <1>n DEF FailedOf
  <2>6. disk.audit[At] = "none"
    BY <2>1, <1>n DEF Booked
  <2>7. FailedOf(Ingests \ {At}) <=> FailedOf(Ingests)
    BY <2>6 DEF FailedOf
  <2>8. \A i \in DOMAIN todo \ {1} : disk'.audit[todo[i]] = "none"
    <3> TAKE i \in DOMAIN todo \ {1}
    <3>1. disk.audit[todo[i]] = "none"
      BY <2>1 DEF Booked
    <3>2. todo[i] # At
      BY <1>f, <1>n, <2>1 DEF Orders
    <3>3. todo[i] \in Ingests
      BY <1>f DEF Orders
    <3> QED BY <2>4, <3>1, <3>2, <3>3, <1>f
  <2>9. Booked'
    BY <2>1, <2>3, <2>4, <2>5, <2>7, <2>8, <1>f, <1>n DEF Booked
  <2>10. Blamed'
    BY <2>1, <2>3, <2>4, <1>f, <1>n DEF Blamed
  <2> QED BY <2>1, <2>2, <2>9, <2>10 DEF TxEnclosed
<1>3. CASE ProbePasses
  <2>1. /\ stage = "probe" /\ stage' = "next" /\ todo' = Tail(todo)
        /\ UNCHANGED <<mem, disk, tx, hit, lean>>
        /\ exit' = IF status = "failed" THEN 1 ELSE exit
    BY <1>3 DEF ProbePasses, history
  <2>2. tx = "none"
    BY <2>1 DEF TxEnclosed, InStep
  <2>3. At \notin Processes /\ disk.audit[At] = status
        /\ exit = IF FailedOf(Ingests \ {At}) THEN 1 ELSE NoExit
    BY <2>1 DEF Booked
  <2>4. FailedOf(Ingests)' <=> FailedOf(Ingests)
    BY <2>1 DEF FailedOf
  <2>5. FailedOf(Ingests) <=> status = "failed" \/ FailedOf(Ingests \ {At})
    BY <2>1, <2>3, <1>n DEF FailedOf
  <2>6. \A i \in DOMAIN Tail(todo) : disk.audit[Tail(todo)[i]] = "none"
    BY <2>1, <1>n DEF Booked
  <2>7. Booked'
    BY <2>1, <2>3, <2>4, <2>5, <2>6, <1>f DEF Booked
  <2>8. Blamed'
    BY <2>1 DEF Blamed
  <2> QED BY <2>1, <2>2, <2>7, <2>8 DEF TxEnclosed
<1>4. CASE ProbeFails
  BY <1>4 DEF ProbeFails, TxEnclosed, InStep
<1>5. CASE EndRun
  <2>1. /\ stage = "next" /\ stage' = "closed" /\ tx' = "none" /\ UNCHANGED <<hit, lean>>
        /\ exit' = IF exit = 1 THEN 1 ELSE 0
    BY <1>5 DEF EndRun, history
  <2>2. tx = "none"
    BY <2>1 DEF TxEnclosed, InStep
  <2>3. mem'.audit = disk.audit /\ disk'.audit = disk.audit
    BY <1>5, <2>2, <1>f DEF EndRun, Store, DbType, DbOf
  <2>4. FailedOf(Ingests)' <=> FailedOf(Ingests)
    BY <2>3 DEF FailedOf
  <2>5. Booked'
    BY <2>1, <2>3, <2>4 DEF Booked, NoExit
  <2>6. Blamed'
    BY <2>1, <2>3 DEF Blamed
  <2> QED BY <2>1, <2>5, <2>6 DEF TxEnclosed
<1>6. CASE Killed
  <2>1. /\ stage' = "killed" /\ tx' = "none" /\ mem' = disk' /\ UNCHANGED <<hit, lean>>
    BY <1>6 DEF Killed
  <2>2. disk'.audit = disk.audit
    BY <1>6, <1>f, LeftoverType DEF Killed
  <2>3. Booked' /\ Blamed'
    BY <2>1, <2>2 DEF Booked, Blamed
  <2> QED BY <2>1, <2>3 DEF TxEnclosed
<1> QED BY <1>1, <1>2, <1>3, <1>4, <1>5, <1>6

\* A run starts with clean books whatever became of the one before.
LEMMA NextRunTidy ==
  ASSUME Shape, Shape', Ingests' = Ingests, stage \in {"closed", "killed"} => tx = "none", NextRun
  PROVE  TxEnclosed' /\ Booked' /\ Blamed'
<1>1. /\ tx' = "none" /\ mem' = disk' /\ exit' = NoExit /\ stage' = "next"
      /\ disk'.audit = [g \in Ingests |-> "none"]
  BY DEF NextRun
<1>2. todo' \in Seq(Ingests)
  BY DEF Shape, Orders
<1>3. \A i \in DOMAIN todo' : disk'.audit[todo'[i]] = "none"
  BY <1>1, <1>2
<1>4. ~FailedOf(Ingests)'
  BY <1>1 DEF FailedOf
<1> QED BY <1>1, <1>3, <1>4 DEF TxEnclosed, Booked, Blamed

LEMMA IInvStep ==
  ASSUME IInv, [Next]_vars
  PROVE  IInv'
<1>1. Shape /\ Shape' /\ Ingests' = Ingests
  BY ShapeStep DEF IInv
<1>2. stage' \in {"closed", "killed"} => tx' = "none"
  BY ClosedStep DEF IInv
<1>3. CASE NextRun
  BY <1>1, <1>2, <1>3, NextRunTidy DEF IInv
<1>4. CASE ~NextRun /\ Leaked
  BY <1>1, <1>2, <1>4, HitGrows DEF IInv, Leaked
<1>5. CASE ~NextRun /\ ~Leaked
  <2>1. TxEnclosed /\ Booked /\ Blamed
    BY <1>5 DEF IInv
  <2>2. CASE UNCHANGED vars
    BY <1>1, <1>2, <2>1, <2>2 DEF IInv, vars, ingestVars, history, TxEnclosed, Booked, Blamed,
       InStep, Enclosed, Inside, FailedOf, At, block
  <2>3. CASE ProcessEnds \/ LogPhase \/ ProbePasses \/ ProbeFails \/ EndRun \/ Killed
    BY <1>1, <1>2, <2>1, <2>3, OrchestratorTidy DEF IInv
  <2>4. CASE \/ CallIngest \/ Execute \/ BeginTx \/ CommitTx \/ PullAnswers \/ TestPasses
             \/ Return \/ ReturnEarly \/ Skip \/ StepFails \/ StepRefused \/ Complains
    BY <1>1, <1>2, <2>1, <2>4, IngestTidy DEF IInv
  <2> QED BY <1>5, <2>2, <2>3, <2>4 DEF Next
<1> QED BY <1>3, <1>4, <1>5
-----------------------------------------------------------------------------
THEOREM Invariance == Spec => []IInv
<1> QED BY InitIInv, IInvStep, PTL DEF Spec

\* No ingest but im_bookings leaves a transaction open for the next one.
THEOREM HandoverIsClean == Spec => []CleanHandover
<1>1. IInv => CleanHandover
  BY DEF IInv, TxEnclosed, InStep, CleanHandover
<1> QED BY <1>1, Invariance, PTL

\* The exit status is 1 exactly if an ingest of the run has a failed row, and a
\* failed row belongs to an ingest that met a trouble of its own.
THEOREM FailuresAreLocal == Spec => []FailuresStayLocal
<1>1. IInv => FailuresStayLocal
  BY DEF IInv, Booked, Blamed, FailedOf, FailuresStayLocal
<1> QED BY <1>1, Invariance, PTL
-----------------------------------------------------------------------------
(* What the kept tables keep.                                              *)

Solid(c) == \A t \in Tables : Kept(t) => \A s \in Slice : ~Holed(c[t][s])

\* In its own transaction an ingest has holes only where it has just emptied a
\* table, and it will fill it again before its COMMIT.
Debts ==
  \A t \in Tables : \A s \in Slice :
    Kept(t) /\ Holed(mem.content[t][s]) =>
      mem.content[t][s] = "gone" /\ s \in Here /\ Owed(Program[At], block, pos[3], t)

\* What it was answered, as far as it can know.
AnswersKnown ==
  /\ Quiet(Program[At]) => \A s \in Slice : answer[s] = "full"
  /\ Plain(Program[At]) => \A r, s \in Slice : answer[r] = answer[s]
  /\ InStep /\ Tested(block, pos[3]) => \E s \in Here : answer[s] = "full"

\* The inductive invariant of the kept tables.
KeepInv ==
  /\ Shape
  /\ Solid(disk.content)
  /\ InStep /\ Enclosed => tx # "none" /\ (tx = "open" => Debts)
  /\ stage = "step" => AnswersKnown

\* The step at hand obeys the assumption about the programs.
LEMMA MadeGoodHere ==
  ASSUME Shape, InStep
  PROVE  MadeGood(Program[At], block, pos[3])
<1>1. /\ At \in DOMAIN Program /\ Program[At] \in Seq(BlockType) /\ pos[1] \in 1 .. Len(Program[At])
      /\ block.steps \in Seq(StepType) /\ pos[3] \in 1 .. Len(block.steps)
  BY StepFacts, AtFacts DEF Shape, InStep
<1>2. pos[1] \in DOMAIN Program[At] /\ pos[3] \in DOMAIN Program[At][pos[1]].steps
  BY <1>1 DEF block
<1> QED BY <1>1, <1>2, KeptAssumption DEF block

\* One step further in the block.
LEMMA OwedForward ==
  ASSUME NEW program, NEW bl, NEW k \in Nat, NEW t, Owed(program, bl, k, t), ~FillsAgain(program, bl, k, t)
  PROVE  Owed(program, bl, k + 1, t)
<1>1. PICK b \in 1 .. k - 1 : /\ bl.steps[b].op = "clear" /\ bl.steps[b].t = t
                              /\ \A i \in b + 1 .. k - 1 : ~FillsAgain(program, bl, i, t)
  BY DEF Owed
<1>2. b \in 1 .. (k + 1) - 1
  OBVIOUS
<1>3. \A i \in b + 1 .. (k + 1) - 1 : i = k \/ i \in b + 1 .. k - 1
  OBVIOUS
<1>4. \A i \in b + 1 .. (k + 1) - 1 : ~FillsAgain(program, bl, i, t)
  BY <1>1, <1>3
<1> QED BY <1>1, <1>2, <1>4, Zenon DEF Owed

LEMMA OwedClear ==
  ASSUME NEW program, NEW bl, NEW k \in Nat \ {0}, NEW t, bl.steps[k].op = "clear", bl.steps[k].t = t
  PROVE  Owed(program, bl, k + 1, t)
<1>1. k \in 1 .. (k + 1) - 1 /\ \A i \in k + 1 .. (k + 1) - 1 : FALSE
  OBVIOUS
<1> QED BY <1>1, Zenon DEF Owed

LEMMA TestedForward ==
  ASSUME NEW bl, NEW k \in Nat, Tested(bl, k + 1)
  PROVE  bl.steps[k].op \in {"refuse", "skip", "insist"} \/ (Tested(bl, k) /\ bl.steps[k].op # "pull")
<1>1. PICK j \in 1 .. (k + 1) - 1 : /\ bl.steps[j].op \in {"refuse", "skip", "insist"}
                                    /\ \A i \in j + 1 .. (k + 1) - 1 : bl.steps[i].op # "pull"
  BY DEF Tested
<1>2. CASE j = k
  BY <1>1, <1>2
<1>3. CASE j # k
  <2>1. j \in 1 .. k - 1 /\ k \in j + 1 .. (k + 1) - 1
        /\ \A i \in j + 1 .. k - 1 : i \in j + 1 .. (k + 1) - 1
    BY <1>3
  <2> QED BY <1>1, <2>1, Zenon DEF Tested
<1> QED BY <1>2, <1>3

\* A block's first step is neither enclosed nor tested.
LEMMA FirstStep ==
  ASSUME NEW bl
  PROVE  ~Inside(bl, 1) /\ ~Tested(bl, 1)
<1>1. 1 .. 1 - 1 = {}
  OBVIOUS
<1> QED BY <1>1, Zenon DEF Inside, Tested

\* To the next step of the block, or to the first one of a slice or a block.
LEMMA ForwardWhere ==
  ASSUME Shape, InStep, Forward, UNCHANGED todo
  PROVE  /\ At' = At
         /\ \/ /\ pos' = <<pos[1], pos[2], pos[3] + 1>> /\ pos'[3] = pos[3] + 1
               /\ block' = block /\ Here' = Here
            \/ pos'[3] = 1
<1>1. CASE pos[3] < Len(block.steps)
  <2>1. pos' = <<pos[1], pos[2], pos[3] + 1>>
    BY <1>1 DEF Forward
  <2>2. pos'[1] = pos[1] /\ pos'[2] = pos[2] /\ pos'[3] = pos[3] + 1 /\ At' = At
    BY <2>1 DEF At
  <2>3. block' = block
    BY <2>2 DEF block
  <2> QED BY <2>1, <2>2, <2>3 DEF Here
<1>2. CASE ~(pos[3] < Len(block.steps))
  BY <1>2 DEF Forward, NextSlice, At
<1> QED BY <1>1, <1>2

\* Who is enclosed after a step was enclosed before it, or has begun, and has
\* not committed.
LEMMA EnclosedBack ==
  ASSUME Shape, InStep, Forward, UNCHANGED todo, Enclosed'
  PROVE  /\ At' = At /\ block' = block /\ Here' = Here /\ pos'[3] = pos[3] + 1 /\ pos[3] \in Nat \ {0}
         /\ step.op # "commit" /\ (step.op = "begin" \/ Enclosed)
<1>0. pos[3] \in 1 .. Len(block.steps) /\ Len(block.steps) \in Nat
  BY StepFacts, LenProperties
<1>1. pos'[3] # 1
  BY FirstStep DEF Enclosed
<1>2. At' = At /\ block' = block /\ Here' = Here /\ pos'[3] = pos[3] + 1
  BY <1>1, ForwardWhere
<1>3. PICK b \in 1 .. (pos[3] + 1) - 1, c \in pos[3] + 1 .. Len(block.steps) :
        block.steps[b].op = "begin" /\ block.steps[c].op = "commit" /\ Between(block, b, c)
  BY <1>2 DEF Enclosed, Inside
<1>4. CASE b = pos[3]
  BY <1>0, <1>2, <1>3, <1>4 DEF step
<1>5. CASE b # pos[3]
  <2>1. b \in 1 .. pos[3] - 1 /\ c \in pos[3] .. Len(block.steps) /\ pos[3] \in b + 1 .. c - 1
    BY <1>0, <1>3, <1>5
  <2>2. Enclosed
    BY <1>3, <2>1, Zenon DEF Enclosed, Inside
  <2>3. step.op # "commit"
    BY <1>3, <2>1 DEF Between, step
  <2> QED BY <1>0, <1>2, <2>2, <2>3
<1> QED BY <1>4, <1>5

\* What is known of the answers stays known: a test that passes has seen rows.
LEMMA AnswersForward ==
  ASSUME Shape, InStep, Forward, UNCHANGED <<todo, stage, answer>>, AnswersKnown, step.op # "pull",
         step.op \in {"refuse", "skip", "insist"} => ~Empty
  PROVE  AnswersKnown'
<1>1. At' = At
  BY DEF At
<1>2. ASSUME InStep', Tested(block, pos[3])' PROVE \E s \in Here' : answer'[s] = "full"
  <2>1. pos'[3] # 1
    BY <1>2, FirstStep
  <2>2. block' = block /\ Here' = Here /\ pos'[3] = pos[3] + 1 /\ pos[3] \in Nat
    <3>1. UNCHANGED todo
      OBVIOUS
    <3>2. block' = block /\ Here' = Here /\ pos'[3] = pos[3] + 1
      BY <2>1, <3>1, ForwardWhere
    <3>3. pos[3] \in Nat
      BY DEF Shape, InStep, PosOK
    <3> QED BY <3>2, <3>3
  <2>3. step.op \in {"refuse", "skip", "insist"} \/ Tested(block, pos[3])
    BY <1>2, <2>2, TestedForward DEF step
  <2>4. ASSUME ~Empty PROVE \E s \in Here : answer[s] = "full"
    BY <2>4, ShapeFacts, StepFacts DEF Empty
  <2> QED BY <2>2, <2>3, <2>4 DEF AnswersKnown
<1> QED BY <1>1, <1>2 DEF AnswersKnown

\* A call's answer: all the same unless the program asks slice by slice, and
\* not tested yet.
LEMMA AnswersPulled ==
  ASSUME Shape, InStep, step.op = "pull", UNCHANGED todo, AnswersKnown,
         pos'[3] = 1 \/ Forward,
         NEW S \in SUBSET Here, step.t = "parts" \/ S \in {{}, Here},
         answer' = [s \in Slice |-> IF s \in S THEN "empty" ELSE IF s \in Here THEN "full" ELSE answer[s]]
  PROVE  AnswersKnown'
<1>1. At' = At
  BY DEF At
<1>2. ~Quiet(Program[At])
  BY StepFacts DEF Quiet
<1>3. ASSUME Plain(Program[At]), NEW r \in Slice, NEW s \in Slice PROVE answer'[r] = answer'[s]
  <2>0. /\ Program[At] \in Seq(BlockType) /\ pos[1] \in 1 .. Len(Program[At])
        /\ block.steps \in Seq(StepType) /\ pos[3] \in 1 .. Len(block.steps)
    BY StepFacts, AtFacts DEF Shape, InStep
  <2>1. pos[1] \in DOMAIN Program[At] /\ pos[3] \in DOMAIN Program[At][pos[1]].steps
    BY <2>0 DEF block
  <2>2. step.t # "parts" /\ ~block.each
    BY <1>3, <2>1 DEF Plain, block, step
  <2>3. Here = Slice
    BY <2>2 DEF Here
  <2> QED BY <2>2, <2>3
<1>4. ~Tested(block, pos[3])'
  <2>1. CASE pos'[3] = 1
    BY <2>1, FirstStep
  <2>2. CASE pos'[3] # 1
    <3>1. block' = block /\ pos'[3] = pos[3] + 1
      BY <2>2, ForwardWhere
    <3>2. pos[3] \in Nat
      BY DEF Shape, InStep, PosOK
    <3> QED BY <3>1, <3>2, TestedForward DEF step
  <2> QED BY <2>1, <2>2
<1> QED BY <1>1, <1>2, <1>3, <1>4 DEF AnswersKnown

\* A write changes the slices it covers, of its table.
LEMMA PutContent ==
  ASSUME Shape, NEW t \in Tables, NEW S, NEW val
  PROVE  /\ \A u \in Tables \ {t} : Put(t, S, val).content[u] = mem.content[u]
         /\ \A s \in Slice : Put(t, S, val).content[t][s] = IF s \in S THEN val[s] ELSE mem.content[t][s]
<1> DEFINE row == [s \in Slice |-> IF s \in S THEN val[s] ELSE mem.content[t][s]]
           c == [mem.content EXCEPT ![t] = row]
<1>1. mem.content \in [Tables -> [Slice -> Val]] /\ Put(t, S, val) = [mem EXCEPT !.content = c] /\ mem \in DbType
  BY ShapeFacts DEF DbType, DbOf, Put
<1>2. Put(t, S, val).content = c
  BY <1>1 DEF DbType, DbOf
<1>3. /\ \A u \in Tables \ {t} : c[u] = mem.content[u]
      /\ c[t] = row
  BY <1>1
<1>4. \A s \in Slice : row[s] = IF s \in S THEN val[s] ELSE mem.content[t][s]
  OBVIOUS
<1> HIDE DEF row, c
<1> QED BY <1>2, <1>3, <1>4

\* What a failing statement leaves of the kept tables when nothing is open.
LEMMA LeftoverSolid ==
  ASSUME Shape, InStep, tx = "none", Solid(disk.content), NEW db \in Leftover
  PROVE  Solid(db.content)
<1>1. mem = disk
  BY ShapeFacts
<1>2. CASE db = mem
  BY <1>1, <1>2
<1>3. CASE db # mem
  <2> DEFINE val == [s \in Slice |-> IF step.op = "append" \/ mem.content[step.t][s] = "gone" THEN "half"
                                     ELSE mem.content[step.t][s]]
  <2>1. step.op \in {"rows", "append"} /\ db = Put(step.t, Scope(step), val)
    BY <1>3 DEF Leftover
  <2>2. step.t \in Tables /\ (Kept(step.t) => step.op = "rows")
    BY <2>1, StepFacts, MadeGoodHere DEF Writes, MadeGood, step
  <2>3. /\ \A t \in Tables \ {step.t} : db.content[t] = mem.content[t]
        /\ \A s \in Slice : db.content[step.t][s] = IF s \in Scope(step) THEN val[s] ELSE mem.content[step.t][s]
    <3> HIDE DEF val
    <3> QED BY <2>1, <2>2, PutContent
  <2>4. ASSUME Kept(step.t), NEW s \in Slice PROVE val[s] = mem.content[step.t][s]
    <3>1. ~Holed(mem.content[step.t][s])
      BY <1>1, <2>2, <2>4 DEF Solid
    <3> QED BY <2>2, <2>4, <3>1 DEF Holed
  <2> HIDE DEF val
  <2> QED BY <1>1, <2>2, <2>3, <2>4 DEF Solid
<1> QED BY <1>2, <1>3

\* A kept slice that is there stays there, unless it is emptied.
LEMMA NewValStays ==
  ASSUME Shape, InStep, step.op \in {"fill", "rows", "retire"}, NEW s \in Slice,
         ~Holed(mem.content[step.t][s])
  PROVE  ~Holed(NewVal(step, s))
BY DEF NewVal, Holed

\* One that was emptied is filled again, or stays empty.
LEMMA NewValFills ==
  ASSUME Shape, InStep, step.op \in {"fill", "rows", "retire"}, NEW s \in Slice,
         mem.content[step.t][s] = "gone", Source(step, s) \in {"full", "empty"}
  PROVE  /\ Holed(NewVal(step, s)) => NewVal(step, s) = "gone"
         /\ Source(step, s) = "full" => ~Holed(NewVal(step, s))
BY DEF NewVal, Holed

\* A statement in the ingest's own transaction.
LEMMA ExecuteDebts ==
  ASSUME Shape, Execute, Enclosed, Debts, AnswersKnown, Enclosed'
  PROVE  Debts'
<1> DEFINE val == [s \in Slice |-> NewVal(step, s)]
           k == pos[3]
           program == Program[At]
<1>1. /\ InStep /\ Forward /\ UNCHANGED <<todo, answer, tx>>
      /\ mem' = IF step.op \in Writes THEN Put(step.t, Scope(step), val) ELSE mem
  BY DEF Execute, Store
<1>2. /\ At' = At /\ block' = block /\ Here' = Here /\ pos'[3] = k + 1 /\ k \in Nat \ {0}
      /\ step = block.steps[k]
  BY <1>1, EnclosedBack DEF step
<1>3. /\ step.op \in Writes => step.t \in Tables
      /\ step.from # "" => step.from \in Tables
      /\ Here \subseteq Slice
  BY <1>1, StepFacts
<1>4. Tables' = Tables
  BY ShapeStep DEF Next
<1>5. /\ step.op \in Writes /\ Kept(step.t) => step.op \in {"clear", "fill", "rows", "retire"}
      /\ step.op = "clear" /\ Kept(step.t) => step.on = "here"
      /\ step.op \in {"fill", "rows"} /\ step.from # "" /\ Kept(step.t) /\ Owed(program, block, k, step.t) =>
           Kept(step.from) /\ ~Owed(program, block, k, step.from)
  BY <1>1, <1>2, MadeGoodHere DEF MadeGood
<1>6. step.on = "here" => Scope(step) = Here
  BY DEF Scope
<1>7. step.op \in Writes =>
        /\ \A t \in Tables \ {step.t} : mem'.content[t] = mem.content[t]
        /\ \A s \in Slice : mem'.content[step.t][s] = IF s \in Scope(step) THEN val[s] ELSE mem.content[step.t][s]
  <2> SUFFICES ASSUME step.op \in Writes
               PROVE  /\ \A t \in Tables \ {step.t} : mem'.content[t] = mem.content[t]
                      /\ \A s \in Slice : mem'.content[step.t][s] =
                           IF s \in Scope(step) THEN val[s] ELSE mem.content[step.t][s]
    OBVIOUS
  <2>1. mem' = Put(step.t, Scope(step), val) /\ step.t \in Tables
    BY <1>1, <1>3
  <2> HIDE DEF val
  <2> QED BY <2>1, PutContent
<1> SUFFICES ASSUME NEW t \in Tables, NEW s \in Slice, Kept(t), Holed(mem'.content[t][s])
             PROVE  mem'.content[t][s] = "gone" /\ s \in Here /\ Owed(program, block, k + 1, t)
  BY <1>2, <1>4 DEF Debts
<1> HIDE DEF val, program
<1>8. CASE mem'.content[t][s] = mem.content[t][s] /\ ~FillsAgain(program, block, k, t)
  BY <1>2, <1>8, OwedForward DEF Debts, program
<1>9. CASE ~(step.op \in Writes /\ step.t = t)
  <2>1. mem'.content[t][s] = mem.content[t][s]
    BY <1>1, <1>7, <1>9
  <2>2. ~FillsAgain(program, block, k, t)
    BY <1>2, <1>9 DEF FillsAgain, Writes
  <2> QED BY <1>8, <2>1, <2>2
<1>10. CASE step.op = "clear" /\ step.t = t
  <2>1. Scope(step) = Here /\ Owed(program, block, k + 1, t)
    BY <1>2, <1>5, <1>6, <1>10, OwedClear DEF Writes
  <2>2. CASE s \in Here
    <3>1. mem'.content[t][s] = val[s] /\ val[s] = "gone"
      BY <1>7, <1>10, <2>1, <2>2 DEF val, NewVal, Writes
    <3> QED BY <2>1, <2>2, <3>1
  <2>3. CASE s \notin Here
    BY <1>7, <1>10, <2>1, <2>3 DEF Writes, Debts
  <2> QED BY <2>2, <2>3
<1>11. CASE step.op \in {"fill", "rows", "retire"} /\ step.t = t
  <2>1. CASE s \notin Scope(step)
    <3>1. mem'.content[t][s] = mem.content[t][s]
      BY <1>7, <1>11, <2>1 DEF Writes
    <3>2. s \in Here
      BY <3>1 DEF Debts
    <3>3. ~FillsAgain(program, block, k, t)
      BY <1>2, <1>6, <2>1, <3>2 DEF FillsAgain
    <3> QED BY <1>8, <3>1, <3>3
  <2>2. CASE s \in Scope(step)
    <3>1. mem'.content[t][s] = NewVal(step, s)
      BY <1>7, <1>11, <2>2 DEF Writes, val
    <3>2. mem.content[t][s] = "gone" /\ s \in Here /\ Owed(program, block, k, t)
      BY <1>1, <1>11, <3>1, NewValStays DEF Debts, program
    <3>3. CASE step.op \in {"fill", "rows"} /\ step.from # ""
      <4>1. ~Holed(mem.content[step.from][s])
        BY <1>3, <1>5, <1>11, <3>2, <3>3 DEF Debts, program
      <4>2. Source(step, s) = "full"
        BY <3>3, <4>1 DEF Source, Holed
      <4> QED BY <1>1, <1>11, <3>1, <3>2, <4>2, NewValFills
    <3>4. CASE step.op \in {"fill", "rows"} /\ step.from = ""
      <4>1. Source(step, s) = answer[s] /\ answer[s] \in {"full", "empty"}
        BY <3>4, ShapeFacts DEF Source
      <4>2. answer[s] = "empty" /\ mem'.content[t][s] = "gone"
        BY <1>1, <1>11, <3>1, <3>2, <4>1, NewValFills
      <4>3. ~FillsAgain(program, block, k, t)
        <5>1. ~Quiet(program)
          BY <4>2 DEF AnswersKnown, program
        <5>2. ASSUME Tested(block, k), block.each \/ Plain(program) PROVE FALSE
          <6>1. PICK r \in Here : answer[r] = "full"
            BY <1>1, <5>2 DEF AnswersKnown
          <6>2. CASE block.each
            BY <3>2, <4>2, <6>1, <6>2 DEF Here
          <6>3. CASE Plain(program)
            BY <1>3, <3>2, <4>2, <6>1, <6>3 DEF AnswersKnown, program
          <6> QED BY <5>2, <6>2, <6>3
        <5> QED BY <1>2, <3>4, <5>1, <5>2 DEF FillsAgain
      <4> QED BY <1>2, <3>2, <4>2, <4>3, OwedForward
    <3>5. CASE step.op = "retire"
      BY <3>1, <3>5 DEF NewVal, Holed
    <3> QED BY <1>11, <3>3, <3>4, <3>5
  <2> QED BY <2>1, <2>2
<1> QED BY <1>5, <1>9, <1>10, <1>11

\* A call or a test in the transaction writes nothing.
LEMMA StayDebts ==
  ASSUME Shape, InStep, Forward, UNCHANGED <<todo, mem>>, Tables' = Tables, Enclosed', step.op # "begin",
         step.op \in {"pull"} \cup Tests
  PROVE  Enclosed /\ (Debts => Debts')
<1>1. /\ At' = At /\ block' = block /\ Here' = Here /\ pos'[3] = pos[3] + 1 /\ pos[3] \in Nat \ {0}
      /\ Enclosed
  BY EnclosedBack
<1>2. \A t : ~FillsAgain(Program[At], block, pos[3], t)
  BY DEF FillsAgain, step, Tests
<1>3. \A t : Owed(Program[At], block, pos[3], t) => Owed(Program[At], block, pos[3] + 1, t)
  BY <1>1, <1>2, OwedForward
<1> QED BY <1>1, <1>3 DEF Debts

\* Every other statement: with nothing open it leaves no hole in a kept table.
LEMMA ExecuteSolid ==
  ASSUME Shape, Execute, Solid(disk.content), ~Enclosed
  PROVE  Solid(disk'.content)
<1> DEFINE val == [s \in Slice |-> NewVal(step, s)]
<1>1. /\ InStep /\ UNCHANGED tx
      /\ Store(IF step.op \in Writes THEN Put(step.t, Scope(step), val) ELSE mem)
  BY DEF Execute
<1>2. CASE tx # "none" \/ step.op \notin Writes
  BY <1>1, <1>2, ShapeFacts DEF Store
<1>3. CASE tx = "none" /\ step.op \in Writes
  <2>1. mem = disk /\ step.t \in Tables
    BY <1>1, <1>3, ShapeFacts, StepFacts
  <2>2. disk' = Put(step.t, Scope(step), val)
    BY <1>1, <1>3 DEF Store
  <2>3. /\ \A t \in Tables \ {step.t} : disk'.content[t] = disk.content[t]
        /\ \A s \in Slice : disk'.content[step.t][s] = IF s \in Scope(step) THEN val[s] ELSE disk.content[step.t][s]
    <3> HIDE DEF val
    <3> QED BY <2>1, <2>2, PutContent
  <2>4. ASSUME Kept(step.t), NEW s \in Slice PROVE ~Holed(val[s])
    <3>1. step.op \in {"fill", "rows", "retire"}
      BY <1>1, <1>3, <2>4, MadeGoodHere DEF MadeGood, Enclosed, step
    <3>2. ~Holed(mem.content[step.t][s])
      BY <2>1, <2>4 DEF Solid
    <3> QED BY <1>1, <3>1, <3>2, NewValStays
  <2> HIDE DEF val
  <2> QED BY <2>1, <2>3, <2>4 DEF Solid
<1> QED BY <1>2, <1>3

LEMMA KeepInit == Init => KeepInv
<1> SUFFICES ASSUME Init PROVE KeepInv
  OBVIOUS
<1>1. PICK c \in Schedules :
        mem.content = [t \in Tables |-> [s \in Slice |-> "last"]]
  BY DEF Init, Tables
<1>2. disk = mem /\ stage = "next"
  BY DEF Init
<1>3. Solid(disk.content)
  BY <1>1, <1>2 DEF Solid, Holed
<1> QED BY <1>2, <1>3, InitShape DEF KeepInv, InStep

\* A step that goes back to a first step, or out of the ingest, has nothing to
\* keep but the database.
LEMMA Away ==
  ASSUME Shape', Solid(disk'.content), Tables' = Tables,
         stage' = "step" => pos'[3] = 1 /\ AnswersKnown'
  PROVE  KeepInv'
<1>1. InStep' => pos'[3] = 1
  BY DEF InStep
<1>2. ~(InStep' /\ Enclosed')
  BY <1>1, FirstStep DEF Enclosed
<1>3. Solid(disk.content)'
  BY DEF Solid
<1> QED BY <1>2, <1>3 DEF KeepInv

\* An exception rolls back, or leaves what it found.
LEMMA RaiseKeeps ==
  ASSUME KeepInv, Shape', Tables' = Tables, InStep, NEW db, NEW t,
         t = "none" => Solid(db.content), Raise(db, t)
  PROVE  KeepInv'
<1>1. Shape /\ Solid(disk.content) /\ AnswersKnown /\ UNCHANGED todo
  BY DEF KeepInv, InStep, Raise
<1>2. Solid(disk'.content)
  BY <1>1 DEF Raise
<1>3. ASSUME stage' = "step" PROVE pos'[3] = 1 /\ AnswersKnown'
  <2>1. NextSlice(seen) /\ block.catch = "next" /\ Caught
    BY <1>3 DEF Raise
  <2>2. pos'[3] = 1
    BY <2>1 DEF NextSlice
  <2>3. CASE step.op # "pull"
    <3>1. answer' = answer /\ At' = At
      BY <1>1, <2>3 DEF Raise, At
    <3>2. ~Tested(block, pos[3])'
      BY <2>2, FirstStep
    <3> QED BY <1>1, <2>2, <3>1, <3>2 DEF AnswersKnown
  <2>4. CASE step.op = "pull"
    <3>1. answer' = [s \in Slice |-> IF s \in Here THEN "empty" ELSE IF s \in Here THEN "full" ELSE answer[s]]
      BY <2>4 DEF Raise
    <3> QED BY <1>1, <2>2, <2>4, <3>1, AnswersPulled
  <2> QED BY <2>2, <2>3, <2>4
<1> QED BY <1>2, <1>3, Away

\* A step that goes forward: where it was enclosed it still is, and pays off
\* its debts before the COMMIT.
LEMMA ForwardKeeps ==
  ASSUME KeepInv, Shape', Tables' = Tables, InStep, Forward, UNCHANGED <<todo, stage>>,
         Solid(disk'.content), AnswersKnown',
         Enclosed /\ Enclosed' => tx' = tx /\ (tx = "open" => Debts'),
         Enclosed' /\ ~Enclosed => tx' = "open" /\ Debts'
  PROVE  KeepInv'
<1>1. Solid(disk.content)'
  BY DEF Solid
<1>2. Enclosed' => tx' # "none" /\ (tx' = "open" => Debts')
  BY DEF KeepInv
<1> QED BY <1>1, <1>2 DEF KeepInv

\* No action of an ingest puts a kept table at risk.
LEMMA IngestKeeps ==
  ASSUME KeepInv, Shape', Tables' = Tables,
         \/ CallIngest \/ Execute \/ BeginTx \/ CommitTx \/ PullAnswers \/ TestPasses
         \/ Return \/ ReturnEarly \/ Skip \/ StepFails \/ StepRefused \/ Complains
  PROVE  KeepInv'
<1>f. /\ Shape /\ Solid(disk.content) /\ (tx = "none" => mem = disk)
      /\ InStep /\ Enclosed => tx # "none" /\ (tx = "open" => Debts)
      /\ stage = "step" => AnswersKnown
  BY ShapeFacts DEF KeepInv
<1>1. CASE CallIngest
  <2>1. /\ UNCHANGED <<disk, todo>> /\ pos' = <<1, 1, 1>> /\ answer' = [s \in Slice |-> "full"]
    BY <1>1 DEF CallIngest
  <2>2. pos'[3] = 1
    BY <2>1
  <2>3. ~Tested(block, pos[3])'
    BY <2>2, FirstStep
  <2>4. AnswersKnown'
    BY <2>1, <2>3 DEF AnswersKnown
  <2> QED BY <1>f, <2>1, <2>2, <2>4, Away
<1>2. CASE Execute
  <2>1. /\ InStep /\ Forward /\ UNCHANGED <<todo, stage, answer, tx>>
        /\ step.op \notin Tests \cup {"pull", "begin"} /\ tx # "aborted"
    BY <1>2 DEF Execute, OnDatabase
  <2>2. AnswersKnown'
    BY <1>f, <2>1, AnswersForward DEF InStep, Tests
  <2>3. Solid(disk'.content)
    <3>1. CASE Enclosed
      <4>1. tx # "none"
        BY <1>f, <2>1, <3>1
      <4> QED BY <1>2, <1>f, <4>1 DEF Execute, Store
    <3>2. CASE ~Enclosed
      BY <1>2, <1>f, <3>2, ExecuteSolid
    <3> QED BY <3>1, <3>2
  <2>4. Enclosed' => Enclosed
    BY <1>f, <2>1, EnclosedBack
  <2>5. Enclosed /\ Enclosed' => tx' = tx /\ (tx = "open" => Debts')
    BY <1>2, <1>f, <2>1, ExecuteDebts DEF InStep
  <2> QED BY <2>1, <2>2, <2>3, <2>4, <2>5, ForwardKeeps
<1>3. CASE BeginTx
  <2>1. /\ InStep /\ Forward /\ UNCHANGED <<todo, stage, answer, mem, disk>>
        /\ step.op = "begin" /\ tx = "none" /\ tx' = "open"
    BY <1>3 DEF BeginTx
  <2>2. AnswersKnown'
    BY <1>f, <2>1, AnswersForward DEF InStep
  <2>3. Debts'
    <3>1. \A t \in Tables' : \A s \in Slice : Kept(t) => ~Holed(mem'.content[t][s])
      BY <1>f, <2>1 DEF Solid
    <3> QED BY <3>1 DEF Debts
  <2>4. ~Enclosed
    BY <1>f, <2>1
  <2> QED BY <1>f, <2>1, <2>2, <2>3, <2>4, ForwardKeeps
<1>4. CASE CommitTx
  <2>1. /\ InStep /\ Forward /\ UNCHANGED <<todo, stage, answer, mem>>
        /\ step.op = "commit" /\ tx = "open" /\ disk' = mem
    BY <1>4 DEF CommitTx
  <2>2. AnswersKnown'
    BY <1>f, <2>1, AnswersForward DEF InStep
  <2>3. /\ Enclosed
        /\ \A b \in 1 .. pos[3] - 1 : Kept(block.steps[b].t) =>
             ~Owed(Program[At], block, pos[3], block.steps[b].t)
    BY <1>f, <2>1, MadeGoodHere DEF MadeGood, Enclosed, step
  <2>4. Debts
    BY <1>f, <2>1, <2>3
  <2>5. \A t \in Tables : Kept(t) => ~Owed(Program[At], block, pos[3], t)
    BY <2>3 DEF Owed
  <2>6. Solid(mem.content)
    BY <2>4, <2>5 DEF Solid, Debts
  <2>7. ~Enclosed'
    BY <1>f, <2>1, EnclosedBack
  <2> QED BY <2>1, <2>2, <2>6, <2>7, ForwardKeeps
<1>5. CASE PullAnswers
  <2>1. /\ InStep /\ Forward /\ UNCHANGED <<todo, stage, mem, disk, tx>> /\ step.op = "pull"
    BY <1>5 DEF PullAnswers
  <2>2. PICK S \in SUBSET Here :
          /\ step.t = "parts" \/ S \in {{}, Here}
          /\ answer' = [s \in Slice |-> IF s \in S THEN "empty" ELSE IF s \in Here THEN "full" ELSE answer[s]]
    <3>1. CASE answer' = [s \in Slice |-> IF s \in Here THEN "full" ELSE answer[s]]
      <4>1. answer' = [s \in Slice |-> IF s \in {} THEN "empty" ELSE IF s \in Here THEN "full" ELSE answer[s]]
        BY <3>1
      <4>2. {} \in SUBSET Here /\ {} \in {{}, Here}
        OBVIOUS
      <4> QED BY <4>1, <4>2, Zenon
    <3>2. CASE \E S \in IF step.t = "parts" THEN SUBSET Here \ {{}} ELSE {Here} :
                 answer' = [s \in Slice |-> IF s \in S THEN "empty" ELSE IF s \in Here THEN "full" ELSE answer[s]]
      BY <3>2
    <3> QED BY <1>5, <3>1, <3>2 DEF PullAnswers
  <2>3. AnswersKnown'
    BY <1>f, <2>1, <2>2, AnswersPulled DEF InStep
  <2>4. ASSUME Enclosed' PROVE Enclosed /\ (Debts => Debts')
    BY <1>f, <2>1, <2>4, StayDebts
  <2> QED BY <1>f, <2>1, <2>3, <2>4, ForwardKeeps
<1>6. CASE TestPasses
  <2>1. /\ InStep /\ Forward /\ UNCHANGED <<todo, stage, answer, mem, disk, tx>>
        /\ step.op \in Tests /\ (step.op \in Tests \ {"noted"} => ~Empty)
    BY <1>6 DEF TestPasses, Tests
  <2>2. AnswersKnown'
    BY <1>f, <2>1, AnswersForward DEF InStep, Tests
  <2>3. ASSUME Enclosed' PROVE Enclosed /\ (Debts => Debts')
    BY <1>f, <2>1, <2>3, StayDebts DEF Tests
  <2> QED BY <1>f, <2>1, <2>2, <2>3, ForwardKeeps
<1>7. CASE Return \/ ReturnEarly
  <2>1. UNCHANGED disk /\ stage' = "log"
    BY <1>7 DEF Return, ReturnEarly, Succeeded
  <2> QED BY <1>f, <2>1, Away
<1>8. CASE Skip
  <2>1. InStep /\ NextSlice(seen) /\ UNCHANGED <<todo, stage, answer, disk>>
    BY <1>8 DEF Skip
  <2>2. pos'[3] = 1 /\ At' = At
    BY <2>1 DEF NextSlice, At
  <2>3. ~Tested(block, pos[3])'
    BY <2>2, FirstStep
  <2>4. AnswersKnown'
    BY <1>f, <2>1, <2>2, <2>3 DEF AnswersKnown, InStep
  <2> QED BY <1>f, <2>1, <2>2, <2>4, Away
<1>9. CASE StepFails
  <2>1. InStep
    BY <1>9 DEF StepFails
  <2>2. \E db : \E t : (t = "none" => Solid(db.content)) /\ Raise(db, t)
    <3>1. CASE step.op = "commit" /\ Raise(disk, "none")
      BY <1>f, <3>1
    <3>2. CASE \E db \in Leftover : \E t \in IF tx = "none" \/ ~OnDatabase THEN {tx} ELSE {"open", "aborted"} :
                 Raise(db, t)
      BY <1>f, <2>1, <3>2, LeftoverSolid
    <3> QED BY <1>9, <3>1, <3>2 DEF StepFails
  <2> QED BY <2>1, <2>2, RaiseKeeps
<1>10. CASE StepRefused \/ Complains
  <2>1. InStep /\ Raise(mem, tx)
    BY <1>10 DEF StepRefused, Complains
  <2> QED BY <1>f, <2>1, RaiseKeeps
<1> QED BY <1>1, <1>2, <1>3, <1>4, <1>5, <1>6, <1>7, <1>8, <1>9, <1>10

\* Between the ingests nothing is written but audit rows, and a night later
\* what there was is still there.
LEMMA RunKeeps ==
  ASSUME KeepInv, Shape', Tables' = Tables,
         ProcessEnds \/ LogPhase \/ ProbePasses \/ ProbeFails \/ EndRun \/ Killed \/ NextRun
  PROVE  KeepInv'
<1>f. Shape /\ Solid(disk.content) /\ (tx = "none" => mem = disk) /\ disk \in DbType /\ mem \in DbType
  BY ShapeFacts DEF KeepInv
<1>1. stage' # "step"
  BY DEF ProcessEnds, LogPhase, ProbePasses, ProbeFails, EndRun, Killed, NextRun
<1>2. Solid(disk'.content)
  <2>1. CASE ProcessEnds \/ ProbeFails
    <3>1. disk'.content = disk.content
      BY <1>f, <2>1 DEF ProcessEnds, ProbeFails, DbType, DbOf
    <3> QED BY <1>f, <3>1
  <2>2. CASE LogPhase
    <3>1. disk' = disk \/ (tx = "none" /\ disk' = [mem EXCEPT !.audit[At] = status])
      BY <2>2 DEF LogPhase, Store
    <3>2. disk'.content = disk.content
      BY <1>f, <3>1 DEF DbType, DbOf
    <3> QED BY <1>f, <3>2
  <2>3. CASE ProbePasses
    BY <1>f, <2>3 DEF ProbePasses
  <2>4. CASE EndRun
    <3>1. disk' = disk \/ (tx = "none" /\ disk' = [mem EXCEPT !.run = IF exit = 1 THEN "partial" ELSE "success"])
      BY <2>4 DEF EndRun, Store
    <3>2. disk'.content = disk.content
      BY <1>f, <3>1 DEF DbType, DbOf
    <3> QED BY <1>f, <3>2
  <2>5. CASE Killed
    <3>1. disk' = disk \/ (InStep /\ tx = "none" /\ disk' \in Leftover)
      BY <2>5 DEF Killed
    <3> QED BY <1>f, <3>1, LeftoverSolid
  <2>6. CASE NextRun
    <3>1. disk'.content = [t \in Tables |-> [s \in Slice |-> Aged(disk.content[t][s])]]
      BY <2>6 DEF NextRun
    <3> QED BY <1>f, <3>1 DEF Solid, Aged, Holed
  <2> QED BY <2>1, <2>2, <2>3, <2>4, <2>5, <2>6
<1> QED BY <1>1, <1>2, Away

LEMMA KeepStep ==
  ASSUME KeepInv, [Next]_vars
  PROVE  KeepInv'
<1>1. Shape' /\ Tables' = Tables
  BY ShapeStep DEF KeepInv
<1>2. CASE UNCHANGED vars
  <2>1. UNCHANGED <<todo, stage, pos, mem, disk, tx, answer>>
    BY <1>2 DEF vars, ingestVars
  <2>2. At' = At /\ block' = block /\ Here' = Here /\ InStep' = InStep /\ pos'[3] = pos[3]
    BY <2>1 DEF At, block, Here, InStep
  <2>3. Enclosed' <=> Enclosed
    BY <2>2 DEF Enclosed
  <2>4. Debts => Debts'
    BY <1>1, <2>1, <2>2 DEF Debts
  <2>5. AnswersKnown => AnswersKnown'
    BY <2>1, <2>2 DEF AnswersKnown
  <2>6. Solid(disk.content) => Solid(disk.content)'
    BY <1>1, <2>1 DEF Solid
  <2> QED BY <1>1, <2>1, <2>2, <2>3, <2>4, <2>5, <2>6 DEF KeepInv
<1>3. CASE Next
  BY <1>1, <1>3, IngestKeeps, RunKeeps DEF Next
<1> QED BY <1>2, <1>3

\* Wherever a run fails or is killed, in every run of every schedule: a table
\* that is kept has no hole, also while the run is still going.
THEOREM KeptTablesAreWhole == Spec => []OnlyExposedAreLost
<1>1. KeepInv => OnlyExposedAreLost
  <2> SUFFICES ASSUME KeepInv PROVE \A t \in HoledTables : ~Kept(t)
    BY DEF OnlyExposedAreLost
  <2>1. DOMAIN disk.content = Tables
    BY ShapeFacts DEF KeepInv, DbType, DbOf
  <2> QED BY <2>1 DEF KeepInv, Solid, HoledTables
<1> QED BY <1>1, KeepInit, KeepStep, PTL DEF Spec

=============================================================================
