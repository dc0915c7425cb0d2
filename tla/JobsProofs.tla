------------------------------ MODULE JobsProofs ------------------------------
(***************************************************************************)
(* Proofs about the jobs around the nightly, for any values of the         *)
(* constants of Jobs: one after the other, that each of those HostProofs   *)
(* does not treat keeps the inductive invariant its module states, then    *)
(* what follows for Jobs.  In a lemma the variables are v1 to v15: the     *)
(* INSTANCEs of Jobs say which variable of a module each one stands for.   *)
(***************************************************************************)
EXTENDS Jobs, HostProofs

-----------------------------------------------------------------------------
(* The merge of a pull request: P.                                         *)

LEMMA MergeInit == P!Init => P!MergeInv
<1> SUFFICES ASSUME P!Init PROVE P!MergeInv
  OBVIOUS
<1>1. PICK c \in Change :
        /\ v1 = [state |-> "OPEN", head |-> c, hold |-> FALSE] /\ v2 = FALSE
        /\ v3 \in BOOLEAN /\ v4 = {} /\ v5 = {} /\ v6 = TRUE
        /\ v7 = P!NoRun /\ v8 = [by |-> "", head |-> c]
        /\ v9 = 0 /\ v10 = 0 /\ v11 = {} /\ v12 = [pushes |-> 0, marks |-> 0]
  BY DEF P!Init
<1>2. v7.step = "none" /\ v7.pushes = 0 /\ v7.marks = 0
  BY <1>1 DEF P!NoRun
<1>3. v8.by # "auto" /\ "none" \notin {"merge?", "merge"} /\ v12.pushes = 0 /\ v12.marks = 0
  BY <1>1
<1>4. v9 = 0 /\ v10 = 0 /\ 0 \in 0..MaxPushes /\ 0 \in 0..MaxMarks
  <2>1. 0 \in 0..MaxPushes /\ 0 \in 0..MaxMarks
    BY MergeAssumption
  <2> QED BY <1>1, <2>1
<1>5. P!StampsAreOld
  <2>1. v9 = 0 /\ v10 = 0
    BY <1>1
  <2> QED BY <1>2, <1>3, <2>1 DEF P!StampsAreOld
<1>6. P!TypeOK
  <2>1. v1 \in P!PullRequest
    BY <1>1 DEF P!PullRequest
  <2>2. v7 \in P!Run
    BY <1>1, <1>4 DEF P!Run, P!NoRun
  <2>3. v8 \in [by : {"", "auto", "human"}, head : Change]
    BY <1>1
  <2>4. v12 \in [pushes : 0..MaxPushes, marks : 0..MaxMarks]
    BY <1>1, <1>4
  <2> QED BY <1>1, <1>4, <2>1, <2>2, <2>3, <2>4 DEF P!TypeOK
<1>7. P!RunKnowsItsHead /\ P!RunHasBothKeys
  BY <1>2, <1>3 DEF P!RunKnowsItsHead, P!RunHasBothKeys
<1>8. P!ArmedHasBothKeys /\ P!MergedIsOver /\ P!KeysBeforeMerge /\ P!HoldRespected
  BY <1>1, <1>3 DEF P!ArmedHasBothKeys, P!MergedIsOver, P!KeysBeforeMerge, P!HoldRespected
<1> QED BY <1>5, <1>7, <1>8, <1>6 DEF P!MergeInv

\* A run that begins, or goes on from a run of its type.
LEMMA MergeNoRun == P!NoRun \in P!Run /\ P!NoRun.step = "none" /\ P!NoRun.pushes = 0 /\ P!NoRun.marks = 0
<1>1. 0 \in 0..MaxPushes /\ 0 \in 0..MaxMarks
  BY MergeAssumption
<1> QED BY <1>1 DEF P!NoRun, P!Run

\* A run goes on, or is over: nothing else moves.
LEMMA MergeRuns ==
  ASSUME P!MergeInv, P!Start \/ P!AskGate \/ P!AskReviewer \/ P!Look \/ P!Comment \/ P!RunDies
  PROVE  P!MergeInv'
<1>1. v7 \in P!Run /\ v1 \in P!PullRequest /\ v9 \in 0..MaxPushes /\ v10 \in 0..MaxMarks /\ v11 \subseteq Change
  BY DEF P!MergeInv, P!TypeOK
<1>2. /\ UNCHANGED <<v1, v2, v3, v4, v5, v8, v9, v10, v12>> /\ v11 \subseteq v11'
      /\ v6' \in {v6, FALSE} /\ v7' \in P!Run /\ v11' \subseteq Change
      /\ v7'.pushes \in {0, v7.pushes, v9} /\ v7'.marks \in {0, v7.marks, v10}
      /\ v7'.step # "none" => \/ v7'.pushes = v9 /\ v7'.head = v1.head
                              \/ v7.step # "none" /\ v7'.pushes = v7.pushes /\ v7'.head = v7.head
      /\ v7'.step \in {"merge?", "merge"} => v7'.head \in v11' \ Destructive
      /\ v7'.step = "merge" => v7'.marks = v10 /\ ~v1.hold
  <2>1. CASE P!Start
    <3>1. PICK on \in BOOLEAN : v7' = [P!NoRun EXCEPT !.step = "gate", !.head = v1.head, !.on = on,
                                                      !.pushes = v9, !.marks = v10]
      BY <2>1 DEF P!Start
    <3>2. /\ v7'.step = "gate" /\ v7'.head = v1.head /\ v7'.pushes = v9 /\ v7'.marks = v10
          /\ v7' \in P!Run
      BY <1>1, <3>1 DEF P!NoRun, P!Run, P!PullRequest
    <3>3. UNCHANGED <<v1, v2, v3, v4, v5, v8, v9, v10, v11, v12>> /\ v6' = FALSE
      BY <2>1 DEF P!Start
    <3> QED BY <1>1, <3>2, <3>3
  <2>2. CASE P!AskGate
    <3>1. PICK v \in P!Verdicts(v7.head) \cup {"unavailable"} : v7' = [v7 EXCEPT !.step = "review", !.gate = v]
      BY <2>2 DEF P!AskGate
    <3>2. UNCHANGED <<v1, v2, v3, v4, v5, v6, v8, v9, v10, v11, v12>> /\ v7.step = "gate"
      BY <2>2 DEF P!AskGate
    <3>3. v \in {"pass", "block", "unavailable"}
      BY DEF P!Verdicts
    <3>4. /\ v7'.step = "review" /\ v7'.head = v7.head /\ v7'.pushes = v7.pushes /\ v7'.marks = v7.marks
          /\ v7' \in P!Run
      BY <1>1, <3>1, <3>3 DEF P!Run
    <3> QED BY <1>1, <3>2, <3>4
  <2>3. CASE P!AskReviewer
    <3>1. PICK reviewer \in {"approve", "request_changes", "unavailable"} :
            /\ v7' = IF v7.on THEN [v7 EXCEPT !.step = P!Decide(v7.gate, reviewer, v7.head)] ELSE P!NoRun
            /\ v11' = IF v7.gate = "pass" /\ reviewer = "approve" THEN v11 \cup {v7.head} ELSE v11
      BY <2>3 DEF P!AskReviewer
    <3>2. UNCHANGED <<v1, v2, v3, v4, v5, v6, v8, v9, v10, v12>> /\ v7.step = "review"
      BY <2>3 DEF P!AskReviewer
    <3>3. /\ P!Decide(v7.gate, reviewer, v7.head) \in {"merge?", "escalate?"}
          /\ P!Decide(v7.gate, reviewer, v7.head) = "merge?" => v7.head \in v11' \ Destructive
      BY <3>1 DEF P!Decide
    <3>4. v11 \subseteq v11' /\ v11' \subseteq Change
      <4>1. v7.head \in Change
        BY <3>2 DEF P!MergeInv, P!RunKnowsItsHead
      <4> QED BY <1>1, <3>1, <4>1
    <3>5. CASE v7' = P!NoRun
      BY <3>2, <3>4, <3>5, MergeNoRun
    <3>6. CASE v7' = [v7 EXCEPT !.step = P!Decide(v7.gate, reviewer, v7.head)]
      <4>1. /\ v7'.step = P!Decide(v7.gate, reviewer, v7.head) /\ v7'.head = v7.head
            /\ v7'.pushes = v7.pushes /\ v7'.marks = v7.marks /\ v7' \in P!Run
        BY <1>1, <3>3, <3>6 DEF P!Run
      <4> QED BY <3>2, <3>3, <3>4, <4>1
    <3> QED BY <3>1, <3>5, <3>6
  <2>4. CASE P!Look
    <3>1. PICK look \in {v1.state, "unreadable"} :
            v7' = IF ~P!MayAct(v7.step, look, v1.hold) THEN P!NoRun
                  ELSE [v7 EXCEPT !.step = IF v7.step = "merge?" THEN "merge" ELSE "escalate", !.look = look,
                                  !.marks = v10]
      BY <2>4 DEF P!Look
    <3>2. UNCHANGED <<v1, v2, v3, v4, v5, v6, v8, v9, v10, v11, v12>> /\ v7.step \in {"merge?", "escalate?"}
      BY <2>4 DEF P!Look
    <3>3. CASE v7' = P!NoRun
      BY <1>1, <3>2, <3>3, MergeNoRun
    <3>4. CASE P!MayAct(v7.step, look, v1.hold)
      <4>1. look \in {"unreadable", "OPEN", "MERGED", "CLOSED"}
        BY <1>1 DEF P!PullRequest
      <4>2. /\ v7'.step = IF v7.step = "merge?" THEN "merge" ELSE "escalate"
            /\ v7'.head = v7.head /\ v7'.pushes = v7.pushes /\ v7'.marks = v10 /\ v7' \in P!Run
        BY <1>1, <3>1, <3>4, <4>1 DEF P!Run
      <4>3. v7.step = "merge?" => ~v1.hold
        BY <3>4, Zenon DEF P!MayAct
      <4>4. v7.step = "merge?" => v7.head \in v11 \ Destructive
        BY DEF P!MergeInv, P!RunHasBothKeys
      <4> QED BY <1>1, <3>2, <4>2, <4>3, <4>4
    <3> QED BY <3>1, <3>3, <3>4
  <2>5. CASE P!Comment \/ P!RunDies
    <3>1. UNCHANGED <<v1, v2, v3, v4, v5, v6, v8, v9, v10, v11, v12>> /\ v7' = P!NoRun
      BY <2>5 DEF P!Comment, P!RunDies
    <3> QED BY <1>1, <3>1, MergeNoRun
  <2> QED BY <2>1, <2>2, <2>3, <2>4, <2>5
<1>3. P!TypeOK'
  <2>1. v6' \in BOOLEAN
    BY <1>2 DEF P!MergeInv, P!TypeOK
  <2> QED BY <1>2, <2>1 DEF P!MergeInv, P!TypeOK
<1>4. P!StampsAreOld'
  BY <1>2, <1>1 DEF P!MergeInv, P!StampsAreOld
<1>5. P!RunKnowsItsHead' /\ P!RunHasBothKeys'
  <2>1. v1.head \in Change
    BY <1>1 DEF P!PullRequest
  <2>2. P!RunKnowsItsHead'
    BY <1>2, <2>1 DEF P!MergeInv, P!RunKnowsItsHead
  <2>3. P!RunHasBothKeys'
    BY <1>2 DEF P!RunHasBothKeys
  <2> QED BY <2>2, <2>3
<1>6. /\ P!ArmedHasBothKeys' /\ P!MergedIsOver'
      /\ P!KeysBeforeMerge' /\ P!HoldRespected'
  BY <1>2 DEF P!MergeInv, P!ArmedHasBothKeys, P!MergedIsOver, P!KeysBeforeMerge, P!HoldRespected
<1> QED BY <1>3, <1>4, <1>5, <1>6 DEF P!MergeInv

\* Auto-merge is armed, or GitHub merges: what the run had found goes along.
LEMMA MergeArms ==
  ASSUME P!MergeInv, P!Arm \/ P!Merge("auto") \/ P!Merge("human")
  PROVE  P!MergeInv'
<1>1. v7 \in P!Run /\ v1 \in P!PullRequest /\ P!TypeOK
  BY DEF P!MergeInv, P!TypeOK
<1>2. CASE P!Arm
  <2>1. /\ UNCHANGED <<v1, v3, v4, v5, v6, v8, v9, v10, v11>> /\ v7' = P!NoRun /\ v7.step = "merge"
        /\ \/ v1.state = "OPEN" /\ v2' = TRUE /\ v12' = [pushes |-> v7.pushes, marks |-> v7.marks]
           \/ UNCHANGED <<v2, v12>>
    BY <1>2 DEF P!Arm
  <2>2. \/ v1.state = "OPEN" /\ v2' = TRUE /\ v12'.pushes = v7.pushes /\ v12'.marks = v7.marks
        \/ UNCHANGED <<v2, v12>>
    BY <2>1
  <2>3. P!StampsAreOld' /\ P!TypeOK'
    <3>1. v7.pushes \in 0..MaxPushes /\ v7.marks \in 0..MaxMarks /\ v9 \in 0..MaxPushes /\ v10 \in 0..MaxMarks
      BY <1>1 DEF P!Run, P!TypeOK
    <3>2. P!StampsAreOld'
      BY <2>1, <2>2, <3>1, MergeNoRun DEF P!MergeInv, P!StampsAreOld
    <3>3. v2' \in BOOLEAN /\ v12' \in [pushes : 0..MaxPushes, marks : 0..MaxMarks]
      <4>1. v2 \in BOOLEAN /\ v12 \in [pushes : 0..MaxPushes, marks : 0..MaxMarks]
        BY <1>1 DEF P!TypeOK
      <4>2. CASE v2' = TRUE /\ v12' = [pushes |-> v7.pushes, marks |-> v7.marks]
        BY <3>1, <4>2
      <4>3. CASE UNCHANGED <<v2, v12>>
        BY <4>1, <4>3
      <4> QED BY <2>1, <4>2, <4>3
    <3>4. P!TypeOK'
      BY <1>1, <2>1, <3>3, MergeNoRun DEF P!TypeOK
    <3> QED BY <3>2, <3>4
  <2>4. P!RunKnowsItsHead' /\ P!RunHasBothKeys'
    BY <2>1, MergeNoRun DEF P!RunKnowsItsHead, P!RunHasBothKeys
  <2>5. P!ArmedHasBothKeys'
    BY <2>1, <2>2 DEF P!MergeInv, P!ArmedHasBothKeys, P!RunKnowsItsHead, P!RunHasBothKeys
  <2>6. P!MergedIsOver' /\ P!KeysBeforeMerge' /\ P!HoldRespected'
    BY <2>1, <2>2 DEF P!MergeInv, P!MergedIsOver, P!KeysBeforeMerge, P!HoldRespected
  <2> QED BY <2>3, <2>4, <2>5, <2>6 DEF P!MergeInv
<1>3. CASE P!Merge("auto") \/ P!Merge("human")
  <2>1. PICK by \in {"auto", "human"} : P!Merge(by)
    BY <1>3
  <2>2. /\ UNCHANGED <<v2, v3, v4, v5, v6, v7, v9, v10, v11, v12>> /\ (by = "auto" => v2)
        /\ v1' = [v1 EXCEPT !.state = "MERGED"] /\ v8' = [by |-> by, head |-> v1.head]
    BY <2>1 DEF P!Merge
  <2>3. v1'.state = "MERGED" /\ v1'.head = v1.head /\ v1'.hold = v1.hold /\ v1' \in P!PullRequest
        /\ v8'.by = by /\ v8'.head = v1.head /\ v8' \in [by : {"", "auto", "human"}, head : Change]
    BY <1>1, <2>2 DEF P!PullRequest
  <2>4. P!StampsAreOld' /\ P!RunKnowsItsHead' /\ P!RunHasBothKeys' /\ P!ArmedHasBothKeys'
    BY <2>2, <2>3 DEF P!MergeInv, P!StampsAreOld, P!RunKnowsItsHead, P!RunHasBothKeys, P!ArmedHasBothKeys
  <2>5. P!MergedIsOver' /\ P!KeysBeforeMerge' /\ P!HoldRespected'
    BY <2>2, <2>3 DEF P!MergeInv, P!ArmedHasBothKeys, P!MergedIsOver, P!KeysBeforeMerge, P!HoldRespected
  <2>6. P!TypeOK'
    BY <1>1, <2>2, <2>3 DEF P!TypeOK
  <2> QED BY <2>4, <2>5, <2>6 DEF P!MergeInv
<1> QED BY <1>2, <1>3

\* The author and the checks.
LEMMA MergeAround ==
  ASSUME P!MergeInv,
         P!Loop \/ P!Check \/ P!Push \/ P!Mark \/ P!Close \/ P!Reopen \/ UNCHANGED P!vars
  PROVE  P!MergeInv'
<1>1. P!TypeOK /\ v1 \in P!PullRequest /\ v9 \in 0..MaxPushes /\ v10 \in 0..MaxMarks
  BY DEF P!MergeInv, P!TypeOK
<1>2. CASE P!Loop \/ P!Check \/ UNCHANGED P!vars
  <2>1. UNCHANGED <<v1, v2, v3, v6, v7, v8, v9, v10, v11, v12>> /\ v4' \subseteq Change /\ v5' \subseteq Change
    <3>1. v1.head \in Change /\ v4 \subseteq Change /\ v5 \subseteq Change
      BY <1>1 DEF P!PullRequest, P!TypeOK
    <3> QED BY <1>2, <3>1 DEF P!Loop, P!Check, P!vars
  <2>2. P!TypeOK'
    BY <1>1, <2>1 DEF P!TypeOK
  <2> QED BY <2>1, <2>2 DEF P!MergeInv, P!StampsAreOld, P!RunKnowsItsHead, P!RunHasBothKeys,
            P!ArmedHasBothKeys, P!MergedIsOver, P!KeysBeforeMerge, P!HoldRespected
<1>3. CASE P!Push \/ P!Reopen
  <2>1. /\ v1.state \in {"OPEN", "CLOSED"} /\ v9' = v9 + 1 /\ v9 < MaxPushes /\ v6' = TRUE
        /\ UNCHANGED <<v2, v3, v4, v5, v7, v8, v10, v11, v12>>
    BY <1>3 DEF P!Push, P!Reopen
  <2>2. v1'.hold = v1.hold /\ v1' \in P!PullRequest
    BY <1>3, <1>1 DEF P!Push, P!Reopen, P!PullRequest
  <2>3. v7.pushes # v9' /\ v12.pushes # v9' /\ v9' \in 0..MaxPushes /\ P!StampsAreOld'
    <3>1. v7.pushes \in 0..MaxPushes /\ v12.pushes \in 0..MaxPushes
      BY <1>1 DEF P!TypeOK, P!Run
    <3>2. P!StampsAreOld /\ MaxPushes \in Nat
      BY MergeAssumption DEF P!MergeInv
    <3>3. v7.pushes # v9' /\ v12.pushes # v9' /\ v9' \in 0..MaxPushes
      BY <1>1, <2>1, <3>1, <3>2 DEF P!StampsAreOld
    <3>4. P!StampsAreOld'
      BY <1>1, <2>1, <3>1, <3>2 DEF P!StampsAreOld
    <3> QED BY <3>3, <3>4
  <2>4. v8.by # "auto"
    BY <2>1 DEF P!MergeInv, P!MergedIsOver
  <2>5. P!TypeOK'
    BY <1>1, <2>1, <2>2, <2>3 DEF P!TypeOK
  <2>6. P!RunKnowsItsHead' /\ P!RunHasBothKeys'
    BY <2>1, <2>2, <2>3 DEF P!MergeInv, P!RunKnowsItsHead, P!RunHasBothKeys
  <2>7. P!ArmedHasBothKeys' /\ P!MergedIsOver' /\ P!KeysBeforeMerge' /\ P!HoldRespected'
    BY <2>1, <2>2, <2>3, <2>4 DEF P!MergeInv, P!ArmedHasBothKeys, P!MergedIsOver, P!KeysBeforeMerge,
       P!HoldRespected
  <2> QED BY <2>3, <2>5, <2>6, <2>7 DEF P!MergeInv
<1>4. CASE P!Mark
  <2>1. /\ v1.state = "OPEN" /\ v10' = v10 + 1 /\ v10 < MaxMarks /\ v1' = [v1 EXCEPT !.hold = ~v1.hold]
        /\ UNCHANGED <<v2, v3, v4, v5, v6, v7, v8, v9, v11, v12>>
    BY <1>4 DEF P!Mark
  <2>2. v1'.head = v1.head /\ v1' \in P!PullRequest
    BY <2>1, <1>1 DEF P!PullRequest
  <2>3. v7.marks # v10' /\ v12.marks # v10' /\ v10' \in 0..MaxMarks /\ P!StampsAreOld'
    <3>1. v7.marks \in 0..MaxMarks /\ v12.marks \in 0..MaxMarks
      BY <1>1 DEF P!TypeOK, P!Run
    <3>2. P!StampsAreOld /\ MaxMarks \in Nat
      BY MergeAssumption DEF P!MergeInv
    <3>3. v7.marks # v10' /\ v12.marks # v10' /\ v10' \in 0..MaxMarks
      BY <1>1, <2>1, <3>1, <3>2 DEF P!StampsAreOld
    <3>4. P!StampsAreOld'
      BY <1>1, <2>1, <3>1, <3>2 DEF P!StampsAreOld
    <3> QED BY <3>3, <3>4
  <2>4. v8.by # "auto"
    BY <2>1 DEF P!MergeInv, P!MergedIsOver
  <2>5. P!TypeOK'
    BY <1>1, <2>1, <2>2, <2>3 DEF P!TypeOK
  <2>6. P!RunKnowsItsHead' /\ P!RunHasBothKeys'
    BY <2>1, <2>2, <2>3 DEF P!MergeInv, P!RunKnowsItsHead, P!RunHasBothKeys
  <2>7. P!ArmedHasBothKeys' /\ P!MergedIsOver' /\ P!KeysBeforeMerge' /\ P!HoldRespected'
    BY <2>1, <2>2, <2>3, <2>4 DEF P!MergeInv, P!ArmedHasBothKeys, P!MergedIsOver, P!KeysBeforeMerge,
       P!HoldRespected
  <2> QED BY <2>3, <2>5, <2>6, <2>7 DEF P!MergeInv
<1>5. CASE P!Close
  <2>1. /\ v1.state = "OPEN" /\ v2' = FALSE /\ v1' = [v1 EXCEPT !.state = "CLOSED"]
        /\ UNCHANGED <<v3, v4, v5, v6, v7, v8, v9, v10, v11, v12>>
    BY <1>5 DEF P!Close
  <2>2. v1'.head = v1.head /\ v1'.hold = v1.hold /\ v1' \in P!PullRequest
    BY <2>1, <1>1 DEF P!PullRequest
  <2>3. v8.by # "auto"
    BY <2>1 DEF P!MergeInv, P!MergedIsOver
  <2>4. P!TypeOK' /\ P!StampsAreOld'
    BY <1>1, <2>1, <2>2 DEF P!TypeOK, P!MergeInv, P!StampsAreOld
  <2>5. P!RunKnowsItsHead' /\ P!RunHasBothKeys'
    BY <2>1, <2>2 DEF P!MergeInv, P!RunKnowsItsHead, P!RunHasBothKeys
  <2>6. P!ArmedHasBothKeys' /\ P!MergedIsOver' /\ P!KeysBeforeMerge' /\ P!HoldRespected'
    BY <2>1, <2>2, <2>3 DEF P!MergeInv, P!ArmedHasBothKeys, P!MergedIsOver, P!KeysBeforeMerge,
       P!HoldRespected
  <2> QED BY <2>4, <2>5, <2>6 DEF P!MergeInv
<1> QED BY <1>2, <1>3, <1>4, <1>5

LEMMA MergeStep == P!MergeInv /\ [P!Next]_(P!vars) => P!MergeInv'
BY MergeRuns, MergeArms, MergeAround DEF P!Next, P!TwoKey, P!Author

-----------------------------------------------------------------------------
(* The flattening of an SPF record: F.                                     *)

\* The instance counts as FiniteSets does.
LEMMA WalkCardinality == \A Few : F!Cardinality(Few) = Cardinality(Few)
BY Zenon DEF F!Cardinality, Cardinality

\* A set in any order is a sequence.
LEMMA OrderIsSeq ==
  ASSUME NEW Few, IsFiniteSet(Few)
  PROVE  F!InOrder(Few) \in Seq(Few)
<1>1. Cardinality(Few) \in Nat /\ ExistsBijection(1..Cardinality(Few), Few)
  BY FS_CardinalityType
<1>2. PICK f \in [1..Cardinality(Few) -> Few] : F!Range(f) = Few
  <2>1. PICK f \in Surjection(1..Cardinality(Few), Few) : TRUE
    BY <1>1, Zenon DEF ExistsBijection, Bijection
  <2>2. f \in [1..Cardinality(Few) -> Few]
        /\ \A x \in Few : \E i \in 1..Cardinality(Few) : f[i] = x
    BY <2>1, Zenon DEF Surjection
  <2>3. F!Range(f) = Few
    BY <2>2 DEF F!Range
  <2> QED BY <2>2, <2>3
<1>3. F!InOrder(Few) \in [1..Cardinality(Few) -> Few]
  <2>1. F!InOrder(Few) = CHOOSE g \in [1..Cardinality(Few) -> Few] : F!Range(g) = Few
    BY WalkCardinality, Zenon DEF F!InOrder
  <2> QED BY <1>2, <2>1, Zenon
<1>4. Seq(Few) = UNION {[1..n -> Few] : n \in Nat}
  BY SeqDef
<1> QED BY <1>1, <1>3, <1>4, Zenon

\* What is reached has the root and, of each name, its targets.
LEMMA ReachedIsClosed ==
  ASSUME F!TypeOK
  PROVE  /\ F!Reached \subseteq Name /\ v2 \in F!Reached
         /\ \A m \in F!Reached : F!Range(v1[m]) \subseteq F!Reached
         /\ IsFiniteSet(F!Reached) /\ F!Cardinality(F!Reached) \in Nat
<1>1. F!Reached \subseteq Name /\ v2 \in F!Reached
  BY DEF F!Reached, F!TypeOK
<1>2. ASSUME NEW m \in F!Reached, NEW t \in F!Range(v1[m])
      PROVE  t \in F!Reached
  <2>1. v1[m] \in Seq(Name)
    BY <1>1 DEF F!TypeOK
  <2>2. PICK i \in DOMAIN v1[m] : t = v1[m][i]
    BY DEF F!Range
  <2>3. t \in Name
    BY <2>1, <2>2, ElementOfSeq, LenProperties
  <2>4. ASSUME NEW names \in SUBSET Name, v2 \in names, F!Closed(names)
        PROVE  t \in names
    <3>1. m \in names
      BY <2>4 DEF F!Reached
    <3> QED BY <3>1, <2>4 DEF F!Closed
  <2> QED BY <2>3, <2>4 DEF F!Reached
<1>3. IsFiniteSet(F!Reached) /\ F!Cardinality(F!Reached) \in Nat
  BY <1>1, WalkAssumption, FS_Subset, FS_CardinalityType, WalkCardinality
<1> QED BY <1>1, <1>2, <1>3

LEMMA WalkInit == F!Init => F!WalkInv
<1> SUFFICES ASSUME F!Init PROVE F!WalkInv
  OBVIOUS
<1>1. /\ v1 \in [Name -> {F!InOrder(few) : few \in SUBSET Name}] /\ v2 \in Name
      /\ v3 = <<[name |-> v2, depth |-> 0]>> /\ v4 = {} /\ v5 = FALSE
  BY DEF F!Init
<1>2. v1 \in [Name -> Seq(Name)]
  <2>1. ASSUME NEW few \in SUBSET Name
        PROVE  F!InOrder(few) \in Seq(Name)
    <3>1. F!InOrder(few) \in Seq(few)
      BY WalkAssumption, FS_Subset, OrderIsSeq
    <3> QED BY <3>1, SeqMonotonic
  <2> QED BY <1>1, <2>1
<1>3. F!TypeOK
  <2>1. 0 \in 0..Limit
    BY WalkAssumption
  <2>2. v3 \in Seq([name : Name, depth : 0..Limit])
    BY <1>1, <2>1
  <2> QED BY <1>1, <1>2, <2>2 DEF F!TypeOK
<1>4. F!Waiting = {v2}
  BY <1>1 DEF F!Waiting
<1>5. F!StackIsReached /\ F!NothingDropped
  BY <1>1, <1>3, <1>4, ReachedIsClosed DEF F!StackIsReached, F!NothingDropped
<1>6. F!DepthIsCounted
  <2>1. F!Cardinality({}) = 0 /\ Limit \in Nat
    BY FS_EmptySet, WalkCardinality, WalkAssumption
  <2> QED BY <1>1, <2>1 DEF F!DepthIsCounted
<1> QED BY <1>3, <1>5, <1>6 DEF F!WalkInv

\* A stack whose top is replaced by some entries.
LEMMA TopExchanged ==
  ASSUME NEW Entries, NEW stack \in Seq(Entries), stack # <<>>, NEW top \in Seq(Entries)
  PROVE  /\ top \o Tail(stack) \in Seq(Entries)
         /\ F!Range(top \o Tail(stack)) \subseteq F!Range(top) \cup F!Range(stack)
         /\ F!Range(top) \subseteq F!Range(top \o Tail(stack))
         /\ F!Range(stack) \subseteq F!Range(top \o Tail(stack)) \cup {Head(stack)}
<1> DEFINE rest == Tail(stack)
           next == top \o rest
<1>1. /\ rest \in Seq(Entries) /\ Len(rest) = Len(stack) - 1 /\ Head(stack) = stack[1]
      /\ \A i \in 1..Len(rest) : rest[i] = stack[i + 1]
  BY HeadTailProperties
<1>2. /\ Len(stack) \in Nat /\ DOMAIN stack = 1..Len(stack) /\ Len(rest) \in Nat
      /\ Len(top) \in Nat /\ DOMAIN top = 1..Len(top)
  BY <1>1, LenProperties
<1>3. /\ next \in Seq(Entries) /\ Len(next) = Len(top) + Len(rest)
      /\ \A i \in 1..Len(next) : next[i] = IF i <= Len(top) THEN top[i] ELSE rest[i - Len(top)]
  BY <1>1, ConcatProperties
<1>4. DOMAIN next = 1..Len(next)
  BY <1>3, LenProperties
<1> HIDE DEF rest, next
<1>5. ASSUME NEW x \in F!Range(next)
      PROVE  x \in F!Range(top) \cup F!Range(stack)
  <2>1. PICK i \in 1..Len(next) : x = next[i]
    BY <1>4 DEF F!Range
  <2>2. CASE i <= Len(top)
    <3>1. x = top[i]
      BY <1>3, <2>1, <2>2
    <3>2. i \in DOMAIN top
      BY <1>2, <2>1, <2>2
    <3> QED BY <3>1, <3>2 DEF F!Range
  <2>3. CASE ~(i <= Len(top))
    <3>1. i - Len(top) \in 1..Len(rest) /\ x = rest[i - Len(top)]
      BY <1>2, <1>3, <2>1, <2>3
    <3>2. PICK m \in 1..Len(rest) : x = rest[m]
      BY <3>1
    <3>3. m + 1 \in DOMAIN stack /\ x = stack[m + 1]
      BY <1>1, <1>2, <3>2
    <3> QED BY <3>3 DEF F!Range
  <2> QED BY <2>2, <2>3
<1>6. ASSUME NEW x \in F!Range(top)
      PROVE  x \in F!Range(next)
  <2>1. PICK j \in DOMAIN top : x = top[j]
    BY DEF F!Range
  <2>2. j \in DOMAIN next /\ x = next[j]
    BY <1>2, <1>3, <1>4, <2>1
  <2> QED BY <2>2 DEF F!Range
<1>7. ASSUME NEW x \in F!Range(stack), x # Head(stack)
      PROVE  x \in F!Range(next)
  <2>1. PICK j \in DOMAIN stack : x = stack[j]
    BY DEF F!Range
  <2>2. j \in 1..Len(stack) /\ j # 1
    BY <1>1, <1>2, <1>7, <2>1
  <2>3. j - 1 \in 1..Len(rest) /\ rest[j - 1] = x
    BY <1>1, <1>2, <2>1, <2>2
  <2>4. Len(top) + j - 1 \in DOMAIN next /\ next[Len(top) + j - 1] = x
    BY <1>2, <1>3, <1>4, <2>2, <2>3
  <2> QED BY <2>4 DEF F!Range
<1>8. next \in Seq(Entries) /\ F!Range(next) \subseteq F!Range(top) \cup F!Range(stack)
      /\ F!Range(top) \subseteq F!Range(next) /\ F!Range(stack) \subseteq F!Range(next) \cup {Head(stack)}
  BY <1>3, <1>5, <1>6, <1>7
<1> QED BY <1>8 DEF next, rest

\* A target is taken: its own go on the stack.
LEMMA WalkTakes ==
  ASSUME F!WalkInv, UNCHANGED <<v1, v2, v5>>,
         NEW entry \in [name : Name, depth : 0..Limit],
         entry.name \in F!Waiting, entry.name \notin v4,
         entry.depth <= F!Cardinality(v4), F!Cardinality(v4) < Limit,
         v4' = v4 \cup {entry.name},
         v3' \in Seq([name : Name, depth : 0..Limit]),
         \A i \in DOMAIN v3' : \/ v3'[i].name \in F!Range(v1[entry.name]) /\ v3'[i].depth = entry.depth + 1
                               \/ \E j \in DOMAIN v3 : v3'[i] = v3[j],
         F!Range(v1[entry.name]) \subseteq F!Waiting', F!Waiting \subseteq F!Waiting' \cup {entry.name}
  PROVE  F!WalkInv'
<1>1. F!TypeOK /\ Limit \in Nat /\ entry.name \in Name /\ entry.depth \in Nat
  BY WalkAssumption DEF F!WalkInv
<1>2. IsFiniteSet(v4) /\ F!Cardinality(v4) \in Nat /\ F!Cardinality(v4') = F!Cardinality(v4) + 1
  <2>1. IsFiniteSet(v4)
    BY <1>1, WalkAssumption, FS_Subset DEF F!TypeOK
  <2> QED BY <2>1, FS_CardinalityType, FS_AddElement, WalkCardinality
<1>3. F!Reached' = F!Reached
  <2>1. \A names : F!Closed(names)' <=> F!Closed(names)
    BY DEF F!Closed
  <2> QED BY <2>1 DEF F!Reached
<1>4. /\ v4 \subseteq F!Reached /\ F!Waiting \subseteq F!Reached
      /\ entry.name \in F!Reached /\ F!Range(v1[entry.name]) \subseteq F!Reached
  <2>1. v4 \subseteq F!Reached /\ F!Waiting \subseteq F!Reached
    BY DEF F!WalkInv, F!StackIsReached
  <2> QED BY <1>1, <2>1, ReachedIsClosed
<1>5. F!TypeOK'
  BY <1>1 DEF F!TypeOK
<1>6. F!StackIsReached'
  <2>1. ASSUME NEW i \in DOMAIN v3'
        PROVE  v3'[i].name \in F!Reached
    BY <1>4 DEF F!Waiting
  <2>2. F!Waiting' \subseteq F!Reached
    BY <2>1 DEF F!Waiting
  <2>3. v4' \subseteq F!Reached
    BY <1>4
  <2> QED BY <1>3, <2>2, <2>3 DEF F!StackIsReached
<1>7. F!NothingDropped'
  <2>1. ASSUME ~v5, F!Cardinality(F!Reached) <= Limit
        PROVE  /\ v2 \in v4' \cup F!Waiting'
               /\ \A m \in v4' : F!Range(v1[m]) \subseteq v4' \cup F!Waiting'
    <3>1. v2 \in v4 \cup F!Waiting /\ \A m \in v4 : F!Range(v1[m]) \subseteq v4 \cup F!Waiting
      BY <2>1 DEF F!WalkInv, F!NothingDropped
    <3>2. v4 \cup F!Waiting \subseteq v4' \cup F!Waiting'
      OBVIOUS
    <3>3. \A m \in v4' : m = entry.name \/ m \in v4
      OBVIOUS
    <3> QED BY <3>1, <3>2, <3>3
  <2> QED BY <1>3, <2>1 DEF F!NothingDropped
<1>8. F!DepthIsCounted'
  <2>1. \A i \in DOMAIN v3 : v3[i].depth <= F!Cardinality(v4) /\ v3[i].depth \in Nat
    <3>1. v3 \in Seq([name : Name, depth : 0..Limit])
      BY <1>1 DEF F!TypeOK
    <3>2. DOMAIN v3 = 1..Len(v3)
      BY <3>1, LenProperties
    <3>3. \A i \in DOMAIN v3 : v3[i] \in [name : Name, depth : 0..Limit]
      BY <3>1, <3>2, ElementOfSeq
    <3> QED BY <3>3 DEF F!WalkInv, F!DepthIsCounted
  <2>2. \A i \in DOMAIN v3' : v3'[i].depth <= F!Cardinality(v4')
    BY <1>1, <1>2, <2>1
  <2>3. F!Cardinality(v4') <= Limit
    BY <1>1, <1>2
  <2> QED BY <2>2, <2>3 DEF F!DepthIsCounted
<1> QED BY <1>5, <1>6, <1>7, <1>8 DEF F!WalkInv

\* A target is passed over: it is taken, or too many are, or it got lost.
LEMMA WalkPasses ==
  ASSUME F!WalkInv, UNCHANGED <<v1, v2, v4>>,
         NEW entry \in [name : Name, depth : 0..Limit],
         entry.name \in F!Waiting, entry.depth <= F!Cardinality(v4),
         v3' \in Seq([name : Name, depth : 0..Limit]),
         \A i \in DOMAIN v3' : \E j \in DOMAIN v3 : v3'[i] = v3[j],
         F!Waiting \subseteq F!Waiting' \cup {entry.name},
         v5' \in BOOLEAN, ~v5' => ~v5 /\ (entry.name \in v4 \/ F!Cardinality(v4) >= Limit \/ entry.depth > Limit)
  PROVE  F!WalkInv'
<1>1. F!TypeOK /\ Limit \in Nat /\ entry.name \in Name /\ entry.depth \in Nat /\ entry.depth <= Limit
  BY WalkAssumption DEF F!WalkInv
<1>2. IsFiniteSet(v4) /\ F!Cardinality(v4) \in Nat
  <2>1. IsFiniteSet(v4)
    BY <1>1, WalkAssumption, FS_Subset DEF F!TypeOK
  <2> QED BY <2>1, FS_CardinalityType, WalkCardinality
<1>3. F!Reached' = F!Reached
  <2>1. \A names : F!Closed(names)' <=> F!Closed(names)
    BY DEF F!Closed
  <2> QED BY <2>1 DEF F!Reached
<1>4. v4 \subseteq F!Reached /\ F!Waiting \subseteq F!Reached
  BY DEF F!WalkInv, F!StackIsReached
<1>5. F!TypeOK'
  BY <1>1 DEF F!TypeOK
<1>6. F!StackIsReached'
  <2>1. F!Waiting' \subseteq F!Waiting
    BY DEF F!Waiting
  <2> QED BY <1>3, <1>4, <2>1 DEF F!StackIsReached
<1>7. F!NothingDropped'
  <2>1. ASSUME ~v5', F!Cardinality(F!Reached) <= Limit
        PROVE  /\ v2 \in v4 \cup F!Waiting'
               /\ \A m \in v4 : F!Range(v1[m]) \subseteq v4 \cup F!Waiting'
    <3>1. v2 \in v4 \cup F!Waiting /\ \A m \in v4 : F!Range(v1[m]) \subseteq v4 \cup F!Waiting
      BY <2>1 DEF F!WalkInv, F!NothingDropped
    <3>2. entry.name \in v4
      <4>1. CASE F!Cardinality(v4) >= Limit
        <5>1. IsFiniteSet(F!Reached) /\ F!Cardinality(F!Reached) \in Nat
          BY <1>1, ReachedIsClosed
        <5>2. v4 = F!Reached
          BY <1>1, <1>2, <1>4, <2>1, <4>1, <5>1, FS_Subset, WalkCardinality
        <5> QED BY <1>4, <5>2
      <4> QED BY <1>1, <2>1, <4>1
    <3> QED BY <3>1, <3>2
  <2> QED BY <1>3, <2>1 DEF F!NothingDropped
<1>8. F!DepthIsCounted'
  <2>1. F!Cardinality(v4) <= Limit /\ \A i \in DOMAIN v3 : v3[i].depth <= F!Cardinality(v4)
    BY DEF F!WalkInv, F!DepthIsCounted
  <2>2. v4' = v4
    OBVIOUS
  <2>3. F!Cardinality(v4') <= Limit /\ \A i \in DOMAIN v3' : v3'[i].depth <= F!Cardinality(v4')
    BY <2>1, <2>2
  <2> QED BY <2>3 DEF F!DepthIsCounted
<1> QED BY <1>5, <1>6, <1>7, <1>8 DEF F!WalkInv

LEMMA WalkStep == F!WalkInv /\ [F!Next]_(F!vars) => F!WalkInv'
<1> SUFFICES ASSUME F!WalkInv, [F!Next]_(F!vars) PROVE F!WalkInv'
  OBVIOUS
<1> DEFINE Entries == [name : Name, depth : 0..Limit]
<1>1. F!TypeOK /\ v3 \in Seq(Entries) /\ v1 \in [Name -> Seq(Name)] /\ Limit \in Nat
  BY WalkAssumption DEF F!WalkInv, F!TypeOK
<1>2. CASE UNCHANGED F!vars
  <2>1. UNCHANGED <<v1, v2, v3, v4, v5>>
    BY <1>2 DEF F!vars
  <2>2. \A names : F!Closed(names)' <=> F!Closed(names)
    BY <2>1 DEF F!Closed
  <2>3. F!Reached' = F!Reached /\ F!Waiting' = F!Waiting
    BY <2>1, <2>2 DEF F!Reached, F!Waiting
  <2>4. F!TypeOK' /\ F!StackIsReached'
    BY <1>1, <2>1, <2>3 DEF F!WalkInv, F!TypeOK, F!StackIsReached
  <2>5. F!NothingDropped'
    BY <2>1, <2>3 DEF F!WalkInv, F!NothingDropped
  <2>6. F!DepthIsCounted'
    BY <2>1 DEF F!WalkInv, F!DepthIsCounted
  <2> QED BY <2>4, <2>5, <2>6 DEF F!WalkInv
<1>3. CASE F!Walk
  <2> DEFINE entry == Head(v3)
             own == v1[entry.name]
             top == [i \in DOMAIN own |-> [name |-> own[i], depth |-> entry.depth + 1]]
  <2>1. v3 # <<>> /\ UNCHANGED <<v1, v2>>
    BY <1>3 DEF F!Walk
  <2>2. PICK answered \in BOOLEAN :
          \/ /\ F!Enters(entry) /\ UNCHANGED v5
             /\ v4' = v4 \cup {entry.name} /\ v3' = top \o Tail(v3)
          \/ /\ ~(answered /\ F!Enters(entry)) /\ UNCHANGED v4
             /\ v3' = Tail(v3) /\ v5' = (v5 \/ ~answered)
    <3>1. \E answered \in IF entry.name \in v4 THEN {TRUE} ELSE F!Answers :
            IF answered /\ F!Enters(entry)
            THEN v4' = v4 \cup {entry.name} /\ v3' = top \o Tail(v3) /\ UNCHANGED v5
            ELSE v3' = Tail(v3) /\ v5' = (v5 \/ ~answered) /\ UNCHANGED v4
      BY <1>3, Zenon DEF F!Walk
    <3> HIDE DEF entry, top
    <3>2. PICK answered \in IF entry.name \in v4 THEN {TRUE} ELSE F!Answers :
            IF answered /\ F!Enters(entry)
            THEN v4' = v4 \cup {entry.name} /\ v3' = top \o Tail(v3) /\ UNCHANGED v5
            ELSE v3' = Tail(v3) /\ v5' = (v5 \/ ~answered) /\ UNCHANGED v4
      BY <3>1, Zenon
    <3>3. answered \in BOOLEAN
      BY DEF F!Answers
    <3>4. CASE answered /\ F!Enters(entry)
      BY <3>2, <3>3, <3>4, Zenon
    <3>5. CASE ~(answered /\ F!Enters(entry))
      BY <3>2, <3>3, <3>5, Zenon
    <3> QED BY <3>4, <3>5, Zenon
  <2>3. entry \in Entries /\ entry = v3[1] /\ 1 \in DOMAIN v3
    <3>1. entry \in Entries /\ entry = v3[1]
      <4>1. v3 \in Seq(Entries) /\ v3 # <<>>
        BY <1>1, <2>1
      <4> HIDE DEF Entries
      <4>2. Head(v3) \in Entries
        BY <4>1, HeadTailProperties, Zenon
      <4> QED BY <4>1, <4>2
    <3>2. Len(v3) \in Nat \ {0}
      BY <1>1, <2>1, EmptySeq
    <3>3. DOMAIN v3 = 1..Len(v3)
      BY <1>1, LenProperties
    <3> QED BY <3>1, <3>2, <3>3
  <2>4. entry.name \in F!Waiting /\ entry.depth <= F!Cardinality(v4)
    BY <2>3 DEF F!Waiting, F!WalkInv, F!DepthIsCounted
  <2> HIDE DEF entry, top, own
  <2>5. CASE F!Enters(entry) /\ UNCHANGED v5 /\ v4' = v4 \cup {entry.name} /\ v3' = top \o Tail(v3)
    <3>1. F!Cardinality(v4) < Limit /\ entry.name \notin v4
      BY <2>5 DEF F!Enters
    <3>2. F!Cardinality(v4) \in Nat
      <4>1. IsFiniteSet(v4)
        BY <1>1, WalkAssumption, FS_Subset DEF F!TypeOK
      <4> QED BY <4>1, FS_CardinalityType, WalkCardinality
    <3>3. own \in Seq(Name) /\ entry.depth + 1 \in 0..Limit
      <4>1. entry.name \in Name /\ entry.depth \in Nat
        BY <2>3 DEF Entries
      <4>2. own \in Seq(Name)
        BY <1>1, <4>1 DEF own
      <4> QED BY <1>1, <2>4, <3>1, <3>2, <4>1, <4>2
    <3>4. /\ top \in Seq(Entries) /\ DOMAIN top = DOMAIN own
          /\ \A i \in DOMAIN top : top[i] = [name |-> own[i], depth |-> entry.depth + 1]
      <4>1. \A m \in Name : [name |-> m, depth |-> entry.depth + 1] \in Entries
        BY <3>3 DEF Entries
      <4>2. /\ Len(own) \in Nat /\ DOMAIN own = 1..Len(own)
            /\ \A i \in 1..Len(own) : own[i] \in Name
        BY <3>3, LenProperties, ElementOfSeq
      <4> HIDE DEF Entries
      <4>3. top = [i \in 1..Len(own) |-> [name |-> own[i], depth |-> entry.depth + 1]]
        BY <4>2 DEF top
      <4>4. top \in [1..Len(own) -> Entries]
        BY <4>1, <4>2, <4>3
      <4>5. Seq(Entries) = UNION {[1..m -> Entries] : m \in Nat}
        BY SeqDef
      <4>6. top \in Seq(Entries)
        BY <4>2, <4>4, <4>5, Zenon
      <4> QED BY <4>2, <4>3, <4>6
    <3> HIDE DEF Entries
    <3>5. /\ v3' \in Seq(Entries)
          /\ \A i \in DOMAIN v3' : \/ \E j \in DOMAIN top : v3'[i] = top[j]
                                   \/ \E j \in DOMAIN v3 : v3'[i] = v3[j]
          /\ \A j \in DOMAIN top : \E i \in DOMAIN v3' : v3'[i] = top[j]
          /\ \A j \in DOMAIN v3 : v3[j] = entry \/ \E i \in DOMAIN v3' : v3'[i] = v3[j]
      <4>1. top \in Seq(Entries) /\ v3' = top \o Tail(v3) /\ v3 \in Seq(Entries) /\ entry = Head(v3)
        BY <1>1, <2>5, <3>4, Zenon DEF entry
      <4>2. v3' \in Seq(Entries) /\ F!Range(v3') \subseteq F!Range(top) \cup F!Range(v3)
            /\ F!Range(top) \subseteq F!Range(v3') /\ F!Range(v3) \subseteq F!Range(v3') \cup {entry}
        BY <2>1, <4>1, TopExchanged, Zenon
      <4> QED BY <4>2 DEF F!Range
    <3>6. F!Waiting = {v3[i].name : i \in DOMAIN v3} /\ F!Waiting' = {v3'[i].name : i \in DOMAIN v3'}
      BY DEF F!Waiting
    <3>7. F!Range(own) = {own[i] : i \in DOMAIN own}
      BY DEF F!Range
    <3>8. \A i \in DOMAIN top : top[i].name = own[i] /\ top[i].depth = entry.depth + 1
      BY <3>4
    <3>9. F!Range(own) \subseteq F!Waiting'
      BY <3>4, <3>5, <3>6, <3>7, <3>8
    <3>10. F!Waiting \subseteq F!Waiting' \cup {entry.name}
      BY <3>5, <3>6
    <3>11. \A i \in DOMAIN v3' : \/ v3'[i].name \in F!Range(own) /\ v3'[i].depth = entry.depth + 1
                                 \/ \E j \in DOMAIN v3 : v3'[i] = v3[j]
      BY <3>4, <3>5, <3>7, <3>8
    <3> QED BY <2>1, <2>3, <2>4, <2>5, <3>1, <3>5, <3>9, <3>10, <3>11, WalkTakes DEF own, Entries
  <2>6. CASE /\ ~(answered /\ F!Enters(entry)) /\ UNCHANGED v4
             /\ v3' = Tail(v3) /\ v5' = (v5 \/ ~answered)
    <3> HIDE DEF Entries
    <3>1. /\ v3' \in Seq(Entries)
          /\ \A i \in DOMAIN v3' : \E j \in DOMAIN v3 : v3'[i] = v3[j]
          /\ \A j \in DOMAIN v3 : v3[j] = entry \/ \E i \in DOMAIN v3' : v3'[i] = v3[j]
      <4>1. <<>> \in Seq(Entries) /\ v3 \in Seq(Entries) /\ entry = Head(v3) /\ DOMAIN <<>> = {}
        BY <1>1, EmptySeq DEF entry
      <4>2. v3' = <<>> \o Tail(v3)
        BY <2>1, <2>6, <4>1, HeadTailProperties, ConcatEmptySeq
      <4>3. v3' \in Seq(Entries) /\ F!Range(v3') \subseteq F!Range(<<>>) \cup F!Range(v3)
            /\ F!Range(v3) \subseteq F!Range(v3') \cup {entry}
        BY <2>1, <4>1, <4>2, TopExchanged, Zenon
      <4>4. F!Range(<<>>) = {}
        BY <4>1 DEF F!Range
      <4> QED BY <4>3, <4>4 DEF F!Range
    <3>2. F!Waiting = {v3[i].name : i \in DOMAIN v3} /\ F!Waiting' = {v3'[i].name : i \in DOMAIN v3'}
      BY DEF F!Waiting
    <3>3. F!Waiting \subseteq F!Waiting' \cup {entry.name}
      BY <3>1, <3>2
    <3>4. v5 \in BOOLEAN
      BY <1>1 DEF F!TypeOK
    <3>5. v5' \in BOOLEAN /\ (~v5' => ~v5 /\ ~F!Enters(entry))
      BY <2>6, <3>4, Zenon
    <3>6. ~F!Enters(entry) => entry.name \in v4 \/ F!Cardinality(v4) >= Limit \/ entry.depth > Limit
      <4>1. F!Cardinality(v4) \in Nat
        <5>1. IsFiniteSet(v4)
          BY <1>1, WalkAssumption, FS_Subset DEF F!TypeOK
        <5> QED BY <5>1, FS_CardinalityType, WalkCardinality
      <4>2. entry.depth \in Nat
        BY <2>3 DEF Entries
      <4> QED BY <1>1, <4>1, <4>2 DEF F!Enters
    <3> QED BY <2>1, <2>3, <2>4, <2>6, <3>1, <3>3, <3>5, <3>6, WalkPasses DEF Entries
  <2> QED BY <2>2, <2>5, <2>6
<1> QED BY <1>2, <1>3 DEF F!Next

\* At its end the walk has what the root reaches.
LEMMA WalkEnds == F!WalkInv => F!WalkCovers
<1> SUFFICES ASSUME F!WalkInv PROVE F!WalkCovers
  OBVIOUS
<1>1. F!TypeOK /\ v4 \subseteq Name /\ v4 \subseteq F!Reached
  BY DEF F!WalkInv, F!TypeOK, F!StackIsReached
<1>2. ASSUME v3 = <<>>, ~v5, F!Cardinality(F!Reached) <= Limit
      PROVE  v4 = F!Reached
  <2>1. F!Waiting = {}
    BY <1>2 DEF F!Waiting
  <2>2. v2 \in v4 /\ F!Closed(v4)
    BY <1>2, <2>1 DEF F!WalkInv, F!NothingDropped, F!Closed
  <2>3. F!Reached \subseteq v4
    BY <1>1, <2>2 DEF F!Reached
  <2> QED BY <1>1, <2>3
<1>3. F!Cardinality(v4) <= Limit /\ \A i \in DOMAIN v3 : v3[i].depth <= F!Cardinality(v4)
  BY DEF F!WalkInv, F!DepthIsCounted
<1> QED BY <1>1, <1>2, <1>3, Zenon DEF F!WalkCovers

-----------------------------------------------------------------------------
(* The sweep of the DNS: S.                                                *)

Elements(s) == {s[i] : i \in DOMAIN s}

\* What a sequence holds with one more, or cut short.
LEMMA SweepAppend ==
  ASSUME NEW Elem, NEW s \in Seq(Elem), NEW x \in Elem
  PROVE  /\ Append(s, x) \in Seq(Elem) /\ Elements(Append(s, x)) = Elements(s) \cup {x}
         /\ Len(Append(s, x)) = Len(s) + 1
         /\ \A i \in 1..Len(s) : Append(s, x)[i] = s[i]
         /\ Append(s, x)[Len(s) + 1] = x
<1> DEFINE t == Append(s, x)
<1>1. /\ t \in Seq(Elem) /\ Len(t) = Len(s) + 1
      /\ \A i \in 1..Len(s) : t[i] = s[i]
      /\ t[Len(s) + 1] = x
  BY AppendProperties
<1>2. Len(s) \in Nat /\ DOMAIN s = 1..Len(s) /\ DOMAIN t = 1..Len(t)
  BY <1>1, LenProperties
<1> HIDE DEF t
<1>3. Elements(t) = {t[i] : i \in 1..Len(t)} /\ Elements(s) = {s[i] : i \in 1..Len(s)}
  BY <1>2 DEF Elements
<1>4. ASSUME NEW y \in Elements(t) PROVE y \in Elements(s) \cup {x}
  <2>1. PICK i \in 1..Len(t) : y = t[i]
    BY <1>3
  <2>2. CASE i \in 1..Len(s)
    BY <1>1, <1>3, <2>1, <2>2
  <2>3. CASE i \notin 1..Len(s)
    <3>1. i = Len(s) + 1
      BY <1>1, <1>2, <2>1, <2>3
    <3> QED BY <1>1, <2>1, <3>1
  <2> QED BY <2>2, <2>3
<1>5. ASSUME NEW y \in Elements(s) \cup {x} PROVE y \in Elements(t)
  <2>1. CASE y = x
    <3>1. Len(s) + 1 \in 1..Len(t)
      BY <1>1, <1>2
    <3> QED BY <1>1, <1>3, <2>1, <3>1
  <2>2. CASE y \in Elements(s)
    <3>1. PICK i \in 1..Len(s) : y = s[i]
      BY <1>3, <2>2
    <3>2. i \in 1..Len(t) /\ y = t[i]
      BY <1>1, <1>2, <3>1
    <3> QED BY <1>3, <3>2
  <2> QED BY <2>1, <2>2
<1> QED BY <1>1, <1>4, <1>5 DEF t

LEMMA SweepPrefix ==
  ASSUME NEW Elem, NEW s \in Seq(Elem), NEW n \in 0..(Len(s) - 1)
  PROVE  Elements(SubSeq(s, 1, n)) \subseteq Elements(s) /\ Elements(s) \subseteq Elem
<1>1. Len(s) \in Nat /\ DOMAIN s = 1..Len(s) /\ \A i \in 1..Len(s) : s[i] \in Elem
  BY LenProperties, ElementOfSeq
<1>2. DOMAIN SubSeq(s, 1, n) = 1..n /\ \A i \in 1..n : SubSeq(s, 1, n)[i] = s[i] /\ i \in 1..Len(s)
  BY <1>1
<1> QED BY <1>1, <1>2 DEF Elements

\* The row and the checks of a result.
LEMMA SweepOfResult ==
  ASSUME S!TypeOK, NEW x \in S!Result, x \in S!Results(x.domain)
  PROVE  /\ S!SweepRow(x) \in [domain : Domain, run : 1..v1, raised : BOOLEAN, noted : SUBSET Noting,
                               signature : SUBSET (Noting \cup Silent), listed : SUBSET Zone]
         /\ S!SweepRow(x).domain = x.domain /\ S!SweepRow(x).run = v1
         /\ S!SweepRow(x).raised = x.raised /\ S!SweepRow(x).listed = S!ListedOn(x)
         /\ S!SweepRow(x).noted = {} => S!SweepRow(x).signature \ Silent = Noting \ Silent
         /\ S!BlacklistRows(x) \subseteq
              [domain : Domain, run : 1..v1, zone : Zone, status : {"listed", "error", "clean"}]
         /\ \A c \in S!BlacklistRows(x) :
              /\ c.domain = x.domain /\ c.run = v1
              /\ c.status = "listed" <=> c.zone \in S!ListedOn(x)
              /\ c.status = "listed" => <<x.domain, c.zone>> \in Blacklisted
              /\ c.status = "clean" => <<x.domain, c.zone>> \notin Blacklisted \/ x.raised
         /\ \A z \in S!ListedOn(x) : \E c \in S!BlacklistRows(x) : c.zone = z /\ c.status = "listed"
<1>1. /\ x.domain \in Domain /\ x.raised \in BOOLEAN /\ x.failed \subseteq Noting \cup Silent
      /\ v1 \in 1..v1 /\ S!ListedOn(x) \subseteq Zone
  <2>1. v1 \in 1..v1
    BY DEF S!TypeOK
  <2> QED BY <2>1 DEF S!Result, S!ListedOn
<1>2. \A z \in Zone : x.answers[z] \in S!Says(x.domain, z)
  BY DEF S!Results
<1>3. \A z \in Zone : ~x.raised /\ x.answers[z] = "address" => <<x.domain, z>> \in Blacklisted
  BY <1>2 DEF S!Says
<1>4. \A z \in Zone : ~x.raised /\ x.answers[z] \notin {"address", "sentinel", "error"} => <<x.domain, z>> \notin Blacklisted
  BY <1>2 DEF S!Says
<1> DEFINE row == [domain |-> x.domain, run |-> v1, raised |-> x.raised, noted |-> x.failed \cap Noting,
                   signature |-> (Noting \cup Silent) \ x.failed, listed |-> S!ListedOn(x)]
<1>5. S!SweepRow(x) = row
  BY DEF S!SweepRow, S!Signature
<1>6. /\ row \in [domain : Domain, run : 1..v1, raised : BOOLEAN, noted : SUBSET Noting,
                  signature : SUBSET (Noting \cup Silent), listed : SUBSET Zone]
      /\ row.domain = x.domain /\ row.run = v1 /\ row.raised = x.raised /\ row.listed = S!ListedOn(x)
      /\ row.noted = {} => row.signature \ Silent = Noting \ Silent
  BY <1>1
<1>7. ASSUME NEW c \in S!BlacklistRows(x)
      PROVE  /\ c \in [domain : Domain, run : 1..v1, zone : Zone, status : {"listed", "error", "clean"}]
             /\ c.domain = x.domain /\ c.run = v1
             /\ c.status = "listed" <=> c.zone \in S!ListedOn(x)
             /\ c.status = "listed" => <<x.domain, c.zone>> \in Blacklisted
             /\ c.status = "clean" => <<x.domain, c.zone>> \notin Blacklisted \/ x.raised
  <2>1. PICK z \in Zone :
          c = [domain |-> x.domain, run |-> v1, zone |-> z,
               status |-> IF z \in S!ListedOn(x) THEN "listed" ELSE IF z \in S!Errors(x) THEN "error" ELSE "clean"]
    BY DEF S!BlacklistRows
  <2>2. c.domain = x.domain /\ c.run = v1 /\ c.zone = z
    BY <2>1
  <2>3. c.status = IF z \in S!ListedOn(x) THEN "listed" ELSE IF z \in S!Errors(x) THEN "error" ELSE "clean"
    BY <2>1
  <2>4. c \in [domain : Domain, run : 1..v1, zone : Zone, status : {"listed", "error", "clean"}]
    BY <1>1, <2>1
  <2>5. c.status = "listed" <=> c.zone \in S!ListedOn(x)
    BY <2>2, <2>3
  <2>6. c.status = "listed" => <<x.domain, c.zone>> \in Blacklisted
    BY <1>3, <2>2, <2>5 DEF S!ListedOn
  <2>7. ASSUME c.status = "clean", ~x.raised PROVE <<x.domain, c.zone>> \notin Blacklisted
    <3>1. z \notin S!ListedOn(x) /\ z \notin S!Errors(x)
      BY <2>3, <2>7
    <3>2. x.answers[z] \notin {"address", "sentinel", "error"}
      BY <2>7, <3>1 DEF S!ListedOn, S!Errors
    <3> QED BY <1>4, <2>2, <2>7, <3>2
  <2> QED BY <2>2, <2>4, <2>5, <2>6, <2>7
<1>8. ASSUME NEW z \in S!ListedOn(x)
      PROVE  \E c \in S!BlacklistRows(x) : c.zone = z /\ c.status = "listed"
  <2>1. z \in Zone
    BY <1>1
  <2> DEFINE c == [domain |-> x.domain, run |-> v1, zone |-> z,
                   status |-> IF z \in S!ListedOn(x) THEN "listed" ELSE IF z \in S!Errors(x) THEN "error" ELSE "clean"]
  <2>2. c \in S!BlacklistRows(x)
    BY <2>1 DEF S!BlacklistRows
  <2>3. c.zone = z /\ c.status = "listed"
    OBVIOUS
  <2> QED BY <2>2, <2>3
<1> QED BY <1>5, <1>6, <1>7, <1>8

\* What SweepInv says of a row, a check and the domains that came back.
LEMMA SweepTypes ==
  ASSUME S!SweepInv
  PROVE  /\ S!TypeOK /\ v1 \in Nat /\ 0 \notin v8
         /\ \A r \in v5 : r.run \in Nat /\ r.run <= v1 /\ r.run # 0
         /\ \A c \in v6 : c.run \in Nat /\ c.run <= v1
         /\ \A run \in v8 : run \in Nat /\ run <= v1
<1>1. S!TypeOK /\ SweepNights \in Nat
  BY SweepAssumption DEF S!SweepInv
<1>2. v1 \in Nat /\ v8 \subseteq 1..v1
  BY <1>1 DEF S!TypeOK
<1>3. \A r \in v5 : r.run \in 1..v1
  BY <1>1 DEF S!TypeOK
<1>4. \A c \in v6 : c.run \in 1..v1
  BY <1>1 DEF S!TypeOK
<1> QED BY <1>1, <1>2, <1>3, <1>4

\* Results go into the rows, some or all of their checks with them.
LEMMA SweepLands ==
  ASSUME S!SweepInv, v2 = "sweep", NEW d \in v3, v3' = v3 \ {d}, UNCHANGED <<v1, v7>>, v4' = <<>>,
         NEW batch \in SUBSET S!Result, NEW kept,
         \A x \in batch : x \in S!Results(x.domain) /\ x.domain \notin S!Tonight /\ x.domain \in Domain \ v3',
         \A x, y \in batch : x.domain = y.domain => x = y,
         kept \subseteq UNION {S!BlacklistRows(x) : x \in batch},
         v5' = v5 \cup {S!SweepRow(x) : x \in batch}, v6' = v6 \cup kept,
         \/ v2' = "build" /\ v8' = v8
         \/ /\ kept = UNION {S!BlacklistRows(x) : x \in batch}
            /\ S!Tonight \cup {x.domain : x \in batch} = Domain \ v3'
            /\ \/ v3' # {} /\ v2' = "sweep" /\ v8' = v8
               \/ v3' = {} /\ v2' = "build" /\ v8' = v8 \cup {v1}
  PROVE  S!SweepInv'
<1>1. /\ S!TypeOK /\ v1 \in Nat /\ 0 \notin v8
      /\ \A r \in v5 : r.run \in Nat /\ r.run <= v1 /\ r.run # 0
      /\ \A c \in v6 : c.run \in Nat /\ c.run <= v1
      /\ \A run \in v8 : run \in Nat /\ run <= v1
  BY SweepTypes
<1>2. \A x \in batch :
        /\ S!SweepRow(x) \in [domain : Domain, run : 1..v1, raised : BOOLEAN, noted : SUBSET Noting,
                              signature : SUBSET (Noting \cup Silent), listed : SUBSET Zone]
        /\ S!SweepRow(x).domain = x.domain /\ S!SweepRow(x).run = v1
        /\ S!SweepRow(x).raised = x.raised /\ S!SweepRow(x).listed = S!ListedOn(x)
        /\ S!SweepRow(x).noted = {} => S!SweepRow(x).signature \ Silent = Noting \ Silent
  BY <1>1, SweepOfResult
<1>3. \A c \in kept : \E x \in batch :
        /\ c \in [domain : Domain, run : 1..v1, zone : Zone, status : {"listed", "error", "clean"}]
        /\ c \in S!BlacklistRows(x) /\ c.domain = x.domain /\ c.run = v1
        /\ c.status = "listed" <=> c.zone \in S!ListedOn(x)
        /\ c.status = "listed" => <<x.domain, c.zone>> \in Blacklisted
        /\ c.status = "clean" => <<x.domain, c.zone>> \notin Blacklisted \/ x.raised
  BY <1>1, SweepOfResult
<1>4. \A r \in v5 : r.run = v1 => r.domain \in S!Tonight
  BY DEF S!Tonight
<1>5. v1 \notin v8 /\ S!Tonight \cup S!Buffered = Domain \ v3
  BY DEF S!SweepInv, S!NothingMissing
<1>6. S!Tonight' = S!Tonight \cup {x.domain : x \in batch}
  <2>1. S!Tonight' = {r.domain : r \in {s \in v5' : s.run = v1}}
    BY DEF S!Tonight
  <2>2. ASSUME NEW t \in S!Tonight' PROVE t \in S!Tonight \cup {x.domain : x \in batch}
    <3>1. PICK r \in v5' : r.run = v1 /\ t = r.domain
      BY <2>1
    <3> QED BY <1>2, <1>4, <3>1
  <2>3. ASSUME NEW t \in S!Tonight PROVE t \in S!Tonight'
    BY <2>1 DEF S!Tonight
  <2>4. ASSUME NEW x \in batch PROVE x.domain \in S!Tonight'
    <3>1. S!SweepRow(x) \in v5' /\ S!SweepRow(x).run = v1 /\ S!SweepRow(x).domain = x.domain
      BY <1>2
    <3> QED BY <2>1, <3>1
  <2> QED BY <2>2, <2>3, <2>4
<1>7. S!Buffered' = {}
  <2>1. DOMAIN v4' = {}
    OBVIOUS
  <2> QED BY <2>1 DEF S!Buffered
<1>8. S!TypeOK'
  <2>1. /\ v5' \subseteq [domain : Domain, run : 1..v1, raised : BOOLEAN, noted : SUBSET Noting,
                          signature : SUBSET (Noting \cup Silent), listed : SUBSET Zone]
    BY <1>1, <1>2 DEF S!TypeOK
  <2>2. v6' \subseteq [domain : Domain, run : 1..v1, zone : Zone, status : {"listed", "error", "clean"}]
    BY <1>1, <1>3 DEF S!TypeOK
  <2>3. v8' \subseteq 1..v1
    <3>1. v8 \subseteq 1..v1 /\ v1 \in 1..v1
      BY <1>1 DEF S!TypeOK
    <3>2. v8' \subseteq v8 \cup {v1}
      OBVIOUS
    <3> QED BY <3>1, <3>2
  <2>4. v4' \in Seq(S!Result) /\ v3' \subseteq Domain /\ v2' \in {"sweep", "build", "over"}
    BY <1>1 DEF S!TypeOK
  <2> QED BY <1>1, <2>1, <2>2, <2>3, <2>4 DEF S!TypeOK
<1>9. S!OncePerNight'
  <2>1. ASSUME NEW r \in v5', NEW s \in v5', r.domain = s.domain, r.run = s.run
        PROVE  r = s
    <3>1. CASE r \in v5 /\ s \in v5
      BY <2>1, <3>1 DEF S!SweepInv, S!OncePerNight
    <3>2. CASE r \notin v5 /\ s \notin v5
      <4>1. PICK x \in batch, y \in batch : r = S!SweepRow(x) /\ s = S!SweepRow(y)
        BY <3>2
      <4> QED BY <1>2, <2>1, <4>1
    <3>3. CASE r \in v5 /\ s \notin v5
      <4>1. PICK y \in batch : s = S!SweepRow(y)
        BY <3>3
      <4> QED BY <1>2, <1>4, <2>1, <3>3, <4>1
    <3>4. CASE r \notin v5 /\ s \in v5
      <4>1. PICK x \in batch : r = S!SweepRow(x)
        BY <3>4
      <4> QED BY <1>2, <1>4, <2>1, <3>4, <4>1
    <3> QED BY <3>1, <3>2, <3>3, <3>4
  <2>2. \A i, j \in DOMAIN v4' : v4'[i].domain = v4'[j].domain => i = j
    OBVIOUS
  <2>3. S!Tonight' \cap S!Buffered' = {} /\ S!Tonight' \cup S!Buffered' \subseteq Domain \ v3'
    BY <1>5, <1>6, <1>7
  <2>4. \A i \in DOMAIN v4' : v4'[i] \in S!Results(v4'[i].domain)
    OBVIOUS
  <2> QED BY <2>1, <2>2, <2>3, <2>4 DEF S!OncePerNight
<1>10. S!NothingMissing'
  <2>1. v2' = "sweep" => S!Tonight' \cup S!Buffered' = Domain \ v3' /\ v1 \notin v8'
    BY <1>5, <1>6, <1>7
  <2>2. v1 \in v8' => S!Tonight' = Domain /\ Domain # {}
    <3>1. d \in Domain
      BY <1>1 DEF S!TypeOK
    <3> QED BY <1>5, <1>6, <3>1
  <2> QED BY <2>1, <2>2 DEF S!NothingMissing
<1>11. S!ChecksHaveRows'
  <2> SUFFICES ASSUME NEW c \in v6' PROVE \E r \in v5' : r.domain = c.domain /\ r.run = c.run
    BY DEF S!ChecksHaveRows
  <2>1. CASE c \in v6
    BY <2>1 DEF S!SweepInv, S!ChecksHaveRows
  <2>2. CASE c \in kept
    <3>1. PICK x \in batch : c.domain = x.domain /\ c.run = v1
      BY <1>3, <2>2
    <3> QED BY <1>2, <3>1
  <2> QED BY <2>1, <2>2
<1>12. S!NoiseHasMark' /\ S!NoiseIsNoted'
  <2>1. \A r \in v5' : r.noted = {} => r.signature \ Silent = Noting \ Silent
    BY <1>2 DEF S!SweepInv, S!NoiseHasMark
  <2> QED BY <2>1 DEF S!NoiseHasMark, S!NoiseIsNoted
<1>13. S!SilenceIsNotClean'
  <2> SUFFICES ASSUME NEW c \in v6'
               PROVE  /\ c.status = "listed" => <<c.domain, c.zone>> \in Blacklisted
                      /\ c.status = "clean" =>
                           \/ <<c.domain, c.zone>> \notin Blacklisted
                           \/ \E r \in v5' : r.domain = c.domain /\ r.run = c.run /\ r.raised
    BY Zenon DEF S!SilenceIsNotClean
  <2>1. CASE c \in v6
    BY <2>1 DEF S!SweepInv, S!SilenceIsNotClean
  <2>2. CASE c \in kept
    <3>1. PICK x \in batch :
            /\ c.domain = x.domain /\ c.run = v1
            /\ c.status = "listed" => <<x.domain, c.zone>> \in Blacklisted
            /\ c.status = "clean" => <<x.domain, c.zone>> \notin Blacklisted \/ x.raised
      BY <1>3, <2>2
    <3> QED BY <1>2, <3>1
  <2> QED BY <2>1, <2>2
<1>14. S!CoreHasRows'
  BY DEF S!SweepInv, S!CoreHasRows
<1>15. S!ListingsFollow'
  <2> SUFFICES ASSUME NEW r \in v5', r.run \in v8' \/ (r.run = v1 /\ v2' = "sweep")
               PROVE  r.listed = {c.zone : c \in {k \in v6' : k.domain = r.domain /\ k.run = r.run /\ k.status = "listed"}}
    BY DEF S!ListingsFollow
  <2>1. CASE r \in v5
    <3>1. r.run \in v8 \/ r.run = v1
      OBVIOUS
    <3>2. r.listed = {c.zone : c \in {k \in v6 : k.domain = r.domain /\ k.run = r.run /\ k.status = "listed"}}
      BY <2>1, <3>1 DEF S!SweepInv, S!ListingsFollow
    <3>3. ASSUME NEW c \in kept, c.domain = r.domain, c.run = r.run PROVE FALSE
      <4>1. PICK x \in batch : c.domain = x.domain /\ c.run = v1
        BY <1>3
      <4>2. r.domain \in S!Tonight
        BY <1>4, <2>1, <3>3, <4>1
      <4> QED BY <3>3, <4>1, <4>2
    <3>4. {k \in v6' : k.domain = r.domain /\ k.run = r.run /\ k.status = "listed"}
            = {k \in v6 : k.domain = r.domain /\ k.run = r.run /\ k.status = "listed"}
      BY <3>3
    <3> QED BY <3>2, <3>4
  <2>2. CASE r \notin v5
    <3>1. PICK x \in batch : r = S!SweepRow(x)
      BY <2>2
    <3>2. r.domain = x.domain /\ r.run = v1 /\ r.listed = S!ListedOn(x)
      BY <1>2, <3>1
    <3>3. kept = UNION {S!BlacklistRows(y) : y \in batch}
      BY <1>5, <3>2
    <3>4. \A k \in v6 : ~(k.domain = r.domain /\ k.run = r.run)
      <4>1. \A k \in v6 : \E s \in v5 : s.domain = k.domain /\ s.run = k.run
        BY DEF S!SweepInv, S!ChecksHaveRows
      <4> QED BY <1>4, <3>2, <4>1
    <3> DEFINE listed == {c.zone : c \in {k \in v6' : k.domain = r.domain /\ k.run = r.run /\ k.status = "listed"}}
    <3>5. ASSUME NEW z \in listed PROVE z \in r.listed
      <4>1. PICK c \in kept : c.zone = z /\ c.domain = x.domain /\ c.status = "listed"
        BY <3>2, <3>4
      <4>2. PICK y \in batch : c.domain = y.domain /\ c.zone \in S!ListedOn(y)
        BY <1>3, <4>1
      <4> QED BY <3>2, <4>1, <4>2
    <3>6. ASSUME NEW z \in r.listed PROVE z \in listed
      <4>1. PICK c \in S!BlacklistRows(x) : c.zone = z /\ c.status = "listed" /\ c.domain = x.domain /\ c.run = v1
        <5>1. x \in S!Result /\ x \in S!Results(x.domain) /\ z \in S!ListedOn(x)
          BY <3>2
        <5>2. PICK c \in S!BlacklistRows(x) : c.zone = z /\ c.status = "listed"
          BY <1>1, <5>1, SweepOfResult, Zenon
        <5>3. c.domain = x.domain /\ c.run = v1
          BY <1>1, <5>1, SweepOfResult, Zenon
        <5> QED BY <5>2, <5>3
      <4>2. c \in v6'
        BY <3>3
      <4> QED BY <3>2, <4>1, <4>2
    <3> QED BY <3>5, <3>6
  <2> QED BY <2>1, <2>2
<1>16. S!CoreFollowsTheSweep'
  <2>1. v2' # "over"
    OBVIOUS
  <2>2. 0 \notin v8'
    BY <1>1, <1>5 DEF S!TypeOK
  <2>3. ASSUME NEW e \in v7', e.run \in v8'
        PROVE  e.listed = {c.zone : c \in {k \in v6' : k.domain = e.domain /\ k.run = e.run /\ k.status = "listed"}}
    <3>1. PICK r \in v5' : r.domain = e.domain /\ r.run = e.run /\ r.listed = e.listed
      BY <1>14, <2>2, <2>3 DEF S!CoreHasRows
    <3>2. r.listed = {c.zone : c \in {k \in v6' : k.domain = r.domain /\ k.run = r.run /\ k.status = "listed"}}
      BY <1>15, <2>3, <3>1 DEF S!ListingsFollow
    <3> QED BY <3>1, <3>2
  <2> QED BY <2>1, <2>3 DEF S!CoreFollowsTheSweep
<1> QED BY <1>8, <1>9, <1>10, <1>11, <1>12, <1>13, <1>14, <1>15, <1>16 DEF S!SweepInv

\* A result that waits in the buffer.
LEMMA SweepWaits ==
  ASSUME S!SweepInv, v2 = "sweep", NEW d \in v3, v3' = v3 \ {d}, UNCHANGED <<v1, v2, v5, v6, v7, v8>>,
         NEW r \in S!Results(d), v4' = Append(v4, r)
  PROVE  S!SweepInv'
<1>1. S!TypeOK /\ r \in S!Result /\ r.domain = d /\ v4 \in Seq(S!Result) /\ d \in Domain
  BY DEF S!SweepInv, S!TypeOK, S!Results
<1>2. Len(v4) \in Nat /\ DOMAIN v4 = 1..Len(v4)
  BY <1>1, LenProperties
<1>3. /\ v4' \in Seq(S!Result) /\ Len(v4') = Len(v4) + 1
      /\ \A i \in 1..Len(v4) : v4'[i] = v4[i]
      /\ v4'[Len(v4) + 1] = r
  BY <1>1, SweepAppend
<1>4. DOMAIN v4' = 1..Len(v4')
  BY <1>3, LenProperties
<1>5. \A i \in DOMAIN v4' : \/ i \in DOMAIN v4 /\ v4'[i] = v4[i]
                            \/ i = Len(v4) + 1 /\ v4'[i] = r
  BY <1>2, <1>3, <1>4
<1>6. S!Buffered' = S!Buffered \cup {d} /\ S!Tonight' = S!Tonight
  <2>1. S!Tonight' = S!Tonight
    BY DEF S!Tonight
  <2>2. S!Buffered = {v4[i].domain : i \in DOMAIN v4} /\ S!Buffered' = {v4'[i].domain : i \in DOMAIN v4'}
    BY DEF S!Buffered
  <2>3. \A t \in S!Buffered' : t \in S!Buffered \cup {d}
    BY <1>1, <1>5, <2>2
  <2>4. \A i \in DOMAIN v4 : i \in DOMAIN v4' /\ v4'[i] = v4[i]
    BY <1>2, <1>3, <1>4
  <2>5. Len(v4) + 1 \in DOMAIN v4' /\ v4'[Len(v4) + 1].domain = d
    BY <1>1, <1>2, <1>3, <1>4
  <2>6. \A t \in S!Buffered \cup {d} : t \in S!Buffered'
    BY <2>2, <2>4, <2>5
  <2> QED BY <2>1, <2>3, <2>6
<1>7. d \notin S!Buffered /\ d \notin S!Tonight /\ S!Tonight \cap S!Buffered = {}
      /\ S!Tonight \cup S!Buffered = Domain \ v3
  BY DEF S!SweepInv, S!OncePerNight, S!NothingMissing
<1>8. S!TypeOK'
  <2>1. v3' \subseteq Domain
    BY <1>1 DEF S!TypeOK
  <2> QED BY <1>1, <1>3, <2>1 DEF S!TypeOK
<1>9. S!OncePerNight'
  <2>1. \A i, j \in DOMAIN v4 : v4[i].domain = v4[j].domain => i = j
    BY DEF S!SweepInv, S!OncePerNight
  <2>2. \A i \in DOMAIN v4 : v4[i].domain # d
    BY <1>7 DEF S!Buffered
  <2>3. \A i, j \in DOMAIN v4' : v4'[i].domain = v4'[j].domain => i = j
    BY <1>1, <1>5, <2>1, <2>2
  <2>4. \A i \in DOMAIN v4 : v4[i] \in S!Results(v4[i].domain)
    BY DEF S!SweepInv, S!OncePerNight
  <2>5. \A i \in DOMAIN v4' : v4'[i] \in S!Results(v4'[i].domain)
    BY <1>1, <1>5, <2>4
  <2>6. \A q, p \in v5 : q.domain = p.domain /\ q.run = p.run => q = p
    BY DEF S!SweepInv, S!OncePerNight
  <2>7. S!Tonight' \cap S!Buffered' = {} /\ S!Tonight' \cup S!Buffered' \subseteq Domain \ v3'
    BY <1>1, <1>6, <1>7
  <2> QED BY <2>3, <2>5, <2>6, <2>7 DEF S!OncePerNight
<1>10. S!NothingMissing'
  <2>1. v1 \notin v8
    BY DEF S!SweepInv, S!NothingMissing
  <2>2. S!Tonight' \cup S!Buffered' = Domain \ v3'
    BY <1>1, <1>6, <1>7
  <2> QED BY <2>1, <2>2 DEF S!NothingMissing
<1>11. S!ChecksHaveRows' /\ S!NoiseHasMark' /\ S!CoreHasRows' /\ S!SilenceIsNotClean' /\ S!NoiseIsNoted'
  BY DEF S!SweepInv, S!ChecksHaveRows, S!NoiseHasMark, S!CoreHasRows, S!SilenceIsNotClean, S!NoiseIsNoted
<1>12. S!ListingsFollow' /\ S!CoreFollowsTheSweep'
  BY DEF S!SweepInv, S!ListingsFollow, S!CoreFollowsTheSweep
<1> QED BY <1>8, <1>9, <1>10, <1>11, <1>12 DEF S!SweepInv

\* A domain comes back.
LEMMA SweepResult ==
  ASSUME S!SweepInv, NEW d \in Domain, S!OnResult(d)
  PROVE  S!SweepInv'
<1>1. v2 = "sweep" /\ d \in v3 /\ v3' = v3 \ {d} /\ UNCHANGED <<v1, v7>>
  BY DEF S!OnResult
<1>2. PICK r \in S!Results(d) :
        \/ v4' = Append(v4, r) /\ UNCHANGED <<v2, v5, v6, v8>>
        \/ /\ S!Flush(Append(v4, r))
           /\ v2' = IF v3' = {} THEN "build" ELSE v2
           /\ v8' = IF v3' = {} THEN v8 \cup {v1} ELSE v8
        \/ S!FlushStops(Append(v4, r)) /\ v2' = "build" /\ UNCHANGED v8
  BY Zenon DEF S!OnResult
<1>3. CASE v4' = Append(v4, r) /\ UNCHANGED <<v2, v5, v6, v8>>
  BY <1>1, <1>3, SweepWaits
<1> DEFINE results == Append(v4, r)
           batch == Elements(results)
<1>4. /\ S!TypeOK /\ r \in S!Result /\ r.domain = d /\ v4 \in Seq(S!Result) /\ d \in Domain
  BY DEF S!SweepInv, S!TypeOK, S!Results
<1>5. results \in Seq(S!Result) /\ batch = Elements(v4) \cup {r} /\ batch \subseteq S!Result
  <2>1. Elements(v4) \subseteq S!Result
    <3>1. DOMAIN v4 = 1..Len(v4)
      BY <1>4, LenProperties
    <3>2. \A i \in 1..Len(v4) : v4[i] \in S!Result
      BY <1>4, ElementOfSeq
    <3> QED BY <3>1, <3>2 DEF Elements
  <2> QED BY <1>4, <2>1, SweepAppend
<1>6. \A x \in Elements(v4) : x \in S!Results(x.domain) /\ x.domain \in S!Buffered
  BY DEF S!SweepInv, S!OncePerNight, Elements, S!Buffered
<1>7. \A x, y \in Elements(v4) : x.domain = y.domain => x = y
  BY DEF S!SweepInv, S!OncePerNight, Elements
<1>8. S!Tonight \cap S!Buffered = {} /\ S!Tonight \cup S!Buffered = Domain \ v3
  BY <1>1 DEF S!SweepInv, S!OncePerNight, S!NothingMissing
<1>9. S!Buffered \subseteq {x.domain : x \in Elements(v4)}
  BY DEF S!Buffered, Elements
<1>10. \A i \in DOMAIN results : results[i] \in batch
  BY DEF Elements
<1>11. S!SweepRows(results) = {S!SweepRow(x) : x \in batch}
       /\ S!CheckRows(results) = UNION {S!BlacklistRows(x) : x \in batch}
  BY DEF S!SweepRows, S!CheckRows, Elements
<1> HIDE DEF results, batch
<1>12. /\ \A x \in batch : x \in S!Results(x.domain) /\ x.domain \notin S!Tonight /\ x.domain \in Domain \ v3'
       /\ \A x, y \in batch : x.domain = y.domain => x = y
       /\ S!Tonight \cup {x.domain : x \in batch} = Domain \ v3'
  <2>1. \A x \in batch : x = r \/ (x \in Elements(v4) /\ x.domain \in S!Buffered)
    BY <1>5, <1>6
  <2>2. \A x \in batch : x \in S!Results(x.domain) /\ x.domain \notin S!Tonight /\ x.domain \in Domain \ v3'
    BY <1>1, <1>4, <1>6, <1>8, <2>1
  <2>3. \A x, y \in batch : x.domain = y.domain => x = y
    BY <1>1, <1>4, <1>7, <1>8, <2>1
  <2>4. ASSUME NEW t \in Domain \ v3', t \notin S!Tonight PROVE t \in {x.domain : x \in batch}
    <3>1. CASE t = d
      BY <1>4, <1>5, <3>1
    <3>2. CASE t # d
      <4>1. t \in S!Buffered
        BY <1>1, <1>8, <2>4, <3>2
      <4> QED BY <1>5, <1>9, <4>1
    <3> QED BY <3>1, <3>2
  <2>5. S!Tonight \subseteq Domain \ v3'
    BY <1>1, <1>8
  <2> QED BY <2>2, <2>3, <2>4, <2>5
<1>13. CASE /\ S!Flush(results)
            /\ v2' = IF v3' = {} THEN "build" ELSE v2
            /\ v8' = IF v3' = {} THEN v8 \cup {v1} ELSE v8
  <2>1. /\ v5' = v5 \cup {S!SweepRow(x) : x \in batch}
        /\ v6' = v6 \cup UNION {S!BlacklistRows(x) : x \in batch} /\ v4' = <<>>
    BY <1>11, <1>13 DEF S!Flush
  <2>2. \/ v3' # {} /\ v2' = "sweep" /\ v8' = v8
        \/ v3' = {} /\ v2' = "build" /\ v8' = v8 \cup {v1}
    BY <1>1, <1>13
  <2> QED BY <1>1, <1>5, <1>12, <2>1, <2>2, SweepLands
<1>14. CASE S!FlushStops(results) /\ v2' = "build" /\ UNCHANGED v8
  <2>1. CASE \E some \in SUBSET S!CheckRows(results) :
               v5' = v5 \cup S!SweepRows(results) /\ v6' = v6 \cup some
    <3>1. PICK some \in SUBSET UNION {S!BlacklistRows(x) : x \in batch} :
            v5' = v5 \cup {S!SweepRow(x) : x \in batch} /\ v6' = v6 \cup some
      BY <1>11, <2>1
    <3>2. v4' = <<>>
      BY <1>14 DEF S!FlushStops
    <3> QED BY <1>1, <1>5, <1>12, <1>14, <3>1, <3>2, SweepLands
  <2>2. CASE /\ \E n \in 0..(Len(results) - 1) : v5' = v5 \cup S!SweepRows(SubSeq(results, 1, n))
             /\ UNCHANGED v6
    <3>1. PICK n \in 0..(Len(results) - 1) : v5' = v5 \cup S!SweepRows(SubSeq(results, 1, n))
      BY <2>2
    <3> DEFINE part == Elements(SubSeq(results, 1, n))
    <3>2. part \subseteq batch
      BY <1>5, SweepPrefix DEF batch
    <3>3. v5' = v5 \cup {S!SweepRow(x) : x \in part} /\ v6' = v6 \cup {} /\ v4' = <<>>
      <4>1. v5' = v5 \cup {S!SweepRow(x) : x \in part}
        BY <3>1 DEF S!SweepRows, Elements
      <4>2. v6' = v6 \cup {}
        BY <2>2
      <4>3. v4' = <<>>
        BY <1>14 DEF S!FlushStops
      <4> QED BY <4>1, <4>2, <4>3
    <3> HIDE DEF part
    <3>4. /\ \A x \in part : x \in S!Results(x.domain) /\ x.domain \notin S!Tonight /\ x.domain \in Domain \ v3'
          /\ \A x, y \in part : x.domain = y.domain => x = y
          /\ part \in SUBSET S!Result
      BY <1>5, <1>12, <3>2
    <3>5. {} \subseteq UNION {S!BlacklistRows(x) : x \in part}
      OBVIOUS
    <3> QED BY <1>1, <1>14, <3>3, <3>4, <3>5, SweepLands
  <2> QED BY <1>14, <2>1, <2>2, Zenon DEF S!FlushStops
<1> QED BY <1>2, <1>3, <1>13, <1>14 DEF results

LEMMA SweepInit == S!Init => S!SweepInv
<1> SUFFICES ASSUME S!Init PROVE S!SweepInv
  OBVIOUS
<1>1. v1 = 1 /\ v2 = "sweep" /\ v3 = Domain /\ v4 = <<>> /\ v5 = {} /\ v6 = {} /\ v7 = {} /\ v8 = {}
  BY DEF S!Init
<1>2. S!TypeOK
  <2>1. v1 \in 1..SweepNights
    BY <1>1, SweepAssumption
  <2>2. v4 \in Seq(S!Result)
    BY <1>1
  <2> QED BY <1>1, <2>1, <2>2 DEF S!TypeOK
<1>3. S!Tonight = {} /\ S!Buffered = {} /\ DOMAIN v4 = {}
  BY <1>1 DEF S!Tonight, S!Buffered
<1>4. S!OncePerNight /\ S!NothingMissing
  BY <1>1, <1>3 DEF S!OncePerNight, S!NothingMissing
<1>5. /\ S!ChecksHaveRows /\ S!ListingsFollow /\ S!NoiseHasMark /\ S!CoreHasRows
      /\ S!SilenceIsNotClean /\ S!NoiseIsNoted /\ S!CoreFollowsTheSweep
  BY <1>1 DEF S!ChecksHaveRows, S!ListingsFollow, S!NoiseHasMark, S!CoreHasRows,
     S!SilenceIsNotClean, S!NoiseIsNoted, S!CoreFollowsTheSweep
<1> QED BY <1>2, <1>4, <1>5 DEF S!SweepInv

\* The sweep is killed, or a night begins: the tables stay.
LEMMA SweepTurns ==
  ASSUME S!SweepInv, S!Dies \/ S!NextNight \/ UNCHANGED S!vars
  PROVE  S!SweepInv'
<1>1. /\ S!TypeOK /\ v1 \in Nat /\ 0 \notin v8
      /\ \A r \in v5 : r.run \in Nat /\ r.run <= v1 /\ r.run # 0
      /\ \A c \in v6 : c.run \in Nat /\ c.run <= v1
      /\ \A run \in v8 : run \in Nat /\ run <= v1
  BY SweepTypes
<1>2. UNCHANGED <<v5, v6, v7, v8>> /\ (UNCHANGED v4 \/ v4' = <<>>) /\ v1' \in {v1, v1 + 1}
  BY DEF S!Dies, S!NextNight, S!vars
<1>3. S!ChecksHaveRows' /\ S!NoiseHasMark' /\ S!CoreHasRows' /\ S!SilenceIsNotClean' /\ S!NoiseIsNoted'
  BY <1>2 DEF S!SweepInv, S!ChecksHaveRows, S!NoiseHasMark, S!CoreHasRows, S!SilenceIsNotClean, S!NoiseIsNoted
<1>4. CASE S!Dies
  <2>1. v2 = "sweep" /\ v2' = "over" /\ v4' = <<>> /\ UNCHANGED <<v1, v3>>
    BY <1>4 DEF S!Dies
  <2>2. v1 \notin v8 /\ S!Tonight \subseteq Domain \ v3
    BY <2>1 DEF S!SweepInv, S!NothingMissing
  <2>3. S!Tonight' = S!Tonight /\ S!Buffered' = {} /\ DOMAIN v4' = {}
    BY <1>2, <2>1 DEF S!Tonight, S!Buffered
  <2>4. S!TypeOK'
    <3>1. v4' \in Seq(S!Result)
      BY <2>1
    <3> QED BY <1>1, <1>2, <2>1, <3>1 DEF S!TypeOK
  <2>5. S!OncePerNight'
    <3>1. \A q, p \in v5 : q.domain = p.domain /\ q.run = p.run => q = p
      BY DEF S!SweepInv, S!OncePerNight
    <3> QED BY <1>2, <2>1, <2>2, <2>3, <3>1 DEF S!OncePerNight
  <2>6. S!NothingMissing'
    BY <1>2, <2>1, <2>2 DEF S!NothingMissing
  <2>7. S!ListingsFollow' /\ S!CoreFollowsTheSweep'
    BY <1>2, <2>1, <2>2 DEF S!SweepInv, S!ListingsFollow, S!CoreFollowsTheSweep
  <2> QED BY <1>3, <2>4, <2>5, <2>6, <2>7 DEF S!SweepInv
<1>5. CASE S!NextNight
  <2>1. v1' = v1 + 1 /\ v1 < SweepNights /\ v2' = "sweep" /\ v3' = Domain /\ v4' = <<>>
    BY <1>5 DEF S!NextNight
  <2>2. v1' \notin v8 /\ \A r \in v5 : r.run # v1'
    BY <1>1, <2>1
  <2>3. S!Tonight' = {} /\ S!Buffered' = {} /\ DOMAIN v4' = {}
    BY <1>2, <2>1, <2>2 DEF S!Tonight, S!Buffered
  <2>4. S!TypeOK'
    <3>1. v4' \in Seq(S!Result)
      BY <2>1
    <3>2. v1' \in 1..SweepNights /\ 1..v1 \subseteq 1..v1' /\ 0..v1 \subseteq 0..v1'
      BY <1>1, <2>1, SweepAssumption
    <3>3. v8' \subseteq 1..v1'
      BY <1>1, <1>2, <3>2 DEF S!TypeOK
    <3>4. v5' \subseteq [domain : Domain, run : 1..v1', raised : BOOLEAN, noted : SUBSET Noting,
                          signature : SUBSET (Noting \cup Silent), listed : SUBSET Zone]
      <4>1. v5 \subseteq [domain : Domain, run : 1..v1, raised : BOOLEAN, noted : SUBSET Noting,
                           signature : SUBSET (Noting \cup Silent), listed : SUBSET Zone]
        BY <1>1 DEF S!TypeOK
      <4> QED BY <1>2, <3>2, <4>1
    <3>5. v6' \subseteq [domain : Domain, run : 1..v1', zone : Zone, status : {"listed", "error", "clean"}]
      <4>1. v6 \subseteq [domain : Domain, run : 1..v1, zone : Zone, status : {"listed", "error", "clean"}]
        BY <1>1 DEF S!TypeOK
      <4> QED BY <1>2, <3>2, <4>1
    <3>6. v7' \subseteq [domain : Domain \cup Bought, run : 0..v1', listed : SUBSET Zone]
      <4>1. v7 \subseteq [domain : Domain \cup Bought, run : 0..v1, listed : SUBSET Zone]
        BY <1>1 DEF S!TypeOK
      <4> QED BY <1>2, <3>2, <4>1
    <3> QED BY <2>1, <3>1, <3>2, <3>3, <3>4, <3>5, <3>6 DEF S!TypeOK
  <2>5. S!OncePerNight'
    <3>1. \A q, p \in v5 : q.domain = p.domain /\ q.run = p.run => q = p
      BY DEF S!SweepInv, S!OncePerNight
    <3> QED BY <1>2, <2>3, <3>1 DEF S!OncePerNight
  <2>6. S!NothingMissing'
    BY <1>2, <2>1, <2>2, <2>3 DEF S!NothingMissing
  <2>7. S!ListingsFollow' /\ S!CoreFollowsTheSweep'
    BY <1>2, <2>1, <2>2 DEF S!SweepInv, S!ListingsFollow, S!CoreFollowsTheSweep
  <2> QED BY <1>3, <2>4, <2>5, <2>6, <2>7 DEF S!SweepInv
<1>6. CASE UNCHANGED S!vars
  <2>1. UNCHANGED <<v1, v2, v3, v4, v5, v6, v7, v8>>
    BY <1>6 DEF S!vars
  <2>2. S!Tonight' = S!Tonight /\ S!Buffered' = S!Buffered
    BY <2>1 DEF S!Tonight, S!Buffered
  <2>3. S!TypeOK'
    BY <1>1, <2>1 DEF S!TypeOK
  <2>4. S!OncePerNight' /\ S!NothingMissing'
    BY <2>1, <2>2 DEF S!SweepInv, S!OncePerNight, S!NothingMissing
  <2>5. S!ListingsFollow' /\ S!CoreFollowsTheSweep'
    BY <2>1 DEF S!SweepInv, S!ListingsFollow, S!CoreFollowsTheSweep
  <2> QED BY <1>3, <2>3, <2>4, <2>5 DEF S!SweepInv
<1> QED BY <1>4, <1>5, <1>6

\* core.domain is built from the newest rows.
LEMMA SweepBuilds ==
  ASSUME S!SweepInv, S!Build
  PROVE  S!SweepInv'
<1>1. /\ S!TypeOK /\ v1 \in Nat /\ 0 \notin v8
      /\ \A r \in v5 : r.run \in Nat /\ r.run <= v1 /\ r.run # 0
      /\ \A c \in v6 : c.run \in Nat /\ c.run <= v1
      /\ \A run \in v8 : run \in Nat /\ run <= v1
  BY SweepTypes
<1>2. /\ v2 = "build" /\ v2' = "over" /\ UNCHANGED <<v1, v3, v4, v5, v6, v8>>
      /\ v7' = IF v5 = {} THEN v7 ELSE S!Built(S!Newest)
  BY DEF S!Build
<1> DEFINE new == S!Newest
           swept == {r \in v5 : r.run = new}
<1>3. S!Built(new) = {[domain |-> r.domain, run |-> new, listed |-> r.listed] : r \in swept}
                       \cup {[domain |-> b, run |-> 0, listed |-> {}] : b \in Bought \ {r.domain : r \in swept}}
  BY DEF S!Built
<1> HIDE DEF new
<1>4. S!CoreHasRows'
  <2> SUFFICES ASSUME NEW e \in v7', e.run # 0
               PROVE  \E r \in v5 : r.domain = e.domain /\ r.run = e.run /\ r.listed = e.listed
    BY <1>2 DEF S!CoreHasRows
  <2>1. CASE v5 = {}
    BY <1>2, <2>1 DEF S!SweepInv, S!CoreHasRows
  <2>2. CASE v5 # {}
    <3>1. e \in S!Built(new)
      BY <1>2, <2>2 DEF new
    <3>2. CASE e \in {[domain |-> b, run |-> 0, listed |-> {}] : b \in Bought \ {r.domain : r \in swept}}
      BY <3>2
    <3>3. CASE e \in {[domain |-> r.domain, run |-> new, listed |-> r.listed] : r \in swept}
      <4>1. PICK r \in swept : e = [domain |-> r.domain, run |-> new, listed |-> r.listed]
        BY <3>3
      <4> QED BY <4>1
    <3> QED BY <1>3, <3>1, <3>2, <3>3
  <2> QED BY <2>1, <2>2
<1>5. S!TypeOK'
  <2>1. v7' \subseteq [domain : Domain \cup Bought, run : 0..v1, listed : SUBSET Zone]
    <3>1. CASE v5 = {}
      BY <1>1, <1>2, <3>1 DEF S!TypeOK
    <3>2. CASE v5 # {}
      <4> SUFFICES ASSUME NEW e \in S!Built(new)
                   PROVE  e \in [domain : Domain \cup Bought, run : 0..v1, listed : SUBSET Zone]
        BY <1>2, <3>2 DEF new
      <4>1. CASE e \in {[domain |-> b, run |-> 0, listed |-> {}] : b \in Bought \ {r.domain : r \in swept}}
        BY <1>1, <4>1
      <4>2. CASE e \in {[domain |-> r.domain, run |-> new, listed |-> r.listed] : r \in swept}
        <5>1. PICK r \in v5 : r.run = new /\ e = [domain |-> r.domain, run |-> new, listed |-> r.listed]
          BY <4>2
        <5>2. r.domain \in Domain /\ r.listed \subseteq Zone /\ new \in 0..v1
          BY <1>1, <5>1 DEF S!TypeOK
        <5> QED BY <5>1, <5>2
      <4> QED BY <1>3, <4>1, <4>2
    <3> QED BY <3>1, <3>2
  <2> QED BY <1>1, <1>2, <2>1 DEF S!TypeOK
<1>6. S!Tonight' = S!Tonight /\ S!Buffered' = S!Buffered
  BY <1>2 DEF S!Tonight, S!Buffered
<1>7. S!OncePerNight' /\ S!NothingMissing'
  BY <1>2, <1>6 DEF S!SweepInv, S!OncePerNight, S!NothingMissing
<1>8. S!ChecksHaveRows' /\ S!NoiseHasMark' /\ S!SilenceIsNotClean' /\ S!NoiseIsNoted' /\ S!ListingsFollow'
  BY <1>2 DEF S!SweepInv, S!ChecksHaveRows, S!NoiseHasMark, S!SilenceIsNotClean, S!NoiseIsNoted, S!ListingsFollow
<1>9. ASSUME NEW e \in v7', e.run \in v8
      PROVE  e.listed = {c.zone : c \in {k \in v6 : k.domain = e.domain /\ k.run = e.run /\ k.status = "listed"}}
  <2>1. PICK r \in v5 : r.domain = e.domain /\ r.run = e.run /\ r.listed = e.listed
    BY <1>1, <1>2, <1>4, <1>9 DEF S!CoreHasRows
  <2>2. r.listed = {c.zone : c \in {k \in v6 : k.domain = r.domain /\ k.run = r.run /\ k.status = "listed"}}
    BY <1>9, <2>1 DEF S!SweepInv, S!ListingsFollow
  <2> QED BY <2>1, <2>2
<1>10. ASSUME v1 \in v8
       PROVE  {[domain |-> e.domain, run |-> e.run] : e \in v7'}
                = {[domain |-> t, run |-> v1] : t \in Domain} \cup {[domain |-> t, run |-> 0] : t \in Bought \ Domain}
  <2>1. S!Tonight = Domain /\ Domain # {}
    BY <1>10 DEF S!SweepInv, S!NothingMissing
  <2>2. S!Tonight = {r.domain : r \in {s \in v5 : s.run = v1}}
    BY DEF S!Tonight
  <2>3. PICK first \in v5 : first.run = v1
    BY <2>1, <2>2
  <2>4. new = v1
    <3>1. v1 \in {r.run : r \in v5} /\ \A r \in v5 : r.run <= v1
      BY <1>1, <2>3
    <3>2. new \in {r.run : r \in v5} /\ \A r \in v5 : r.run <= new
      BY <3>1 DEF new, S!Newest
    <3>3. v1 <= new /\ new <= v1 /\ new \in Nat
      BY <1>1, <2>3, <3>2
    <3> QED BY <1>1, <3>3
  <2>5. {r.domain : r \in swept} = Domain
    BY <2>1, <2>2, <2>4
  <2>6. v7' = {[domain |-> r.domain, run |-> v1, listed |-> r.listed] : r \in swept}
                \cup {[domain |-> b, run |-> 0, listed |-> {}] : b \in Bought \ Domain}
    <3>1. v7' = S!Built(new)
      BY <1>2, <2>3 DEF new
    <3> QED BY <1>3, <2>4, <2>5, <3>1
  <2>7. ASSUME NEW e \in v7'
        PROVE  [domain |-> e.domain, run |-> e.run] \in
                 {[domain |-> t, run |-> v1] : t \in Domain} \cup {[domain |-> t, run |-> 0] : t \in Bought \ Domain}
    BY <2>5, <2>6
  <2>8. ASSUME NEW t \in Domain
        PROVE  [domain |-> t, run |-> v1] \in {[domain |-> e.domain, run |-> e.run] : e \in v7'}
    <3>1. PICK r \in swept : r.domain = t
      BY <2>5
    <3>2. [domain |-> r.domain, run |-> v1, listed |-> r.listed] \in v7'
      BY <2>6
    <3>3. PICK e \in v7' : e.domain = t /\ e.run = v1
      BY <3>1, <3>2
    <3> QED BY <3>3
  <2>9. ASSUME NEW t \in Bought \ Domain
        PROVE  [domain |-> t, run |-> 0] \in {[domain |-> e.domain, run |-> e.run] : e \in v7'}
    <3>1. [domain |-> t, run |-> 0, listed |-> {}] \in v7'
      BY <2>6
    <3>2. PICK e \in v7' : e.domain = t /\ e.run = 0
      BY <3>1
    <3> QED BY <3>2
  <2> QED BY <2>7, <2>8, <2>9
<1>11. S!CoreFollowsTheSweep'
  BY <1>2, <1>9, <1>10 DEF S!CoreFollowsTheSweep
<1> QED BY <1>4, <1>5, <1>7, <1>8, <1>11 DEF S!SweepInv

LEMMA SweepStep == S!SweepInv /\ [S!Next]_(S!vars) => S!SweepInv'
BY SweepResult, SweepTurns, SweepBuilds DEF S!Next

-----------------------------------------------------------------------------
(* The moderator's reviews: V.                                             *)

\* The greatest of two numbers, and of any numbers that have a bound.
LEMMA ReviewMaxOfTwo ==
  ASSUME NEW a \in Nat, NEW b \in Nat
  PROVE  V!Max({a, b}) \in {a, b} /\ a <= V!Max({a, b}) /\ b <= V!Max({a, b})
<1>1. \E x \in {a, b} : \A y \in {a, b} : x >= y
  OBVIOUS
<1>2. V!Max({a, b}) \in {a, b} /\ \A y \in {a, b} : V!Max({a, b}) >= y
  BY <1>1, Zenon DEF V!Max
<1> QED BY <1>2

LEMMA ReviewMax ==
  ASSUME NEW Few \in SUBSET V!Number, Few # {}
  PROVE  V!Max(Few) \in Few /\ \A y \in Few : V!Max(Few) >= y
<1> DEFINE Below == {ss \in Nat \X Nat : ss[1] < ss[2]}
           Gaps == {MaxNumber - x : x \in Few}
<1>1. IsWellFoundedOn(Below, Nat)
  BY NatLessThanWellFounded DEF OpToRel
<1>2. MaxNumber \in Nat /\ \A x \in Few : x \in Nat /\ MaxNumber - x \in Nat
  BY ReviewAssumption DEF V!Number
<1>3. Gaps \subseteq Nat /\ Gaps # {}
  BY <1>2
<1>4. \A x \in Nat, y \in Nat : y < x => <<y, x>> \in Below
  OBVIOUS
<1> HIDE DEF Below
<1>5. PICK g \in Gaps : \A h \in Gaps : ~(<<h, g>> \in Below)
  BY <1>1, <1>3, WFMin
<1>6. PICK x \in Few : g = MaxNumber - x
  OBVIOUS
<1>7. ASSUME NEW y \in Few PROVE x >= y
  <2>1. MaxNumber - y \in Gaps
    OBVIOUS
  <2>2. ~(MaxNumber - y < MaxNumber - x)
    BY <1>2, <1>4, <1>5, <1>6, <2>1
  <2> QED BY <1>2, <2>2
<1>8. \E z \in Few : \A y \in Few : z >= y
  BY <1>7
<1> QED BY <1>8, Zenon DEF V!Max

\* What a caller is about, step by step.
LEMMA ReviewRequests ==
  ASSUME NEW r \in V!Request
  PROVE  /\ r.step = "version" => r \in [step : {"version"}, ddl : Ddl, keep : BOOLEAN]
         /\ r.step = "rules" => r \in [step : {"rules"}, ddl : Ddl, keep : BOOLEAN, version : V!Version]
         /\ r.step = "catalog" =>
              r \in [step : {"catalog"}, ddl : Ddl, keep : BOOLEAN, version : V!Version, codes : SUBSET Code]
         /\ r.step \in {"deep", "record"} => r \in V!Review({"deep", "record"})
         /\ r.step = "publish" => r \in [step : {"publish"}, id : Nat \ {0}]
         /\ r.step = "status" =>
              r \in [step : {"status"}, id : Nat \ {0}, status : {"promoted", "rejected", "snoozed"}, change : V!RuleChange]
         /\ r.step = "max" => r \in [step : {"max"}, main : V!Number]
         /\ r.step = "reserve" =>
              r \in [step : {"reserve"}, base : V!Number, known : V!Number, seen : V!Number]
BY DEF V!Request, V!Review

\* A caller goes on, the others stay.
LEMMA ReviewGoes ==
  ASSUME V!TypeOK, NEW c \in Caller, NEW r \in V!Request, V!Goes(c, r)
  PROVE  /\ v11' \in [Caller -> V!Request] /\ v11'[c] = r
         /\ \A d \in Caller : d # c => v11'[d] = v11[d]
BY DEF V!TypeOK, V!Goes

LEMMA ReviewIdle == V!Idle \in V!Request /\ V!Idle.step = "idle"
BY DEF V!Idle, V!Request

\* What is published is only added to, and so are the proposals and what is
\* known of main.
Kept ==
  /\ \A v \in DOMAIN v1 : v \in DOMAIN v1' /\ v1'[v] = v1[v]
  /\ v2 \subseteq v2' /\ DOMAIN v3 \subseteq DOMAIN v3'
  /\ v8 <= v8'

LEMMA ReviewKept == V!TypeOK /\ UNCHANGED <<v1, v2, v3, v8>> => Kept
<1> SUFFICES ASSUME V!TypeOK, UNCHANGED <<v1, v2, v3, v8>> PROVE Kept
  OBVIOUS
<1>1. v8 \in Nat
  BY ReviewAssumption DEF V!TypeOK, V!Number
<1> QED BY <1>1 DEF Kept

\* What a change does is in force after the step.
InForceThen(change) ==
  /\ \E v \in DOMAIN v1' : change.add \subseteq v1'[v] /\ change.disable \cap v1'[v] = {}
  /\ change.alias \subseteq v2'

LEMMA ReviewForce ==
  ASSUME Kept, NEW change, V!InForce(change)
  PROVE  InForceThen(change)
BY DEF Kept, V!InForce, InForceThen

LEMMA ReviewPasses ==
  ASSUME Kept, NEW r, V!Passes(r)
  PROVE  V!Passes(r)'
BY DEF Kept, V!Passes, V!Findings, V!IndexBlocks

\* A caller that waits has still read what it has read.
LEMMA ReviewWaits ==
  ASSUME V!ReviewInv, Kept, NEW d \in Caller, v11'[d] = v11[d], v8' \in V!Number
  PROVE  V!Judged(d)' /\ V!Backed(d)' /\ V!Grows(d)'
<1>1. V!Judged(d) /\ V!Backed(d) /\ V!Grows(d) /\ V!TypeOK /\ v11[d] \in V!Request
  BY DEF V!ReviewInv, V!RequestsAreSound, V!TypeOK
<1> DEFINE r == v11[d]
<1>2. /\ V!Judged(d) <=> /\ r.step = "rules" => r.version \in DOMAIN v1
                         /\ r.step = "catalog" => r.version \in DOMAIN v1 /\ r.codes = v1[r.version]
                         /\ r.step = "deep" => V!Passes(r)
                         /\ r.step = "record" /\ r.verdict # "block" => V!Passes(r) /\ (FailClosed => r.judged)
  BY Zenon DEF V!Judged, V!At
<1>3. V!Judged(d)' <=> /\ r.step = "rules" => r.version \in DOMAIN v1'
                       /\ r.step = "catalog" => r.version \in DOMAIN v1' /\ r.codes = v1'[r.version]
                       /\ r.step = "deep" => V!Passes(r)'
                       /\ r.step = "record" /\ r.verdict # "block" => V!Passes(r)' /\ (FailClosed => r.judged)
  BY Zenon DEF V!Judged, V!At, V!Passes
<1>4. V!Judged(d)'
  <2>1. V!Passes(r) => V!Passes(r)'
    BY ReviewPasses
  <2>2. \A v \in DOMAIN v1 : v \in DOMAIN v1' /\ v1'[v] = v1[v]
    BY DEF Kept
  <2> QED BY <1>1, <1>2, <1>3, <2>1, <2>2, Zenon
<1>5. V!Backed(d)'
  <2>1. /\ r.step \in {"publish", "status"} => r.id \in DOMAIN v3
        /\ r.step = "status" /\ r.status = "promoted" => V!InForce(r.change)
    BY <1>1 DEF V!Backed, V!At
  <2>2. \A change : V!InForce(change) => InForceThen(change)
    BY ReviewForce
  <2>3. /\ r.step \in {"publish", "status"} => r.id \in DOMAIN v3'
        /\ r.step = "status" /\ r.status = "promoted" => InForceThen(r.change)
    BY <2>1, <2>2 DEF Kept
  <2> QED BY <2>3 DEF V!Backed, V!At, V!InForce, InForceThen
<1>6. V!Grows(d)'
  <2>1. v8 <= v8' /\ v8 \in Nat /\ v8' \in Nat
    BY <1>1, ReviewAssumption DEF Kept, V!TypeOK, V!Number
  <2>2. r.step = "max" => r.main \in Nat
    BY <1>1, ReviewRequests, ReviewAssumption DEF V!Number
  <2> QED BY <1>1, <2>1, <2>2 DEF V!Grows, V!At
<1> QED BY <1>4, <1>5, <1>6

LEMMA ReviewSound ==
  ASSUME V!ReviewInv, Kept, v8' \in V!Number, NEW c \in Caller, NEW r \in V!Request, V!Goes(c, r),
         V!Judged(c)' /\ V!Backed(c)' /\ V!Grows(c)'
  PROVE  V!RequestsAreSound'
<1>1. \A d \in Caller : d # c => v11'[d] = v11[d]
  BY ReviewGoes DEF V!ReviewInv
<1>2. \A d \in Caller : d # c => V!Judged(d)' /\ V!Backed(d)' /\ V!Grows(d)'
  BY <1>1, ReviewWaits
<1> QED BY <1>2 DEF V!RequestsAreSound

\* Rules are added, and no row is.
LEMMA ReviewRows ==
  ASSUME V!ReviewInv, Kept, v5' = v5
  PROVE  V!RowsReproducible' /\ \A row \in v5' : row.ddl \in Ddl /\ row.version \in DOMAIN v1'
<1>1. \A row \in v5 : row.ddl \in Ddl /\ row.version \in DOMAIN v1 /\ v1'[row.version] = v1[row.version]
                      /\ row.version \in DOMAIN v1'
  BY DEF V!ReviewInv, V!TypeOK, Kept
<1> QED BY <1>1 DEF V!ReviewInv, V!RowsReproducible, V!Findings, V!IndexBlocks

\* One caller goes on and nothing else moves.
LEMMA ReviewMoves ==
  ASSUME V!ReviewInv, NEW c \in Caller, NEW r \in V!Request, V!Goes(c, r),
         V!Judged(c)' /\ V!Backed(c)' /\ V!Grows(c)',
         UNCHANGED <<v1, v2, v3, v4, v5, v6, v7, v8, v9, v10, v13>>, v12' \in 0..MaxRequests
  PROVE  V!ReviewInv'
<1>1. V!TypeOK
  BY DEF V!ReviewInv
<1>2. Kept
  BY <1>1, ReviewKept
<1>3. V!RequestsAreSound'
  <2>1. v8' \in V!Number
    BY <1>1 DEF V!TypeOK
  <2> QED BY <1>2, <2>1, ReviewSound
<1>4. V!TypeOK'
  BY <1>1, ReviewGoes DEF V!TypeOK
<1>5. V!RowsReproducible'
  BY <1>2, ReviewRows
<1>6. V!PromotedIsPublished' /\ V!NumbersDistinct' /\ v8' <= v7'
  BY DEF V!ReviewInv, V!PromotedIsPublished, V!NumbersDistinct, V!InForce
<1> QED BY <1>3, <1>4, <1>5, <1>6 DEF V!ReviewInv

\* Nobody goes on.
LEMMA ReviewStays ==
  ASSUME V!ReviewInv, Kept, v8' \in V!Number, v11' = v11
  PROVE  V!RequestsAreSound'
BY ReviewWaits DEF V!RequestsAreSound

\* A proposal.
Proposal == [pattern : Nat, code : Code, draft : V!Draft, made : V!RuleChange,
             status : {"pending", "snoozed", "rejected", "promoted"}]

LEMMA ReviewInit == V!Init => V!ReviewInv
<1> SUFFICES ASSUME V!Init PROVE V!ReviewInv
  OBVIOUS
<1>1. /\ v1 = <<Seeded>> /\ v2 = {} /\ v3 = <<>> /\ v4 = [r \in Code |-> 0]
      /\ v5 = {} /\ v6 = {} /\ v7 = 1 /\ v8 = 1 /\ v9 = 1 /\ v10 = FALSE /\ v13 = 1
      /\ v11 = [c \in Caller |-> V!Idle] /\ v12 = 0
  BY DEF V!Init
<1>2. \A c \in Caller : v11[c].step = "idle"
  BY <1>1, ReviewIdle
<1>3. V!TypeOK
  <2>1. v1 \in Seq(SUBSET Code) /\ Len(v1) = 1 /\ v3 \in Seq(Proposal) /\ Len(v3) = 0
    BY <1>1, ReviewAssumption
  <2>2. 1 \in V!Version /\ 1 \in V!Number /\ 0 \in 0..MaxRequests /\ 0 \in 0..(MinCount + 1)
    BY ReviewAssumption DEF V!Version, V!Number
  <2>3. v11 \in [Caller -> V!Request] /\ v4 \in [Code -> 0..(MinCount + 1)]
    <3>1. V!Idle \in V!Request
      BY ReviewIdle
    <3>2. v11 \in [Caller -> V!Request]
      BY <1>1, <3>1, Zenon
    <3>3. v4 \in [Code -> 0..(MinCount + 1)]
      BY <1>1, <2>2
    <3> QED BY <3>2, <3>3
  <2>4. v2 \subseteq Renamed /\ v10 \in BOOLEAN /\ {v7, v8, v9, v13} \subseteq V!Number /\ v12 \in 0..MaxRequests
    BY <1>1, <2>2, Zenon
  <2>5. Len(v1) \in V!Version /\ Len(v3) <= MaxProposals
    BY <2>1, <2>2, ReviewAssumption
  <2> QED BY <1>1, <2>1, <2>3, <2>4, <2>5 DEF V!TypeOK, Proposal
<1>4. V!RequestsAreSound
  BY <1>2 DEF V!RequestsAreSound, V!Judged, V!Backed, V!Grows, V!At
<1>5. V!RowsReproducible /\ V!PromotedIsPublished /\ V!NumbersDistinct /\ v8 <= v7
  BY <1>1 DEF V!RowsReproducible, V!PromotedIsPublished, V!NumbersDistinct
<1> QED BY <1>3, <1>4, <1>5 DEF V!ReviewInv

\* What can be published never adds a rule and disables it too.
LEMMA ReviewChanges ==
  /\ V!Nothing \in V!RuleChange /\ V!Draft \subseteq V!RuleChange
  /\ \A r \in Code : V!Enables(r) \in V!RuleChange /\ V!Disables(r) \in V!RuleChange /\ V!Edits(r) \subseteq V!RuleChange
  /\ \A d \in Renamed : V!Declares(d) \in V!RuleChange
  /\ \A r \in Code : \A change \in V!Edits(r) : change.add \cap change.disable = {}
BY DEF V!Nothing, V!Draft, V!RuleChange, V!Enables, V!Disables, V!Declares, V!Edits

\* A review or a number is asked for, a decision made.
LEMMA ReviewAsks ==
  ASSUME V!ReviewInv, NEW c \in Caller, V!AsksReview(c) \/ V!AsksDecision(c) \/ V!AsksNumber(c)
  PROVE  V!ReviewInv'
<1>1. V!TypeOK
  BY DEF V!ReviewInv
<1>2. PICK r \in V!Request : V!Asks(c, r) /\ r.step \in {"version", "publish", "status", "fetch"}
                             /\ (r.step \in {"publish", "status"} => r.id \in DOMAIN v3)
                             /\ (r.step = "status" => r.status # "promoted")
  <2>1. CASE V!AsksReview(c)
    <3>1. PICK d \in Ddl, keep \in BOOLEAN : V!Asks(c, [step |-> "version", ddl |-> d, keep |-> keep])
      BY <2>1, Zenon DEF V!AsksReview
    <3>2. [step |-> "version", ddl |-> d, keep |-> keep] \in V!Request
      BY DEF V!Request
    <3> QED BY <3>1, <3>2
  <2>2. CASE V!AsksDecision(c)
    <3>1. PICK p \in DOMAIN v3, decision \in {"promoted", "rejected", "snoozed"} :
            V!Asks(c, IF decision = "promoted" THEN [step |-> "publish", id |-> p]
                      ELSE [step |-> "status", id |-> p, status |-> decision, change |-> V!Nothing])
      BY <2>2, Zenon DEF V!AsksDecision
    <3>2. p \in Nat \ {0}
      BY <1>1, LenProperties DEF V!TypeOK
    <3>3. CASE decision = "promoted"
      <4>1. V!Asks(c, [step |-> "publish", id |-> p])
        BY <3>1, <3>3, Zenon
      <4>2. [step |-> "publish", id |-> p] \in V!Request
        BY <3>2 DEF V!Request
      <4> QED BY <4>1, <4>2
    <3>4. CASE decision # "promoted"
      <4>1. V!Asks(c, [step |-> "status", id |-> p, status |-> decision, change |-> V!Nothing])
        BY <3>1, <3>4, Zenon
      <4>2. V!Nothing \in V!RuleChange
        BY ReviewChanges
      <4>3. [step |-> "status", id |-> p, status |-> decision, change |-> V!Nothing] \in V!Request
        BY <3>2, <4>2 DEF V!Request
      <4> QED BY <3>4, <4>1, <4>3
    <3> QED BY <3>3, <3>4
  <2>3. CASE V!AsksNumber(c)
    <3>1. V!Asks(c, [step |-> "fetch"])
      BY <2>3, Zenon DEF V!AsksNumber
    <3>2. [step |-> "fetch"] \in V!Request
      BY DEF V!Request
    <3> QED BY <3>1, <3>2
  <2> QED BY <2>1, <2>2, <2>3
<1>3. UNCHANGED <<v1, v2, v3, v4, v5, v6, v7, v8, v9, v10, v13>> /\ V!Goes(c, r) /\ v12' \in 0..MaxRequests
  <2>1. v12 < MaxRequests /\ v12' = v12 + 1 /\ v12 \in 0..MaxRequests
    BY <1>1, <1>2 DEF V!Asks, V!TypeOK
  <2> QED BY <1>2, <2>1, ReviewAssumption DEF V!Asks, V!Goes
<1>4. v11'[c] = r
  BY <1>1, <1>3, ReviewGoes
<1>5. V!Judged(c)' /\ V!Backed(c)' /\ V!Grows(c)'
  BY <1>2, <1>3, <1>4 DEF V!Judged, V!Backed, V!Grows, V!At
<1> QED BY <1>3, <1>5, ReviewMoves

\* What a review reads: the newest version, then its rules.
LEMMA ReviewReads ==
  ASSUME V!ReviewInv, NEW c \in Caller, V!ReadVersion(c) \/ V!ReadRules(c)
  PROVE  V!ReviewInv'
<1>1. V!TypeOK /\ v11[c] \in V!Request
  BY DEF V!ReviewInv, V!TypeOK
<1>2. UNCHANGED <<v1, v2, v3, v4, v5, v6, v7, v8, v9, v10, v13>> /\ v12' \in 0..MaxRequests
  BY <1>1 DEF V!ReadVersion, V!ReadRules, V!TypeOK
<1>3. Len(v1) \in DOMAIN v1 /\ DOMAIN v1 = 1..Len(v1) /\ Len(v1) \in V!Version
      /\ \A v \in DOMAIN v1 : v1[v] \in SUBSET Code
  BY <1>1, LenProperties, ElementOfSeq DEF V!TypeOK, V!Version
<1>4. CASE V!ReadVersion(c)
  <2> DEFINE r == [step |-> "rules", ddl |-> v11[c].ddl, keep |-> v11[c].keep, version |-> Len(v1)]
  <2>1. v11[c].step = "version" /\ V!Goes(c, r)
    BY <1>4, Zenon DEF V!ReadVersion, V!At
  <2>2. v11[c].ddl \in Ddl /\ v11[c].keep \in BOOLEAN
    BY <1>1, <2>1, ReviewRequests
  <2>3. r \in V!Request /\ r.step = "rules" /\ r.version = Len(v1)
    BY <1>3, <2>2 DEF V!Request
  <2> HIDE DEF r
  <2>4. v11'[c] = r
    BY <1>1, <2>1, <2>3, ReviewGoes
  <2>5. V!Judged(c)' /\ V!Backed(c)' /\ V!Grows(c)'
    BY <1>2, <1>3, <2>3, <2>4 DEF V!Judged, V!Backed, V!Grows, V!At
  <2> QED BY <1>2, <2>1, <2>3, <2>5, ReviewMoves
<1>5. CASE V!ReadRules(c)
  <2> DEFINE r == [step |-> "catalog", ddl |-> v11[c].ddl, keep |-> v11[c].keep, version |-> v11[c].version,
                   codes |-> v1[v11[c].version]]
  <2>1. v11[c].step = "rules" /\ V!Goes(c, r)
    BY <1>5, Zenon DEF V!ReadRules, V!At, V!RulesOf
  <2>2. v11[c].ddl \in Ddl /\ v11[c].keep \in BOOLEAN /\ v11[c].version \in V!Version
    BY <1>1, <2>1, ReviewRequests
  <2>3. v11[c].version \in DOMAIN v1
    BY <2>1 DEF V!ReviewInv, V!RequestsAreSound, V!Judged, V!At
  <2>4. v1[v11[c].version] \in SUBSET Code
    BY <1>3, <2>3
  <2>5. r \in V!Request /\ r.step = "catalog" /\ r.version = v11[c].version /\ r.codes = v1[v11[c].version]
    BY <2>2, <2>4 DEF V!Request
  <2> HIDE DEF r
  <2>6. v11'[c] = r
    BY <1>1, <2>1, <2>5, ReviewGoes
  <2>7. r.version \in DOMAIN v1' /\ r.codes = v1'[r.version]
    BY <1>2, <2>3, <2>5
  <2>8. V!Judged(c)' /\ V!Backed(c)' /\ V!Grows(c)'
    BY <2>5, <2>6, <2>7 DEF V!Judged, V!Backed, V!Grows, V!At
  <2> QED BY <1>2, <2>1, <2>5, <2>8, ReviewMoves
<1> QED BY <1>4, <1>5

\* What a review has judged.
ReviewOf(s, d, keep, v, found, readable, known, judged, verdict) ==
  [step |-> s, ddl |-> d, keep |-> keep, version |-> v, found |-> found, readable |-> readable,
   known |-> known, judged |-> judged, verdict |-> verdict]

\* A review that has come through the floor.
LEMMA ReviewJudged ==
  ASSUME NEW c \in Caller, NEW r, v11'[c] = r, r.step \in {"deep", "record"},
         r.step = "deep" => V!Passes(r)',
         r.step = "record" /\ r.verdict # "block" => V!Passes(r)' /\ (FailClosed => r.judged)
  PROVE  V!Judged(c)'
<1>1. V!Judged(c)' <=> /\ r.step = "rules" => r.version \in DOMAIN v1'
                       /\ r.step = "catalog" => r.version \in DOMAIN v1' /\ r.codes = v1'[r.version]
                       /\ r.step = "deep" => V!Passes(r)'
                       /\ r.step = "record" /\ r.verdict # "block" => V!Passes(r)' /\ (FailClosed => r.judged)
  BY Zenon DEF V!Judged, V!At, V!Passes
<1>2. r.step # "rules" /\ r.step # "catalog"
  OBVIOUS
<1> QED BY <1>1, <1>2, Zenon

\* The floor: what it lets through breaks no rule of its version.
LEMMA ReviewFloor ==
  ASSUME V!ReviewInv, NEW c \in Caller, V!FloorReview(c)
  PROVE  V!ReviewInv'
<1>1. V!TypeOK /\ v11[c] \in V!Request
  BY DEF V!ReviewInv, V!TypeOK
<1>2. UNCHANGED <<v1, v2, v3, v4, v5, v6, v7, v8, v9, v10, v12, v13>> /\ v11[c].step = "catalog"
  BY Zenon DEF V!FloorReview, V!At
<1> DEFINE Found(x) == V!Findings(v11[c].ddl, v11[c].codes, x)
           Stops(x) == Found(x) # {} \/ v11[c].ddl \in v2 \/ V!IndexBlocks(v11[c].ddl, V!Known(x))
           Step(x) == IF Stops(x) THEN "record" ELSE "deep"
           After(x) == ReviewOf(Step(x), v11[c].ddl, v11[c].keep, v11[c].version, Found(x), x, V!Known(x),
                                FALSE, "block")
<1>3. \E readable \in BOOLEAN : V!Goes(c, After(readable))
  BY Zenon DEF V!FloorReview, ReviewOf
<1>4. \A x : Step(x) \in {"deep", "record"}
             /\ (Step(x) = "deep" => Found(x) = {} /\ ~V!IndexBlocks(v11[c].ddl, V!Known(x)))
  BY Zenon
<1>5. \A x \in BOOLEAN : Found(x) \in SUBSET Code /\ V!Known(x) \in BOOLEAN
  <2>1. v11[c].codes \in SUBSET Code
    BY <1>1, <1>2, ReviewRequests
  <2> QED BY <2>1, Zenon DEF V!Findings, V!Known
<1> HIDE DEF Found, Step
<1>6. PICK readable \in BOOLEAN : V!Goes(c, After(readable))
  BY <1>3, Zenon
<1>7. v11[c].ddl \in Ddl /\ v11[c].keep \in BOOLEAN /\ v11[c].version \in V!Version
  BY <1>1, <1>2, ReviewRequests
<1>8. v11[c].version \in DOMAIN v1 /\ v11[c].codes = v1[v11[c].version]
  BY <1>2 DEF V!ReviewInv, V!RequestsAreSound, V!Judged, V!At
<1>9. PICK r \in V!Request :
        /\ r = After(readable) /\ r.step = Step(readable) /\ r.ddl = v11[c].ddl /\ r.version = v11[c].version
        /\ r.readable = readable /\ r.known = V!Known(readable) /\ r.verdict = "block"
  <2>1. PICK s \in {"deep", "record"} : s = Step(readable)
    BY <1>4, Zenon
  <2>2. PICK found \in SUBSET Code, known \in BOOLEAN : found = Found(readable) /\ known = V!Known(readable)
    BY <1>5, Zenon
  <2>3. PICK d \in Ddl, keep \in BOOLEAN, v \in V!Version :
          d = v11[c].ddl /\ keep = v11[c].keep /\ v = v11[c].version
    BY <1>7, Zenon
  <2>4. PICK r \in V!Request :
          /\ r = ReviewOf(s, d, keep, v, found, readable, known, FALSE, "block") /\ r.step = s /\ r.ddl = d
          /\ r.version = v /\ r.readable = readable /\ r.known = known /\ r.verdict = "block"
    <3> DEFINE q == ReviewOf(s, d, keep, v, found, readable, known, FALSE, "block")
    <3>1. q \in V!Review({"deep", "record"})
      BY DEF V!Review, ReviewOf
    <3>2. q \in V!Request
      BY <3>1, Zenon DEF V!Request
    <3>3. /\ q.step = s /\ q.ddl = d
          /\ q.version = v /\ q.readable = readable /\ q.known = known /\ q.verdict = "block"
      BY Zenon DEF ReviewOf
    <3> QED BY <3>2, <3>3, Zenon
  <2>5. After(readable) = ReviewOf(s, d, keep, v, found, readable, known, FALSE, "block")
    BY <2>1, <2>2, <2>3, Zenon
  <2> QED BY <2>1, <2>2, <2>3, <2>4, <2>5, Zenon
<1> HIDE DEF After
<1>10. V!Goes(c, r)
  BY <1>6, <1>9, Zenon
<1>11. v11'[c] = r
  BY <1>1, <1>10, ReviewGoes
<1>12. r.step = "deep" => V!Passes(r)
  <2> SUFFICES ASSUME r.step = "deep" PROVE V!Passes(r)
    OBVIOUS
  <2>1. Found(readable) = {} /\ ~V!IndexBlocks(v11[c].ddl, V!Known(readable))
    BY <1>4, <1>9, Zenon
  <2>2. V!Findings(r.ddl, v1[r.version], r.readable) = {}
    BY <1>8, <1>9, <2>1, Zenon DEF Found
  <2>3. ~V!IndexBlocks(r.ddl, r.known) /\ r.version \in DOMAIN v1
    BY <1>8, <1>9, <2>1, Zenon
  <2> QED BY <2>2, <2>3, Zenon DEF V!Passes
<1>13. r.step = "deep" => V!Passes(r)'
  <2>1. Kept
    BY <1>1, <1>2, ReviewKept
  <2> QED BY <1>12, <2>1, ReviewPasses
<1>14. r.step \in {"deep", "record"} /\ r.verdict = "block"
  BY <1>4, <1>9, Zenon
<1>15. V!Judged(c)' /\ V!Backed(c)' /\ V!Grows(c)'
  <2>1. V!Judged(c)'
    BY <1>11, <1>13, <1>14, ReviewJudged, Zenon
  <2> QED BY <1>11, <1>14, <2>1 DEF V!Backed, V!Grows, V!At
<1>16. v12' \in 0..MaxRequests
  BY <1>1, <1>2 DEF V!TypeOK
<1> QED BY <1>2, <1>10, <1>15, <1>16, ReviewMoves

\* The model's answer.
LEMMA ReviewDeep ==
  ASSUME V!ReviewInv, NEW c \in Caller, V!DeepReview(c)
  PROVE  V!ReviewInv'
<1>1. V!TypeOK /\ v11[c] \in V!Request
  BY DEF V!ReviewInv, V!TypeOK
<1>2. UNCHANGED <<v1, v2, v3, v4, v5, v6, v7, v8, v9, v10, v12, v13>> /\ v11[c].step = "deep"
  BY Zenon DEF V!DeepReview, V!At
<1>3. PICK q \in V!Review({"deep", "record"}) : q = v11[c]
  BY <1>1, <1>2, ReviewRequests
<1>4. V!Passes(q)
  BY <1>2, <1>3 DEF V!ReviewInv, V!RequestsAreSound, V!Judged, V!At
<1>5. \E verdict \in {"pass", "block"}, judged \in BOOLEAN :
        /\ verdict # "block" /\ FailClosed => judged
        /\ V!Goes(c, [q EXCEPT !.step = "record", !.verdict = verdict, !.judged = judged])
  <2>1. PICK answer \in {"pass", "block", "unavailable"} :
          V!Goes(c, [q EXCEPT !.step = "record", !.verdict = V!Policy(answer), !.judged = answer = "pass"])
    BY <1>3, Zenon DEF V!DeepReview
  <2>2. V!Policy(answer) \in {"pass", "block"} /\ (V!Policy(answer) # "block" /\ FailClosed => answer = "pass")
    BY DEF V!Policy
  <2>3. (answer = "pass") \in BOOLEAN
    OBVIOUS
  <2> QED BY <2>1, <2>2, <2>3, Zenon
<1>6. PICK verdict \in {"pass", "block"}, judged \in BOOLEAN :
        /\ verdict # "block" /\ FailClosed => judged
        /\ V!Goes(c, [q EXCEPT !.step = "record", !.verdict = verdict, !.judged = judged])
  BY <1>5, Zenon
<1>7. PICK r \in V!Request :
        /\ V!Goes(c, r) /\ r.step = "record" /\ r.verdict = verdict /\ r.judged = judged
        /\ r.ddl = q.ddl /\ r.version = q.version /\ r.readable = q.readable /\ r.known = q.known
  <2> DEFINE r == [q EXCEPT !.step = "record", !.verdict = verdict, !.judged = judged]
  <2>1. r \in V!Review({"deep", "record"})
    BY DEF V!Review
  <2>2. r \in V!Request
    BY <2>1, Zenon DEF V!Request
  <2>3. /\ r.step = "record" /\ r.verdict = verdict /\ r.judged = judged
        /\ r.ddl = q.ddl /\ r.version = q.version /\ r.readable = q.readable /\ r.known = q.known
    BY DEF V!Review
  <2> QED BY <1>6, <2>2, <2>3, Zenon
<1>8. V!Passes(r)
  BY <1>4, <1>7, Zenon DEF V!Passes
<1>9. V!Passes(r)'
  <2>1. Kept
    BY <1>1, <1>2, ReviewKept
  <2> QED BY <1>8, <2>1, ReviewPasses
<1>10. v11'[c] = r
  BY <1>1, <1>7, ReviewGoes
<1>11. V!Judged(c)'
  <2>1. r.verdict # "block" /\ FailClosed => r.judged
    BY <1>6, <1>7, Zenon
  <2>2. r.step \in {"deep", "record"} /\ r.step # "deep"
    BY <1>7
  <2> QED BY <1>9, <1>10, <2>1, <2>2, ReviewJudged, Zenon
<1>12. V!Backed(c)' /\ V!Grows(c)'
  BY <1>7, <1>10 DEF V!Backed, V!Grows, V!At
<1>13. v12' \in 0..MaxRequests
  BY <1>1, <1>2 DEF V!TypeOK
<1> QED BY <1>2, <1>7, <1>11, <1>12, <1>13, ReviewMoves

\* A caller that is done.
LEMMA ReviewRests ==
  ASSUME V!TypeOK, NEW c \in Caller, V!Goes(c, V!Idle)
  PROVE  V!Judged(c)' /\ V!Backed(c)' /\ V!Grows(c)'
<1>1. v11'[c].step = "idle"
  BY ReviewGoes, ReviewIdle
<1> QED BY <1>1 DEF V!Judged, V!Backed, V!Grows, V!At

LEMMA ReviewWrites ==
  ASSUME V!ReviewInv, NEW c \in Caller, V!WriteIssues(c)
  PROVE  V!ReviewInv'
<1>1. V!TypeOK
  BY DEF V!ReviewInv
<1>2. UNCHANGED <<v1, v2, v3, v5, v6, v7, v8, v9, v10, v12, v13>> /\ V!Goes(c, V!Idle)
  BY DEF V!WriteIssues
<1>3. v4' \in [Code -> 0..(MinCount + 1)]
  <2>1. PICK written : v4' = [r \in Code |-> IF r \in written /\ v4[r] <= MinCount THEN v4[r] + 1 ELSE v4[r]]
    BY Zenon DEF V!WriteIssues
  <2>2. \A r \in Code : v4[r] \in 0..(MinCount + 1)
    BY <1>1 DEF V!TypeOK
  <2>3. ASSUME NEW r \in Code
        PROVE  (IF r \in written /\ v4[r] <= MinCount THEN v4[r] + 1 ELSE v4[r]) \in 0..(MinCount + 1)
    BY <2>2, ReviewAssumption
  <2> QED BY <2>1, <2>3
<1>4. Kept
  BY <1>1, <1>2, ReviewKept
<1>5. V!RequestsAreSound'
  <2>1. v8' \in V!Number /\ V!Judged(c)' /\ V!Backed(c)' /\ V!Grows(c)'
    BY <1>1, <1>2, ReviewRests DEF V!TypeOK
  <2> QED BY <1>2, <1>4, <2>1, ReviewSound, ReviewIdle
<1>6. v11' \in [Caller -> V!Request]
  BY <1>1, <1>2, ReviewGoes, ReviewIdle
<1>7. V!TypeOK'
  BY <1>1, <1>2, <1>3, <1>6 DEF V!TypeOK
<1>8. V!RowsReproducible'
  BY <1>2, <1>4, ReviewRows
<1>9. V!PromotedIsPublished' /\ V!NumbersDistinct' /\ v8' <= v7'
  BY <1>2 DEF V!ReviewInv, V!PromotedIsPublished, V!NumbersDistinct, V!InForce
<1> QED BY <1>5, <1>7, <1>8, <1>9 DEF V!ReviewInv

\* A row of the ledger passes by its version.
LEMMA ReviewPass ==
  ASSUME V!ReviewInv, NEW c \in Caller, V!RecordPass(c)
  PROVE  V!ReviewInv'
<1>1. V!TypeOK /\ v11[c] \in V!Request
  BY DEF V!ReviewInv, V!TypeOK
<1>2. UNCHANGED <<v1, v2, v3, v4, v6, v7, v8, v9, v10, v12, v13>> /\ V!Goes(c, V!Idle) /\ v11[c].step = "record"
  BY Zenon DEF V!RecordPass, V!At
<1>3. PICK q \in V!Review({"deep", "record"}) : q = v11[c]
  BY <1>1, <1>2, ReviewRequests
<1>4. q.verdict # "block" => V!Passes(q) /\ (FailClosed => q.judged)
  BY <1>2, <1>3, Zenon DEF V!ReviewInv, V!RequestsAreSound, V!Judged, V!At
<1> DEFINE row == [ddl |-> q.ddl, version |-> q.version, readable |-> q.readable, known |-> q.known,
                   judged |-> q.judged]
<1>5. v5' = v5 \/ (q.verdict # "block" /\ v5' = v5 \cup {row})
  BY <1>3, Zenon DEF V!RecordPass
<1>6. q.ddl \in Ddl
  BY DEF V!Review
<1>7. /\ row.ddl = q.ddl /\ row.version = q.version /\ row.readable = q.readable /\ row.known = q.known
      /\ row.judged = q.judged
  BY Zenon
<1> HIDE DEF row
<1>8. q.verdict # "block" =>
        /\ row.ddl \in Ddl /\ row.version \in DOMAIN v1 /\ V!Findings(row.ddl, v1[row.version], row.readable) = {}
        /\ ~V!IndexBlocks(row.ddl, row.known) /\ (FailClosed => row.judged)
  BY <1>4, <1>6, <1>7, Zenon DEF V!Passes
<1>9. ASSUME NEW x \in v5'
      PROVE  /\ x.ddl \in Ddl /\ x.version \in DOMAIN v1 /\ V!Findings(x.ddl, v1[x.version], x.readable) = {}
             /\ ~V!IndexBlocks(x.ddl, x.known) /\ (FailClosed => x.judged)
  <2>1. CASE x \in v5
    BY <1>1, <2>1, Zenon DEF V!ReviewInv, V!RowsReproducible, V!TypeOK
  <2>2. CASE x = row /\ q.verdict # "block"
    BY <1>8, <2>2, Zenon
  <2> QED BY <1>5, <2>1, <2>2, Zenon
<1>10. V!RowsReproducible' /\ \A x \in v5' : x.ddl \in Ddl /\ x.version \in DOMAIN v1'
  BY <1>2, <1>9, Zenon DEF V!RowsReproducible, V!Findings, V!IndexBlocks
<1>11. Kept
  BY <1>1, <1>2, ReviewKept
<1>12. V!RequestsAreSound'
  <2>1. v8' \in V!Number /\ V!Judged(c)' /\ V!Backed(c)' /\ V!Grows(c)'
    BY <1>1, <1>2, ReviewRests DEF V!TypeOK
  <2> QED BY <1>2, <1>11, <2>1, ReviewSound, ReviewIdle
<1>13. v11' \in [Caller -> V!Request]
  BY <1>1, <1>2, ReviewGoes, ReviewIdle
<1>14. V!TypeOK'
  BY <1>1, <1>2, <1>10, <1>13 DEF V!TypeOK
<1>15. V!PromotedIsPublished' /\ V!NumbersDistinct' /\ v8' <= v7'
  BY <1>2 DEF V!ReviewInv, V!PromotedIsPublished, V!NumbersDistinct, V!InForce
<1> QED BY <1>10, <1>12, <1>14, <1>15 DEF V!ReviewInv

\* A version more: those before stay as they are.
LEMMA ReviewPublish ==
  ASSUME V!TypeOK, NEW change \in V!RuleChange, V!Publish(change)
  PROVE  /\ v1' \in Seq(SUBSET Code) /\ Len(v1') \in V!Version /\ v2' \subseteq Renamed /\ v2 \subseteq v2'
         /\ \A v \in DOMAIN v1 : v \in DOMAIN v1' /\ v1'[v] = v1[v]
         /\ change.add \cap change.disable = {} => InForceThen(change)
<1>1. v1 \in Seq(SUBSET Code) /\ Len(v1) \in V!Version /\ v2 \subseteq Renamed /\ Len(v1) < MaxVersions
  BY DEF V!TypeOK, V!Publish
<1> DEFINE new == (v1[Len(v1)] \cup change.add) \ change.disable
<1>2. v1[Len(v1)] \in SUBSET Code
  BY <1>1, ElementOfSeq DEF V!Version
<1>3. new \in SUBSET Code /\ change.alias \in SUBSET Renamed
  BY <1>2 DEF V!RuleChange
<1>4. v1' = Append(v1, new) /\ v2' = v2 \cup change.alias
  BY DEF V!Publish, V!Published
<1>5. change.add \cap change.disable = {} => change.add \subseteq new /\ change.disable \cap new = {}
  OBVIOUS
<1> HIDE DEF new
<1>6. /\ v1' \in Seq(SUBSET Code) /\ Len(v1') = Len(v1) + 1 /\ v1'[Len(v1) + 1] = new
      /\ \A v \in 1..Len(v1) : v1'[v] = v1[v]
  BY <1>1, <1>3, <1>4, AppendProperties
<1>7. DOMAIN v1 = 1..Len(v1) /\ DOMAIN v1' = 1..(Len(v1) + 1) /\ Len(v1) \in Nat
  BY <1>1, <1>6, LenProperties
<1>8. Len(v1') \in V!Version
  BY <1>1, <1>6, <1>7, ReviewAssumption DEF V!Version
<1>9. Len(v1) + 1 \in DOMAIN v1'
  BY <1>7
<1> QED BY <1>1, <1>3, <1>4, <1>5, <1>6, <1>7, <1>8, <1>9 DEF InForceThen

\* A sequence's elements, and those of the proposals.
LEMMA ReviewElements ==
  ASSUME NEW Elem, NEW s \in Seq(Elem)
  PROVE  DOMAIN s = 1..Len(s) /\ \A i \in DOMAIN s : s[i] \in Elem
BY LenProperties, ElementOfSeq

LEMMA ReviewProposals ==
  ASSUME V!TypeOK
  PROVE  /\ DOMAIN v3 = 1..Len(v3)
         /\ \A p \in DOMAIN v3 : v3[p] \in Proposal
<1>1. v3 \in Seq(Proposal)
  BY DEF V!TypeOK, Proposal
<1> QED BY <1>1, ReviewElements, Zenon

\* A version more, with a proposal's decision or without one.
LEMMA ReviewPosts ==
  ASSUME V!ReviewInv, NEW c \in Caller, V!PostRules(c)
  PROVE  V!ReviewInv'
<1>1. V!TypeOK
  BY DEF V!ReviewInv
<1>2. UNCHANGED <<v3, v4, v5, v6, v7, v8, v9, v10, v11, v12, v13>>
  BY Zenon DEF V!PostRules
<1>3. PICK change \in V!RuleChange : V!Publish(change)
  BY ReviewChanges, Zenon DEF V!PostRules
<1>4. /\ v1' \in Seq(SUBSET Code) /\ Len(v1') \in V!Version /\ v2' \subseteq Renamed /\ v2 \subseteq v2'
      /\ \A v \in DOMAIN v1 : v \in DOMAIN v1' /\ v1'[v] = v1[v]
  BY <1>1, <1>3, ReviewPublish, Zenon
<1>5. Kept /\ v8' \in V!Number
  <2>1. v8 \in V!Number /\ v8 \in Nat
    BY <1>1, ReviewAssumption DEF V!TypeOK, V!Number
  <2> QED BY <1>2, <1>4, <2>1 DEF Kept
<1>6. V!RequestsAreSound'
  BY <1>2, <1>5, ReviewStays
<1>7. V!RowsReproducible' /\ \A x \in v5' : x.ddl \in Ddl /\ x.version \in DOMAIN v1'
  BY <1>2, <1>5, ReviewRows
<1>8. V!TypeOK'
  BY <1>1, <1>2, <1>4, <1>7 DEF V!TypeOK
<1>9. V!PromotedIsPublished'
  BY <1>2, <1>5, ReviewForce DEF V!ReviewInv, V!PromotedIsPublished, V!InForce, InForceThen
<1>10. V!NumbersDistinct' /\ v8' <= v7'
  BY <1>2 DEF V!ReviewInv, V!NumbersDistinct
<1> QED BY <1>6, <1>7, <1>8, <1>9, <1>10 DEF V!ReviewInv

LEMMA ReviewPromotes ==
  ASSUME V!ReviewInv, NEW c \in Caller, V!Promote(c)
  PROVE  V!ReviewInv'
<1>1. V!TypeOK /\ v11[c] \in V!Request
  BY DEF V!ReviewInv, V!TypeOK
<1>2. UNCHANGED <<v3, v4, v5, v6, v7, v8, v9, v10, v12, v13>> /\ v11[c].step = "publish"
  BY Zenon DEF V!Promote, V!At
<1>3. CASE UNCHANGED <<v1, v2>> /\ V!Goes(c, V!Idle)
  <2>1. V!Judged(c)' /\ V!Backed(c)' /\ V!Grows(c)' /\ v12' \in 0..MaxRequests
    BY <1>1, <1>2, <1>3, ReviewRests DEF V!TypeOK
  <2> QED BY <1>2, <1>3, <2>1, ReviewMoves, ReviewIdle
<1>4. CASE \E change \in {v3[v11[c].id].draft} \cup V!Edits(v3[v11[c].id].code) :
             /\ IF V!Publishes(change) THEN V!Publish(change) ELSE UNCHANGED <<v1, v2>>
             /\ V!Goes(c, [step |-> "status", id |-> v11[c].id, status |-> "promoted", change |-> change])
  <2>1. PICK q \in [step : {"publish"}, id : Nat \ {0}] : q = v11[c]
    BY <1>1, <1>2, ReviewRequests
  <2>2. q.id \in DOMAIN v3
    BY <1>2, <2>1 DEF V!ReviewInv, V!RequestsAreSound, V!Backed
  <2>3. PICK old \in Proposal : old = v3[q.id]
    BY <1>1, <2>2, ReviewProposals
  <2>4. old.code \in Code /\ old.draft \in V!Draft
    BY DEF Proposal
  <2>5. PICK change \in V!Edits(old.code) :
          /\ IF V!Publishes(change) THEN V!Publish(change) ELSE UNCHANGED <<v1, v2>>
          /\ V!Goes(c, [step |-> "status", id |-> q.id, status |-> "promoted", change |-> change])
    <3>1. V!Draft \subseteq V!Edits(old.code)
      BY DEF V!Edits
    <3>2. {old.draft} \cup V!Edits(old.code) = V!Edits(old.code)
      BY <2>4, <3>1
    <3> QED BY <1>4, <2>1, <2>3, <3>2, Zenon
  <2>6. change \in V!RuleChange /\ change.add \cap change.disable = {}
    BY <2>4, ReviewChanges
  <2>7. PICK r \in V!Request : V!Goes(c, r) /\ r.step = "status" /\ r.id = q.id /\ r.change = change
    <3> DEFINE r == [step |-> "status", id |-> q.id, status |-> "promoted", change |-> change]
    <3>1. r \in V!Request
      BY <2>6 DEF V!Request
    <3> QED BY <2>5, <3>1
  <2>8. /\ v1' \in Seq(SUBSET Code) /\ Len(v1') \in V!Version /\ v2' \subseteq Renamed /\ v2 \subseteq v2'
        /\ \A v \in DOMAIN v1 : v \in DOMAIN v1' /\ v1'[v] = v1[v]
        /\ InForceThen(change)
    <3>1. CASE V!Publishes(change)
      <4>1. V!Publish(change)
        BY <2>5, <3>1, Zenon
      <4> QED BY <1>1, <2>6, <4>1, ReviewPublish, Zenon
    <3>2. CASE ~V!Publishes(change)
      <4>1. UNCHANGED <<v1, v2>>
        BY <2>5, <3>2, Zenon
      <4>2. Len(v1) \in DOMAIN v1
        BY <1>1, LenProperties DEF V!TypeOK, V!Version
      <4>3. change.add = {} /\ change.disable = {} /\ change.alias = {}
        BY <3>2 DEF V!Publishes, V!Nothing
      <4> QED BY <1>1, <4>1, <4>2, <4>3 DEF V!TypeOK, InForceThen
    <3> QED BY <3>1, <3>2
  <2>9. Kept /\ v8' \in V!Number
    <3>1. v8 \in V!Number /\ v8 \in Nat
      BY <1>1, ReviewAssumption DEF V!TypeOK, V!Number
    <3> QED BY <1>2, <2>8, <3>1 DEF Kept
  <2>10. v11'[c] = r /\ v11' \in [Caller -> V!Request]
    BY <1>1, <2>7, ReviewGoes
  <2>11. V!Judged(c)' /\ V!Backed(c)' /\ V!Grows(c)'
    BY <1>2, <2>2, <2>7, <2>8, <2>10 DEF V!Judged, V!Backed, V!Grows, V!At, V!InForce, InForceThen
  <2>12. V!RequestsAreSound'
    BY <2>7, <2>9, <2>11, ReviewSound
  <2>13. V!RowsReproducible' /\ \A x \in v5' : x.ddl \in Ddl /\ x.version \in DOMAIN v1'
    BY <1>2, <2>9, ReviewRows
  <2>14. V!TypeOK'
    BY <1>1, <1>2, <2>8, <2>10, <2>13 DEF V!TypeOK
  <2>15. V!PromotedIsPublished'
    BY <1>2, <2>9, ReviewForce DEF V!ReviewInv, V!PromotedIsPublished, V!InForce, InForceThen
  <2>16. V!NumbersDistinct' /\ v8' <= v7'
    BY <1>2 DEF V!ReviewInv, V!NumbersDistinct
  <2> QED BY <2>12, <2>13, <2>14, <2>15, <2>16 DEF V!ReviewInv
<1> QED BY <1>3, <1>4, Zenon DEF V!Promote

\* A proposal's last status.
LEMMA ReviewDecides ==
  ASSUME V!ReviewInv, NEW c \in Caller, V!SetStatus(c)
  PROVE  V!ReviewInv'
<1>1. V!TypeOK /\ v11[c] \in V!Request /\ v3 \in Seq(Proposal) /\ Len(v3) <= MaxProposals
  BY DEF V!ReviewInv, V!TypeOK, Proposal
<1>2. /\ UNCHANGED <<v1, v2, v4, v5, v6, v7, v8, v9, v10, v12, v13>> /\ v11[c].step = "status"
      /\ V!Goes(c, V!Idle)
  BY Zenon DEF V!SetStatus, V!At
<1>3. PICK q \in [step : {"status"}, id : Nat \ {0}, status : {"promoted", "rejected", "snoozed"}, change : V!RuleChange] :
        q = v11[c]
  BY <1>1, <1>2, ReviewRequests
<1>4. q.id \in DOMAIN v3 /\ (q.status = "promoted" => V!InForce(q.change))
  BY <1>2, <1>3 DEF V!ReviewInv, V!RequestsAreSound, V!Backed, V!At
<1>5. DOMAIN v3 = 1..Len(v3) /\ \A p \in DOMAIN v3 : v3[p] \in Proposal
  BY <1>1, ReviewProposals
<1>6. PICK old \in Proposal : old = v3[q.id]
  BY <1>4, <1>5
<1> DEFINE made == IF q.status = "promoted" THEN q.change ELSE old.made
<1>7. made \in V!RuleChange /\ (q.status = "promoted" => made = q.change)
  BY DEF Proposal
<1> HIDE DEF made
<1>8. PICK new \in Proposal :
        new = [pattern |-> old.pattern, code |-> old.code, draft |-> old.draft, status |-> q.status, made |-> made]
  BY <1>7 DEF Proposal
<1>9. new.status = q.status /\ new.made = made
  BY <1>8
<1>10. v3' = [v3 EXCEPT ![q.id] = new]
  BY <1>3, <1>6, <1>8 DEF V!SetStatus, made
<1>11. v3' \in Seq(Proposal) /\ Len(v3') = Len(v3)
  BY <1>1, <1>4, <1>5, <1>10, ExceptSeq
<1>12. /\ DOMAIN v3' = DOMAIN v3 /\ v3'[q.id] = new
       /\ \A p \in DOMAIN v3 : p # q.id => v3'[p] = v3[p]
  BY <1>4, <1>10
<1>13. Kept /\ v8' \in V!Number
  <2>1. v8 \in V!Number /\ v8 \in Nat
    BY <1>1, ReviewAssumption DEF V!TypeOK, V!Number
  <2> QED BY <1>2, <1>12, <2>1 DEF Kept
<1>14. V!RequestsAreSound'
  <2>1. V!Judged(c)' /\ V!Backed(c)' /\ V!Grows(c)'
    BY <1>1, <1>2, ReviewRests
  <2> QED BY <1>2, <1>13, <2>1, ReviewSound, ReviewIdle
<1>15. V!RowsReproducible'
  BY <1>2, <1>13, ReviewRows
<1>16. v11' \in [Caller -> V!Request]
  BY <1>1, <1>2, ReviewGoes, ReviewIdle
<1>17. V!TypeOK'
  BY <1>1, <1>2, <1>11, <1>16 DEF V!TypeOK, Proposal
<1>18. V!PromotedIsPublished'
  <2>1. \A p \in DOMAIN v3 : v3[p].status = "promoted" => V!InForce(v3[p].made)
    BY DEF V!ReviewInv, V!PromotedIsPublished
  <2>2. \A p \in DOMAIN v3' : v3'[p].status = "promoted" => V!InForce(v3'[p].made)
    BY <1>4, <1>7, <1>9, <1>12, <2>1
  <2> QED BY <1>2, <2>2 DEF V!PromotedIsPublished, V!InForce
<1>19. V!NumbersDistinct' /\ v8' <= v7'
  BY <1>2 DEF V!ReviewInv, V!NumbersDistinct
<1> QED BY <1>14, <1>15, <1>17, <1>18, <1>19 DEF V!ReviewInv

\* A proposal more.
LEMMA ReviewProposes ==
  ASSUME V!ReviewInv, V!DetectProposals \/ V!RecordFeedback
  PROVE  V!ReviewInv'
<1>1. V!TypeOK /\ v3 \in Seq(Proposal) /\ Len(v3) \in Nat
  BY LenProperties DEF V!ReviewInv, V!TypeOK, Proposal
<1>2. UNCHANGED <<v1, v2, v4, v5, v6, v7, v8, v9, v10, v11, v12, v13>> /\ Len(v3) < MaxProposals
  BY Zenon DEF V!DetectProposals, V!RecordFeedback
<1>3. PICK n \in Nat, r \in Code, draft \in V!Draft : V!Proposed(n, r, draft)
  <2>1. CASE V!DetectProposals
    <3>1. PICK r \in Code, draft \in V!Draft : V!Proposed(v4[r], r, draft)
      BY <2>1, Zenon DEF V!DetectProposals
    <3>2. v4[r] \in Nat
      BY <1>1, ReviewAssumption DEF V!TypeOK
    <3> QED BY <3>1, <3>2, Zenon
  <2>2. CASE V!RecordFeedback
    <3>1. 0 \in Nat /\ V!Nothing \in V!Draft
      BY DEF V!Draft
    <3> QED BY <2>2, <3>1, Zenon DEF V!RecordFeedback
  <2> QED BY <2>1, <2>2
<1>4. PICK new \in Proposal :
        new = [pattern |-> n, code |-> r, draft |-> draft, made |-> V!Nothing, status |-> "pending"]
  BY ReviewChanges DEF Proposal
<1>5. new.status = "pending"
  BY <1>4
<1>6. /\ v3' \in Seq(Proposal) /\ Len(v3') = Len(v3) + 1 /\ v3'[Len(v3) + 1] = new
      /\ \A p \in 1..Len(v3) : v3'[p] = v3[p]
  BY <1>1, <1>3, <1>4, AppendProperties DEF V!Proposed
<1>7. DOMAIN v3 = 1..Len(v3) /\ DOMAIN v3' = 1..(Len(v3) + 1)
  BY <1>1, <1>6, LenProperties
<1>8. Kept /\ v8' \in V!Number
  <2>1. v8 \in V!Number /\ v8 \in Nat
    BY <1>1, ReviewAssumption DEF V!TypeOK, V!Number
  <2>2. DOMAIN v3 \subseteq DOMAIN v3'
    BY <1>1, <1>7
  <2> QED BY <1>2, <2>1, <2>2 DEF Kept
<1>9. V!RequestsAreSound'
  BY <1>2, <1>8, ReviewStays
<1>10. V!RowsReproducible'
  BY <1>2, <1>8, ReviewRows
<1>11. V!TypeOK'
  <2>1. Len(v3') <= MaxProposals
    BY <1>1, <1>2, <1>6, ReviewAssumption
  <2> QED BY <1>1, <1>2, <1>6, <2>1 DEF V!TypeOK, Proposal
<1>12. V!PromotedIsPublished'
  <2>1. \A p \in DOMAIN v3 : v3[p].status = "promoted" => V!InForce(v3[p].made)
    BY DEF V!ReviewInv, V!PromotedIsPublished
  <2>2. \A p \in DOMAIN v3' : v3'[p].status = "promoted" => p \in DOMAIN v3 /\ v3'[p] = v3[p]
    BY <1>1, <1>5, <1>6, <1>7
  <2>3. \A p \in DOMAIN v3' : v3'[p].status = "promoted" => V!InForce(v3'[p].made)
    BY <2>1, <2>2
  <2> QED BY <1>2, <2>3 DEF V!PromotedIsPublished, V!InForce
<1>13. V!NumbersDistinct' /\ v8' <= v7'
  BY <1>2 DEF V!ReviewInv, V!NumbersDistinct
<1> QED BY <1>9, <1>10, <1>11, <1>12, <1>13 DEF V!ReviewInv

\* What a number needs to know of main is fetched, if it can be.
LEMMA ReviewFetches ==
  ASSUME V!ReviewInv, NEW c \in Caller, V!Fetch(c)
  PROVE  V!ReviewInv'
<1>1. V!TypeOK
  BY DEF V!ReviewInv
<1>2. UNCHANGED <<v1, v2, v3, v4, v5, v6, v7, v9, v10, v12, v13>>
  BY Zenon DEF V!Fetch
<1>3. /\ v7 \in V!Number /\ v8 \in V!Number /\ v7 \in Nat /\ v8 \in Nat /\ v8 <= v7
      /\ 0 \in V!Number
  BY <1>1, ReviewAssumption DEF V!ReviewInv, V!TypeOK, V!Number
<1>4. PICK m \in V!Number : V!Goes(c, [step |-> "max", main |-> m]) /\ m <= v8' /\ v8' \in {v7, v8}
  <2>1. PICK fetched \in BOOLEAN : /\ v8' = IF fetched THEN v7 ELSE v8
                                   /\ V!Goes(c, [step |-> "max", main |-> IF fetched THEN v7 ELSE 0])
    BY Zenon DEF V!Fetch
  <2>2. CASE fetched
    <3>1. v8' = v7 /\ V!Goes(c, [step |-> "max", main |-> v7])
      BY <2>1, <2>2, Zenon
    <3>2. v7 <= v7
      BY <1>3
    <3> QED BY <1>3, <3>1, <3>2, Zenon
  <2>3. CASE ~fetched
    <3>1. v8' = v8 /\ V!Goes(c, [step |-> "max", main |-> 0])
      BY <2>1, <2>3, Zenon
    <3>2. 0 <= v8
      BY <1>3
    <3> QED BY <1>3, <3>1, <3>2, Zenon
  <2> QED BY <2>2, <2>3
<1>5. PICK r \in V!Request : r = [step |-> "max", main |-> m]
  BY DEF V!Request
<1>6. r.step = "max" /\ r.main = m /\ V!Goes(c, r)
  BY <1>4, <1>5
<1>7. v11'[c] = r /\ v11' \in [Caller -> V!Request]
  BY <1>1, <1>6, ReviewGoes
<1>8. v8' \in V!Number /\ v8 <= v8' /\ v8' <= v7
  BY <1>3, <1>4
<1>9. Kept
  BY <1>2, <1>8 DEF Kept
<1>10. V!RequestsAreSound'
  <2>1. V!Judged(c)' /\ V!Backed(c)' /\ V!Grows(c)'
    BY <1>4, <1>6, <1>7 DEF V!Judged, V!Backed, V!Grows, V!At
  <2> QED BY <1>6, <1>8, <1>9, <2>1, ReviewSound
<1>11. V!RowsReproducible'
  BY <1>2, <1>9, ReviewRows
<1>12. V!TypeOK'
  BY <1>1, <1>2, <1>7, <1>8 DEF V!TypeOK
<1>13. V!PromotedIsPublished' /\ V!NumbersDistinct' /\ v8' <= v7'
  BY <1>2, <1>8 DEF V!ReviewInv, V!PromotedIsPublished, V!NumbersDistinct, V!InForce
<1> QED BY <1>10, <1>11, <1>12, <1>13 DEF V!ReviewInv

\* The numbers that are reserved.
LEMMA ReviewReserved ==
  ASSUME V!TypeOK
  PROVE  /\ V!Max({0} \cup {r.number : r \in v6}) \in V!Number
         /\ v6 # {} => V!Max({r.number : r \in v6}) \in V!Number
<1>1. 0 \in V!Number /\ \A r \in v6 : r.number \in V!Number
  BY ReviewAssumption DEF V!TypeOK, V!Number
<1>2. {0} \cup {r.number : r \in v6} \in SUBSET V!Number /\ {r.number : r \in v6} \in SUBSET V!Number
  BY <1>1
<1>3. {0} \cup {r.number : r \in v6} # {} /\ (v6 # {} => {r.number : r \in v6} # {})
  OBVIOUS
<1>4. V!Max({0} \cup {r.number : r \in v6}) \in {0} \cup {r.number : r \in v6}
  BY <1>2, <1>3, ReviewMax, Zenon
<1>5. v6 # {} => V!Max({r.number : r \in v6}) \in {r.number : r \in v6}
  BY <1>2, <1>3, ReviewMax, Zenon
<1> QED BY <1>2, <1>4, <1>5, Zenon

\* A caller that holds what it has read of the numbers.
LEMMA ReviewHolds ==
  ASSUME V!ReviewInv, NEW c \in Caller, NEW r \in V!Request, r.step = "reserve", r.known <= r.base,
         V!Goes(c, r), UNCHANGED <<v1, v2, v3, v4, v5, v6, v7, v8, v9, v10, v12, v13>>
  PROVE  V!ReviewInv'
<1>1. V!TypeOK /\ v12' \in 0..MaxRequests
  BY DEF V!ReviewInv, V!TypeOK
<1>2. v11'[c] = r
  BY <1>1, ReviewGoes
<1>3. V!Judged(c)' /\ V!Backed(c)' /\ V!Grows(c)'
  BY <1>2 DEF V!Judged, V!Backed, V!Grows, V!At
<1> QED BY <1>1, <1>3, ReviewMoves

LEMMA ReviewCounts ==
  ASSUME V!ReviewInv, NEW c \in Caller, V!ReadMax(c)
  PROVE  V!ReviewInv'
<1>1. V!TypeOK /\ v11[c] \in V!Request
  BY DEF V!ReviewInv, V!TypeOK
<1>2. UNCHANGED <<v1, v2, v3, v4, v5, v6, v7, v8, v9, v10, v12, v13>> /\ v11[c].step = "max"
  BY Zenon DEF V!ReadMax, V!At
<1>3. {0, v8, v9, v13} \subseteq V!Number /\ \A n \in V!Number : n \in Nat
  BY <1>1, ReviewAssumption DEF V!TypeOK, V!Number
<1>4. v11[c].main \in V!Number /\ v11[c].main <= v8
  BY <1>1, <1>2, ReviewRequests DEF V!ReviewInv, V!RequestsAreSound, V!Grows, V!At
<1>5. PICK repo \in BOOLEAN, snapshot \in BOOLEAN :
        V!Goes(c, [step |-> "reserve",
                   base  |-> V!Max({IF repo THEN v8 ELSE 0, IF snapshot THEN v13 ELSE 0, v9}),
                   known |-> V!Max({IF repo THEN v11[c].main ELSE 0, IF snapshot THEN v13 ELSE 0, v9}),
                   seen  |-> V!Max({0} \cup {r.number : r \in v6})])
  BY Zenon DEF V!ReadMax
<1>6. PICK o \in V!Number, m \in V!Number, x \in V!Number :
        /\ o = IF repo THEN v8 ELSE 0
        /\ m = IF repo THEN v11[c].main ELSE 0
        /\ x = (IF snapshot THEN v13 ELSE 0) /\ m <= o
  BY <1>3, <1>4
<1>7. V!Max({o, x, v9}) \in {o, x, v9} /\ \A y \in {o, x, v9} : V!Max({o, x, v9}) >= y
  BY <1>3, ReviewMax
<1>8. V!Max({m, x, v9}) \in {m, x, v9}
  BY <1>3, ReviewMax
<1>9. PICK b \in V!Number, k \in V!Number, s \in V!Number :
        /\ b = V!Max({o, x, v9}) /\ k = V!Max({m, x, v9}) /\ s = V!Max({0} \cup {r.number : r \in v6})
        /\ k <= b
  <2>1. V!Max({o, x, v9}) \in V!Number /\ V!Max({m, x, v9}) \in V!Number
    BY <1>3, <1>7, <1>8, Zenon
  <2>2. V!Max({0} \cup {r.number : r \in v6}) \in V!Number
    BY <1>1, ReviewReserved
  <2>3. V!Max({m, x, v9}) <= V!Max({o, x, v9})
    BY <1>3, <1>6, <1>7, <1>8, <2>1
  <2> QED BY <2>1, <2>2, <2>3
<1>10. V!Goes(c, [step |-> "reserve", base |-> b, known |-> k, seen |-> s])
  BY <1>5, <1>6, <1>9, Zenon
<1>11. PICK r \in V!Request : r = [step |-> "reserve", base |-> b, known |-> k, seen |-> s]
  BY DEF V!Request
<1>12. r.step = "reserve" /\ r.base = b /\ r.known = k /\ V!Goes(c, r)
  BY <1>10, <1>11
<1> QED BY <1>2, <1>9, <1>12, ReviewHolds

\* The next number is nobody's, and above what the caller has read.
LEMMA ReviewReserves ==
  ASSUME V!ReviewInv, NEW c \in Caller, V!Reserve(c)
  PROVE  V!ReviewInv'
<1>1. V!TypeOK /\ v11[c] \in V!Request
  BY DEF V!ReviewInv, V!TypeOK
<1>2. UNCHANGED <<v1, v2, v3, v4, v5, v7, v8, v9, v10, v12, v13>> /\ v11[c].step = "reserve"
  BY Zenon DEF V!Reserve, V!At
<1>3. PICK q \in [step : {"reserve"}, base : V!Number, known : V!Number, seen : V!Number] : q = v11[c]
  BY <1>1, <1>2, ReviewRequests
<1>4. q.known <= q.base
  BY <1>2, <1>3 DEF V!ReviewInv, V!RequestsAreSound, V!Grows, V!At
<1> DEFINE n == V!Candidate(q.base, q.seen)
<1>5. n \in Nat /\ q.base < n /\ q.base \in Nat /\ q.known \in Nat
  <2>1. q.base \in Nat /\ q.seen \in Nat /\ q.known \in Nat
    BY ReviewAssumption DEF V!Number
  <2>2. PICK x \in Nat : x = V!Max({q.base, q.seen}) /\ q.base <= x
    BY <2>1, ReviewMaxOfTwo
  <2>3. n = x + 1
    BY <2>2, Zenon DEF V!Candidate
  <2> QED BY <2>1, <2>2, <2>3
<1> HIDE DEF n
<1>6. CASE V!Clashes(n)
  <2>1. V!Goes(c, [q EXCEPT !.seen = V!Max({r.number : r \in v6})]) /\ UNCHANGED v6
    BY <1>3, <1>6, Zenon DEF V!Reserve, n
  <2>2. v6 # {}
    BY <1>6, Zenon DEF V!Clashes
  <2>3. PICK s \in V!Number : s = V!Max({r.number : r \in v6})
    BY <1>1, <2>2, ReviewReserved, Zenon
  <2>4. PICK r \in V!Request : V!Goes(c, r) /\ r.step = "reserve" /\ r.known = q.known /\ r.base = q.base
    <3> DEFINE r == [q EXCEPT !.seen = s]
    <3>1. r \in [step : {"reserve"}, base : V!Number, known : V!Number, seen : V!Number]
      OBVIOUS
    <3>2. r.step = "reserve" /\ r.known = q.known /\ r.base = q.base
      OBVIOUS
    <3>3. r \in V!Request
      BY <3>1, Zenon DEF V!Request
    <3> QED BY <2>1, <2>3, <3>2, <3>3, Zenon
  <2> QED BY <1>2, <1>4, <2>1, <2>4, ReviewHolds
<1>7. CASE ~V!Clashes(n)
  <2>1. PICK new : /\ new = [by |-> v12, caller |-> c, number |-> n, known |-> q.known]
                   /\ v6' = v6 \cup {new} /\ n <= MaxNumber /\ V!Goes(c, V!Idle)
    BY <1>3, <1>7, Zenon DEF V!Reserve, n
  <2>2. new.number = n /\ new.known = q.known
    BY <2>1
  <2>3. n \in V!Number /\ n > q.known
    BY <1>4, <1>5, <2>1, ReviewAssumption DEF V!Number
  <2>4. \A r \in v6 : r.number # n
    BY <1>7, Zenon DEF V!Clashes
  <2>5. V!NumbersDistinct'
    <3>1. /\ \A r, s \in v6 : r.number = s.number => r = s
          /\ \A r \in v6 : r.number > r.known
      BY DEF V!ReviewInv, V!NumbersDistinct
    <3>2. \A r \in v6' : r \in v6 \/ r = new
      BY <2>1
    <3>3. \A r, s \in v6' : r.number = s.number => r = s
      BY <2>2, <2>4, <3>1, <3>2, Zenon
    <3>4. \A r \in v6' : r.number > r.known
      BY <2>2, <2>3, <3>1, <3>2, Zenon
    <3> QED BY <3>3, <3>4 DEF V!NumbersDistinct
  <2>6. Kept
    BY <1>1, <1>2, ReviewKept
  <2>7. V!RequestsAreSound'
    <3>1. v8' \in V!Number /\ V!Judged(c)' /\ V!Backed(c)' /\ V!Grows(c)'
      BY <1>1, <1>2, <2>1, ReviewRests DEF V!TypeOK
    <3> QED BY <2>1, <2>6, <3>1, ReviewSound, ReviewIdle
  <2>8. V!RowsReproducible'
    BY <1>2, <2>6, ReviewRows
  <2>9. \A r \in v6' : r.number \in V!Number
    BY <1>1, <2>1, <2>2, <2>3 DEF V!TypeOK
  <2>10. v11' \in [Caller -> V!Request]
    BY <1>1, <2>1, ReviewGoes, ReviewIdle
  <2>11. V!TypeOK'
    BY <1>1, <1>2, <2>9, <2>10 DEF V!TypeOK
  <2>12. V!PromotedIsPublished' /\ v8' <= v7'
    BY <1>2 DEF V!ReviewInv, V!PromotedIsPublished, V!InForce
  <2> QED BY <2>5, <2>7, <2>8, <2>11, <2>12 DEF V!ReviewInv
<1> QED BY <1>6, <1>7

\* Files reach main and the queue, a change the served catalog, and the step
\* that is none.
LEMMA ReviewServes ==
  ASSUME V!ReviewInv, V!FileMerges \/ V!Promoted \/ UNCHANGED V!vars
  PROVE  V!ReviewInv'
<1>1. V!TypeOK
  BY DEF V!ReviewInv
<1>2. UNCHANGED <<v1, v2, v3, v4, v5, v6, v8, v11, v12>>
  BY Zenon DEF V!FileMerges, V!Promoted, V!vars
<1>3. v10' \in BOOLEAN
  <2>1. v10 \in BOOLEAN
    BY <1>1 DEF V!TypeOK
  <2>2. v10' = v10 \/ v10' = TRUE
    BY Zenon DEF V!FileMerges, V!Promoted, V!vars
  <2> QED BY <2>1, <2>2, Zenon
<1>4. v7 \in V!Number /\ v9 \in V!Number /\ v13 \in V!Number /\ v7 \in Nat /\ v9 \in Nat /\ v13 \in Nat /\ v8 \in V!Number /\ v8 \in Nat /\ v8 <= v7
  BY <1>1, ReviewAssumption DEF V!ReviewInv, V!TypeOK, V!Number
<1>5. v7' \in V!Number /\ v9' \in V!Number /\ v13' \in V!Number /\ v7 <= v7'
  <2>1. CASE UNCHANGED <<v7, v9, v13>>
    BY <1>4, <2>1
  <2>2. CASE V!FileMerges
    <3>1. PICK n \in {v7 + 1} \cup {r.number : r \in v6} :
            /\ n <= MaxNumber - 2
            /\ \/ v7' = V!Max({v7, n}) /\ v9' = v9 /\ v13' = v13
               \/ v9' = V!Max({v9, n}) /\ v7' = v7 /\ v13' = v13
               \/ v13' = V!Max({v13, n}) /\ v7' = v7 /\ v9' = v9
      BY <2>2, Zenon DEF V!FileMerges
    <3>2. n \in Nat
      <4>1. \A r \in v6 : r.number \in Nat
        BY <1>1, ReviewAssumption DEF V!TypeOK, V!Number
      <4> QED BY <1>4, <3>1, <4>1
    <3>3. n \in V!Number
      BY <3>1, <3>2, ReviewAssumption DEF V!Number
    <3>4. /\ V!Max({v7, n}) \in V!Number /\ v7 <= V!Max({v7, n})
          /\ V!Max({v9, n}) \in V!Number /\ V!Max({v13, n}) \in V!Number
      <4>1. /\ V!Max({v7, n}) \in {v7, n} /\ v7 <= V!Max({v7, n})
            /\ V!Max({v9, n}) \in {v9, n} /\ V!Max({v13, n}) \in {v13, n}
        BY <1>4, <3>2, ReviewMaxOfTwo
      <4> QED BY <1>4, <3>3, <4>1, Zenon
    <3>5. v7 <= v7
      BY <1>4
    <3> QED BY <1>4, <3>1, <3>4, <3>5, Zenon
  <2>3. V!FileMerges \/ UNCHANGED <<v7, v9, v13>>
    BY Zenon DEF V!Promoted, V!vars
  <2> QED BY <2>1, <2>2, <2>3
<1>6. Kept
  BY <1>1, <1>2, ReviewKept
<1>7. V!RequestsAreSound'
  BY <1>2, <1>4, <1>6, ReviewStays
<1>8. V!RowsReproducible'
  BY <1>2, <1>6, ReviewRows
<1>9. V!TypeOK'
  BY <1>1, <1>2, <1>3, <1>4, <1>5 DEF V!TypeOK
<1>10. v8' <= v7'
  <2>1. v7' \in Nat
    BY <1>5, ReviewAssumption DEF V!Number
  <2> QED BY <1>2, <1>4, <1>5, <2>1
<1>11. V!PromotedIsPublished' /\ V!NumbersDistinct'
  BY <1>2 DEF V!ReviewInv, V!PromotedIsPublished, V!NumbersDistinct, V!InForce
<1> QED BY <1>7, <1>8, <1>9, <1>10, <1>11 DEF V!ReviewInv

LEMMA ReviewStep == ASSUME V!ReviewInv, [V!Next]_(V!vars) PROVE V!ReviewInv'
<1>1. CASE \E c \in Caller : V!Reviewing(c)
  BY <1>1, ReviewAsks, ReviewReads, ReviewFloor, ReviewDeep, ReviewWrites, ReviewPass, Zenon DEF V!Reviewing
<1>2. CASE \E c \in Caller : V!Deciding(c)
  BY <1>2, ReviewPosts, ReviewAsks, ReviewPromotes, ReviewDecides, Zenon DEF V!Deciding
<1>3. CASE \E c \in Caller : V!Numbering(c)
  BY <1>3, ReviewAsks, ReviewFetches, ReviewCounts, ReviewReserves, Zenon DEF V!Numbering
<1>4. CASE V!DetectProposals \/ V!RecordFeedback \/ V!FileMerges \/ V!Promoted \/ UNCHANGED V!vars
  BY <1>4, ReviewProposes, ReviewServes, Zenon
<1> QED BY <1>1, <1>2, <1>3, <1>4, Zenon DEF V!Next

-----------------------------------------------------------------------------
(* The gate after the COMMIT: G.                                           *)

\* What the gate reads is never above what is there, and is it if it reads
\* both catalogs.
LEMMA GateReads ==
  ASSUME G!TypeOK, NEW catalogs \in G!Catalogs
  PROVE  /\ \A t \in Table : v1[t].idx \in Nat /\ v1[t].cons \in Nat /\ G!Total(v1[t]) \in Nat
         /\ G!Snapshot(catalogs) \in [Table -> Nat]
         /\ \A t \in Table : G!Snapshot(catalogs)[t] <= G!Total(v1[t])
         /\ catalogs = "both" => \A t \in Table : G!Snapshot(catalogs)[t] = G!Total(v1[t])
         /\ catalogs = "error" => \A t \in Table : G!Snapshot(catalogs)[t] = 0
<1>1. \A t \in Table : v1[t] \in [idx : Nat, cons : Nat]
  BY DEF G!TypeOK
<1>2. \A t \in Table : v1[t].idx \in Nat /\ v1[t].cons \in Nat /\ G!Total(v1[t]) = v1[t].idx + v1[t].cons
  BY <1>1 DEF G!Total
<1>3. CASE catalogs = "error"
  <2>1. G!Snapshot(catalogs) = [t \in Table |-> 0]
    BY <1>3 DEF G!Snapshot, G!Zero
  <2> QED BY <1>2, <1>3, <2>1
<1>4. CASE catalogs = "both"
  <2>1. G!Snapshot(catalogs) = [t \in Table |-> G!Total(v1[t])]
    BY <1>4 DEF G!Snapshot, G!Counts
  <2>2. \A t \in Table : G!Total(v1[t]) \in Nat
    BY <1>2
  <2> QED BY <1>2, <1>4, <2>1, <2>2
<1>5. CASE catalogs = "indexes"
  <2>1. G!Snapshot(catalogs) = [t \in Table |-> v1[t].idx]
    BY <1>5 DEF G!Snapshot, G!Counts
  <2> QED BY <1>2, <1>5, <2>1
<1> QED BY <1>3, <1>4, <1>5 DEF G!Catalogs

\* What a file does to the tables.
LEMMA GateEffect ==
  ASSUME G!TypeOK, NEW f \in File, G!Lands(f), f \notin v2
  PROVE  /\ v1' \in [Table -> [idx : Nat, cons : Nat]] /\ v2' = v2 \cup {f} /\ v7 \subseteq v7'
         /\ v7' \subseteq v7 \cup {f}
         /\ f \in v7' => \E t \in Table : G!Total(v1'[t]) >= 2 /\ G!Total(v1'[t]) > G!Total(v1[t])
         /\ f \notin v7' => \A t \in Table : G!Total(v1'[t]) >= 2 => G!Total(v1'[t]) <= G!Total(v1[t])
<1> DEFINE a == Adds[f]
<1>1. a.table \in Table /\ a.idx \in Int /\ a.cons \in Int
  BY GateAssumption
<1>2. \A t \in Table : v1[t] \in [idx : Nat, cons : Nat]
  BY DEF G!TypeOK
<1>3. PICK i \in Nat, c \in Nat : v1' = [v1 EXCEPT ![a.table] = [idx |-> i, cons |-> c]]
  <2> DEFINE i == IF v1[a.table].idx + a.idx < 0 THEN 0 ELSE v1[a.table].idx + a.idx
             c == IF v1[a.table].cons + a.cons < 0 THEN 0 ELSE v1[a.table].cons + a.cons
  <2>1. v1' = [v1 EXCEPT ![a.table] = [idx |-> i, cons |-> c]]
    BY DEF G!Lands, G!Effect
  <2>2. v1[a.table].idx \in Nat /\ v1[a.table].cons \in Nat
    BY <1>1, <1>2
  <2>3. i \in Nat /\ c \in Nat
    BY <1>1, <2>2
  <2> QED BY <2>1, <2>3
<1>4. v1' \in [Table -> [idx : Nat, cons : Nat]] /\ \A t \in Table : t # a.table => v1'[t] = v1[t]
  BY <1>1, <1>3 DEF G!TypeOK
<1>5. \A t \in Table : G!Total(v1[t]) \in Nat /\ G!Total(v1'[t]) \in Nat
  BY <1>2, <1>4 DEF G!Total
<1>6. /\ v2' = v2 \cup {f} /\ v7' = IF G!Doubles(f) THEN v7 \cup {f} ELSE v7
      /\ G!Doubles(f) <=> G!Total(v1'[a.table]) >= 2 /\ G!Total(v1'[a.table]) > G!Total(v1[a.table])
  BY DEF G!Lands, G!Doubles
<1>7. f \notin v7
  BY DEF G!TypeOK
<1>8. f \in v7' <=> G!Doubles(f)
  BY <1>6, <1>7
<1> QED BY <1>1, <1>4, <1>5, <1>6, <1>8

LEMMA GateInit == G!Init => G!GateInv
<1> SUFFICES ASSUME G!Init PROVE G!GateInv
  OBVIOUS
<1>1. /\ v1 \in [Table -> {[idx |-> 1, cons |-> 0], [idx |-> 2, cons |-> 0], [idx |-> 0, cons |-> 1]}]
      /\ v2 = {} /\ v3 = [f \in File |-> "none"] /\ v4 = G!Idle /\ v5 = {}
      /\ v6 = [ok |-> TRUE, duplicate |-> FALSE, seen |-> "both"]
      /\ v7 = {} /\ v8 = {} /\ v9 = {} /\ v10 = {} /\ v11 = 0
  BY DEF G!Init
<1>2. v4.at = "idle" /\ v4.verdict = "committed"
  BY <1>1 DEF G!Idle
<1>3. G!TypeOK
  <2>1. v4 \in [at : {"idle", "claimed", "apply", "gate", "finish"}, file : File,
                pre : [Table -> Nat], verdict : {"committed", "failed", "blocked"}]
    BY <1>1, GateAssumption DEF G!Idle, G!Zero
  <2>2. v1 \in [Table -> [idx : Nat, cons : Nat]]
    BY <1>1
  <2>3. v11 \in 0..GateFaults
    BY <1>1, GateAssumption
  <2> QED BY <1>1, <1>2, <2>1, <2>2, <2>3 DEF G!TypeOK
<1>4. G!NotJudgedYet /\ G!BaselineIsBelow /\ G!EffectShows /\ G!VerdictIsRight
  BY <1>2 DEF G!NotJudgedYet, G!BaselineIsBelow, G!EffectShows, G!VerdictIsRight
<1>5. G!BreakingIsBlocked /\ G!BlockedHasBroken /\ G!AuditIsWhole
  BY <1>1 DEF G!BreakingIsBlocked, G!BlockedHasBroken, G!AuditIsWhole
<1> QED BY <1>3, <1>4, <1>5 DEF G!GateInv

\* The run that is not there.
LEMMA GateIdle ==
  /\ G!Idle \in [at : {"idle", "claimed", "apply", "gate", "finish"}, file : File,
                 pre : [Table -> Nat], verdict : {"committed", "failed", "blocked"}]
  /\ G!Idle.at = "idle" /\ G!Idle.verdict = "committed"
BY GateAssumption DEF G!Idle, G!Zero

\* A reading that fails counts once.
LEMMA GateFault == \A catalogs : G!Fault(catalogs # "both") \in {0, 1}
BY Zenon DEF G!Fault

\* Nobody touches the tables: rows, a claim, the counts before, a failure, a
\* version that is there.
LEMMA GateWaits ==
  ASSUME G!GateInv, NEW f \in File,
         \/ G!Enqueue(f) \/ G!Claim(f) \/ G!CountBefore \/ G!ApplyFails \/ G!AlreadyApplied \/ UNCHANGED G!vars
  PROVE  G!GateInv'
<1> DEFINE RunSet == [at : {"idle", "claimed", "apply", "gate", "finish"}, file : File,
                      pre : [Table -> Nat], verdict : {"committed", "failed", "blocked"}]
<1>1. G!TypeOK /\ v4 \in RunSet
  BY DEF G!GateInv, G!TypeOK
<1>2. UNCHANGED <<v1, v2, v5, v6, v7, v8, v9>>
  <2>1. CASE G!CountBefore
    BY <2>1, Zenon DEF G!CountBefore
  <2>2. CASE G!Enqueue(f) \/ G!Claim(f) \/ G!ApplyFails \/ G!AlreadyApplied \/ UNCHANGED G!vars
    BY <2>2 DEF G!Enqueue, G!Claim, G!ApplyFails, G!AlreadyApplied, G!vars
  <2> QED BY <2>1, <2>2
<1>3. G!AuditIsWhole'
  BY <1>2 DEF G!GateInv, G!AuditIsWhole
<1>4. CASE G!Enqueue(f) \/ UNCHANGED G!vars
  <2>1. UNCHANGED <<v4, v10, v11>>
    BY <1>4 DEF G!Enqueue, G!vars
  <2>2. v3' \in [File -> {"none", "queued", "applying", "committed", "failed"}]
    BY <1>1, <1>4 DEF G!TypeOK, G!Enqueue, G!vars
  <2>3. v4.at # "idle" => v3'[v4.file] = "applying"
    <3>1. CASE UNCHANGED G!vars
      BY <1>1, <3>1 DEF G!TypeOK, G!vars, G!Subject
    <3>2. CASE G!Enqueue(f)
      <4> SUFFICES ASSUME v4.at # "idle" PROVE v3'[v4.file] = "applying"
        OBVIOUS
      <4>1. v3[v4.file] = "applying" /\ v3[f] # "applying"
        BY <1>1, <3>2 DEF G!TypeOK, G!Enqueue, G!Subject
      <4>2. v3' = [v3 EXCEPT ![f] = "queued"] /\ v4.file \in File
        BY <1>1, <3>2 DEF G!Enqueue
      <4> QED BY <1>1, <4>1, <4>2 DEF G!TypeOK
    <3> QED BY <1>4, <3>1, <3>2
  <2>4. G!TypeOK'
    BY <1>1, <1>2, <2>1, <2>2, <2>3 DEF G!TypeOK, G!Subject
  <2> QED BY <1>2, <1>3, <2>1, <2>4 DEF G!GateInv, G!NotJudgedYet, G!BaselineIsBelow, G!EffectShows,
            G!VerdictIsRight, G!BreakingIsBlocked, G!BlockedHasBroken, G!Subject, G!Duplicate
<1>5. CASE G!Claim(f)
  <2>1. /\ v4.at = "idle" /\ UNCHANGED <<v10, v11>> /\ v3' = [v3 EXCEPT ![f] = "applying"]
        /\ v4' = [G!Idle EXCEPT !.at = "claimed", !.file = f]
    BY <1>5 DEF G!Claim
  <2>2. v4'.at = "claimed" /\ v4'.file = f /\ v4'.verdict = "committed" /\ v4' \in RunSet
    BY <2>1, GateIdle
  <2>3. /\ v3' \in [File -> {"none", "queued", "applying", "committed", "failed"}]
        /\ v3'[f] = "applying"
    BY <1>1, <2>1 DEF G!TypeOK
  <2>4. G!TypeOK'
    BY <1>1, <1>2, <2>1, <2>2, <2>3 DEF G!TypeOK, G!Subject
  <2>5. G!BreakingIsBlocked' /\ G!BlockedHasBroken'
    BY <1>2, <2>1 DEF G!GateInv, G!BreakingIsBlocked, G!BlockedHasBroken
  <2> QED BY <1>3, <2>2, <2>4, <2>5 DEF G!GateInv, G!NotJudgedYet, G!BaselineIsBelow, G!EffectShows,
            G!VerdictIsRight
<1>6. CASE G!CountBefore
  <2>1. \E catalogs \in G!Catalogs, n \in {0, 1} :
          /\ v4' = [v4 EXCEPT !.at = "apply", !.pre = G!Snapshot(catalogs)]
          /\ v10' = IF catalogs = "both" THEN v10 ELSE v10 \cup {v4.file}
          /\ G!Faults(n)
    BY <1>6, GateFault, Zenon DEF G!CountBefore, G!Subject
  <2>2. PICK catalogs \in G!Catalogs, n \in {0, 1} :
          /\ v4' = [v4 EXCEPT !.at = "apply", !.pre = G!Snapshot(catalogs)]
          /\ v10' = IF catalogs = "both" THEN v10 ELSE v10 \cup {v4.file}
          /\ G!Faults(n)
    BY <2>1, Zenon
  <2>3. v4.at = "claimed" /\ UNCHANGED v3
    BY <1>6, Zenon DEF G!CountBefore
  <2>4. /\ \A t \in Table : G!Total(v1[t]) \in Nat
        /\ G!Snapshot(catalogs) \in [Table -> Nat]
        /\ \A t \in Table : G!Snapshot(catalogs)[t] <= G!Total(v1[t])
        /\ catalogs = "both" => \A t \in Table : G!Snapshot(catalogs)[t] = G!Total(v1[t])
    BY <1>1, GateReads
  <2>5. /\ v4'.at = "apply" /\ v4'.file = v4.file /\ v4'.verdict = v4.verdict /\ v4'.pre = G!Snapshot(catalogs)
        /\ v4' \in RunSet
    BY <1>1, <2>2, <2>4
  <2>6. v11' \in 0..GateFaults
    <3>1. v11 \in 0..GateFaults
      BY <1>1 DEF G!TypeOK
    <3> QED BY <2>2, <3>1, GateAssumption DEF G!Faults
  <2>7. v10 \subseteq v10' /\ v10' \subseteq v10 \cup {v4.file} /\ (v4.file \notin v10' => catalogs = "both")
    BY <2>2
  <2>8. G!TypeOK'
    BY <1>1, <1>2, <2>3, <2>5, <2>6, <2>7 DEF G!TypeOK, G!Subject
  <2>9. G!BaselineIsBelow'
    BY <1>2, <2>4, <2>5, <2>7 DEF G!BaselineIsBelow, G!Subject, G!Total
  <2>10. G!BreakingIsBlocked' /\ G!BlockedHasBroken' /\ G!NotJudgedYet'
    BY <1>2, <2>3, <2>5, <2>7 DEF G!GateInv, G!BreakingIsBlocked, G!BlockedHasBroken, G!NotJudgedYet
  <2> QED BY <1>3, <2>5, <2>8, <2>9, <2>10 DEF G!GateInv, G!EffectShows, G!VerdictIsRight
<1>7. CASE G!ApplyFails \/ G!AlreadyApplied
  <2>1. /\ v4.at = "apply" /\ UNCHANGED <<v3, v10>>
        /\ \/ v4.file \in v2 /\ UNCHANGED v11 /\ v4' = [v4 EXCEPT !.at = "finish"]
           \/ v4.file \notin v2 /\ G!Faults(1) /\ v4' = [v4 EXCEPT !.at = "finish", !.verdict = "failed"]
    BY <1>7 DEF G!ApplyFails, G!AlreadyApplied, G!Subject
  <2>2. v4'.at = "finish" /\ v4'.file = v4.file /\ v4'.verdict \in {v4.verdict, "failed"} /\ v4' \in RunSet
    BY <1>1, <2>1
  <2>3. v4.verdict = "committed"
    BY <2>1 DEF G!GateInv, G!NotJudgedYet
  <2>4. v11' \in 0..GateFaults
    <3>1. v11 \in 0..GateFaults
      BY <1>1 DEF G!TypeOK
    <3> QED BY <2>1, <3>1, GateAssumption DEF G!Faults
  <2>5. \A g \in v7 : g \in v8 \cup v9
    BY <2>1 DEF G!GateInv, G!BreakingIsBlocked
  <2>6. G!TypeOK'
    BY <1>1, <1>2, <2>1, <2>2, <2>4 DEF G!TypeOK, G!Subject
  <2>7. G!VerdictIsRight'
    BY <1>2, <2>2, <2>3, <2>5 DEF G!VerdictIsRight, G!Subject
  <2>8. G!BreakingIsBlocked' /\ G!BlockedHasBroken'
    BY <1>2, <2>1, <2>5 DEF G!GateInv, G!BreakingIsBlocked, G!BlockedHasBroken
  <2> QED BY <1>3, <2>2, <2>6, <2>7, <2>8 DEF G!GateInv, G!NotJudgedYet, G!BaselineIsBelow, G!EffectShows
<1> QED BY <1>4, <1>5, <1>6, <1>7

\* The file's effect, by the apply-now: it shows against the counts before.
LEMMA GateApplies == ASSUME G!GateInv, G!Apply PROVE G!GateInv'
<1> DEFINE RunSet == [at : {"idle", "claimed", "apply", "gate", "finish"}, file : File,
                      pre : [Table -> Nat], verdict : {"committed", "failed", "blocked"}]
<1>1. G!TypeOK /\ v4 \in RunSet
  BY DEF G!GateInv, G!TypeOK
<1>2. v4.at = "apply" /\ v4.file \notin v2 /\ G!Lands(v4.file) /\ v4' = [v4 EXCEPT !.at = "gate"]
  BY DEF G!Apply, G!Subject
<1>3. UNCHANGED <<v3, v5, v6, v8, v9, v10, v11>>
  BY DEF G!Apply
<1>4. v4'.at = "gate" /\ v4'.file = v4.file /\ v4'.pre = v4.pre /\ v4'.verdict = v4.verdict /\ v4' \in RunSet
  BY <1>1, <1>2
<1>5. /\ v1' \in [Table -> [idx : Nat, cons : Nat]] /\ v2' = v2 \cup {v4.file}
      /\ v7 \subseteq v7' /\ v7' \subseteq v7 \cup {v4.file}
  BY <1>1, <1>2, GateEffect, Zenon
<1>6. v4.file \in v7' => \E t \in Table : G!Total(v1'[t]) >= 2 /\ G!Total(v1'[t]) > G!Total(v1[t])
  BY <1>1, <1>2, GateEffect, Zenon
<1>7. v4.file \notin v7' => \A t \in Table : G!Total(v1'[t]) >= 2 => G!Total(v1'[t]) <= G!Total(v1[t])
  BY <1>1, <1>2, GateEffect, Zenon
<1>8. \A t \in Table : G!Total(v1[t]) \in Nat /\ G!Total(v1'[t]) \in Nat /\ v4.pre[t] \in Nat
  BY <1>1, <1>5 DEF G!TypeOK, G!Total
<1>9. G!TypeOK'
  BY <1>1, <1>2, <1>3, <1>4, <1>5 DEF G!TypeOK, G!Subject
<1>10. /\ \A t \in Table : v4.pre[t] <= G!Total(v1[t])
       /\ v4.file \notin v10 => \A t \in Table : v4.pre[t] = G!Total(v1[t])
  BY <1>2 DEF G!GateInv, G!BaselineIsBelow, G!Subject
<1>11. v4.file \in v7' => \E t \in Table : G!Total(v1'[t]) >= 2 /\ G!Total(v1'[t]) > v4.pre[t]
  BY <1>6, <1>8, <1>10
<1>12. v4.file \notin v7' /\ v4.file \notin v10 =>
         \A t \in Table : G!Total(v1'[t]) >= 2 => G!Total(v1'[t]) <= v4.pre[t]
  BY <1>7, <1>10
<1>13. G!EffectShows'
  BY <1>3, <1>4, <1>5, <1>11, <1>12 DEF G!EffectShows, G!Subject, G!Duplicate
<1>14. G!BreakingIsBlocked' /\ G!BlockedHasBroken' /\ G!NotJudgedYet'
  BY <1>2, <1>3, <1>4, <1>5 DEF G!GateInv, G!BreakingIsBlocked, G!BlockedHasBroken, G!NotJudgedYet
<1>15. G!AuditIsWhole'
  BY <1>3 DEF G!GateInv, G!AuditIsWhole
<1> QED BY <1>4, <1>9, <1>13, <1>14, <1>15 DEF G!GateInv, G!BaselineIsBelow, G!VerdictIsRight

\* The nightly's file, which no gate has seen: nobody is between two readings.
LEMMA GateNightly == ASSUME G!GateInv, NEW f \in File, G!NightlyApplies(f) PROVE G!GateInv'
<1>1. G!TypeOK
  BY DEF G!GateInv
<1>2. v4.at = "idle" /\ f \notin v2 /\ G!Lands(f) /\ v9' = v9 \cup {f}
  BY DEF G!NightlyApplies
<1>3. UNCHANGED <<v3, v4, v5, v6, v8, v10, v11>>
  BY DEF G!NightlyApplies
<1>4. /\ v1' \in [Table -> [idx : Nat, cons : Nat]] /\ v2' = v2 \cup {f}
      /\ v7 \subseteq v7' /\ v7' \subseteq v7 \cup {f}
  BY <1>1, <1>2, GateEffect, Zenon
<1>5. G!TypeOK'
  BY <1>1, <1>2, <1>3, <1>4 DEF G!TypeOK, G!Subject
<1>6. G!BreakingIsBlocked' /\ G!BlockedHasBroken' /\ G!NotJudgedYet' /\ G!AuditIsWhole'
  BY <1>2, <1>3, <1>4 DEF G!GateInv, G!BreakingIsBlocked, G!BlockedHasBroken, G!NotJudgedYet, G!AuditIsWhole
<1> QED BY <1>2, <1>3, <1>5, <1>6 DEF G!GateInv, G!BaselineIsBelow, G!EffectShows, G!VerdictIsRight

\* The gate reads both catalogs: every offender is a file's that broke, or
\* whose counts before were not all there, and the other way round.
LEMMA GateJudges ==
  ASSUME G!GateInv, v4.at = "gate", NEW catalogs \in G!Catalogs
  PROVE  /\ G!Offenders(v4.pre, G!Snapshot(catalogs)) # {} => v4.file \in v7 \cup v10
         /\ catalogs = "both" /\ v4.file \in v7 => G!Offenders(v4.pre, G!Snapshot(catalogs)) # {}
<1> DEFINE after == G!Snapshot(catalogs)
<1>1. G!TypeOK
  BY DEF G!GateInv
<1>2. v4.pre \in [Table -> Nat]
  BY <1>1 DEF G!TypeOK
<1>3. /\ \A t \in Table : G!Total(v1[t]) \in Nat
      /\ after \in [Table -> Nat]
      /\ \A t \in Table : after[t] <= G!Total(v1[t])
      /\ catalogs = "both" => \A t \in Table : after[t] = G!Total(v1[t])
  BY <1>1, GateReads
<1>4. /\ v4.file \in v7 => \E t \in Table : G!Total(v1[t]) >= 2 /\ G!Total(v1[t]) > v4.pre[t]
      /\ v4.file \notin v7 \cup v10 => \A t \in Table : G!Total(v1[t]) >= 2 => G!Total(v1[t]) <= v4.pre[t]
  BY DEF G!GateInv, G!EffectShows, G!Subject, G!Duplicate
<1> HIDE DEF after
<1>5. G!Offenders(v4.pre, after) = {t \in Table : after[t] > v4.pre[t] /\ after[t] >= 2}
  BY DEF G!Offenders
<1>6. ASSUME NEW t \in Table, after[t] > v4.pre[t], after[t] >= 2, v4.file \notin v7 \cup v10 PROVE FALSE
  <2>1. after[t] \in Nat /\ v4.pre[t] \in Nat /\ G!Total(v1[t]) \in Nat /\ after[t] <= G!Total(v1[t])
    BY <1>2, <1>3
  <2>2. G!Total(v1[t]) <= v4.pre[t]
    BY <1>4, <1>6, <2>1
  <2> QED BY <1>6, <2>1, <2>2
<1>7. ASSUME catalogs = "both", v4.file \in v7
      PROVE  \E t \in Table : after[t] > v4.pre[t] /\ after[t] >= 2
  BY <1>3, <1>4, <1>7
<1>8. G!Offenders(v4.pre, after) # {} => v4.file \in v7 \cup v10
  BY <1>5, <1>6
<1>9. catalogs = "both" /\ v4.file \in v7 => G!Offenders(v4.pre, after) # {}
  BY <1>5, <1>7
<1> QED BY <1>8, <1>9 DEF after

\* What the gate notes is counted: a table whose issue is not recorded is a
\* fault.
LEMMA GateCounts ==
  ASSUME NEW offenders \in SUBSET Table, NEW noted \in SUBSET offenders
  PROVE  G!Cardinality(offenders \ noted) \in Nat
<1>1. IsFiniteSet(offenders \ noted)
  BY GateAssumption, FS_Subset
<1>2. Cardinality(offenders \ noted) \in Nat
  BY <1>1, FS_CardinalityType
<1>3. G!Cardinality(offenders \ noted) = Cardinality(offenders \ noted)
  BY Zenon DEF G!Cardinality, Cardinality
<1> QED BY <1>2, <1>3

\* The gate's verdict.
LEMMA GateRules == ASSUME G!GateInv, G!Gate PROVE G!GateInv'
<1> DEFINE RunSet == [at : {"idle", "claimed", "apply", "gate", "finish"}, file : File,
                      pre : [Table -> Nat], verdict : {"committed", "failed", "blocked"}]
           Off(c) == G!Offenders(v4.pre, G!Snapshot(c))
<1>1. G!TypeOK /\ v4 \in RunSet
  BY DEF G!GateInv, G!TypeOK
<1>2. v4.at = "gate" /\ UNCHANGED <<v1, v2, v3, v6, v7, v8, v10>>
  BY Zenon DEF G!Gate
<1>3. \E catalogs \in G!Catalogs : \E noted \in SUBSET Off(catalogs) :
         /\ G!Faults(G!Fault(catalogs # "both") + G!Cardinality(Off(catalogs) \ noted))
         /\ v4' = [v4 EXCEPT !.at = "finish",
                             !.verdict = IF Off(catalogs) = {} THEN "committed" ELSE "blocked"]
         /\ v5' = v5 \cup noted
         /\ v9' = IF catalogs = "both" THEN v9 ELSE v9 \cup {v4.file}
  BY Zenon DEF G!Gate, G!Records, G!Subject
<1> HIDE DEF Off
<1>4. PICK catalogs \in G!Catalogs : \E noted \in SUBSET Off(catalogs) :
         /\ G!Faults(G!Fault(catalogs # "both") + G!Cardinality(Off(catalogs) \ noted))
         /\ v4' = [v4 EXCEPT !.at = "finish",
                             !.verdict = IF Off(catalogs) = {} THEN "committed" ELSE "blocked"]
         /\ v5' = v5 \cup noted
         /\ v9' = IF catalogs = "both" THEN v9 ELSE v9 \cup {v4.file}
  BY <1>3, Zenon
<1>5. PICK noted \in SUBSET Off(catalogs) :
         /\ G!Faults(G!Fault(catalogs # "both") + G!Cardinality(Off(catalogs) \ noted))
         /\ v4' = [v4 EXCEPT !.at = "finish",
                             !.verdict = IF Off(catalogs) = {} THEN "committed" ELSE "blocked"]
         /\ v5' = v5 \cup noted
         /\ v9' = IF catalogs = "both" THEN v9 ELSE v9 \cup {v4.file}
  BY <1>4, Zenon
<1>6. /\ Off(catalogs) # {} => v4.file \in v7 \cup v10
      /\ catalogs = "both" /\ v4.file \in v7 => Off(catalogs) # {}
  BY <1>2, GateJudges, Zenon DEF Off
<1>7. Off(catalogs) \in SUBSET Table
  BY Zenon DEF Off, G!Offenders
<1>8. v11' \in 0..GateFaults
  <2>1. PICK n \in {0, 1} : n = G!Fault(catalogs # "both")
    BY GateFault, Zenon
  <2>2. PICK m \in Nat : m = G!Cardinality(Off(catalogs) \ noted)
    BY <1>7, GateCounts, Zenon
  <2>3. G!Faults(n + m)
    BY <1>5, <2>1, <2>2, Zenon
  <2>4. v11 \in 0..GateFaults
    BY <1>1 DEF G!TypeOK
  <2> QED BY <2>3, <2>4, GateAssumption DEF G!Faults
<1> DEFINE verdict == IF Off(catalogs) = {} THEN "committed" ELSE "blocked"
<1>9. v4' = [v4 EXCEPT !.at = "finish", !.verdict = verdict] /\ verdict \in {"committed", "blocked"}
  BY <1>5, Zenon
<1>10. /\ verdict = "blocked" => v4.file \in v7 \cup v10
       /\ catalogs = "both" /\ v4.file \in v7 => verdict = "blocked"
  BY <1>6, Zenon
<1>11. /\ v9 \subseteq v9' /\ v9' \subseteq v9 \cup {v4.file}
       /\ v4.file \notin v9' => catalogs = "both"
       /\ v5' \subseteq v5 \cup Table
  BY <1>5, <1>7
<1> HIDE DEF verdict
<1>12. v4'.at = "finish" /\ v4'.file = v4.file /\ v4'.verdict = verdict /\ v4' \in RunSet
  BY <1>1, <1>9
<1>13. G!TypeOK'
  BY <1>1, <1>2, <1>8, <1>11, <1>12 DEF G!TypeOK, G!Subject
<1>14. G!VerdictIsRight'
  BY <1>2, <1>10, <1>11, <1>12 DEF G!VerdictIsRight, G!Subject
<1>15. G!BreakingIsBlocked' /\ G!BlockedHasBroken'
  BY <1>2, <1>11, <1>12 DEF G!GateInv, G!BreakingIsBlocked, G!BlockedHasBroken
<1>16. G!AuditIsWhole'
  BY <1>2 DEF G!GateInv, G!AuditIsWhole
<1> QED BY <1>12, <1>13, <1>14, <1>15, <1>16
      DEF G!GateInv, G!NotJudgedYet, G!BaselineIsBelow, G!EffectShows

\* The run is over: its status is written, or lost.
LEMMA GateEnds == ASSUME G!GateInv, G!Finish \/ G!Dies PROVE G!GateInv'
<1> DEFINE RunSet == [at : {"idle", "claimed", "apply", "gate", "finish"}, file : File,
                      pre : [Table -> Nat], verdict : {"committed", "failed", "blocked"}]
<1>1. G!TypeOK /\ v4 \in RunSet
  BY DEF G!GateInv, G!TypeOK
<1>2. UNCHANGED <<v1, v2, v5, v6, v7, v10>> /\ v4' = G!Idle /\ v4.at # "idle"
  BY DEF G!Finish, G!Dies
<1>3. v4'.at = "idle" /\ v4'.verdict = "committed" /\ v4' \in RunSet
  BY <1>2, GateIdle
<1>4. \A g \in v7 : g \in v8' \cup v9'
  <2>1. CASE G!Finish
    <3>1. v4.at = "finish" /\ UNCHANGED v9 /\ v8' = IF v4.verdict = "blocked" THEN v8 \cup {v4.file} ELSE v8
      BY <2>1 DEF G!Finish, G!Subject
    <3>2. v4.file \in v7 \ (v8 \cup v9) => v4.verdict = "blocked"
      BY <3>1 DEF G!GateInv, G!VerdictIsRight, G!Subject
    <3> QED BY <3>1, <3>2 DEF G!GateInv, G!BreakingIsBlocked
  <2>2. CASE G!Dies
    <3>1. UNCHANGED v8 /\ v9' = IF v4.file \in v2 THEN v9 \cup {v4.file} ELSE v9
      BY <2>2 DEF G!Dies, G!Subject
    <3>2. v7 \subseteq v2
      BY <1>1 DEF G!TypeOK
    <3> QED BY <3>1, <3>2 DEF G!GateInv, G!BreakingIsBlocked
  <2> QED BY <2>1, <2>2
<1>5. v8' \subseteq v7 \cup v10 /\ v8' \subseteq File /\ v9' \subseteq File
  <2>1. CASE G!Finish
    <3>1. v4.at = "finish" /\ UNCHANGED v9 /\ v8' = IF v4.verdict = "blocked" THEN v8 \cup {v4.file} ELSE v8
      BY <2>1 DEF G!Finish, G!Subject
    <3>2. v4.verdict = "blocked" => v4.file \in v7 \cup v10
      BY <3>1 DEF G!GateInv, G!VerdictIsRight, G!Subject
    <3> QED BY <1>1, <3>1, <3>2 DEF G!GateInv, G!BlockedHasBroken, G!TypeOK
  <2>2. CASE G!Dies
    <3>1. UNCHANGED v8 /\ v9' \subseteq v9 \cup {v4.file}
      BY <2>2 DEF G!Dies, G!Subject
    <3> QED BY <1>1, <3>1 DEF G!GateInv, G!BlockedHasBroken, G!TypeOK
  <2> QED BY <2>1, <2>2
<1>6. v3' \in [File -> {"none", "queued", "applying", "committed", "failed"}] /\ v11' \in 0..GateFaults
  <2>1. CASE G!Finish
    <3>1. UNCHANGED v11 /\ v3' = [v3 EXCEPT ![v4.file] = IF v4.verdict = "blocked" THEN "failed" ELSE v4.verdict]
      BY <2>1 DEF G!Finish, G!Subject
    <3>2. v4.verdict \in {"committed", "failed", "blocked"}
      BY <1>1
    <3>3. (IF v4.verdict = "blocked" THEN "failed" ELSE v4.verdict) \in {"committed", "failed"}
      BY <3>2
    <3> QED BY <1>1, <3>1, <3>3 DEF G!TypeOK
  <2>2. CASE G!Dies
    <3>1. UNCHANGED v3 /\ v11 + 1 <= GateFaults /\ v11' = v11 + 1
      BY <2>2 DEF G!Dies, G!Faults
    <3> QED BY <1>1, <3>1, GateAssumption DEF G!TypeOK
  <2> QED BY <2>1, <2>2
<1>7. G!TypeOK'
  BY <1>1, <1>2, <1>3, <1>5, <1>6 DEF G!TypeOK, G!Subject
<1>8. G!BreakingIsBlocked' /\ G!BlockedHasBroken' /\ G!AuditIsWhole'
  BY <1>2, <1>4, <1>5 DEF G!GateInv, G!BreakingIsBlocked, G!BlockedHasBroken, G!AuditIsWhole
<1> QED BY <1>3, <1>7, <1>8 DEF G!GateInv, G!NotJudgedYet, G!BaselineIsBelow, G!EffectShows,
          G!VerdictIsRight

\* The audit, between the runs, of what is there.
LEMMA GateAudits == ASSUME G!GateInv, G!Audit PROVE G!GateInv'
<1>1. G!TypeOK
  BY DEF G!GateInv
<1>2. UNCHANGED <<v1, v2, v3, v4, v5, v7, v8, v9, v10>>
  BY Zenon DEF G!Audit
<1>3. \E catalogs \in G!Catalogs, n \in {0, 1}, fatal \in BOOLEAN :
        /\ G!Faults(n)
        /\ v6' = [ok |-> catalogs # "error" /\ ~G!SmokeFails(fatal)
                           /\ \A t \in Table : G!Counts(catalogs)[t] < 2,
                  duplicate |-> \E t \in Table : G!Duplicate(t), seen |-> catalogs]
  BY GateFault, Zenon DEF G!Audit
<1>4. PICK catalogs \in G!Catalogs, n \in {0, 1}, fatal \in BOOLEAN :
        /\ G!Faults(n)
        /\ v6' = [ok |-> catalogs # "error" /\ ~G!SmokeFails(fatal)
                           /\ \A t \in Table : G!Counts(catalogs)[t] < 2,
                  duplicate |-> \E t \in Table : G!Duplicate(t), seen |-> catalogs]
  BY <1>3, Zenon
<1>5. /\ v6'.ok <=> catalogs # "error" /\ ~G!SmokeFails(fatal) /\ \A t \in Table : G!Counts(catalogs)[t] < 2
      /\ v6'.duplicate <=> \E t \in Table : G!Duplicate(t)
      /\ v6'.seen = catalogs
  BY <1>4, Zenon
<1>6. /\ \A t \in Table : v1[t].idx \in Nat /\ v1[t].cons \in Nat /\ G!Total(v1[t]) = v1[t].idx + v1[t].cons
  <2>1. \A t \in Table : v1[t] \in [idx : Nat, cons : Nat]
    BY <1>1 DEF G!TypeOK
  <2> QED BY <2>1 DEF G!Total
<1>7. G!SmokeFails(fatal) => \E t \in Table : G!Duplicate(t)
  BY Zenon DEF G!SmokeFails
<1>8. catalogs = "both" => \A t \in Table : G!Counts(catalogs)[t] < 2 <=> ~G!Duplicate(t)
  <2> SUFFICES ASSUME catalogs = "both", NEW t \in Table PROVE G!Counts(catalogs)[t] < 2 <=> ~G!Duplicate(t)
    OBVIOUS
  <2>1. G!Counts(catalogs)[t] = G!Total(v1[t])
    BY Zenon DEF G!Counts
  <2> QED BY <1>6, <2>1 DEF G!Duplicate
<1>9. catalogs = "indexes" => \A t \in Table : G!Counts(catalogs)[t] < 2 \/ G!Duplicate(t)
  <2> SUFFICES ASSUME catalogs = "indexes", NEW t \in Table PROVE G!Counts(catalogs)[t] < 2 \/ G!Duplicate(t)
    OBVIOUS
  <2>1. G!Counts(catalogs)[t] = v1[t].idx
    BY DEF G!Counts
  <2> QED BY <1>6, <2>1 DEF G!Duplicate
<1>10. catalogs \in {"both", "indexes", "error"}
  BY DEF G!Catalogs
<1>11. G!AuditIsWhole'
  <2>1. v6'.ok => ~v6'.duplicate \/ v6'.seen = "indexes"
    BY <1>5, <1>8, <1>10, Zenon
  <2>2. ~v6'.ok => v6'.duplicate \/ v6'.seen = "error"
    BY <1>5, <1>7, <1>8, <1>9, <1>10, Zenon
  <2> QED BY <2>1, <2>2, Zenon DEF G!AuditIsWhole
<1>12. G!TypeOK'
  <2>1. v11' \in 0..GateFaults
    BY <1>1, <1>4, GateAssumption DEF G!TypeOK, G!Faults
  <2> QED BY <1>1, <1>2, <2>1 DEF G!TypeOK, G!Subject
<1> QED BY <1>2, <1>11, <1>12 DEF G!GateInv, G!NotJudgedYet, G!BaselineIsBelow, G!EffectShows,
          G!VerdictIsRight, G!BreakingIsBlocked, G!BlockedHasBroken, G!Subject, G!Duplicate

LEMMA GateStep == ASSUME G!GateInv, [G!Next]_(G!vars) PROVE G!GateInv'
<1>1. PICK f \in File : TRUE
  BY GateAssumption
<1>2. CASE \E g \in File : G!Enqueue(g) \/ G!Claim(g) \/ G!NightlyApplies(g)
  BY <1>2, GateWaits, GateNightly, Zenon
<1>3. CASE G!CountBefore \/ G!ApplyFails \/ G!AlreadyApplied \/ UNCHANGED G!vars
  BY <1>1, <1>3, GateWaits, Zenon
<1>4. CASE G!Apply \/ G!Gate \/ G!Finish \/ G!Dies \/ G!Audit
  BY <1>4, GateApplies, GateRules, GateEnds, GateAudits, Zenon
<1> QED BY <1>2, <1>3, <1>4, Zenon DEF G!Next

-----------------------------------------------------------------------------
(* The publish to D1: D.                                                   *)

\* What the publish at hand is about.
LEMMA PublishTypes ==
  ASSUME D!TypeOK
  PROVE  /\ v1 \in 0..PublishNights /\ v4 \in Nat /\ v4 <= PublishInserts /\ v5 \in Nat /\ v5 <= v4 + 1
         /\ v7 \in [D!Night -> [D!Chunk -> Nat]] /\ v8 \in Nat /\ v1 \in Nat /\ v1 \in D!Night
         /\ \A m \in D!Night, c \in D!Chunk : v7[m][c] \in Nat
         /\ D!Chunk = 1..PublishInserts /\ 1..v4 \subseteq D!Chunk
         /\ PublishInserts \in Nat
<1>1. v1 \in 0..PublishNights /\ v4 \in 0..PublishInserts /\ v8 \in 0..PublishNights /\ v5 \in 0..v4 + 1
      /\ v7 \in [D!Night -> [D!Chunk -> Nat]]
  BY DEF D!TypeOK, D!Night
<1> QED BY <1>1, PublishAssumption DEF D!Chunk, D!Night

\* A statement that D1 executes: the table is emptied, the night stamped, or
\* the rows of a chunk are added, unless they are refused.
LEMMA PublishExecutes ==
  ASSUME D!TypeOK, NEW k \in 0..v4 + 1, D!Executes(k), v1' = v1
  PROVE  /\ v7' \in [D!Night -> [D!Chunk -> Nat]] /\ v8' \in D!Night
         /\ v8' = v8 \/ (v8' = v1 /\ k = v4 + 1)
         /\ k = 0 => v8' = v8 /\ \A m \in D!Night, c \in D!Chunk : v7'[m][c] = 0
         /\ k # 0 => \A m \in D!Night, c \in D!Chunk : m # v1 \/ c # k => v7'[m][c] = v7[m][c]
         /\ k \in 1..v4 => \/ v7'[v1][k] = v7[v1][k] + 1
                           \/ D!Refused(k) /\ v7'[v1][k] = v7[v1][k]
<1>1. v4 \in Nat /\ v7 \in [D!Night -> [D!Chunk -> Nat]] /\ v1 \in D!Night /\ v8 \in D!Night /\ 1..v4 \subseteq D!Chunk
      /\ \A m \in D!Night, c \in D!Chunk : v7[m][c] \in Nat
  BY PublishTypes DEF D!TypeOK
<1>2. CASE D!Refused(k)
  <2>1. UNCHANGED <<v7, v8>> /\ k # 0
    BY <1>2 DEF D!Executes, D!server, D!Refused, D!Chunk
  <2> QED BY <1>1, <1>2, <2>1
<1>3. CASE ~D!Refused(k) /\ k = 0
  <2>1. v7' = D!None /\ v8' = v8
    BY <1>1, <1>3 DEF D!Executes
  <2> QED BY <1>1, <1>3, <2>1 DEF D!None
<1>4. CASE ~D!Refused(k) /\ k = v4 + 1
  <2>1. v8' = v1 /\ v7' = v7
    BY <1>1, <1>4 DEF D!Executes
  <2> QED BY <1>1, <1>4, <2>1
<1>5. CASE ~D!Refused(k) /\ k # 0 /\ k # v4 + 1
  <2>1. k \in 1..v4 /\ k \in D!Chunk
    BY <1>1, <1>5
  <2>2. v7' = [v7 EXCEPT ![v1][k] = @ + 1] /\ v8' = v8
    BY <1>1, <1>5 DEF D!Executes
  <2>3. v7[v1] \in [D!Chunk -> Nat] /\ v7[v1][k] + 1 \in Nat
    BY <1>1, <2>1
  <2>4. v7' = [v7 EXCEPT ![v1] = [v7[v1] EXCEPT ![k] = v7[v1][k] + 1]]
    BY <1>1, <2>1, <2>2, <2>3
  <2>5. v7' \in [D!Night -> [D!Chunk -> Nat]]
    BY <1>1, <2>1, <2>3, <2>4
  <2>6. \A m \in D!Night, c \in D!Chunk : v7'[m][c] = IF m = v1 /\ c = k THEN v7[v1][k] + 1 ELSE v7[m][c]
    BY <1>1, <2>1, <2>3, <2>4
  <2> QED BY <1>1, <1>5, <2>1, <2>2, <2>5, <2>6
<1> QED BY <1>2, <1>3, <1>4, <1>5

\* How a night ends, or comes to its comparison.
LEMMA PublishExits ==
  ASSUME D!TypeOK, NEW status \in {0, 1, 2, 137}, D!Exit(status)
  PROVE  /\ v12' \in {0, 1, 2, 137, 9} /\ v14' \in BOOLEAN
         /\ \/ status = 0 /\ v3' = "parity"
            \/ status # 0 /\ v3' = "over" /\ v14'
BY DEF D!TypeOK, D!Exit

LEMMA PublishInit == ASSUME D!Init PROVE D!PublishInv
<1>1. D!TypeOK
  <2>1. 1 \in D!Night /\ 0 \in D!Night /\ D!None \in [D!Night -> [D!Chunk -> Nat]]
    BY PublishAssumption DEF D!Night, D!None
  <2>2. [c \in D!Chunk |-> 1] \in [D!Chunk -> Nat]
    OBVIOUS
  <2>3. v7 \in [D!Night -> [D!Chunk -> Nat]]
    BY <2>1, <2>2 DEF D!Init
  <2>4. v4 \in 0..PublishInserts /\ v5 \in 0..v4 + 1 /\ v6 \in 0..PublishTries - 1
    BY PublishAssumption DEF D!Init
  <2>5. v2 \in BOOLEAN /\ v14 \in BOOLEAN
    BY Zenon DEF D!Init
  <2>6. v12 = 9 /\ v13 = 9
    BY DEF D!Init, D!NoRc
  <2> QED BY <2>1, <2>3, <2>4, <2>5, <2>6 DEF D!Init, D!TypeOK, D!NoRc, D!Killed
<1> QED BY <1>1 DEF D!Init, D!PublishInv, D!PublishInOrder, D!WholeSoFar, D!LoudUnlessFresh

\* The rows are fetched, or are not.
LEMMA PublishFetches == ASSUME D!PublishInv, D!Fetch PROVE D!PublishInv'
<1>1. D!TypeOK /\ D!PublishInOrder
  BY DEF D!PublishInv
<1>2. /\ v3 = "fetch" /\ v4 = 0 /\ v5 = 0 /\ v11 = {} /\ v10 = {} /\ v9 = {} /\ v8 # v1
      /\ UNCHANGED <<v1, v2, v7, v8, v9, v10, v11, v13>>
  BY <1>1, PublishTypes DEF D!Fetch, D!PublishInOrder, D!server
<1>3. ASSUME v4' \in {0, PublishInserts}, v3' = "send", v5' = 0, v6' = 0, UNCHANGED <<v12, v14>>
      PROVE  D!PublishInv'
  <2>1. v4' \in 0..PublishInserts /\ v5' \in 0..v4' + 1 /\ v6' \in 0..PublishTries - 1
    <3>1. PICK k \in Nat : k = v4' /\ k <= PublishInserts
      BY <1>3, PublishAssumption
    <3>4. k \in {0, PublishInserts}
      BY <1>3, <3>1
    <3>2. k \in 0..PublishInserts /\ 0 \in 0..k + 1
      BY <3>4, PublishAssumption
    <3>3. 0 \in 0..PublishTries - 1
      BY PublishAssumption
    <3> QED BY <1>3, <3>1, <3>2, <3>3
  <2>2. D!TypeOK'
    <3>1. v9' \cup v10' \cup v11' = {}
      BY <1>2
    <3> QED BY <1>1, <1>2, <1>3, <2>1, <3>1 DEF D!TypeOK
  <2>3. D!PublishInOrder'
    BY <1>1, <1>2, <1>3 DEF D!PublishInOrder
  <2> QED BY <1>3, <2>2, <2>3 DEF D!PublishInv, D!WholeSoFar, D!LoudUnlessFresh
<1>4. ASSUME NEW status \in {1, 2}, D!Exit(status), UNCHANGED D!client
      PROVE  D!PublishInv'
  <2>1. v12' \in {0, 1, 2, 137, 9} /\ v14' \in BOOLEAN /\ v3' = "over" /\ v14' /\ UNCHANGED <<v4, v5, v6>>
    BY <1>1, <1>4, PublishExits DEF D!client
  <2>2. D!TypeOK'
    BY <1>1, <1>2, <2>1 DEF D!TypeOK, D!Killed, D!NoRc
  <2> QED BY <1>1, <1>2, <2>1, <2>2 DEF D!PublishInv, D!PublishInOrder, D!WholeSoFar, D!LoudUnlessFresh
<1> QED BY <1>3, <1>4 DEF D!Fetch

\* A statement is answered.
LEMMA PublishAnswered == ASSUME D!PublishInv, D!Answered PROVE D!PublishInv'
<1>1. D!TypeOK /\ D!PublishInOrder /\ D!WholeSoFar
  BY DEF D!PublishInv
<1>2. /\ v3 = "send" /\ ~D!Refused(v5) /\ D!Executes(v5)
      /\ UNCHANGED <<v1, v2, v4, v9, v10, v11, v12, v13, v14>> /\ v6' = 0
      /\ \/ v5 = v4 + 1 /\ v3' = "assert" /\ v5' = v5
         \/ v5 # v4 + 1 /\ v3' = "send" /\ v5' = v5 + 1
  BY DEF D!Answered, D!Onward
<1>3. v5 \in 0..v4 + 1 /\ v5 \in Nat /\ v4 \in Nat /\ v1 \in D!Night /\ v8 <= v1 /\ v8 \in Nat /\ v1 \in Nat
      /\ \A m \in D!Night, c \in D!Chunk : v7[m][c] \in Nat
  BY <1>1, PublishTypes DEF D!TypeOK, D!PublishInOrder
<1>4. /\ v7' \in [D!Night -> [D!Chunk -> Nat]] /\ v8' \in D!Night
      /\ v8' = v8 \/ (v8' = v1 /\ v5 = v4 + 1)
      /\ v5 = 0 => v8' = v8 /\ \A m \in D!Night, c \in D!Chunk : v7'[m][c] = 0
      /\ v5 # 0 => \A m \in D!Night, c \in D!Chunk : m # v1 \/ c # v5 => v7'[m][c] = v7[m][c]
      /\ v5 \in 1..v4 => v7'[v1][v5] = v7[v1][v5] + 1
  BY <1>1, <1>2, <1>3, PublishExecutes
<1>5. v5' \in Nat /\ v5' <= v4 + 1 /\ v5' \in {v5, v5 + 1} /\ (v5' = v5 => v5 = v4 + 1 /\ v3' = "assert")
  BY <1>2, <1>3
<1>6. D!TypeOK'
  <2>1. v5' \in 0..v4 + 1 /\ v6' \in 0..PublishTries - 1
    BY <1>2, <1>3, <1>5, PublishAssumption
  <2> QED BY <1>1, <1>2, <1>4, <2>1 DEF D!TypeOK
<1>7. D!PublishInOrder'
  <2>1. v9 \cup v10 \cup v11 \subseteq 0..v5'
    BY <1>1, <1>3, <1>5 DEF D!PublishInOrder
  <2>2. v8' <= v1 /\ (v8' = v1 => v5' = v4 + 1)
    BY <1>1, <1>2, <1>3, <1>4 DEF D!PublishInOrder
  <2> QED BY <1>1, <1>2, <1>5, <2>1, <2>2 DEF D!PublishInOrder
<1>8. D!WholeSoFar'
  <2> SUFFICES ASSUME 0 \notin v10
      PROVE  /\ \A m \in D!Night \ {v1}, c \in D!Chunk : v7'[m][c] = 0
             /\ \A c \in 1..v4 :
                  /\ c < v5' => v7'[v1][c] > 0
                  /\ c \notin v11 => v7'[v1][c] <= 1
                  /\ c \notin v11 /\ (c > v5' \/ (c = v5' /\ v3' = "send") \/ c \in v9) => v7'[v1][c] = 0
    BY <1>2 DEF D!WholeSoFar
  <2>1. CASE v5 = 0
    <3>1. \A c \in 1..v4 : c \in D!Chunk /\ ~(c < v5')
      BY <1>1, <1>2, <2>1, PublishTypes
    <3> QED BY <1>3, <1>4, <2>1, <3>1
  <2>2. CASE v5 # 0
    <3>1. /\ \A m \in D!Night \ {v1}, c \in D!Chunk : v7[m][c] = 0
          /\ \A c \in 1..v4 :
               /\ c < v5 => v7[v1][c] > 0
               /\ c \notin v11 => v7[v1][c] <= 1
               /\ c \notin v11 /\ (c > v5 \/ c = v5 \/ c \in v9) => v7[v1][c] = 0
      BY <1>1, <1>2, <1>3, <2>2 DEF D!WholeSoFar
    <3>2. \A m \in D!Night \ {v1}, c \in D!Chunk : v7'[m][c] = 0
      BY <1>4, <2>2, <3>1
    <3>3. ASSUME NEW c \in 1..v4
          PROVE  /\ c < v5' => v7'[v1][c] > 0
                 /\ c \notin v11 => v7'[v1][c] <= 1
                 /\ c \notin v11 /\ (c > v5' \/ (c = v5' /\ v3' = "send") \/ c \in v9) => v7'[v1][c] = 0
      <4>1. c \in D!Chunk /\ c \in Nat /\ v7[v1][c] \in Nat
        BY <1>1, <1>3, PublishTypes
      <4>2. CASE c = v5
        <5>1. v7'[v1][c] = v7[v1][c] + 1 /\ v5' = v5 + 1
          BY <1>2, <1>3, <1>4, <4>2
        <5>2. c \in v9 => c \in v11
          BY <1>1, <1>2 DEF D!PublishInOrder
        <5> QED BY <1>3, <3>1, <4>1, <4>2, <5>1, <5>2
      <4>3. CASE c # v5
        <5>1. v7'[v1][c] = v7[v1][c]
          BY <1>3, <1>4, <2>2, <4>1, <4>3
        <5> QED BY <1>3, <1>5, <3>1, <4>1, <4>3, <5>1
      <4> QED BY <4>2, <4>3
    <3> QED BY <3>2, <3>3
  <2> QED BY <2>1, <2>2
<1>9. D!LoudUnlessFresh'
  BY <1>2 DEF D!LoudUnlessFresh
<1> QED BY <1>6, <1>7, <1>8, <1>9 DEF D!PublishInv

\* A statement is not answered: it is sent again, or the publish ends.  It
\* was executed, or is still out, or was not executed.
LEMMA PublishUnanswered == ASSUME D!PublishInv, D!Fails \/ D!TimesOut PROVE D!PublishInv'
<1>1. D!TypeOK /\ D!PublishInOrder /\ D!WholeSoFar
  BY DEF D!PublishInv
<1>2. /\ v3 = "send" /\ D!Failed /\ UNCHANGED <<v1, v2, v10, v13>>
      /\ \/ UNCHANGED <<v7, v8, v9>>
         \/ D!Executes(v5) /\ v9' = v9
         \/ v9' = v9 \cup {v5} /\ UNCHANGED <<v7, v8>>
  BY DEF D!Fails, D!TimesOut, D!server
<1>3. v5 \in 0..v4 + 1 /\ v5 \in Nat /\ v4 \in Nat /\ v1 \in D!Night /\ v8 <= v1 /\ v8 \in Nat /\ v1 \in Nat
      /\ \A m \in D!Night, c \in D!Chunk : v7[m][c] \in Nat
  BY <1>1, PublishTypes DEF D!TypeOK, D!PublishInOrder
<1>4. /\ UNCHANGED <<v4, v5>> /\ v6' \in 0..PublishTries - 1
      /\ v12' \in {0, 1, 2, 137, 9} /\ v14' \in BOOLEAN
      /\ \/ v3' = "send" /\ v11' = v11 \cup {v5}
         \/ v3' = "over" /\ v14' /\ v11' = v11
  <2>1. v6 \in 0..PublishTries - 1 /\ v12 \in {0, 1, 2, 137, 9} /\ v14 \in BOOLEAN
    BY <1>1 DEF D!TypeOK, D!Killed, D!NoRc
  <2>2. CASE D!Repeat /\ v11' = v11 \cup {v5}
    <3>1. v6 < PublishTries - 1 /\ v6' = v6 + 1 /\ UNCHANGED <<v3, v4, v5, v12, v14>>
      BY <2>2 DEF D!Repeat
    <3> QED BY <1>2, <2>1, <2>2, <3>1, PublishAssumption
  <2>3. CASE D!GiveUp /\ UNCHANGED v11
    <3>1. D!Exit(1) /\ UNCHANGED <<v4, v5, v6>>
      BY <2>3 DEF D!GiveUp, D!client
    <3> QED BY <1>1, <2>1, <2>3, <3>1, PublishExits
  <2> QED BY <1>2, <2>2, <2>3 DEF D!Failed
<1>5. /\ v7' \in [D!Night -> [D!Chunk -> Nat]] /\ v8' \in D!Night
      /\ v8' = v8 \/ (v8' = v1 /\ v5 = v4 + 1)
      /\ v5 # 0 => \A m \in D!Night, c \in D!Chunk : m # v1 \/ c # v5 => v7'[m][c] = v7[m][c]
      /\ v5 \in 1..v4 => \/ v7'[v1][v5] = v7[v1][v5] + 1 /\ v9' = v9
                         \/ v7'[v1][v5] = v7[v1][v5]
  <2>1. CASE D!Executes(v5) /\ v9' = v9
    BY <1>1, <1>2, <1>3, <2>1, PublishExecutes
  <2>2. CASE UNCHANGED <<v7, v8>>
    BY <1>1, <2>2 DEF D!TypeOK
  <2> QED BY <1>2, <2>1, <2>2
<1>6. v9' \subseteq v9 \cup {v5} /\ v9 \subseteq 0..v5 /\ v10 \subseteq 0..v5 /\ v11 \subseteq 0..v5 /\ v9 \subseteq v11
  BY <1>1, <1>2 DEF D!PublishInOrder
<1>7. v5 \in 0..v5 /\ 0..v5 \subseteq 0..v4 + 1
  BY <1>3
<1>8. D!TypeOK'
  <2>1. v9' \cup v10' \cup v11' \subseteq 0..v4 + 1
    BY <1>2, <1>4, <1>6, <1>7
  <2> QED BY <1>1, <1>2, <1>4, <1>5, <2>1 DEF D!TypeOK, D!Killed, D!NoRc
<1>9. D!PublishInOrder'
  <2>1. v9' \cup v10' \cup v11' \subseteq 0..v5
    BY <1>2, <1>4, <1>6, <1>7
  <2>2. v3' # "over" => v9' \subseteq v11'
    BY <1>4, <1>6
  <2>3. v8' <= v1 /\ (v8' = v1 => v5 = v4 + 1)
    BY <1>1, <1>3, <1>5 DEF D!PublishInOrder
  <2> QED BY <1>2, <1>4, <2>1, <2>2, <2>3 DEF D!PublishInOrder
<1>10. D!WholeSoFar'
  <2> SUFFICES ASSUME v5 > 0, 0 \notin v10
      PROVE  /\ \A m \in D!Night \ {v1}, c \in D!Chunk : v7'[m][c] = 0
             /\ \A c \in 1..v4 :
                  /\ c < v5 => v7'[v1][c] > 0
                  /\ c \notin v11' => v7'[v1][c] <= 1
                  /\ c \notin v11' /\ (c > v5 \/ (c = v5 /\ v3' = "send") \/ c \in v9') => v7'[v1][c] = 0
    BY <1>2, <1>4 DEF D!WholeSoFar
  <2>1. /\ \A m \in D!Night \ {v1}, c \in D!Chunk : v7[m][c] = 0
        /\ \A c \in 1..v4 :
             /\ c < v5 => v7[v1][c] > 0
             /\ c \notin v11 => v7[v1][c] <= 1
             /\ c \notin v11 /\ (c > v5 \/ c = v5 \/ c \in v9) => v7[v1][c] = 0
    BY <1>1, <1>2 DEF D!WholeSoFar
  <2>2. \A m \in D!Night \ {v1}, c \in D!Chunk : v7'[m][c] = 0
    BY <1>3, <1>5, <2>1
  <2>3. ASSUME NEW c \in 1..v4
        PROVE  /\ c < v5 => v7'[v1][c] > 0
               /\ c \notin v11' => v7'[v1][c] <= 1
               /\ c \notin v11' /\ (c > v5 \/ (c = v5 /\ v3' = "send") \/ c \in v9') => v7'[v1][c] = 0
    <3>1. c \in D!Chunk /\ c \in Nat /\ v7[v1][c] \in Nat
      BY <1>1, <1>3, PublishTypes
    <3>2. CASE c = v5
      <4>1. (v7'[v1][c] = v7[v1][c] + 1 /\ v9' = v9) \/ v7'[v1][c] = v7[v1][c]
        BY <1>5, <3>2
      <4>2. c \notin v11' => c \notin v11 /\ v3' = "over"
        BY <1>4, <3>2
      <4> QED BY <1>3, <1>6, <2>1, <3>1, <3>2, <4>1, <4>2
    <3>3. CASE c # v5
      <4>1. v7'[v1][c] = v7[v1][c]
        BY <1>3, <1>5, <3>1, <3>3
      <4>2. (c \in v11' <=> c \in v11) /\ (c \in v9' => c \in v9)
        BY <1>4, <1>6, <3>3
      <4> QED BY <2>1, <3>3, <4>1, <4>2
    <3> QED BY <3>2, <3>3
  <2> QED BY <2>2, <2>3
<1>11. D!LoudUnlessFresh'
  BY <1>4 DEF D!LoudUnlessFresh
<1> QED BY <1>8, <1>9, <1>10, <1>11 DEF D!PublishInv

\* A statement is executed that nobody waits for any more.
LEMMA PublishLate == ASSUME D!PublishInv, D!Late PROVE D!PublishInv'
<1>1. D!TypeOK /\ D!PublishInOrder /\ D!WholeSoFar
  BY DEF D!PublishInv
<1>2. PICK k \in v9 : D!Executes(k) /\ v9' = v9 \ {k} /\ v10' = v10 \cup {k}
  BY DEF D!Late
<1>3. UNCHANGED <<v1, v2, v3, v4, v5, v6, v11, v12, v13, v14>>
  BY DEF D!Late, D!client
<1>4. k \in 0..v5 /\ k \in 0..v4 + 1 /\ v9 \subseteq 0..v5 /\ v10 \subseteq 0..v5 /\ v5 \in Nat /\ v4 \in Nat
  <2>1. k \in 0..v5 /\ v9 \subseteq 0..v5 /\ v10 \subseteq 0..v5
    BY <1>1, <1>2 DEF D!PublishInOrder
  <2>2. v5 \in Nat /\ v5 <= v4 + 1 /\ v4 \in Nat
    BY <1>1, PublishTypes
  <2> QED BY <2>1, <2>2
<1>5. v1 \in D!Night /\ v8 <= v1 /\ v8 \in Nat /\ v1 \in Nat
      /\ \A m \in D!Night, c \in D!Chunk : v7[m][c] \in Nat
  BY <1>1, PublishTypes DEF D!PublishInOrder
<1>6. /\ v7' \in [D!Night -> [D!Chunk -> Nat]] /\ v8' \in D!Night
      /\ v8' = v8 \/ (v8' = v1 /\ k = v4 + 1)
      /\ k # 0 => \A m \in D!Night, c \in D!Chunk : m # v1 \/ c # k => v7'[m][c] = v7[m][c]
      /\ k \in 1..v4 => v7'[v1][k] \in {v7[v1][k], v7[v1][k] + 1}
  BY <1>1, <1>2, <1>3, <1>4, PublishExecutes
<1>7. k = v4 + 1 => v5 = v4 + 1
  BY <1>1, <1>4, PublishTypes
<1>8. D!TypeOK'
  <2>1. v9' \cup v10' \cup v11' \subseteq 0..v4 + 1
    BY <1>1, <1>2, <1>3, <1>4 DEF D!TypeOK
  <2> QED BY <1>1, <1>3, <1>6, <2>1 DEF D!TypeOK
<1>9. D!PublishInOrder'
  <2>1. v8' <= v1 /\ (v8' = v1 => v5 = v4 + 1)
    BY <1>1, <1>5, <1>6, <1>7 DEF D!PublishInOrder
  <2>2. v3 # "fetch"
    BY <1>1, <1>2 DEF D!PublishInOrder
  <2>3. v3 = "parity" => v8' = v1
    BY <1>1, <1>6 DEF D!PublishInOrder
  <2> QED BY <1>1, <1>2, <1>3, <1>4, <2>1, <2>2, <2>3 DEF D!PublishInOrder
<1>10. 0 \notin v10' => k # 0 /\ 0 \notin v10
  BY <1>2
<1>11. 0 \notin v10' => \A m \in D!Night, c \in D!Chunk : v7'[m][c] >= v7[m][c]
  <2> SUFFICES ASSUME k # 0, NEW m \in D!Night, NEW c \in D!Chunk PROVE v7'[m][c] >= v7[m][c]
    BY <1>10
  <2>1. CASE m # v1 \/ c # k
    <3>1. v7'[m][c] = v7[m][c]
      BY <1>6, <2>1
    <3> QED BY <1>5, <3>1
  <2>2. CASE m = v1 /\ c = k
    <3>1. CASE k \in 1..v4
      BY <1>5, <1>6, <2>2, <3>1
    <3>2. CASE k \notin 1..v4
      <4>1. k = v4 + 1 /\ ~D!Refused(k)
        BY <1>4, <3>2 DEF D!Refused
      <4>2. v7' = v7
        BY <1>2, <1>4, <4>1 DEF D!Executes
      <4> QED BY <1>5, <4>2
    <3> QED BY <3>1, <3>2
  <2> QED BY <2>1, <2>2
<1>12. D!WholeSoFar'
  <2> SUFFICES ASSUME v5 > 0, 0 \notin v10'
      PROVE  /\ \A m \in D!Night \ {v1}, c \in D!Chunk : v7'[m][c] = 0
             /\ \A c \in 1..v4 :
                  /\ c < v5 => v7'[v1][c] > 0
                  /\ c \notin v11 => v7'[v1][c] <= 1
                  /\ c \notin v11 /\ (c > v5 \/ (c = v5 /\ v3 = "send") \/ c \in v9') => v7'[v1][c] = 0
    BY <1>3 DEF D!WholeSoFar
  <2>1. /\ \A m \in D!Night \ {v1}, c \in D!Chunk : v7[m][c] = 0
        /\ \A c \in 1..v4 :
             /\ c < v5 => v7[v1][c] > 0
             /\ c \notin v11 => v7[v1][c] <= 1
             /\ c \notin v11 /\ (c > v5 \/ (c = v5 /\ v3 = "send") \/ c \in v9) => v7[v1][c] = 0
    BY <1>1, <1>10 DEF D!WholeSoFar
  <2>2. \A m \in D!Night \ {v1}, c \in D!Chunk : v7'[m][c] = 0
    BY <1>6, <1>10, <2>1
  <2>3. ASSUME NEW c \in 1..v4
        PROVE  /\ c < v5 => v7'[v1][c] > 0
               /\ c \notin v11 => v7'[v1][c] <= 1
               /\ c \notin v11 /\ (c > v5 \/ (c = v5 /\ v3 = "send") \/ c \in v9') => v7'[v1][c] = 0
    <3>1. c \in D!Chunk /\ c \in Nat /\ v7[v1][c] \in Nat
      BY <1>1, <1>5, PublishTypes
    <3>2. CASE c = k
      <4>1. v7'[v1][c] \in {v7[v1][c], v7[v1][c] + 1} /\ c \notin v9'
        BY <1>2, <1>6, <3>2
      <4>2. c \notin v11 => v7[v1][c] = 0 /\ v3 = "over" /\ c <= v5
        <5>1. v3 # "over" => v9 \subseteq v11
          BY <1>1 DEF D!PublishInOrder
        <5> QED BY <1>2, <1>4, <2>1, <3>2, <5>1
      <4> QED BY <1>4, <2>1, <3>1, <4>1, <4>2
    <3>3. CASE c # k
      <4>1. v7'[v1][c] = v7[v1][c]
        BY <1>5, <1>6, <1>10, <3>1, <3>3
      <4> QED BY <1>2, <2>1, <3>3, <4>1
    <3> QED BY <3>2, <3>3
  <2> QED BY <2>2, <2>3
<1>13. D!LoudUnlessFresh'
  <2> SUFFICES ASSUME v3 = "over", ~v14, 0 \notin v10' PROVE v8' = v1 /\ (v13 = 2 \/ ~D!Gone')
    BY <1>3 DEF D!LoudUnlessFresh
  <2>1. v8 = v1 /\ (v13 = 2 \/ ~D!Gone)
    BY <1>10 DEF D!PublishInv, D!LoudUnlessFresh
  <2>2. ~D!Gone => ~D!Gone'
    <3> SUFFICES ASSUME NEW m \in D!Night, NEW c \in D!Chunk, v7[m][c] # 0 PROVE v7'[m][c] # 0
      BY DEF D!Gone
    <3>1. v7[m][c] \in Nat /\ v7'[m][c] >= v7[m][c] /\ v7'[m][c] \in Nat
      BY <1>5, <1>6, <1>11
    <3> QED BY <3>1
  <2> QED BY <1>6, <2>1, <2>2
<1> QED BY <1>8, <1>9, <1>12, <1>13 DEF D!PublishInv

\* The budget is spent, the freshness is asserted, the time is up.
LEMMA PublishEnds ==
  ASSUME D!PublishInv, D!OverBudget \/ D!AssertFresh \/ D!Kill
  PROVE  D!PublishInv'
<1>1. D!TypeOK /\ D!PublishInOrder /\ D!WholeSoFar
  BY DEF D!PublishInv
<1>2. UNCHANGED <<v1, v2, v4, v5, v6, v7, v8, v10, v11, v13>>
  BY DEF D!OverBudget, D!AssertFresh, D!Kill, D!client, D!server
<1>3. PICK status \in {0, 1, 2, 137} :
        /\ D!Exit(status)
        /\ \/ v3 = "send" /\ status # 0 /\ v9' \in {v9, v9 \cup {v5}}
           \/ v3 = "assert" /\ (status = 0 => v8 = v1) /\ v9' = v9
           \/ v3 = "fetch" /\ status # 0 /\ v9' = v9
  BY DEF D!OverBudget, D!AssertFresh, D!Kill, D!Killed
<1>4. /\ v12' \in {0, 1, 2, 137, 9} /\ v14' \in BOOLEAN
      /\ \/ status = 0 /\ v3' = "parity"
         \/ status # 0 /\ v3' = "over" /\ v14'
  BY <1>1, <1>3, PublishExits
<1>5. v9' \subseteq 0..v5 /\ v5 \in Nat /\ v4 \in Nat /\ v5 <= v4 + 1 /\ v9 \subseteq 0..v5
  <2>1. v5 \in Nat /\ v4 \in Nat /\ v5 <= v4 + 1 /\ v9 \subseteq 0..v5 /\ v5 \in 0..v5
    BY <1>1, PublishTypes DEF D!PublishInOrder
  <2> QED BY <1>3, <2>1
<1>6. D!TypeOK'
  <2>1. v9' \cup v10' \cup v11' \subseteq 0..v4 + 1
    <3>1. 0..v5 \subseteq 0..v4 + 1
      BY <1>5
    <3> QED BY <1>1, <1>2, <1>5, <3>1 DEF D!TypeOK
  <2> QED BY <1>1, <1>2, <1>4, <2>1 DEF D!TypeOK, D!Killed, D!NoRc
<1>7. D!PublishInOrder'
  BY <1>1, <1>2, <1>3, <1>4, <1>5 DEF D!PublishInOrder
<1>8. D!WholeSoFar'
  <2> SUFFICES ASSUME v5 > 0, 0 \notin v10,
                      NEW c \in 1..v4, c \notin v11, c \in v9'
      PROVE  v7[v1][c] = 0
    BY <1>1, <1>2, <1>4 DEF D!WholeSoFar
  <2>1. CASE c \in v9
    BY <1>1, <2>1 DEF D!WholeSoFar
  <2>2. CASE c \notin v9
    <3>1. c = v5 /\ v3 = "send"
      BY <1>3, <2>2
    <3> QED BY <1>1, <3>1 DEF D!WholeSoFar
  <2> QED BY <2>1, <2>2
<1>9. D!LoudUnlessFresh'
  BY <1>4 DEF D!LoudUnlessFresh
<1> QED BY <1>6, <1>7, <1>8, <1>9 DEF D!PublishInv

\* The comparison with Supabase, and the next night.
LEMMA PublishCompared == ASSUME D!PublishInv, D!Compare \/ D!NextNight PROVE D!PublishInv'
<1>1. D!TypeOK /\ D!PublishInOrder /\ D!WholeSoFar
  BY DEF D!PublishInv
<1>2. ASSUME D!Compare PROVE D!PublishInv'
  <2>1. /\ v3 = "parity" /\ v3' = "over" /\ v13' \in (IF D!Gone THEN {1, 2} ELSE {0, 1, 2})
        /\ v14' = (v14 \/ v13' = 1)
        /\ UNCHANGED <<v1, v2, v4, v5, v6, v7, v8, v9, v10, v11, v12>>
    BY <1>2 DEF D!Compare, D!client, D!server
  <2>2. v13' \in {0, 1, 2} /\ (D!Gone => v13' \in {1, 2})
    BY <2>1
  <2>3. D!TypeOK'
    <3>1. v14' \in BOOLEAN
      BY <1>1, <2>1 DEF D!TypeOK
    <3> QED BY <1>1, <2>1, <2>2, <3>1 DEF D!TypeOK, D!NoRc
  <2>4. D!PublishInOrder'
    BY <1>1, <2>1 DEF D!PublishInOrder
  <2>5. D!WholeSoFar'
    BY <1>1, <2>1 DEF D!WholeSoFar
  <2>6. D!LoudUnlessFresh'
    <3> SUFFICES ASSUME ~v14' PROVE v8 = v1 /\ (v13' = 2 \/ ~D!Gone)
      BY <2>1 DEF D!LoudUnlessFresh, D!Gone
    <3>1. v13' # 1
      BY <2>1, Zenon
    <3> QED BY <1>1, <2>1, <2>2, <3>1 DEF D!PublishInOrder
  <2> QED BY <2>3, <2>4, <2>5, <2>6 DEF D!PublishInv
<1>3. ASSUME D!NextNight PROVE D!PublishInv'
  <2>1. /\ v1 < PublishNights /\ v1' = v1 + 1 /\ v3' = "fetch" /\ v4' = 0 /\ v5' = 0 /\ v6' = 0
        /\ v9' = {} /\ v10' = {} /\ v11' = {} /\ v12' = 9 /\ v13' = 9 /\ v14' = FALSE
        /\ UNCHANGED <<v2, v7, v8>>
    BY <1>3 DEF D!NextNight, D!server, D!NoRc
  <2>2. v1' \in D!Night /\ v8 \in Nat /\ v8 <= v1 /\ v1 \in Nat
    BY <1>1, <2>1, PublishTypes, PublishAssumption DEF D!Night, D!PublishInOrder
  <2>3. D!TypeOK'
    <3>1. 0 \in 0..PublishInserts /\ v5' \in 0..v4' + 1 /\ v6' \in 0..PublishTries - 1
      BY <2>1, PublishAssumption
    <3> QED BY <1>1, <2>1, <2>2, <3>1 DEF D!TypeOK, D!NoRc
  <2>4. v8' <= v1' /\ v8' # v1'
    BY <2>1, <2>2
  <2> QED BY <2>1, <2>3, <2>4 DEF D!PublishInv, D!PublishInOrder, D!WholeSoFar, D!LoudUnlessFresh
<1> QED BY <1>2, <1>3

LEMMA PublishStep == ASSUME D!PublishInv, [D!Next]_(D!vars) PROVE D!PublishInv'
<1>1. CASE UNCHANGED D!vars
  <2>1. UNCHANGED <<v1, v2, v3, v4, v5, v6, v7, v8, v9, v10, v11, v12, v13, v14>>
    BY <1>1 DEF D!vars, D!client, D!server
  <2> QED BY <2>1 DEF D!PublishInv, D!TypeOK, D!PublishInOrder, D!WholeSoFar, D!LoudUnlessFresh, D!Gone
<1> QED BY <1>1, PublishFetches, PublishAnswered, PublishUnanswered, PublishLate, PublishEnds,
          PublishCompared, Zenon DEF D!Next

\* A meta row of tonight vouches for the table.
LEMMA PublishIsWhole == ASSUME D!PublishInv PROVE D!FreshMeansWhole
<1> SUFFICES ASSUME v8 = v1, 0 \notin v10
             PROVE  /\ ~D!Mixed
                    /\ \A c \in 1..v4 : v7[v1][c] > 0 /\ (c \notin v11 => v7[v1][c] = 1)
  BY DEF D!FreshMeansWhole
<1>1. D!TypeOK /\ v5 = v4 + 1 /\ v4 \in Nat
  BY PublishTypes DEF D!PublishInv, D!PublishInOrder
<1>2. /\ \A m \in D!Night \ {v1}, c \in D!Chunk : v7[m][c] = 0
      /\ \A c \in 1..v4 : v7[v1][c] > 0 /\ (c \notin v11 => v7[v1][c] <= 1)
  BY <1>1 DEF D!PublishInv, D!WholeSoFar
<1>3. \A c \in 1..v4 : v7[v1][c] \in Nat
  BY <1>1, PublishTypes
<1> QED BY <1>2, <1>3 DEF D!Mixed

-----------------------------------------------------------------------------
(* One behaviour runs one job: what its module keeps, Jobs keeps.          *)

JobNames == {"compaction", "d1", "report", "watchdog", "review", "merge", "dns", "spf",
             "flip", "escrow", "backup", "calls", "reads", "gate"}
JobsInv ==
  /\ job \in JobNames
  /\ job = "compaction" => C!CompactInv
  /\ job = "d1" => D!PublishInv
  /\ job = "report" => R!ReportInv
  /\ job = "watchdog" => W!WatchInv
  /\ job = "review" => V!ReviewInv
  /\ job = "merge" => P!MergeInv
  /\ job = "dns" => S!SweepInv
  /\ job = "spf" => F!WalkInv
  /\ job = "flip" => M!FlipInv
  /\ job = "escrow" => E!EscrowInv
  /\ job = "backup" => B!BackupInv
  /\ job = "calls" => T!CallsInv
  /\ job = "reads" => Q!ReadInv
  /\ job = "gate" => G!GateInv

LEMMA JobsInitInv == JobsInit => JobsInv
<1> SUFFICES ASSUME JobsInit PROVE JobsInv
  OBVIOUS
<1>1. job \in JobNames
  BY DEF JobsInit, JobNames
<1>2. ASSUME job = "compaction" PROVE C!CompactInv
  <2>1. C!Init
    BY <1>2 DEF JobsInit
  <2> QED BY <2>1, CompactInit
<1>3. ASSUME job = "d1" PROVE D!PublishInv
  <2>1. D!Init
    BY <1>3 DEF JobsInit
  <2> QED BY <2>1, PublishInit
<1>4. ASSUME job = "report" PROVE R!ReportInv
  <2>1. R!Init
    BY <1>4 DEF JobsInit
  <2> QED BY <2>1, ReportInit
<1>5. ASSUME job = "watchdog" PROVE W!WatchInv
  <2>1. W!Init
    BY <1>5 DEF JobsInit
  <2> QED BY <2>1, WatchInit
<1>6. ASSUME job = "review" PROVE V!ReviewInv
  <2>1. V!Init
    BY <1>6 DEF JobsInit
  <2> QED BY <2>1, ReviewInit
<1>7. ASSUME job = "merge" PROVE P!MergeInv
  <2>1. P!Init
    BY <1>7 DEF JobsInit
  <2> QED BY <2>1, MergeInit
<1>8. ASSUME job = "dns" PROVE S!SweepInv
  <2>1. S!Init
    BY <1>8 DEF JobsInit
  <2> QED BY <2>1, SweepInit
<1>9. ASSUME job = "spf" PROVE F!WalkInv
  <2>1. F!Init
    BY <1>9 DEF JobsInit
  <2> QED BY <2>1, WalkInit
<1>10. ASSUME job = "flip" PROVE M!FlipInv
  <2>1. M!Init
    BY <1>10 DEF JobsInit
  <2> QED BY <2>1, FlipInit
<1>11. ASSUME job = "escrow" PROVE E!EscrowInv
  <2>1. E!Init
    BY <1>11 DEF JobsInit
  <2> QED BY <2>1, VaultInit
<1>12. ASSUME job = "backup" PROVE B!BackupInv
  <2>1. B!Init
    BY <1>12 DEF JobsInit
  <2> QED BY <2>1, BackupInit
<1>13. ASSUME job = "calls" PROVE T!CallsInv
  <2>1. T!Init
    BY <1>13 DEF JobsInit
  <2> QED BY <2>1, CallsInit
<1>14. ASSUME job = "reads" PROVE Q!ReadInv
  <2>1. Q!Init
    BY <1>14 DEF JobsInit
  <2> QED BY <2>1, ReadInit
<1>15. ASSUME job = "gate" PROVE G!GateInv
  <2>1. G!Init
    BY <1>15 DEF JobsInit
  <2> QED BY <2>1, GateInit
<1> QED BY <1>1, <1>2, <1>3, <1>4, <1>5, <1>6, <1>7, <1>8, <1>9, <1>10, <1>11, <1>12, <1>13, <1>14, <1>15 DEF JobsInv

LEMMA JobsStepInv == JobsInv /\ [JobsNext]_jobsVars => JobsInv'
<1> SUFFICES ASSUME JobsInv, [JobsNext]_jobsVars PROVE JobsInv'
  OBVIOUS
<1>1. job' = job
  BY DEF JobsNext, jobsVars
<1>2. job' \in JobNames
  BY <1>1 DEF JobsInv
<1>3. ASSUME job = "compaction" PROVE C!CompactInv'
  <2>1. CASE JobsNext
    <3>1. C!Next
      BY <1>3, <2>1 DEF JobsNext
    <3> QED BY <1>3, <3>1, CompactStep DEF JobsInv
  <2>2. CASE UNCHANGED jobsVars
    <3>1. UNCHANGED C!vars
      BY <2>2 DEF jobsVars, C!vars, C!staging, C!counts, C!history
    <3> QED BY <1>3, <3>1, CompactStep DEF JobsInv
  <2> QED BY <2>1, <2>2
<1>4. ASSUME job = "d1" PROVE D!PublishInv'
  <2>1. CASE JobsNext
    <3>1. D!Next
      BY <1>4, <2>1 DEF JobsNext
    <3> QED BY <1>4, <3>1, PublishStep DEF JobsInv
  <2>2. CASE UNCHANGED jobsVars
    <3>1. UNCHANGED D!vars
      BY <2>2 DEF jobsVars, D!vars, D!client, D!server
    <3> QED BY <1>4, <3>1, PublishStep DEF JobsInv
  <2> QED BY <2>1, <2>2
<1>5. ASSUME job = "report" PROVE R!ReportInv'
  <2>1. CASE JobsNext
    <3>1. R!Next
      BY <1>5, <2>1 DEF JobsNext
    <3> QED BY <1>5, <3>1, ReportStep DEF JobsInv
  <2>2. CASE UNCHANGED jobsVars
    <3>1. UNCHANGED R!vars
      BY <2>2 DEF jobsVars, R!vars, R!scripts, R!night
    <3> QED BY <1>5, <3>1, ReportStep DEF JobsInv
  <2> QED BY <2>1, <2>2
<1>6. ASSUME job = "watchdog" PROVE W!WatchInv'
  <2>1. CASE JobsNext
    <3>1. W!Next
      BY <1>6, <2>1 DEF JobsNext
    <3> QED BY <1>6, <3>1, WatchStep DEF JobsInv
  <2>2. CASE UNCHANGED jobsVars
    <3>1. UNCHANGED W!vars
      BY <2>2 DEF jobsVars, W!vars, W!world
    <3> QED BY <1>6, <3>1, WatchStep DEF JobsInv
  <2> QED BY <2>1, <2>2
<1>7. ASSUME job = "review" PROVE V!ReviewInv'
  <2>1. CASE JobsNext
    <3>1. V!Next
      BY <1>7, <2>1 DEF JobsNext
    <3> QED BY <1>7, <3>1, ReviewStep DEF JobsInv
  <2>2. CASE UNCHANGED jobsVars
    <3>1. UNCHANGED V!vars
      BY <2>2 DEF jobsVars, V!vars
    <3> QED BY <1>7, <3>1, ReviewStep DEF JobsInv
  <2> QED BY <2>1, <2>2
<1>8. ASSUME job = "merge" PROVE P!MergeInv'
  <2>1. CASE JobsNext
    <3>1. P!Next
      BY <1>8, <2>1 DEF JobsNext
    <3> QED BY <1>8, <3>1, MergeStep DEF JobsInv
  <2>2. CASE UNCHANGED jobsVars
    <3>1. UNCHANGED P!vars
      BY <2>2 DEF jobsVars, P!vars
    <3> QED BY <1>8, <3>1, MergeStep DEF JobsInv
  <2> QED BY <2>1, <2>2
<1>9. ASSUME job = "dns" PROVE S!SweepInv'
  <2>1. CASE JobsNext
    <3>1. S!Next
      BY <1>9, <2>1 DEF JobsNext
    <3> QED BY <1>9, <3>1, SweepStep DEF JobsInv
  <2>2. CASE UNCHANGED jobsVars
    <3>1. UNCHANGED S!vars
      BY <2>2 DEF jobsVars, S!vars
    <3> QED BY <1>9, <3>1, SweepStep DEF JobsInv
  <2> QED BY <2>1, <2>2
<1>10. ASSUME job = "spf" PROVE F!WalkInv'
  <2>1. CASE JobsNext
    <3>1. F!Next
      BY <1>10, <2>1 DEF JobsNext
    <3> QED BY <1>10, <3>1, WalkStep DEF JobsInv
  <2>2. CASE UNCHANGED jobsVars
    <3>1. UNCHANGED F!vars
      BY <2>2 DEF jobsVars, F!vars
    <3> QED BY <1>10, <3>1, WalkStep DEF JobsInv
  <2> QED BY <2>1, <2>2
<1>11. ASSUME job = "flip" PROVE M!FlipInv'
  <2>1. CASE JobsNext
    <3>1. M!Next
      BY <1>11, <2>1 DEF JobsNext
    <3> QED BY <1>11, <3>1, FlipStep DEF JobsInv
  <2>2. CASE UNCHANGED jobsVars
    <3>1. UNCHANGED M!vars
      BY <2>2 DEF jobsVars, M!vars
    <3> QED BY <1>11, <3>1, FlipStep DEF JobsInv
  <2> QED BY <2>1, <2>2
<1>12. ASSUME job = "escrow" PROVE E!EscrowInv'
  <2>1. CASE JobsNext
    <3>1. E!Next
      BY <1>12, <2>1 DEF JobsNext
    <3> QED BY <1>12, <3>1, VaultStep DEF JobsInv
  <2>2. CASE UNCHANGED jobsVars
    <3>1. UNCHANGED E!vars
      BY <2>2 DEF jobsVars, E!vars
    <3> QED BY <1>12, <3>1, VaultStep DEF JobsInv
  <2> QED BY <2>1, <2>2
<1>13. ASSUME job = "backup" PROVE B!BackupInv'
  <2>1. CASE JobsNext
    <3>1. B!Next
      BY <1>13, <2>1 DEF JobsNext
    <3> QED BY <1>13, <3>1, BackupStep DEF JobsInv
  <2>2. CASE UNCHANGED jobsVars
    <3>1. UNCHANGED B!vars
      BY <2>2 DEF jobsVars, B!vars
    <3> QED BY <1>13, <3>1, BackupStep DEF JobsInv
  <2> QED BY <2>1, <2>2
<1>14. ASSUME job = "calls" PROVE T!CallsInv'
  <2>1. CASE JobsNext
    <3>1. T!Next
      BY <1>14, <2>1 DEF JobsNext
    <3> QED BY <1>14, <3>1, CallsStep DEF JobsInv
  <2>2. CASE UNCHANGED jobsVars
    <3>1. UNCHANGED T!vars
      BY <2>2 DEF jobsVars, T!vars
    <3> QED BY <1>14, <3>1, CallsStep DEF JobsInv
  <2> QED BY <2>1, <2>2
<1>15. ASSUME job = "reads" PROVE Q!ReadInv'
  <2>1. CASE JobsNext
    <3>1. Q!Next
      BY <1>15, <2>1 DEF JobsNext
    <3> QED BY <1>15, <3>1, ReadStep DEF JobsInv
  <2>2. CASE UNCHANGED jobsVars
    <3>1. UNCHANGED Q!vars
      BY <2>2 DEF jobsVars, Q!vars
    <3> QED BY <1>15, <3>1, ReadStep DEF JobsInv
  <2> QED BY <2>1, <2>2
<1>16. ASSUME job = "gate" PROVE G!GateInv'
  <2>1. CASE JobsNext
    <3>1. G!Next
      BY <1>16, <2>1 DEF JobsNext
    <3> QED BY <1>16, <3>1, GateStep DEF JobsInv
  <2>2. CASE UNCHANGED jobsVars
    <3>1. UNCHANGED G!vars
      BY <2>2 DEF jobsVars, G!vars
    <3> QED BY <1>16, <3>1, GateStep DEF JobsInv
  <2> QED BY <2>1, <2>2
<1> QED BY <1>1, <1>2, <1>3, <1>4, <1>5, <1>6, <1>7, <1>8, <1>9, <1>10, <1>11, <1>12, <1>13, <1>14, <1>15, <1>16 DEF JobsInv

(* Whichever job runs, and for any values of its constants, what its       *)
(* module's invariant says holds from its first step to its last: of the   *)
(* compaction with its restore in two renames, the publish to D1, the      *)
(* report's scripts, the watchdogs with their state files, the moderator   *)
(* with its notes and unread sources, the gate, the merge, the sweep and   *)
(* the walk, the flip, the vault, the backup, the transcripts and the read *)
(* API.                                                                    *)
THEOREM JobsInvariance == JobsSpec => []JobsInv
BY JobsInitInv, JobsStepInv, PTL DEF JobsSpec

(* Every variable of the job that runs keeps its type: in particular no    *)
(* counter leaves its range and no step, phase or verdict is one the       *)
(* scripts do not have.                                                    *)
THEOREM JobsTypes == JobsSpec => []TypesOK
<1>1. JobsInv => TypesOK
  <2> SUFFICES ASSUME JobsInv PROVE TypesOK
    OBVIOUS
  <2>1. job \in JobNames
    BY DEF JobsInv
  <2>2. CASE job = "compaction"
    <3>1. C!TypeOK
      BY <2>2 DEF JobsInv, C!CompactInv
    <3> QED BY <2>2, <3>1 DEF TypesOK
  <2>3. CASE job = "d1"
    <3>1. D!TypeOK
      BY <2>3 DEF JobsInv, D!PublishInv
    <3> QED BY <2>3, <3>1 DEF TypesOK
  <2>4. CASE job = "report"
    <3>1. R!TypeOK
      BY <2>4 DEF JobsInv, R!ReportInv
    <3> QED BY <2>4, <3>1 DEF TypesOK
  <2>5. CASE job = "watchdog"
    <3>1. W!TypeOK
      BY <2>5 DEF JobsInv, W!WatchInv
    <3> QED BY <2>5, <3>1 DEF TypesOK
  <2>6. CASE job = "review"
    <3>1. V!TypeOK
      BY <2>6 DEF JobsInv, V!ReviewInv
    <3> QED BY <2>6, <3>1 DEF TypesOK
  <2>7. CASE job = "merge"
    <3>1. P!TypeOK
      BY <2>7 DEF JobsInv, P!MergeInv
    <3> QED BY <2>7, <3>1 DEF TypesOK
  <2>8. CASE job = "dns"
    <3>1. S!TypeOK
      BY <2>8 DEF JobsInv, S!SweepInv
    <3> QED BY <2>8, <3>1 DEF TypesOK
  <2>9. CASE job = "spf"
    <3>1. F!TypeOK
      BY <2>9 DEF JobsInv, F!WalkInv
    <3> QED BY <2>9, <3>1 DEF TypesOK
  <2>10. CASE job = "flip"
    <3>1. M!TypeOK
      BY <2>10 DEF JobsInv, M!FlipInv
    <3> QED BY <2>10, <3>1 DEF TypesOK
  <2>11. CASE job = "escrow"
    <3>1. E!TypeOK
      BY <2>11 DEF JobsInv, E!EscrowInv
    <3> QED BY <2>11, <3>1 DEF TypesOK
  <2>12. CASE job = "backup"
    <3>1. B!TypeOK
      BY <2>12 DEF JobsInv, B!BackupInv
    <3> QED BY <2>12, <3>1 DEF TypesOK
  <2>13. CASE job = "calls"
    <3>1. T!TypeOK
      BY <2>13 DEF JobsInv, T!CallsInv
    <3> QED BY <2>13, <3>1 DEF TypesOK
  <2>14. CASE job = "reads"
    <3>1. Q!TypeOK
      BY <2>14 DEF JobsInv, Q!ReadInv
    <3> QED BY <2>14, <3>1 DEF TypesOK
  <2>15. CASE job = "gate"
    <3>1. G!TypeOK
      BY <2>15 DEF JobsInv, G!GateInv
    <3> QED BY <2>15, <3>1 DEF TypesOK
  <2> QED BY <2>1, <2>2, <2>3, <2>4, <2>5, <2>6, <2>7, <2>8, <2>9, <2>10, <2>11, <2>12, <2>13, <2>14, <2>15 DEF JobNames
<1> QED BY <1>1, JobsInvariance, PTL

(* two_key_merge.py: what GitHub merges by itself has both keys and        *)
(* destroys nothing, and no marker holds it, unless the author pushed or   *)
(* marked after the run that armed the merge has looked; whatever the      *)
(* contents are and however often the author intervenes.                   *)
THEOREM MergesStayAgreed == JobsSpec => []MergesAreAgreed
<1>1. JobsInv => MergesAreAgreed
  <2> SUFFICES ASSUME JobsInv PROVE MergesAreAgreed
    OBVIOUS
  <2>1. ASSUME job = "merge" PROVE P!KeysBeforeMerge /\ P!HoldRespected
    BY <2>1 DEF JobsInv, P!MergeInv
  <2> QED BY <2>1 DEF MergesAreAgreed
<1> QED BY <1>1, JobsInvariance, PTL

(* sources/dns.py, entities/dns_sweep.py, entities/domain.py: a blocklist  *)
(* that did not answer is not a clean one, a lookup that failed is noted   *)
(* or is one of the silent, core.domain says what a whole sweep found of   *)
(* every domain, and the walk of an SPF record finds what it reaches; for  *)
(* any domains, blocklists and records, buffers of any size and any number *)
(* of nights.                                                              *)
THEOREM SweepsStayHonest == JobsSpec => []SweepsAreHonest
<1>1. JobsInv => SweepsAreHonest
  <2> SUFFICES ASSUME JobsInv PROVE SweepsAreHonest
    OBVIOUS
  <2>1. ASSUME job = "dns" PROVE S!SilenceIsNotClean /\ S!NoiseIsNoted /\ S!CoreFollowsTheSweep
    BY <2>1 DEF JobsInv, S!SweepInv
  <2>2. ASSUME job = "spf" PROVE F!WalkCovers
    BY <2>2, WalkEnds DEF JobsInv, F!WalkInv
  <2> QED BY <2>1, <2>2 DEF SweepsAreHonest
<1> QED BY <1>1, JobsInvariance, PTL

(* moderator_engine.py, moderator_integrity_gate.py: a row of the ledger   *)
(* passes by the rules of its version whatever is published meanwhile,     *)
(* what a proposal was promoted with, be it nothing, is in force in some   *)
(* version, nobody is given a number that is taken or not above what could *)
(* be read of the numbers, with any of git and the snapshot unreadable; a  *)
(* file that brings a second enforcement of _key is blocked where the gate *)
(* can see it, no other file is, and an audit that passes found none; for  *)
(* any rules, contents, callers, tables and files, and however often the   *)
(* catalogs cannot be read.                                                *)
THEOREM ReviewsStayHeld == JobsSpec => []ReviewsHold
<1>1. JobsInv => ReviewsHold
  <2> SUFFICES ASSUME JobsInv PROVE ReviewsHold
    OBVIOUS
  <2>1. ASSUME job = "review" PROVE V!RowsReproducible /\ V!PromotedIsPublished /\ V!NumbersDistinct
    BY <2>1 DEF JobsInv, V!ReviewInv
  <2>2. ASSUME job = "gate" PROVE G!BreakingIsBlocked /\ G!BlockedHasBroken /\ G!AuditIsWhole
    BY <2>2 DEF JobsInv, G!GateInv
  <2> QED BY <2>1, <2>2 DEF ReviewsHold
<1> QED BY <1>1, JobsInvariance, PTL

(* compact_warehouse.sh: every committed transaction can be read, from the *)
(* primary or the newest backup, through any failures and deaths, except   *)
(* those of a log that a restore left behind between its two renames, and  *)
(* no WAL lies beside a file it was not written for. escrow_export.py:     *)
(* what an export or a check vouched for is in the vault, as its manifest  *)
(* says. backup.sh: once there was a copy a whole one is kept, on either   *)
(* side. transcribe_calls.py: a text stays unless two runs had the call or *)
(* one listed old data, a label had a text, only what is gone is given up. *)
(* For any transactions, tables, calls, retentions, sizes of a batch and   *)
(* disks, and any number of days, faults and deaths.                       *)
THEOREM NothingStaysForgotten == JobsSpec => []NothingForgotten
<1>1. JobsInv => NothingForgotten
  <2> SUFFICES ASSUME JobsInv PROVE NothingForgotten
    OBVIOUS
  <2>1. ASSUME job = "compaction" PROVE C!NothingForgotten /\ C!WalBelongs
    BY <2>1 DEF JobsInv, C!CompactInv
  <2>2. ASSUME job = "escrow" PROVE E!DoneIsVaulted /\ E!ManifestIsTrue
    BY <2>2 DEF JobsInv, E!EscrowInv
  <2>3. ASSUME job = "backup" PROVE B!KeepsOne
    BY <2>3 DEF JobsInv, B!BackupInv
  <2>4. ASSUME job = "calls" PROVE T!TextStays /\ T!LabelsHaveText /\ T!OnlyGoneAreGivenUp
    BY <2>4 DEF JobsInv, T!CallsInv
  <2> QED BY <2>1, <2>2, <2>3, <2>4 DEF NothingForgotten
<1> QED BY <1>1, JobsInvariance, PTL

(* publish_d1.py: a meta row of tonight vouches for a whole table, however *)
(* many statements a table takes, tries each has, and answers come late;   *)
(* daily_report_sync.sh: a tab synced without a warning was rendered from  *)
(* what its phases landed, a backfill from a snapshot of tonight;          *)
(* mcp_server.py: an answer names the snapshot or the colour it was read   *)
(* from, is whole or flagged and no older than the last, and a server that *)
(* is up cannot write, but for the exceptions QueryShim names.             *)
THEOREM ReadersStayFresh == JobsSpec => []ReadersAreFresh
<1>1. JobsInv => ReadersAreFresh
  <2> SUFFICES ASSUME JobsInv PROVE ReadersAreFresh
    OBVIOUS
  <2>1. ASSUME job = "d1" PROVE D!FreshMeansWhole /\ D!LoudUnlessFresh
    BY <2>1, PublishIsWhole DEF JobsInv, D!PublishInv
  <2>2. ASSUME job = "report" PROVE R!QuietMeansFresh /\ R!BackfillReadsTonight
    BY <2>2 DEF JobsInv, R!ReportInv
  <2>3. ASSUME job = "reads" PROVE Q!AnswersAreTraceable /\ Q!AnswersAreWhole /\ Q!ServesReadOnly
    BY <2>3 DEF JobsInv, Q!ReadInv
  <2> QED BY <2>1, <2>2, <2>3 DEF ReadersAreFresh
<1> QED BY <1>1, JobsInvariance, PTL

(* Two nights without a promote, or an overdue publish at two checks, are  *)
(* on the record of nightly_success_watchdog.sh; an outage of MotherDuck   *)
(* is told after two checks and after three whole runs has the read API    *)
(* back on the local snapshot, a blip has not; the vault's gaps are told   *)
(* after two checks unless an alarm about the read API stood before them,  *)
(* a morning without a backup at once, and a day short of transcripts at   *)
(* two counts in a row is on the last page. The checks are those that read *)
(* and saved the state file; one that did not may undo what was told, as   *)
(* the modules say. For any number of days, outages, blips and faults, of  *)
(* which state files that cannot be read or written are one kind.          *)
THEOREM OutagesStayAnswered == JobsSpec => []OutagesAreAnswered
<1>1. JobsInv => OutagesAreAnswered
  <2> SUFFICES ASSUME JobsInv PROVE OutagesAreAnswered
    OBVIOUS
  <2>1. ASSUME job = "watchdog" PROVE W!LongOutageAlarms
    BY <2>1 DEF JobsInv, W!WatchInv
  <2>2. ASSUME job = "flip" PROVE M!OutageReturnsToLocal /\ M!StrikesAreReal /\ M!OutageIsTold
    BY <2>2 DEF JobsInv, M!FlipInv
  <2>3. ASSUME job = "escrow" PROVE E!GapsAreTold
    BY <2>3 DEF JobsInv, E!EscrowInv
  <2>4. ASSUME job = "backup" PROVE B!SilentIsCopied
    BY <2>4 DEF JobsInv, B!BackupInv
  <2>5. ASSUME job = "calls" PROVE T!GapsArePaged /\ T!ZeroIsWritten
    BY <2>5, CallsArePaged DEF JobsInv, T!CallsInv
  <2> QED BY <2>1, <2>2, <2>3, <2>4, <2>5 DEF OutagesAreAnswered
<1> QED BY <1>1, JobsInvariance, PTL
=============================================================================
