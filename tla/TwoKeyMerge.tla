----------------------------- MODULE TwoKeyMerge -----------------------------
(***************************************************************************)
(* A pull request on its way to main: the workflow that asks the gate and  *)
(* an independent reviewer and turns on auto-merge if both agree, the      *)
(* required check moderator-gate, the author who pushes, marks, merges and *)
(* closes meanwhile, and GitHub, which merges an armed pull request as     *)
(* soon as the check of its head is green.  What a change says is left     *)
(* out, but for whether it destroys data and whether the floor blocks it.  *)
(***************************************************************************)
EXTENDS Naturals

CONSTANTS
  Change,       \* the contents a head can have
  Destructive,  \* those in which detect_destructive finds something
  Blocked,      \* those the deterministic floor blocks
  MaxPushes,    \* bound on pushes and reopenings
  MaxMarks      \* bound on HOLD markers set or lifted

VARIABLES
  pr,        \* the pull request: its state, its head, a HOLD in title or label
  auto,      \* GitHub: auto-merge is on
  enforce,   \* MODERATOR_CI_ENFORCE
  recorded,  \* the contents the approval ledger has a row for
  green,     \* the heads whose check moderator-gate is green
  waiting,   \* a run of the workflow is queued; a newer event replaces it
  run,       \* the run: its step, what it checked out, the verdicts, its last look
  merged,    \* who merged what: [by, head], by = "" while open
  pushes, marks,
  agreed,    \* history: the contents for which a run found both keys turned
  armed      \* history: pushes and markers by the time auto-merge was armed

vars == <<pr, auto, enforce, recorded, green, waiting, run, merged, pushes, marks, agreed, armed>>

NoRun == [step |-> "none", head |-> "", on |-> FALSE, gate |-> "", look |-> "", pushes |-> 0, marks |-> 0]

PullRequest == [state : {"OPEN", "MERGED", "CLOSED"}, head : Change, hold : BOOLEAN]
Run == [step : {"none", "gate", "review", "merge?", "merge", "escalate?", "escalate"},
        head : Change \cup {""}, on : BOOLEAN, gate : {"", "pass", "block", "unavailable"},
        look : {"", "unreadable", "OPEN", "MERGED", "CLOSED"}, pushes : 0..MaxPushes, marks : 0..MaxMarks]

TypeOK ==
  /\ pr \in PullRequest /\ run \in Run
  /\ auto \in BOOLEAN /\ enforce \in BOOLEAN /\ waiting \in BOOLEAN
  /\ recorded \subseteq Change /\ green \subseteq Change /\ agreed \subseteq Change
  /\ merged \in [by : {"", "auto", "human"}, head : Change]
  /\ pushes \in 0..MaxPushes /\ marks \in 0..MaxMarks
  /\ armed \in [pushes : 0..MaxPushes, marks : 0..MaxMarks]

Init ==
  \E c \in Change :
    /\ pr = [state |-> "OPEN", head |-> c, hold |-> FALSE]
    /\ auto = FALSE /\ enforce \in BOOLEAN /\ recorded = {} /\ green = {}
    /\ waiting = TRUE /\ run = NoRun /\ merged = [by |-> "", head |-> c]
    /\ pushes = 0 /\ marks = 0 /\ agreed = {} /\ armed = [pushes |-> 0, marks |-> 0]

(* What /review can answer: the floor decides alone where it blocks, the   *)
(* deep review has its own mind about the others.                          *)
Verdicts(c) == IF c \in Blocked THEN {"block"} ELSE {"pass", "block"}

-------------------------------------------------------------------------------
(* The workflow two-key-automerge: one run at a time.  It checks out the   *)
(* head of that moment and takes the kill switch from its environment.     *)
Start ==
  /\ run.step = "none" /\ waiting
  /\ \E on \in BOOLEAN :
       run' = [NoRun EXCEPT !.step = "gate", !.head = pr.head, !.on = on,
                            !.pushes = pushes, !.marks = marks]
  /\ waiting' = FALSE
  /\ UNCHANGED <<pr, auto, enforce, recorded, green, merged, pushes, marks, agreed, armed>>

AskGate ==
  /\ run.step = "gate"
  /\ \E v \in Verdicts(run.head) \cup {"unavailable"} : run' = [run EXCEPT !.step = "review", !.gate = v]
  /\ UNCHANGED <<pr, auto, enforce, recorded, green, waiting, merged, pushes, marks, agreed, armed>>

(* decide: merge only with both keys and nothing destroyed.                *)
Decide_IgnoresDestruction(gate, reviewer, c) == IF gate = "pass" /\ reviewer = "approve" THEN "merge?" ELSE "escalate?"
Decide(gate, reviewer, c) ==
  IF gate = "pass" /\ reviewer = "approve" /\ c \notin Destructive THEN "merge?" ELSE "escalate?"

(* The reviewer answers or cannot be reached; with the switch off the run  *)
(* ends with its decision in the log.                                      *)
AskReviewer ==
  /\ run.step = "review"
  /\ \E reviewer \in {"approve", "request_changes", "unavailable"} :
       LET action == Decide(run.gate, reviewer, run.head)
       IN  /\ run' = IF run.on THEN [run EXCEPT !.step = action] ELSE NoRun
           /\ agreed' = IF run.gate = "pass" /\ reviewer = "approve" THEN agreed \cup {run.head} ELSE agreed
  /\ UNCHANGED <<pr, auto, enforce, recorded, green, waiting, merged, pushes, marks, armed>>

(* The live state is read right before the run acts.  No merge without it, *)
(* nor past a marker; no comment on what is merged already.                *)
MayAct(action, look, hold) ==
  IF action = "merge?" THEN look = "OPEN" /\ ~hold ELSE look # "MERGED"
Look ==
  /\ run.step \in {"merge?", "escalate?"}
  /\ \E look \in {pr.state, "unreadable"} :
       run' = IF ~MayAct(run.step, look, pr.hold) THEN NoRun
              ELSE [run EXCEPT !.step = IF @ = "merge?" THEN "merge" ELSE "escalate", !.look = look,
                               !.marks = marks]
  /\ UNCHANGED <<pr, auto, enforce, recorded, green, waiting, merged, pushes, marks, agreed, armed>>

(* gh pr merge --auto names the pull request, not the head it has judged.  *)
Arm ==
  /\ run.step = "merge"
  /\ \/ /\ pr.state = "OPEN"
        /\ auto' = TRUE
        /\ armed' = [pushes |-> run.pushes, marks |-> run.marks]
     \/ UNCHANGED <<auto, armed>>        \* gh fails
  /\ run' = NoRun
  /\ UNCHANGED <<pr, enforce, recorded, green, waiting, merged, pushes, marks, agreed>>

(* "... so this was NOT merged", on the pull request: nothing reads it, and *)
(* auto-merge stays on if an earlier run has turned it on.                 *)
Comment ==
  /\ run.step = "escalate"
  /\ run' = NoRun
  /\ UNCHANGED <<pr, auto, enforce, recorded, green, waiting, merged, pushes, marks, agreed, armed>>

(* The runner is lost; nobody starts the run again.                        *)
RunDies ==
  /\ run.step # "none"
  /\ run' = NoRun
  /\ UNCHANGED <<pr, auto, enforce, recorded, green, waiting, merged, pushes, marks, agreed, armed>>

-------------------------------------------------------------------------------
(* moderator_client.py loop: /record-pass writes the row unless it blocks. *)
Loop ==
  /\ \E v \in Verdicts(pr.head) : v # "block"
  /\ recorded' = recorded \cup {pr.head}
  /\ UNCHANGED <<pr, auto, enforce, green, waiting, run, merged, pushes, marks, agreed, armed>>

(* moderator_client.py ci on the head: green unless enforced and there is  *)
(* a problem; no service, no problem.                                      *)
Problem(verdict, c) == verdict = "block" \/ c \notin recorded
Check ==
  /\ pr.state = "OPEN"
  /\ \E verdict \in Verdicts(pr.head) \cup {"unavailable"} :
       /\ verdict = "unavailable" \/ ~enforce \/ ~Problem(verdict, pr.head)
       /\ green' = green \cup {pr.head}
  /\ UNCHANGED <<pr, auto, enforce, recorded, waiting, run, merged, pushes, marks, agreed, armed>>

-------------------------------------------------------------------------------
(* The author, who may write to the repository.                            *)
Push ==
  /\ pr.state = "OPEN" /\ pushes < MaxPushes
  /\ \E c \in Change : pr' = [pr EXCEPT !.head = c]
  /\ waiting' = TRUE /\ pushes' = pushes + 1
  /\ UNCHANGED <<auto, enforce, recorded, green, run, merged, marks, agreed, armed>>

(* Retitled or relabelled: no event of the workflow.                       *)
Mark ==
  /\ pr.state = "OPEN" /\ marks < MaxMarks
  /\ pr' = [pr EXCEPT !.hold = ~@]
  /\ marks' = marks + 1
  /\ UNCHANGED <<auto, enforce, recorded, green, waiting, run, merged, pushes, agreed, armed>>

Close ==
  /\ pr.state = "OPEN"
  /\ pr' = [pr EXCEPT !.state = "CLOSED"] /\ auto' = FALSE
  /\ UNCHANGED <<enforce, recorded, green, waiting, run, merged, pushes, marks, agreed, armed>>

Reopen ==
  /\ pr.state = "CLOSED" /\ pushes < MaxPushes
  /\ pr' = [pr EXCEPT !.state = "OPEN"]
  /\ waiting' = TRUE /\ pushes' = pushes + 1
  /\ UNCHANGED <<auto, enforce, recorded, green, run, merged, marks, agreed, armed>>

(* GitHub merges what is armed, a person what the check allows.            *)
Merge(by) ==
  /\ pr.state = "OPEN" /\ pr.head \in green
  /\ by = "auto" => auto
  /\ pr' = [pr EXCEPT !.state = "MERGED"]
  /\ merged' = [by |-> by, head |-> pr.head]
  /\ UNCHANGED <<auto, enforce, recorded, green, waiting, run, pushes, marks, agreed, armed>>

Author == Loop \/ Push \/ Mark \/ Close \/ Reopen \/ Merge("human")
TwoKey == Start \/ AskGate \/ AskReviewer \/ Look \/ Arm \/ Comment \/ RunDies
Next == TwoKey \/ Check \/ Author \/ Merge("auto")
Spec == Init /\ [][Next]_vars
-------------------------------------------------------------------------------
(* two_key_merge.py:4: what is merged without a person had both keys and   *)
(* destroys nothing, unless the author pushed after the run that armed the *)
(* merge had checked out.                                                  *)
KeysBeforeMerge ==
  merged.by = "auto" /\ armed.pushes = pushes => merged.head \in agreed \ Destructive

(* moderator_client.py:797: nor does it have a HOLD marker, unless the     *)
(* marker came after that run's last look.                                 *)
HoldRespected == merged.by = "auto" /\ armed.marks = marks => ~pr.hold
-------------------------------------------------------------------------------
(* Why it holds: a run that has seen every push judged the present head,   *)
(* and one that is about to merge found both keys for it and, if it has    *)
(* seen every marker, none; what it arms keeps that.                       *)
StampsAreOld ==
  /\ run.pushes <= pushes /\ armed.pushes <= pushes
  /\ run.marks <= marks /\ armed.marks <= marks
RunKnowsItsHead ==
  run.step # "none" => run.head \in Change /\ (run.pushes = pushes => run.head = pr.head)
RunHasBothKeys ==
  /\ run.step \in {"merge?", "merge"} => run.head \in agreed \ Destructive
  /\ run.step = "merge" /\ run.marks = marks => ~pr.hold
ArmedHasBothKeys ==
  auto => /\ armed.pushes = pushes => pr.head \in agreed \ Destructive
          /\ armed.marks = marks => ~pr.hold
MergedIsOver == merged.by = "auto" => pr.state = "MERGED"

MergeInv ==
  /\ TypeOK /\ StampsAreOld /\ RunKnowsItsHead /\ RunHasBothKeys /\ ArmedHasBothKeys /\ MergedIsOver
  /\ KeysBeforeMerge /\ HoldRespected
==============================================================================
