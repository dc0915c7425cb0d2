----------------------------- MODULE Transcription -----------------------------
(***************************************************************************)
(* The calls' recordings: scripts/transcribe_calls.py lists the recorded   *)
(* calls without a row in core.call_transcript, downloads and transcribes  *)
(* them without a connection, and writes what it has in short bursts;      *)
(* scripts/classify_call_outcomes.py does the same for the texts without a *)
(* label; scripts/transcribe_coverage_watchdog.py counts what is missing,  *)
(* runs the first script once more, counts again, and pages on the second  *)
(* bad count in a row.  Nothing keeps two of them apart but the writer     *)
(* lock that each burst takes.                                             *)
(*                                                                         *)
(* A day is its nightly, which brings yesterday's calls, the labels, the   *)
(* cron of the transcripts and the watchdog; a job does not start a second *)
(* time while it runs, any two others may overlap.                         *)
(***************************************************************************)
EXTENDS FiniteSets, Integers

CONSTANTS
  Call, DayOf,    \* recorded calls, and the day of each
  FlushEvery,     \* rows in a burst
  Grace,          \* days after which a missing recording is given up
  Back, Tol,      \* days the watchdog looks back on, calls it tolerates
  Days, MaxFaults \* bounds

VARIABLES
  day,
  hour,        \* what of the day has begun: 1 the nightly, 2 the labels,
               \* 3 the transcripts, 4 the watchdog
  recording,   \* at Close: "processing", "there" or "deleted"
  transcript,  \* core.call_transcript: "none", "text" or "sentinel"
  labelled,    \* core.call_outcome_llm
  snap,        \* the serving snapshot: its day and the three tables
  run,         \* the processes: Job -> step, list, batch, what is done
  dog,         \* the watchdog: step, issues, and its state file; history:
               \* that file was not read or not saved since the last page
  claimed,     \* history: rows done by a run that exited with 0
  had,         \* history: calls that once had a text
  shared,      \* history: calls listed by two runs at once, or from old data
  behind,      \* history: day -> counts in a row, with the state read and
               \* saved, at which it was short
  told,        \* history: days of the last page, {} once it is taken back
  faults

vars == <<day, hour, recording, transcript, labelled, snap, run, dog, claimed,
          had, shared, behind, told, faults>>

Job   == {"cron", "heal", "label"}
Day   == 1..Days
Threshold == 2

NoIssues == [d \in {} |-> 0]
NoFails  == [d \in Day |-> 0]
Idle == [at |-> "idle", todo |-> {}, text |-> {}, gone |-> {}, done |-> {}, lost |-> FALSE]
Hands(k) == run[k].todo \cup run[k].text \cup run[k].gone

Run == [at : {"idle", "work", "flush"}, todo : SUBSET Call, text : SUBSET Call, gone : SUBSET Call,
        done : SUBSET Call, lost : BOOLEAN]
Texts == [Call -> {"none", "text", "sentinel"}]

TypeOK ==
  /\ day \in Day /\ hour \in 0..4
  /\ recording \in [Call -> {"processing", "there", "deleted"}]
  /\ transcript \in Texts /\ labelled \subseteq Call
  /\ snap \in [day : 0..Days, transcript : Texts, labelled : SUBSET Call]
  /\ run \in [Job -> Run]
  /\ \A k \in Job :
       /\ run[k].at = "idle" => run[k] = Idle
       /\ run[k].todo \cap run[k].done = {}
       /\ Cardinality(run[k].text) + Cardinality(run[k].gone) <= FlushEvery
  /\ DOMAIN dog = {"step", "issues", "fresh", "fails", "sig", "lost"} /\ DOMAIN dog.issues \subseteq Day
  /\ dog.step \in {"idle", "heal", "read"} /\ dog.fresh \in BOOLEAN /\ dog.lost \in BOOLEAN
  /\ dog.fails \in [Day -> 0..Threshold] /\ behind \in [Day -> 0..Threshold]
  /\ claimed \in [Job -> SUBSET Call] /\ had \subseteq Call /\ faults \in 0..MaxFaults

Init ==
  /\ day = 1 /\ hour = 0 /\ recording = [c \in Call |-> "processing"]
  /\ transcript = [c \in Call |-> "none"] /\ labelled = {}
  /\ snap = [day |-> 0, transcript |-> transcript, labelled |-> {}]
  /\ run = [k \in Job |-> Idle]
  /\ dog = [step |-> "idle", issues |-> NoIssues, fresh |-> FALSE,
            fails |-> NoFails, sig |-> NoIssues, lost |-> FALSE]
  /\ claimed = [k \in Job |-> {}] /\ had = {} /\ shared = {}
  /\ behind = [d \in Day |-> 0] /\ told = {} /\ faults = 0

Counts(fault) ==
  IF fault THEN faults < MaxFaults /\ faults' = faults + 1 ELSE UNCHANGED faults
Begins(h) == hour = h - 1 /\ hour' = h
-------------------------------------------------------------------------------
(* Close: a recording lands some time after its call; a call is deleted.   *)
Lands(c) ==
  /\ DayOf[c] <= day /\ recording[c] = "processing"
  /\ recording' = [recording EXCEPT ![c] = "there"]
  /\ UNCHANGED <<day, hour, transcript, labelled, snap, run, dog, claimed, had, shared, behind, told, faults>>
Deleted(c) ==
  /\ DayOf[c] <= day /\ recording[c] # "deleted" /\ Counts(TRUE)
  /\ recording' = [recording EXCEPT ![c] = "deleted"]
  /\ UNCHANGED <<day, hour, transcript, labelled, snap, run, dog, claimed, had, shared, behind, told>>

Live == [day |-> day, transcript |-> transcript, labelled |-> labelled]

(* The nightly brings core.call up to yesterday; its promote may fail.     *)
Nightly ==
  /\ Begins(1)
  /\ \E fails \in BOOLEAN : Counts(fails) /\ snap' = IF fails THEN snap ELSE Live
  /\ UNCHANGED <<day, recording, transcript, labelled, run, dog, claimed, had, shared, behind, told>>
NextDay ==
  /\ hour = 4 /\ dog.step = "idle" /\ day < Days
  /\ day' = day + 1 /\ hour' = 0
  /\ UNCHANGED <<recording, transcript, labelled, snap, run, dog, claimed, had, shared, behind, told, faults>>
-------------------------------------------------------------------------------
(* _PENDING_SQL of either script.                                          *)
Known(view) == {c \in Call : DayOf[c] < view.day}
Pending(k, view) ==
  IF k = "label" THEN {c \in Known(view) : view.transcript[c] = "text"} \ view.labelled
  ELSE {c \in Known(view) : view.transcript[c] = "none"}

Elsewhere(k) == UNION {Hands(o) : o \in {"cron", "heal"} \ {k}}
Written == {c \in Call : transcript[c] # "none"}

(* _load_pending: of the live file, or after an hour of a lock that does   *)
(* not come free, of the snapshot.                                         *)
Loads(view) == view \in {Live, snap} /\ Counts(view # Live)
Lists(k) ==
  /\ run[k] = Idle
  /\ \E view \in {Live, snap} :
       /\ Loads(view)
       /\ run' = [run EXCEPT ![k] = IF Pending(k, view) = {} THEN Idle
                                    ELSE [Idle EXCEPT !.at = "work", !.todo = Pending(k, view)]]
       /\ shared' = IF k = "label" THEN shared
                    ELSE shared \cup (Pending(k, view) \cap (Elsewhere(k) \cup IF view = Live THEN {} ELSE Written))
  /\ claimed' = [claimed EXCEPT ![k] = {}]
  /\ UNCHANGED <<recording, transcript, labelled, snap, had, behind, told>>

(* _permanently_gone_reason, of a recording that answers 404; a probe that *)
(* fails leaves the age to decide.                                         *)
GivenUp(c, probed) == (recording[c] = "deleted" /\ probed) \/ day - DayOf[c] > Grace

(* ORDER BY occurred_at DESC                                               *)
Newest(calls) == {c \in calls : \A d \in calls : DayOf[d] <= DayOf[c]}

Takes(k, c, text, gone) ==
  LET r == [run[k] EXCEPT !.todo = @ \ {c}, !.text = @ \cup text, !.gone = @ \cup gone,
                          !.done = @ \cup text \cup gone]
      full == Cardinality(r.text) + Cardinality(r.gone) >= FlushEvery \/ r.todo = {}
  IN  run' = [run EXCEPT ![k] = IF full THEN [r EXCEPT !.at = "flush"] ELSE r]

(* One call: a text, a tombstone, or nothing after an error.               *)
Transcribe(k) ==
  /\ run[k].at = "work" /\ k # "label"
  /\ \E c \in Newest(run[k].todo), error \in BOOLEAN :
       /\ Counts(error)
       /\ \/ error /\ Takes(k, c, {}, {})
          \/ ~error /\ recording[c] = "there" /\ Takes(k, c, {c}, {})
          \/ recording[c] # "there" /\ Takes(k, c, {}, IF GivenUp(c, ~error) THEN {c} ELSE {})
  /\ UNCHANGED <<day, hour, recording, transcript, labelled, snap, dog, claimed, had, shared, behind, told>>

(* _call_qwen: a call may be left out of the answer, or its label invalid. *)
Labels(c, error) == IF error THEN {} ELSE {c}
Classify ==
  /\ run["label"].at = "work"
  /\ \E c \in run["label"].todo, error \in BOOLEAN :
       Counts(error) /\ Takes("label", c, Labels(c, error), {})
  /\ UNCHANGED <<day, hour, recording, transcript, labelled, snap, dog, claimed, had, shared, behind, told>>

(* _INSERT: what is there already is overwritten.                          *)
Upserted(text, gone) ==
  [c \in Call |-> CASE c \in text -> "text" [] c \in gone -> "sentinel" [] OTHER -> transcript[c]]
Insert(k, rows) ==
  IF k = "label" THEN labelled' = labelled \cup rows /\ UNCHANGED <<transcript, had>>
  ELSE /\ transcript' = Upserted(run[k].text \cap rows, run[k].gone \cap rows)
       /\ had' = had \cup (run[k].text \cap rows)
       /\ UNCHANGED labelled

(* main after a burst: on with the list, or the exit, 2 if one was lost.   *)
AfterFlush(k, lost) ==
  IF run[k].todo # {}
  THEN /\ run' = [run EXCEPT ![k].at = "work", ![k].text = {}, ![k].gone = {}, ![k].lost = lost]
       /\ UNCHANGED claimed
  ELSE /\ run' = [run EXCEPT ![k] = Idle]
       /\ claimed' = [claimed EXCEPT ![k] = IF lost THEN {} ELSE run[k].done]

Flush(k) ==
  /\ run[k].at = "flush"
  /\ Insert(k, run[k].text \cup run[k].gone) /\ AfterFlush(k, run[k].lost)
  /\ UNCHANGED <<day, hour, recording, snap, dog, shared, behind, told, faults>>

(* The lock did not come free within the budget.  The flock's own timeout  *)
(* is no lock error to the classifier: it raises.                          *)
FlushGivesUp(k) ==
  /\ run[k].at = "flush" /\ run[k].text \cup run[k].gone # {} /\ Counts(TRUE)
  /\ \/ AfterFlush(k, TRUE)
     \/ k = "label" /\ run' = [run EXCEPT ![k] = Idle] /\ UNCHANGED claimed
  /\ UNCHANGED <<day, hour, recording, transcript, labelled, snap, dog, had, shared, behind, told>>

(* Killed, for one by the watchdog's timeout; executemany commits each row *)
(* alone.                                                                  *)
Dies(k) ==
  /\ run[k].at # "idle" /\ Counts(TRUE)
  /\ \E rows \in SUBSET (run[k].text \cup run[k].gone) :
       (rows = {} \/ run[k].at = "flush") /\ Insert(k, rows)
  /\ run' = [run EXCEPT ![k] = Idle]
  /\ UNCHANGED <<day, hour, recording, snap, dog, claimed, shared, behind, told>>

Cron == Begins(3) /\ Lists("cron") /\ UNCHANGED <<day, dog>>
Label == Begins(2) /\ Lists("label") /\ UNCHANGED <<day, dog>>
(* A run of yesterday that still goes on has today's for itself.           *)
StillRuns ==
  /\ \/ Begins(3) /\ run["cron"] # Idle
     \/ Begins(2) /\ run["label"] # Idle
  /\ UNCHANGED <<day, recording, transcript, labelled, snap, run, dog, claimed, had, shared, behind, told, faults>>
-------------------------------------------------------------------------------
(* evaluate: the days before today, and today is past midnight.            *)
Window == {d \in Day : d <= day /\ d > day - Back}
Gap(d, view) == Cardinality({c \in Known(view) : DayOf[c] = d /\ view.transcript[c] = "none"})
Issues(view) == [d \in {e \in Window : Gap(e, view) > Tol} |-> Gap(d, view)]

(* The counts are kept per day, and dropped with the first good one; a     *)
(* page goes out when the days or the gaps have changed.  A state that     *)
(* cannot be read is none; one that cannot be written is told to stdout,   *)
(* and the file is as it was, or empty.                                    *)
NoState == [fails |-> NoFails, sig |-> NoIssues]
Filed   == [fails |-> dog.fails, sig |-> dog.sig]
Fails(issues, was) ==
  [d \in Day |-> IF d \notin DOMAIN issues THEN 0
                 ELSE IF was.fails[d] = Threshold THEN Threshold ELSE was.fails[d] + 1]
Paged(issues, was) == [d \in {e \in DOMAIN issues : Fails(issues, was)[e] = Threshold} |-> issues[d]]
Judge(issues, fresh, fault) ==
  \E was \in {Filed, NoState} :
    LET new == [fails |-> Fails(issues, was), sig |-> Paged(issues, was)]
    IN  \E file \in {new, Filed, NoState} :
          LET slips == was # Filed \/ file # new
          IN  /\ Counts(fault \/ slips)
              /\ dog' = [step |-> "idle", issues |-> NoIssues, fresh |-> FALSE,
                         fails |-> file.fails, sig |-> file.sig,
                         lost |-> slips \/ (dog.lost /\ new.sig = was.sig)]
              /\ told' = IF new.sig # was.sig THEN DOMAIN new.sig ELSE told
              /\ behind' = [d \in Day |->
                              IF d \in Window /\ Gap(d, Live) > Tol /\ fresh /\ ~slips
                              THEN IF behind[d] = Threshold THEN Threshold ELSE behind[d] + 1 ELSE 0]

(* main: nothing can be read, or a first count, and the job once more if   *)
(* that finds something.                                                   *)
Watchdog ==
  /\ Begins(4) /\ dog.step = "idle"
  /\ \/ Counts(TRUE) /\ UNCHANGED <<dog, behind, told>>
     \/ \E view \in {Live, snap} :
          /\ IF Issues(view) = NoIssues THEN Judge(NoIssues, view.day = day, view # Live)
             ELSE /\ Counts(view # Live)
                  /\ dog' = [dog EXCEPT !.step = "heal", !.issues = Issues(view), !.fresh = view.day = day]
                  /\ UNCHANGED <<behind, told>>
  /\ UNCHANGED <<day, recording, transcript, labelled, snap, run, claimed, had, shared>>
Heal ==
  /\ dog.step = "heal" /\ Lists("heal")
  /\ dog' = [dog EXCEPT !.step = "read"]
  /\ UNCHANGED <<day, hour>>
ReCheck ==
  /\ dog.step = "read" /\ run["heal"] = Idle
  /\ \/ Judge(dog.issues, dog.fresh, TRUE)
     \/ \E view \in {Live, snap} : Judge(Issues(view), view.day = day, view # Live)
  /\ UNCHANGED <<day, hour, recording, transcript, labelled, snap, run, claimed, had, shared>>

Next ==
  \/ \E c \in Call : Lands(c) \/ Deleted(c)
  \/ Nightly \/ NextDay \/ Label \/ Cron \/ StillRuns \/ Classify
  \/ \E k \in {"cron", "heal"} : Transcribe(k)
  \/ \E k \in Job : Flush(k) \/ FlushGivesUp(k) \/ Dies(k)
  \/ Watchdog \/ Heal \/ ReCheck

Spec == Init /\ [][Next]_vars
-------------------------------------------------------------------------------
(* Nothing transcribed is lost: a call's text stays, and what is labelled  *)
(* had one, unless two runs had the call on their lists at once or a run   *)
(* took its list from an old snapshot.  Only then may a tombstone go over  *)
(* a text, since the INSERT overwrites.                                    *)
TextStays == \A c \in had : transcript[c] = "text" \/ c \in shared
LabelsHaveText == labelled \subseteq had

(* A call is given up when it was deleted or is older than the grace, not  *)
(* while its recording is still on its way.                                *)
OnlyGoneAreGivenUp ==
  \A c \in Call : transcript[c] = "sentinel" => recording[c] = "deleted" \/ day - DayOf[c] > Grace

(* transcribe_calls.py, classify_call_outcomes.py: a run that exits with 0 *)
(* has all it did in the table, through bursts that gave up on the lock.   *)
ZeroIsWritten ==
  /\ claimed["cron"] \cup claimed["heal"] \subseteq Written
  /\ claimed["label"] \subseteq labelled

(* transcribe_coverage_watchdog.py: a day that is short at two counts in a *)
(* row, after the healing, each of a view that knew its calls and with the *)
(* state read and saved, is on the last page, unless since that page the   *)
(* state was not read or not saved: of a gap that was taken back, and that *)
(* not saved, the old state says that it is paged.                         *)
GapsArePaged == \A d \in Day : behind[d] = Threshold => d \in told \/ dog.lost
-------------------------------------------------------------------------------
(* What keeps them: an inductive invariant.                                *)

(* A batch in hand is not full while the run works, it is of what the run  *)
(* has done, all else of which is in the table unless a burst was lost;    *)
(* what it gives up is gone already.                                       *)
Gone(c) == recording[c] = "deleted" \/ day - DayOf[c] > Grace
BatchInHand ==
  \A k \in Job :
    /\ run[k].at = "work" => Cardinality(run[k].text) + Cardinality(run[k].gone) < FlushEvery
    /\ run[k].text \cup run[k].gone \subseteq run[k].done /\ run[k].text \cap run[k].gone = {}
    /\ \A c \in run[k].gone : k # "label" /\ Gone(c)
    /\ ~run[k].lost => run[k].done \subseteq run[k].text \cup run[k].gone
                                              \cup IF k = "label" THEN labelled ELSE Written

(* Any view of the tables has texts that were written and misses what is   *)
(* not there; so the labels are for texts, and a call that is in the table *)
(* while a run has it in hand, or that two have, is shared.                *)
ViewsAreOld ==
  /\ \A c \in Call :
       /\ transcript[c] = "text" \/ snap.transcript[c] = "text" => c \in had
       /\ transcript[c] = "none" => snap.transcript[c] = "none"
  /\ run["label"].todo \cup run["label"].text \subseteq had
HandsAreApart ==
  /\ Hands("cron") \cap Hands("heal") \subseteq shared
  /\ (Hands("cron") \cup Hands("heal")) \cap Written \subseteq shared

(* The watchdog counts no fewer than were short, its last page is what it  *)
(* remembers unless that was lost, and between its two looks no day can    *)
(* fall short anew.                                                        *)
CountsInOrder ==
  /\ dog.lost \/ told = DOMAIN dog.sig
  /\ \A d \in Day : behind[d] <= dog.fails[d] /\ (dog.fails[d] = Threshold => d \in DOMAIN dog.sig)
  /\ dog.step # "idle" /\ dog.fresh =>
       \A d \in Window : Gap(d, Live) > Tol => d \in DOMAIN dog.issues

CallsInv ==
  /\ TypeOK /\ BatchInHand /\ ViewsAreOld /\ HandsAreApart /\ CountsInOrder
  /\ TextStays /\ LabelsHaveText /\ OnlyGoneAreGivenUp /\ ZeroIsWritten
===============================================================================
