-------------------------------- MODULE MdFlip --------------------------------
(***************************************************************************)
(* The read API on its way to MotherDuck and back: md_autoflip.py, every   *)
(* five minutes, puts a systemd drop-in and restarts the service once a    *)
(* read-only token lies there, and takes it back after three bad answers   *)
(* of /healthz in a row; md_health_watchdog.py, every quarter of an hour,  *)
(* looks at MotherDuck itself.  The return codes of systemctl are not      *)
(* read, runs may be killed, a state file may not be read or not be        *)
(* written, the service may restart for other reasons.                     *)
(***************************************************************************)
EXTENDS Naturals

CONSTANTS
  MaxOutages,  \* bound on MotherDuck's going down or coming up
  MaxBlips,    \* bound on answers lost without an outage
  MaxFaults,   \* bound on killed runs, restarts and state files that fail
  MaxActs      \* bound on the operator's doings and on other restarts

VARIABLES
  token,    \* MOTHERDUCK_TOKEN_RO in .env: none, or what it really may do
  up,       \* MotherDuck answers
  dropin,   \* md-backend.conf exists
  serving,  \* the backend of the service since its last restart
  strikes,  \* healthz_fails in autoflip_state.json
  run,      \* md_autoflip: [step, why], why = the caller of rollback
  dog,      \* md_watchdog_state.json; history: what Slack was told last, and
            \* whether the file was not read or not saved since
  bad,      \* history: bad answers to the monitor since a good one or the flip
  outage,   \* history: runs to their end since MotherDuck went down or the
            \* strikes were last not read or not saved
  cut,      \* history: a run was cut off between drop-in and restart
  kept,     \* history: strikes may be older than the flip or a good answer
  outages, blips, faults, acts

vars == <<token, up, dropin, serving, strikes, run, dog, bad, outage, cut, kept, outages, blips, faults, acts>>

Idle == [step |-> "idle", why |-> "none"]
Run  == [step : {"idle", "write", "restart", "verify"}, why : {"none"}]
        \cup [step : {"rollback", "back"}, why : {"verify", "strikes"}]
State == [fails : 0..2, alerted : BOOLEAN, stale : BOOLEAN, lost : BOOLEAN, told : {"none", "red", "green"}]

TypeOK ==
  /\ token \in {"none", "write", "read"} /\ serving \in {"local", "md"}
  /\ up \in BOOLEAN /\ dropin \in BOOLEAN /\ cut \in BOOLEAN /\ kept \in BOOLEAN
  /\ strikes \in Nat /\ bad \in Nat /\ outage \in 0..3
  /\ run \in Run /\ dog \in State
  /\ outages \in 0..MaxOutages /\ blips \in 0..MaxBlips /\ faults \in 0..MaxFaults /\ acts \in 0..MaxActs

Init ==
  /\ token = "none" /\ up = TRUE /\ dropin = FALSE /\ serving = "local" /\ strikes = 0 /\ run = Idle
  /\ dog = [fails |-> 0, alerted |-> FALSE, stale |-> FALSE, told |-> "none", lost |-> FALSE]
  /\ bad = 0 /\ outage = 0 /\ cut = FALSE /\ kept = FALSE
  /\ outages = 0 /\ blips = 0 /\ faults = 0 /\ acts = 0

(* A run comes to its end.                                                 *)
Ends == run' = Idle /\ outage' = IF up \/ outage = 3 THEN outage ELSE outage + 1
GoesOn(step, why) == run' = [step |-> step, why |-> why] /\ UNCHANGED outage

(* healthz: the service answers for its backend, unless a blip hides it.   *)
Healthy == serving = "local" \/ up
Hears(ok) ==
  \/ ok /\ Healthy /\ UNCHANGED blips
  \/ ~ok /\ ~Healthy /\ UNCHANGED blips
  \/ ~ok /\ Healthy /\ blips < MaxBlips /\ blips' = blips + 1
-------------------------------------------------------------------------------
Strikes(ok, read) == IF ok THEN 0 ELSE read + 1

(* load_state and save_state pass over every error: strikes that cannot be *)
(* read are none, those that cannot be written leave the old or, where the *)
(* file was opened and no more, none.                                      *)
Monitor ==
  /\ run.step = "idle" /\ dropin
  /\ \E ok \in BOOLEAN, read \in {strikes, 0} : \E file \in {Strikes(ok, read), strikes, 0} :
       LET slips == read # strikes \/ file # Strikes(ok, read) IN
       /\ Hears(ok)
       /\ slips => faults < MaxFaults
       /\ faults' = IF slips THEN faults + 1 ELSE faults
       /\ strikes' = file /\ bad' = IF ok THEN 0 ELSE bad + 1
       /\ kept' = IF ok THEN file > 0 ELSE kept
       /\ run' = IF Strikes(ok, read) >= 3 THEN [step |-> "rollback", why |-> "strikes"] ELSE Idle
       /\ outage' = IF slips THEN 0
                    ELSE IF Strikes(ok, read) >= 3 \/ up \/ outage = 3 THEN outage ELSE outage + 1
  /\ UNCHANGED <<token, up, dropin, serving, dog, cut, outages, acts>>

(* The token may flip if CREATE DATABASE raises, for whatever reason.      *)
Validate ==
  /\ run.step = "idle" /\ ~dropin
  /\ \/ /\ token = "none" \/ ~up \/ token = "write"
        /\ Ends
        /\ UNCHANGED blips
     \/ /\ token = "read" /\ up
        /\ GoesOn("write", "none")
        /\ UNCHANGED blips
     \/ /\ token = "write" /\ up /\ blips < MaxBlips
        /\ GoesOn("write", "none")
        /\ blips' = blips + 1
  /\ UNCHANGED <<token, up, dropin, serving, strikes, dog, bad, cut, kept, outages, faults, acts>>

WriteDropin ==
  /\ run.step = "write"
  /\ dropin' = TRUE /\ bad' = 0
  /\ GoesOn("restart", "none")
  /\ UNCHANGED <<token, up, serving, strikes, dog, cut, kept, outages, blips, faults, acts>>

Restarts(fails) == fails => faults < MaxFaults
Restart ==
  /\ run.step = "restart"
  /\ \E fails \in BOOLEAN :
       /\ Restarts(fails)
       /\ serving' = IF fails THEN serving ELSE "md"
       /\ cut' = (cut \/ fails)
       /\ faults' = IF fails THEN faults + 1 ELSE faults
  /\ GoesOn("verify", "none")
  /\ UNCHANGED <<token, up, dropin, strikes, dog, bad, kept, outages, blips, acts>>

Verify ==
  /\ run.step = "verify"
  /\ \E ok \in BOOLEAN :
       /\ Hears(ok)
       /\ IF ok /\ serving = "md"
          THEN Ends /\ cut' = FALSE
          ELSE GoesOn("rollback", "verify") /\ UNCHANGED cut
  /\ UNCHANGED <<token, up, dropin, serving, strikes, dog, bad, kept, outages, faults, acts>>

(* rollback: remove the drop-in, restart, say that it is back on local;    *)
(* the monitor sets the strikes to zero after it, if that is saved, the    *)
(* flip does not.                                                          *)
Remove ==
  /\ run.step = "rollback"
  /\ dropin' = FALSE
  /\ GoesOn("back", run.why)
  /\ UNCHANGED <<token, up, serving, strikes, dog, bad, cut, kept, outages, blips, faults, acts>>
BackToLocal ==
  /\ run.step = "back"
  /\ \E fails \in BOOLEAN, file \in {0, strikes} :
       /\ Restarts(fails)
       /\ serving' = IF fails THEN serving ELSE "local"
       /\ cut' = (fails /\ serving = "md")
       /\ strikes' = IF run.why = "strikes" THEN file ELSE strikes
       /\ kept' = (kept \/ strikes' > 0)
       /\ LET slips == run.why = "strikes" /\ file > 0
          IN  /\ slips => faults < MaxFaults
              /\ faults' = IF fails \/ slips THEN faults + 1 ELSE faults
  /\ Ends
  /\ UNCHANGED <<token, up, dropin, dog, bad, outages, blips, acts>>

(* A run is killed.                                                        *)
RunDies ==
  /\ run.step # "idle" /\ faults < MaxFaults
  /\ run' = Idle /\ faults' = faults + 1
  /\ cut' = (cut \/ run.step \in {"restart", "verify", "back"}) /\ kept' = (kept \/ strikes > 0)
  /\ UNCHANGED <<token, up, dropin, serving, strikes, dog, bad, outage, outages, blips, acts>>

-------------------------------------------------------------------------------
Alarms(fails, alerted) == fails >= 2 /\ ~alerted
(* A state that cannot be read is a fresh one; the file is written without *)
(* a guard, and may stay as it was or be left empty.                       *)
Forgotten == [fails |-> 0, alerted |-> FALSE, stale |-> FALSE, told |-> dog.told, lost |-> TRUE]
Watch ==
  /\ \E age \in {"fresh", "aging", "stale"}, was \in {dog, Forgotten}, file \in {"saved", "old", "empty"} :
       LET fails == IF up THEN 0 ELSE IF was.fails = 2 THEN 2 ELSE was.fails + 1
           posts == (up /\ was.alerted) \/ Alarms(fails, was.alerted)
           told  == IF posts THEN (IF up THEN "green" ELSE "red") ELSE dog.told
           slips == was # dog \/ file # "saved"
       IN  /\ slips => faults < MaxFaults
           /\ faults' = IF slips THEN faults + 1 ELSE faults
           /\ dog' = IF file = "saved"
                     THEN [fails |-> fails, alerted |-> ~up /\ fails >= 2, told |-> told,
                           lost |-> was.lost /\ ~posts,
                           stale |-> IF ~up THEN was.stale
                                     ELSE age = "stale" \/ (was.stale /\ age = "aging")]
                     ELSE [IF file = "old" THEN dog ELSE Forgotten EXCEPT !.told = told, !.lost = TRUE]
  /\ UNCHANGED <<token, up, dropin, serving, strikes, run, bad, outage, cut, kept, outages, blips, acts>>

-------------------------------------------------------------------------------
(* The operator sets the token or goes back by hand; something restarts    *)
(* the service; MotherDuck goes down or comes up.                          *)
PutToken ==
  /\ acts < MaxActs /\ acts' = acts + 1
  /\ \E t \in {"none", "write", "read"} \ {token} : token' = t
  /\ UNCHANGED <<up, dropin, serving, strikes, run, dog, bad, outage, cut, kept, outages, blips, faults>>
ByHand ==
  /\ acts < MaxActs /\ acts' = acts + 1 /\ run.step = "idle" /\ dropin
  /\ dropin' = FALSE /\ serving' = "local"
  /\ kept' = (kept \/ strikes > 0) /\ cut' = FALSE
  /\ UNCHANGED <<token, up, strikes, run, dog, bad, outage, outages, blips, faults>>
ServiceRestarts ==
  /\ acts < MaxActs /\ acts' = acts + 1
  /\ serving' = IF dropin THEN "md" ELSE "local"
  /\ UNCHANGED <<token, up, dropin, strikes, run, dog, bad, outage, cut, kept, outages, blips, faults>>
MotherDuck ==
  /\ outages < MaxOutages /\ outages' = outages + 1
  /\ up' = ~up /\ outage' = 0
  /\ UNCHANGED <<token, dropin, serving, strikes, run, dog, bad, cut, kept, blips, faults, acts>>

AutoFlip == Monitor \/ Validate \/ WriteDropin \/ Restart \/ Verify \/ Remove \/ BackToLocal \/ RunDies
Next == AutoFlip \/ Watch \/ PutToken \/ ByHand \/ ServiceRestarts \/ MotherDuck
Spec == Init /\ [][Next]_vars
-------------------------------------------------------------------------------
(* md_autoflip.py:73: three whole runs into an outage, with the strikes    *)
(* read and saved each time, the API is back on the local snapshot,        *)
(* whatever was flipped meanwhile, unless a run was cut off, by death or   *)
(* by systemctl, between the drop-in and the restart.                      *)
OutageReturnsToLocal == outage = 3 /\ run.step = "idle" /\ ~cut => serving = "local"

(* md_autoflip.py:73: it takes three bad answers in a row to go back, not  *)
(* a blip, unless strikes from before the flip or a good answer were left  *)
(* standing, by a flip that does not reset them or a reset not saved.      *)
StrikesAreReal == run.why = "strikes" /\ ~kept => bad >= 3

(* md_health_watchdog.py:98: after two failing checks the last word on     *)
(* Slack is the alarm, and a sound check takes the alarm back, unless      *)
(* since that word the state was not read or not saved.                    *)
OutageIsTold ==
  /\ dog.fails = 2 => dog.alerted /\ (dog.told = "red" \/ dog.lost)
  /\ dog.fails = 0 => dog.told # "red" \/ dog.lost

(* What makes them inductive: where no run was cut off the drop-in says    *)
(* what is served, and runs that ended in an outage left a strike each;    *)
FlipInOrder ==
  /\ up \/ run.step \in {"write", "restart", "verify"} => outage = 0
  /\ run.step \in {"restart", "verify", "rollback"} => dropin
  /\ run.step \in {"write", "back"} => ~dropin
  /\ ~cut /\ run.step \notin {"restart", "back"} => (dropin <=> serving = "md")
  /\ ~up /\ ~cut /\ serving = "md" => outage <= strikes /\ outage <= 2

(* strikes are bad answers, and none is left standing behind a flip;       *)
StrikesInOrder ==
  ~kept => /\ strikes <= bad
           /\ strikes = 0 \/ run.why = "strikes" \/ (dropin /\ run.step = "idle")

(* the watchdog is on the alert from the second failing check on.          *)
WordIsKept ==
  /\ dog.alerted <=> dog.fails = 2
  /\ dog.lost \/ (dog.alerted <=> dog.told = "red")
FlipInv ==
  /\ TypeOK /\ FlipInOrder /\ StrikesInOrder /\ WordIsKept
  /\ OutageReturnsToLocal /\ StrikesAreReal /\ OutageIsTold
===============================================================================
