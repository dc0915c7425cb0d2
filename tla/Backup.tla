-------------------------------- MODULE Backup --------------------------------
(***************************************************************************)
(* scripts/backup.sh: every morning the served snapshot is copied to a     *)
(* file of the day on the volume, checked by its size, and pushed to a     *)
(* remote; old copies are pruned on both sides.  flock -n lets one run at  *)
(* a time, and a push may outlast the next morning's cron.                 *)
(***************************************************************************)
EXTENDS FiniteSets, Integers

CONSTANTS
  Keep, KeepOff,   \* days a copy is kept, here and on the remote
  Room,            \* copies that fit on the volume beside the free space asked for
  Days, MaxFaults  \* bounds

VARIABLES
  day,
  local, offbox,   \* day -> the copy of that day
  run,             \* the run that holds the lock: its step and day
  ran,             \* days whose cron has come
  told,            \* days whose run posted an alert
  cut,             \* history: days whose run was killed, or found an earlier one alive
  copied, pushed,  \* history: days that had a verified copy, that reached the remote
  faults

vars == <<day, local, offbox, run, ran, told, cut, copied, pushed, faults>>

Day  == 1..Days
Copy == {"none", "partial", "whole"}
Idle == [step |-> "idle", day |-> 1]

TypeOK ==
  /\ day \in Day /\ faults \in 0..MaxFaults
  /\ {local, offbox} \subseteq [Day -> Copy]
  /\ run \in [step : {"idle", "copy", "seed", "push"}, day : Day]
  /\ {ran, told, cut, copied, pushed} \subseteq SUBSET Day

Init ==
  /\ day = 1 /\ faults = 0 /\ run = Idle
  /\ local = [d \in Day |-> "none"] /\ offbox = local
  /\ ran = {} /\ told = {} /\ cut = {} /\ copied = {} /\ pushed = {}

Counts(fault) ==
  IF fault THEN faults < MaxFaults /\ faults' = faults + 1 ELSE UNCHANGED faults

(* alert, and on_err for what aborts the script.                           *)
Alert == told' = told \cup {run.day} /\ run' = Idle
-------------------------------------------------------------------------------
(* find -mtime -1: a file younger than a day, whatever is in it.           *)
Young == \E d \in {day - 1, day} \cap Day : local[d] # "none"

Skip ==
  /\ run.step # "idle" /\ day \notin ran /\ ran' = ran \cup {day}
  /\ told' = IF Young THEN told ELSE told \cup {day}
  /\ cut' = cut \cup {day}
  /\ UNCHANGED <<day, local, offbox, run, copied, pushed, faults>>

(* The pointer is resolved once and must name a file, and the copy must    *)
(* leave the free space; cp then writes under the final name.              *)
Fits == Cardinality({d \in Day : local[d] # "none"}) < Room
Start ==
  /\ run.step = "idle" /\ day \notin ran /\ ran' = ran \cup {day}
  /\ \E lost \in BOOLEAN :
       /\ Counts(lost)
       /\ IF lost \/ ~Fits
          THEN told' = told \cup {day} /\ UNCHANGED <<run, local>>
          ELSE /\ run' = [step |-> "copy", day |-> day]
               /\ local' = [local EXCEPT ![day] = "partial"]
               /\ UNCHANGED told
  /\ UNCHANGED <<day, offbox, cut, copied, pushed>>

(* A cp that fails leaves what it wrote; a copy of another size is removed. *)
Verified ==
  /\ local' = [local EXCEPT ![run.day] = "whole"] /\ copied' = copied \cup {run.day}
  /\ run' = [run EXCEPT !.step = "seed"]
  /\ UNCHANGED <<told, faults>>
Mismatch ==
  /\ Counts(TRUE) /\ Alert /\ UNCHANGED copied
  /\ local' \in {local, [local EXCEPT ![run.day] = "none"]}
Copying ==
  /\ run.step = "copy"
  /\ Verified \/ Mismatch
  /\ UNCHANGED <<day, offbox, ran, cut, pushed>>

Pruned(copies, days) == [d \in Day |-> IF day - d > days THEN "none" ELSE copies[d]]

(* The tarball of seed_data, whose failure aborts, and the local pruning.  *)
SeedAndPrune ==
  /\ run.step = "seed"
  /\ \/ Counts(TRUE) /\ Alert /\ UNCHANGED local
     \/ /\ local' = Pruned(local, Keep)
        /\ run' = [run EXCEPT !.step = "push"]
        /\ UNCHANGED <<told, faults>>
  /\ UNCHANGED <<day, offbox, ran, cut, copied, pushed>>

(* rclone copy, then rclone delete --min-age, which may fail unheard.      *)
Landed == [offbox EXCEPT ![run.day] = local[run.day]]
Push ==
  /\ run.step = "push"
  /\ \/ Counts(TRUE) /\ Alert /\ UNCHANGED <<offbox, pushed>>
     \/ /\ pushed' = pushed \cup {run.day}
        /\ offbox' \in {Landed, Pruned(Landed, KeepOff - 1)}
        /\ run' = Idle
        /\ UNCHANGED <<told, faults>>
  /\ UNCHANGED <<day, local, ran, cut, copied>>

Killed ==
  /\ run.step # "idle" /\ Counts(TRUE)
  /\ run' = Idle /\ cut' = cut \cup {run.day}
  /\ UNCHANGED <<day, local, offbox, ran, told, copied, pushed>>

(* A run outlasts one morning at most.                                     *)
NewDay ==
  /\ day < Days /\ day \in ran /\ day' = day + 1
  /\ run.step # "idle" => run.day = day
  /\ UNCHANGED <<local, offbox, run, ran, told, cut, copied, pushed, faults>>

Next == Skip \/ Start \/ Copying \/ SeedAndPrune \/ Push \/ Killed \/ NewDay
Spec == Init /\ [][Next]_vars
-------------------------------------------------------------------------------
(* backup.sh:126: after the first verified copy there is always a whole    *)
(* one on the volume, and after the first push a whole one, and nothing    *)
(* else, on the remote, however many mornings fail after it.               *)
KeepsOne ==
  /\ copied # {} => \E d \in Day : local[d] = "whole"
  /\ pushed # {} => \E d \in Day : offbox[d] = "whole"
  /\ \A d \in Day : offbox[d] # "partial"

(* backup.sh:20: a morning that posted nothing has a verified copy, or its *)
(* run is under way, was killed or gave way to an earlier one.             *)
SilentIsCopied ==
  \A d \in ran : d \in told \cup copied \cup cut \/ (run.step # "idle" /\ run.day = d)

(* What makes it inductive: a day without its cron has no copy, and the    *)
(* run at work has its copy on the volume, too young to be pruned.         *)
CopyAtHand ==
  /\ \A d \in Day : d \notin ran => local[d] = "none" /\ offbox[d] = "none"
  /\ \A d \in ran : d <= day
  /\ run.step # "idle" => run.day \in ran /\ day - run.day <= 1
  /\ run.step = "copy" => local[run.day] = "partial"
  /\ run.step \in {"seed", "push"} => local[run.day] = "whole" /\ run.day \in copied
BackupInv == TypeOK /\ CopyAtHand /\ KeepsOne /\ SilentIsCopied
===============================================================================
