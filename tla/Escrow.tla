-------------------------------- MODULE Escrow --------------------------------
(***************************************************************************)
(* The vault: md-migration/escrow_export.py copies every table of the      *)
(* served snapshot to a prefix of the day, escrow_watchdog.py looks every  *)
(* four hours whether the newest prefix is complete, lets the export run   *)
(* again if not, and says so when that does not help.  Both take           *)
(* /tmp/escrow.lock with `flock -n', so there is one export at a time.     *)
(* Whether the bucket refuses to overwrite an object (Object Lock) is its  *)
(* owner's choice.  An upload is there as a whole or not at all.           *)
(***************************************************************************)
EXTENDS FiniteSets, Integers

CONSTANTS
  TablesOf,   \* the tables of each promoted snapshot, in order
  Extra,      \* what goes along with them: the definitions, files of seed_data
  Seed,       \* those of seed_data
  Days, MaxFaults,  \* bounds
  ApiDays           \* days on which the read API may have a problem

VARIABLES
  day, snap,
  locked,    \* the bucket has Object Lock
  vault,     \* day -> table -> snapshot of the object, 0 for none
  extras,    \* day -> what of Extra is there
  manifest,  \* day -> _manifest.json: snapshot, tables with counts, without
  export,    \* the process: its day, snapshot, tables to do, done, skipped, failed
  last,      \* day and snapshot of the export that ended last, 0 if it failed
  dog,       \* the watchdog: its step and its state file; history: what the
             \* alarm that stands is about, whether one about something else
             \* stood when the vault fell short, and whether the file was not
             \* read or not saved since the last post
  gaps,      \* history: checks in a row that ended with a bad escrow
  ran,       \* day of cron's last export: one a day
  quiet,     \* history: day and snapshot of the last check without a problem
  faults

vars == <<day, snap, locked, vault, extras, manifest, export, last, dog, gaps, ran, quiet, faults>>

Unverified == [day |-> 0, snap |-> 1]
Snapshot == DOMAIN TablesOf
Exported == UNION {TablesOf[s] : s \in Snapshot}
Day      == 1..Days
Nobody   == [step |-> "none", by |-> "nobody", day |-> 1, snap |-> 1, left |-> {},
             got |-> {}, skipped |-> {}, failed |-> {}]
NoManifest == [snap |-> 0, got |-> {}, skipped |-> {}]

Process == [step : {"none", "tables", "manifest", "verify"}, by : {"nobody", "cron", "dog"}, day : Day,
            snap : Snapshot, left : SUBSET Exported, got : SUBSET Exported,
            skipped : SUBSET Exported, failed : SUBSET Exported]

Watchdog == [step : {"none", "heal", "read"}, fails : 0..2, alerted : BOOLEAN,
             told : {"none", "vault", "other"}, masked : BOOLEAN, lost : BOOLEAN]

TypeOK ==
  /\ day \in Day /\ snap \in Snapshot /\ locked \in BOOLEAN
  /\ vault \in [Day -> [Exported -> {0} \cup Snapshot]] /\ extras \in [Day -> SUBSET Extra]
  /\ manifest \in [Day -> [snap : {0} \cup Snapshot, got : SUBSET Exported, skipped : SUBSET Exported]]
  /\ \A d \in Day : manifest[d].got \cap manifest[d].skipped = {}
  /\ export \in Process
  /\ UNION {export.left, export.got, export.skipped, export.failed} \subseteq TablesOf[export.snap]
  /\ last \in [day : 0..Days, snap : Snapshot] /\ quiet \in [day : 0..Days, snap : Snapshot]
  /\ dog \in Watchdog
  /\ gaps \in 0..2 /\ ran \in 0..Days /\ faults \in 0..MaxFaults

Init ==
  /\ day = 1 /\ snap = 1 /\ locked \in BOOLEAN
  /\ vault = [d \in Day |-> [t \in Exported |-> 0]] /\ extras = [d \in Day |-> {}]
  /\ manifest = [d \in Day |-> NoManifest]
  /\ export = Nobody /\ last = Unverified
  /\ dog = [step |-> "none", fails |-> 0, alerted |-> FALSE, told |-> "none", masked |-> FALSE, lost |-> FALSE]
  /\ gaps = 0
  /\ ran = 0 /\ quiet = Unverified /\ faults = 0

Counts(fault) ==
  IF fault THEN faults < MaxFaults /\ faults' = faults + 1 ELSE UNCHANGED faults
-------------------------------------------------------------------------------
(* The export resolves the snapshot and the day once.                      *)
Starts(by) ==
  export' = [Nobody EXCEPT !.step = "tables", !.by = by, !.day = day, !.snap = snap, !.left = TablesOf[snap]]
Cron ==
  /\ export.step = "none" /\ ran < day /\ ran' = day
  /\ Starts("cron")
  /\ UNCHANGED <<day, snap, locked, vault, extras, manifest, last, dog, gaps, quiet, faults>>

(* _already_present takes any error of the HEAD for an absence.            *)
Present(t, error) == vault[export.day][t] # 0 /\ ~error

ExportTable ==
  /\ export.step = "tables" /\ export.left # {}
  /\ \E error \in BOOLEAN, fails \in BOOLEAN :
       LET t == CHOOSE name \in export.left : TRUE   \* ORDER BY: some fixed order
           refused == locked /\ vault[export.day][t] # 0
       IN  /\ error => vault[export.day][t] # 0
           /\ Counts(error \/ fails)
           /\ \/ /\ Present(t, error) /\ ~fails
                 /\ export' = [export EXCEPT !.left = @ \ {t}, !.skipped = @ \cup {t}]
                 /\ UNCHANGED vault
              \/ /\ ~Present(t, error) /\ ~fails /\ ~refused
                 /\ export' = [export EXCEPT !.left = @ \ {t}, !.got = @ \cup {t}]
                 /\ vault' = [vault EXCEPT ![export.day][t] = export.snap]
              \/ /\ ~Present(t, error) /\ (fails \/ refused)
                 /\ export' = [export EXCEPT !.left = @ \ {t}, !.failed = @ \cup {t}]
                 /\ UNCHANGED vault
  /\ UNCHANGED <<day, snap, locked, extras, manifest, last, dog, gaps, ran, quiet>>

(* Definitions and seed_data: an error is a line in the log.               *)
ExportExtras ==
  /\ export.step = "tables" /\ export.left = {}
  /\ \E missed \in SUBSET (Extra \ extras[export.day]) :
       /\ extras' = [extras EXCEPT ![export.day] = Extra \ missed]
       /\ Counts(missed # {})
  /\ export' = [export EXCEPT !.step = "manifest"]
  /\ UNCHANGED <<day, snap, locked, vault, manifest, last, dog, gaps, ran, quiet>>

Ends(well) ==
  /\ export' = Nobody
  /\ last' = IF well THEN [day |-> export.day, snap |-> export.snap] ELSE Unverified

(* put_object of the manifest, unguarded: what it raises ends the export.  *)
WriteManifest ==
  /\ export.step = "manifest"
  /\ \E raises \in BOOLEAN :
       /\ Counts(raises)
       /\ IF raises \/ (locked /\ manifest[export.day] # NoManifest)
          THEN Ends(FALSE) /\ UNCHANGED manifest
          ELSE /\ manifest' = [manifest EXCEPT ![export.day] =
                                 [snap |-> export.snap, got |-> export.got, skipped |-> export.skipped]]
               /\ export' = [export EXCEPT !.step = "verify"]
               /\ UNCHANGED last
  /\ UNCHANGED <<day, snap, locked, vault, extras, dog, gaps, ran, quiet>>

(* HEAD of every object of the manifest.                                   *)
Landed == \A t \in export.got \cup export.skipped : vault[export.day][t] # 0
Verified == export.failed = {} /\ Landed
Verify ==
  /\ export.step = "verify"
  /\ \E error \in BOOLEAN :
       /\ Counts(error)
       /\ Ends(Verified /\ ~error)
  /\ UNCHANGED <<day, snap, locked, vault, extras, manifest, dog, gaps, ran, quiet>>

(* Out of memory, or killed.                                               *)
Dies ==
  /\ export.step # "none"
  /\ Counts(TRUE) /\ Ends(FALSE)
  /\ UNCHANGED <<day, snap, locked, vault, extras, manifest, dog, gaps, ran, quiet>>
-------------------------------------------------------------------------------
(* escrow_status: the newest day against the snapshot served now.          *)
Dates == {d \in Day : extras[d] # {} \/ manifest[d] # NoManifest \/ \E t \in Exported : vault[d][t] # 0}
Complete(d) ==
  /\ \A t \in TablesOf[snap] : vault[d][t] # 0
  /\ extras[d] \cap Seed # {} /\ manifest[d] # NoManifest
Newest == LET dates == Dates IN CHOOSE d \in dates : \A e \in dates : e <= d
Bad == IF Dates = {} THEN TRUE ELSE day - Newest > 1 \/ ~Complete(Newest)

Capped(n) == IF n = 2 THEN 2 ELSE n + 1
(* The state file and Slack: the second check in a row with a problem is   *)
(* told, with all that it found, then nothing is until a check has found   *)
(* none.  A state that cannot be read is a fresh one; the file is written  *)
(* without a guard, and may stay as it was or be left empty.               *)
Fresh == [fails |-> 0, alerted |-> FALSE]
Filed == [fails |-> dog.fails, alerted |-> dog.alerted]
Alarms(problem, was) == problem /\ was.fails >= 1 /\ ~was.alerted
Judge(vaultBad, apiBad, fault) ==
  \E was \in {Filed, Fresh} :
    LET problem == vaultBad \/ apiBad
        clears  == ~problem /\ was.alerted
        new     == IF problem THEN [fails |-> Capped(was.fails), alerted |-> was.alerted \/ was.fails >= 1]
                   ELSE Fresh
    IN  \E file \in {new, Filed, Fresh} :
          LET slips == was # Filed \/ file # new
              lost  == slips \/ (dog.lost /\ ~Alarms(problem, was) /\ ~clears)
          IN  /\ Counts(fault \/ slips)
              /\ dog' = [step |-> "none", fails |-> file.fails, alerted |-> file.alerted,
                         told |-> CASE lost -> "none"
                                    [] ~lost /\ Alarms(problem, was) -> IF vaultBad THEN "vault" ELSE "other"
                                    [] ~lost /\ ~Alarms(problem, was) -> IF clears THEN "none" ELSE dog.told,
                         masked |-> ~lost /\ Bad /\ IF gaps = 0 THEN dog.told = "other" ELSE dog.masked,
                         lost |-> lost]
Over(vaultBad, apiBad, fault) ==
  /\ Judge(vaultBad, apiBad, fault)
  /\ gaps' = IF Bad THEN Capped(gaps) ELSE 0
  /\ quiet' = IF vaultBad \/ apiBad THEN quiet ELSE [day |-> day, snap |-> snap]

ApiMay == IF day \in ApiDays THEN BOOLEAN ELSE {FALSE}

(* main: a bad escrow is healed first, if no other export holds the lock;  *)
(* a look at the bucket that fails is a problem of the vault's as well,    *)
(* and the read API may have one of its own.                               *)
Check ==
  /\ dog.step = "none"
  /\ \/ /\ \E fails \in BOOLEAN, apiBad \in ApiMay : (Bad => fails) /\ Over(fails, apiBad, fails)
        /\ UNCHANGED export
     \/ /\ Bad /\ export.step = "none"
        /\ Starts("dog") /\ dog' = [dog EXCEPT !.step = "heal"]
        /\ UNCHANGED <<gaps, quiet, faults>>
     \/ /\ Bad /\ export.step # "none"
        /\ dog' = [dog EXCEPT !.step = "read"]
        /\ UNCHANGED <<export, gaps, quiet, faults>>
  /\ UNCHANGED <<day, snap, locked, vault, extras, manifest, last, ran>>

(* self_heal comes back, with the export or after 3000 seconds without it. *)
HealReturns ==
  /\ dog.step = "heal"
  /\ Counts(export.by = "dog")
  /\ dog' = [dog EXCEPT !.step = "read"]
  /\ UNCHANGED <<day, snap, locked, vault, extras, manifest, export, last, gaps, ran, quiet>>

Recheck ==
  /\ dog.step = "read"
  /\ \E fails \in BOOLEAN, apiBad \in ApiMay : Over(Bad \/ fails, apiBad, fails)
  /\ UNCHANGED <<day, snap, locked, vault, extras, manifest, export, last, ran>>
-------------------------------------------------------------------------------
Promote ==
  /\ snap + 1 \in Snapshot /\ snap' = snap + 1
  /\ UNCHANGED <<day, locked, vault, extras, manifest, export, last, dog, gaps, ran, quiet, faults>>
NewDay ==
  /\ day < Days /\ day' = day + 1
  /\ UNCHANGED <<snap, locked, vault, extras, manifest, export, last, dog, gaps, ran, quiet, faults>>

Export == Cron \/ ExportTable \/ ExportExtras \/ WriteManifest \/ Verify \/ Dies
Next == Export \/ Check \/ HealReturns \/ Recheck \/ Promote \/ NewDay
Spec == Init /\ [][Next]_vars
-------------------------------------------------------------------------------
(* escrow_export.py:12: an export that ends well has every table of its    *)
(* snapshot in the vault, of this or an earlier one of the day, whatever   *)
(* failed, died or was skipped before it; in a bucket that refuses to      *)
(* overwrite, the day's manifest names each (elsewhere a later export of   *)
(* the day that fails leaves a manifest without what failed).              *)
DoneIsVaulted ==
  last.day > 0 =>
    \A t \in TablesOf[last.snap] :
      /\ vault[last.day][t] # 0
      /\ locked => t \in manifest[last.day].got \cup manifest[last.day].skipped

(* escrow_export.py:11: the counts and checksums of a manifest are those   *)
(* of the objects it names, in a bucket that refuses to overwrite them.    *)
ManifestIsTrue ==
  locked => \A d \in Day : \A t \in manifest[d].got : vault[d][t] = manifest[d].snap

(* escrow_watchdog.py:12: an escrow that is bad at the end of two checks   *)
(* in a row is told, unless an alarm about something else, the read API,   *)
(* stood when it fell short and keeps the watchdog quiet, or since the     *)
(* last post its state was not read or not saved.  And what a check        *)
(* without a problem saw can be restored ever after: each table of the     *)
(* snapshot served then, with seed_data and a manifest, of that day or the *)
(* one before.                                                             *)
GapsAreTold ==
  /\ gaps = 2 => dog.told = "vault" \/ dog.masked \/ dog.lost
  /\ quiet.day > 0 =>
       \E d \in {quiet.day, quiet.day - 1} \cap Day :
         /\ \A t \in TablesOf[quiet.snap] : vault[d][t] # 0
         /\ extras[d] \cap Seed # {} /\ manifest[d].snap # 0

(* What makes them inductive: an export has each table of its snapshot to  *)
(* do or done, and what it calls done lies in its day, where a bucket that *)
(* refuses to overwrite keeps it;                                          *)
AtWork == export.step # "none"
ExportInOrder ==
  /\ export.left \cap (export.got \cup export.skipped) = {} /\ export.got \cap export.skipped = {}
  /\ AtWork => /\ TablesOf[export.snap] \subseteq
                    UNION {export.left, export.got, export.skipped, export.failed}
               /\ export.day <= day
               /\ locked => \A t \in export.got : vault[export.day][t] = export.snap
  /\ export.step \in {"manifest", "verify"} => export.left = {}
  /\ export.step = "verify" => manifest[export.day] =
       [snap |-> export.snap, got |-> export.got, skipped |-> export.skipped]

(* a manifest names its snapshot, nothing lies in a day to come, and the   *)
(* watchdog has counted what was bad, is on the alert from the second on,  *)
(* and said why.                                                           *)
VaultInOrder ==
  /\ \A d \in Day : manifest[d] = NoManifest \/ manifest[d].snap # 0
  /\ \A d \in Day : d > day => /\ extras[d] = {} /\ manifest[d] = NoManifest
                               /\ \A t \in Exported : vault[d][t] = 0
GapsAreCounted ==
  /\ dog.fails = 2 <=> dog.alerted
  /\ dog.lost \/ /\ gaps <= dog.fails
                 /\ dog.alerted <=> dog.told # "none"
                 /\ gaps > 0 => dog.told # "other" \/ dog.masked
EscrowInv ==
  /\ TypeOK /\ ExportInOrder /\ VaultInOrder /\ GapsAreCounted
  /\ DoneIsVaulted /\ ManifestIsTrue /\ GapsAreTold
===============================================================================
