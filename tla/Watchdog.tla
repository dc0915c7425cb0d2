------------------------------ MODULE Watchdog ------------------------------
(***************************************************************************)
(* scripts/nightly_success_watchdog.sh, which cron runs at 07:15 and at    *)
(* 14:00: what it finds wrong, what it leaves aside while the nightly may  *)
(* still be at work, and when it says so.  Time is in hours.  What the     *)
(* nights bring (a promote before or after the early check or none, data   *)
(* that moved on or not, a publish to D1 or none) is chosen night by night.*)
(* The writer lock held too long and signals that cannot be read, which    *)
(* are reasons too, are left out.                                          *)
(***************************************************************************)
EXTENDS Integers

CONSTANTS
  Days,         \* how many days are looked at
  Sla           \* hours after which a table of the registry is past its SLA

Sched        == 5    \* NIGHTLY_SCHED_HM
Early        == 7    \* the cron lines
Late         == 14
Slots        == {6, 12}   \* when a nightly may promote
Expected     == 8    \* EXPECTED_NIGHTLY_HRS
SnapshotMax  == 28   \* SNAPSHOT_STALE_HRS
ReadmodelMax == 26   \* READMODEL_STALE_HRS
Never        == 99   \* no promote, no publish that day

VARIABLES
  day, tick,    \* the check at hand
  slot,         \* when tonight's nightly promotes
  promoted,     \* hour of the serving snapshot
  synced,       \* hour of the data in it
  full,         \* day of its last full run in core.sync_run
  published,    \* hour of campaign_data_publish_meta
  fails,        \* $STATE
  key,          \* $REASONS_STATE
  post,         \* what this check posted
  alarmed,      \* an alarm was posted in this outage (history)
  rot,          \* checks at 14:00 in a row that saw old data, no alarm standing (history)
  reads         \* checks in a row that could read D1 (history)

world == <<promoted, synced, full, published>>
vars == <<day, tick, slot, world, fails, key, post, alarmed, rot, reads>>

Reasons == {"overrun", "stale loads", "no full nightly", "snapshot age", "d1 age"}
Hour == -24 .. 24 * Days + 24
Now == 24 * day + tick

TypeOK ==
  /\ day \in 0 .. Days /\ tick \in {Early, Late} /\ slot \in Slots \cup {Never}
  /\ promoted \in Hour /\ synced \in Hour /\ full \in -1 .. Days /\ published \in Hour
  /\ fails \in 0 .. 2 * Days + 2 /\ key \subseteq Reasons /\ post \in {"nothing", "alarm", "recovered"}
  /\ alarmed \in BOOLEAN /\ rot \in 0 .. Days + 1 /\ reads \in 0 .. 2 * Days + 2

(* The last healthy night; tonight's slot is drawn.                        *)
Init ==
  /\ day = 0 /\ tick = Early /\ slot \in Slots \cup {Never}
  /\ promoted = 12 - 24 /\ synced = 12 - 24 /\ full = -1 /\ published = 12 - 24
  /\ fails = 0 /\ key = {} /\ post = "nothing" /\ alarmed = FALSE /\ rot = 0 /\ reads = 0

(***************************************************************************)
(* What a check finds in the world w.                                      *)
(***************************************************************************)
InProgress(w) == w.promoted < 24 * day + Sched
PastWindow    == tick >= Sched + Expected

(* add_stale_reason: expected while the nightly has not promoted yet.      *)
Suppressed(w) == InProgress(w) /\ ~PastWindow

(* Mutant: the ages are left aside too.                                    *)
Found_SuppressesAge(w, readable) ==
  {r \in Reasons :
     \/ r = "overrun" /\ InProgress(w) /\ PastWindow
     \/ r = "stale loads" /\ Now - w.synced > Sla /\ ~Suppressed(w)
     \/ r = "no full nightly" /\ w.full < day /\ ~Suppressed(w)
     \/ r = "snapshot age" /\ Now - w.promoted > SnapshotMax /\ ~Suppressed(w)
     \/ r = "d1 age" /\ readable /\ Now - w.published > ReadmodelMax /\ ~Suppressed(w)}

Found(w, readable) ==
  {r \in Reasons :
     \/ r = "overrun" /\ InProgress(w) /\ PastWindow
     \/ r = "stale loads" /\ Now - w.synced > Sla /\ ~Suppressed(w)
     \/ r = "no full nightly" /\ w.full < day /\ ~Suppressed(w)
     \/ r = "snapshot age" /\ Now - w.promoted > SnapshotMax
     \/ r = "d1 age" /\ readable /\ Now - w.published > ReadmodelMax}

(* Gating: an alarm at the second unhealthy check in a row and whenever    *)
(* the reasons are others than those posted last, one message when all is  *)
(* well again.                                                             *)
Healthy ==
  /\ post' = IF fails >= 2 THEN "recovered" ELSE "nothing"
  /\ fails' = 0 /\ key' = {} /\ alarmed' = FALSE
Unhealthy(reasons) ==
  /\ fails' = fails + 1
  /\ IF fails' >= 2 /\ reasons # key
     THEN post' = "alarm" /\ key' = reasons /\ alarmed' = TRUE
     ELSE post' = "nothing" /\ UNCHANGED <<key, alarmed>>
Judge(reasons) == IF reasons = {} THEN Healthy ELSE Unhealthy(reasons)

(* The night so far: if its promote is before this check, the snapshot has *)
(* what the night brought.                                                 *)
Brought ==
  IF slot < tick /\ promoted < 24 * day
  THEN {[promoted |-> 24 * day + slot, synced |-> s, full |-> f, published |-> p] :
          s \in {synced, 24 * day + slot}, f \in {full, day}, p \in {published, 24 * day + slot}}
  ELSE {[promoted |-> promoted, synced |-> synced, full |-> full, published |-> published]}

Check ==
  /\ day < Days
  /\ \E w \in Brought, readable \in BOOLEAN :
       /\ promoted' = w.promoted /\ synced' = w.synced /\ full' = w.full /\ published' = w.published
       /\ Judge(Found(w, readable))
       /\ reads' = IF readable THEN reads + 1 ELSE 0
       /\ rot' = CASE alarmed' -> 0
                    [] ~alarmed' /\ tick = Early -> rot
                    [] OTHER -> IF Now - w.synced > Sla /\ ~InProgress(w) THEN rot + 1 ELSE 0
  /\ IF tick = Early THEN tick' = Late /\ UNCHANGED <<day, slot>>
     ELSE tick' = Early /\ day' = day + 1 /\ slot' \in Slots \cup {Never}

Next == Check

Spec == Init /\ [][Next]_vars

(***************************************************************************)
(* What its owner may rely on.                                             *)
(***************************************************************************)
(* Hours of the last check and of the one before it.                       *)
Last   == IF tick = Late THEN 24 * day + Early ELSE 24 * (day - 1) + Late
Before == IF tick = Late THEN 24 * (day - 1) + Late ELSE 24 * (day - 1) + Early

(* A snapshot two nights old, or a publish to D1 that was overdue at both  *)
(* of the last checks, is on the record: the two are judged also while a   *)
(* nightly may be at work, so two checks in a row see them.                *)
LongOutageAlarms ==
  /\ Last - promoted >= 49 => alarmed
  /\ reads >= 2 /\ Before - published > ReadmodelMax => alarmed

(* What makes it inductive: the reasons posted last stand for an alarm,    *)
(* what two checks in a row will see has been counted once, and nothing is *)
(* counted more often than there were checks.                              *)
Checks == 2 * day + IF tick = Late THEN 1 ELSE 0
OutageIsCounted ==
  /\ key # {} => alarmed
  /\ Last - promoted > SnapshotMax => fails >= 1
  /\ reads >= 1 /\ Last - published > ReadmodelMax => fails >= 1
CountedOnce == fails <= Checks /\ reads <= Checks /\ rot <= day
WatchInv == TypeOK /\ CountedOnce /\ OutageIsCounted /\ LongOutageAlarms

(* nightly_success_watchdog.sh:145: "stale-data-after-a-SUCCESSFUL-nightly *)
(* [...] still alarms exactly as before".                                  *)
StaleDataAlarms == rot < 3
=============================================================================
