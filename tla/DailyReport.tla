----------------------------- MODULE DailyReport -----------------------------
(***************************************************************************)
(* The tab of one day in the Daily RevOps Report: the evening sync, its    *)
(* SLA watchdog, the re-lock and the backfill after the nightly            *)
(* (scripts/daily_report_sync.sh, daily_report_sla_watchdog.sh), with the  *)
(* nightly as these scripts see it: its log and its promotes.  Cron starts *)
(* them in this order, hours apart, and each takes as long as it takes.    *)
(* Snapshots, log lines and the ends of phases are stamped by one clock.   *)
(***************************************************************************)
EXTENDS Naturals, Functions

CONSTANTS
  Days,       \* sets of the jobs that cron starts in one day
  MaxNow      \* bound on the stamped events

Refresh == {"evening", "heal", "relock"}     \* stage, run phases, promote, render
Script  == Refresh \cup {"backfill"}
Never   == 0                                 \* before anything was stamped
NoAnswer == MaxNow + 1                       \* snap_id without an answer

VARIABLES
  now,
  day,       \* jobs cron has still to start
  at,        \* script -> where it is
  landed,    \* script -> when its last phase ended
  prev,      \* script -> PREV_SNAP
  pub,       \* script -> its detached publisher
  read,      \* script -> snapshot its render reads
  alerted,   \* scripts that have posted a warning
  holder,    \* of /tmp/daily_report_sync.lock
  snap,      \* build time of the serving snapshot
  tab,       \* snapshot the tab shows
  nightly,   \* where the nightly is
  log,       \* what logs/<utc-date>.log says: start, last "ended" line, exit=
  ended      \* pass -> when its run ended well (history)

scripts == <<at, landed, prev, pub, read, alerted, holder>>
night   == <<nightly, log, ended>>
vars    == <<now, day, scripts, snap, tab, night>>

Stamp   == 1 .. MaxNow
Stages  == {"idle", "begin", "phases", "promote", "poll", "render", "write", "done"}
Cron    == <<"evening", "watchdog", "relock", "nightly", "backfill">>   \* by the hour
NoLine  == [ok |-> FALSE, ts |-> Never]

TypeOK ==
  /\ now \in 0 .. MaxNow /\ day \subseteq Range(Cron) /\ snap \in 0 .. MaxNow /\ tab \in 0 .. MaxNow
  /\ at \in [Script -> Stages] /\ pub \in [Script -> {"none", "running", "dead"}]
  /\ landed \in [Script -> 0 .. MaxNow] /\ read \in [Script -> 0 .. MaxNow]
  /\ prev \in [Script -> 0 .. NoAnswer]
  /\ alerted \subseteq Script /\ holder \in Script \cup {"nobody"}
  /\ nightly \in {"none", "A", "gap", "B", "tail", "over", "died"}
  /\ log \in [start : 0 .. MaxNow, line : [ok : BOOLEAN, ts : 0 .. MaxNow], exit : {"none", "0", "2"}]
  /\ ended \in [{"A", "B"} -> 0 .. MaxNow]

Init ==
  /\ now = 0 /\ day \in Days /\ snap = Never /\ tab = Never
  /\ at = [s \in Script |-> "idle"] /\ pub = [s \in Script |-> "none"]
  /\ landed = [s \in Script |-> Never] /\ read = [s \in Script |-> Never]
  /\ prev = [s \in Script |-> Never] /\ alerted = {} /\ holder = "nobody"
  /\ nightly = "none" /\ log = [start |-> Never, line |-> NoLine, exit |-> "none"]
  /\ ended = [p \in {"A", "B"} |-> Never]

Goto(s, stage) == at' = [at EXCEPT ![s] = stage]
Tick == now < MaxNow /\ now' = now + 1
Alert(s) == alerted' = alerted \cup {s}
Released(s) == IF holder = s THEN "nobody" ELSE holder

(* The nightly holds the writer lock while an orchestrator runs.           *)
Locked == nightly \in {"A", "B"}

(***************************************************************************)
(* Cron.                                                                   *)
(***************************************************************************)
Due(job) ==
  /\ job \in day /\ day' = day \ {job}
  /\ \A i, j \in DOMAIN Cron : Cron[i] \in day /\ Cron[j] = job => j <= i

(* flock -n: started, or dropped while another one runs.                   *)
CronStarts(job) ==
  /\ Due(job)
  /\ IF holder = "nobody" THEN Goto(job, "begin") /\ holder' = job ELSE UNCHANGED <<at, holder>>
  /\ UNCHANGED <<now, landed, prev, pub, read, alerted, snap, tab, night>>

(* daily_report_sla_watchdog.sh: unless today's sends are served and there *)
(* is a tab, or if it cannot see that, it runs the evening sync once more, *)
(* without the flock of the cron lines.                                    *)
SlaOk == tab # Never /\ landed["evening"] # Never /\ snap >= landed["evening"]
Watchdog ==
  /\ Due("watchdog")
  /\ \/ SlaOk /\ UNCHANGED at
     \/ Goto("heal", "begin")
  /\ UNCHANGED <<now, landed, prev, pub, read, alerted, holder, snap, tab, night>>

(***************************************************************************)
(* daily_report_sync.sh                                                    *)
(***************************************************************************)
(* The pre-probe of the writer lock, which some other writer may hold too: *)
(* go ahead, or render from what is there.                                 *)
Probe(s) ==
  /\ s \in Refresh /\ at[s] = "begin"
  /\ \/ ~Locked /\ Goto(s, "phases") /\ UNCHANGED alerted
     \/ Goto(s, "render") /\ Alert(s)
  /\ UNCHANGED <<now, day, landed, prev, pub, read, holder, snap, tab, night>>

(* The phases, each a process that waits for the writer lock; whatever     *)
(* becomes of them, the script goes on.                                    *)
Phases(s) ==
  /\ at[s] = "phases" /\ Goto(s, "promote")
  /\ \/ ~Locked /\ Tick /\ landed' = [landed EXCEPT ![s] = now']
     \/ UNCHANGED <<now, landed>>
  /\ UNCHANGED <<day, prev, pub, read, alerted, holder, snap, tab, night>>

StartPublisher(s) ==
  /\ at[s] = "promote" /\ Goto(s, "poll")
  /\ \E id \in {snap, NoAnswer} : prev' = [prev EXCEPT ![s] = id]
  /\ pub' = [pub EXCEPT ![s] = "running"]
  /\ UNCHANGED <<now, day, landed, read, alerted, holder, snap, tab, night>>

(* The publisher copies the database while nobody writes, or gives up.     *)
Publisher(s) ==
  /\ pub[s] = "running" /\ pub' = [pub EXCEPT ![s] = "dead"]
  /\ \/ ~Locked /\ Tick /\ snap' = now'
     \/ UNCHANGED <<now, snap>>
  /\ UNCHANGED <<day, at, landed, prev, read, alerted, holder, tab, night>>

(* Every ten seconds: another snapshot than before is served; or the       *)
(* publisher is gone, or time is up, and there is none (or no answer).     *)
Served(s) == at[s] = "poll" /\ snap # prev[s]
Poll(s) ==
  /\ Goto(s, "render")
  /\ \/ Served(s) /\ UNCHANGED alerted
     \/ at[s] = "poll" /\ Alert(s)
  /\ UNCHANGED <<now, day, landed, prev, pub, read, holder, snap, tab, night>>

(* render_daily.py: the sections are read, then the tab is written anew.   *)
RenderReads(s) ==
  /\ at[s] = "render" /\ Goto(s, "write") /\ read' = [read EXCEPT ![s] = snap]
  /\ UNCHANGED <<now, day, landed, prev, pub, alerted, holder, snap, tab, night>>
RenderWrites(s) ==
  /\ at[s] = "write" /\ Goto(s, "done") /\ tab' = read[s] /\ holder' = Released(s)
  /\ UNCHANGED <<now, day, landed, prev, pub, read, alerted, snap, night>>
RenderFails(s) ==
  /\ at[s] \in {"render", "write"} /\ Goto(s, "done") /\ Alert(s) /\ holder' = Released(s)
  /\ UNCHANGED <<now, day, landed, prev, pub, read, snap, tab, night>>

(* The guard of the backfill.  The exit line is the nightly's last one;    *)
(* while there is none, the last "ended" line of an orchestrator stands    *)
(* in for it.                                                              *)
Completed == log.exit = "0" \/ (log.exit = "none" /\ log.line.ok)
Since     == IF log.exit = "none" THEN log.line.ts ELSE log.start
GuardOk == log.start # Never /\ Completed /\ snap >= Since

Guard ==
  /\ at["backfill"] = "begin"
  /\ \/ GuardOk /\ Goto("backfill", "render") /\ UNCHANGED <<alerted, holder>>
     \/ Goto("backfill", "done") /\ Alert("backfill") /\ holder' = Released("backfill")
  /\ UNCHANGED <<now, day, landed, prev, pub, read, snap, tab, night>>

(***************************************************************************)
(* nightly.sh, seen from its log.                                          *)
(***************************************************************************)
others == <<scripts, tab>>

NightlyStarts ==
  /\ Due("nightly")
  /\ \/ Tick /\ nightly' = "A" /\ log' = [log EXCEPT !.start = now'] /\ UNCHANGED ended
     \/ UNCHANGED <<now, night>>
  /\ UNCHANGED <<others, snap>>

(* An orchestrator ends: "ended (status=success|partial)", or a hard abort *)
(* without that line.                                                      *)
PassEnds(p, next) ==
  /\ nightly = p /\ nightly' = next
  /\ \/ Tick /\ log' = [log EXCEPT !.line = [ok |-> TRUE, ts |-> now']] /\ ended' = [ended EXCEPT ![p] = now']
     \/ UNCHANGED <<now, log, ended>>
  /\ UNCHANGED <<day, others, snap>>

(* The promote after the first pass, if that ended well.                   *)
Gap ==
  /\ nightly = "gap" /\ nightly' = "B"
  /\ \/ ended["A"] # Never /\ Tick /\ snap' = now'
     \/ UNCHANGED <<now, snap>>
  /\ UNCHANGED <<day, others, log, ended>>

(* The tail, the last promote and the exit line.                           *)
BothEnded == \A p \in {"A", "B"} : ended[p] # Never
NightlyEnds ==
  /\ nightly = "tail" /\ nightly' = "over"
  /\ \/ BothEnded /\ Tick /\ snap' = now'
     \/ UNCHANGED <<now, snap>>
  /\ log' = [log EXCEPT !.exit = IF BothEnded THEN "0" ELSE "2"]
  /\ UNCHANGED <<day, others, ended>>

NightlyDies ==
  /\ nightly \in {"A", "gap", "B", "tail"} /\ nightly' = "died"
  /\ UNCHANGED <<now, day, others, snap, log, ended>>

(* The 06:30 timer, or a promote by hand.                                  *)
OtherPromote ==
  /\ ~Locked /\ Tick /\ snap' = now'
  /\ UNCHANGED <<day, others, night>>

Next ==
  \/ (\E job \in Script : CronStarts(job)) \/ Watchdog \/ Guard
  \/ \E s \in Script :
       Probe(s) \/ Phases(s) \/ StartPublisher(s) \/ Publisher(s) \/ Poll(s) \/ RenderReads(s)
       \/ RenderWrites(s) \/ RenderFails(s)
  \/ NightlyStarts \/ PassEnds("A", "gap") \/ Gap \/ PassEnds("B", "tail") \/ NightlyEnds \/ NightlyDies
  \/ OtherPromote

Spec == Init /\ [][Next]_vars

(***************************************************************************)
(* What a reader of the tab may rely on.                                   *)
(***************************************************************************)

(* A sync that is done and has posted no warning has rendered a snapshot   *)
(* that holds what its phases landed, whoever promoted it, provided that   *)
(* the query API answered when it was asked for the snapshot before.       *)
QuietMeansFresh ==
  \A s \in Refresh : at[s] = "done" /\ s \notin alerted /\ prev[s] # NoAnswer => read[s] >= landed[s]

(* A backfill that goes ahead reads a snapshot promoted after a pass of    *)
(* tonight's ended: never the one it wants to replace.                     *)
BackfillReadsTonight ==
  at["backfill"] \in {"write", "done"} /\ "backfill" \notin alerted /\ read["backfill"] # Never =>
    \E p \in {"A", "B"} : ended[p] # Never /\ read["backfill"] >= ended[p]

(* What makes them inductive: nothing is stamped ahead of the clock, so    *)
(* that a snapshot served since the phases ended holds what they landed;   *)
ClockInOrder ==
  /\ snap <= now
  /\ \A s \in Script : landed[s] <= now
  /\ \A p \in {"A", "B"} : ended[p] <= now
SyncInOrder ==
  \A s \in Refresh : prev[s] # NoAnswer =>
    /\ at[s] = "poll" => snap = prev[s] \/ snap >= landed[s]
    /\ at[s] = "render" /\ s \notin alerted => snap >= landed[s]
    /\ at[s] = "write" /\ s \notin alerted => read[s] >= landed[s]

(* nothing is promoted under the first pass, so that a snapshot younger    *)
(* than the nightly's start is younger than that pass, and what the log    *)
(* says of the passes is true;                                             *)
NightInOrder ==
  /\ "nightly" \in day => nightly = "none"
  /\ "nightly" \in day \/ nightly = "A" => ended["A"] = Never
  /\ "nightly" \in day \/ nightly \in {"A", "gap", "B"} => ended["B"] = Never
  /\ nightly = "A" => snap < log.start
  /\ log.start # Never /\ ended["A"] # Never => snap < log.start \/ snap >= ended["A"]
  /\ log.exit = "0" => BothEnded
  /\ log.line.ok => \E p \in {"A", "B"} : ended[p] # Never /\ log.line.ts = ended[p]

(* and a backfill that goes ahead finds a pass behind the snapshot.        *)
AfterAPass(id) == \E p \in {"A", "B"} : ended[p] # Never /\ id >= ended[p]
BackfillInOrder ==
  /\ at["backfill"] \in {"idle", "begin", "render", "write", "done"}
  /\ at["backfill"] = "render" /\ "backfill" \notin alerted => AfterAPass(snap)
ReportInv ==
  /\ TypeOK /\ ClockInOrder /\ SyncInOrder /\ NightInOrder /\ BackfillInOrder
  /\ QuietMeansFresh /\ BackfillReadsTonight

(* daily_report_sync.sh:19: "skips + Slack-warns unless today's nightly    *)
(* COMPLETED".                                                             *)
BackfillAwaitsNightly == at["backfill"] = "render" => ended["B"] # Never
===============================================================================
