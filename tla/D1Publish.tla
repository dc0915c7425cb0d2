------------------------------ MODULE D1Publish ------------------------------
(***************************************************************************)
(* The copy of campaign_data to Cloudflare D1 that Campaign Control reads: *)
(* scripts/publish_campaign_data_d1.py, the steps of nightly.sh around it  *)
(* and scripts/verify_campaign_data_parity.py.  The statements (one        *)
(* DELETE, an INSERT per 200 rows, the meta row) go out one HTTP request   *)
(* each; a request that timed out may still be executed, at once or after  *)
(* its client has gone on, though not past the next night's publish.       *)
(* Whether the table has a primary key is not known in this repository.    *)
(***************************************************************************)
EXTENDS Naturals

CONSTANTS
  Inserts,    \* INSERT statements of a full mirror
  Tries,      \* D1_MAX_RETRIES
  Nights

VARIABLES
  night, keyed,
  stage,      \* where the nightly is
  n,          \* INSERT statements of this publish: 0 if the mirror is empty
  idx, try,   \* statement at hand (0: DELETE, n + 1: meta), attempts before this one
  copies,     \* night -> chunk -> how often its rows are in the table
  meta,       \* night of campaign_data_publish_meta.published_at
  inflight,   \* statements whose client has given up on them
  late,       \* statements executed after that (history)
  again,      \* statements sent more than once (history)
  rc,         \* PUBLISH_RC
  parity,     \* PARITY_RC
  degraded    \* NIGHTLY_DEGRADED

client == <<n, idx, try>>
server == <<copies, meta>>
vars == <<night, keyed, stage, client, server, inflight, late, again, rc, parity, degraded>>

Night  == 0 .. Nights
Chunk  == 1 .. Inserts
Killed == 137      \* stands for 124 too
NoRc   == 9

TypeOK ==
  /\ night \in Night /\ keyed \in BOOLEAN /\ meta \in Night
  /\ stage \in {"fetch", "send", "assert", "parity", "over"}
  /\ n \in 0 .. Inserts /\ idx \in 0 .. n + 1 /\ try \in 0 .. Tries - 1
  /\ copies \in [Night -> [Chunk -> Nat]]
  /\ inflight \cup late \cup again \subseteq 0 .. n + 1
  /\ rc \in {0, 1, 2, Killed, NoRc} /\ parity \in {0, 1, 2, NoRc} /\ degraded \in BOOLEAN

None == [m \in Night |-> [c \in Chunk |-> 0]]
Gone == \A m \in Night, c \in Chunk : copies[m][c] = 0

Init ==
  /\ night = 1 /\ keyed \in BOOLEAN /\ stage = "fetch"
  /\ n = 0 /\ idx = 0 /\ try = 0
  /\ copies = [None EXCEPT ![0] = [c \in Chunk |-> 1]] /\ meta = 0
  /\ inflight = {} /\ late = {} /\ again = {}
  /\ rc = NoRc /\ parity = NoRc /\ degraded = FALSE

(* nightly.sh: a publish that did not end with 0 degrades the night.       *)
Exit(status) ==
  /\ rc' = status
  /\ IF status = 0 THEN stage' = "parity" /\ UNCHANGED degraded
     ELSE stage' = "over" /\ degraded' = TRUE

(* fetch_rows, build_statements: no writer lock in time, no credentials.   *)
Fetch ==
  /\ stage = "fetch"
  /\ \/ n' \in {0, Inserts} /\ stage' = "send" /\ idx' = 0 /\ try' = 0 /\ UNCHANGED <<rc, degraded>>
     \/ \E status \in {1, 2} : Exit(status) /\ UNCHANGED client
  /\ UNCHANGED <<night, keyed, server, inflight, late, again, parity>>

(* D1 executes statement k, or refuses rows it has already got.            *)
Refused(k) == keyed /\ k \in Chunk /\ k <= n /\ copies[night][k] > 0
Executes(k) ==
  IF Refused(k) THEN UNCHANGED server
  ELSE CASE k = 0     -> copies' = None /\ UNCHANGED meta
         [] k = n + 1 -> meta' = night /\ UNCHANGED copies
         [] OTHER     -> copies' = [copies EXCEPT ![night][k] = @ + 1] /\ UNCHANGED meta

Onward ==
  /\ try' = 0
  /\ IF idx = n + 1 THEN stage' = "assert" /\ UNCHANGED idx ELSE idx' = idx + 1 /\ UNCHANGED stage
  /\ UNCHANGED <<n, rc, degraded>>

(* An attempt failed: the next one, or RuntimeError out of publish() after *)
(* the last attempt or past the budget.                                    *)
Repeat ==
  /\ try < Tries - 1 /\ try' = try + 1 /\ UNCHANGED <<n, idx, stage, rc, degraded>>
\* Mutant: the statement is skipped.
GiveUp_SkipsStatement == try = Tries - 1 /\ Onward
GiveUp == Exit(1) /\ UNCHANGED client
Failed == (Repeat /\ again' = again \cup {idx}) \/ (GiveUp /\ UNCHANGED again)

Answered ==
  /\ stage = "send" /\ ~Refused(idx) /\ Executes(idx) /\ Onward
  /\ UNCHANGED <<night, keyed, inflight, late, again, parity>>

(* success = false, or no connection.                                      *)
Fails ==
  /\ stage = "send" /\ Failed
  /\ UNCHANGED <<night, keyed, server, inflight, late, parity>>

(* urlopen times out: the statement was executed, or may be later on.      *)
TimesOut ==
  /\ stage = "send" /\ Failed
  /\ \/ Executes(idx) /\ UNCHANGED inflight
     \/ inflight' = inflight \cup {idx} /\ UNCHANGED server
  /\ UNCHANGED <<night, keyed, late, parity>>

(* The budget is spent before the next statement goes out.                 *)
OverBudget ==
  /\ stage = "send" /\ try = 0 /\ idx > 0 /\ Exit(1)
  /\ UNCHANGED <<night, keyed, client, server, inflight, late, again, parity>>

Late ==
  /\ \E k \in inflight :
       /\ Executes(k) /\ inflight' = inflight \ {k} /\ late' = late \cup {k}
  /\ UNCHANGED <<night, keyed, stage, client, again, rc, parity, degraded>>

(* assert_d1_fresh: one request, not repeated.                             *)
AssertFresh ==
  /\ stage = "assert"
  /\ \/ meta = night /\ Exit(0)
     \/ Exit(1)
  /\ UNCHANGED <<night, keyed, client, server, inflight, late, again, parity>>

(* timeout 600, then SIGKILL.                                              *)
Kill ==
  /\ stage \in {"fetch", "send", "assert"} /\ Exit(Killed)
  /\ inflight' = IF stage = "send" THEN inflight \cup {idx} ELSE inflight
  /\ UNCHANGED <<night, keyed, client, server, late, again, parity>>

(* verify_campaign_data_parity.py: could not run (only a warning), or      *)
(* compares with what Supabase holds by now: an empty table always shows.  *)
Compare ==
  /\ stage = "parity" /\ stage' = "over"
  /\ parity' \in IF Gone THEN {1, 2} ELSE {0, 1, 2}
  /\ degraded' = (degraded \/ parity' = 1)
  /\ UNCHANGED <<night, keyed, client, server, inflight, late, again, rc>>

NextNight ==
  /\ stage = "over" /\ night < Nights
  /\ night' = night + 1 /\ stage' = "fetch" /\ n' = 0 /\ idx' = 0 /\ try' = 0
  /\ inflight' = {} /\ late' = {} /\ again' = {}
  /\ rc' = NoRc /\ parity' = NoRc /\ degraded' = FALSE
  /\ UNCHANGED <<keyed, server>>

Next ==
  \/ Fetch \/ Answered \/ Fails \/ TimesOut \/ OverBudget \/ Late \/ AssertFresh \/ Kill \/ Compare
  \/ NextNight

Spec == Init /\ [][Next]_vars

(***************************************************************************)
(* What Campaign Control may rely on.                                      *)
(***************************************************************************)
Mixed == \E m, o \in Night : m # o /\ \E c, d \in Chunk : copies[m][c] > 0 /\ copies[o][d] > 0

(* A meta row of tonight vouches for the table: all of tonight's rows and  *)
(* no others are there, once each unless their request was repeated,       *)
(* provided that no DELETE outlived its client.                            *)
FreshMeansWhole ==
  meta = night /\ 0 \notin late =>
    /\ ~Mixed
    /\ \A c \in 1 .. n : copies[night][c] > 0 /\ (c \notin again => copies[night][c] = 1)

(* A night that ends undegraded has tonight's meta row, and rows, unless   *)
(* the comparison with Supabase could not run: nothing else would notice   *)
(* that the mirror was empty.                                              *)
LoudUnlessFresh ==
  stage = "over" /\ ~degraded /\ 0 \notin late => meta = night /\ (parity = 2 \/ ~Gone)

(* What makes them inductive: what went out is what was reached, and what  *)
(* its client has given up on is repeated until the publish has ended;     *)
PublishInOrder ==
  /\ stage = "fetch" => n = 0 /\ idx = 0 /\ again = {} /\ late = {}
  /\ inflight \cup late \cup again \subseteq 0 .. idx
  /\ stage # "over" => inflight \subseteq again
  /\ meta <= night /\ (meta = night => idx = n + 1)
  /\ stage \in {"assert", "parity"} => idx = n + 1
  /\ stage = "parity" => meta = night

(* behind the DELETE there are tonight's rows only, those that were        *)
(* answered at least once, those sent once at most once, those still out   *)
(* or not yet sent not at all.                                             *)
WholeSoFar ==
  idx > 0 /\ 0 \notin late =>
    /\ \A m \in Night \ {night}, c \in Chunk : copies[m][c] = 0
    /\ \A c \in 1 .. n :
         /\ c < idx => copies[night][c] > 0
         /\ c \notin again => copies[night][c] <= 1
         /\ c \notin again /\ (c > idx \/ (c = idx /\ stage = "send") \/ c \in inflight) =>
              copies[night][c] = 0
PublishInv == TypeOK /\ PublishInOrder /\ WholeSoFar /\ LoudUnlessFresh
===============================================================================
